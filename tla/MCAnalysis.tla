------------------------------ MODULE MCAnalysis ------------------------------
(***************************************************************************)
(* An instance of CouncilMinutes, MeetingAnalysis and OrdinanceLedger for  *)
(* TLC.  build_analysis.py reads the minutes, the transcript of a meeting  *)
(* and the record of all meetings independently of each other, so the run  *)
(* grows one of them at a time and leaves the others empty.                *)
(***************************************************************************)
EXTENDS CouncilMinutesProps, MeetingAnalysisProps, OrdinanceLedgerProps

AnalysisInit == CouncilInit /\ MeetingInit /\ LedgerInit

AnalysisNext ==
  \/ said = <<>> /\ meetings = <<>> /\ CouncilNext /\ UNCHANGED <<said, ledgerVars>>
  \/ paragraph = <<>> /\ meetings = <<>> /\ MeetingNext /\ UNCHANGED <<councilVars, ledgerVars>>
  \/ paragraph = <<>> /\ said = <<>> /\ LedgerNext /\ UNCHANGED <<councilVars, said>>

AnalysisSpec == AnalysisInit /\ [][AnalysisNext]_<<councilVars, said, ledgerVars>>

\* The members are told apart by nothing but their votes.
Members == Permutations(Present)

\* Regular meetings two weeks and half a year apart, a special one, and one whose minutes
\* are a scan without text; the listing of the last two is a day late.
MCSessions ==
  { [gap |-> 14, kind |-> "regular", late |-> 0], [gap |-> 190, kind |-> "regular", late |-> 0],
    [gap |-> 14, kind |-> "special", late |-> 1], [gap |-> 14, kind |-> "unfiled", late |-> 1] }

MCAgendas == {{"fees"}, {"fees", "rates"}}

Decision(result, after, amended) == [result |-> result, after |-> after, amended |-> amended]

\* Whatever may become of the one ordinance, while the other goes on or is postponed.
MCDecisions ==
  LET usual == {Decision("carried", 0, FALSE), Decision("postponed", 14, FALSE)}
      rare == {Decision("carried", 0, TRUE), Decision("failed", 0, FALSE), Decision("postponed", 0, FALSE)}
  IN "rates" :> usual \cup rare @@ "fees" :> usual

\* Three items, two of which are about the sewer.
MCAgenda ==
  << [no |-> "1", words |-> {"sewer", "main"}],
     [no |-> "2", words |-> {"sewer", "rates", "fees"}],
     [no |-> "3", words |-> {"plat"}] >>

Mention(no, words, leads) == [no |-> no, words |-> words, leads |-> leads]
Reading(mentions) == [mentions |-> mentions, cues |-> <<>>, says |-> "nothing", after |-> 9]
Cue(cues) == [mentions |-> <<>>, cues |-> cues, says |-> "nothing", after |-> 9]
Statement(says, after) == [mentions |-> <<>>, cues |-> <<>>, says |-> says, after |-> after]

\* Items read out, two mentioned in one segment, one in the segment of a claim; every
\* order of cues; a claim in the second of the segment before and in the next one.
MCSegments ==
  { Reading(<<Mention("1", {"sewer", "main"}, TRUE)>>),
    Reading(<<Mention("3", {"plat"}, TRUE), Mention("1", {"sewer"}, FALSE)>>),
    [Statement("claim", 1) EXCEPT !.mentions = <<Mention("2", {"sewer", "rates"}, TRUE)>>],
    Cue(<<"in">>), Cue(<<"back">>), Cue(<<"back", "in">>), Cue(<<"in", "back">>),
    Statement("claim", 0), Statement("reply", 9), Statement("topic", 0) }
=============================================================================
