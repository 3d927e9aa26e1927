------------------------- MODULE CouncilMinutesProps -------------------------
(***************************************************************************)
(* What the parsed minutes promise about the council: the result of the    *)
(* item, the members' voting record and the exceptions of R4 are what      *)
(* happened in the room, as far as the clerk's sentences tell it.          *)
(***************************************************************************)
EXTENDS CouncilMinutes

\* The rule by which the clerk writes a bare "Motion carried" of a secondary motion: it
\* follows that motion.  (A bare outcome of a motion under which another one was put is
\* read as the main motion's, by the comment over the loop; it has no reading that is
\* right for every paragraph.)
Telling == {i \in DOMAIN paragraph : paragraph[i].type \in {"motion", "died", "outcome"}}

PutJustBefore(i, verb) ==
  LET before == {j \in Telling : j < i} IN
  before # {} /\ LET last == paragraph[Max(before)] IN last.type = "motion" /\ last.verb = verb

Clear ==
  \A i \in Telling :
    paragraph[i].type = "outcome" /\ paragraph[i].form = "bare" /\ paragraph[i].verb # Main
      => PutJustBefore(i, paragraph[i].verb)

\* A motion to strike was decided: parse_entry names it but counts it as a main motion.
Struck == \E i \in DOMAIN paragraph : paragraph[i].type = "outcome" /\ paragraph[i].verb = "strike"

\* SAFETY.  The final result of an item is what became of it, through any nesting of
\* amendments, postponements and referrals, motions that died and bare outcomes.  Left out
\* is what the code gets wrong: a postponed or referred item with a decided motion to
\* strike takes the result of the latter, and "withdrawn" is looked for only in a
\* paragraph without an outcome or a motion that died (minutes_parser.py:329-346).
FinalIsTruth ==
  Clear =>
    /\ disposition \in {"carried", "failed", "died"} => FinalResult(paragraph) = disposition
    /\ disposition \in {"postponed", "referred"} /\ ~Struck => FinalResult(paragraph) = disposition
    /\ disposition = "withdrawn" /\ ~Has(paragraph, "outcome") /\ ~Has(paragraph, "died")
         => FinalResult(paragraph) = disposition

\* The same counts taken from the ballots, member by member and pair by pair.
Cast(m) == {i \in DOMAIN ballots : m \notin ballots[i].silent}
Divided == {i \in DOMAIN ballots : ballots[i].yes # {} /\ ballots[i].no # {}}
SideOf(m, i) == IF m \in ballots[i].yes THEN ballots[i].yes ELSE ballots[i].no

\* SAFETY.  The voting record is the ballots': every vote is found once, whichever of the
\* clerk's forms it was written in, with the result it decided, a member's dissent counts
\* only where fewer members than the others' voted with him, and two members agree when
\* they were on one side of a contested vote (voting_record).  R4 accuses nobody who did his
\* work: a vote that differs from the roster is one some member present did not cast, and a
\* motion without a recorded outcome is one of an item nobody disposed of (record_integrity).
RecordIsTruth ==
  LET votes == Votes(paragraph) IN
  /\ Len(votes) = Len(ballots)
  /\ \A i \in DOMAIN ballots : votes[i].result = ballots[i].result
  /\ \A m \in Present :
       Record(votes, m) =
         [cast |-> Cardinality(Cast(m)),
          no |-> Cardinality({i \in DOMAIN ballots : m \in ballots[i].no}),
          contested |-> Cardinality(Cast(m) \cap Divided),
          minority |-> Cardinality({i \in Cast(m) \cap Divided :
                         2 * Cardinality(SideOf(m, i)) < Cardinality(ballots[i].yes \cup ballots[i].no)})]
  /\ \A a \in Present : \A b \in Present \ {a} :
       LET both == Cast(a) \cap Cast(b) \cap Divided IN
         /\ Together(votes, a, b) = Cardinality(both)
         /\ Agree(votes, a, b) = Cardinality({i \in both : SideOf(a, i) = SideOf(b, i)})
  /\ \A i \in DOMAIN votes :
       VoteDiffersFromRoster(votes[i]) => votes[i].silent = {} /\ ballots[i].silent # {}
  /\ MotionWithoutOutcome(paragraph) => disposition = "open"
=============================================================================
