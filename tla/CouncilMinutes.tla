---------------------------- MODULE CouncilMinutes ----------------------------
(***************************************************************************)
(* One agenda item of a council meeting, the paragraph the clerk writes    *)
(* about it, and what audit/minutes_parser.py and audit/reconcile.py make  *)
(* of that paragraph: the item's final result, its votes, the members'     *)
(* voting record and the R4 exceptions.                                    *)
(*                                                                         *)
(* The council and the clerk are outside the program.  A paragraph is the  *)
(* sequence of the sentences the parser's patterns find in it:             *)
(*   motion   "Dr Rinne moved to <verb> ...", with the date of a           *)
(*            postponement or without                                      *)
(*   died     "The motion died for lack of a second"                       *)
(*   outcome  "Motion carried" (bare), "Motion to amend carried" (named),  *)
(*            "Main motion carried" (main)                                 *)
(*   all      'Voting "yes" - all members of the governing body', with the *)
(*            exception of some who voted the other way or did not vote    *)
(*   list     'Voting "yes" - Dr Rinne, Mr White'                          *)
(*   withdrawn                                                             *)
(***************************************************************************)
EXTENDS Naturals, Sequences, FiniteSets, SequencesExt, FiniteSetsExt

CONSTANTS Present,        \* the members present, all of them in the roster
          MaxSentences,   \* bound: sentences of a paragraph
          MaxVotes        \* bound: votes the clerk records

ASSUME MinutesConstants == IsFiniteSet(Present) /\ MaxSentences \in Nat /\ MaxVotes \in Nat

Main == "approve"
\* The motions that are put while another one is pending.
Secondary == {"amend", "postpone", "refer", "strike"}

VARIABLES
  pending,      \* the motions on the floor, the immediately pending one last
  disposition,  \* what became of the item
  ballots,      \* the votes recorded: [yes, no, silent, result]
  paragraph     \* the clerk's sentences

councilVars == <<pending, disposition, ballots, paragraph>>

CouncilInit ==
  /\ pending = <<>> /\ disposition = "open" /\ ballots = <<>> /\ paragraph = <<>>

Writes(sentences) ==
  /\ Len(paragraph) + Len(sentences) <= MaxSentences
  /\ paragraph' = paragraph \o sentences

Motion(verb, dated) == [type |-> "motion", verb |-> verb, dated |-> dated]
Died == [type |-> "died"]
Outcome(form, verb, result) == [type |-> "outcome", form |-> form, verb |-> verb, result |-> result]

-----------------------------------------------------------------------------
(* The council. *)

\* A main motion, or one on the motion that is pending; one without a second dies.
Move(verb, dated, seconded) ==
  /\ disposition \in {"open", "died"}
  /\ IF verb = Main THEN pending = <<>> ELSE pending # <<>>
  /\ verb # "amend" => "amend" \notin Range(pending)
  /\ dated => verb = "postpone"
  /\ Writes(IF seconded THEN <<Motion(verb, dated)>> ELSE <<Motion(verb, dated), Died>>)
  /\ pending' = IF seconded THEN Append(pending, verb) ELSE pending
  /\ disposition' = IF pending = <<>> THEN IF seconded THEN "open" ELSE "died" ELSE disposition
  /\ UNCHANGED ballots

\* The sentences the clerk has for a vote: one about all members with one kind of
\* exception, or a list for each side, which says nothing of those who did not vote.
All(side, except, other) == [type |-> "all", side |-> side, except |-> except, other |-> other]
List(side, names) == [type |-> "list", side |-> side, names |-> names]
ListOf(side, names) == IF names = {} THEN <<>> ELSE <<List(side, names)>>

Recorded(yes, no, silent) ==
  {ListOf("yes", yes) \o ListOf("no", no)}
  \cup (IF silent = {} THEN {<<All("yes", no, "no")>>, <<All("no", yes, "yes")>>} ELSE {})
  \cup (IF no = {} THEN {<<All("yes", silent, "none")>>} ELSE {})
  \cup (IF yes = {} THEN {<<All("no", silent, "none")>>} ELSE {})

Forms(verb) == IF verb = Main THEN {"bare", "main"} ELSE {"bare", "named"}

\* What becomes of the item when the pending motion is decided.
Disposed(verb, result) ==
  CASE verb = Main -> result
    [] verb = "postpone" /\ result = "carried" -> "postponed"
    [] verb = "refer" /\ result = "carried" -> "referred"
    [] OTHER -> "open"

Decide(result, form) ==
  /\ pending # <<>> /\ form \in Forms(Last(pending))
  /\ disposition' = Disposed(Last(pending), result)
  /\ pending' = IF disposition' = "open" THEN Front(pending) ELSE <<>>
  /\ \/ /\ Writes(<<Outcome(form, Last(pending), result)>>)
        /\ UNCHANGED ballots
     \/ /\ Len(ballots) < MaxVotes
        /\ \E yes \in SUBSET Present : \E no \in SUBSET (Present \ yes) :
             LET silent == Present \ (yes \cup no) IN
               /\ yes \cup no # {}
               /\ ballots' = Append(ballots, [yes |-> yes, no |-> no, silent |-> silent, result |-> result])
               /\ \E sentences \in Recorded(yes, no, silent) :
                    Writes(<<Outcome(form, Last(pending), result)>> \o sentences)

Withdraw ==
  /\ Len(pending) = 1
  /\ disposition' = "withdrawn" /\ pending' = <<>>
  /\ Writes(<<[type |-> "withdrawn"]>>)
  /\ UNCHANGED ballots

CouncilNext ==
  \/ \E verb \in {Main} \cup Secondary, dated, seconded \in BOOLEAN : Move(verb, dated, seconded)
  \/ \E result \in {"carried", "failed"}, form \in {"bare", "named", "main"} : Decide(result, form)
  \/ Withdraw

-----------------------------------------------------------------------------
(* parse_entry: which motion each outcome decides. *)

\* What _SUBSIDIARY names, and what the renaming of a bare outcome looks for.
Subsidiary == {"amend", "postpone", "refer"}
Renamed == Subsidiary \cup {"strike"}

\* The loop over the sentences: the first motion is the main one; last is the motion the
\* next outcome decides, died whether a motion has died since the last motion was made.
NoMotionYet == [main |-> "none", last |-> "none", atMain |-> FALSE, died |-> FALSE, outcomes |-> <<>>]

Moved(at, s) ==
  [at EXCEPT !.main = IF at.main = "none" THEN s.verb ELSE @, !.last = s.verb,
             !.atMain = at.main = "none", !.died = FALSE]

DecidedAsWritten(at, s) ==   \* a mutant: a bare outcome decides the main motion
  [at EXCEPT !.outcomes = Append(@, [verb |-> IF s.form = "named" THEN s.verb ELSE Main, result |-> s.result]),
             !.last = at.main, !.atMain = TRUE]

Decided(at, s) ==
  LET dies == at.last # "none" /\ ~at.atMain /\ at.died
      last == IF dies THEN at.main ELSE at.last
      verb == CASE s.form = "named" -> s.verb
                [] s.form = "main" -> Main
                [] s.form = "bare" -> IF last \in Renamed THEN last ELSE Main
  IN [at EXCEPT !.outcomes = Append(@, [verb |-> verb, result |-> s.result]),
                !.last = at.main, !.atMain = at.main # "none"]

Read(at, s) ==
  CASE s.type = "motion" -> Moved(at, s)
    [] s.type = "died" -> [at EXCEPT !.died = TRUE]
    [] s.type = "outcome" -> Decided(at, s)
    [] OTHER -> at

Understood(text) ==
  LET at[i \in 0 .. Len(text)] == IF i = 0 THEN NoMotionYet ELSE Read(at[i-1], text[i])
  IN at[Len(text)]

Outcomes(text) == Understood(text).outcomes

Has(text, type) == \E i \in DOMAIN text : text[i].type = type
DateGiven(text) == \E i \in DOMAIN text : text[i].type = "motion" /\ text[i].dated

\* final_result.
FinalResult(text) ==
  LET outcomes == Outcomes(text)
      main == {i \in DOMAIN outcomes : outcomes[i].verb \notin Subsidiary}
      carried(verb) == \E i \in DOMAIN outcomes : outcomes[i].verb = verb /\ outcomes[i].result = "carried"
  IN IF outcomes # <<>>
     THEN CASE carried("postpone") /\ (DateGiven(text) \/ main = {}) -> "postponed"
            [] ~(carried("postpone") /\ (DateGiven(text) \/ main = {})) /\ main # {} -> outcomes[Max(main)].result
            [] ~carried("postpone") /\ main = {} /\ carried("refer") -> "referred"
            [] OTHER -> "none"
     ELSE IF Has(text, "died") THEN "died"
     ELSE IF Has(text, "withdrawn") THEN "withdrawn"
     ELSE IF \E i \in DOMAIN text : text[i].type = "motion" /\ text[i].verb = "refer" THEN "referred"
     ELSE "none"

-----------------------------------------------------------------------------
(* parse_entry: the votes. *)

ReadVote(s) ==
  IF s.type = "list"
  THEN [yes |-> IF s.side = "yes" THEN s.names ELSE {}, no |-> IF s.side = "no" THEN s.names ELSE {},
        silent |-> {}, listed |-> TRUE]
  ELSE [yes |-> IF s.side = "yes" THEN Present \ s.except ELSE IF s.other = "yes" THEN s.except ELSE {},
        no |-> IF s.side = "no" THEN Present \ s.except ELSE IF s.other = "no" THEN s.except ELSE {},
        silent |-> IF s.other = "none" THEN s.except ELSE {}, listed |-> FALSE]

\* Two lists in a row, of one side each, are the two halves of one vote.
Halves(a, b) ==
  /\ a.listed /\ b.listed
  /\ \/ a.no = {} /\ b.no # {} /\ b.yes = {}
     \/ a.yes = {} /\ b.yes # {} /\ b.no = {}

SidesApart(a, b) == a.listed /\ b.listed /\ a = b   \* a mutant: each list is a vote of its own

Paired(a, b) == Halves(a, b)

\* The events of an entry: outcomes and votes, a vote with the outcome before it.
AddVote(at, v) ==
  IF at.voted /\ Paired(Last(at.votes), v)
  THEN [at EXCEPT !.votes[Len(at.votes)].yes = @ \cup v.yes, !.votes[Len(at.votes)].no = @ \cup v.no]
  ELSE [at EXCEPT !.votes = Append(@, [yes |-> v.yes, no |-> v.no, silent |-> v.silent,
                                       listed |-> v.listed, result |-> at.result]),
                  !.voted = TRUE]

ReadEvent(at, s) ==
  CASE s.type \in {"all", "list"} -> AddVote(at, ReadVote(s))
    [] s.type = "outcome" -> [at EXCEPT !.result = s.result, !.voted = FALSE]
    [] s.type = "motion" -> [at EXCEPT !.voted = FALSE]
    [] OTHER -> at

NothingNoted == [votes |-> <<>>, result |-> "none", voted |-> FALSE]

Noted(text) ==
  LET at[i \in 0 .. Len(text)] == IF i = 0 THEN NothingNoted ELSE ReadEvent(at[i-1], text[i])
  IN at[Len(text)]

Votes(text) == Noted(text).votes

-----------------------------------------------------------------------------
(* reconcile.py on the parsed entry. *)

\* record_integrity.
VoteDiffersFromRoster(v) ==
  Cardinality(v.yes) + Cardinality(v.no) + Cardinality(v.silent) # Cardinality(Present)

MotionWithoutOutcome(text) ==
  /\ Has(text, "motion") /\ Outcomes(text) = <<>>
  /\ FinalResult(text) \notin {"died", "withdrawn"}

\* voting_record: a member's counts, and how often two members voted alike when it
\* was contested.
Contested(v) == v.yes # {} /\ v.no # {}

Minority(v) ==
  IF Cardinality(v.no) < Cardinality(v.yes) THEN v.no
  ELSE IF Cardinality(v.yes) < Cardinality(v.no) THEN v.yes ELSE {}

\* How many of a sequence of votes P holds of.
Count(votes, P(_)) == Cardinality({i \in DOMAIN votes : P(votes[i])})

Record(votes, m) ==
  [cast |-> Count(votes, LAMBDA v : m \in v.yes \cup v.no),
   no |-> Count(votes, LAMBDA v : m \in v.no),
   contested |-> Count(votes, LAMBDA v : Contested(v) /\ m \in v.yes \cup v.no),
   minority |-> Count(votes, LAMBDA v : Contested(v) /\ m \in Minority(v))]

Together(votes, a, b) ==
  Count(votes, LAMBDA v : Contested(v) /\ {a, b} \subseteq v.yes \cup v.no)

Agree(votes, a, b) ==
  Count(votes, LAMBDA v : Contested(v) /\ ({a, b} \subseteq v.yes \/ {a, b} \subseteq v.no))

CouncilSpec == CouncilInit /\ [][CouncilNext]_councilVars
=============================================================================
