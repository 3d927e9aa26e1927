---------------------------- MODULE OrdinanceLedger ----------------------------
(***************************************************************************)
(* The ordinances of a city council over several meetings, what the        *)
(* agendas and the minutes on file say of them, and the checks of          *)
(* audit/reconcile.py on that record: R1 (postponements are kept), R2 (the *)
(* readings of an ordinance, put together over the meetings) and R3        *)
(* (agenda items the minutes are silent about).                            *)
(*                                                                         *)
(* The council and its clerk are outside the program.  A meeting has the   *)
(* date it was held and the one the city's listing gives (in days), its    *)
(* kind (regular, special, or regular with no text of the minutes          *)
(* available), its agenda, and the entries of its minutes.                 *)
(* The title of an ordinance is the ordinance and its version: the council *)
(* may amend it.  title_sim of two titles is a number of percent.          *)
(***************************************************************************)
EXTENDS Integers, Sequences, FiniteSets, SequencesExt, FiniteSetsExt

CONSTANTS Ordinance,
          Sessions,     \* [gap, kind, late] of meetings: the days since the one before, the
                        \* kind, and the days the listing is late
          Agendas,      \* the sets of ordinances an agenda may have
          Decisions,     \* [result, after, amended] a reading of each ordinance may have: after
                        \* is the days it is postponed by, 0 for no date
          MaxMeetings,  \* bound: meetings
          MaxEntries,   \* bound: entries of all minutes together
          Kept,         \* title_sim of two versions of one ordinance
          Others,       \* the title_sim two ordinances may have
          RecordStart   \* the date up to which a lifecycle may begin before the record

ASSUME LedgerConstants ==
  /\ MaxMeetings \in Nat /\ MaxEntries \in Nat /\ Agendas \subseteq SUBSET Ordinance
  /\ \A session \in Sessions : /\ session.gap \in Nat /\ session.late \in Nat
                                /\ session.kind \in {"regular", "special", "unfiled"}
  /\ \A o \in Ordinance : \A decision \in Decisions[o] :
       /\ decision.result \in {"carried", "failed", "postponed"} /\ decision.after \in Nat
       /\ decision.amended \in BOOLEAN
       /\ decision.after # 0 => decision.result = "postponed"
       /\ decision.amended => decision.result = "carried"
  /\ Kept \in 72 .. 100 /\ Others \subseteq 0 .. 71 /\ RecordStart \in Nat

VARIABLES
  meetings,  \* [held, listed, kind, agenda, entries]
  next,      \* the reading each ordinance is due for, 4 when it was adopted or has failed
  version,   \* the version of its title
  other      \* how similar the titles of two ordinances are

ledgerVars == <<meetings, next, version, other>>

LedgerInit ==
  /\ meetings = <<>>
  /\ next = [o \in Ordinance |-> 1] /\ version = [o \in Ordinance |-> 1]
  /\ other \in Others

Title(o) == [of |-> o, version |-> version[o]]

-----------------------------------------------------------------------------
(* The council. *)

Convene(session, items) ==
  LET held == IF meetings = <<>> THEN 1 ELSE Last(meetings).held + session.gap IN
  /\ Len(meetings) < MaxMeetings
  /\ meetings = <<>> => session.kind = "regular"   \* bound: the record begins with a regular meeting
  /\ meetings' = Append(meetings,
       [held |-> held, listed |-> held + session.late, kind |-> session.kind,
        agenda |-> {Title(o) : o \in items}, entries |-> <<>>])
  /\ UNCHANGED <<next, version, other>>

EntriesSoFar == FoldLeft(LAMBDA sum, m : sum + Len(m.entries), 0, meetings)

\* An item of the agenda is carried at its next reading, fails, or is postponed, to a
\* date or without one.  A reading may give the ordinance a new title, by a substitute, and
\* may be followed by the next one on the same day.
Act(o, decision) ==
  LET today == Last(meetings)
      amended == decision.amended IN
  /\ meetings # <<>> /\ EntriesSoFar < MaxEntries /\ next[o] <= 3
  /\ \A i \in DOMAIN today.entries : today.entries[i].title.of = o => today.entries[i].result # "postponed"
  /\ amended => \A any \in Ordinance : version[any] = 1   \* bound: one new title
  /\ \E title \in {t \in today.agenda : t.of = o} :
       meetings' = [meetings EXCEPT ![Len(meetings)].entries =
         Append(@, [title |-> title, reading |-> next[o], result |-> decision.result, substitute |-> amended,
                    to |-> IF decision.after = 0 THEN 0 ELSE today.held + decision.after])]
  /\ next' = [next EXCEPT ![o] = CASE decision.result = "carried" -> @ + 1
                                   [] decision.result = "failed" -> 4
                                   [] decision.result = "postponed" -> @]
  /\ version' = [version EXCEPT ![o] = IF amended THEN 2 ELSE @]
  /\ UNCHANGED other

LedgerNext ==
  \/ \E session \in Sessions, items \in Agendas : Convene(session, items)
  \/ \E o \in Ordinance : \E decision \in Decisions[o] : Act(o, decision)

-----------------------------------------------------------------------------
(* title_sim, and the record. *)

Sim(t, u) == IF t = u THEN 100 ELSE IF t.of = u.of THEN Kept ELSE other

\* A meeting's date is the one printed in its minutes; without them it is the listing's,
\* which may be off by a day.
Date(m) == IF m.kind = "unfiled" THEN m.listed ELSE m.held

\* The entries of the minutes on file, with the meeting they are of.
EntriesOf(m) ==
  IF m.kind = "unfiled" THEN <<>>
  ELSE [i \in DOMAIN m.entries |->
         [date |-> Date(m), title |-> m.entries[i].title, reading |-> m.entries[i].reading,
          result |-> m.entries[i].result, substitute |-> m.entries[i].substitute, to |-> m.entries[i].to]]

OnFile == FlattenSeq([i \in DOMAIN meetings |-> EntriesOf(meetings[i])])
Dates == {Date(meetings[i]) : i \in DOMAIN meetings}

-----------------------------------------------------------------------------
(* R1: postponement_continuity. *)

OnLaterAgenda(title, from, to) ==   \* a mutant: the first day of the range is left out
  {i \in DOMAIN meetings : /\ from < Date(meetings[i]) /\ Date(meetings[i]) <= to
                           /\ \E t \in meetings[i].agenda : Sim(title, t) >= 50}

\* The meetings from one date to another whose agenda has an item of such a title.
OnAgenda(title, from, to) ==
  {i \in DOMAIN meetings : /\ from <= Date(meetings[i]) /\ Date(meetings[i]) <= to
                           /\ \E t \in meetings[i].agenda : Sim(title, t) >= 50}

Status(e) ==
  IF OnAgenda(e.title, e.to, e.to) # {} THEN "honored"
  ELSE IF e.to \notin Dates
  THEN IF e.to > Max(Dates) THEN "target_meeting_not_in_record" ELSE "no_meeting_on_target_date"
  ELSE IF OnAgenda(e.title, e.to, Max(Dates)) # {} THEN "reappeared_later"
  ELSE "not_found_after_target"

Broken == {"no_meeting_on_target_date", "reappeared_later", "not_found_after_target"}

-----------------------------------------------------------------------------
(* R2: reading_sequences. *)

\* The readings in the minutes of meetings that were not special.
ReadingsOnFile ==
  FlattenSeq([i \in DOMAIN meetings |-> IF meetings[i].kind = "special" THEN <<>> ELSE EntriesOf(meetings[i])])

\* They are sorted by date and by reading; equal ones keep their order.
Sooner(acts, i, j) ==
  \/ acts[i].date < acts[j].date
  \/ /\ acts[i].date = acts[j].date
     /\ acts[i].reading < acts[j].reading \/ (acts[i].reading = acts[j].reading /\ i < j)

Rank(acts, i) == Cardinality({j \in DOMAIN acts : Sooner(acts, j, i)}) + 1

Readings ==
  LET acts == ReadingsOnFile IN [k \in DOMAIN acts |-> acts[CHOOSE i \in DOMAIN acts : Rank(acts, i) = k]]

Recent(group, e) == e.date - Last(group).date <= 200

SimilarEnoughForAnAgenda(sim) == sim >= 50   \* a mutant: the threshold of R1 is used

SimilarEnough(sim) == sim >= 72

\* A reading goes on with the lifecycle of the most similar last title, the first of equal
\* ones, if it is similar enough and not too old; otherwise it begins one.
Place(groups, e) ==
  LET open == {i \in DOMAIN groups : Recent(groups[i], e)}
      sim(i) == Sim(e.title, Last(groups[i]).title)
      best == CHOOSE i \in open : \A j \in open : sim(j) < sim(i) \/ (sim(j) = sim(i) /\ i <= j)
  IN IF open # {} /\ SimilarEnough(sim(best))
     THEN [groups EXCEPT ![best] = Append(@, e)]
     ELSE Append(groups, <<e>>)

Lifecycles(readings) ==
  LET after[k \in 0 .. Len(readings)] == IF k = 0 THEN <<>> ELSE Place(after[k-1], readings[k])
  IN after[Len(readings)]

\* The readings without the one before them, "in the record window".
Skipping(group) ==
  {i \in DOMAIN group : /\ group[i].reading > 1 /\ group[1].date > RecordStart
                        /\ \A j \in 1 .. (i - 1) : group[j].reading # group[i].reading - 1}

\* What else is flagged of a lifecycle, and whether it is called adopted.
Postponements(group) == {i \in DOMAIN group : group[i].result = "postponed"}
Failures(group) == {i \in DOMAIN group : group[i].result = "failed"}
LateSubstitutes(group) == {i \in DOMAIN group : group[i].reading = 3 /\ group[i].substitute}
IsPending(group) == Last(group).result = "postponed" /\ Last(group).to # 0
Adopted(group) == \E i \in DOMAIN group : group[i].reading = 3 /\ group[i].result = "carried"

-----------------------------------------------------------------------------
(* R3: agenda_minutes_coverage, and the outcome of an item. *)

\* The items of an agenda that no entry of the meeting's minutes is similar to.
Silent(m) ==
  IF m.kind = "unfiled" \/ m.entries = <<>> THEN {}
  ELSE {t \in m.agenda : \A i \in DOMAIN m.entries : Sim(t, m.entries[i].title) < 34}

\* minutes_entry_for: the entry an item heard in the meeting gets its outcome from, the
\* first of the most similar ones, 0 for none.
EntryFor(title, m) ==
  LET sim(i) == Sim(title, m.entries[i].title)
      alike == {i \in DOMAIN m.entries :
                  sim(i) >= 30 /\ \A j \in DOMAIN m.entries : sim(j) <= sim(i)}
  IN IF m.kind = "unfiled" \/ alike = {} THEN 0 ELSE Min(alike)

LedgerSpec == LedgerInit /\ [][LedgerNext]_ledgerVars
=============================================================================
