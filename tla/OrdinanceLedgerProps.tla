------------------------- MODULE OrdinanceLedgerProps -------------------------
(***************************************************************************)
(* What the checks on the official record promise: nobody is accused of    *)
(* what the agendas and the minutes on file do not bear out.               *)
(***************************************************************************)
EXTENDS OrdinanceLedger

\* The meetings held since a date on whose agenda was the ordinance itself.
TakenUp(o, from) == {i \in DOMAIN meetings : from <= meetings[i].held /\ \E t \in meetings[i].agenda : t.of = o}

Misdated(m) == Date(m) # m.held

PostponementsKept(e, status, takenUp) ==
  LET onTheDay == {i \in takenUp : meetings[i].held = e.to /\ ~Misdated(meetings[i])} IN
  /\ status \in Broken => onTheDay = {}
  /\ status = "not_found_after_target" => \A i \in takenUp : meetings[i].held < e.to
  /\ status = "honored" /\ other < 50 =>
       onTheDay # {} \/ \E i \in takenUp : Misdated(meetings[i]) /\ meetings[i].listed = e.to

\* The entries of a meeting's minutes about an ordinance.
About(o, m) == {k \in DOMAIN m.entries : m.entries[k].title.of = o}

OutcomeIsItsOwn(t, m, k) ==
  m.kind # "unfiled" => /\ About(t.of, m) # {} => k \in About(t.of, m)
                        /\ About(t.of, m) = {} /\ k # 0 => other >= 30

\* SAFETY.  A postponement is called broken only when the ordinance was not on the agenda
\* of the date it was postponed to, however it was renamed, and lost only when it was on no
\* later agenda either; one that is called kept was kept, unless another ordinance of a
\* similar title was on that agenda.  (A meeting without minutes counts for the day it is
\* listed for.)  The minutes are called silent about an item only when they have no entry
\* about it, and an item gets the outcome of an entry about it whenever there is one, and
\* that of another ordinance only when there is none and the titles are similar (R1, R3 and
\* minutes_entry_for).
AccusationsAreReal ==
  /\ \A e \in ToSet(OnFile) : e.to > 0 => PostponementsKept(e, Status(e), TakenUp(e.title.of, 0))
  /\ \A i \in DOMAIN meetings : \A t \in meetings[i].agenda :
       /\ t \in Silent(meetings[i]) => About(t.of, meetings[i]) = {}
       /\ OutcomeIsItsOwn(t, meetings[i], EntryFor(t, meetings[i]))

\* Recorded readings never more than 200 days apart.
NeverDormant(readings) == \A i \in 1 .. (Len(readings) - 1) : readings[i+1].date - readings[i].date <= 200

\* What the council did with an ordinance, in the meetings of some kinds.
Acts(o, kinds) ==
  UNION {{[held |-> meetings[m].held, at |-> <<m, k>>, of |-> meetings[m].entries[k]] : k \in About(o, meetings[m])} :
           m \in {i \in DOMAIN meetings : meetings[i].kind \in kinds}}

Decides(entry) == entry.result = "failed" \/ (entry.reading = 3 /\ entry.result = "carried")

\* The flags of a lifecycle of the ordinance o.
FlagsAreFacts(group, o, acts) ==
  /\ Adopted(group) => next[o] = 4 /\ \E a \in acts : a.of.reading = 3 /\ a.of.result = "carried"
  /\ Failures(group) # {} => next[o] = 4 /\ ~Adopted(group)
  /\ LateSubstitutes(group) # {} => \E a \in acts : a.of.reading = 3 /\ a.of.substitute
  /\ Cardinality(Postponements(group)) <= Cardinality({a \in acts : a.of.result = "postponed"})
  /\ IsPending(group) => \A a \in acts : Decides(a.of) => a.held - Last(group).date > 200

IsWholeLifecycle(group, o) ==
  \A i \in Skipping(group) : \A a \in Acts(o, {"regular"}) : a.of.reading # group[i].reading - 1

\* SAFETY.  The lifecycles that are put together title by title are those of the
\* ordinances: no lifecycle mixes two of them, and one that never lay dormant for more than
\* 200 days has a single lifecycle, of all its recorded readings in their order, through
\* amended titles and several readings on one day.  So a reading is said to lack the one
\* before it only when no minutes of a regular meeting have that one, an ordinance is called
\* adopted or failed only when it was, and it is not called pending when a regular meeting
\* has decided it since (reading_sequences; an ordinance dormant for longer is taken for a
\* new one, and a reading at a special meeting is none).
LifecyclesAreOrdinances ==
  LET readings == Readings
      groups == Lifecycles(readings)
      readingsOf(o) == FlattenSeq([i \in DOMAIN readings |->
                                     IF readings[i].title.of = o THEN <<readings[i]>> ELSE <<>>])
      of(o) == {g \in DOMAIN groups : \E i \in DOMAIN groups[g] : groups[g][i].title.of = o}
  IN /\ \A g \in DOMAIN groups :
          /\ \A i \in DOMAIN groups[g] : groups[g][i].title.of = groups[g][1].title.of
          /\ FlagsAreFacts(groups[g], groups[g][1].title.of, Acts(groups[g][1].title.of, {"regular"}))
     /\ \A o \in Ordinance :
          NeverDormant(readingsOf(o)) /\ readingsOf(o) # <<>> =>
            \E g \in of(o) : of(o) = {g} /\ groups[g] = readingsOf(o) /\ IsWholeLifecycle(groups[g], o)
=============================================================================
