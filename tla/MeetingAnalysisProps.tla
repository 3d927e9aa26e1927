------------------------- MODULE MeetingAnalysisProps -------------------------
(***************************************************************************)
(* What the analysis of a transcript promises: the alignment is the best   *)
(* there is, every segment belongs to one item by all the ways the code    *)
(* asks for it, and the roles follow the floor of the meeting.             *)
(***************************************************************************)
EXTENDS MeetingAnalysis

\* Any matching of items and anchors in the order of the agenda and of time.
IsMatching(M) == \A c, d \in M : c = d \/ Before(c, d) \/ Before(d, c)

Weight(M, anchors) == FoldSet(LAMBDA c, sum : sum + Score(c[1], anchors[c[2]]), 0, M)

\* SAFETY.  The alignment is a matching of the highest score there is: of the pairs of an
\* item and an anchor it takes candidates only, in the order of the agenda and of time, and
\* no other such choice weighs more, whatever numbers were mentioned in passing.
AlignmentIsBest ==
  LET anchors == Anchors
      chain == Chain(anchors)
      chosen == ToSet(chain)
  IN /\ chosen \subseteq Candidates(anchors)
     /\ \A i \in 1 .. (Len(chain) - 1) : Before(chain[i], chain[i + 1])
     /\ \A M \in SUBSET Candidates(anchors) : IsMatching(M) => Weight(M, anchors) <= Weight(chosen, anchors)

\* A segment lies in the bounds of the item of its time, and so do the claims.
ItemsHaveTheirSegments(aligned, bounds) ==
  /\ \A i \in DOMAIN said : Within(bounds, i) = {ItemAt(aligned, said[i].ts)} \ {0}
  /\ \A k \in DOMAIN aligned : ClaimsOf(k, aligned) = {i \in Claims : k \in Within(bounds, i)}

\* The seconds of the roles in an item are its duration.
SecondsAddUp(aligned, bounds, roles) ==
  \A k \in DOMAIN aligned :
    LET end == IF k < Len(aligned) THEN aligned[k + 1].start ELSE Last(said).ts
        seconds(role) == RoleSeconds(role, bounds[k].from, bounds[k].below, roles)
    IN seconds("agenda_reading") + seconds("public_comment") + seconds("official") = end - aligned[k].start

\* The public's introductions of all items, one by one, are those since the first anchor.
SpeakersCountedOnce(bounds, roles) ==
  bounds # <<>> =>
    MapThenSumSet(LAMBDA k : CommentStarts(bounds[k].from, bounds[k].below, roles), DOMAIN bounds)
      = CommentStarts(bounds[1].from, Len(said) + 1, roles)

\* A response is a later one of an official, to a claim of an item within the item.
ResponsesAnswer(bounds, roles) ==
  \A i \in Claims :
    LET j == Response(i, roles, bounds) IN
    j # 0 => /\ i < j /\ roles[j] = "official"
             /\ Within(bounds, i) # {} => Within(bounds, j) = Within(bounds, i)

ClaimsCountWhereMade ==
  \A i \in Claims :
    /\ i \in CountedIn(PassageOf(i))
    /\ \A p \in Passages \ {PassageOf(i)} :
         i \in CountedIn(p) => said[i].ts - Ends(p) \in {0, 1} \/ said[i].ts = Starts(p)

OneItem(aligned, bounds, roles) ==
  /\ ItemsHaveTheirSegments(aligned, bounds)
  /\ SecondsAddUp(aligned, bounds, roles)
  /\ SpeakersCountedOnce(bounds, roles)
  /\ ResponsesAnswer(bounds, roles)

\* SAFETY.  The item of a segment is one thing: from the first anchor on, a segment lies in
\* the bounds of exactly the item that item_at gives for its time, before it in none, even
\* where pieces of a paragraph share a timestamp or two items were read in one segment.  So
\* the claims the items are credited with are those in their bounds, and the response to a
\* claim of an item was given later, by an official, before the next item was read.  The
\* seconds of the roles in an item add up to its duration, and a speaker of the public is
\* counted in one item.  The same of the passages of the first pass: a claim counts for the
\* one it was made in, and for another only when it was made in the second that one starts
\* or within a second after its last timestamp.
OneItemAtATime ==
  LET aligned == Aligned IN
  OneItem(aligned, Bounds(aligned), Roles(aligned)) /\ ClaimsCountWhereMade

\* Who has the floor after a segment: the last cue in it tells, or the reading of an item.
FloorAfter(i, readings) ==
  LET told == {j \in 1 .. i : j \in readings \/ said[j].cues # <<>>} IN
  /\ told # {}
  /\ Max(told) \notin readings
  /\ Last(said[Max(told)].cues) = "in"

\* The cues of a segment that the code, which looks at the first of each kind, misreads.
Misread(cues, floor) ==
  /\ "in" \in Range(cues) /\ "back" \in Range(cues)
  /\ IF floor THEN Last(cues) = cues[1] ELSE Last(cues) = "back"

HeldTheFloor(roles) ==
  LET readings == {i \in DOMAIN said : roles[i] = "agenda_reading"}
      floor(i) == FloorAfter(i, readings)
      misread(i) == i \notin readings /\ Misread(said[i].cues, floor(i - 1))
  IN \A i \in DOMAIN said :
       said[i].cues = <<>> /\ i \notin readings /\ (\A j \in 1 .. (i - 1) : ~misread(j))
         => roles[i] = IF floor(i - 1) THEN "public_comment" ELSE "official"

\* SAFETY.  A segment without a cue has the role of whoever has the floor: the public from
\* an introduction until the hand-back or the reading of an item (alignment.py:24-27), with
\* several cues in a segment and mentions that are not readings.  Left out is what the code
\* gets wrong: of several cues in a segment it looks at the first introduction and the
\* first hand-back only, and at no hand-back while the council has the floor, so that an
\* introduction and the hand-back in one segment leave it with the public
\* (alignment.py:213-221).
RolesFollowTheFloor == HeldTheFloor(Roles(Aligned))
=============================================================================
