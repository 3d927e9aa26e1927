---------------------------- MODULE MeetingAnalysis ----------------------------
(***************************************************************************)
(* The transcript of a meeting and what audit/alignment.py,                *)
(* audit/claims.py and audit/build_analysis.py make of it: the agenda      *)
(* items it is aligned to, the role of every segment, the claims and their *)
(* responses, and the claims of a passage.                                 *)
(*                                                                         *)
(* The meeting is outside the program.  A segment is one of the captions   *)
(* [ts, text] of _timestamped_segments, of whose text is kept what the     *)
(* patterns find in it:                                                    *)
(*   mentions  the "number N" in it, with the words that follow and        *)
(*             whether it is in the first 80 characters                    *)
(*   cues      introductions of a speaker ("in") and hand-backs to the     *)
(*             council ("back"), in their order                            *)
(*   says      a claim, the cue of a reply, a reply on the claim's topic,  *)
(*             or nothing                                                  *)
(***************************************************************************)
EXTENDS Integers, Sequences, FiniteSets, SequencesExt, FiniteSetsExt

CONSTANTS Agenda,       \* the official items in order: [no, words]
          Segments,     \* what a segment can hold: [mentions, cues, says, after]
          MaxSegments,  \* bound: segments of a transcript
          Window,       \* segments after a claim outside of every item (160)
          PassageSize   \* segments of a passage of the first pass

ASSUME MeetingConstants ==
  /\ MaxSegments \in Nat /\ Window \in Nat \ {0} /\ PassageSize \in Nat \ {0}
  /\ Agenda \in Seq(Range(Agenda)) /\ \A item \in DOMAIN Agenda : IsFiniteSet(Agenda[item].words)
  /\ \A s \in Segments : /\ s.mentions \in Seq(Range(s.mentions)) /\ s.cues \in Seq({"in", "back"})
                         /\ s.after \in Nat

VARIABLE said   \* the transcript so far

MeetingInit == said = <<>>

\* The next segment starts `after` seconds later, 0 for a piece of a long paragraph.
Say(s) ==
  /\ Len(said) < MaxSegments
  /\ LET ts == IF said = <<>> THEN 0 ELSE Last(said).ts + s.after IN
     said' = Append(said, [ts |-> ts, mentions |-> s.mentions, cues |-> s.cues, says |-> s.says])

MeetingNext == \E s \in Segments : Say(s)

-----------------------------------------------------------------------------
(* align. *)

\* Every mention in the order it was heard.
Anchors ==
  FlattenSeq([i \in DOMAIN said |->
    [k \in DOMAIN said[i].mentions |-> [segment |-> i, no |-> said[i].mentions[k].no,
                                        words |-> said[i].mentions[k].words]]])

\* The size the overlap of a title is measured by; scores are in 1/840, so that all of
\* them are whole: 2.5 for the number, 4.0 for the share of the title's words.
Measure(words) == IF words = {} THEN 1 ELSE IF Cardinality(words) < 8 THEN Cardinality(words) ELSE 8
Shared(item, anchor) == Cardinality(Agenda[item].words \cap anchor.words)
NumberMatches(item, anchor) == anchor.no = Agenda[item].no

Score(item, anchor) ==
  (IF NumberMatches(item, anchor) THEN 2100 ELSE 0)
  + (3360 * Shared(item, anchor)) \div Measure(Agenda[item].words)

IsCandidate(item, anchor) ==
  LET share == (100 * Shared(item, anchor)) \div Measure(Agenda[item].words) IN
  \/ NumberMatches(item, anchor) /\ share >= 12
  \/ share >= 45
  \/ NumberMatches(item, anchor) /\ Agenda[item].words = {}

\* The pairs of an item and an anchor that may be matched.
Candidates(anchors) ==
  {c \in (DOMAIN Agenda) \X (DOMAIN anchors) : IsCandidate(c[1], anchors[c[2]])}

Before(c, d) == c[1] < d[1] /\ c[2] < d[2]

BeforeInTime(c, d) == c[2] < d[2]   \* a mutant: the order of the agenda is not kept

\* The dynamic program: the heaviest chain that ends with each pair.
Follows(c, d) == Before(c, d)

Heaviest(anchors) ==
  LET pairs == Candidates(anchors)
      total[c \in pairs] ==
        LET earlier == {b \in pairs : Follows(b, c)} IN
        Score(c[1], anchors[c[2]]) + (IF earlier = {} THEN 0 ELSE Max({total[b] : b \in earlier}))
  IN total

\* The chain of the highest total, followed back from its last pair; of equal ones the
\* first, by item and then by anchor.
First(S) == CHOOSE c \in S : \A d \in S : c[1] < d[1] \/ (c[1] = d[1] /\ c[2] <= d[2])

Chain(anchors) ==
  LET total == Heaviest(anchors)
      top(S) == First({c \in S : \A d \in S : total[d] <= total[c]})
      back[c \in DOMAIN total] ==
        LET earlier == {b \in DOMAIN total : Follows(b, c)} IN
        Append(IF earlier = {} THEN <<>> ELSE back[top(earlier)], c)
  IN IF DOMAIN total = {} THEN <<>> ELSE back[top(DOMAIN total)]

\* An item runs from its anchor to the anchor of the next aligned one.
NoEnd == -1

Aligned ==
  LET anchors == Anchors
      chain == Chain(anchors)
      start(i) == said[anchors[chain[i][2]].segment].ts
  IN [i \in DOMAIN chain |->
       [item |-> chain[i][1], start |-> start(i), end |-> IF i < Len(chain) THEN start(i + 1) ELSE NoEnd]]

\* The last aligned item that has started; 0 before the first one.
ItemAt(aligned, ts) == Max({0} \cup {i \in DOMAIN aligned : aligned[i].start <= ts})

-----------------------------------------------------------------------------
(* build_analysis: the bounds of an item, in segments. *)

FirstFrom(ts) == Min({i \in DOMAIN said : said[i].ts >= ts} \cup {Len(said) + 1})

UpperPast(x) ==   \* a mutant: the segment that reads the next item is the old one's too
  IF x.end = NoEnd THEN Len(said) + 1 ELSE FirstFrom(x.end + 1)

Upper(x) == IF x.end = NoEnd THEN Len(said) + 1 ELSE FirstFrom(x.end)

Bounds(aligned) ==
  [i \in DOMAIN aligned |-> [from |-> FirstFrom(aligned[i].start), below |-> Upper(aligned[i])]]

Within(bounds, i) == {k \in DOMAIN bounds : bounds[k].from <= i /\ i < bounds[k].below}

-----------------------------------------------------------------------------
(* label_roles. *)

IsReading(segment, starts) ==
  segment.ts \in starts /\ \E k \in DOMAIN segment.mentions : segment.mentions[k].leads

FirstCue(segment, cue) == SelectInSeq(segment.cues, LAMBDA c : c = cue)

LabelKeepingTheFloor(at, segment, starts) ==   \* a mutant: the clerk does not take the floor back
  LET intro == FirstCue(segment, "in")
      back == FirstCue(segment, "back")
  IN CASE IsReading(segment, starts) -> [at EXCEPT !.roles = Append(@, "agenda_reading")]
       [] ~at.public /\ intro > 0 -> [public |-> TRUE, roles |-> Append(at.roles, "public_comment")]
       [] at.public /\ back > 0 -> [public |-> FALSE, roles |-> Append(at.roles, "public_comment")]
       [] OTHER -> [at EXCEPT !.roles = Append(@, IF at.public THEN "public_comment" ELSE "official")]

\* A segment's role by who has the floor: an introduction gives it to the public, a
\* hand-back before any introduction, or after one of the public's own, takes it back, and
\* the reading of an aligned item gives it to the clerk.
Label(at, segment, starts) ==
  LET intro == FirstCue(segment, "in")
      back == FirstCue(segment, "back")
      handsBack == back > 0 /\ (intro = 0 \/ back > intro)
      labelled(role, public) == [public |-> public, roles |-> Append(at.roles, role)]
  IN IF IsReading(segment, starts) THEN labelled("agenda_reading", FALSE)
     ELSE IF ~at.public /\ intro > 0 THEN labelled("public_comment", TRUE)
     ELSE IF at.public /\ handsBack
          THEN labelled(IF intro > 0 THEN "public_comment" ELSE "official", FALSE)
     ELSE labelled(IF at.public THEN "public_comment" ELSE "official", at.public)

NobodySpoke == [public |-> FALSE, roles |-> <<>>]

Roles(aligned) ==
  LET starts == {aligned[i].start : i \in DOMAIN aligned}
      at[i \in 0 .. Len(said)] == IF i = 0 THEN NobodySpoke ELSE Label(at[i-1], said[i], starts)
  IN at[Len(said)].roles

\* The seconds of the segments of a range that have a role: each lasts until the next
\* one begins, the last one of the transcript not at all.
Lasts(i) == IF i < Len(said) THEN said[i + 1].ts - said[i].ts ELSE 0

RoleSeconds(role, from, below, roles) ==
  FoldSet(LAMBDA i, sum : sum + Lasts(i), 0, {i \in from .. (below - 1) : roles[i] = role})

\* The introductions of the public's segments of a range, a speaker each.
CommentStarts(from, below, roles) ==
  MapThenSumSet(LAMBDA i : Len(SelectSeq(said[i].cues, LAMBDA c : c = "in")),
                {i \in from .. (below - 1) : roles[i] = "public_comment"})

-----------------------------------------------------------------------------
(* extract_claims and link_responses. *)

Claims == {i \in DOMAIN said : said[i].says = "claim"}

\* The segments a response may be in, from the claim's item or the window after it.
SearchedFor(i, bounds) ==
  (i + 1) .. (IF Within(bounds, i) # {}
              THEN bounds[Min(Within(bounds, i))].below - 1
              ELSE Min({Len(said), i - 1 + Window}))

\* The first official reply to a claim of the public, 0 when there is none: the cue of a
\* reply is enough in an item, outside it must be on the claim's topic.
Response(i, roles, bounds) ==
  LET replies == {j \in SearchedFor(i, bounds) :
                    /\ roles[j] = "official"
                    /\ said[j].says = "topic" \/ (said[j].says = "reply" /\ Within(bounds, i) # {})}
  IN IF roles[i] = "public_comment" /\ replies # {} THEN Min(replies) ELSE 0

\* The claims of an item.
ClaimsOf(k, aligned) == {i \in Claims : ItemAt(aligned, said[i].ts) = k}

-----------------------------------------------------------------------------
(* The passages of the first pass, of consecutive segments, rescored: a passage counts     *)
(* the claims between its first and its last timestamp.                                    *)

Passages == 1 .. ((Len(said) + PassageSize - 1) \div PassageSize)
PassageOf(i) == ((i - 1) \div PassageSize) + 1
InPassage(p) == {i \in DOMAIN said : PassageOf(i) = p}
Starts(p) == said[Min(InPassage(p))].ts
Ends(p) == said[Max(InPassage(p))].ts

CountedIn(p) == {i \in Claims : Starts(p) <= said[i].ts /\ said[i].ts <= Ends(p) + 1}

MeetingSpec == MeetingInit /\ [][MeetingNext]_said
=============================================================================
