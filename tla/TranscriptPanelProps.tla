------------------------- MODULE TranscriptPanelProps -------------------------
(***************************************************************************)
(* The properties of TranscriptPanel: what a reader can trust to be there, *)
(* and that what is new arrives.                                           *)
(***************************************************************************)
EXTENDS TranscriptPanel

Undisturbed ==
  /\ hazards \cap {"overlap", "page", "reuse"} = {}
  /\ ~({"missed", "event"} \subseteq hazards)

(* The event of a row is still to come, on a stream that is being read.    *)
OnItsWay(r) == "event" \in hazards /\ (r \in ToSet(stream) \/ r > announced)

(* The panel shows the transcript without holes: no row the service still  *)
(* has lies between the oldest row on screen and the cursor from which the *)
(* panel asks on, and is neither on screen nor on its way to it.  Such a   *)
(* hole is never filled, for polls only ask for what lies after the cursor *)
(* (the effect: "Poll incrementally every 4 seconds so UI always stays     *)
(* synchronized even if proxies buffer SSE").                              *)
NoHoles ==
  feed = "transcribed" =>
    \A r \in table :
      /\ given[r] <= latest
      /\ shown = {} \/ \E s \in shown : given[s] < given[r]
      => r \in shown \/ OnItsWay(r)

(* With polls of one page that never meet a full fetch, cursors that grow, *)
(* and an event stream that either is silent or misses nothing, it has no  *)
(* holes, whatever fails and whenever the feed is changed.                 *)
NoHolesUndisturbed == PanelTypeOK /\ (Undisturbed => NoHoles)

(* The panel shows what the service transcribes, and no poll has met more  *)
(* new rows than its page holds.                                           *)
Watching ==
  /\ feed = "transcribed" /\ Undisturbed
  /\ \A i \in DOMAIN requests :
       LET q == requests[i] IN
       ~IsFull(q) /\ q.answer.code = 200 => q.answer.whole

(* The 4 s timer ticks; fetches do not fail forever.                       *)
PollFairness ==
  /\ SF_panelVars(Poll)
  /\ SF_panelVars(\E i \in DOMAIN requests : Answer(i))
  /\ SF_panelVars(\E i \in DOMAIN requests : Deliver(i))

PanelLiveSpec == PanelSpec /\ PollFairness

(* A published row gets on screen, unless it expires, newer rows push it   *)
(* off, or the user leaves the feed: no answer, in whatever order it       *)
(* comes, moves the cursor past a row the panel does not have.             *)
NewRowsAppear ==
  \A r \in Row :
    (Watching /\ r \in table)
      ~> \/ r \in shown \/ r \notin table \/ ~Watching
         \/ \E s \in shown : given[s] > given[r]
=============================================================================
