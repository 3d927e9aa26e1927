--------------------------- MODULE TranscriptPanel ---------------------------
(***************************************************************************)
(* LiveScannerTranscriptPanel, the browser's copy of the transcript       *)
(* (patch 0001: fetchFeedSnapshot, its effect, mergeTranscriptSegments),   *)
(* with what it reads of the service: the paged listing of the published   *)
(* rows (storage.py) and the event stream (worker.py EventBroadcaster).    *)
(*                                                                         *)
(* Rows are numbered in the order they are published.  The panel can show  *)
(* the feed the service transcribes or another one, which the service      *)
(* answers with 404.  Fetches are asynchronous: they are answered and      *)
(* delivered in any order, those of a feed that is no longer shown too.    *)
(***************************************************************************)
EXTENDS Naturals, Sequences, FiniteSets, FiniteSetsExt, SequencesExt

CONSTANTS
  MaxRows,       \* how many rows are ever published
  PageLimit,     \* limit=50 of the fetch
  MaxItems,      \* maxItems = 80 of mergeTranscriptSegments
  MaxRequests,   \* how many fetches are on their way at a time
  StreamSize,    \* maxsize=128 of a subscriber's queue
  HazardKinds,   \* which hazards may happen, and happen again, see HazardKind
  MaxKinds       \* how many kinds of hazard happen in one behaviour

HazardKind == {"overlap",  \* a full fetch is on its way with something else
               "page",     \* a poll is answered with less than all newer rows
               "reuse",    \* a row gets the cursor of an expired row
               "missed",   \* an event reaches no queue or leaves it unread
               "event"}    \* an event is delivered

ASSUME PanelConstants ==
  /\ {MaxRows, PageLimit, MaxItems, MaxRequests, StreamSize} \subseteq Nat \ {0}
  /\ HazardKinds \subseteq HazardKind
  /\ MaxKinds \in Nat

Row == 1 .. MaxRows
ShownFeed == {"transcribed", "other"}

VARIABLES
  given,      \* given[r] is the cursor row r was published with
  table,      \* the published rows that have not expired
  announced,  \* how many rows the worker has passed to the broadcaster
  stream,     \* the unread events of the panel's subscription
  connected,  \* is the panel's EventSource subscribed?
  feed,       \* the feed the panel shows
  latest,     \* latestCursorRef.current
  shown,      \* segments
  requests,   \* the fetches on their way, oldest first
  hazards     \* the kinds of hazard that have happened so far

server == <<given, table, announced>>
push == <<stream, connected>>
panel == <<feed, latest, shown>>
panelVars == <<given, table, announced, stream, connected, feed, latest, shown,
          requests, hazards>>

-------------------------------------------------------------------------------
(* A fetch that starts the effect or comes from the Refresh button is full *)
(* (incrementalOnly is false); a poll asks for what lies after its cursor, *)
(* or for the latest page if it has none.                                  *)
Kind == {"mount", "refresh", "poll"}
Unanswered == [rows |-> {}, latest |-> 0, whole |-> FALSE, code |-> 0]

Request(kind, ofFeed, after) ==
  [kind |-> kind, feed |-> ofFeed, after |-> after, answer |-> Unanswered]

IsFull(q) == q.kind # "poll"

PanelTypeOK ==
  /\ given \in BoundedSeq(Row, MaxRows)
  /\ table \subseteq DOMAIN given
  /\ announced \in 0 .. Len(given)
  /\ connected \in BOOLEAN
  /\ stream \in BoundedSeq(DOMAIN given, StreamSize)
  /\ feed \in ShownFeed
  /\ latest \in 0 .. MaxRows
  /\ shown \subseteq DOMAIN given /\ Cardinality(shown) <= MaxItems
  /\ Len(requests) <= MaxRequests
  /\ \A i \in DOMAIN requests :
       /\ requests[i].kind \in Kind /\ requests[i].feed \in ShownFeed
       /\ requests[i].after \in 0 .. MaxRows
       /\ Cardinality(requests[i].answer.rows) <= PageLimit
  /\ hazards \subseteq HazardKind

PanelInit ==
  /\ given = <<>> /\ table = {} /\ announced = 0
  /\ stream = <<>> /\ connected = FALSE
  /\ feed = "transcribed" /\ latest = 0 /\ shown = {}
  /\ requests = <<Request("mount", "transcribed", 0)>>
  /\ hazards = {}

(* Record hazards, if this instance lets them happen.                      *)
Hazards(found) == /\ found \subseteq HazardKinds
                  /\ hazards' = hazards \cup found
                  /\ Cardinality(hazards') <= MaxKinds
Where(kind, happens) == IF happens THEN {kind} ELSE {}
NoHazard == UNCHANGED hazards

-------------------------------------------------------------------------------
(* The service.                                                            *)

(* Rows by cursor; rows that were given the same one, by age: a Map keeps  *)
(* the row it has before the row it gets, and the sort is stable.          *)
Precedes(r, s) == given[r] < given[s] \/ (given[r] = given[s] /\ s < r)
Newest(rows, n) == {r \in rows : Cardinality({s \in rows : Precedes(r, s)}) < n}
Oldest(rows, n) == {r \in rows : Cardinality({s \in rows : Precedes(s, r)}) < n}

LatestCursor == Max({given[r] : r \in table} \cup {0})

(* _assign_next_publication_seq: one above the cursors still in the table. *)
Publish ==
  /\ Len(given) < MaxRows
  /\ given' = Append(given, LatestCursor + 1)
  /\ table' = table \cup {Len(given) + 1}
  /\ Hazards(Where("reuse", LatestCursor + 1 \in ToSet(given)))
  /\ UNCHANGED <<announced, push, panel, requests>>

(* The retention sweep deletes the rows that ended before some instant.    *)
Expire ==
  /\ \E r \in table : table' = {s \in table : s > r}
  /\ UNCHANGED <<given, announced, push, panel, requests>> /\ NoHazard

(* publish("segment", row) after the commit.  With the queue full the      *)
(* oldest event makes room, or, if a gap event of the capture thread takes *)
(* the room first, the new event is lost.                                  *)
Announce ==
  /\ announced < Len(given)
  /\ announced' = announced + 1
  /\ IF connected /\ Len(stream) < StreamSize
       THEN stream' = Append(stream, announced') /\ NoHazard
       ELSE /\ \/ stream' = IF connected THEN Append(Tail(stream), announced')
                                         ELSE stream
               \/ UNCHANGED stream
            /\ Hazards({"missed"})
  /\ UNCHANGED <<given, table, connected, panel, requests>>

(* list_published_segments: the first page after a cursor, or the latest   *)
(* page.  `whole': nothing newer than the cursor asked for is left out.    *)
Listing(after) ==
  LET newer == {r \in table : given[r] > after}
      page == IF after > 0 THEN Oldest(newer, PageLimit) ELSE Newest(newer, PageLimit)
  IN [rows |-> page, latest |-> LatestCursor, whole |-> page = newer, code |-> 200]

NotFound == [Unanswered EXCEPT !.code = 404]

(* Mutant: the page starts one cursor too late.                            *)
AnswerAfterNext(q) == IF q.feed = "other" THEN NotFound
                      ELSE Listing(IF q.after = 0 THEN 0 ELSE q.after + 1)
AnswerTo(q) == IF q.feed = "other" THEN NotFound ELSE Listing(q.after)

Answer(i) ==
  /\ requests[i].answer = Unanswered
  /\ requests' = [requests EXCEPT ![i].answer = AnswerTo(requests[i])]
  /\ UNCHANGED <<server, push, panel>> /\ NoHazard

-------------------------------------------------------------------------------
(* The panel.                                                              *)

Merge(existing, incoming) == Newest(existing \cup incoming, MaxItems)

(* Two polls may be on their way together; a full fetch must be alone, and *)
(* so must any fetch of a feed the panel has left.                         *)
Overlaps(kind) ==
  /\ requests # <<>>
  /\ kind = "poll" => \E i \in DOMAIN requests :
                        IsFull(requests[i]) \/ requests[i].feed # feed

Send(kind, ofFeed, after) ==
  /\ Len(requests) < MaxRequests
  /\ requests' = Append(requests, Request(kind, ofFeed, after))
  /\ Hazards(Where("overlap", Overlaps(kind)))

Poll == /\ Send("poll", feed, latest)
        /\ UNCHANGED <<server, push, panel>>

(* The button is disabled while its own fetch is on its way.               *)
Refresh == /\ \A i \in DOMAIN requests : requests[i].kind # "refresh"
           /\ Send("refresh", feed, 0)
           /\ UNCHANGED <<server, push, panel>>

CloseStream == connected' = FALSE /\ stream' = <<>>

(* The effect is cleaned up and run again.  The segments of the feed that  *)
(* was shown stay until an answer replaces them.                           *)
SwitchFeed ==
  /\ feed' \in ShownFeed \ {feed}
  /\ latest' = 0
  /\ CloseStream
  /\ Len(requests) < MaxRequests
  /\ requests' = Append(requests, Request("mount", feed', 0))
  /\ Hazards(Where("overlap", Overlaps("mount"))
             \cup Where("missed", stream # <<>>))
  /\ UNCHANGED <<server, shown>>

(* Mutant: a poll replaces the segments as a full fetch does.              *)
ApplyReplacing(q) ==
  LET listing == q.answer IN
  /\ listing.code = 200
  /\ latest' = Max({latest, listing.latest})
  /\ shown' = Merge({}, listing.rows)
  /\ Hazards(Where("page", ~IsFull(q) /\ ~listing.whole))

(* An answer is applied whatever feed the panel shows by then.             *)
Apply(q) ==
  LET listing == q.answer IN
  /\ listing.code = 200
  /\ latest' = Max({latest, listing.latest})
  /\ shown' = Merge(IF IsFull(q) THEN {} ELSE shown, listing.rows)
  /\ Hazards(Where("page", ~IsFull(q) /\ ~listing.whole))

(* 404 from a service whose /health answers: the feed is not transcribed.  *)
Clear(q) ==
  /\ q.answer.code = 404
  /\ shown' = {}
  /\ UNCHANGED latest /\ NoHazard

Deliver(i) ==
  /\ Apply(requests[i]) \/ Clear(requests[i])
  /\ requests' = RemoveAt(requests, i)
  /\ UNCHANGED <<server, push, feed>>

(* A timeout, a failed connection, an error status, a 404 whose health     *)
(* check fails: only the connection state changes.                         *)
Fail(i) ==
  /\ requests' = RemoveAt(requests, i)
  /\ UNCHANGED <<server, push, panel>> /\ NoHazard

(* EventSource connects, and reconnects, by itself; the service has no     *)
(* stream for the other feed.                                              *)
Connect ==
  /\ feed = "transcribed" /\ ~connected
  /\ connected' = TRUE
  /\ UNCHANGED <<server, stream, panel, requests>> /\ NoHazard

Disconnect ==
  /\ connected /\ CloseStream
  /\ Hazards(Where("missed", stream # <<>>))
  /\ UNCHANGED <<server, panel, requests>>

ReadEvent ==
  LET row == Head(stream) IN
  /\ stream # <<>>
  /\ stream' = Tail(stream)
  /\ latest' = Max({latest, given[row]})
  /\ shown' = Merge(shown, {row})
  /\ Hazards({"event"} \cup
             Where("overlap", \E i \in DOMAIN requests : IsFull(requests[i])))
  /\ UNCHANGED <<server, connected, feed, requests>>

PanelNext ==
  \/ Publish \/ Expire \/ Announce
  \/ Poll \/ Refresh \/ SwitchFeed
  \/ \E i \in DOMAIN requests : Answer(i) \/ Deliver(i) \/ Fail(i)
  \/ Connect \/ Disconnect \/ ReadEvent

PanelSpec == PanelInit /\ [][PanelNext]_panelVars
=============================================================================
