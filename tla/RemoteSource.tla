----------------------------- MODULE RemoteSource -----------------------------
(***************************************************************************)
(* audit/audit_ingest_node.py over a public data set on the network: the   *)
(* rows are read page by page, at an offset that grows, from a Socrata or  *)
(* an ArcGIS server, and written to the records as they come.              *)
(*                                                                         *)
(* The publisher is outside the program: between any two pages rows are    *)
(* added, removed and edited, and a server may give fewer rows than it is  *)
(* asked for.  The server keeps the rows in the order of their ids.  A     *)
(* record of a row is its text (record_id: the source of all rows is the   *)
(* same), so `indexed` is a set.                                           *)
(***************************************************************************)
EXTENDS Integers, FiniteSets

CONSTANTS
  Row,         \* the ids of rows
  RowText,     \* their texts, "" among them
  DataSets,    \* the data sets the publisher may begin with
  PageSize,    \* page_size
  Caps,        \* the most rows an ArcGIS server gives a page
  PullLimits,  \* the values of --max-records; 0 is no limit
  MaxChanges   \* bound: what the publisher does to the rows

ASSUME RemoteConstants ==
  /\ Row \subseteq Nat /\ "" \in RowText /\ PullLimits \subseteq Nat /\ 0 \in PullLimits
  /\ \A rows \in DataSets :
       /\ DOMAIN rows \subseteq Row /\ IsFiniteSet(DOMAIN rows)
       /\ rows \in [DOMAIN rows -> RowText]
  /\ PageSize \in Nat \ {0} /\ Caps \subseteq 1 .. PageSize /\ MaxChanges \in Nat

VARIABLES
  server,     \* the kind of server, and its cap
  published,  \* the text of each row of the data set
  changes,    \* how many changes it has had
  indexed,    \* the records of rows in the output file
  pull        \* the process that reads them

remoteVars == <<server, published, changes, indexed, pull>>

NoPull == [phase |-> "idle", mode |-> "append", limit |-> 0, offset |-> 0, n |-> 0, read |-> {},
           full |-> FALSE,
           steady |-> {}, shown |-> {}, shifted |-> FALSE]   \* history: what was published meanwhile

RemoteInit ==
  /\ server \in {[kind |-> "socrata", cap |-> PageSize]} \cup {[kind |-> "arcgis", cap |-> c] : c \in Caps}
  /\ published \in DataSets /\ changes = 0
  /\ indexed = {} /\ pull = NoPull

Shown(rows) == {rows[r] : r \in DOMAIN rows}

-------------------------------------------------------------------------------
(* The publisher. *)

\* The place of a row in the order of the ids, as offsets count.
Place(r) == Cardinality({q \in DOMAIN published : q < r})

Republish(rows, shifts) ==
  /\ changes < MaxChanges /\ changes' = changes + 1
  /\ published' = rows
  /\ pull' = IF pull.phase = "idle" THEN pull
             ELSE [pull EXCEPT !.steady = {r \in @ : r \in DOMAIN rows /\ rows[r] = published[r]},
                               !.shown = @ \cup Shown(rows),
                               !.shifted = @ \/ shifts]
  /\ UNCHANGED <<server, indexed>>

PutRow(r, text) ==
  /\ r \in DOMAIN published => published[r] # text
  /\ Republish([q \in DOMAIN published \cup {r} |-> IF q = r THEN text ELSE published[q]], FALSE)

\* The rows after a removed one move up: one of them may come to lie before the offset.
RemoveRow(r) ==
  /\ r \in DOMAIN published
  /\ Republish([q \in DOMAIN published \ {r} |-> published[q]],
               Place(r) < pull.offset)

-------------------------------------------------------------------------------
(* The reader. *)

StartPull(mode, limit) ==
  /\ pull.phase = "idle"
  /\ pull' = [NoPull EXCEPT !.phase = "reading", !.mode = mode, !.limit = limit,
                            !.steady = DOMAIN published, !.shown = Shown(published)]
  /\ UNCHANGED <<server, published, changes, indexed>>

\* What the server answers at an offset.
PageAt(offset) == {r \in DOMAIN published : Place(r) \in offset .. offset + server.cap - 1}
ExceededTransferLimit(offset) == offset + server.cap < Cardinality(DOMAIN published)

NextOffset(offset, page) ==
  IF server.kind = "socrata" THEN offset + PageSize ELSE offset + Cardinality(page)

IsLastPage(offset, page) ==
  IF server.kind = "socrata" THEN Cardinality(page) < PageSize
  ELSE page = {} \/ ~ExceededTransferLimit(offset)

\* A page is read, and its rows are classified one by one up to the limit; a row without a
\* text and one whose record is there already are passed over.
NextPage ==
  LET page == PageAt(pull.offset)
      rows == IF pull.limit = 0 THEN page
              ELSE {r \in page : Place(r) < pull.offset + pull.limit - pull.n}
      full == pull.limit # 0 /\ pull.n + Cardinality(page) >= pull.limit
  IN /\ pull.phase = "reading"
     /\ pull' = [pull EXCEPT !.read = @ \cup ({published[r] : r \in rows} \ {""}),
                             !.n = IF pull.limit = 0 THEN 0 ELSE @ + Cardinality(rows),
                             !.full = full,
                             !.offset = NextOffset(@, page),
                             !.phase = IF full \/ IsLastPage(pull.offset, page) THEN "read" ELSE "reading"]
     /\ UNCHANGED <<server, published, changes, indexed>>

EndPull == pull' = NoPull /\ UNCHANGED <<server, published, changes>>

FinishPull ==
  /\ pull.phase = "read"
  /\ indexed' = IF pull.mode = "append" THEN indexed \cup pull.read ELSE pull.read
  /\ EndPull

\* A request fails after its retries, or the server answers 200 with an error: the run ends
\* with an exception, an append after writing what it has read.
FailPull ==
  /\ pull.phase = "reading"
  /\ indexed' = IF pull.mode = "append" THEN indexed \cup pull.read ELSE indexed
  /\ EndPull

RemoteNext ==
  \/ \E r \in Row : RemoveRow(r) \/ \E text \in RowText : PutRow(r, text)
  \/ \E mode \in {"append", "rebuild"}, limit \in PullLimits : StartPull(mode, limit)
  \/ NextPage \/ FinishPull \/ FailPull

RemoteSpec == RemoteInit /\ [][RemoteNext]_remoteVars
=============================================================================
