--------------------------- MODULE ScannerStoreProps ---------------------------
(***************************************************************************)
(* The properties of ScannerStore: publication order, progress of the      *)
(* publication window, recovery, and the cursor log readers rely on.       *)
(***************************************************************************)
EXTENDS ScannerStore

(* Published rows are a prefix of the stored rows in capture order, across *)
(* sessions, and their cursors follow that order: a reader that pages by   *)
(* cursor reads the transcript in the order it was spoken.  (storage.py:   *)
(* _mark_sequence_ready_locked, the recovery and the flush queries.)       *)
PublishedPrefix ==
  \A c, d \in rows :
    Before(c, d) /\ cursor[d] # 0 => cursor[c] # 0 /\ cursor[c] < cursor[d]

(* It takes a failed COMMIT or a session closed too early to break it; the *)
(* other faults may delay a row but not overtake it.                       *)
PublishedPrefixUntilFault == faults \cap {"commit", "late"} = {} => PublishedPrefix

(* Between two calls, a staged row of the running session waits only for   *)
(* an earlier chunk that the worker has not reported yet: the window never *)
(* gets stuck behind a sequence number that was reported.                  *)
WaitsOnlyForInFlight ==
  proc = "up" /\ op = "idle" =>
    \A n \in Seqno :
      Own(n) \in rows /\ cursor[Own(n)] = 0 => \E k \in InFlight : k < n

(* It holds as long as every completion reaches the window and every       *)
(* publication transaction commits, however sessions are closed.           *)
WaitsOnlyForInFlightUntilFault ==
  faults \cap {"call", "drop", "window", "commit"} = {} => WaitsOnlyForInFlight

(* While a session runs, whatever happened to the processes before it      *)
(* (crash in mid transaction, failed close, late chunks): no row of an     *)
(* older session is left staged, and no older session is left active.      *)
RecoveryComplete ==
  proc = "up" =>
    /\ \A c \in rows : c[1] < session => cursor[c] # 0
    /\ \A s \in Session : status[s] = "active" <=> s = session

(* The table, as committed, is a CursorLog: whatever fails, a cursor once  *)
(* given to a row is never changed or shared, and a new one lies above all *)
(* those present (storage.py: UNIQUE published_seq, MAX + 1, the guard     *)
(* published_seq IS NULL).                                                 *)
Log == INSTANCE CursorLog WITH Item <- Chunk, stored <- rows, cursor <- cursor

LogSpec == Log!Spec
=============================================================================
