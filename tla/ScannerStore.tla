----------------------------- MODULE ScannerStore -----------------------------
(***************************************************************************)
(* ScannerStore (services/scanner_transcriber, storage.py): the SQLite     *)
(* table of transcript segments of one feed, the capture sessions that     *)
(* wrote them, and the in-memory publication window that turns completed   *)
(* chunks into a sequence of cursors.                                      *)
(*                                                                         *)
(* A chunk is <<session, sequence number>>.  Sessions are numbered in the  *)
(* order of started_at_utc, and the chunks of a session in the order of    *)
(* their audio, so Before is both the ORDER BY of the recovery query and   *)
(* the order in which the audio was heard.                                 *)
(*                                                                         *)
(* Every method holds the store's lock from its first statement to its     *)
(* last, so methods do not interleave; a crash or a failing statement may  *)
(* come between any two statements.  `op' says which method holds the lock *)
(* and where it is, txCursor is the published_seq column as the open       *)
(* transaction sees it and cursor the column as committed.                 *)
(***************************************************************************)
EXTENDS Naturals, FiniteSets

CONSTANTS
  MaxSession,   \* number of capture sessions
  MaxSeq,       \* highest sequence number of a session
  FaultKinds,   \* which faults may happen, and happen again, see FaultKind
  MaxKinds,     \* how many kinds of fault happen in one behaviour
  SweepNewest   \* may a retention sweep remove the newest published row?

FaultKind == {"call",    \* a call fails before its first commit
              "drop",    \* a chunk is dropped because the queue is full
              "window",  \* a statement of the publication loop fails
              "commit",  \* the COMMIT of the publication transaction fails
              "flush",   \* closing the session fails
              "late"}    \* the session is closed with chunks still in flight

ASSUME StoreConstants ==
  /\ MaxSession \in Nat \ {0}
  /\ MaxSeq \in Nat
  /\ FaultKinds \subseteq FaultKind
  /\ MaxKinds \in Nat
  /\ SweepNewest \in BOOLEAN

Session == 1 .. MaxSession
Seqno == 0 .. MaxSeq
Chunk == Session \X Seqno
Cursor == 0 .. MaxSession * (MaxSeq + 1)

Before(c, d) == c[1] < d[1] \/ (c[1] = d[1] /\ c[2] < d[2])

VARIABLES
  proc,       \* the service process: "down", "starting", "up" or "closed"
  session,    \* the session of the latest process, 0 before the first
  status,     \* capture_sessions.status of each session, "absent" without a row
  rows,       \* the chunks with a row in segments
  cursor,     \* published_seq as committed, 0 for NULL and for no row
  txCursor,   \* published_seq inside the open transaction
  expected,   \* _next_expected_seq of the session
  completed,  \* _completed_sequences of the session
  op,         \* "idle", "staged", "window", "recover" or "flush"
  cur,        \* the sequence number the lock holder completes
  at,         \* the local variable `expected' of _mark_sequence_ready_locked
  captured,   \* how many chunks the capture thread has cut in this session
  handled,    \* the sequence numbers whose completion has been reported
  faults      \* the kinds of fault that have happened so far

mem == <<expected, completed>>
env == <<captured, handled>>
vars == <<proc, session, status, rows, cursor, txCursor, expected, completed,
          op, cur, at, captured, handled, faults>>

ProcState == {"down", "starting", "up", "closed"}
Status == {"absent", "active", "stopped", "recovered_after_crash"}
Op == {"idle", "staged", "window", "recover", "flush"}

TypeOK ==
  /\ proc \in ProcState
  /\ session \in 0 .. MaxSession
  /\ status \in [Session -> Status]
  /\ rows \subseteq Chunk
  /\ cursor \in [Chunk -> Nat]
  /\ txCursor \in [Chunk -> Nat]
  /\ expected \in Nat
  /\ completed \subseteq Seqno
  /\ op \in Op
  /\ cur \in Seqno
  /\ at \in Nat
  /\ captured \in 0 .. MaxSeq + 1
  /\ handled \subseteq Seqno
  /\ faults \subseteq FaultKind

Init ==
  /\ proc = "down"
  /\ session = 0
  /\ status = [s \in Session |-> "absent"]
  /\ rows = {}
  /\ cursor = [c \in Chunk |-> 0]
  /\ txCursor = [c \in Chunk |-> 0]
  /\ expected = 0
  /\ completed = {}
  /\ op = "idle"
  /\ cur = 0
  /\ at = 0
  /\ captured = 0
  /\ handled = {}
  /\ faults = {}

-------------------------------------------------------------------------------
Own(n) == <<session, n>>
Staged(c) == c \in rows /\ txCursor[c] = 0
InFlight == {n \in Seqno : n < captured /\ n \notin handled}

Fault(kind) == /\ kind \in FaultKinds
               /\ Cardinality(faults \cup {kind}) <= MaxKinds
               /\ faults' = faults \cup {kind}

(* Mutant: the next cursor is taken from COUNT( * ) of the published rows.   *)
CountForMax(m) == m = Cardinality({c \in rows : txCursor[c] # 0})

(* SELECT COALESCE(MAX(published_seq), 0) FROM segments, as the            *)
(* transaction sees the table.                                             *)
IsMaxPublished(m) == /\ \A c \in rows : txCursor[c] <= m
                     /\ m = 0 \/ \E c \in rows : txCursor[c] = m

AssignNextPublicationSeq(c) ==
  \E m \in Cursor : /\ IsMaxPublished(m)
                    /\ txCursor' = [txCursor EXCEPT ![c] = m + 1]

ResetWindow == expected' = 0 /\ completed' = {}
Rollback == txCursor' = cursor
Commit == cursor' = txCursor

-------------------------------------------------------------------------------
(* recover_and_start_session.  The transaction publishes what earlier      *)
(* sessions left staged, in capture order, and opens the new session.      *)
StartProcess ==
  /\ proc = "down"
  /\ session < MaxSession
  /\ proc' = "starting"
  /\ session' = session + 1
  /\ op' = "recover"
  /\ UNCHANGED <<status, rows, cursor, txCursor, mem, cur, at, env, faults>>

(* Mutant: the recovery query has no ORDER BY.                             *)
RecoverAnyRow ==
  /\ op = "recover"
  /\ \E c \in Chunk : Staged(c) /\ AssignNextPublicationSeq(c)
  /\ UNCHANGED <<proc, session, status, rows, cursor, mem, op, cur, at, env, faults>>

RecoverRow ==
  /\ op = "recover"
  /\ \E c \in Chunk :
       /\ Staged(c)
       /\ \A d \in Chunk : Staged(d) => ~Before(d, c)
       /\ AssignNextPublicationSeq(c)
  /\ UNCHANGED <<proc, session, status, rows, cursor, mem, op, cur, at, env, faults>>

(* Mutant: the new session is inserted before the latest one is read.      *)
IsOwnSession(s) == s = session

IsLatestSession(s) ==
  /\ status[s] # "absent"
  /\ \A r \in Session : status[r] # "absent" => r <= s

RecoverCommit ==
  /\ op = "recover"
  /\ \A c \in Chunk : ~Staged(c)
  /\ status' = [s \in Session |->
                  IF s = session THEN "active"
                  ELSE IF IsLatestSession(s) /\ status[s] = "active"
                         THEN "recovered_after_crash"
                         ELSE status[s]]
  /\ Commit
  /\ ResetWindow
  /\ proc' = "up"
  /\ op' = "idle"
  /\ captured' = 0
  /\ handled' = {}
  /\ UNCHANGED <<session, rows, txCursor, cur, at, faults>>

-------------------------------------------------------------------------------
(* The capture thread cuts the next chunk (the store's environment); it    *)
(* has been joined before close_session is called.                         *)
CutChunk ==
  /\ proc = "up"
  /\ op # "flush"
  /\ captured <= MaxSeq
  /\ captured' = captured + 1
  /\ UNCHANGED <<proc, session, status, rows, cursor, txCursor, mem, op, cur, at,
                 handled, faults>>

CanCall == proc \in {"up", "closed"} /\ op = "idle"

(* persist_segment of a chunk with no row yet: INSERT, then COMMIT.        *)
PersistNew(n) ==
  /\ CanCall
  /\ n \in InFlight
  /\ Own(n) \notin rows
  /\ rows' = rows \cup {Own(n)}
  /\ handled' = handled \cup {n}
  /\ cur' = n
  /\ op' = "staged"
  /\ UNCHANGED <<proc, session, status, cursor, txCursor, mem, at, captured, faults>>

EnterWindow(n) ==
  /\ completed' = completed \cup {n}
  /\ at' = expected
  /\ op' = "window"
  /\ UNCHANGED <<proc, session, status, rows, cursor, txCursor, expected, captured,
                 faults>>

(* Step 2 of persist_segment.                                              *)
MarkSegmentReady ==
  /\ op = "staged"
  /\ EnterWindow(cur)
  /\ UNCHANGED <<cur, handled>>

(* persist_segment of a chunk that already has its row.                    *)
PersistAgain(n) ==
  /\ CanCall
  /\ proc = "up"
  /\ Own(n) \in rows
  /\ EnterWindow(n)
  /\ cur' = n
  /\ UNCHANGED handled

(* mark_non_speech_sequence_complete, for silence and for a failed         *)
(* transcription alike.                                                    *)
MarkNonSpeech(n) ==
  /\ CanCall
  /\ n \in InFlight
  /\ EnterWindow(n)
  /\ cur' = n
  /\ handled' = handled \cup {n}

(* The completion of a chunk never reaches the window: the call fails      *)
(* before its first commit and the worker goes on to the next chunk, or    *)
(* the chunk was dropped before it got to the worker.                      *)
NeverReported(n) ==
  /\ CanCall
  /\ n \in InFlight
  /\ handled' = handled \cup {n}
  /\ UNCHANGED <<proc, session, status, rows, cursor, txCursor, mem, op, cur, at,
                 captured>>

CallFails(n) == NeverReported(n) /\ Fault("call")

Dropped(n) == NeverReported(n) /\ Fault("drop")

-------------------------------------------------------------------------------
(* _mark_sequence_ready_locked: one action per turn of its loop.           *)
PublishExpected ==
  /\ op = "window"
  /\ at \in completed
  /\ IF Staged(Own(at)) THEN AssignNextPublicationSeq(Own(at))
                        ELSE UNCHANGED txCursor
  /\ completed' = completed \ {at}
  /\ at' = at + 1
  /\ UNCHANGED <<proc, session, status, rows, cursor, expected, op, cur, env, faults>>

(* Mutant: the loop's result is not written back to _next_expected_seq.    *)
WindowDoneForgotten ==
  /\ op = "window"
  /\ at \notin completed
  /\ op' = "idle"
  /\ UNCHANGED <<proc, session, status, rows, expected, completed, cur, at, env>>

WindowDone ==
  /\ op = "window"
  /\ at \notin completed
  /\ expected' = at
  /\ op' = "idle"
  /\ UNCHANGED <<proc, session, status, rows, completed, cur, at, env>>

WindowCommit == WindowDone /\ Commit /\ UNCHANGED <<txCursor, faults>>

(* The loop is over and the window has moved, but COMMIT raises.           *)
WindowCommitFails == WindowDone /\ Rollback /\ Fault("commit") /\ UNCHANGED cursor

(* A statement of the loop raises: the transaction is rolled back, the     *)
(* sequence numbers already discarded stay discarded.                      *)
WindowFails ==
  /\ op = "window"
  /\ Rollback
  /\ op' = "idle"
  /\ Fault("window")
  /\ UNCHANGED <<proc, session, status, rows, cursor, mem, cur, at, env>>

-------------------------------------------------------------------------------
(* close_session, called by stop() when the ASR thread has drained the     *)
(* queue or has not done so in time.                                       *)
CloseSession ==
  /\ proc = "up"
  /\ op = "idle"
  /\ IF InFlight = {} THEN UNCHANGED faults ELSE Fault("late")
  /\ op' = "flush"
  /\ UNCHANGED <<proc, session, status, rows, cursor, txCursor, mem, cur, at, env>>

FlushRow ==
  /\ op = "flush"
  /\ \E n \in Seqno :
       /\ Staged(Own(n))
       /\ \A k \in Seqno : Staged(Own(k)) => n <= k
       /\ AssignNextPublicationSeq(Own(n))
  /\ UNCHANGED <<proc, session, status, rows, cursor, mem, op, cur, at, env, faults>>

CloseCommit ==
  /\ op = "flush"
  /\ \A n \in Seqno : ~Staged(Own(n))
  /\ status' = [status EXCEPT ![session] = "stopped"]
  /\ Commit
  /\ ResetWindow
  /\ proc' = "closed"
  /\ op' = "idle"
  /\ UNCHANGED <<session, rows, txCursor, cur, at, env, faults>>

CloseFails ==
  /\ op = "flush"
  /\ Rollback
  /\ proc' = "closed"
  /\ op' = "idle"
  /\ Fault("flush")
  /\ UNCHANGED <<session, status, rows, cursor, mem, cur, at, env>>

(* The process ends: by itself once closed, or by a crash at any point.    *)
ProcessEnds ==
  /\ proc # "down"
  /\ proc' = "down"
  /\ op' = "idle"
  /\ Rollback
  /\ ResetWindow
  /\ captured' = 0
  /\ handled' = {}
  /\ UNCHANGED <<session, status, rows, cursor, cur, at, faults>>

-------------------------------------------------------------------------------
(* enforce_retention, the transcript half: every row of the feed whose     *)
(* audio ended by the cutoff goes, published or not.                       *)
NewestPublished(c) == /\ cursor[c] # 0
                      /\ \A d \in rows : cursor[d] <= cursor[c]

EnforceRetention(k) ==
  /\ CanCall
  /\ k \in rows
  /\ LET expired == {c \in rows : ~Before(k, c)}
     IN /\ SweepNewest \/ \A c \in expired : ~NewestPublished(c)
        /\ rows' = rows \ expired
        /\ cursor' = [c \in Chunk |-> IF c \in expired THEN 0 ELSE cursor[c]]
        /\ txCursor' = [c \in Chunk |-> IF c \in expired THEN 0 ELSE txCursor[c]]
  /\ UNCHANGED <<proc, session, status, mem, op, cur, at, env, faults>>

-------------------------------------------------------------------------------
Complete(n) == PersistNew(n) \/ MarkNonSpeech(n) \/ CallFails(n) \/ Dropped(n)

LoopStep == \/ MarkSegmentReady \/ PublishExpected \/ WindowCommit
            \/ WindowCommitFails \/ WindowFails

StartStep == StartProcess \/ RecoverRow \/ RecoverCommit

CloseStep == CloseSession \/ FlushRow \/ CloseCommit \/ CloseFails

Next == \/ StartStep
        \/ CutChunk
        \/ \E n \in Seqno : Complete(n) \/ PersistAgain(n)
        \/ LoopStep
        \/ CloseStep
        \/ ProcessEnds
        \/ \E k \in Chunk : EnforceRetention(k)

Spec == Init /\ [][Next]_vars
=============================================================================
