-------------------------- MODULE ScannerWorkerProofs --------------------------
(***************************************************************************)
(* Theorems about ScannerStore, for every number of sessions and of        *)
(* sequence numbers and every set of kinds of fault, and about             *)
(* ScannerWorker, which drives it, for every capacity of the queue as well.*)
(***************************************************************************)
EXTENDS ScannerWorkerProps, TLAPS

-------------------------------------------------------------------------------
(* THE STORE                                                               *)

(* The transaction only adds to the committed cursors, above all of them,  *)
(* and a row without an entry in the table has no cursor.                  *)
TransactionInv ==
  /\ op \in {"idle", "staged"} => txCursor = cursor
  /\ \A c \in Chunk : c \notin rows => cursor[c] = 0 /\ txCursor[c] = 0
  /\ \A c \in Chunk : cursor[c] # 0 => txCursor[c] = cursor[c]
  /\ \A c, d \in Chunk : cursor[c] = 0 /\ txCursor[c] # 0 => cursor[d] < txCursor[c]
  /\ \A c, d \in Chunk : c # d /\ txCursor[c] # 0 => txCursor[c] # txCursor[d]

(* Which method can hold the lock in which state of the process, and what  *)
(* the session table says meanwhile.                                       *)
SessionInv ==
  /\ op = "recover" <=> proc = "starting"
  /\ op = "flush" => proc = "up"
  /\ op \in {"staged", "window"} => proc \in {"up", "closed"}
  /\ proc # "down" => session \in Session
  /\ \A c \in rows : c[1] <= session
  /\ proc = "starting" => status[session] = "absent"
  /\ proc = "up" => status[session] = "active"
  /\ proc = "starting" => \A c \in rows : c[1] < session
  /\ \A s \in Session : s > session => status[s] = "absent"
  /\ \A r, s \in Session : status[r] = "active" /\ status[s] # "absent" => s <= r
  /\ proc \in {"up", "closed"} => \A c \in rows : c[1] < session => cursor[c] # 0

(* Where the publication window stands.                                    *)
Front == IF op = "window" THEN at ELSE expected

(* While every COMMIT succeeds, everything below the window is reported    *)
(* and published, and everything from the window on is staged.  Inside the *)
(* loop the same is true of the committed cursors and of _next_expected_seq *)
(* which is what a rollback goes back to.                                  *)
WindowInv ==
  proc = "up" /\ op # "flush" =>
    /\ \A n \in Seqno : Own(n) \in rows => n \in handled
    /\ completed \subseteq handled
    /\ \A n \in handled : n < captured
    /\ op = "staged" => cur \in handled
    /\ \A n \in Seqno : n < Front => n \in handled
    /\ \A n \in Seqno : Own(n) \in rows => (n < Front <=> txCursor[Own(n)] # 0)
    /\ op = "window" =>
         /\ expected <= at
         /\ \A n \in Seqno : Own(n) \in rows => (n < expected <=> cursor[Own(n)] # 0)

(* While the window forgets nothing, what was reported lies below it or is *)
(* remembered in memory, and a call ends only when it can go no further.   *)
ProgressInv ==
  proc = "up" /\ op # "flush" =>
    /\ \A n \in handled : n < Front \/ n \in completed \/ (op = "staged" /\ n = cur)
    /\ op \in {"idle", "staged"} => expected \notin completed

(* A session closed in time is closed for good.                            *)
CloseInv ==
  /\ op = "flush" => InFlight = {}
  /\ proc = "closed" => op = "idle" /\ InFlight = {}

(* The order of publication, as the open transaction sees it.              *)
OrderInv ==
  \A c, d \in rows :
    Before(c, d) /\ txCursor[d] # 0 => txCursor[c] # 0 /\ txCursor[c] < txCursor[d]

IInv == /\ TypeOK
        /\ TransactionInv
        /\ SessionInv
        /\ "commit" \notin faults => WindowInv
        /\ faults \cap {"call", "drop", "window", "commit"} = {} => ProgressInv
        /\ "late" \notin faults => CloseInv
        /\ faults \cap {"commit", "late"} = {} => OrderInv

-------------------------------------------------------------------------------
(* Types.                                                                  *)

(* _assign_next_publication_seq: the row gets a positive cursor above the  *)
(* cursor of every other row.                                              *)
LEMMA AssignAbove ==
  ASSUME TypeOK, TransactionInv, NEW c \in Chunk, AssignNextPublicationSeq(c)
  PROVE  \E v \in Nat : /\ v # 0
                        /\ txCursor' = [txCursor EXCEPT ![c] = v]
                        /\ \A d \in Chunk : txCursor[d] < v
<1>1. PICK m \in Cursor : /\ IsMaxPublished(m)
                          /\ txCursor' = [txCursor EXCEPT ![c] = m + 1]
  BY DEF AssignNextPublicationSeq
<1>2. m \in Nat
  BY StoreConstants DEF Cursor, StoreConstants
<1>3. ASSUME NEW d \in Chunk PROVE txCursor[d] < m + 1
  BY <1>1, <1>2 DEF IsMaxPublished, TypeOK, TransactionInv
<1>4. m + 1 \in Nat /\ m + 1 # 0
  BY <1>2
<1> USE <1>4
<1> WITNESS m + 1 \in Nat
<1> QED
  BY <1>1, <1>3

LEMMA AssignTyped ==
  ASSUME TypeOK, NEW c \in Chunk, AssignNextPublicationSeq(c)
  PROVE  txCursor' \in [Chunk -> Nat]
<1>1. PICK m \in Cursor : txCursor' = [txCursor EXCEPT ![c] = m + 1]
  BY DEF AssignNextPublicationSeq
<1>2. m \in Nat
  BY StoreConstants DEF Cursor, StoreConstants
<1> QED
  BY <1>1, <1>2 DEF TypeOK

LEMMA OwnChunk ==
  ASSUME session \in Session, NEW n \in Seqno
  PROVE  Own(n) \in Chunk /\ Own(n)[1] = session /\ Own(n)[2] = n
BY DEF Own, Chunk

(* Every step keeps the types; the session number is needed to know that   *)
(* the rows the loops touch are chunks.                                    *)
LEMMA TypeStep ==
  ASSUME TypeOK, SessionInv, [Next]_vars
  PROVE  TypeOK'
<1> USE StoreConstants DEF StoreConstants, TypeOK, Fault, ResetWindow, Rollback, Commit,
        mem, env, ProcState, Status, Op
<1>1. CASE StartProcess
  BY <1>1 DEF StartProcess
<1>2. CASE RecoverRow
  BY <1>2, AssignTyped DEF RecoverRow
<1>3. CASE RecoverCommit
  <2>1. status' \in [Session -> Status]
    BY <1>3 DEF RecoverCommit
  <2> QED
    BY <2>1, <1>3 DEF RecoverCommit
<1>4. CASE CutChunk
  BY <1>4 DEF CutChunk
<1>5. ASSUME NEW n \in Seqno, PersistNew(n) PROVE TypeOK'
  <2>1. session \in Session
    BY <1>5 DEF PersistNew, CanCall, SessionInv
  <2> QED
    BY <1>5, <2>1, OwnChunk DEF PersistNew
<1>6. ASSUME NEW n \in Seqno, MarkNonSpeech(n) PROVE TypeOK'
  BY <1>6 DEF MarkNonSpeech, EnterWindow
<1>7. ASSUME NEW n \in Seqno, CallFails(n) \/ Dropped(n) PROVE TypeOK'
  BY <1>7 DEF CallFails, Dropped, NeverReported
<1>8. ASSUME NEW n \in Seqno, PersistAgain(n) PROVE TypeOK'
  BY <1>8 DEF PersistAgain, EnterWindow
<1>9. CASE MarkSegmentReady
  BY <1>9 DEF MarkSegmentReady, EnterWindow
<1>10. CASE PublishExpected
  <2>1. session \in Session /\ at \in Seqno
    BY <1>10 DEF PublishExpected, SessionInv
  <2>2. txCursor' \in [Chunk -> Nat]
    BY <1>10, <2>1, OwnChunk, AssignTyped DEF PublishExpected
  <2> QED
    BY <1>10, <2>1, <2>2 DEF PublishExpected
<1>11. CASE WindowCommit
  BY <1>11 DEF WindowCommit, WindowDone
<1>12. CASE WindowCommitFails
  BY <1>12 DEF WindowCommitFails, WindowDone
<1>13. CASE WindowFails
  BY <1>13 DEF WindowFails
<1>14. CASE CloseSession
  BY <1>14 DEF CloseSession
<1>15. CASE FlushRow
  <2>1. session \in Session
    BY <1>15 DEF FlushRow, SessionInv
  <2>2. txCursor' \in [Chunk -> Nat]
    BY <1>15, <2>1, OwnChunk, AssignTyped DEF FlushRow
  <2> QED
    BY <1>15, <2>2 DEF FlushRow
<1>16. CASE CloseCommit
  BY <1>16 DEF CloseCommit
<1>17. CASE CloseFails
  BY <1>17 DEF CloseFails
<1>18. CASE ProcessEnds
  BY <1>18 DEF ProcessEnds
<1>19. ASSUME NEW k \in Chunk, EnforceRetention(k) PROVE TypeOK'
  BY <1>19 DEF EnforceRetention
<1>20. CASE UNCHANGED vars
  BY <1>20 DEF vars
<1> QED
  BY <1>1, <1>2, <1>3, <1>4, <1>5, <1>6, <1>7, <1>8, <1>9, <1>10, <1>11, <1>12, <1>13,
     <1>14, <1>15, <1>16, <1>17, <1>18, <1>19, <1>20
  DEF Next, StartStep, Complete, LoopStep, CloseStep

-------------------------------------------------------------------------------
(* Transactions.                                                           *)

(* Giving a staged row the next number keeps the transaction sane.         *)
LEMMA AssignKeepsTransaction ==
  ASSUME TypeOK, TransactionInv, NEW c \in Chunk, Staged(c),
         AssignNextPublicationSeq(c),
         UNCHANGED <<rows, cursor, op>>, op \notin {"idle", "staged"}
  PROVE  TransactionInv'
<1>1. PICK v \in Nat : /\ v # 0
                       /\ txCursor' = [txCursor EXCEPT ![c] = v]
                       /\ \A d \in Chunk : txCursor[d] < v
  BY AssignAbove
<1>2. cursor[c] = 0
  BY DEF Staged, TransactionInv, TypeOK
<1>3. \A d \in Chunk : cursor[d] < v
  BY <1>1 DEF TransactionInv, TypeOK
<1>4. \A d \in Chunk : txCursor'[d] = IF d = c THEN v ELSE txCursor[d]
  BY <1>1 DEF TypeOK
<1>5. \A d \in Chunk : d \notin rows => cursor'[d] = 0 /\ txCursor'[d] = 0
  BY <1>4 DEF TransactionInv, Staged
<1>6. \A d \in Chunk : cursor'[d] # 0 => txCursor'[d] = cursor'[d]
  BY <1>2, <1>4 DEF TransactionInv
<1>7. \A d, e \in Chunk : cursor'[d] = 0 /\ txCursor'[d] # 0 => cursor'[e] < txCursor'[d]
  BY <1>3, <1>4 DEF TransactionInv
<1>8. \A d, e \in Chunk : d # e /\ txCursor'[d] # 0 => txCursor'[d] # txCursor'[e]
  BY <1>1, <1>4 DEF TransactionInv, TypeOK
<1> QED
  BY <1>5, <1>6, <1>7, <1>8 DEF TransactionInv

(* A step that commits, or that rolls back, closes the transaction.        *)
LEMMA CommitKeepsTransaction ==
  ASSUME TypeOK, TransactionInv, UNCHANGED <<rows, txCursor>>, cursor' = txCursor
  PROVE  TransactionInv'
BY DEF TypeOK, TransactionInv

LEMMA RollbackKeepsTransaction ==
  ASSUME TypeOK, TransactionInv, UNCHANGED <<rows, cursor>>, txCursor' = cursor
  PROVE  TransactionInv'
BY DEF TypeOK, TransactionInv

LEMMA TransactionStep ==
  ASSUME TypeOK, TransactionInv, SessionInv, [Next]_vars
  PROVE  TransactionInv'
<1> USE DEF Fault, ResetWindow, Rollback, Commit, mem, env
<1>1. CASE StartProcess
  BY <1>1 DEF StartProcess, TransactionInv
<1>2. CASE RecoverRow
  BY <1>2, AssignKeepsTransaction DEF RecoverRow
<1>3. CASE RecoverCommit
  BY <1>3, CommitKeepsTransaction DEF RecoverCommit
<1>4. CASE CutChunk
  BY <1>4 DEF CutChunk, TransactionInv
<1>5. ASSUME NEW n \in Seqno, PersistNew(n) PROVE TransactionInv'
  BY <1>5 DEF PersistNew, CanCall, TransactionInv
<1>6. ASSUME NEW n \in Seqno, MarkNonSpeech(n) PROVE TransactionInv'
  BY <1>6 DEF MarkNonSpeech, EnterWindow, CanCall, TransactionInv
<1>7. ASSUME NEW n \in Seqno, CallFails(n) \/ Dropped(n) PROVE TransactionInv'
  BY <1>7 DEF CallFails, Dropped, NeverReported, TransactionInv
<1>8. ASSUME NEW n \in Seqno, PersistAgain(n) PROVE TransactionInv'
  BY <1>8 DEF PersistAgain, EnterWindow, CanCall, TransactionInv
<1>9. CASE MarkSegmentReady
  BY <1>9 DEF MarkSegmentReady, EnterWindow, TransactionInv
<1>10. CASE PublishExpected
  <2>1. session \in Session /\ at \in Seqno
    BY <1>10 DEF PublishExpected, SessionInv, TypeOK
  <2>2. CASE Staged(Own(at))
    BY <1>10, <2>1, <2>2, OwnChunk, AssignKeepsTransaction DEF PublishExpected
  <2>3. CASE ~Staged(Own(at))
    BY <1>10, <2>3 DEF PublishExpected, TransactionInv
  <2> QED
    BY <2>2, <2>3
<1>11. CASE WindowCommit
  BY <1>11, CommitKeepsTransaction DEF WindowCommit, WindowDone
<1>12. CASE WindowCommitFails
  BY <1>12, RollbackKeepsTransaction DEF WindowCommitFails, WindowDone
<1>13. CASE WindowFails
  BY <1>13, RollbackKeepsTransaction DEF WindowFails
<1>14. CASE CloseSession
  BY <1>14 DEF CloseSession, TransactionInv
<1>15. CASE FlushRow
  <2>1. session \in Session
    BY <1>15 DEF FlushRow, SessionInv
  <2> QED
    BY <1>15, <2>1, OwnChunk, AssignKeepsTransaction DEF FlushRow
<1>16. CASE CloseCommit
  BY <1>16, CommitKeepsTransaction DEF CloseCommit
<1>17. CASE CloseFails
  BY <1>17, RollbackKeepsTransaction DEF CloseFails
<1>18. CASE ProcessEnds
  BY <1>18, RollbackKeepsTransaction DEF ProcessEnds
<1>19. ASSUME NEW k \in Chunk, EnforceRetention(k) PROVE TransactionInv'
  <2> DEFINE expired == {c \in rows : ~Before(k, c)}
  <2>1. /\ rows' = rows \ expired
        /\ cursor' = [c \in Chunk |-> IF c \in expired THEN 0 ELSE cursor[c]]
        /\ txCursor' = [c \in Chunk |-> IF c \in expired THEN 0 ELSE txCursor[c]]
        /\ txCursor = cursor
    BY <1>19 DEF EnforceRetention, CanCall, TransactionInv
  <2> HIDE DEF expired
  <2> QED
    BY <2>1 DEF TypeOK, TransactionInv
<1>20. CASE UNCHANGED vars
  BY <1>20 DEF vars, TransactionInv
<1> QED
  BY <1>1, <1>2, <1>3, <1>4, <1>5, <1>6, <1>7, <1>8, <1>9, <1>10, <1>11, <1>12, <1>13,
     <1>14, <1>15, <1>16, <1>17, <1>18, <1>19, <1>20
  DEF Next, StartStep, Complete, LoopStep, CloseStep

-------------------------------------------------------------------------------
(* Sessions.                                                               *)
LEMMA SessionStep ==
  ASSUME TypeOK, TransactionInv, SessionInv, [Next]_vars
  PROVE  SessionInv'
<1> USE DEF Fault, ResetWindow, Rollback, Commit, mem, env
<1>1. CASE StartProcess
  BY <1>1, StoreConstants DEF StartProcess, SessionInv, TypeOK, Session, Chunk, StoreConstants
<1>2. CASE RecoverRow
  BY <1>2 DEF RecoverRow, SessionInv
<1>3. CASE RecoverCommit
  <2>1. session \in Session /\ proc = "starting" /\ proc' = "up" /\ op' = "idle"
    BY <1>3 DEF RecoverCommit, SessionInv
  <2>2. \A c \in rows' : c[1] < session' => cursor'[c] # 0
    BY <1>3 DEF RecoverCommit, Staged, TypeOK
  <2>3. \A s \in Session :
          status'[s] = IF s = session THEN "active"
                       ELSE IF IsLatestSession(s) /\ status[s] = "active"
                              THEN "recovered_after_crash" ELSE status[s]
    BY <1>3 DEF RecoverCommit
  <2>4. ASSUME NEW s \in Session, s # session PROVE status'[s] # "active"
    BY <2>3, <2>4 DEF SessionInv, IsLatestSession
  <2>5. \A s \in Session : s > session => status'[s] = "absent"
    BY <2>1, <2>3 DEF SessionInv, IsLatestSession, TypeOK, Session
  <2>6. \A r, s \in Session : status'[r] = "active" /\ status'[s] # "absent" => s <= r
    BY <2>1, <2>4, <2>5 DEF Session
  <2>7. \A c \in rows' : c[1] <= session'
    BY <1>3 DEF RecoverCommit, SessionInv
  <2> QED
    BY <1>3, <2>1, <2>2, <2>3, <2>5, <2>6, <2>7 DEF RecoverCommit, SessionInv
<1>4. CASE CutChunk
  BY <1>4 DEF CutChunk, SessionInv
<1>5. ASSUME NEW n \in Seqno, PersistNew(n) PROVE SessionInv'
  <2>1. session \in Session
    BY <1>5 DEF PersistNew, CanCall, SessionInv
  <2> QED
    BY <1>5, <2>1, OwnChunk DEF PersistNew, CanCall, SessionInv, Session, TypeOK
<1>6. ASSUME NEW n \in Seqno, MarkNonSpeech(n) PROVE SessionInv'
  BY <1>6 DEF MarkNonSpeech, EnterWindow, CanCall, SessionInv
<1>7. ASSUME NEW n \in Seqno, CallFails(n) \/ Dropped(n) PROVE SessionInv'
  BY <1>7 DEF CallFails, Dropped, NeverReported, SessionInv
<1>8. ASSUME NEW n \in Seqno, PersistAgain(n) PROVE SessionInv'
  BY <1>8 DEF PersistAgain, EnterWindow, CanCall, SessionInv
<1>9. CASE MarkSegmentReady
  BY <1>9 DEF MarkSegmentReady, EnterWindow, SessionInv
<1>10. CASE PublishExpected
  BY <1>10 DEF PublishExpected, SessionInv
<1>11. CASE WindowCommit
  BY <1>11 DEF WindowCommit, WindowDone, SessionInv, TransactionInv, TypeOK
<1>12. CASE WindowCommitFails
  BY <1>12 DEF WindowCommitFails, WindowDone, SessionInv
<1>13. CASE WindowFails
  BY <1>13 DEF WindowFails, SessionInv
<1>14. CASE CloseSession
  BY <1>14 DEF CloseSession, SessionInv
<1>15. CASE FlushRow
  BY <1>15 DEF FlushRow, SessionInv
<1>16. CASE CloseCommit
  BY <1>16 DEF CloseCommit, SessionInv, TransactionInv, TypeOK
<1>17. CASE CloseFails
  BY <1>17 DEF CloseFails, SessionInv
<1>18. CASE ProcessEnds
  BY <1>18 DEF ProcessEnds, SessionInv
<1>19. ASSUME NEW k \in Chunk, EnforceRetention(k) PROVE SessionInv'
  BY <1>19 DEF EnforceRetention, CanCall, SessionInv, TypeOK
<1>20. CASE UNCHANGED vars
  BY <1>20 DEF vars, SessionInv
<1> QED
  BY <1>1, <1>2, <1>3, <1>4, <1>5, <1>6, <1>7, <1>8, <1>9, <1>10, <1>11, <1>12, <1>13,
     <1>14, <1>15, <1>16, <1>17, <1>18, <1>19, <1>20
  DEF Next, StartStep, Complete, LoopStep, CloseStep

-------------------------------------------------------------------------------
(* The publication window.                                                 *)

LEMMA FaultsNeverForgotten ==
  ASSUME TypeOK, [Next]_vars
  PROVE  faults \subseteq faults'
BY DEF TypeOK, Next, vars, StartStep, Complete, LoopStep, CloseStep, StartProcess, RecoverRow,
       RecoverCommit, CutChunk, PersistNew, MarkNonSpeech, CallFails, Dropped, NeverReported, PersistAgain,
       MarkSegmentReady, PublishExpected, WindowDone, WindowCommit, WindowCommitFails, WindowFails,
       CloseSession, FlushRow, CloseCommit, CloseFails, ProcessEnds, EnforceRetention,
       EnterWindow, Fault

LEMMA WindowStep ==
  ASSUME TypeOK, TransactionInv, SessionInv, WindowInv, [Next]_vars, "commit" \notin faults'
  PROVE  WindowInv'
<1> USE DEF Fault, ResetWindow, Rollback, Commit, mem, env, Front, InFlight
<1> SUFFICES ASSUME proc' = "up", op' # "flush" PROVE WindowInv'
  BY DEF WindowInv
<1>1. CASE StartProcess
  BY <1>1 DEF StartProcess
<1>2. CASE RecoverRow
  BY <1>2 DEF RecoverRow, SessionInv
<1>3. CASE RecoverCommit
  <2>1. session \in Session /\ op' = "idle" /\ expected' = 0
        /\ completed' = {} /\ handled' = {} /\ UNCHANGED <<session, rows>>
    BY <1>3 DEF RecoverCommit, SessionInv
  <2>2. \A n \in Seqno : Own(n) \notin rows
    BY <1>3, <2>1, OwnChunk DEF RecoverCommit, SessionInv, Session
  <2>3. \A n \in Seqno : Own(n)' \notin rows'
    BY <2>1, <2>2 DEF Own
  <2>4. \A n \in Seqno : ~(n < 0)
    BY DEF Seqno
  <2>5. \A n \in Seqno : n < Front' => n \in handled'
    BY <2>1, <2>4
  <2> QED
    BY <2>1, <2>3, <2>4, <2>5 DEF WindowInv
<1>4. CASE CutChunk
  <2>1. \A n \in handled : n < captured => n < captured + 1
    BY DEF TypeOK, Seqno
  <2>2. op # "flush" /\ captured' = captured + 1 /\ \A n \in Seqno : Own(n)' = Own(n)
    BY <1>4 DEF CutChunk, Own
  <2> QED
    BY <1>4, <2>1, <2>2 DEF CutChunk, WindowInv
<1>5. ASSUME NEW n \in Seqno, PersistNew(n) PROVE WindowInv'
  <2>1. proc = "up" /\ op = "idle" /\ op' = "staged" /\ cur' = n /\ n \notin handled
        /\ n < captured /\ session \in Session
    BY <1>5 DEF PersistNew, CanCall, SessionInv
  <2>2. ~(n < expected)
    BY <2>1 DEF WindowInv
  <2>3. txCursor[Own(n)] = 0
    BY <1>5, <2>1, OwnChunk DEF PersistNew, TransactionInv
  <2>4. \A k \in Seqno : Own(k)' = Own(k)
    BY <1>5 DEF PersistNew, Own
  <2>5. \A k \in Seqno : Own(k) = Own(n) => k = n
    BY <2>1, OwnChunk
  <2> QED
    BY <1>5, <2>1, <2>2, <2>3, <2>4, <2>5 DEF PersistNew, WindowInv
<1>6. ASSUME NEW n \in Seqno, op \in {"idle", "staged"}, proc = "up", EnterWindow(n),
             cur' \in Seqno, handled' = handled \cup {n}, n < captured
      PROVE  WindowInv'
  (* The loop starts where the committed table stands.                     *)
  <2>1. op' = "window" /\ at' = expected /\ txCursor = cursor
    BY <1>6 DEF EnterWindow, TransactionInv
  <2>2. \A k \in Seqno : Own(k)' = Own(k)
    BY <1>6 DEF EnterWindow, Own
  <2>3. expected \in Nat /\ expected <= expected
    BY DEF TypeOK
  <2> QED
    BY <1>6, <2>1, <2>2, <2>3 DEF EnterWindow, WindowInv
<1>7. ASSUME NEW n \in Seqno, MarkNonSpeech(n) PROVE WindowInv'
  <2>1. proc = "up" /\ op = "idle" /\ n < captured /\ EnterWindow(n)
        /\ cur' = n /\ handled' = handled \cup {n}
    BY <1>7 DEF MarkNonSpeech, EnterWindow, CanCall
  <2> QED
    BY <1>6, <2>1
<1>8. ASSUME NEW n \in Seqno, PersistAgain(n) PROVE WindowInv'
  <2>1. proc = "up" /\ op = "idle" /\ EnterWindow(n) /\ cur' = n
    BY <1>8 DEF PersistAgain, EnterWindow, CanCall
  <2>2. n \in handled /\ n < captured /\ handled' = handled \cup {n}
    BY <1>8, <2>1 DEF PersistAgain, WindowInv
  <2> QED
    BY <1>6, <2>1, <2>2
<1>9. CASE MarkSegmentReady
  <2>1. proc = "up" /\ op = "staged" /\ EnterWindow(cur) /\ cur' = cur
    BY <1>9 DEF MarkSegmentReady, EnterWindow
  <2>2. cur \in Seqno /\ cur < captured /\ handled' = handled \cup {cur}
    BY <1>9, <2>1 DEF MarkSegmentReady, WindowInv, TypeOK
  <2> QED
    BY <1>6, <2>1, <2>2
<1>10. ASSUME NEW n \in Seqno, CallFails(n) \/ Dropped(n) PROVE WindowInv'
  <2>1. op = "idle" /\ proc = "up" /\ n < captured /\ \A k \in Seqno : Own(k)' = Own(k)
    BY <1>10 DEF CallFails, Dropped, NeverReported, CanCall, Own
  <2> QED
    BY <1>10, <2>1 DEF CallFails, Dropped, NeverReported, WindowInv
<1>11. CASE PublishExpected
  <2>1. /\ session \in Session
        /\ at \in Seqno
        /\ at \in completed
        /\ at \in handled
        /\ proc = "up"
        /\ op = "window"
        /\ op' = "window"
        /\ at' = at + 1
        /\ completed' = completed \ {at}
        /\ UNCHANGED <<proc, session, rows, cursor, expected, cur, captured, handled>>
    BY <1>11 DEF PublishExpected, SessionInv, TypeOK, WindowInv
  <2>2. \A n \in Seqno : Own(n)' = Own(n)
    BY <2>1 DEF Own
  <2>3. \A n \in Seqno : n < at + 1 <=> n < at \/ n = at
    BY <2>1 DEF Seqno
  <2>4. \A n \in Seqno : Own(n) = Own(at) => n = at
    BY <2>1, OwnChunk
  <2>5. \A n \in Seqno : Own(n) \in rows => (n < at + 1 <=> txCursor'[Own(n)] # 0)
    <3>1. CASE Staged(Own(at))
      <4>1. PICK v \in Nat : v # 0 /\ txCursor' = [txCursor EXCEPT ![Own(at)] = v]
        BY <1>11, <2>1, <3>1, OwnChunk, AssignAbove DEF PublishExpected
      <4> QED
        BY <4>1, <2>1, <2>3, <2>4, OwnChunk DEF WindowInv, TypeOK
    <3>2. CASE ~Staged(Own(at))
      BY <1>11, <2>1, <2>3, <3>2 DEF PublishExpected, Staged, WindowInv
    <3> QED
      BY <3>1, <3>2
  <2>6. expected <= at + 1
    BY <2>1 DEF WindowInv, TypeOK, Seqno
  <2> QED
    BY <2>1, <2>2, <2>3, <2>5, <2>6 DEF WindowInv, TypeOK
<1>12. CASE WindowCommit
  <2>1. proc = "up" /\ op = "window" /\ op' = "idle"
    BY <1>12 DEF WindowCommit, WindowDone
  <2>2. \A k \in Seqno : Own(k)' = Own(k)
    BY <1>12 DEF WindowCommit, WindowDone, Own
  <2> QED
    BY <1>12, <2>1, <2>2 DEF WindowCommit, WindowDone, WindowInv
<1>13. CASE WindowCommitFails
  BY <1>13 DEF WindowCommitFails
<1>14. CASE WindowFails
  (* The rollback takes the cursors back to where the window still is.     *)
  <2>1. proc = "up" /\ op = "window" /\ op' = "idle" /\ txCursor' = cursor
        /\ \A k \in Seqno : Own(k)' = Own(k)
    BY <1>14 DEF WindowFails, Own
  <2>2. \A n \in Seqno : n < expected => n < at
    BY <2>1 DEF WindowInv, TypeOK, Seqno
  <2> QED
    BY <1>14, <2>1, <2>2 DEF WindowFails, WindowInv
<1>15. CASE CloseSession \/ CloseCommit \/ CloseFails \/ ProcessEnds
  BY <1>15 DEF CloseSession, CloseCommit, CloseFails, ProcessEnds
<1>16. CASE FlushRow
  BY <1>16 DEF FlushRow
<1>17. ASSUME NEW k \in Chunk, EnforceRetention(k) PROVE WindowInv'
  <2> DEFINE expired == {c \in rows : ~Before(k, c)}
  <2>1. /\ rows' = rows \ expired
        /\ cursor' = [c \in Chunk |-> IF c \in expired THEN 0 ELSE cursor[c]]
        /\ txCursor' = [c \in Chunk |-> IF c \in expired THEN 0 ELSE txCursor[c]]
        /\ op = "idle"
        /\ UNCHANGED <<proc, session, expected, completed, op, cur, at, captured, handled>>
    BY <1>17 DEF EnforceRetention, CanCall
  <2>2. \A n \in Seqno : Own(n)' = Own(n)
    BY <2>1 DEF Own
  <2>3. \A c \in rows' : c \in rows /\ cursor'[c] = cursor[c] /\ txCursor'[c] = txCursor[c]
    BY <2>1 DEF TypeOK
  <2> HIDE DEF expired
  <2> QED
    BY <2>1, <2>2, <2>3 DEF WindowInv
<1>18. CASE UNCHANGED vars
  BY <1>18 DEF vars, WindowInv, Own
<1> QED
  BY <1>1, <1>2, <1>3, <1>4, <1>5, <1>7, <1>8, <1>9, <1>10, <1>11, <1>12, <1>13,
     <1>14, <1>15, <1>16, <1>17, <1>18
  DEF Next, StartStep, Complete, LoopStep, CloseStep

(* Whatever is remembered stays remembered, and the loop stops only at a   *)
(* number that is not.                                                     *)
LEMMA ProgressStep ==
  ASSUME TypeOK, SessionInv, WindowInv, ProgressInv, [Next]_vars,
         faults' \cap {"call", "drop", "window", "commit"} = {}
  PROVE  ProgressInv'
<1> USE DEF Fault, ResetWindow, mem, env, Front
<1> SUFFICES ASSUME proc' = "up", op' # "flush" PROVE ProgressInv'
  BY DEF ProgressInv
<1>1. CASE RecoverCommit
  BY <1>1 DEF RecoverCommit, ProgressInv
<1>2. CASE CutChunk
  BY <1>2 DEF CutChunk, ProgressInv
<1>3. ASSUME NEW n \in Seqno, PersistNew(n) PROVE ProgressInv'
  BY <1>3 DEF PersistNew, CanCall, ProgressInv
<1>4. ASSUME NEW n \in Seqno, MarkNonSpeech(n) PROVE ProgressInv'
  BY <1>4 DEF MarkNonSpeech, EnterWindow, CanCall, ProgressInv
<1>5. ASSUME NEW n \in Seqno, PersistAgain(n) PROVE ProgressInv'
  BY <1>5 DEF PersistAgain, EnterWindow, CanCall, ProgressInv
<1>6. CASE MarkSegmentReady
  BY <1>6 DEF MarkSegmentReady, EnterWindow, ProgressInv
<1>7. CASE PublishExpected
  <2>1. \A n \in Seqno : n < at + 1 <=> n < at \/ n = at
    BY DEF Seqno, TypeOK
  <2> QED
    BY <1>7, <2>1 DEF PublishExpected, ProgressInv, TypeOK
<1>8. CASE WindowCommit
  BY <1>8 DEF WindowCommit, WindowDone, ProgressInv
<1>9. CASE WindowCommitFails \/ WindowFails \/ \E n \in Seqno : CallFails(n) \/ Dropped(n)
  BY <1>9 DEF WindowCommitFails, WindowFails, CallFails, Dropped, NeverReported
<1>10. CASE \/ StartProcess \/ CloseSession \/ CloseCommit \/ CloseFails \/ ProcessEnds
            \/ FlushRow \/ RecoverRow
  BY <1>10
  DEF StartProcess, CloseSession, CloseCommit, CloseFails, ProcessEnds, FlushRow, RecoverRow,
      SessionInv
<1>11. ASSUME NEW k \in Chunk, EnforceRetention(k) PROVE ProgressInv'
  BY <1>11 DEF EnforceRetention, ProgressInv
<1>12. CASE UNCHANGED vars
  BY <1>12 DEF vars, ProgressInv
<1> QED
  BY <1>1, <1>2, <1>3, <1>4, <1>5, <1>6, <1>7, <1>8, <1>9, <1>10, <1>11, <1>12
  DEF Next, StartStep, Complete, LoopStep, CloseStep

(* A session closed with nothing in flight gets no further call.           *)
LEMMA ClosedForGood ==
  ASSUME TypeOK, SessionInv, CloseInv, [Next]_vars, "late" \notin faults'
  PROVE  CloseInv'
<1> USE DEF Fault, ResetWindow, mem, env, InFlight, CanCall
<1>1. CASE StartStep
  BY <1>1 DEF StartStep, StartProcess, RecoverRow, RecoverCommit, CloseInv, SessionInv
<1>2. CASE CutChunk
  BY <1>2 DEF CutChunk, CloseInv
<1>3. ASSUME NEW n \in Seqno, Complete(n) \/ PersistAgain(n) PROVE CloseInv'
  BY <1>3 DEF Complete, PersistNew, MarkNonSpeech, CallFails, Dropped, NeverReported, PersistAgain, EnterWindow, CloseInv
<1>4. CASE LoopStep
  BY <1>4
  DEF LoopStep, MarkSegmentReady, EnterWindow, PublishExpected, WindowCommit, WindowCommitFails,
      WindowDone, WindowFails, CloseInv, SessionInv
<1>5. CASE CloseSession
  <2>1. InFlight = {}
    BY <1>5 DEF CloseSession
  <2> QED
    BY <1>5, <2>1 DEF CloseSession, CloseInv
<1>6. CASE FlushRow
  BY <1>6 DEF FlushRow, CloseInv, SessionInv
<1>7. CASE CloseCommit \/ CloseFails
  BY <1>7 DEF CloseCommit, CloseFails, CloseInv
<1>8. CASE ProcessEnds
  BY <1>8 DEF ProcessEnds, CloseInv
<1>9. ASSUME NEW k \in Chunk, EnforceRetention(k) PROVE CloseInv'
  BY <1>9 DEF EnforceRetention, CloseInv
<1>10. CASE UNCHANGED vars
  BY <1>10 DEF vars, CloseInv
<1> QED
  BY <1>1, <1>2, <1>3, <1>4, <1>5, <1>6, <1>7, <1>8, <1>9, <1>10 DEF Next, CloseStep

-------------------------------------------------------------------------------
(* Order.                                                                  *)

(* A staged row that gets the next number keeps the order when everything  *)
(* before it is published.                                                 *)
LEMMA AssignKeepsOrder ==
  ASSUME TypeOK, TransactionInv, OrderInv, NEW c \in Chunk, Staged(c),
         AssignNextPublicationSeq(c), UNCHANGED rows,
         \A d \in rows : Before(d, c) => txCursor[d] # 0
  PROVE  OrderInv'
<1>1. PICK v \in Nat : /\ v # 0
                       /\ txCursor' = [txCursor EXCEPT ![c] = v]
                       /\ \A d \in Chunk : txCursor[d] < v
  BY AssignAbove
<1>2. \A d \in Chunk : txCursor'[d] = IF d = c THEN v ELSE txCursor[d]
  BY <1>1 DEF TypeOK
<1>3. \A d \in rows : Before(c, d) => txCursor[d] = 0
  BY DEF OrderInv, Staged
<1>4. ~Before(c, c)
  BY DEF Before, Chunk, Session, Seqno
<1>5. \A d \in rows : d \in Chunk /\ txCursor[d] < v
  BY <1>1 DEF TypeOK
<1> QED
  BY <1>1, <1>2, <1>3, <1>4, <1>5 DEF OrderInv

LEMMA BeforeIsTotal ==
  ASSUME NEW c \in Chunk, NEW d \in Chunk, c # d
  PROVE  Before(c, d) \/ Before(d, c)
BY DEF Before, Chunk, Session, Seqno

(* A chunk before one of the running session is of an older session or     *)
(* has a lower sequence number.                                            *)
LEMMA BeforeOwn ==
  ASSUME session \in Session, NEW n \in Seqno, NEW d \in Chunk, Before(d, Own(n))
  PROVE  d[1] < session \/ (d = Own(d[2]) /\ d[2] \in Seqno /\ d[2] < n)
BY DEF Before, Own, Chunk

(* Rows that keep their cursors and rows that go away keep the order.      *)
LEMMA FewerRowsKeepOrder ==
  ASSUME OrderInv, rows' \subseteq rows, \A c \in rows' : txCursor'[c] = txCursor[c]
  PROVE  OrderInv'
BY DEF OrderInv

LEMMA OrderStep ==
  ASSUME TypeOK, TransactionInv, SessionInv, WindowInv, CloseInv, OrderInv, [Next]_vars,
         faults' \cap {"commit", "late"} = {}
  PROVE  OrderInv'
<1> USE DEF Fault, ResetWindow, Rollback, Commit, mem, env, Front
<1>1. CASE UNCHANGED <<rows, txCursor>>
  BY <1>1 DEF OrderInv
<1>2. CASE RecoverRow
  <2>1. PICK c \in Chunk : /\ Staged(c)
                           /\ \A d \in Chunk : Staged(d) => ~Before(d, c)
                           /\ AssignNextPublicationSeq(c)
    BY <1>2 DEF RecoverRow
  <2>2. \A d \in rows : Before(d, c) => txCursor[d] # 0
    BY <2>1 DEF Staged, TypeOK
  <2> QED
    BY <1>2, <2>1, <2>2, AssignKeepsOrder DEF RecoverRow
<1>3. ASSUME NEW n \in Seqno, PersistNew(n) PROVE OrderInv'
  <2>1. proc = "up" /\ op = "idle" /\ n \notin handled /\ session \in Session
        /\ n \in InFlight
    BY <1>3 DEF PersistNew, CanCall, CloseInv, SessionInv, InFlight
  <2>2. rows' = rows \cup {Own(n)} /\ txCursor' = txCursor /\ txCursor[Own(n)] = 0
    BY <1>3, <2>1, OwnChunk DEF PersistNew, TransactionInv
  <2>3. ASSUME NEW d \in rows, Before(Own(n), d) PROVE txCursor[d] = 0
    <3>1. d \in Chunk /\ d[1] = session /\ d[2] \in Seqno /\ d = Own(d[2]) /\ n < d[2]
      BY <2>1, <2>3, OwnChunk DEF SessionInv, TypeOK, Chunk, Before, Own, Session
    <3>2. ~(n < expected)
      BY <2>1 DEF WindowInv
    <3>3. ~(d[2] < expected)
      BY <3>1, <3>2 DEF Seqno, TypeOK
    <3> QED
      BY <2>1, <3>1, <3>3 DEF WindowInv
  <2>4. ~Before(Own(n), Own(n))
    BY <2>1, OwnChunk DEF Before, Session, Seqno
  <2> QED
    BY <2>2, <2>3, <2>4 DEF OrderInv
<1>4. CASE PublishExpected
  <2>1. session \in Session /\ at \in Seqno /\ proc = "up" /\ op = "window" /\ rows' = rows
    BY <1>4 DEF PublishExpected, SessionInv, TypeOK, CloseInv
  <2>2. CASE Staged(Own(at))
    <3>1. ASSUME NEW d \in rows, Before(d, Own(at)) PROVE txCursor[d] # 0
      <4>1. d \in Chunk
        BY DEF TypeOK
      <4>2. CASE d[1] < session
        BY <2>1, <4>1, <4>2 DEF SessionInv, TransactionInv, TypeOK
      <4>3. CASE d = Own(d[2]) /\ d[2] \in Seqno /\ d[2] < at
        BY <2>1, <4>3 DEF WindowInv
      <4> QED
        BY <2>1, <3>1, <4>1, <4>2, <4>3, BeforeOwn
    <3> QED
      BY <1>4, <2>1, <2>2, <3>1, OwnChunk, AssignKeepsOrder DEF PublishExpected
  <2>3. CASE ~Staged(Own(at))
    BY <1>4, <2>3 DEF PublishExpected, OrderInv
  <2> QED
    BY <2>2, <2>3
<1>5. CASE WindowCommitFails
  BY <1>5 DEF WindowCommitFails
<1>6. CASE FlushRow
  <2>1. PICK n \in Seqno : /\ Staged(Own(n))
                           /\ \A k \in Seqno : Staged(Own(k)) => n <= k
                           /\ AssignNextPublicationSeq(Own(n))
    BY <1>6 DEF FlushRow
  <2>2. session \in Session /\ proc = "up" /\ rows' = rows
    BY <1>6 DEF FlushRow, SessionInv
  <2>3. ASSUME NEW d \in rows, Before(d, Own(n)) PROVE txCursor[d] # 0
    <3>1. d \in Chunk
      BY DEF TypeOK
    <3>2. CASE d[1] < session
      BY <2>2, <3>1, <3>2 DEF SessionInv, TransactionInv, TypeOK
    <3>3. CASE d = Own(d[2]) /\ d[2] \in Seqno /\ d[2] < n
      BY <2>1, <3>3 DEF Staged, Seqno
    <3> QED
      BY <2>2, <2>3, <3>1, <3>2, <3>3, BeforeOwn
  <2> QED
    BY <2>1, <2>2, <2>3, OwnChunk, AssignKeepsOrder
<1>7. CASE WindowFails \/ CloseFails \/ ProcessEnds
  (* What is committed is ordered: a row the transaction published lies    *)
  (* above every committed cursor.                                         *)
  <2>1. rows' = rows /\ txCursor' = cursor
    BY <1>7 DEF WindowFails, CloseFails, ProcessEnds
  <2>2. ASSUME NEW c \in rows, NEW d \in rows, Before(c, d), cursor[d] # 0
        PROVE  cursor[c] # 0 /\ cursor[c] < cursor[d]
    <3>1. c \in Chunk /\ d \in Chunk
      BY DEF TypeOK
    <3>2. txCursor[d] = cursor[d] /\ txCursor[c] # 0 /\ txCursor[c] < txCursor[d]
      BY <2>2, <3>1 DEF OrderInv, TransactionInv
    <3>3. cursor[c] = 0 => cursor[d] < txCursor[c]
      BY <3>1, <3>2 DEF TransactionInv
    <3>4. cursor[c] # 0
      BY <3>1, <3>2, <3>3 DEF TypeOK
    <3>5. txCursor[c] = cursor[c]
      BY <3>1, <3>4 DEF TransactionInv
    <3> QED
      BY <3>2, <3>4, <3>5
  <2> QED
    BY <2>1, <2>2 DEF OrderInv
<1>8. ASSUME NEW k \in Chunk, EnforceRetention(k) PROVE OrderInv'
  <2>1. rows' \subseteq rows /\ \A c \in rows' : txCursor'[c] = txCursor[c]
    BY <1>8 DEF EnforceRetention, TypeOK
  <2> QED
    BY <2>1, FewerRowsKeepOrder
<1>9. CASE UNCHANGED vars
  BY <1>1, <1>9 DEF vars
<1>10. CASE \/ StartProcess \/ RecoverCommit \/ CutChunk \/ MarkSegmentReady
            \/ WindowCommit \/ CloseSession \/ CloseCommit
            \/ \E n \in Seqno : MarkNonSpeech(n) \/ CallFails(n) \/ Dropped(n) \/ PersistAgain(n)
  BY <1>1, <1>10
  DEF StartProcess, RecoverCommit, CutChunk, MarkSegmentReady, WindowCommit, WindowDone,
      CloseSession, CloseCommit, MarkNonSpeech, CallFails, Dropped, NeverReported, PersistAgain, EnterWindow
<1> QED
  BY <1>2, <1>3, <1>4, <1>5, <1>6, <1>7, <1>8, <1>9, <1>10
  DEF Next, StartStep, Complete, LoopStep, CloseStep

-------------------------------------------------------------------------------
(* The invariant of the specification.                                     *)
LEMMA InitInvariant == Init => IInv
BY StoreConstants
DEF Init, IInv, TypeOK, TransactionInv, SessionInv, WindowInv, ProgressInv, CloseInv, OrderInv,
    StoreConstants, ProcState, Status, Op, Session, Seqno, Chunk, Before, InFlight, Front

LEMMA StepInvariant == IInv /\ [Next]_vars => IInv'
<1> SUFFICES ASSUME IInv, [Next]_vars PROVE IInv'
  OBVIOUS
<1>1. TypeOK' /\ TransactionInv' /\ SessionInv'
  BY TypeStep, TransactionStep, SessionStep DEF IInv
<1>2. faults \subseteq faults'
  BY FaultsNeverForgotten DEF IInv
<1>3. "commit" \notin faults' => WindowInv'
  BY <1>2, WindowStep DEF IInv
<1>4. faults' \cap {"call", "drop", "window", "commit"} = {} => ProgressInv'
  BY <1>2, ProgressStep DEF IInv
<1>5. "late" \notin faults' => CloseInv'
  BY <1>2, ClosedForGood DEF IInv
<1>6. faults' \cap {"commit", "late"} = {} => OrderInv'
  BY <1>2, OrderStep DEF IInv
<1> QED
  BY <1>1, <1>3, <1>4, <1>5, <1>6 DEF IInv

THEOREM Invariant == Spec => []IInv
BY InitInvariant, StepInvariant, PTL DEF Spec

(* The state of the store has the types its code gives it.                 *)
THEOREM TypeCorrect == Spec => []TypeOK
<1>1. IInv => TypeOK
  BY DEF IInv
<1> QED
  BY <1>1, Invariant, PTL

(* Readers that page by cursor read the transcript in capture order, over  *)
(* any number of sessions, crashes, failed calls and failed closes, as     *)
(* long as no COMMIT of a publication has failed and no session was closed *)
(* with chunks in flight.                                                  *)
THEOREM PublicationOrder == Spec => []PublishedPrefixUntilFault
<1>1. IInv => PublishedPrefixUntilFault
  <2> SUFFICES ASSUME IInv, faults \cap {"commit", "late"} = {},
                      NEW c \in rows, NEW d \in rows, Before(c, d), cursor[d] # 0
               PROVE  cursor[c] # 0 /\ cursor[c] < cursor[d]
    BY DEF PublishedPrefixUntilFault, PublishedPrefix
  <2>1. TypeOK /\ TransactionInv /\ OrderInv /\ c \in Chunk /\ d \in Chunk
    BY DEF IInv, TypeOK
  <2>2. txCursor[d] = cursor[d] /\ txCursor[c] # 0 /\ txCursor[c] < txCursor[d]
    BY <2>1 DEF OrderInv, TransactionInv
  <2>3. cursor[c] # 0
    BY <2>1, <2>2 DEF TransactionInv, TypeOK
  <2> QED
    BY <2>1, <2>2, <2>3 DEF TransactionInv
<1> QED
  BY <1>1, Invariant, PTL

(* The number at the front of the window is one that is still in flight.   *)
LEMMA WindowFollowsInvariant == IInv => WaitsOnlyForInFlightUntilFault
<1> SUFFICES ASSUME IInv, faults \cap {"call", "drop", "window", "commit"} = {}, proc = "up", op = "idle",
                    NEW n \in Seqno, Own(n) \in rows, cursor[Own(n)] = 0
             PROVE  \E k \in InFlight : k < n
  BY DEF WaitsOnlyForInFlightUntilFault, WaitsOnlyForInFlight
<1>1. TypeOK /\ TransactionInv /\ WindowInv /\ ProgressInv
  BY DEF IInv
<1>2. txCursor[Own(n)] = 0
  BY <1>1 DEF TransactionInv
<1>3. n \in handled /\ n < captured /\ ~(n < expected) /\ expected \notin completed
  BY <1>1, <1>2 DEF WindowInv, ProgressInv, Front
<1>4. expected \notin handled
  BY <1>1, <1>3 DEF ProgressInv, Front, TypeOK
<1>5. expected < n /\ expected < captured /\ expected \in Seqno
  BY <1>1, <1>3, <1>4, StoreConstants DEF TypeOK, Seqno, StoreConstants
<1> QED
  BY <1>4, <1>5 DEF InFlight

(* While every completion reaches the store and every publication commits, *)
(* the publication window is never stuck: a staged row of the running      *)
(* session waits for an earlier chunk still in the hands of the worker.    *)
THEOREM WindowProgress == Spec => []WaitsOnlyForInFlightUntilFault
BY WindowFollowsInvariant, Invariant, PTL

(* A session that runs has published everything its predecessors left and  *)
(* is the only active one, whatever faults and crashes came before.        *)
THEOREM RecoveryIsComplete == Spec => []RecoveryComplete
<1>1. IInv => RecoveryComplete
  BY DEF IInv, SessionInv, RecoveryComplete, TypeOK, Session
<1> QED
  BY <1>1, Invariant, PTL

-------------------------------------------------------------------------------
(* The cursor log.                                                         *)
LEMMA CommitPublishes ==
  ASSUME TypeOK, TransactionInv, UNCHANGED rows, cursor' = txCursor
  PROVE  Log!Publish
<1>1. ASSUME NEW i \in Chunk
      PROVE  IF Log!Unpublished(i)
               THEN cursor'[i] = 0 \/ \A j \in Chunk : cursor[j] < cursor'[i]
               ELSE cursor'[i] = cursor[i]
  <2>1. CASE Log!Unpublished(i)
    BY <2>1 DEF TransactionInv, Log!Unpublished
  <2>2. CASE ~Log!Unpublished(i)
    BY <2>2 DEF TransactionInv, Log!Unpublished
  <2> QED
    BY <2>1, <2>2
<1>2. \A i, j \in Chunk : i # j /\ cursor'[i] # 0 => cursor'[i] # cursor'[j]
  BY DEF TransactionInv
<1> QED
  BY <1>1, <1>2 DEF Log!Publish, TypeOK

LEMMA LogStep == IInv /\ [Next]_vars => [Log!Next]_Log!vars
<1> SUFFICES ASSUME IInv, [Next]_vars PROVE Log!Next \/ UNCHANGED <<rows, cursor>>
  BY DEF Log!vars
<1> USE DEF mem, env
<1>0. TypeOK /\ TransactionInv /\ SessionInv
  BY DEF IInv
<1>1. CASE RecoverCommit \/ WindowCommit \/ CloseCommit
  <2>1. UNCHANGED rows /\ cursor' = txCursor
    BY <1>1 DEF RecoverCommit, WindowCommit, WindowDone, CloseCommit, Commit
  <2> QED
    BY <1>0, <2>1, CommitPublishes DEF Log!Next
<1>2. ASSUME NEW n \in Seqno, PersistNew(n) PROVE Log!Next
  <2>1. Own(n) \in Chunk
    BY <1>0, <1>2, OwnChunk DEF PersistNew, CanCall, SessionInv
  <2> QED
    BY <1>2, <2>1 DEF PersistNew, Log!Next, Log!Store
<1>3. ASSUME NEW k \in Chunk, EnforceRetention(k) PROVE Log!Next
  <2> DEFINE expired == {c \in rows : ~Before(k, c)}
  <2>1. /\ rows' = rows \ expired
        /\ cursor' = [c \in Chunk |-> IF c \in expired THEN 0 ELSE cursor[c]]
    BY <1>3 DEF EnforceRetention
  <2>2. \A c \in Chunk : c \notin rows => cursor[c] = 0
    BY <1>0 DEF TransactionInv
  <2> HIDE DEF expired
  <2>3. cursor' = [c \in Chunk |-> IF c \in rows' THEN cursor[c] ELSE 0]
    BY <2>1, <2>2
  <2>4. Log!Expire
    BY <2>1, <2>3 DEF Log!Expire
  <2> QED
    BY <2>4 DEF Log!Next
<1>4. CASE \/ StartProcess \/ RecoverRow \/ CutChunk \/ MarkSegmentReady \/ PublishExpected
           \/ WindowCommitFails \/ WindowFails \/ CloseSession \/ FlushRow \/ CloseFails
           \/ ProcessEnds \/ UNCHANGED vars
           \/ \E n \in Seqno : MarkNonSpeech(n) \/ CallFails(n) \/ Dropped(n) \/ PersistAgain(n)
  BY <1>4
  DEF StartProcess, RecoverRow, CutChunk, MarkSegmentReady, PublishExpected, WindowCommitFails,
      WindowFails, WindowDone, CloseSession, FlushRow, CloseFails, ProcessEnds, MarkNonSpeech,
      CallFails, Dropped, NeverReported, PersistAgain, EnterWindow, vars
<1> QED
  BY <1>1, <1>2, <1>3, <1>4 DEF Next, StartStep, Complete, LoopStep, CloseStep

(* The committed table is a CursorLog, under every fault and crash: what a *)
(* reader has seen under a cursor never moves to another cursor, and what  *)
(* is published later is never inserted below a cursor still in the table. *)
THEOREM StoreIsCursorLog == Spec => LogSpec
<1>1. Init => Log!Init
  BY DEF Init, Log!Init
<1> QED
  BY <1>1, LogStep, Invariant, PTL DEF Spec, LogSpec, Log!Spec

-------------------------------------------------------------------------------
(* THE WORKER                                                              *)

(* The worker drives the store as the store expects to be driven.          *)
LEMMA StoreStep == [WorkerNext]_workerVars => [Next]_vars
<1> SUFFICES ASSUME WorkerNext \/ UNCHANGED workerVars PROVE Next \/ UNCHANGED vars
  OBVIOUS
<1>1. ASSUME NEW n, n \in InFlight PROVE n \in Seqno
  BY <1>1 DEF InFlight
<1>2. CASE Start
  BY <1>2 DEF Start, Next, StartStep
<1>3. CASE CaptureThread
  BY <1>3, <1>1 DEF CaptureThread, Capture, Enqueue, DropOnBackpressure, CaptureExits,
        Next, Complete, Dropped, NeverReported
<1>4. CASE AsrThread
  <2>1. CASE Report
    BY <2>1, <1>1 DEF Report, PersistNew, MarkNonSpeech, Next, Complete
  <2>2. CASE ReportFails
    BY <2>2, <1>1 DEF ReportFails, CallFails, NeverReported, Next, Complete
  <2>3. CASE StoreWorks \/ Return \/ ReturnFailed
    BY <2>3 DEF StoreWorks, Return, ReturnFailed, Next, LoopStep
  <2>4. CASE TakeChunk \/ Transcribe
    BY <2>4 DEF TakeChunk, Transcribe
  <2> QED
    BY <1>4, <2>1, <2>2, <2>3, <2>4 DEF AsrThread
<1>5. CASE StopThread
  BY <1>5 DEF StopThread, StopRequested, JoinCapture, PutSentinel, JoinAsr, Close,
        Next, CloseStep
<1>6. CASE Ends
  BY <1>6 DEF Ends, Next
<1>7. CASE Sweep
  BY <1>7 DEF Sweep, Next
<1>8. CASE UNCHANGED workerVars
  BY <1>8 DEF workerVars
<1> QED
  BY <1>2, <1>3, <1>4, <1>5, <1>6, <1>7, <1>8 DEF WorkerNext

(* Whatever the threads do, the store sees a behaviour of ScannerStore, so *)
(* every theorem about the store holds of the service.                     *)
THEOREM WorkerImplementsStore == WorkerSpec => Spec
<1>1. WorkerInit => Init
  BY DEF WorkerInit
<1> QED
  BY <1>1, StoreStep, PTL DEF WorkerSpec, Spec

(* A restarted service has published all its predecessors left, whatever   *)
(* happened to its threads.                                                *)
THEOREM ServiceRecovers == WorkerSpec => []RecoveryComplete
BY WorkerImplementsStore, RecoveryIsComplete, PTL

-------------------------------------------------------------------------------
(* The pipeline.                                                           *)

PipelineTypes ==
  /\ capture \in {"off", "run", "put"}
  /\ queue \in Seq(Seqno \cup {Sentinel})
  /\ asr \in {"off", "get", "busy"} \cup Outcome
  /\ hand \in Seqno
  /\ stopping \in {"no", "join", "sentinel", "drain", "close"}
  /\ wavs \subseteq Chunk

(* The order stop() keeps: the capture thread is gone when the sentinel    *)
(* is put, so the sentinel is the last entry, and the end of the ASR       *)
(* thread.                                                                 *)
StopInv ==
  /\ proc \in {"down", "starting"} =>
       capture = "off" /\ queue = <<>> /\ asr = "off" /\ stopping = "no"
  /\ proc = "closed" \/ op = "flush" => stopping = "close"
  /\ stopping \in {"sentinel", "drain", "close"} => capture = "off"
  /\ \A i \in 1 .. Len(queue) :
       queue[i] = Sentinel => i = Len(queue) /\ stopping \in {"drain", "close"}
  /\ asr = "off" /\ proc \in {"up", "closed"} =>
       queue = <<>> /\ stopping \in {"drain", "close"}

(* Where a chunk that was cut and not reported can be.                     *)
InPipeline(n) ==
  \/ capture = "put" /\ n = InPut
  \/ \E i \in 1 .. Len(queue) : queue[i] = n
  \/ asr \in {"busy"} \cup Outcome /\ n = hand

FlightInv ==
  /\ capture = "put" => captured # 0
  /\ \A n \in handled : n < captured
  /\ op \in {"staged", "window"} => asr \in Outcome /\ hand \in handled
  /\ proc = "up" => \A n \in InFlight : InPipeline(n)

(* Which chunks can have a file, and which of them a row.                  *)
FileInv ==
  /\ \A c \in wavs : c[1] <= session /\ (proc = "starting" => c[1] < session)
  /\ proc = "up" => \A n \in Seqno : Own(n) \in rows => n < captured
  /\ asr \in {"busy"} \cup Outcome => hand < captured
  /\ \A i \in 1 .. Len(queue) : queue[i] \in Seqno => queue[i] < captured
  /\ asr \in Outcome => Own(hand) \notin wavs
  /\ NoFileBehind

(* The pipeline carries the chunks in the order they were cut.             *)
Working == asr \in {"busy"} \cup Outcome

FifoInv ==
  /\ \A i, j \in 1 .. Len(queue) : i < j => queue[i] < queue[j]
  /\ Working => \A i \in 1 .. Len(queue) : hand < queue[i]
  /\ capture = "put" => /\ \A i \in 1 .. Len(queue) : queue[i] < InPut
                        /\ Working => hand < InPut

ReportInv ==
  "drop" \notin faults /\ proc = "up" => \A n \in handled, k \in InFlight : n < k

(* While a call runs, its chunk is the one in the ASR thread's hand.       *)
Calling == op \in {"staged", "window"}

(* What reached the store is older than everything still on its way to it, *)
(* even if chunks were dropped: a dropped one was younger, and left        *)
(* nothing behind.                                                         *)
OldestInv ==
  proc = "up" => \A n \in Seqno :
    n \in completed \/ Own(n) \in rows \/ (Calling /\ n = hand) =>
      n < captured /\ \A k \in InFlight : n < k

(* So the loop publishes the chunk in hand or nothing, unless an error has *)
(* left in memory what it should have published before: a row without its  *)
(* event is that chunk's, and only inside its call.                        *)
AnnounceInv ==
  /\ Calling => cur = hand
  /\ Calling /\ proc = "up" =>
       /\ \A n \in completed : n <= hand
       /\ Own(hand) \in rows => asr = "speech"
  /\ "window" \notin faults /\ proc = "up" =>
       /\ op \in {"idle", "staged"} => expected \notin completed
       /\ op = "window" /\ at \in completed => at = hand
       /\ Calling \/ op = "idle" =>
            \A n \in Seqno : Own(n) \in rows /\ txCursor[Own(n)] # 0 =>
              \/ Own(n) \in announced
              \/ op = "window" /\ n = hand /\ cursor[Own(n)] = 0

WorkerInv == /\ IInv /\ PipelineTypes
             /\ StopInv /\ FlightInv /\ FileInv /\ FifoInv
             /\ ReportInv /\ OldestInv /\ AnnounceInv

LEMMA Appended ==
  ASSUME NEW S, NEW q \in Seq(S), NEW x \in S
  PROVE  /\ Append(q, x) \in Seq(S) /\ Len(Append(q, x)) = Len(q) + 1 /\ Len(q) \in Nat
         /\ \A i \in 1 .. Len(q) : Append(q, x)[i] = q[i]
         /\ Append(q, x)[Len(q) + 1] = x
OBVIOUS

LEMMA Taken ==
  ASSUME NEW S, NEW q \in Seq(S), q # <<>>
  PROVE  /\ Tail(q) \in Seq(S) /\ Len(Tail(q)) = Len(q) - 1 /\ Len(q) \in Nat \ {0}
         /\ \A i \in 1 .. Len(q) - 1 : Tail(q)[i] = q[i + 1]
         /\ Head(q) = q[1] /\ Head(q) \in S
OBVIOUS

LEMMA InFlightIsCut ==
  ASSUME NEW n \in InFlight
  PROVE  n \in Seqno /\ n < captured /\ n \notin handled
BY DEF InFlight

LEMMA InPutIsCut ==
  ASSUME TypeOK, FlightInv, capture = "put"
  PROVE  InPut \in Seqno /\ InPut < captured
BY StoreConstants DEF StoreConstants, TypeOK, FlightInv, InPut, Seqno

LEMMA SentinelIsNoChunk == Sentinel \notin Seqno
BY StoreConstants DEF StoreConstants, Sentinel, Seqno

LEMMA PipelineTypesStep ==
  ASSUME TypeOK, TypeOK', SessionInv, FlightInv, PipelineTypes, [WorkerNext]_workerVars
  PROVE  PipelineTypes'
<1> USE DEF PipelineTypes, Outcome
<1>1. CASE Start
  BY <1>1 DEF Start, pipeline
<1>2. CASE Capture
  <2>1. Own(captured) \in Chunk
    BY <1>2 DEF Capture, CutChunk, SessionInv, TypeOK, Own, Chunk, Seqno, Session
  <2> QED
    BY <1>2, <2>1 DEF Capture
<1>3. CASE Enqueue
  BY <1>3, InPutIsCut, Appended DEF Enqueue
<1>4. CASE DropOnBackpressure \/ CaptureExits
  BY <1>4 DEF DropOnBackpressure, CaptureExits
<1>5. CASE TakeChunk
  <2>1. Tail(queue) \in Seq(Seqno \cup {Sentinel}) /\ Head(queue) \in Seqno \cup {Sentinel}
    BY <1>5, Taken DEF TakeChunk
  <2>2. hand' \in Seqno /\ asr' \in {"off", "busy"}
    BY <1>5, <2>1 DEF TakeChunk
  <2> QED
    BY <1>5, <2>1, <2>2 DEF TakeChunk
<1>6. CASE Transcribe
  BY <1>6 DEF Transcribe
<1>7. CASE Report \/ ReportFails \/ StoreWorks \/ Return \/ ReturnFailed
  BY <1>7 DEF Report, ReportFails, StoreWorks, Return, ReturnFailed, pipeline
<1>8. CASE StopRequested \/ JoinCapture \/ JoinAsr \/ Close
  BY <1>8 DEF StopRequested, JoinCapture, JoinAsr, Close, pipeline
<1>9. CASE PutSentinel
  BY <1>9, Appended DEF PutSentinel
<1>10. CASE Ends
  BY <1>10 DEF Ends
<1>11. CASE Sweep \/ UNCHANGED workerVars
  BY <1>11 DEF Sweep, pipeline, workerVars
<1> QED
  BY <1>1, <1>2, <1>3, <1>4, <1>5, <1>6, <1>7, <1>8, <1>9, <1>10, <1>11
     DEF WorkerNext, CaptureThread, AsrThread, StopThread

LEMMA StopStep ==
  ASSUME TypeOK, SessionInv, FlightInv, PipelineTypes, StopInv, [WorkerNext]_workerVars
  PROVE  StopInv'
<1> USE DEF StopInv, ProcState
<1>1. CASE Start
  BY <1>1 DEF Start, pipeline, StartProcess, RecoverRow, RecoverCommit, SessionInv
<1>2. CASE Capture \/ DropOnBackpressure \/ CaptureExits
  BY <1>2 DEF Capture, CutChunk, DropOnBackpressure, Dropped, NeverReported, CaptureExits, vars
<1>3. CASE Enqueue
  <2>1. InPut \in Seqno /\ InPut # Sentinel
    BY <1>3, InPutIsCut, SentinelIsNoChunk DEF Enqueue
  <2>0. queue \in Seq(Seqno \cup {Sentinel}) /\ queue' = Append(queue, InPut)
    BY <1>3 DEF Enqueue, PipelineTypes
  <2>2. /\ Len(queue') = Len(queue) + 1 /\ Len(queue) \in Nat
        /\ \A i \in 1 .. Len(queue) : queue'[i] = queue[i]
        /\ queue'[Len(queue) + 1] = InPut
    BY <2>0, <2>1, Appended
  <2>3. stopping \notin {"sentinel", "drain", "close"}
    BY <1>3 DEF Enqueue
  <2>4. ASSUME NEW i \in 1 .. Len(queue'), queue'[i] = Sentinel PROVE FALSE
    BY <2>1, <2>2, <2>3, <2>4
  <2> QED
    BY <1>3, <2>3, <2>4 DEF Enqueue, vars
<1>4. CASE TakeChunk
  <2>0. queue \in Seq(Seqno \cup {Sentinel}) /\ queue # <<>> /\ queue' = Tail(queue)
    BY <1>4 DEF TakeChunk, PipelineTypes
  <2>1. /\ Len(queue') = Len(queue) - 1 /\ Len(queue) \in Nat \ {0}
        /\ \A i \in 1 .. Len(queue) - 1 : queue'[i] = queue[i + 1]
        /\ Head(queue) = queue[1] /\ queue' \in Seq(Seqno \cup {Sentinel})
    BY <2>0, Taken
  <2>2. stopping' = stopping /\ (asr' = "off" => queue[1] = Sentinel)
    BY <1>4, <2>1 DEF TakeChunk
  <2>3. ASSUME NEW i \in 1 .. Len(queue'), queue'[i] = Sentinel
        PROVE  i = Len(queue') /\ stopping' \in {"drain", "close"}
    <3>1. i \in 1 .. Len(queue) - 1 /\ i + 1 \in 1 .. Len(queue) /\ queue[i + 1] = Sentinel
      BY <2>1, <2>3
    <3> QED
      BY <3>1, <2>1, <2>2
  <2>5. ASSUME asr' = "off"
        PROVE  queue' = <<>> /\ stopping' \in {"drain", "close"}
    <3>1. Len(queue) = 1 /\ stopping' \in {"drain", "close"}
      BY <2>1, <2>2, <2>5
    <3> QED
      BY <3>1, <2>1
  <2>4. proc \notin {"down", "starting"}
    BY <1>4 DEF TakeChunk
  <2> QED
    BY <1>4, <2>3, <2>4, <2>5 DEF TakeChunk, vars
<1>5. CASE Transcribe
  BY <1>5 DEF Transcribe, Outcome, vars
<1>6. CASE Report \/ ReportFails
  BY <1>6 DEF Report, ReportFails, Outcome, pipeline, PersistNew, MarkNonSpeech, EnterWindow,
        CallFails, NeverReported, CanCall
<1>7. CASE StoreWorks \/ Return \/ ReturnFailed
  BY <1>7 DEF StoreWorks, Return, ReturnFailed, pipeline, MarkSegmentReady, EnterWindow,
        PublishExpected, WindowCommit, WindowCommitFails, WindowDone, WindowFails, SessionInv
<1>8. CASE StopRequested \/ JoinCapture \/ JoinAsr
  BY <1>8 DEF StopRequested, JoinCapture, JoinAsr, vars
<1>9. CASE PutSentinel
  <2>1. CASE Len(queue) < MaxPending
    <3>1. /\ Len(queue') = Len(queue) + 1 /\ Len(queue) \in Nat
          /\ \A i \in 1 .. Len(queue) : queue'[i] = queue[i]
      BY <1>9, <2>1, Appended DEF PutSentinel, PipelineTypes
    <3>2. \A i \in 1 .. Len(queue') : queue'[i] = Sentinel => i = Len(queue')
      BY <1>9, <3>1 DEF PutSentinel
    <3>3. asr # "off" \/ proc \notin {"up", "closed"}
      BY <1>9 DEF PutSentinel
    <3>4. proc \notin {"down", "starting"}
      BY <1>9 DEF PutSentinel
    <3> QED
      BY <1>9, <3>2, <3>3, <3>4 DEF PutSentinel, vars
  <2>2. CASE ~(Len(queue) < MaxPending)
    BY <1>9, <2>2 DEF PutSentinel, vars
  <2> QED
    BY <2>1, <2>2
<1>10. CASE Close
  BY <1>10 DEF Close, pipeline, CloseSession, FlushRow, CloseCommit, CloseFails, SessionInv
<1>11. CASE Ends
  <2>1. Len(queue') = 0
    BY <1>11 DEF Ends
  <2> QED
    BY <1>11, <2>1 DEF Ends, ProcessEnds
<1>12. CASE Sweep \/ UNCHANGED workerVars
  BY <1>12 DEF Sweep, EnforceRetention, pipeline, workerVars, vars
<1> QED
  BY <1>1, <1>2, <1>3, <1>4, <1>5, <1>6, <1>7, <1>8, <1>9, <1>10, <1>11, <1>12
     DEF WorkerNext, CaptureThread, AsrThread, StopThread

(* Handling one chunk, or leaving all as they are, takes no other out of   *)
(* the pipeline.                                                           *)
LEMMA StillInPipeline ==
  ASSUME FlightInv, proc' = "up" => proc = "up", captured' = captured,
         handled \subseteq handled',
         \A n \in InFlight : InPipeline(n) => InPipeline(n)' \/ n \in handled'
  PROVE  proc' = "up" => \A n \in InFlight' : InPipeline(n)'
BY DEF FlightInv, InFlight

LEMMA FlightStep ==
  ASSUME TypeOK, SessionInv, PipelineTypes, StopInv, FlightInv, [WorkerNext]_workerVars
  PROVE  FlightInv'
<1> USE DEF FlightInv
<1>1. CASE Start
  <2>1. CASE RecoverCommit
    <3>1. captured' = 0 /\ handled' = {} /\ capture' = "run" /\ op' = "idle"
      BY <1>1, <2>1 DEF Start, StartProcess, RecoverRow, RecoverCommit, SessionInv, StopInv
    <3>2. InFlight' = {}
      BY <3>1 DEF InFlight, Seqno
    <3> QED
      BY <3>1, <3>2
  <2>2. CASE StartProcess \/ RecoverRow
    <3>1. proc' # "up" /\ op' = "recover" /\ UNCHANGED <<pipeline, captured, handled>>
      BY <1>1, <2>2 DEF Start, StartProcess, RecoverRow, RecoverCommit, SessionInv, env
    <3> QED
      BY <3>1 DEF pipeline
  <2> QED
    BY <1>1, <2>1, <2>2 DEF Start
<1>2. CASE Capture
  <2>0. captured \in Nat /\ captured' = captured + 1
    BY <1>2 DEF Capture, CutChunk, TypeOK
  <2>1. /\ proc = "up" /\ capture = "run" /\ capture' = "put"
        /\ UNCHANGED <<queue, asr, hand, handled, op>>
    BY <1>2 DEF Capture, CutChunk
  <2>2. handled \subseteq Seqno /\ \A n \in Seqno : n \in Nat
    BY DEF TypeOK, Seqno
  <2>3. ASSUME NEW n \in InFlight' PROVE InPipeline(n)'
    <3>1. CASE n \in InFlight
      BY <3>1, <2>1 DEF InPipeline
    <3>2. CASE n \notin InFlight
      BY <3>2, <2>3, <2>0, <2>1, <2>2 DEF InPipeline, InFlight, InPut
    <3> QED
      BY <3>1, <3>2
  <2>4. captured' # 0 /\ \A n \in handled' : n < captured'
    BY <2>0, <2>1, <2>2
  <2> QED
    BY <2>1, <2>3, <2>4
<1>3. CASE Enqueue
  <2>0. queue \in Seq(Seqno \cup {Sentinel}) /\ queue' = Append(queue, InPut)
    BY <1>3 DEF Enqueue, PipelineTypes
  <2>1. /\ Len(queue') = Len(queue) + 1 /\ Len(queue) \in Nat
        /\ \A i \in 1 .. Len(queue) : queue'[i] = queue[i]
        /\ queue'[Len(queue) + 1] = InPut
    BY <1>3, <2>0, InPutIsCut, Appended DEF Enqueue
  <2>2. capture' = "run" /\ UNCHANGED <<asr, hand, captured, handled, op, proc>>
    BY <1>3 DEF Enqueue, vars
  <2>3. ASSUME NEW n, InPipeline(n) PROVE InPipeline(n)'
    <3>1. CASE n = InPut
      <4>1. Len(queue) + 1 \in 1 .. Len(queue') /\ queue'[Len(queue) + 1] = n
        BY <2>1, <3>1
      <4> QED
        BY <4>1 DEF InPipeline
    <3>2. CASE \E i \in 1 .. Len(queue) : queue[i] = n
      <4>1. \E i \in 1 .. Len(queue') : queue'[i] = n
        BY <2>1, <3>2
      <4> QED
        BY <4>1 DEF InPipeline
    <3>3. CASE asr \in {"busy"} \cup Outcome /\ n = hand
      BY <2>2, <3>3 DEF InPipeline
    <3> QED
      BY <2>3, <3>1, <3>2, <3>3 DEF InPipeline
  <2> QED
    BY <2>2, <2>3, StillInPipeline
<1>4. CASE DropOnBackpressure
  <2>1. /\ capture' = "run" /\ UNCHANGED <<asr, hand, captured, op, proc, queue>>
        /\ InPut \in InFlight /\ handled' = handled \cup {InPut}
    BY <1>4 DEF DropOnBackpressure, Dropped, NeverReported
  <2>2. \A n \in handled' : n < captured'
    BY <2>1, InFlightIsCut
  <2>3. \A n \in InFlight : InPipeline(n) => InPipeline(n)' \/ n \in handled'
    BY <2>1 DEF InPipeline
  <2> QED
    BY <2>1, <2>2, <2>3, StillInPipeline
<1>5. CASE TakeChunk
  <2>0. queue \in Seq(Seqno \cup {Sentinel}) /\ queue # <<>> /\ queue' = Tail(queue)
    BY <1>5 DEF TakeChunk, PipelineTypes
  <2>1. /\ Len(queue') = Len(queue) - 1 /\ Len(queue) \in Nat \ {0}
        /\ \A i \in 1 .. Len(queue) - 1 : queue'[i] = queue[i + 1]
        /\ Head(queue) = queue[1]
    BY <2>0, Taken
  <2>2. /\ asr = "get" /\ UNCHANGED <<capture, captured, handled, op, proc>>
        /\ queue[1] # Sentinel => asr' = "busy" /\ hand' = queue[1]
    BY <1>5, <2>1 DEF TakeChunk, vars
  <2>3. ASSUME NEW n \in InFlight, InPipeline(n) PROVE InPipeline(n)'
    <3>1. CASE capture = "put" /\ n = InPut
      BY <2>2, <3>1 DEF InPipeline, InPut
    <3>2. CASE \E i \in 1 .. Len(queue) : queue[i] = n
      <4>1. PICK i \in 1 .. Len(queue) : queue[i] = n
        BY <3>2
      <4>2. CASE i = 1
        BY <4>1, <4>2, <2>2, InFlightIsCut, SentinelIsNoChunk DEF InPipeline
      <4>3. CASE i # 1
        <5>1. i - 1 \in 1 .. Len(queue') /\ queue'[i - 1] = n
          BY <4>1, <4>3, <2>1
        <5> QED
          BY <5>1 DEF InPipeline
      <4> QED
        BY <4>2, <4>3
    <3>3. asr \notin {"busy"} \cup Outcome
      BY <2>2 DEF Outcome
    <3> QED
      BY <2>3, <3>1, <3>2, <3>3 DEF InPipeline
  <2>4. op \notin {"staged", "window"}
    BY <2>2 DEF Outcome
  <2> QED
    BY <2>2, <2>3, <2>4, StillInPipeline
<1>6. CASE Transcribe
  <2>1. /\ asr = "busy" /\ asr' \in Outcome
        /\ UNCHANGED <<capture, queue, hand, captured, handled, op, proc>>
    BY <1>6 DEF Transcribe, vars
  <2>2. \A n \in InFlight : InPipeline(n) => InPipeline(n)'
    BY <2>1 DEF InPipeline, InPut
  <2> QED
    BY <2>1, <2>2, StillInPipeline
<1>7. CASE Report
  <2>1. /\ asr \in Outcome /\ UNCHANGED <<pipeline, captured, proc>>
        /\ hand \in InFlight /\ handled' = handled \cup {hand}
    BY <1>7 DEF Report, PersistNew, MarkNonSpeech, EnterWindow
  <2>2. \A n \in handled' : n < captured'
    BY <2>1, InFlightIsCut
  <2>3. \A n \in InFlight : InPipeline(n) => InPipeline(n)' \/ n \in handled'
    BY <2>1 DEF InPipeline, InPut, pipeline
  <2> QED
    BY <2>1, <2>2, <2>3, StillInPipeline DEF pipeline
<1>8. CASE ReportFails
  <2>1. /\ asr' = "get" /\ UNCHANGED <<capture, queue, hand, captured, op, proc>>
        /\ hand \in InFlight /\ handled' = handled \cup {hand} /\ op = "idle"
    BY <1>8 DEF ReportFails, CallFails, NeverReported, CanCall
  <2>2. \A n \in handled' : n < captured'
    BY <2>1, InFlightIsCut
  <2>3. \A n \in InFlight : InPipeline(n) => InPipeline(n)' \/ n \in handled'
    BY <2>1 DEF InPipeline, InPut
  <2> QED
    BY <2>1, <2>2, <2>3, StillInPipeline
<1>9. CASE StoreWorks
  <2>1. op \in {"staged", "window"} /\ UNCHANGED <<pipeline, captured, handled, proc>>
    BY <1>9 DEF StoreWorks, MarkSegmentReady, EnterWindow, PublishExpected, env
  <2>2. \A n \in InFlight : InPipeline(n) => InPipeline(n)'
    BY <2>1 DEF InPipeline, InPut, pipeline
  <2> QED
    BY <2>1, <2>2, StillInPipeline DEF pipeline
<1>10. CASE Return \/ ReturnFailed
  <2>1. /\ op = "window" /\ op' = "idle" /\ asr' = "get"
        /\ UNCHANGED <<capture, queue, hand, captured, handled, proc>>
    BY <1>10 DEF Return, ReturnFailed, WindowCommit, WindowCommitFails, WindowDone, WindowFails, env
  <2>2. \A n \in InFlight : InPipeline(n) => InPipeline(n)' \/ n \in handled'
    BY <2>1 DEF InPipeline, InPut
  <2> QED
    BY <2>1, <2>2, StillInPipeline
<1>11. CASE PutSentinel
  <2>1. /\ UNCHANGED <<capture, asr, hand, captured, handled, op, proc>>
        /\ queue' \in {queue, Append(queue, Sentinel)}
    BY <1>11 DEF PutSentinel, vars
  <2>2. /\ Len(queue') >= Len(queue) /\ Len(queue) \in Nat /\ Len(queue') \in Nat
        /\ \A i \in 1 .. Len(queue) : queue'[i] = queue[i]
    BY <2>1, Appended DEF PipelineTypes
  <2>3. \A i \in 1 .. Len(queue) : i \in 1 .. Len(queue')
    BY <2>2
  <2>4. \A n \in InFlight : InPipeline(n) => InPipeline(n)'
    BY <2>1, <2>2, <2>3 DEF InPipeline, InPut
  <2> QED
    BY <2>1, <2>4, StillInPipeline
<1>12. CASE CaptureExits \/ StopRequested \/ JoinCapture \/ JoinAsr
  <2>1. /\ capture = "put" <=> capture' = "put"
        /\ UNCHANGED <<queue, asr, hand, captured, handled, op, proc>>
    BY <1>12 DEF CaptureExits, StopRequested, JoinCapture, JoinAsr, vars
  <2>2. \A n \in InFlight : InPipeline(n) => InPipeline(n)'
    BY <2>1 DEF InPipeline, InPut
  <2> QED
    BY <2>1, <2>2, StillInPipeline
<1>13. CASE Close
  <2>1. /\ proc' = "up" => proc = "up"
        /\ op' \in {"flush", "idle"} /\ UNCHANGED <<pipeline, captured, handled>>
    BY <1>13 DEF Close, CloseSession, FlushRow, CloseCommit, CloseFails, SessionInv, env
  <2>2. \A n \in InFlight : InPipeline(n) => InPipeline(n)'
    BY <2>1 DEF InPipeline, InPut, pipeline
  <2> QED
    BY <2>1, <2>2, StillInPipeline DEF pipeline
<1>14. CASE Ends
  BY <1>14 DEF Ends, ProcessEnds
<1>15. CASE Sweep \/ UNCHANGED workerVars
  <2>1. UNCHANGED <<pipeline, captured, handled, op, proc>>
    BY <1>15 DEF Sweep, EnforceRetention, env, workerVars, vars
  <2>2. \A n \in InFlight : InPipeline(n) => InPipeline(n)'
    BY <2>1 DEF InPipeline, InPut, pipeline
  <2> QED
    BY <2>1, <2>2, StillInPipeline DEF pipeline
<1> QED
  BY <1>1, <1>2, <1>3, <1>4, <1>5, <1>6, <1>7, <1>8, <1>9, <1>10, <1>11, <1>12, <1>13, <1>14, <1>15
     DEF WorkerNext, CaptureThread, AsrThread, StopThread

LEMMA OwnIsInjective ==
  ASSUME NEW m, NEW n, Own(m) = Own(n)
  PROVE  m = n
BY DEF Own

(* A step that cuts nothing, starts nothing and adds no file keeps what is *)
(* known of the files if it reports only what has none.                    *)
LEMMA FilesKept ==
  ASSUME FileInv, UNCHANGED <<session, captured>>, wavs' \subseteq wavs,
         proc' = "up" => proc = "up", proc' = "starting" => proc = "starting",
         \A c \in rows' \ rows : c \notin wavs /\ \E n \in InFlight : c = Own(n),
         \A n \in handled' \ handled : Own(n) \notin wavs'
  PROVE  /\ \A c \in wavs' : c[1] <= session' /\ (proc' = "starting" => c[1] < session')
         /\ proc' = "up" => \A n \in Seqno : Own(n)' \in rows' => n < captured'
         /\ NoFileBehind'
<1>1. \A n : Own(n)' = Own(n)
  BY DEF Own
<1>2. \A c \in wavs' : c[1] <= session' /\ (proc' = "starting" => c[1] < session')
  BY DEF FileInv
<1>3. ASSUME proc' = "up", NEW n \in Seqno, Own(n)' \in rows' PROVE n < captured'
  <2>1. CASE Own(n) \in rows
    BY <1>3, <2>1 DEF FileInv
  <2>2. CASE Own(n) \notin rows
    <3>1. PICK m \in InFlight : Own(n) = Own(m)
      BY <1>1, <1>3, <2>2
    <3> QED
      BY <3>1, OwnIsInjective, InFlightIsCut
  <2> QED
    BY <2>1, <2>2
<1>4. rows' \cap wavs' = {}
  BY DEF FileInv, NoFileBehind
<1>5. ASSUME proc' = "up", NEW n \in Seqno, Own(n)' \in wavs' PROVE n \in InFlight'
  <2>1. n \in InFlight /\ n \notin handled' \ handled
    BY <1>1, <1>5 DEF FileInv, NoFileBehind
  <2> QED
    BY <2>1 DEF InFlight
<1> QED
  BY <1>2, <1>3, <1>4, <1>5 DEF NoFileBehind

LEMMA FileStep ==
  ASSUME TypeOK, SessionInv, PipelineTypes, StopInv, FlightInv, FileInv, [WorkerNext]_workerVars
  PROVE  FileInv'
<1>0. session \in Nat /\ captured \in Nat /\ \A n \in Seqno : n \in Nat
  BY DEF TypeOK, Seqno
<1>a. \A c \in wavs \cup rows : c[1] \in Nat
  BY DEF PipelineTypes, TypeOK, Chunk, Session
<1>1. CASE Start
  <2>1. /\ UNCHANGED <<wavs, hand, queue, rows>> /\ queue = <<>>
        /\ asr' \notin {"busy"} \cup Outcome
    BY <1>1 DEF Start, pipeline, StartProcess, RecoverRow, RecoverCommit, StopInv, SessionInv,
                PipelineTypes, Outcome
  <2>2. CASE StartProcess
    <3>1. session' = session + 1 /\ proc' = "starting"
      BY <2>2 DEF StartProcess
    <3>2. \A c \in wavs' : c[1] <= session' /\ (proc' = "starting" => c[1] < session')
      BY <1>0, <1>a, <2>1, <3>1 DEF FileInv
    <3> QED
      BY <2>1, <3>1, <3>2 DEF FileInv, NoFileBehind
  <2>3. CASE RecoverRow
    BY <2>1, <2>3 DEF RecoverRow, SessionInv, FileInv, NoFileBehind
  <2>4. CASE RecoverCommit
    <3>1. session' = session /\ proc = "starting" /\ proc' = "up"
      BY <2>4 DEF RecoverCommit, SessionInv
    <3>2. \A c \in wavs \cup rows : c[1] < session
      BY <3>1 DEF FileInv, SessionInv
    <3>3. \A n : Own(n)' \notin wavs' \cup rows'
      BY <1>0, <2>1, <3>1, <3>2 DEF Own
    <3>4. \A c \in wavs' : c[1] <= session'
      BY <2>1, <3>1 DEF FileInv
    <3> QED
      BY <2>1, <3>1, <3>3, <3>4 DEF FileInv, NoFileBehind
  <2> QED
    BY <1>1, <2>2, <2>3, <2>4 DEF Start
<1>2. CASE Capture
  <2>1. /\ proc = "up" /\ captured \in Seqno /\ captured' = captured + 1
        /\ wavs' = wavs \cup {Own(captured)}
        /\ UNCHANGED <<proc, session, rows, handled, queue, asr, hand>>
    BY <1>2, <1>0 DEF Capture, CutChunk, Seqno
  <2>2. captured \notin handled /\ Own(captured) \notin rows
    BY <1>0, <2>1 DEF FlightInv, FileInv
  <2>3. \A n : Own(n)' = Own(n)
    BY <2>1 DEF Own
  <2>4. \A c \in wavs' : c[1] <= session' /\ (proc' = "starting" => c[1] < session')
    BY <1>0, <2>1 DEF FileInv, Own
  <2>5. \A n \in Seqno : Own(n)' \in rows' => n < captured'
    BY <1>0, <2>1, <2>3 DEF FileInv
  <2>6. /\ asr' \in {"busy"} \cup Outcome => hand' < captured'
        /\ \A i \in 1 .. Len(queue') : queue'[i] \in Seqno => queue'[i] < captured'
    <3>1. \A n \in Seqno : n < captured => n < captured'
      BY <1>0, <2>1
    <3> QED
      BY <2>1, <3>1 DEF FileInv, PipelineTypes
  <2>7. asr' \in Outcome => Own(hand)' \notin wavs'
    BY <1>0, <2>1, <2>3, OwnIsInjective DEF FileInv, PipelineTypes
  <2>8. rows' \cap wavs' = {}
    BY <2>1, <2>2 DEF FileInv, NoFileBehind
  <2>9. ASSUME NEW n \in Seqno, Own(n)' \in wavs' PROVE n \in InFlight'
    BY <1>0, <2>1, <2>2, <2>3, <2>9, OwnIsInjective DEF FileInv, NoFileBehind, InFlight
  <2> QED
    BY <2>4, <2>5, <2>6, <2>7, <2>8, <2>9 DEF FileInv, NoFileBehind
<1>3. CASE Enqueue
  <2>0. queue \in Seq(Seqno \cup {Sentinel}) /\ queue' = Append(queue, InPut)
    BY <1>3 DEF Enqueue, PipelineTypes
  <2>1. /\ Len(queue') = Len(queue) + 1 /\ Len(queue) \in Nat
        /\ \A i \in 1 .. Len(queue) : queue'[i] = queue[i]
        /\ queue'[Len(queue) + 1] = InPut
    BY <1>3, <2>0, InPutIsCut, Appended DEF Enqueue
  <2>2. UNCHANGED <<vars, asr, hand, wavs>> /\ InPut < captured
    BY <1>3, InPutIsCut DEF Enqueue
  <2>3. \A i \in 1 .. Len(queue') : queue'[i] \in Seqno => queue'[i] < captured'
    BY <2>1, <2>2 DEF FileInv, vars
  <2>4. UNCHANGED <<session, captured, proc, rows, handled>>
    BY <2>2 DEF vars
  <2> QED
    BY <2>2, <2>3, <2>4, FilesKept DEF FileInv, Own
<1>4. CASE DropOnBackpressure
  <2>1. /\ UNCHANGED <<session, captured, proc, rows, queue, asr, hand>>
        /\ wavs' = wavs \ {Own(InPut)} /\ handled' = handled \cup {InPut}
    BY <1>4 DEF DropOnBackpressure, Dropped, NeverReported
  <2> QED
    BY <2>1, FilesKept DEF FileInv, Own
<1>5. CASE TakeChunk
  <2>0. queue \in Seq(Seqno \cup {Sentinel}) /\ queue # <<>> /\ queue' = Tail(queue)
    BY <1>5 DEF TakeChunk, PipelineTypes
  <2>1. /\ Len(queue') = Len(queue) - 1 /\ Len(queue) \in Nat \ {0}
        /\ \A i \in 1 .. Len(queue) - 1 : queue'[i] = queue[i + 1]
        /\ Head(queue) = queue[1] /\ queue[1] \in Seqno \cup {Sentinel}
    BY <2>0, Taken
  <2>2. /\ UNCHANGED <<session, captured, proc, rows, handled, wavs>> /\ asr' \notin Outcome
        /\ asr' = "busy" => hand' = queue[1] /\ queue[1] # Sentinel
    BY <1>5, <2>1 DEF TakeChunk, Outcome, vars
  <2>3. \A i \in 1 .. Len(queue') : queue'[i] \in Seqno => queue'[i] < captured'
    <3>1. ASSUME NEW i \in 1 .. Len(queue'), queue'[i] \in Seqno PROVE queue'[i] < captured'
      <4>1. i + 1 \in 1 .. Len(queue) /\ queue'[i] = queue[i + 1]
        BY <2>1
      <4> QED
        BY <2>2, <3>1, <4>1 DEF FileInv
    <3> QED
      BY <3>1
  <2>4. asr' = "busy" => hand' < captured'
    <3>1. 1 \in 1 .. Len(queue)
      BY <2>1
    <3> QED
      BY <2>1, <2>2, <3>1 DEF FileInv
  <2> QED
    BY <2>2, <2>3, <2>4, FilesKept DEF FileInv
<1>6. CASE Transcribe
  <2>1. /\ UNCHANGED <<session, captured, proc, rows, handled, queue, hand>>
        /\ asr = "busy" /\ asr' \in Outcome /\ wavs' = wavs \ {Own(hand)}
    BY <1>6 DEF Transcribe, vars
  <2> QED
    BY <2>1, FilesKept DEF FileInv, Own
<1>7. CASE Report
  <2>1. /\ UNCHANGED <<session, captured, proc, queue, asr, hand, wavs>> /\ asr \in Outcome
        /\ hand \in InFlight /\ handled' = handled \cup {hand}
        /\ rows' \subseteq rows \cup {Own(hand)}
    BY <1>7 DEF Report, PersistNew, MarkNonSpeech, EnterWindow, pipeline
  <2>2. Own(hand) \notin wavs
    BY <2>1 DEF FileInv
  <2> QED
    BY <2>1, <2>2, FilesKept DEF FileInv, Own
<1>8. CASE ReportFails
  <2>1. /\ UNCHANGED <<session, captured, proc, rows, queue, hand, wavs>>
        /\ asr \in Outcome /\ asr' = "get" /\ handled' = handled \cup {hand}
    BY <1>8 DEF ReportFails, CallFails, NeverReported
  <2>2. Own(hand) \notin wavs
    BY <2>1 DEF FileInv
  <2>3. asr' \notin {"busy"} \cup Outcome
    BY <2>1 DEF Outcome
  <2> QED
    BY <2>1, <2>2, <2>3, FilesKept DEF FileInv
<1>9. CASE StoreWorks \/ Return \/ ReturnFailed
  <2>1. /\ UNCHANGED <<session, captured, proc, rows, handled, queue, hand, wavs>>
        /\ asr' \in {asr, "get"}
    BY <1>9 DEF StoreWorks, MarkSegmentReady, EnterWindow, PublishExpected, Return, ReturnFailed,
                WindowCommit, WindowCommitFails, WindowDone, WindowFails, env, pipeline
  <2>2. "get" \notin {"busy"} \cup Outcome
    BY DEF Outcome
  <2> QED
    BY <2>1, <2>2, FilesKept DEF FileInv, Own
<1>10. CASE PutSentinel
  <2>1. /\ UNCHANGED <<session, captured, proc, rows, handled, asr, hand, wavs>>
        /\ queue' \in {queue, Append(queue, Sentinel)}
    BY <1>10 DEF PutSentinel, vars
  <2>2. \A i \in 1 .. Len(queue') :
          queue'[i] = Sentinel \/ (i \in 1 .. Len(queue) /\ queue'[i] = queue[i])
    BY <2>1, Appended DEF PipelineTypes
  <2>3. \A i \in 1 .. Len(queue') : queue'[i] \in Seqno => queue'[i] < captured'
    BY <2>1, <2>2, SentinelIsNoChunk DEF FileInv
  <2> QED
    BY <2>1, <2>3, FilesKept DEF FileInv, Own
<1>11. CASE CaptureExits \/ StopRequested \/ JoinCapture \/ JoinAsr \/ Close
  <2>1. /\ UNCHANGED <<session, captured, rows, handled, queue, asr, hand, wavs>>
        /\ proc' \in {proc, "closed"}
    BY <1>11 DEF CaptureExits, StopRequested, JoinCapture, JoinAsr, Close, CloseSession, FlushRow,
                 CloseCommit, CloseFails, pipeline, env, vars
  <2> QED
    BY <2>1, FilesKept DEF FileInv, Own
<1>12. CASE Ends
  <2>1. /\ UNCHANGED <<session, rows, wavs>> /\ proc' = "down" /\ Len(queue') = 0
        /\ asr' \notin {"busy"} \cup Outcome
    BY <1>12 DEF Ends, ProcessEnds, Outcome
  <2> QED
    BY <2>1 DEF FileInv, NoFileBehind
<1>13. CASE Sweep \/ UNCHANGED workerVars
  <2>1. /\ UNCHANGED <<session, captured, proc, handled, pipeline>> /\ rows' \subseteq rows
    BY <1>13 DEF Sweep, EnforceRetention, env, workerVars, vars
  <2> QED
    BY <2>1, FilesKept DEF FileInv, Own, pipeline
<1> QED
  BY <1>1, <1>2, <1>3, <1>4, <1>5, <1>6, <1>7, <1>8, <1>9, <1>10, <1>11, <1>12, <1>13
     DEF WorkerNext, CaptureThread, AsrThread, StopThread

LEMMA FifoStep ==
  ASSUME TypeOK, SessionInv, PipelineTypes, StopInv, FlightInv, FileInv, FifoInv,
         [WorkerNext]_workerVars
  PROVE  FifoInv'
<1>1. CASE Start
  <2>1. Len(queue) = 0 /\ ~Working
    BY <1>1 DEF Start, StartProcess, RecoverRow, RecoverCommit, SessionInv, StopInv,
                Working, Outcome
  <2>2. queue' = queue /\ ~Working' /\ capture' # "put"
    BY <1>1, <2>1 DEF Start, pipeline, StartProcess, RecoverRow, RecoverCommit, SessionInv,
                      StopInv, Working, Outcome
  <2> QED
    BY <2>1, <2>2 DEF FifoInv
<1>2. CASE Capture
  <2>1. /\ capture = "run" /\ InPut' = captured /\ UNCHANGED <<queue, asr, hand>>
        /\ captured \in Seqno
    BY <1>2 DEF Capture, CutChunk, InPut, TypeOK, Seqno
  <2>2. \A i \in 1 .. Len(queue) : queue[i] \in Seqno
    <3>1. \A i \in 1 .. Len(queue) : queue[i] \in Seqno \cup {Sentinel}
      BY DEF PipelineTypes
    <3> QED
      BY <2>1, <3>1 DEF StopInv
  <2> QED
    BY <2>1, <2>2 DEF FifoInv, FileInv, Working
<1>3. CASE Enqueue
  <2>0. queue \in Seq(Seqno \cup {Sentinel}) /\ queue' = Append(queue, InPut)
    BY <1>3 DEF Enqueue, PipelineTypes
  <2>1. /\ Len(queue') = Len(queue) + 1 /\ Len(queue) \in Nat
        /\ \A i \in 1 .. Len(queue) : queue'[i] = queue[i]
        /\ queue'[Len(queue) + 1] = InPut
    BY <1>3, <2>0, InPutIsCut, Appended DEF Enqueue
  <2>2. capture = "put" /\ capture' = "run" /\ UNCHANGED <<asr, hand>>
    BY <1>3 DEF Enqueue
  <2>3. \A i \in 1 .. Len(queue') : i \in 1 .. Len(queue) \/ i = Len(queue) + 1
    BY <2>1
  <2>4. ASSUME NEW i \in 1 .. Len(queue'), NEW j \in 1 .. Len(queue'), i < j
        PROVE  queue'[i] < queue'[j]
    <3>1. i \in 1 .. Len(queue)
      BY <2>1, <2>4
    <3> QED
      BY <2>1, <2>2, <2>3, <2>4, <3>1 DEF FifoInv
  <2>5. Working' => \A i \in 1 .. Len(queue') : hand' < queue'[i]
    BY <2>1, <2>2, <2>3 DEF FifoInv, Working
  <2> QED
    BY <2>2, <2>4, <2>5 DEF FifoInv
<1>4. CASE TakeChunk
  <2>0. queue \in Seq(Seqno \cup {Sentinel}) /\ queue # <<>> /\ queue' = Tail(queue)
    BY <1>4 DEF TakeChunk, PipelineTypes
  <2>1. /\ Len(queue') = Len(queue) - 1 /\ Len(queue) \in Nat \ {0}
        /\ \A i \in 1 .. Len(queue) - 1 : queue'[i] = queue[i + 1]
        /\ Head(queue) = queue[1]
    BY <2>0, Taken
  <2>2. /\ UNCHANGED <<capture, captured>>
        /\ Working' => hand' = queue[1]
    BY <1>4, <2>1 DEF TakeChunk, Working, Outcome, vars
  <2>3. /\ \A i \in 1 .. Len(queue') : i + 1 \in 1 .. Len(queue) /\ queue'[i] = queue[i + 1]
        /\ 1 \in 1 .. Len(queue)
        /\ \A i \in 1 .. Len(queue') : 1 < i + 1
        /\ \A i, j \in 1 .. Len(queue') : i < j => i + 1 < j + 1
    BY <2>1
  <2>4. \A i, j \in 1 .. Len(queue') : i < j => queue'[i] < queue'[j]
    BY <2>3 DEF FifoInv
  <2>5. Working' => \A i \in 1 .. Len(queue') : hand' < queue'[i]
    BY <2>2, <2>3 DEF FifoInv
  <2>6. capture' = "put" => /\ \A i \in 1 .. Len(queue') : queue'[i] < InPut'
                            /\ Working' => hand' < InPut'
    BY <2>2, <2>3 DEF FifoInv, InPut
  <2> QED
    BY <2>4, <2>5, <2>6 DEF FifoInv
<1>5. CASE PutSentinel
  <2>1. /\ UNCHANGED <<capture, asr, hand>> /\ stopping = "sentinel"
        /\ queue' \in {queue, Append(queue, Sentinel)} /\ capture # "put"
    BY <1>5 DEF PutSentinel, StopInv
  <2>2. CASE queue' = queue
    BY <2>1, <2>2 DEF FifoInv, Working
  <2>3. CASE queue' = Append(queue, Sentinel)
    <3>1. /\ Len(queue') = Len(queue) + 1 /\ Len(queue) \in Nat
          /\ \A i \in 1 .. Len(queue) : queue'[i] = queue[i]
          /\ queue'[Len(queue) + 1] = Sentinel
      BY <2>3, Appended DEF PipelineTypes
    <3>2. \A n \in Seqno : n < Sentinel
      BY StoreConstants DEF StoreConstants, Seqno, Sentinel
    <3>3. \A i \in 1 .. Len(queue) : queue[i] < Sentinel
      <4>1. \A i \in 1 .. Len(queue) : queue[i] \in Seqno \cup {Sentinel}
        BY DEF PipelineTypes
      <4> QED
        BY <2>1, <3>2, <4>1 DEF StopInv
    <3>4. \A i \in 1 .. Len(queue') : i \in 1 .. Len(queue) \/ i = Len(queue) + 1
      BY <3>1
    <3>5. ASSUME NEW i \in 1 .. Len(queue'), NEW j \in 1 .. Len(queue'), i < j
          PROVE  queue'[i] < queue'[j]
      <4>1. i \in 1 .. Len(queue)
        BY <3>1, <3>5
      <4> QED
        BY <3>1, <3>3, <3>4, <3>5, <4>1 DEF FifoInv
    <3>6. Working' => \A i \in 1 .. Len(queue') : hand' < queue'[i]
      BY <2>1, <3>1, <3>2, <3>4 DEF FifoInv, Working, PipelineTypes
    <3> QED
      BY <2>1, <3>5, <3>6 DEF FifoInv
  <2> QED
    BY <2>1, <2>2, <2>3
<1>6. CASE Ends
  <2>1. Len(queue') = 0 /\ capture' # "put"
    BY <1>6 DEF Ends
  <2> QED
    BY <2>1 DEF FifoInv
<1>7. CASE \/ DropOnBackpressure \/ CaptureExits \/ Transcribe \/ Report \/ ReportFails
           \/ StoreWorks \/ Return \/ ReturnFailed \/ StopRequested \/ JoinCapture \/ JoinAsr
           \/ Close \/ Sweep \/ UNCHANGED workerVars
  <2>1. UNCHANGED <<queue, hand>> /\ (capture' = "put" => capture = "put")
    BY <1>7 DEF DropOnBackpressure, CaptureExits, Transcribe, Report, ReportFails, StoreWorks, Return,
                ReturnFailed, StopRequested, JoinCapture, JoinAsr, Close, Sweep, workerVars, pipeline
  <2>2. asr' \in {asr, "get"} \/ asr = "busy"
    BY <1>7 DEF DropOnBackpressure, CaptureExits, Transcribe, Report, ReportFails, StoreWorks, Return,
                ReturnFailed, StopRequested, JoinCapture, JoinAsr, Close, Sweep, workerVars, pipeline
  <2>3. Working' => Working
    BY <2>2 DEF Working, Outcome
  <2>4. captured' = captured
    BY <1>7
    DEF DropOnBackpressure, Dropped, CaptureExits, Transcribe, Report, PersistNew, MarkNonSpeech,
        EnterWindow, ReportFails, CallFails, NeverReported, StoreWorks, MarkSegmentReady,
        PublishExpected, Return, ReturnFailed, WindowCommit, WindowCommitFails, WindowDone,
        WindowFails, StopRequested, JoinCapture, JoinAsr, Close, CloseSession, FlushRow,
        CloseCommit, CloseFails, Sweep, EnforceRetention, workerVars, vars, env
  <2> QED
    BY <2>1, <2>3, <2>4 DEF FifoInv, InPut
<1> QED
  BY <1>1, <1>2, <1>3, <1>4, <1>5, <1>6, <1>7
     DEF WorkerNext, CaptureThread, AsrThread, StopThread

(* What the ASR thread reports is the oldest chunk in flight.              *)
LEMMA HandIsOldest ==
  ASSUME FlightInv, FifoInv, asr \in Outcome, hand \in InFlight, proc = "up",
         NEW k \in InFlight, k # hand
  PROVE  hand < k
<1>1. InPipeline(k) /\ Working
  BY DEF FlightInv, Working
<1> QED
  BY <1>1 DEF InPipeline, FifoInv

LEMMA ReportStep ==
  ASSUME TypeOK, TypeOK', SessionInv, StopInv, FlightInv, FifoInv, ReportInv,
         [WorkerNext]_workerVars
  PROVE  ReportInv'
<1>0. faults \subseteq faults'
  BY StoreStep, FaultsNeverForgotten
<1>1. CASE Start
  <2>1. proc' = "up" => handled' = {}
    BY <1>1 DEF Start, StartProcess, RecoverRow, RecoverCommit, SessionInv
  <2> QED
    BY <2>1 DEF ReportInv
<1>2. CASE Capture
  <2>1. /\ proc = "up" /\ captured' = captured + 1 /\ UNCHANGED <<handled, faults>>
        /\ captured \in Nat /\ handled \subseteq Nat /\ Seqno \subseteq Nat
    BY <1>2 DEF Capture, CutChunk, TypeOK, Seqno
  <2>2. \A k \in InFlight' : k \in InFlight \/ k = captured
    BY <2>1 DEF InFlight
  <2> QED
    BY <2>1, <2>2 DEF ReportInv, FlightInv
<1>3. CASE DropOnBackpressure
  <2>1. "drop" \in faults'
    BY <1>3 DEF DropOnBackpressure, Dropped, Fault
  <2> QED
    BY <2>1 DEF ReportInv
<1>4. CASE Report \/ ReportFails
  <2>1. /\ asr \in Outcome /\ hand \in InFlight /\ handled' = handled \cup {hand}
        /\ UNCHANGED <<proc, captured>>
    BY <1>4 DEF Report, PersistNew, MarkNonSpeech, EnterWindow, ReportFails, CallFails, NeverReported
  <2>2. \A k \in InFlight' : k \in InFlight /\ k # hand
    BY <2>1 DEF InFlight
  <2> QED
    BY <1>0, <2>1, <2>2, HandIsOldest DEF ReportInv
<1>5. CASE \/ Enqueue \/ CaptureExits \/ TakeChunk \/ Transcribe \/ StoreWorks \/ Return
           \/ ReturnFailed \/ StopRequested \/ JoinCapture \/ PutSentinel \/ JoinAsr \/ Close
           \/ Sweep \/ UNCHANGED workerVars
  <2>1. UNCHANGED <<captured, handled>> /\ (proc' = "up" => proc = "up")
    BY <1>5
    DEF Enqueue, CaptureExits, TakeChunk, Transcribe, StoreWorks, MarkSegmentReady, EnterWindow,
        PublishExpected, Return, ReturnFailed, WindowCommit, WindowCommitFails, WindowDone,
        WindowFails, StopRequested, JoinCapture, PutSentinel, JoinAsr, Close, CloseSession,
        FlushRow, CloseCommit, CloseFails, Sweep, EnforceRetention, workerVars, vars, env
  <2> QED
    BY <1>0, <2>1 DEF ReportInv, InFlight
<1>6. CASE Ends
  BY <1>6 DEF Ends, ProcessEnds, ReportInv
<1> QED
  BY <1>1, <1>2, <1>3, <1>4, <1>5, <1>6 DEF WorkerNext, CaptureThread, AsrThread, StopThread

(* What never looks younger stays older than what is still on its way.     *)
LEMMA StillOldest ==
  ASSUME OldestInv, proc' = "up" => proc = "up", captured' = captured, session' = session,
         handled \subseteq handled', completed' \subseteq completed, rows' \subseteq rows,
         Calling' => Calling /\ hand' = hand
  PROVE  OldestInv'
<1>1. InFlight' \subseteq InFlight
  BY DEF InFlight
<1>2. \A n : Own(n)' = Own(n)
  BY DEF Own
<1> QED
  BY <1>1, <1>2 DEF OldestInv

LEMMA OldestStep ==
  ASSUME TypeOK, SessionInv, StopInv, FlightInv, FifoInv, OldestInv, AnnounceInv,
         [WorkerNext]_workerVars
  PROVE  OldestInv'
<1>1. CASE Start
  <2>1. CASE RecoverCommit
    <3>1. /\ completed' = {} /\ ~Calling'
          /\ \A c \in rows' : c[1] < session'
      BY <2>1 DEF RecoverCommit, ResetWindow, SessionInv, Calling
    <3>2. session \in Nat /\ session' = session
      BY <2>1 DEF RecoverCommit, TypeOK
    <3>3. ASSUME NEW n \in Seqno PROVE Own(n)' \notin rows'
      BY <3>1, <3>2 DEF Own
    <3> QED
      BY <3>1, <3>3 DEF OldestInv, Own
  <2>2. CASE StartProcess \/ RecoverRow
    BY <2>2 DEF StartProcess, RecoverRow, SessionInv, OldestInv
  <2> QED
    BY <1>1, <2>1, <2>2 DEF Start
<1>2. CASE Capture
  <2>1. /\ proc = "up" /\ captured' = captured + 1 /\ captured \in Nat /\ Seqno \subseteq Nat
        /\ UNCHANGED <<handled, session, rows, completed, op, hand>>
    BY <1>2 DEF Capture, CutChunk, TypeOK, Seqno, mem
  <2>2. \A k \in InFlight' : k \in InFlight \/ k = captured
    BY <2>1 DEF InFlight
  <2>3. ASSUME NEW n \in Seqno, n \in completed \/ Own(n) \in rows \/ (Calling /\ n = hand)
        PROVE  n < captured' /\ \A k \in InFlight' : n < k
    <3>1. n < captured /\ \A k \in InFlight : n < k
      BY <2>1, <2>3 DEF OldestInv
    <3> QED
      BY <2>1, <2>2, <3>1
  <2> QED
    BY <2>1, <2>3 DEF OldestInv, Own, Calling
<1>3. CASE Report
  <2>1. /\ asr \in Outcome /\ hand \in InFlight /\ handled' = handled \cup {hand}
        /\ UNCHANGED <<proc, captured, session, hand>>
        /\ rows' \subseteq rows \cup {Own(hand)} /\ completed' \subseteq completed \cup {hand}
    BY <1>3 DEF Report, PersistNew, MarkNonSpeech, EnterWindow, mem, pipeline
  <2>2. \A k \in InFlight' : k \in InFlight /\ k # hand
    BY <2>1 DEF InFlight
  <2>3. ASSUME NEW n \in Seqno, proc = "up",
               n \in completed' \/ Own(n) \in rows' \/ (Calling' /\ n = hand)
        PROVE  n < captured /\ \A k \in InFlight' : n < k
    <3>1. CASE n = hand
      BY <2>1, <2>2, <2>3, <3>1, HandIsOldest, InFlightIsCut
    <3>2. CASE n # hand
      <4>1. n \in completed \/ Own(n) \in rows
        BY <2>1, <2>3, <3>2 DEF Own
      <4> QED
        BY <2>2, <2>3, <4>1 DEF OldestInv
    <3> QED
      BY <3>1, <3>2
  <2> QED
    BY <2>1, <2>3 DEF OldestInv, Own
<1>4. CASE MarkSegmentReady /\ UNCHANGED pipeline
  <2>1. /\ Calling /\ cur = hand /\ completed' = completed \cup {hand}
        /\ UNCHANGED <<proc, session, rows, captured, handled, hand>>
    BY <1>4 DEF MarkSegmentReady, EnterWindow, pipeline, Calling, AnnounceInv
  <2>2. InFlight' = InFlight
    BY <2>1 DEF InFlight
  <2> QED
    BY <2>1, <2>2 DEF OldestInv, Own
<1>5. CASE \/ Enqueue \/ DropOnBackpressure \/ CaptureExits \/ TakeChunk \/ Transcribe
           \/ ReportFails \/ (PublishExpected /\ UNCHANGED pipeline) \/ Return \/ ReturnFailed
           \/ StopRequested \/ JoinCapture \/ PutSentinel \/ JoinAsr \/ Close \/ Sweep
           \/ UNCHANGED workerVars
  <2>1. /\ proc' = "up" => proc = "up"
        /\ UNCHANGED <<captured, session>> /\ handled \subseteq handled'
        /\ completed' \subseteq completed \/ completed' = {}
        /\ rows' \subseteq rows
    BY <1>5
    DEF Enqueue, DropOnBackpressure, Dropped, CaptureExits, TakeChunk, Transcribe, ReportFails,
        CallFails, NeverReported, PublishExpected, Return, ReturnFailed, WindowCommit,
        WindowCommitFails, WindowDone, WindowFails, StopRequested, JoinCapture, PutSentinel,
        JoinAsr, Close, CloseSession, FlushRow, CloseCommit, CloseFails, ResetWindow, Sweep,
        EnforceRetention, workerVars, vars, env, mem
  <2>2. Calling' => Calling /\ hand' = hand
    BY <1>5
    DEF Enqueue, DropOnBackpressure, Dropped, CaptureExits, TakeChunk, Transcribe, ReportFails,
        CallFails, NeverReported, PublishExpected, Return, ReturnFailed, WindowCommit,
        WindowCommitFails, WindowDone, WindowFails, StopRequested, JoinCapture, PutSentinel,
        JoinAsr, Close, CloseSession, FlushRow, CloseCommit, CloseFails, Sweep,
        EnforceRetention, workerVars, vars, pipeline, Calling, FlightInv, Outcome
  <2> QED
    BY <2>1, <2>2, StillOldest
<1>6. CASE Ends
  BY <1>6 DEF Ends, ProcessEnds, OldestInv
<1> QED
  BY <1>1, <1>2, <1>3, <1>4, <1>5, <1>6
     DEF WorkerNext, CaptureThread, AsrThread, StopThread, StoreWorks

(* Announcing adds to what was announced.                                  *)
LEMMA AnnounceAdds ==
  ASSUME asr \in Outcome
  PROVE  announced \subseteq Announce
BY DEF Announce, Outcome

LEMMA AnnounceStep ==
  ASSUME TypeOK, TransactionInv, SessionInv, FlightInv, OldestInv, AnnounceInv,
         [WorkerNext]_workerVars
  PROVE  AnnounceInv'
<1> USE DEF Calling
<1>0. faults \subseteq faults' /\ Seqno \subseteq Nat /\ completed \subseteq Seqno
  BY StoreStep, FaultsNeverForgotten DEF Seqno, TypeOK
<1>1. CASE Start
  <2>1. CASE RecoverCommit
    <3>1. /\ completed' = {} /\ op' = "idle"
          /\ \A c \in rows' : c[1] < session'
      BY <2>1 DEF RecoverCommit, ResetWindow, SessionInv
    <3>2. session \in Nat /\ session' = session
      BY <2>1 DEF RecoverCommit, TypeOK
    <3>3. ASSUME NEW n \in Seqno PROVE Own(n)' \notin rows'
      BY <3>1, <3>2 DEF Own
    <3> QED
      BY <3>1, <3>3 DEF AnnounceInv, Own
  <2>2. CASE StartProcess \/ RecoverRow
    BY <2>2 DEF StartProcess, RecoverRow, SessionInv, AnnounceInv
  <2> QED
    BY <1>1, <2>1, <2>2 DEF Start
<1>2. CASE \/ Capture \/ Enqueue \/ DropOnBackpressure \/ CaptureExits \/ TakeChunk
           \/ Transcribe \/ ReportFails \/ StopRequested \/ JoinCapture \/ PutSentinel
           \/ JoinAsr \/ UNCHANGED workerVars
  <2>1. UNCHANGED <<proc, session, rows, cursor, txCursor, expected, completed, op, cur, at,
                    announced>>
    BY <1>2
    DEF Capture, CutChunk, Enqueue, DropOnBackpressure, Dropped, CaptureExits, TakeChunk,
        Transcribe, ReportFails, CallFails, NeverReported, StopRequested, JoinCapture,
        PutSentinel, JoinAsr, workerVars, vars, pipeline, mem
  <2>2. Calling => UNCHANGED <<hand, asr>>
    BY <1>2
    DEF Capture, Enqueue, DropOnBackpressure, CaptureExits, TakeChunk, Transcribe,
        ReportFails, CallFails, NeverReported, CanCall, StopRequested, JoinCapture, PutSentinel,
        JoinAsr, workerVars, pipeline, FlightInv, Outcome
  <2> QED
    BY <1>0, <2>1, <2>2 DEF AnnounceInv, Own
<1>3. CASE Report
  <2>1. /\ op = "idle" /\ hand \in InFlight /\ cur' = hand /\ hand \in Seqno
        /\ UNCHANGED <<proc, session, cursor, txCursor, expected, faults, hand, asr, announced>>
    BY <1>3 DEF Report, PersistNew, MarkNonSpeech, EnterWindow, CanCall, mem, pipeline, InFlight
  <2>2. proc = "up" => Own(hand) \notin rows /\ \A n \in completed : n < hand
    BY <1>0, <2>1 DEF OldestInv
  <2>3. CASE asr = "speech"
    <3>1. /\ op' = "staged" /\ completed' = completed /\ rows' = rows \cup {Own(hand)}
      BY <1>3, <2>3 DEF Report, PersistNew, mem
    <3>2. proc = "up" => Own(hand) \in Chunk
      BY <2>1 DEF SessionInv, Own, Chunk
    <3>3. proc = "up" => txCursor[Own(hand)] = 0
      BY <2>2, <3>2 DEF TransactionInv
    <3>4. ASSUME "window" \notin faults, proc = "up", NEW n \in Seqno,
                 Own(n) \in rows', txCursor[Own(n)] # 0
          PROVE  Own(n) \in announced
      BY <2>1, <3>1, <3>3, <3>4 DEF AnnounceInv
    <3>5. \A n \in completed : n \in Nat /\ hand \in Nat
      BY <1>0, <2>1
    <3> QED
      BY <2>1, <2>2, <2>3, <3>1, <3>4, <3>5 DEF AnnounceInv, Own
  <2>4. CASE asr # "speech"
    <3>1. /\ op' = "window" /\ completed' = completed \cup {hand} /\ at' = expected /\ rows' = rows
      BY <1>3, <2>4 DEF Report, MarkNonSpeech, EnterWindow
    <3>2. \A n \in completed : n \in Nat /\ hand \in Nat
      BY <1>0, <2>1
    <3>3. proc = "up" => \A n \in completed' : n <= hand
      BY <1>0, <2>1, <2>2, <3>1, <3>2
    <3>4. "window" \notin faults /\ proc = "up" /\ at' \in completed' => at' = hand
      BY <2>1, <3>1 DEF AnnounceInv
    <3> QED
      BY <2>1, <2>2, <3>1, <3>3, <3>4 DEF AnnounceInv, Own
  <2> QED
    BY <2>3, <2>4
<1>4. CASE StoreWorks
  <2>1. CASE MarkSegmentReady
    <3>1. /\ op = "staged" /\ op' = "window" /\ completed' = completed \cup {cur} /\ cur = hand
          /\ at' = expected
          /\ UNCHANGED <<proc, session, rows, cursor, txCursor, faults, hand, asr, cur, announced>>
      BY <1>4, <2>1 DEF StoreWorks, MarkSegmentReady, EnterWindow, pipeline, AnnounceInv
    <3>2. cur \in Nat
      BY <1>0 DEF TypeOK
    <3>3. proc = "up" => \A n \in completed' : n <= hand
      <4>1. proc = "up" => \A n \in completed : n <= hand
        BY <3>1 DEF AnnounceInv
      <4>2. hand <= hand
        BY <3>1, <3>2
      <4> QED
        BY <3>1, <4>1, <4>2
    <3>4. "window" \notin faults /\ proc = "up" /\ at' \in completed' => at' = hand
      BY <3>1 DEF AnnounceInv
    <3> QED
      BY <3>1, <3>3, <3>4 DEF AnnounceInv, Own
  <2>2. CASE PublishExpected
    <3>1. /\ op = "window" /\ at \in completed /\ completed' = completed \ {at} /\ at' = at + 1
          /\ UNCHANGED <<proc, session, rows, cursor, expected, op, cur, faults, hand, asr,
                        announced>>
      BY <1>4, <2>2 DEF StoreWorks, PublishExpected, pipeline
    <3>0. \A n \in completed : n \in Nat
      BY <1>0
    <3>2. proc = "up" => \A n \in completed : n <= hand
      BY <3>1 DEF AnnounceInv
    <3>3. ASSUME "window" \notin faults, proc = "up"
          PROVE  /\ at' \notin completed'
                 /\ \A n \in Seqno : Own(n) \in rows /\ txCursor'[Own(n)] # 0 =>
                      Own(n) \in announced \/ (n = hand /\ cursor[Own(n)] = 0)
      <4>1. at = hand /\ at \in Nat /\ Own(at) \in Chunk
        BY <1>0, <3>1, <3>3 DEF AnnounceInv, Own, Chunk, SessionInv
      <4>2. at' \notin completed'
        BY <3>0, <3>1, <3>2, <3>3, <4>1
      <4>3. CASE Staged(Own(at))
        <5>1. PICK v \in Nat : txCursor' = [txCursor EXCEPT ![Own(at)] = v]
          BY <2>2, <4>1, <4>3, AssignAbove DEF PublishExpected
        <5>2. cursor[Own(at)] = 0
          BY <4>1, <4>3 DEF TransactionInv, Staged
        <5>3. ASSUME NEW n \in Seqno, Own(n) \in rows, txCursor'[Own(n)] # 0, n # hand
              PROVE  Own(n) \in announced
          <6>1. Own(n) # Own(at) /\ Own(n) \in Chunk
            BY <4>1, <5>3 DEF Own, TypeOK
          <6>2. txCursor[Own(n)] # 0
            BY <5>1, <5>3, <6>1 DEF TypeOK
          <6> QED
            BY <3>1, <3>3, <5>3, <6>2 DEF AnnounceInv
        <5> QED
          BY <4>1, <4>2, <5>2, <5>3
      <4>4. CASE ~Staged(Own(at))
        <5>1. txCursor' = txCursor
          BY <2>2, <4>4 DEF PublishExpected
        <5> QED
          BY <3>1, <3>3, <4>2, <5>1 DEF AnnounceInv
      <4> QED
        BY <4>3, <4>4
    <3> QED
      BY <3>1, <3>2, <3>3 DEF AnnounceInv, Own
  <2> QED
    BY <1>4, <2>1, <2>2 DEF StoreWorks
<1>5. CASE Return
  <2>1. /\ op = "window" /\ op' = "idle" /\ at \notin completed /\ expected' = at
        /\ cursor' = txCursor /\ announced' = Announce
        /\ UNCHANGED <<proc, session, rows, txCursor, completed, faults, hand>>
    BY <1>5 DEF Return, WindowCommit, WindowDone, Commit
  <2>2. asr \in Outcome /\ announced \subseteq announced'
    BY <2>1, AnnounceAdds DEF FlightInv
  <2>3. ASSUME "window" \notin faults, proc = "up",
               NEW n \in Seqno, Own(n) \in rows, txCursor[Own(n)] # 0
        PROVE  Own(n) \in announced'
    <3>1. CASE Own(n) \in announced
      BY <2>2, <3>1
    <3>2. CASE n = hand /\ cursor[Own(n)] = 0
      <4>1. asr = "speech"
        BY <2>1, <2>3, <3>2 DEF AnnounceInv
      <4>2. Own(n) \in NewlyPublished
        BY <2>3, <3>2 DEF NewlyPublished
      <4> QED
        BY <2>1, <3>2, <4>1, <4>2 DEF Announce
    <3> QED
      BY <2>1, <2>3, <3>1, <3>2 DEF AnnounceInv
  <2> QED
    BY <2>1, <2>3 DEF AnnounceInv, Own
<1>6. CASE ReturnFailed
  <2>1. CASE WindowFails
    <3>1. "window" \in faults' /\ op' = "idle"
      BY <2>1 DEF WindowFails, Fault
    <3> QED
      BY <3>1 DEF AnnounceInv
  <2>2. CASE WindowCommitFails
    <3>1. /\ op = "window" /\ op' = "idle" /\ at \notin completed /\ expected' = at
          /\ txCursor' = cursor /\ cursor' = cursor
          /\ UNCHANGED <<proc, session, rows, completed, hand, announced>>
      BY <1>6, <2>2 DEF ReturnFailed, WindowCommitFails, WindowDone, Rollback
    <3>2. ASSUME "window" \notin faults, proc = "up",
                 NEW n \in Seqno, Own(n) \in rows, cursor[Own(n)] # 0
          PROVE  Own(n) \in announced
      <4>1. txCursor[Own(n)] # 0
        BY <3>2 DEF TransactionInv, TypeOK
      <4> QED
        BY <3>1, <3>2, <4>1 DEF AnnounceInv
    <3> QED
      BY <1>0, <3>1, <3>2 DEF AnnounceInv, Own
  <2> QED
    BY <1>6, <2>1, <2>2 DEF ReturnFailed
<1>7. CASE Close
  <2>1. ~Calling' /\ (op' = "flush" \/ proc' = "closed")
    BY <1>7 DEF Close, CloseSession, FlushRow, CloseCommit, CloseFails
  <2> QED
    BY <2>1 DEF AnnounceInv
<1>8. CASE Ends
  BY <1>8 DEF Ends, ProcessEnds, AnnounceInv
<1>9. CASE Sweep
  <2>1. PICK k \in Chunk : EnforceRetention(k)
    BY <1>9 DEF Sweep
  <2>2. /\ op = "idle" /\ rows' \subseteq rows
        /\ UNCHANGED <<proc, session, expected, completed, op, faults, announced>>
        /\ \A c \in rows' : c \in Chunk /\ txCursor'[c] # 0 => txCursor[c] # 0
    BY <1>9, <2>1 DEF EnforceRetention, CanCall, Sweep, mem, pipeline, TypeOK
  <2>3. ASSUME "window" \notin faults, proc = "up",
               NEW n \in Seqno, Own(n) \in rows', txCursor'[Own(n)] # 0
        PROVE  Own(n) \in announced
    <3>1. Own(n) \in rows /\ Own(n) \in Chunk
      BY <2>2, <2>3 DEF TypeOK
    <3> QED
      BY <2>2, <2>3, <3>1 DEF AnnounceInv
  <2> QED
    BY <2>2, <2>3 DEF AnnounceInv, Own
<1> QED
  BY <1>1, <1>2, <1>3, <1>4, <1>5, <1>6, <1>7, <1>8, <1>9
     DEF WorkerNext, CaptureThread, AsrThread, StopThread

-------------------------------------------------------------------------------
LEMMA WorkerInitInvariant == WorkerInit => WorkerInv
<1> SUFFICES ASSUME WorkerInit PROVE WorkerInv
  OBVIOUS
<1>1. IInv
  BY InitInvariant DEF WorkerInit
<1>2. /\ capture = "off" /\ queue = <<>> /\ asr = "off" /\ hand = 0 /\ stopping = "no"
      /\ wavs = {} /\ proc = "down" /\ op = "idle" /\ handled = {} /\ rows = {}
  BY DEF WorkerInit, Init
<1>3. 0 \in Seqno
  BY StoreConstants DEF StoreConstants, Seqno
<1> QED
  BY <1>1, <1>2, <1>3
     DEF WorkerInv, PipelineTypes, StopInv, FlightInv, FileInv, NoFileBehind, FifoInv,
         ReportInv, OldestInv, AnnounceInv, Calling, Working, Outcome

LEMMA WorkerStepInvariant == WorkerInv /\ [WorkerNext]_workerVars => WorkerInv'
<1> SUFFICES ASSUME WorkerInv, [WorkerNext]_workerVars PROVE WorkerInv'
  OBVIOUS
<1>1. TypeOK /\ SessionInv
  BY DEF WorkerInv, IInv
<1>2. IInv' /\ TypeOK'
  BY StoreStep, StepInvariant DEF WorkerInv, IInv
<1>3. PipelineTypes'
  BY <1>1, <1>2, PipelineTypesStep DEF WorkerInv
<1>4. StopInv' /\ FlightInv' /\ FileInv'
  BY <1>1, StopStep, FlightStep, FileStep DEF WorkerInv
<1>5. FifoInv' /\ ReportInv'
  BY <1>1, <1>2, FifoStep, ReportStep DEF WorkerInv
<1>6. OldestInv' /\ AnnounceInv'
  BY <1>1, OldestStep, AnnounceStep DEF WorkerInv, IInv
<1> QED
  BY <1>2, <1>3, <1>4, <1>5, <1>6 DEF WorkerInv

(* The invariant the theorems below follow from: what holds of the store,   *)
(* and where the chunks of the pipeline and their files are.                *)
THEOREM WorkerInvariant == WorkerSpec => []WorkerInv
BY WorkerInitInvariant, WorkerStepInvariant, PTL DEF WorkerSpec

LEMMA WorkerTypeStep ==
  ASSUME WorkerInv, WorkerTypeOK, WorkerInv', [WorkerNext]_workerVars
  PROVE  WorkerTypeOK'
<1>1. TypeOK' /\ PipelineTypes'
  BY DEF WorkerInv, IInv
<1>2. Len(queue') <= MaxPending
  <2>1. CASE Enqueue
    <3>1. InPut \in Seqno
      BY <2>1, InPutIsCut DEF Enqueue, WorkerInv, IInv
    <3>2. Len(Append(queue, InPut)) = Len(queue) + 1 /\ Len(queue) \in Nat
      BY <3>1, Appended DEF WorkerInv, PipelineTypes
    <3> QED
      BY <2>1, <3>2, WorkerConstants DEF Enqueue
  <2>2. CASE PutSentinel
    <3>1. Len(Append(queue, Sentinel)) = Len(queue) + 1 /\ Len(queue) \in Nat
      BY Appended DEF WorkerInv, PipelineTypes
    <3> QED
      BY <2>2, <3>1, WorkerConstants DEF PutSentinel, WorkerTypeOK
  <2>3. CASE TakeChunk
    <3>1. Len(Tail(queue)) = Len(queue) - 1 /\ Len(queue) \in Nat
      BY <2>3, Taken DEF TakeChunk, WorkerInv, PipelineTypes
    <3> QED
      BY <2>3, <3>1, WorkerConstants DEF TakeChunk, WorkerTypeOK
  <2>4. CASE Ends
    <3>1. Len(queue') = 0
      BY <2>4 DEF Ends
    <3> QED
      BY <3>1, WorkerConstants
  <2>5. CASE \/ Start \/ Capture \/ DropOnBackpressure \/ CaptureExits \/ Transcribe \/ Report
             \/ ReportFails \/ StoreWorks \/ Return \/ ReturnFailed \/ StopRequested
             \/ JoinCapture \/ JoinAsr \/ Close \/ Sweep \/ UNCHANGED workerVars
    <3>1. queue' = queue
      BY <2>5
      DEF Start, Capture, DropOnBackpressure, CaptureExits, Transcribe, Report, ReportFails,
          StoreWorks, Return, ReturnFailed, StopRequested, JoinCapture, JoinAsr, Close, Sweep,
          workerVars, pipeline
    <3> QED
      BY <3>1 DEF WorkerTypeOK
  <2> QED
    BY <2>1, <2>2, <2>3, <2>4, <2>5 DEF WorkerNext, CaptureThread, AsrThread, StopThread
<1>3. announced' \subseteq Chunk
  <2>1. CASE Return
    <3>1. NewlyPublished \subseteq Chunk
      BY DEF WorkerTypeOK, TypeOK, NewlyPublished
    <3> QED
      BY <2>1, <3>1 DEF Return, Announce, WorkerTypeOK
  <2>2. CASE ~Return
    <3>1. announced' = announced
      BY <2>2
      DEF WorkerNext, CaptureThread, AsrThread, StopThread, Start, Capture, Enqueue, TakeChunk,
          DropOnBackpressure, CaptureExits, Transcribe, Report, ReportFails, StoreWorks,
          ReturnFailed, StopRequested, JoinCapture, PutSentinel, JoinAsr, Close, Ends, Sweep,
          workerVars, pipeline
    <3> QED
      BY <3>1 DEF WorkerTypeOK
  <2> QED
    BY <2>1, <2>2
<1> QED
  BY <1>1, <1>2, <1>3 DEF WorkerTypeOK, PipelineTypes

(* The threads keep their types, and the queue never holds more than its   *)
(* maxsize, the sentinel of stop() included.                               *)
THEOREM WorkerTypeCorrect == WorkerSpec => []WorkerTypeOK
<1>1. WorkerInit => WorkerTypeOK
  <2> SUFFICES ASSUME WorkerInit PROVE WorkerTypeOK
    OBVIOUS
  <2>1. PipelineTypes /\ TypeOK
    BY WorkerInitInvariant DEF WorkerInv, IInv
  <2>2. Len(queue) = 0 /\ announced = {}
    BY DEF WorkerInit
  <2> QED
    BY <2>1, <2>2, WorkerConstants DEF WorkerTypeOK, PipelineTypes
<1>2. WorkerInv /\ WorkerInv' /\ WorkerTypeOK /\ [WorkerNext]_workerVars => WorkerTypeOK'
  BY WorkerTypeStep
<1> QED
  BY <1>1, <1>2, WorkerInvariant, PTL DEF WorkerSpec

(* The ASR thread never meets the sentinel of stop() with a chunk still on *)
(* its way, whatever the size of the queue, the order of the threads and   *)
(* the storage faults.                                                     *)
THEOREM SentinelDrains == WorkerSpec => []SentinelMeansDrained
<1>1. WorkerInv => SentinelMeansDrained
  <2> SUFFICES ASSUME WorkerInv, proc = "up", asr = "off" PROVE SentinelMeansDrained
    BY DEF SentinelMeansDrained
  <2>1. queue = <<>> /\ capture = "off"
    BY DEF WorkerInv, StopInv
  <2>2. ASSUME NEW n \in InFlight PROVE FALSE
    <3>1. InPipeline(n)
      BY DEF WorkerInv, FlightInv
    <3> QED
      BY <2>1, <3>1 DEF InPipeline, Outcome
  <2> QED
    BY <2>1, <2>2 DEF SentinelMeansDrained
<1> QED
  BY <1>1, WorkerInvariant, PTL

(* No row of the table still has its temporary audio file, and a running   *)
(* process holds only the files of chunks in its hands.                    *)
THEOREM FilesAreTemporary == WorkerSpec => []NoFileBehind
<1>1. WorkerInv => NoFileBehind
  BY DEF WorkerInv, FileInv
<1> QED
  BY <1>1, WorkerInvariant, PTL

(* One ASR thread behind one queue reports the chunks in the order they    *)
(* were cut, so no row of the running session is left staged by a call     *)
(* that returned, unless a completion or a transaction was lost.           *)
THEOREM ReportsInOrder == WorkerSpec => []NothingWaits
<1>1. WorkerInv => NothingWaits
  <2> SUFFICES ASSUME WorkerInv, InOrder, proc = "up", op = "idle",
                      NEW n \in Seqno, Own(n) \in rows, cursor[Own(n)] = 0
               PROVE  FALSE
    BY DEF NothingWaits
  <2>1. n \in handled /\ n \in Nat
    BY DEF WorkerInv, IInv, WindowInv, InOrder, Seqno
  <2>2. PICK k \in InFlight : k < n
    BY WindowFollowsInvariant DEF WorkerInv, InOrder, WaitsOnlyForInFlightUntilFault,
                                  WaitsOnlyForInFlight
  <2>3. n < k /\ k \in Nat
    BY <2>1, InFlightIsCut DEF WorkerInv, ReportInv, InOrder, Seqno
  <2> QED
    BY <2>1, <2>2, <2>3
<1> QED
  BY <1>1, WorkerInvariant, PTL

(* Every row the window publishes in a running session is announced,       *)
(* although a call returns no row but its own: the window never has        *)
(* another one to publish, unless an error in its loop left one behind.    *)
THEOREM PublishedAreAnnounced == WorkerSpec => []PublishedIsAnnounced
<1>1. WorkerInv => PublishedIsAnnounced
  <2> SUFFICES ASSUME WorkerInv, "window" \notin faults, proc = "up", op = "idle",
                      NEW n \in Seqno, Own(n) \in rows, cursor[Own(n)] # 0
               PROVE  Own(n) \in announced
    BY DEF PublishedIsAnnounced
  <2>1. txCursor[Own(n)] # 0
    BY DEF WorkerInv, IInv, TransactionInv
  <2> QED
    BY <2>1 DEF WorkerInv, AnnounceInv
<1> QED
  BY <1>1, WorkerInvariant, PTL
===============================================================================
