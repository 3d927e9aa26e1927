----------------------------- MODULE ScannerWorker -----------------------------
(***************************************************************************)
(* ScannerWorker (services/scanner_transcriber, worker.py): the threads    *)
(* that drive a ScannerStore.  The capture thread cuts chunks and puts     *)
(* them into a bounded queue, the ASR thread takes them out one by one and *)
(* reports each to the store, and stop() drains the pipeline through a     *)
(* sentinel before it closes the session.                                  *)
(*                                                                         *)
(* An action that calls the store is conjoined with the store's action, so *)
(* the crashes and the faults of ScannerStore apply here too.  Audio is    *)
(* not retained: a chunk's WAV file is a temporary one.                    *)
(***************************************************************************)
EXTENDS ScannerStore, Sequences

CONSTANT MaxPending   \* max_pending_chunks, the capacity of the queue

ASSUME WorkerConstants == MaxPending \in Nat \ {0}

Sentinel == MaxSeq + 1   \* the None that stop() puts, no sequence number
Outcome == {"speech", "silence", "failed"}

VARIABLES
  capture,    \* capture thread: "off", "run", or "put" with a chunk in hand
  queue,      \* _chunk_queue: sequence numbers, and the sentinel
  asr,        \* ASR thread: "off", "get", "busy", or what it has to report
  hand,       \* the chunk the ASR thread has in hand
  stopping,   \* stop(): "no", "join", "sentinel", "drain" or "close"
  wavs,       \* the chunks with a temporary WAV file
  announced   \* the chunks whose `segment' event has been broadcast

pipeline == <<capture, queue, asr, hand, stopping, wavs, announced>>
workerVars == <<vars, pipeline>>

WorkerTypeOK ==
  /\ TypeOK
  /\ capture \in {"off", "run", "put"}
  /\ queue \in Seq(Seqno \cup {Sentinel})
  /\ Len(queue) <= MaxPending
  /\ asr \in {"off", "get", "busy"} \cup Outcome
  /\ hand \in Seqno
  /\ stopping \in {"no", "join", "sentinel", "drain", "close"}
  /\ wavs \subseteq Chunk
  /\ announced \subseteq Chunk

WorkerInit ==
  /\ Init
  /\ capture = "off"
  /\ queue = <<>>
  /\ asr = "off"
  /\ hand = 0
  /\ stopping = "no"
  /\ wavs = {}
  /\ announced = {}

-------------------------------------------------------------------------------
(* start(): the store recovers, then the threads are started.              *)
Start ==
  \/ /\ StartProcess \/ RecoverRow
     /\ UNCHANGED pipeline
  \/ /\ RecoverCommit
     /\ capture' = "run"
     /\ asr' = "get"
     /\ UNCHANGED <<queue, hand, stopping, wavs, announced>>

(* The capture thread cuts a chunk (the trailing one of a stop included),  *)
(* writes its WAV file and calls _enqueue_captured_chunk.                  *)
Capture ==
  /\ capture = "run"
  /\ CutChunk
  /\ capture' = "put"
  /\ wavs' = wavs \cup {Own(captured)}
  /\ UNCHANGED <<queue, asr, hand, stopping, announced>>

InPut == captured - 1

Enqueue ==
  /\ capture = "put"
  /\ Len(queue) < MaxPending
  /\ queue' = Append(queue, InPut)
  /\ capture' = "run"
  /\ UNCHANGED <<vars, asr, hand, stopping, wavs, announced>>

(* The queue stays full for five seconds: the chunk is dropped with its    *)
(* file, a gap is recorded, and its completion never reaches the window.   *)
DropOnBackpressure ==
  /\ capture = "put"
  /\ Len(queue) = MaxPending
  /\ Dropped(InPut)
  /\ capture' = "run"
  /\ wavs' = wavs \ {Own(InPut)}
  /\ UNCHANGED <<queue, asr, hand, stopping, announced>>

CaptureExits ==
  /\ capture = "run"
  /\ stopping = "join"
  /\ capture' = "off"
  /\ UNCHANGED <<vars, queue, asr, hand, stopping, wavs, announced>>

-------------------------------------------------------------------------------
(* _asr_worker_loop.                                                       *)

TakeChunk ==
  /\ asr = "get"
  /\ queue # <<>>
  /\ queue' = Tail(queue)
  /\ IF Head(queue) = Sentinel
       THEN asr' = "off" /\ UNCHANGED hand
       ELSE asr' = "busy" /\ hand' = Head(queue)
  /\ UNCHANGED <<vars, capture, stopping, wavs, announced>>

(* Mutant: the file is left to a later cleanup.                            *)
TranscribeKeepingFile ==
  /\ asr = "busy"
  /\ asr' \in Outcome
  /\ UNCHANGED <<vars, capture, queue, hand, stopping, wavs, announced>>

(* Whatever the backend returns or raises, the file goes before the store  *)
(* is called.                                                              *)
Transcribe ==
  /\ asr = "busy"
  /\ asr' \in Outcome
  /\ wavs' = wavs \ {Own(hand)}
  /\ UNCHANGED <<vars, capture, queue, hand, stopping, announced>>

Report ==
  /\ asr \in Outcome
  /\ IF asr = "speech" THEN PersistNew(hand) ELSE MarkNonSpeech(hand)
  /\ UNCHANGED pipeline

(* Mutant: the exception ends the thread.                                  *)
ReportKillsThread ==
  /\ asr \in Outcome
  /\ CallFails(hand)
  /\ asr' = "off"
  /\ UNCHANGED <<capture, queue, hand, stopping, wavs, announced>>

(* The call raises before its first commit: the fault is set and the loop  *)
(* goes on.                                                                *)
ReportFails ==
  /\ asr \in Outcome
  /\ CallFails(hand)
  /\ asr' = "get"
  /\ UNCHANGED <<capture, queue, hand, stopping, wavs, announced>>

StoreWorks ==
  /\ MarkSegmentReady \/ PublishExpected
  /\ UNCHANGED pipeline

NewlyPublished == {c \in rows : cursor[c] = 0 /\ txCursor[c] # 0}

(* Mutant: the row is read before the publication commits.                 *)
AnnounceStale ==
  IF asr = "failed" THEN announced
  ELSE announced \cup {c \in {Own(hand)} \cap rows : cursor[c] # 0}

(* What each branch does with the result of its call: persist_segment      *)
(* returns only its own row, the silent branch records every row it is     *)
(* given, the failed branch none.                                          *)
Announce ==
  CASE asr = "speech" -> announced \cup ({Own(hand)} \cap NewlyPublished)
    [] asr = "silence" -> announced \cup NewlyPublished
    [] OTHER -> announced

Return ==
  /\ WindowCommit
  /\ announced' = Announce
  /\ asr' = "get"
  /\ UNCHANGED <<capture, queue, hand, stopping, wavs>>

ReturnFailed ==
  /\ WindowCommitFails \/ WindowFails
  /\ asr' = "get"
  /\ UNCHANGED <<capture, queue, hand, stopping, wavs, announced>>

-------------------------------------------------------------------------------
(* stop().                                                                 *)
StopRequested ==
  /\ proc = "up"
  /\ stopping = "no"
  /\ stopping' = "join"
  /\ UNCHANGED <<vars, capture, queue, asr, hand, wavs, announced>>

(* Mutant: the sentinel is put without waiting for the capture thread.     *)
JoinNothing ==
  /\ stopping = "join"
  /\ stopping' = "sentinel"
  /\ UNCHANGED <<vars, capture, queue, asr, hand, wavs, announced>>

(* The capture thread is always joined in time: it waits at most five      *)
(* seconds for the queue and eight for ffmpeg, of thirty.                  *)
JoinCapture ==
  /\ stopping = "join"
  /\ capture = "off"
  /\ stopping' = "sentinel"
  /\ UNCHANGED <<vars, capture, queue, asr, hand, wavs, announced>>

(* Mutant: put(None) without a timeout.                                    *)
PutSentinelBlocking ==
  /\ stopping = "sentinel"
  /\ Len(queue) < MaxPending
  /\ queue' = Append(queue, Sentinel)
  /\ stopping' = "drain"
  /\ UNCHANGED <<vars, capture, asr, hand, wavs, announced>>

(* put(None, timeout=5), which gives up on a full queue.                   *)
PutSentinel ==
  /\ stopping = "sentinel"
  /\ IF Len(queue) < MaxPending THEN queue' = Append(queue, Sentinel)
                                ELSE UNCHANGED queue
  /\ stopping' = "drain"
  /\ UNCHANGED <<vars, capture, asr, hand, wavs, announced>>

(* join(timeout) of the ASR thread: it has ended, or the time is over.     *)
JoinAsr ==
  /\ stopping = "drain"
  /\ stopping' = "close"
  /\ UNCHANGED <<vars, capture, queue, asr, hand, wavs, announced>>

Close ==
  /\ \/ stopping = "close" /\ CloseSession
     \/ FlushRow \/ CloseCommit \/ CloseFails
  /\ UNCHANGED pipeline

-------------------------------------------------------------------------------
(* The process ends: threads are daemons, files and broadcasts remain.     *)
Ends ==
  /\ ProcessEnds
  /\ capture' = "off"
  /\ queue' = <<>>
  /\ asr' = "off"
  /\ stopping' = "no"
  /\ UNCHANGED <<hand, wavs, announced>>

(* _retention_worker_loop, until the stop event is set.                    *)
Sweep ==
  /\ stopping = "no"
  /\ \E k \in Chunk : EnforceRetention(k)
  /\ UNCHANGED pipeline

-------------------------------------------------------------------------------
CaptureThread == Capture \/ Enqueue \/ DropOnBackpressure \/ CaptureExits

AsrThread == \/ TakeChunk \/ Transcribe \/ Report \/ ReportFails
             \/ StoreWorks \/ Return \/ ReturnFailed

StopThread == StopRequested \/ JoinCapture \/ PutSentinel \/ JoinAsr \/ Close

WorkerNext == Start \/ CaptureThread \/ AsrThread \/ StopThread \/ Ends \/ Sweep

WorkerSpec == WorkerInit /\ [][WorkerNext]_workerVars
===============================================================================
