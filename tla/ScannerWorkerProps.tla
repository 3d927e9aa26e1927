--------------------------- MODULE ScannerWorkerProps ---------------------------
(***************************************************************************)
(* The properties of ScannerWorker: what a single ASR thread behind a FIFO *)
(* queue makes of the store's guarantees, the drain of stop(), and the     *)
(* life of the temporary audio files.                                      *)
(***************************************************************************)
EXTENDS ScannerWorker, ScannerStoreProps

InOrder == faults \cap {"call", "drop", "window", "commit"} = {}

(* One ASR thread reports chunks in the order they were cut, so when a     *)
(* call returns no row of the running session is left waiting: the row     *)
(* persist_segment returns is published, which _asr_worker_loop relies on  *)
(* to announce it (worker.py:376).                                         *)
NothingWaits ==
  InOrder /\ proc = "up" /\ op = "idle" =>
    \A n \in Seqno : Own(n) \in rows => cursor[Own(n)] # 0

(* Every row the window publishes is announced to live listeners, although *)
(* persist_segment returns no row but its own and the failed branch drops  *)
(* what it is given.  Only a publication that fails halfway and succeeds   *)
(* with the next chunk leaves a row out.                                   *)
PublishedIsAnnounced ==
  "window" \notin faults /\ proc = "up" /\ op = "idle" =>
    \A n \in Seqno : Own(n) \in rows /\ cursor[Own(n)] # 0 => Own(n) \in announced

(* When the ASR thread has met the sentinel, every chunk that was cut has  *)
(* been reported: nothing is behind the sentinel, and nothing comes later  *)
(* (worker.py: the capture thread is joined before the sentinel is put).   *)
SentinelMeansDrained ==
  proc = "up" /\ asr = "off" => queue = <<>> /\ capture = "off" /\ InFlight = {}

(* A chunk is durable only once its temporary file is gone, and a running  *)
(* process holds no file but those of chunks still in its hands (worker.py *)
(* "so no raw audio leaks on disk").                                       *)
NoFileBehind ==
  /\ rows \cap wavs = {}
  /\ proc = "up" => \A n \in Seqno : Own(n) \in wavs => n \in InFlight

(* What goes on whatever the speech recognition does: start(), the capture *)
(* thread, a call that holds the store's lock, a stop() once it is called, *)
(* the end of a process that is closed, and a restart after it.  Nothing   *)
(* obliges anyone to call stop() or to cut a chunk.                        *)
ThreadFairness ==
  /\ WF_workerVars(Start)
  /\ WF_workerVars(Enqueue \/ CaptureExits \/ DropOnBackpressure)
  /\ WF_workerVars(StoreWorks \/ Return \/ ReturnFailed)
  /\ WF_workerVars(JoinCapture \/ PutSentinel \/ JoinAsr)
  /\ WF_workerVars(Close)
  /\ WF_workerVars(proc = "closed" /\ Ends)

LiveSpec == WorkerSpec /\ ThreadFairness

(* A transcription ends, with a result or an exception.                    *)
TranscriptionEnds == WF_workerVars(AsrThread)

(* stop() ends even if the ASR thread hangs with a full queue behind it:   *)
(* the sentinel is given up and so is the join (worker.py:188-193).        *)
StopCompletes == stopping = "join" ~> proc \in {"closed", "down"}

(* Every chunk that was cut is reported, dropped or given up, or the       *)
(* process ends; a storage fault does not end the ASR thread.  And every   *)
(* row that reaches the table is published or expires, across crashes and  *)
(* restarts, unless a completion was lost (the row then waits for a stop   *)
(* or a restart that nobody owes it) or the last process of the instance   *)
(* has ended.                                                              *)
EveryChunkSettles ==
  TranscriptionEnds =>
    /\ \A n \in Seqno : n \in InFlight ~> n \notin InFlight
    /\ \A c \in Chunk :
         (c \in rows /\ cursor[c] = 0)
           ~> \/ c \notin rows \/ cursor[c] # 0 \/ ~InOrder
              \/ proc = "down" /\ session = MaxSession
===============================================================================
