---------------------------- MODULE ScannerHealth ----------------------------
(***************************************************************************)
(* What /healthz says while the capture loop, the ASR worker, the          *)
(* retention sweep and the health check itself write the one status and    *)
(* the one current_error of the runtime (worker.py).                       *)
(*                                                                         *)
(* The capture loop is ScannerCapture, each of its steps with the callback *)
(* it makes.  Whether a write to the database succeeds is open at each     *)
(* write; reads may fail too, and only the health check notices.           *)
(***************************************************************************)
EXTENDS ScannerCapture

CONSTANTS StaleAfter,     \* stale_after_seconds, in polls
          QueueSize       \* max_pending_chunks

ASSUME HealthConstants == StaleAfter \in Nat \ {0} /\ QueueSize \in Nat \ {0}

VARIABLES
  status,     \* _status
  error,      \* the code of _current_error, by the part that failed
  age,        \* polls since last_audio_received_at; StaleAfter + 1 is stale, or never
  queue,      \* chunks waiting
  asr,        \* where the ASR worker is
  asrOk,      \* how the last transcription went,
  storeOk,    \* the last write to the database,
  faulted     \* and a fault since the first bytes of this attempt

worker == <<queue, asr, asrOk>>
report == <<status, error, storeOk, faulted>>
healthVars == <<vars, worker, report, age>>

Faults == {"upstream_unavailable", "asr_failure", "storage_failure"}
Good == {"receiving_audio", "no_speech_detected", "transcription_pending", "publishing"}
Statuses == Faults \cup Good \cup {"connecting", "stopped"}

Stale == StaleAfter + 1
Older1 == AtMost(Stale, age + 1)

(* health_snapshot, while the database can be read.                        *)
Healthy == status \in Good /\ age < Stale /\ error = "none"

HealthInit ==
  /\ Init
  /\ status = "connecting" /\ error = "none" /\ age = Stale
  /\ queue = 0 /\ asr = "idle" /\ asrOk = TRUE /\ storeOk = TRUE /\ faulted = FALSE

-------------------------------------------------------------------------------
(* The two ways the status is written.                                     *)

SetFault(fault) == status' = fault /\ error' = fault /\ faulted' = TRUE

(* _set_status, and the assignments of _status without it.                 *)
SetStatus(new) == status' = new /\ UNCHANGED <<error, faulted>>

(* A write to the database that succeeds does what follows it, one that    *)
(* fails shows the fault.                                                  *)
Write(after) ==
  \/ storeOk' = TRUE /\ after
  \/ storeOk' = FALSE /\ SetFault("storage_failure")

Unwritten == UNCHANGED <<status, error, storeOk, faulted>>

-------------------------------------------------------------------------------
(* The capture thread.                                                     *)

(* _handle_connecting, at the start of every attempt.                      *)
Connecting == IF status \in Faults THEN UNCHANGED status ELSE status' = "connecting"

HealthOpen ==
  /\ Open /\ Connecting
  /\ UNCHANGED <<error, storeOk, faulted, age, worker>>

(* _handle_connecting, and _handle_upstream_error over it.                 *)
HealthOpenFails ==
  /\ OpenFails /\ SetFault("upstream_unavailable")
  /\ UNCHANGED <<storeOk, age, worker>>

(* Mutant: audio clears the error whatever the status is.                  *)
HeardAnyway ==
  /\ status' = IF status \in {"connecting", "upstream_unavailable"} THEN "receiving_audio" ELSE status
  /\ error' = "none"
  /\ faulted' = (faulted /\ received)

(* Mutant: an attempt that went on without a new status does not recover.  *)
HeardConnecting ==
  /\ IF status = "connecting"
     THEN status' = "receiving_audio" /\ error' = "none"
     ELSE UNCHANGED <<status, error>>
  /\ faulted' = (faulted /\ received)

(* _handle_audio_bytes.                                                    *)
Heard ==
  /\ IF status \in {"connecting", "upstream_unavailable"}
     THEN status' = "receiving_audio" /\ error' = "none"
     ELSE UNCHANGED <<status, error>>
  /\ faulted' = (faulted /\ received)

(* The bytes are reported, and then the gap they end is recorded.          *)
HealthBytes ==
  /\ Bytes /\ age' = 0
  /\ \/ Heard /\ UNCHANGED storeOk
     \/ pending /\ Heard /\ storeOk' = TRUE
     \/ pending /\ SetFault("storage_failure") /\ storeOk' = FALSE
  /\ UNCHANGED worker

(* _enqueue_captured_chunk: a full queue drops the chunk and records a gap.*)
Enqueue ==
  IF queue < QueueSize
  THEN /\ queue' = queue + 1
       /\ SetStatus(IF status \in {"receiving_audio", "no_speech_detected"}
                    THEN "transcription_pending" ELSE status)
       /\ UNCHANGED storeOk
  ELSE UNCHANGED queue /\ Write(SetStatus(status))

(* The buffer holds a chunk.                                               *)
CutChunk ==
  /\ stage = "open" /\ received /\ ~stopping /\ Enqueue
  /\ UNCHANGED <<vars, age, asr, asrOk>>

HealthIdle == Idle /\ age' = Older1 /\ Unwritten /\ UNCHANGED worker

HealthWait == Wait /\ age' = Older1 /\ Unwritten /\ UNCHANGED worker

(* What is left in the buffer is flushed before the fault is reported.     *)
HealthLost ==
  /\ GiveUp \/ Closed
  /\ queue' \in IF received THEN queue .. AtMost(QueueSize, queue + 1) ELSE {queue}
  /\ SetFault("upstream_unavailable")
  /\ storeOk' \in IF received /\ queue = QueueSize THEN BOOLEAN ELSE {storeOk}
  /\ UNCHANGED <<age, asr, asrOk>>

(* A tail that is long enough is flushed.                                  *)
HealthEnds ==
  /\ Ends
  /\ \/ stage = "open" /\ received /\ Enqueue
     \/ UNCHANGED <<queue, report>>
  /\ UNCHANGED <<age, asr, asrOk>>

-------------------------------------------------------------------------------
(* The ASR thread: _asr_worker_loop.                                       *)

Take ==
  /\ asr = "idle" /\ queue > 0
  /\ queue' = queue - 1 /\ asr' = "transcribing"
  /\ SetStatus(IF status = "storage_failure" THEN status ELSE "transcription_pending")
  /\ UNCHANGED <<vars, age, asrOk, storeOk>>

(* The status has been overwritten when the chunk was taken.               *)
Transcribes ==
  /\ asr = "transcribing"
  /\ asr' \in {"speech", "silence"} /\ asrOk' = TRUE
  /\ error' = IF status = "asr_failure" THEN "none" ELSE error
  /\ UNCHANGED <<vars, age, queue, status, storeOk, faulted>>

TranscribeFails ==
  /\ asr = "transcribing"
  /\ asr' = "failed" /\ asrOk' = FALSE /\ SetFault("asr_failure")
  /\ UNCHANGED <<vars, age, queue, storeOk>>

(* The gap of a failed transcription, then its mark.                       *)
RecordFailure ==
  /\ asr = "failed" /\ asr' = "idle" /\ Write(SetStatus(status))
  /\ UNCHANGED <<vars, age, queue, asrOk>>

Settle(now) ==
  SetStatus(IF queue = 0 /\ status # "upstream_unavailable" THEN now ELSE status)

MarkSilence ==
  /\ asr = "silence" /\ asr' = "idle" /\ Write(Settle("no_speech_detected"))
  /\ UNCHANGED <<vars, age, queue, asrOk>>

AnnouncePublishing ==
  /\ asr = "speech" /\ asr' = "persisting" /\ SetStatus("publishing")
  /\ UNCHANGED <<vars, age, queue, asrOk, storeOk>>

Persist ==
  /\ asr = "persisting" /\ asr' = "idle" /\ Write(Settle("receiving_audio"))
  /\ UNCHANGED <<vars, age, queue, asrOk>>

-------------------------------------------------------------------------------
(* The retention sweep, a health check that cannot read, and the end.      *)

SweepFails ==
  /\ ~stopping /\ storeOk' = FALSE /\ SetFault("storage_failure")
  /\ UNCHANGED <<vars, age, worker>>

CheckFails ==
  /\ status # "stopped" /\ SetFault("storage_failure")
  /\ UNCHANGED <<vars, age, worker, storeOk>>

(* stop(), when both threads have ended within its time-outs.              *)
Shutdown ==
  /\ stage = "stopped" /\ queue = 0 /\ asr = "idle" /\ status # "stopped"
  /\ SetStatus("stopped")
  /\ UNCHANGED <<vars, age, worker, storeOk>>

Asr == Take \/ Transcribes \/ TranscribeFails \/ RecordFailure \/ MarkSilence
       \/ AnnouncePublishing \/ Persist

HealthCapture == HealthOpen \/ HealthOpenFails \/ HealthBytes \/ HealthIdle \/ HealthLost
                 \/ HealthWait \/ HealthEnds

Environment == (SourceChanges \/ StopRequested) /\ UNCHANGED <<worker, report, age>>

HealthNext == HealthCapture \/ CutChunk \/ Asr \/ SweepFails \/ CheckFails \/ Shutdown
              \/ Environment

HealthSpec == HealthInit /\ [][HealthNext]_healthVars

(* The capture thread is scheduled, and time passes, and so is the worker. *)
HealthLiveSpec == HealthSpec /\ WF_healthVars(HealthCapture) /\ WF_healthVars(Asr)
                  /\ WF_healthVars(Shutdown)
-------------------------------------------------------------------------------
(* What a monitor can conclude from the report.                            *)

HealthTypeOK ==
  /\ TypeOK
  /\ status \in Statuses /\ error \in Faults \cup {"none"}
  /\ age \in 0 .. Stale /\ queue \in 0 .. QueueSize
  /\ asr \in {"idle", "transcribing", "failed", "speech", "silence", "persisting"}
  /\ asrOk \in BOOLEAN /\ storeOk \in BOOLEAN /\ faulted \in BOOLEAN
  /\ status \in Faults => error \in Faults

(* A fault of any part is shown until the upstream reconnects: whatever    *)
(* the threads write over the status in between, the report is not healthy *)
(* again before the first bytes of a later attempt.  (From then on it may  *)
(* be: a reconnect clears the error of any part, also of one whose last    *)
(* transcription or write failed.)                                         *)
FaultIsShown == HealthTypeOK /\ (faulted => ~Healthy)

(* An outage ends: a source that is up for good is heard again, and a stop *)
(* request ends the capture thread, whatever it is waiting for.  When only *)
(* the upstream fails and the worker is done with its queue before an      *)
(* outage is reported and until audio is back, the report gets healthy and *)
(* stays so.  (A worker that is still at work may set the status between   *)
(* _handle_connecting and the first bytes, and the error stays although    *)
(* everything works.)                                                      *)
OutageClears ==
  /\ Reconnects
  /\ StopEnds
  /\ ( /\ [](~received => queue = 0 /\ asr = "idle")
       /\ [](error \in {"none", "upstream_unavailable"})
       /\ <>[](source = "up" /\ ~stopping) )
     => <>[]Healthy
===============================================================================
