---------------------------- MODULE ScannerCapture ----------------------------
(***************************************************************************)
(* The connection loop of capture.py (run): it resolves the source, starts *)
(* ffmpeg, polls its output once a second, gives an attempt up that is     *)
(* silent for too long, and waits longer and longer before the next one.   *)
(* Time is counted in polls; ages are only told apart up to MaxAge.        *)
(***************************************************************************)
EXTENDS Naturals

CONSTANTS
  ReadTimeout,  \* read_timeout_seconds
  FirstByte,    \* how long a source that is up takes until its first bytes
  MinFlush,     \* min_flush_seconds: a shorter tail is thrown away
  MaxDelay,     \* reconnect_max_seconds; the initial delay is one, it doubles
  MaxFailures   \* consecutive_failures is only told apart up to this bound

ASSUME CaptureConstants ==
  /\ ReadTimeout \in Nat \ {0} /\ FirstByte \in 0 .. ReadTimeout - 1
  /\ MinFlush \in Nat
  /\ MaxDelay \in Nat \ {0} /\ MaxFailures \in Nat \ {0}

(* A truth of arithmetic the provers have no theory for.                   *)
ASSUME PowersOfTwo == \A n \in 0 .. MaxFailures : 2 ^ n \in Nat \ {0}

MaxAge == ReadTimeout + MinFlush + 1

VARIABLES
  source,    \* the upstream: "up" or "down"
  stopping,  \* the stop event
  stage,     \* where the capture thread is
  received,  \* the attempt has given bytes (chunk_start is set)
  silent,    \* polls since the last bytes, or since the attempt was started
  pending,   \* pending_gap_start is set,
  outage,    \* and this is its age
  failures,  \* consecutive_failures
  delay,     \* what is left of the wait before the next attempt
  heard      \* some attempt has given bytes

vars == <<source, stopping, stage, received, silent, pending, outage, failures, delay, heard>>
environment == <<source, stopping>>

Stage == {"connecting", "open", "backoff", "stopped"}
AtMost(bound, n) == IF n > bound THEN bound ELSE n

TypeOK ==
  /\ source \in {"up", "down"} /\ stopping \in BOOLEAN
  /\ stage \in Stage
  /\ received \in BOOLEAN /\ (received => stage = "open")
  /\ silent \in 0 .. ReadTimeout
  /\ pending \in BOOLEAN /\ outage \in 0 .. MaxAge
  /\ failures \in 0 .. MaxFailures
  /\ delay \in 0 .. MaxDelay /\ (stage = "backoff" => delay > 0)
  /\ heard \in BOOLEAN

Init ==
  /\ source \in {"up", "down"} /\ stopping = FALSE
  /\ stage = "connecting" /\ received = FALSE /\ silent = 0
  /\ pending = FALSE /\ outage = 0 /\ failures = 0 /\ delay = 0
  /\ heard = FALSE

(* compute_backoff_seconds.                                                *)
BackoffSeconds(attempt) == AtMost(MaxDelay, 2 ^ (attempt - 1))

Backoff ==
  /\ stage' = "backoff"
  /\ failures' = AtMost(MaxFailures, failures + 1)
  /\ delay' = BackoffSeconds(failures')
  /\ received' = FALSE /\ silent' = 0

Older == IF pending THEN AtMost(MaxAge, outage + 1) ELSE 0

-------------------------------------------------------------------------------
Open ==
  /\ stage = "connecting" /\ ~stopping
  /\ stage' = "open" /\ silent' = 0 /\ received' = FALSE
  /\ UNCHANGED <<environment, pending, outage, failures, delay, heard>>

(* The source cannot be resolved, or ffmpeg cannot be started.             *)
OpenFails ==
  /\ stage = "connecting" /\ ~stopping /\ source = "down"
  /\ Backoff
  /\ UNCHANGED <<environment, pending, outage, heard>>

(* A poll without bytes: the attempt is given up when the last bytes, or,  *)
(* before the first ones, the start of the outage is too long ago; without *)
(* an outage the start of the attempt, counted from its first such poll.   *)
TimedOut ==
  \/ received /\ silent + 1 >= ReadTimeout
  \/ ~received /\ pending /\ Older >= ReadTimeout
  \/ ~received /\ silent >= ReadTimeout

(* A poll finds bytes.                                                     *)
Due == source = "up" /\ (received \/ silent >= FirstByte)

(* The first bytes after an outage record its gap.                         *)
Bytes ==
  /\ stage = "open" /\ ~stopping /\ Due
  /\ received' = TRUE /\ silent' = 0 /\ failures' = 0 /\ heard' = TRUE
  /\ pending' = FALSE /\ outage' = 0
  /\ UNCHANGED <<environment, stage, delay>>

Idle ==
  /\ stage = "open" /\ ~stopping /\ ~Due /\ ~TimedOut
  /\ silent' = silent + 1
  /\ outage' = Older
  /\ UNCHANGED <<environment, stage, received, pending, failures, delay, heard>>

(* Mutant: an attempt that gave bytes needs no new gap.                    *)
AnchorForgotten ==
  /\ pending' = (pending \/ ~received)
  /\ outage' = Older

(* pending_gap_start: the end of the last chunk cut, which a tail that is  *)
(* thrown away leaves behind, or now if there is none.                     *)
GapAnchor ==
  /\ pending' = TRUE
  /\ IF pending \/ ~received THEN outage' = Older
     ELSE \/ outage' = 0
          \/ \E tail \in 0 .. MinFlush : outage' = AtMost(MaxAge, silent + 1 + tail)

GiveUp ==
  /\ stage = "open" /\ ~stopping /\ ~Due /\ TimedOut
  /\ GapAnchor /\ Backoff
  /\ UNCHANGED <<environment, heard>>

(* ffmpeg ends, or the source closes the stream.                           *)
Closed ==
  /\ stage = "open" /\ ~stopping /\ source = "down"
  /\ GapAnchor /\ Backoff
  /\ UNCHANGED <<environment, heard>>

Wait ==
  /\ stage = "backoff" /\ ~stopping
  /\ delay' = delay - 1
  /\ stage' = IF delay = 1 THEN "connecting" ELSE stage
  /\ outage' = Older
  /\ UNCHANGED <<environment, received, silent, pending, failures, heard>>

(* The stop event ends the polls and the wait.                             *)
Ends ==
  /\ stopping /\ stage # "stopped"
  /\ stage' = "stopped" /\ received' = FALSE /\ silent' = 0
  /\ UNCHANGED <<environment, pending, outage, failures, delay, heard>>

-------------------------------------------------------------------------------
SourceChanges ==
  /\ source' = IF source = "up" THEN "down" ELSE "up"
  /\ UNCHANGED <<stopping, stage, received, silent, pending, outage, failures, delay, heard>>

StopRequested ==
  /\ ~stopping /\ stopping' = TRUE
  /\ UNCHANGED <<source, stage, received, silent, pending, outage, failures, delay, heard>>

Capture == Open \/ OpenFails \/ Bytes \/ Idle \/ GiveUp \/ Closed \/ Wait \/ Ends

Next == Capture \/ SourceChanges \/ StopRequested

Spec == Init /\ [][Next]_vars

(* The thread is scheduled, and time passes.                               *)
LiveSpec == Spec /\ WF_vars(Capture)

-------------------------------------------------------------------------------
(* An outage that follows audio is remembered until audio is back, through *)
(* every failed attempt and every wait: its gap will be recorded.          *)
OutageRemembered ==
  heard /\ ~received /\ stage # "stopped" => pending

(* A source that is up, and gives its first bytes within the read timeout  *)
(* of an attempt, is heard again, however long it was down before ("Check  *)
(* read timeout from start of attempt or last byte received", capture.py   *)
(* line 381).                                                              *)
Reconnects == <>[](source = "up" /\ ~stopping) => <>[]received

(* A stop request ends the thread, whatever it is waiting for.             *)
StopEnds == stopping ~> stage = "stopped"
===============================================================================
