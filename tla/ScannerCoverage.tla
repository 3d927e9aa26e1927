---------------------------- MODULE ScannerCoverage ----------------------------
(***************************************************************************)
(* ScannerCoverage (services/scanner_transcriber): which audio of the feed *)
(* the database accounts for.  Air time passes in slots; a slot is heard   *)
(* by a connected capture thread or missed.  What is heard goes through    *)
(* the buffer, a bounded queue and the ASR thread to the table; what is    *)
(* missed, dropped or lost has to appear in capture_gaps, which three      *)
(* parts of the code write: the capture loop after a reconnect, the worker *)
(* for a chunk it gives up, and the recovery at the next start.            *)
(*                                                                         *)
(* A chunk is the pair <<from, to>> of its first slot and the slot after   *)
(* its last, as its timestamps say; a time is the number of a slot, the    *)
(* moment at which it begins, and 0 stands for None and NULL.  Time starts *)
(* a chunk's length after 0, so that no chunk begins before 1.             *)
(***************************************************************************)
EXTENDS Naturals, Sequences

CONSTANTS
  MaxTime,      \* the last slot
  SessionLimit,   \* number of capture sessions
  ChunkSlots,   \* chunk_seconds
  MinFlush,     \* min_flush_seconds
  MaxPending,   \* max_pending_chunks
  MaxBurst,     \* slots of audio that may be read without time passing
  PersistFails  \* may persist_segment fail before its first commit?

ASSUME CoverageConstants ==
  /\ MaxTime \in Nat /\ SessionLimit \in Nat /\ MaxPending \in Nat /\ MaxBurst \in Nat
  /\ ChunkSlots \in Nat \ {0} /\ MinFlush \in 1 .. ChunkSlots
  /\ MaxTime >= ChunkSlots
  /\ PersistFails \in BOOLEAN

Slot == 1 .. MaxTime
Time == 0 .. MaxTime + 1
SessionNo == 1 .. SessionLimit

VARIABLES
  now,        \* the slot on the air
  service,       \* "down", "up" or "stopping"
  latest,    \* the latest session, 0 before the first
  started,    \* started_at_utc of each session
  lastEnd,    \* last_audio_end_utc of each session, as committed
  conn,       \* ffmpeg: "off" or "on"
  chunkStart, \* chunk_start, 0 before the first bytes of a connection
  buf,        \* the length of pcm_buf, in slots
  lastAudio,  \* _last_audio_end of the capture thread
  pending,    \* pending_gap_start
  queue,      \* _chunk_queue
  asr,        \* ASR thread: "get", "busy" or "failed"
  hand,       \* the chunk it has in hand
  done,       \* slots of the chunks transcribed, or found silent
  gaps,       \* slots inside a recorded gap
  first,      \* start of the first chunk each session has completed
  lost,       \* slots of the chunks whose persist_segment failed
  attended,   \* slots that passed while a connection gave audio, or had given some
  backdated,  \* slots that chunks were dated back over
  bursts      \* slots of audio read without time passing

stream == <<conn, chunkStart, buf, lastAudio, pending>>
worker == <<queue, asr, hand>>
tables == <<started, lastEnd, done, gaps, first>>
history == <<lost, attended, backdated, bursts>>
coverageVars == <<now, service, latest, stream, worker, tables, history>>

ChunkPair == Time \X Time
NoChunk == <<0, 0>>
Span(c) == c[1] .. c[2] - 1

CoverageTypeOK ==
  /\ now \in ChunkSlots + 1 .. MaxTime + 1
  /\ service \in {"down", "up", "stopping"}
  /\ latest \in 0 .. SessionLimit
  /\ started \in [SessionNo -> Time]
  /\ lastEnd \in [SessionNo -> Time]
  /\ conn \in {"off", "on"}
  /\ chunkStart \in Time /\ lastAudio \in Time /\ pending \in Time
  /\ buf \in 0 .. ChunkSlots - 1
  /\ queue \in Seq(ChunkPair) /\ Len(queue) <= MaxPending
  /\ asr \in {"get", "busy", "failed"}
  /\ hand \in ChunkPair
  /\ done \subseteq Slot /\ gaps \subseteq Slot /\ lost \subseteq Slot
  /\ attended \subseteq Slot /\ backdated \subseteq Slot /\ bursts \in 0 .. MaxBurst
  /\ first \in [SessionNo -> Time]

Quiet == conn = "off" /\ chunkStart = 0 /\ buf = 0 /\ lastAudio = 0 /\ pending = 0

CoverageInit ==
  /\ now = ChunkSlots + 1 /\ service = "down" /\ latest = 0
  /\ started = [s \in SessionNo |-> 0]
  /\ lastEnd = [s \in SessionNo |-> 0]
  /\ Quiet
  /\ queue = <<>> /\ asr = "get" /\ hand = NoChunk
  /\ done = {} /\ gaps = {} /\ lost = {} /\ attended = {} /\ backdated = {} /\ bursts = 0
  /\ first = [s \in SessionNo |-> 0]

-------------------------------------------------------------------------------
(* record_gap: the slots from one time to another, in a transaction of its *)
(* own; an interval without length is no gap.                              *)
Recorded(from, to) == from .. to - 1

(* start() and recover_and_start_session: the gap from the last audio the  *)
(* latest session has completed, if any, to the start of the new one.      *)
RestartGap == IF latest = 0 THEN {}
              ELSE IF lastEnd[latest] = 0 THEN {}
              ELSE lastEnd[latest] .. now - 1

StartService ==
  /\ service = "down"
  /\ latest < SessionLimit
  /\ gaps' = gaps \cup RestartGap
  /\ latest' = latest + 1
  /\ started' = [started EXCEPT ![latest + 1] = now]
  /\ service' = "up"
  /\ UNCHANGED <<now, lastEnd, stream, worker, done, first, history>>

(* A slot passes without a byte: there is no connection, it has not given  *)
(* any yet, or it stalls.  Stalls of less than the wait of a select never  *)
(* reach the test of the read time-out, and add up (capture.py:373); the   *)
(* time-out itself is one of the ends of a connection, Disconnect, which   *)
(* may come at any time here.                                              *)
Miss ==
  /\ now <= MaxTime
  /\ now' = now + 1
  /\ attended' = IF chunkStart = 0 THEN attended ELSE attended \cup {now}
  /\ UNCHANGED <<service, latest, stream, worker, tables, lost, backdated, bursts>>

Connect ==
  /\ service = "up" /\ conn = "off"
  /\ conn' = "on"
  /\ UNCHANGED <<now, service, latest, chunkStart, buf, lastAudio, pending, worker, tables, history>>

(* _enqueue_captured_chunk of the chunks cut: a queue that stays full      *)
(* drops the chunk, whose span is then a gap.                              *)
Full == Len(queue) >= MaxPending

HandOver(chunks, gap) ==
  /\ queue' = IF Full THEN queue ELSE queue \o chunks
  /\ gaps' = gaps \cup gap \cup
             (IF Full THEN UNION {Recorded(chunks[i][1], chunks[i][2]) : i \in DOMAIN chunks} ELSE {})
  /\ UNCHANGED <<asr, hand, started, lastEnd, done, first>>

(* Mutant: a chunk ends where its samples end, be it in the future.        *)
Unclamped(from, length, t) == <<from, from + length>>

(* _emit_buffer: the timestamps of a chunk are counted in samples from     *)
(* those of the chunk before, but it never ends after the time t at which  *)
(* it is cut: the burst that a relay sends first is moved back.            *)
Emitted(from, length, t) ==
  IF from + length > t THEN <<t - length, t>> ELSE <<from, from + length>>

MovedBack(chunk, from) == chunk[1] .. from - 1

(* A slot's worth of audio is read at time t.  The first bytes of a        *)
(* connection end the outage now, and are dated by their own length before *)
(* now, so that they lie in the gap; a buffer that is full is cut.         *)
Read(t) ==
  /\ service = "up" /\ conn = "on"
  /\ LET from   == IF chunkStart = 0 THEN t - 1 ELSE chunkStart
         outage == IF pending = 0 THEN {} ELSE Recorded(pending, t)
         chunk  == Emitted(from, ChunkSlots, t)
         cut    == buf + 1 = ChunkSlots
     IN /\ HandOver(IF cut THEN <<chunk>> ELSE <<>>, outage)
        /\ chunkStart' = IF cut THEN chunk[2] ELSE from
        /\ buf' = IF cut THEN 0 ELSE buf + 1
        /\ lastAudio' = IF cut THEN chunk[2] ELSE lastAudio
        /\ backdated' = backdated \cup (IF cut THEN MovedBack(chunk, from) ELSE {})
             \cup (IF chunkStart = 0 THEN {from} \cap (outage \cup 1 .. now - 1) ELSE {})
  /\ pending' = 0
  /\ UNCHANGED <<service, latest, conn, lost>>

(* The audio of the slot on the air is read as the slot ends.              *)
Hear ==
  /\ now <= MaxTime
  /\ Read(now + 1)
  /\ attended' = attended \cup {now}
  /\ now' = now + 1
  /\ UNCHANGED bursts

(* More of it is read while no time passes: what a relay has buffered, or  *)
(* what has come late.                                                     *)
Burst ==
  /\ bursts < MaxBurst
  /\ Read(now)
  /\ bursts' = bursts + 1
  /\ UNCHANGED <<now, attended>>

(* The end of a connection: a tail of at least MinFlush is cut, a shorter  *)
(* one is thrown away.                                                     *)
FlushTail ==
  LET chunk == Emitted(chunkStart, buf, now)
      cut == chunkStart # 0 /\ buf >= MinFlush
  IN /\ HandOver(IF cut THEN <<chunk>> ELSE <<>>, {})
     /\ lastAudio' = IF cut THEN chunk[2] ELSE lastAudio
     /\ backdated' = backdated \cup (IF cut THEN MovedBack(chunk, chunkStart) ELSE {})
     /\ chunkStart' = 0
     /\ buf' = 0
     /\ conn' = "off"

(* Mutant: the gap starts when the connection ends.                        *)
AnchorNow == IF pending # 0 THEN pending ELSE now

(* pending_gap_start: the end of the last chunk cut, and not the end of    *)
(* what was heard, so that a tail thrown away lies in the gap.             *)
GapAnchor ==
  IF pending # 0 THEN pending ELSE IF lastAudio' # 0 THEN lastAudio' ELSE now

(* The stream ends, times out, or never gave a byte.                       *)
Disconnect ==
  /\ service = "up" /\ conn = "on"
  /\ FlushTail
  /\ pending' = GapAnchor
  /\ UNCHANGED <<now, service, latest, lost, attended, bursts>>

-------------------------------------------------------------------------------
(* _asr_worker_loop.                                                       *)
TakeChunk ==
  /\ asr = "get" /\ queue # <<>>
  /\ hand' = Head(queue)
  /\ queue' = Tail(queue)
  /\ asr' = "busy"
  /\ UNCHANGED <<now, service, latest, stream, tables, history>>

(* Both calls of the store that complete a sequence number also move the   *)
(* last_audio_end_utc of the session.                                      *)
Completed ==
  /\ lastEnd' = [lastEnd EXCEPT ![latest] = hand[2]]
  /\ first' = [first EXCEPT ![latest] = IF @ = 0 THEN hand[1] ELSE @]
  /\ asr' = "get" /\ hand' = NoChunk
  /\ UNCHANGED <<now, service, latest, stream, queue, started, gaps, history>>

Transcribed ==
  /\ asr = "busy"
  /\ Completed
  /\ done' = done \cup Span(hand)

(* The backend raises: first the gap is recorded, in a transaction of its  *)
(* own, then the sequence number is completed.                             *)
TranscriptionFails ==
  /\ asr = "busy"
  /\ gaps' = gaps \cup Recorded(hand[1], hand[2])
  /\ asr' = "failed"
  /\ UNCHANGED <<now, service, latest, stream, queue, hand, started, lastEnd, done, first, history>>

FailureReported ==
  /\ asr = "failed"
  /\ Completed
  /\ UNCHANGED done

(* persist_segment raises before its first commit: the fault is shown, the *)
(* chunk is neither stored nor reported as a gap.                          *)
PersistLost ==
  /\ PersistFails
  /\ asr = "busy"
  /\ asr' = "get" /\ hand' = NoChunk
  /\ lost' = lost \cup Span(hand)
  /\ UNCHANGED <<now, service, latest, stream, queue, tables, attended, backdated, bursts>>

-------------------------------------------------------------------------------
(* stop(): the capture thread flushes its tail, the queue is drained, and  *)
(* the process ends.                                                       *)
Stop ==
  /\ service = "up"
  /\ service' = "stopping"
  /\ FlushTail
  /\ UNCHANGED <<now, latest, pending, lost, attended, bursts>>

Forget ==
  /\ service' = "down"
  /\ conn' = "off" /\ chunkStart' = 0 /\ buf' = 0 /\ lastAudio' = 0 /\ pending' = 0
  /\ queue' = <<>> /\ asr' = "get" /\ hand' = NoChunk
  /\ UNCHANGED <<now, latest, tables, history>>

Stopped == service = "stopping" /\ asr = "get" /\ queue = <<>> /\ Forget

(* A kill, a power cut, or a stop() whose joins time out.                  *)
Crash == service # "down" /\ Forget

CoverageNext == \/ StartService \/ Miss \/ Connect \/ Hear \/ Burst \/ Disconnect
        \/ TakeChunk \/ Transcribed \/ TranscriptionFails \/ FailureReported \/ PersistLost
        \/ Stop \/ Stopped \/ Crash

CoverageSpec == CoverageInit /\ [][CoverageNext]_coverageVars

-------------------------------------------------------------------------------
(* What the tables say of the audio.                                       *)

(* The slots in the hands of the process: in the buffer, in the queue, or  *)
(* with the ASR thread.                                                    *)
Held == (IF asr = "busy" THEN Span(hand) ELSE {})
          \cup (UNION {Span(queue[i]) : i \in DOMAIN queue})
          \cup (IF chunkStart = 0 THEN {} ELSE chunkStart .. chunkStart + buf - 1)

(* A slot is accounted for when it was transcribed, lies in a recorded     *)
(* gap, is in the hands of the process, or will lie in the gap the process *)
(* records when it hears again, or its successor when it starts.           *)
Accounted(t) ==
  \/ t \in done \cup gaps \cup Held
  \/ service = "up" /\ pending # 0 /\ t >= pending
  \/ service # "up" /\ lastEnd[latest] # 0 /\ t >= lastEnd[latest]

(* How far the timestamps of a connection lag behind the air after stalls: *)
(* a chunk's time is counted in samples from that of the first.            *)
Lag == IF chunkStart = 0 THEN {} ELSE chunkStart + buf .. now - 1

SessionEnd(s) == IF s < latest THEN started[s + 1] ELSE now

(* What a session hears before it completes its first chunk is not         *)
(* covered: if it ends before that, last_audio_end_utc is unset and the    *)
(* next session records no gap (storage.py:296).                           *)
(*                                                                         *)
(* From the first chunk a session completes to the start of the next       *)
(* session, every slot is accounted for, whatever was disconnected, thrown *)
(* away, dropped, failed or killed in between; all that can be missing is  *)
(* the span of a chunk whose persist_segment failed, and, until the        *)
(* connection ends, what it lags behind.                                   *)
(*                                                                         *)
(* What was transcribed is not reported as lost as well, and was on the    *)
(* air while a connection gave audio, except where a chunk was dated back: *)
(* over the length of the first read after an outage, and after a burst    *)
(* over the gap, or the chunk, before it (capture.py:253-262, 409-416).    *)
(* No transcript and no gap is dated into the future (capture.py:255).     *)
EverySlotAccountedFor ==
  /\ CoverageTypeOK
  /\ \A s \in 1 .. latest : first[s] # 0 =>
       \A t \in (first[s] .. SessionEnd(s) - 1) \ (lost \cup Lag) : Accounted(t)
  /\ done \cap gaps \subseteq backdated
  /\ done \subseteq attended \cup backdated
  /\ \A t \in done \cup gaps : t < now
===============================================================================
