------------------------- MODULE ScannerCoverageProofs -------------------------
(***************************************************************************)
(* Proofs about ScannerCoverage: for any chunk length, flush limit, queue  *)
(* and bursts, and any number of slots and sessions, the tables account    *)
(* for every slot, and overlap only where a chunk was dated back.          *)
(***************************************************************************)
EXTENDS ScannerCoverage, TLAPS

Up == service # "down"
Busy == asr # "get"

(* Where the completed chunks of all sessions end.                         *)
DoneEnd == IF latest = 0 THEN 1
           ELSE IF lastEnd[latest] # 0 THEN lastEnd[latest] ELSE started[latest]

(* The slots between two times were dated back over.                       *)
Backed(from, to) == \A t \in Nat : from <= t /\ t < to => t \in backdated

(* A chunk ends no earlier than what comes before it, and starts no        *)
(* earlier, except where it was dated back.                                *)
Follows(c, to) == to <= c[2] /\ Backed(c[1], to)

WasCut(c) == 1 <= c[1] /\ c[1] < c[2] /\ c[2] <= lastAudio /\ Follows(c, DoneEnd)

(* The control of the two threads and the process.                         *)
Shape ==
  /\ service # "up" => chunkStart = 0
  /\ service = "down" => queue = <<>> /\ asr = "get" /\ pending = 0 /\ lastAudio = 0
  /\ service # "down" => latest >= 1
  /\ chunkStart = 0 => buf = 0
  /\ chunkStart # 0 => pending = 0 /\ conn = "on"
  /\ service = "up" /\ chunkStart = 0 /\ pending = 0 => lastAudio = 0

(* The times of the sessions.                                              *)
Sessions ==
  /\ \A s \in 1 .. latest : /\ 1 <= started[s] /\ started[s] <= now
                            /\ first[s] # 0 <=> lastEnd[s] # 0
                            /\ lastEnd[s] # 0 => started[s] <= lastEnd[s] /\ lastEnd[s] <= now
  /\ \A s \in SessionNo : s > latest => first[s] = 0 /\ lastEnd[s] = 0

(* The audio in the process is in the order of its ends: what was          *)
(* completed, the chunk in hand, the queue, the end of the last chunk cut, *)
(* and the buffer or the outage, up to the slot on the air.                *)
HandInLine == Busy => WasCut(hand)

QueueInLine ==
  /\ \A i \in DOMAIN queue : WasCut(queue[i]) /\ (Busy => Follows(queue[i], hand[2]))
  /\ \A i, j \in DOMAIN queue : i < j => Follows(queue[j], queue[i][2])

StreamInLine ==
  /\ lastAudio # 0 => DoneEnd <= lastAudio /\ lastAudio <= now
  /\ chunkStart # 0 => /\ chunkStart <= now
                       /\ lastAudio <= chunkStart + buf /\ DoneEnd <= chunkStart + buf
                       /\ Backed(chunkStart, lastAudio) /\ Backed(chunkStart, DoneEnd)
  /\ pending # 0 => DoneEnd <= pending /\ lastAudio <= pending /\ pending <= now

InLine == HandInLine /\ QueueInLine /\ StreamInLine

(* What was done, is in hand or waits lies in no gap, and the gaps end     *)
(* before the buffer, except where a chunk was dated back.                 *)
Apart(intervals, back) ==
  /\ \A t \in done : t \in intervals => t \in back
  /\ asr = "busy" => \A t \in Span(hand) : t \in intervals => t \in back
  /\ \A i \in DOMAIN queue : \A t \in Span(queue[i]) : t \in intervals => t \in back

Clear ==
  /\ \A t \in done : t < DoneEnd
  /\ \A t \in gaps : t < now /\ (chunkStart # 0 => t < chunkStart \/ t \in backdated)
  /\ Apart(gaps, backdated)

(* What was done, is in the process, or will be cut, is the audio of a     *)
(* connection, except where a chunk was dated back.                        *)
Known == attended \cup backdated

AllAttended ==
  /\ \A t \in done : t \in Known
  /\ asr = "busy" => \A t \in Span(hand) : t \in Known
  /\ \A i \in DOMAIN queue : \A t \in Span(queue[i]) : t \in Known
  /\ chunkStart # 0 => \A t \in Nat : chunkStart <= t /\ t < now => t \in Known

(* Nothing is left out: from the start of a chunk in hand or in the queue, *)
(* and of the first one completed, to the end of the last chunk cut, every *)
(* slot is kept by the tables, was lost, or is in the first of the chunks  *)
(* from that one on that ends after it (0 is the place of the chunk in     *)
(* hand); before the buffer there is a gap, if a chunk was cut before it.  *)
Kept == done \cup gaps \cup lost

CoveredFrom(k, t) ==
  \/ t \in Kept
  \/ asr = "busy" /\ t \in Span(hand)
  \/ \E i \in DOMAIN queue :
       /\ t \in Span(queue[i])
       /\ k = 0 /\ Busy => hand[2] <= t
       /\ \A j \in DOMAIN queue : k <= j /\ j < i => queue[j][2] <= t

Whole(k, from) == \A t \in Nat : from <= t /\ t < lastAudio => CoveredFrom(k, t)

ChunksComplete ==
  /\ Busy => Whole(0, hand[1])
  /\ \A i \in DOMAIN queue : Whole(i, queue[i][1])
  /\ Up /\ first[latest] # 0 => lastAudio # 0 /\ Whole(0, first[latest])

GapsComplete ==
  /\ chunkStart # 0 /\ lastAudio # 0 =>
       \A t \in Nat : lastAudio <= t /\ t < chunkStart => t \in gaps
  /\ service = "up" /\ pending # 0 /\ lastAudio # 0 => pending = lastAudio

TablesComplete ==
  /\ latest # 0 /\ first[latest] # 0 =>
       \A t \in first[latest] .. lastEnd[latest] - 1 : t \in Kept
  /\ \A s \in 1 .. latest - 1 : first[s] # 0 =>
       \A t \in first[s] .. started[s + 1] - 1 : t \in Kept

Complete == ChunksComplete /\ GapsComplete /\ TablesComplete

CoverageInv ==
  CoverageTypeOK /\ Shape /\ Sessions /\ InLine /\ Clear /\ AllAttended /\ Complete

USE CoverageConstants DEF CoverageConstants

-------------------------------------------------------------------------------
(* Times and chunks are numbers.                                           *)
LEMMA Numbers ==
  ASSUME CoverageTypeOK
  PROVE  /\ now \in Nat /\ now >= ChunkSlots + 1 /\ now >= 2 /\ now <= MaxTime + 1
         /\ latest \in Nat /\ latest <= SessionLimit
         /\ chunkStart \in Nat /\ buf \in Nat /\ buf < ChunkSlots
         /\ lastAudio \in Nat /\ pending \in Nat
         /\ hand[1] \in Nat /\ hand[2] \in Nat
         /\ Len(queue) \in Nat /\ DOMAIN queue = 1 .. Len(queue) /\ Len(queue) <= MaxPending
         /\ \A i \in DOMAIN queue : queue[i][1] \in Nat /\ queue[i][2] \in Nat
         /\ \A s \in SessionNo : started[s] \in Nat /\ lastEnd[s] \in Nat /\ first[s] \in Nat
         /\ done \subseteq Nat /\ gaps \subseteq Nat
BY DEF CoverageTypeOK, Time, ChunkPair, Slot

LEMMA SpanIsSlots ==
  ASSUME NEW c \in ChunkPair, c[1] >= 1
  PROVE  Span(c) \subseteq Slot /\ Recorded(c[1], c[2]) = Span(c)
BY DEF Span, ChunkPair, Time, Slot, Recorded

LEMMA DoneEndIsTime ==
  ASSUME CoverageTypeOK, Sessions
  PROVE  DoneEnd \in Nat /\ 1 <= DoneEnd /\ DoneEnd <= now
BY Numbers, SMTT(30) DEF CoverageTypeOK, Sessions, DoneEnd, SessionNo

(* Handing a chunk over appends it to the queue or turns it into a gap.    *)
HandsOver(c, gap) ==
  \/ Len(queue) < MaxPending /\ queue' = Append(queue, c) /\ gaps' = gaps \cup gap
  \/ queue' = queue /\ gaps' = gaps \cup gap \cup Span(c)

LEMMA HandOverOne ==
  ASSUME CoverageTypeOK, NEW c \in ChunkPair, NEW gap, HandOver(<<c>>, gap)
  PROVE  HandsOver(c, gap)
<1> DEFINE chunks == <<c>>
<1>1. DOMAIN chunks = {1} /\ chunks[1] = c
  OBVIOUS
<1>2. UNION {Recorded(chunks[i][1], chunks[i][2]) : i \in DOMAIN chunks} = Span(c)
  BY <1>1 DEF Recorded, Span
<1>3. queue \o chunks = Append(queue, c)
  BY Numbers DEF CoverageTypeOK
<1>4. queue' = (IF Full THEN queue ELSE queue \o chunks)
  BY DEF HandOver
<1>5. gaps' = gaps \cup gap \cup
        (IF Full THEN UNION {Recorded(chunks[i][1], chunks[i][2]) : i \in DOMAIN chunks} ELSE {})
  BY DEF HandOver
<1> HIDE DEF chunks
<1>6. CASE Full
  <2>1. queue' = queue
    BY <1>4, <1>6
  <2>2. gaps' = gaps \cup gap \cup Span(c)
    BY <1>2, <1>5, <1>6
  <2> QED
    BY <2>1, <2>2 DEF HandsOver
<1>7. CASE ~Full
  <2>1. queue' = Append(queue, c)
    BY <1>3, <1>4, <1>7
  <2>2. gaps' = gaps \cup gap
    BY <1>5, <1>7
  <2>3. Len(queue) < MaxPending
    BY <1>7, Numbers DEF Full
  <2> QED
    BY <2>1, <2>2, <2>3 DEF HandsOver
<1> QED
  BY <1>6, <1>7

LEMMA HandOverNone ==
  ASSUME CoverageTypeOK, NEW gap, HandOver(<<>>, gap)
  PROVE  queue' = queue /\ gaps' = gaps \cup gap
<1>1. queue \o <<>> = queue
  BY DEF CoverageTypeOK
<1>2. UNION {Recorded(<<>>[i][1], <<>>[i][2]) : i \in DOMAIN <<>>} = {}
  OBVIOUS
<1> QED
  BY <1>1, <1>2 DEF HandOver

(* What the capture thread does with its buffer: it reads a slot and cuts  *)
(* a chunk, or not; it flushes the tail, or throws it away.  A chunk that  *)
(* is cut comes last in the line, and ends by now.                         *)
From == IF chunkStart = 0 THEN now' - 1 ELSE chunkStart
OutageGap == IF pending = 0 THEN {} ELSE Recorded(pending, now')
ReadChunk == Emitted(From, ChunkSlots, now')
TailChunk == Emitted(chunkStart, buf, now)

Cuts(c, from, gap) ==
  /\ c \in ChunkPair /\ HandsOver(c, gap) /\ lastAudio' = c[2]
  /\ 1 <= c[1] /\ c[1] <= from /\ c[1] < c[2] /\ from <= c[2] /\ c[2] <= now'
  /\ lastAudio <= c[2] /\ DoneEnd <= c[2]
  /\ \A t \in Nat : c[1] <= t /\ (t < from \/ t < lastAudio \/ t < DoneEnd) => t \in backdated'

Reads ==
  /\ service = "up" /\ conn = "on" /\ pending' = 0
  /\ now' \in Nat /\ now <= now' /\ now' <= MaxTime + 1
  /\ From \in Nat /\ 1 <= From /\ From <= now
  /\ lastAudio <= From + buf + 1 /\ DoneEnd <= From + buf + 1
  /\ UNCHANGED <<service, latest, conn, lost, asr, hand, started, lastEnd, done, first>>
  /\ backdated \subseteq backdated' /\ attended \subseteq attended'
  /\ \A t \in Nat : now <= t /\ t < now' => t \in attended'
  /\ chunkStart = 0 =>
       \A t \in Nat : From <= t /\ (t < now \/ t \in OutageGap) => t \in backdated'

ReadsAndCuts ==
  /\ Cuts(ReadChunk, From, OutageGap)
  /\ chunkStart' = ReadChunk[2] /\ buf' = 0

ReadsOn ==
  /\ queue' = queue /\ gaps' = gaps \cup OutageGap
  /\ chunkStart' = From /\ buf' = buf + 1 /\ buf + 1 < ChunkSlots /\ lastAudio' = lastAudio

Flushes == chunkStart # 0 /\ Cuts(TailChunk, chunkStart, {})

ThrowsAway == queue' = queue /\ gaps' = gaps /\ lastAudio' = lastAudio

(* What is known of the start of the buffer when a slot is read.           *)
LEMMA ReadMoves ==
  ASSUME CoverageTypeOK, Shape, Sessions, InLine, Hear \/ Burst
  PROVE  Reads
<1>0. /\ now \in Nat /\ now >= 2 /\ now <= MaxTime + 1 /\ chunkStart \in Nat /\ buf \in Nat
      /\ lastAudio \in Nat /\ lastAudio <= now /\ pending \in Nat
      /\ DoneEnd \in Nat /\ DoneEnd <= now
  BY Numbers, DoneEndIsTime DEF InLine, StreamInLine
<1>1. /\ now' \in {now, now + 1} /\ now' <= MaxTime + 1 /\ Read(now')
      /\ \A t \in Nat : now <= t /\ t < now' => t \in attended'
      /\ attended \subseteq attended'
  <2>1. CASE Hear
    <3>1. now' = now + 1 /\ attended' = attended \cup {now} /\ Read(now') /\ now <= MaxTime
      BY <2>1 DEF Hear
    <3> QED
      BY <1>0, <3>1
  <2>2. CASE Burst
    <3>1. now' = now /\ attended' = attended /\ Read(now')
      BY <2>2 DEF Burst
    <3> QED
      BY <1>0, <3>1
  <2> QED
    BY <2>1, <2>2
<1>2. From \in Nat /\ 1 <= From /\ From <= now /\ (chunkStart = 0 => now' = From + 1)
  <2>1. chunkStart # 0 => chunkStart <= now
    BY DEF InLine, StreamInLine
  <2>2. PICK n \in Nat : now' = n /\ n \in {now, now + 1}
    BY <1>0, <1>1
  <2> QED
    BY <1>0, <2>1, <2>2 DEF From
<1>3. lastAudio <= From + buf + 1 /\ DoneEnd <= From + buf + 1
  <2>1. CASE chunkStart = 0
    BY <1>0, <1>1, <1>2, <2>1
  <2>2. CASE chunkStart # 0
    BY <1>0, <2>2 DEF From, InLine, StreamInLine
  <2> QED
    BY <2>1, <2>2
<1>4. /\ service = "up" /\ conn = "on" /\ pending' = 0
      /\ UNCHANGED <<service, latest, conn, lost, asr, hand, started, lastEnd, done, first>>
  BY <1>1 DEF Read, HandOver
<1>5. /\ backdated \subseteq backdated'
      /\ chunkStart = 0 => {From} \cap (OutageGap \cup 1 .. now - 1) \subseteq backdated'
  BY <1>1 DEF Read, From, OutageGap
<1>6. chunkStart = 0 =>
        \A t \in Nat : From <= t /\ (t < now \/ t \in OutageGap) => t \in backdated'
  <2> SUFFICES ASSUME chunkStart = 0, NEW t \in Nat, From <= t, t < now \/ t \in OutageGap
               PROVE  t \in backdated'
    OBVIOUS
  <2>1. t \in OutageGap => t < now'
    <3>1. PICK n \in Nat : now' = n
      BY <1>0, <1>1
    <3> QED
      BY <1>0, <3>1 DEF OutageGap, Recorded
  <2>2. t = From
    BY <1>0, <1>1, <1>2, <2>1
  <2>3. t \in OutageGap \/ t \in 1 .. now - 1
    BY <1>0, <1>2, <2>2
  <2> QED
    BY <1>5, <2>2, <2>3
<1> QED
  BY <1>0, <1>1, <1>2, <1>3, <1>4, <1>5, <1>6 DEF Reads

(* A chunk is at most moved back, and never ends before its start was due. *)
LEMMA EmittedEnds ==
  ASSUME NEW from \in Nat, NEW length \in Nat, NEW t \in Nat,
         length <= ChunkSlots, length > 0, from >= 1, from <= t, t > ChunkSlots, t <= MaxTime + 1
  PROVE  LET c == Emitted(from, length, t)
         IN /\ c \in ChunkPair /\ 1 <= c[1] /\ c[1] <= from /\ c[1] < c[2]
            /\ from <= c[2] /\ c[2] <= t
            /\ c[2] = from + length \/ c[2] = t
<1>1. CASE from + length > t
  <2>1. Emitted(from, length, t) = <<t - length, t>>
    BY <1>1 DEF Emitted
  <2>2. t - length \in Time /\ t \in Time
    BY DEF Time
  <2> QED
    BY <1>1, <2>1, <2>2 DEF ChunkPair
<1>2. CASE ~(from + length > t)
  <2>1. Emitted(from, length, t) = <<from, from + length>>
    BY <1>2 DEF Emitted
  <2>2. from \in Time /\ from + length \in Time
    BY <1>2 DEF Time
  <2> QED
    BY <1>2, <2>1, <2>2 DEF ChunkPair
<1> QED
  BY <1>1, <1>2

LEMMA ReadCuts ==
  ASSUME CoverageTypeOK, Shape, Sessions, InLine, Hear \/ Burst
  PROVE  ReadsAndCuts \/ ReadsOn
<1> DEFINE cut == buf + 1 = ChunkSlots
<1>0. /\ now \in Nat /\ now > ChunkSlots /\ chunkStart \in Nat /\ buf \in Nat
      /\ lastAudio \in Nat /\ lastAudio <= now /\ DoneEnd \in Nat /\ DoneEnd <= now
  BY Numbers, DoneEndIsTime, SMTT(30) DEF InLine, StreamInLine
<1>1. Reads
  BY ReadMoves
<1>2. Read(now')
  BY DEF Hear, Burst
<1>3. /\ HandOver(IF cut THEN <<ReadChunk>> ELSE <<>>, OutageGap)
      /\ chunkStart' = IF cut THEN ReadChunk[2] ELSE From
      /\ buf' = IF cut THEN 0 ELSE buf + 1
      /\ lastAudio' = IF cut THEN ReadChunk[2] ELSE lastAudio
      /\ cut => MovedBack(ReadChunk, From) \subseteq backdated'
  BY <1>2 DEF Read, OutageGap, ReadChunk, From
<1>4. CASE cut
  <2>1. /\ ReadChunk \in ChunkPair /\ 1 <= ReadChunk[1] /\ ReadChunk[1] <= From
        /\ ReadChunk[1] < ReadChunk[2] /\ From <= ReadChunk[2] /\ ReadChunk[2] <= now'
        /\ ReadChunk[2] = From + ChunkSlots \/ ReadChunk[2] = now'
        /\ ReadChunk[1] \in Nat /\ ReadChunk[2] \in Nat
    <3>1. From \in Nat /\ From >= 1 /\ From <= now' /\ now' > ChunkSlots /\ now' \in Nat
          /\ now' <= MaxTime + 1
      BY <1>0, <1>1 DEF Reads
    <3>2. ChunkSlots \in Nat /\ ChunkSlots > 0
      OBVIOUS
    <3> QED
      BY <3>1, <3>2, EmittedEnds DEF ReadChunk, ChunkPair, Time
  <2>2. HandsOver(ReadChunk, OutageGap)
    BY <1>3, <1>4, <2>1, HandOverOne
  <2>3. lastAudio <= ReadChunk[2] /\ DoneEnd <= ReadChunk[2]
    <3>1. ReadChunk[2] = now' => lastAudio <= ReadChunk[2] /\ DoneEnd <= ReadChunk[2]
      BY <1>0, <1>1 DEF Reads
    <3>2. ReadChunk[2] = From + ChunkSlots => lastAudio <= ReadChunk[2] /\ DoneEnd <= ReadChunk[2]
      BY <1>0, <1>1, <1>4 DEF Reads
    <3> QED
      BY <2>1, <3>1, <3>2
  <2>4. ASSUME NEW t \in Nat, ReadChunk[1] <= t, t < From \/ t < lastAudio \/ t < DoneEnd
        PROVE  t \in backdated'
    <3>1. CASE t < From
      <4>1. t \in MovedBack(ReadChunk, From)
        BY <1>1, <2>1, <2>4, <3>1 DEF MovedBack, Reads
      <4> QED
        BY <1>3, <1>4, <4>1
    <3>2. CASE From <= t /\ chunkStart # 0
      BY <1>1, <2>4, <3>2 DEF Reads, From, InLine, StreamInLine, Backed
    <3>3. CASE From <= t /\ chunkStart = 0
      <4>1. t < now
        BY <1>0, <1>1, <2>4, <3>3 DEF Reads
      <4> QED
        BY <1>1, <3>3, <4>1 DEF Reads
    <3> QED
      BY <1>1, <3>1, <3>2, <3>3 DEF Reads
  <2> QED
    BY <1>3, <1>4, <2>1, <2>2, <2>3, <2>4 DEF ReadsAndCuts, Cuts
<1>5. CASE ~cut
  <2>1. queue' = queue /\ gaps' = gaps \cup OutageGap
    BY <1>3, <1>5, HandOverNone
  <2>2. buf + 1 < ChunkSlots
    BY <1>0, <1>5, Numbers
  <2> QED
    BY <1>3, <1>5, <2>1, <2>2 DEF ReadsOn
<1> QED
  BY <1>4, <1>5

LEMMA FlushTailFlushes ==
  ASSUME CoverageTypeOK, Shape, Sessions, InLine, FlushTail, now' = now
  PROVE  /\ chunkStart' = 0 /\ buf' = 0 /\ conn' = "off"
         /\ UNCHANGED <<asr, hand, started, lastEnd, done, first>>
         /\ backdated \subseteq backdated'
         /\ Flushes \/ ThrowsAway
<1> DEFINE cut == chunkStart # 0 /\ buf >= MinFlush
<1>0. /\ now \in Nat /\ now > ChunkSlots /\ now <= MaxTime + 1 /\ chunkStart \in Nat /\ buf \in Nat
      /\ lastAudio \in Nat /\ lastAudio <= now /\ DoneEnd \in Nat /\ DoneEnd <= now
      /\ buf < ChunkSlots
  BY Numbers, DoneEndIsTime, SMTT(30) DEF InLine, StreamInLine
<1>1. /\ HandOver(IF cut THEN <<TailChunk>> ELSE <<>>, {})
      /\ lastAudio' = IF cut THEN TailChunk[2] ELSE lastAudio
      /\ cut => MovedBack(TailChunk, chunkStart) \subseteq backdated'
      /\ chunkStart' = 0 /\ buf' = 0 /\ conn' = "off" /\ backdated \subseteq backdated'
  BY DEF FlushTail, TailChunk
<1>2. UNCHANGED <<asr, hand, started, lastEnd, done, first>>
  BY DEF FlushTail, HandOver
<1>3. CASE cut
  <2>1. /\ TailChunk \in ChunkPair /\ 1 <= TailChunk[1] /\ TailChunk[1] <= chunkStart
        /\ TailChunk[1] < TailChunk[2] /\ chunkStart <= TailChunk[2] /\ TailChunk[2] <= now
        /\ TailChunk[2] = chunkStart + buf \/ TailChunk[2] = now
        /\ TailChunk[1] \in Nat /\ TailChunk[2] \in Nat
    <3>1. chunkStart >= 1 /\ chunkStart <= now /\ buf > 0 /\ buf <= ChunkSlots
      BY <1>0, <1>3 DEF InLine, StreamInLine
    <3> QED
      BY <1>0, <3>1, EmittedEnds DEF TailChunk, ChunkPair, Time
  <2>2. HandsOver(TailChunk, {})
    BY <1>1, <1>3, <2>1, HandOverOne
  <2>3. lastAudio <= TailChunk[2] /\ DoneEnd <= TailChunk[2]
    <3>1. lastAudio <= chunkStart + buf /\ DoneEnd <= chunkStart + buf
      BY <1>3 DEF InLine, StreamInLine
    <3> QED
      BY <1>0, <2>1, <3>1
  <2>4. ASSUME NEW t \in Nat, TailChunk[1] <= t, t < chunkStart \/ t < lastAudio \/ t < DoneEnd
        PROVE  t \in backdated'
    <3>1. CASE t < chunkStart
      <4>1. t \in MovedBack(TailChunk, chunkStart)
        BY <1>0, <2>1, <2>4, <3>1 DEF MovedBack
      <4> QED
        BY <1>1, <1>3, <4>1
    <3>2. CASE chunkStart <= t
      <4>1. Backed(chunkStart, lastAudio) /\ Backed(chunkStart, DoneEnd)
        BY <1>3 DEF InLine, StreamInLine
      <4>2. t < lastAudio \/ t < DoneEnd
        BY <1>0, <2>4, <3>2
      <4>3. t \in backdated
        BY <3>2, <4>1, <4>2 DEF Backed
      <4> QED
        BY <1>1, <4>3
    <3> QED
      BY <1>0, <3>1, <3>2
  <2> QED
    BY <1>1, <1>2, <1>3, <2>1, <2>2, <2>3, <2>4 DEF Flushes, Cuts
<1>4. CASE ~cut
  <2>1. HandOver(<<>>, {})
    BY <1>1, <1>4
  <2>2. queue' = queue /\ gaps' = gaps \cup {}
    BY <2>1, HandOverNone
  <2> QED
    BY <1>1, <1>2, <1>4, <2>2 DEF ThrowsAway
<1> QED
  BY <1>3, <1>4

-------------------------------------------------------------------------------
(* Types, the control, and the times of the sessions.                      *)

LEMMA OutageGapIsSlots ==
  ASSUME CoverageTypeOK, Reads
  PROVE  OutageGap \subseteq Slot
<1>1. PICK n \in Nat : now' = n /\ n <= MaxTime + 1
  BY DEF Reads
<1>2. pending \in Nat
  BY Numbers
<1> QED
  BY <1>1, <1>2 DEF OutageGap, Recorded, Slot

LEMMA RestartGapIsSlots ==
  ASSUME CoverageTypeOK
  PROVE  RestartGap \subseteq Slot
<1>1. now \in Nat /\ now <= MaxTime + 1 /\ latest \in Nat
  BY Numbers
<1>2. latest # 0 => lastEnd[latest] \in Nat
  BY Numbers, SMTT(30) DEF CoverageTypeOK, SessionNo
<1> QED
  BY <1>1, <1>2 DEF RestartGap, Slot

LEMMA HandsOverTypes ==
  ASSUME CoverageTypeOK, NEW c \in ChunkPair, c[1] >= 1, NEW gap \in SUBSET Slot, HandsOver(c, gap)
  PROVE  queue' \in Seq(ChunkPair) /\ Len(queue') <= MaxPending /\ gaps' \subseteq Slot
<1>1. queue \in Seq(ChunkPair) /\ Len(queue) <= MaxPending /\ gaps \subseteq Slot
  BY DEF CoverageTypeOK
<1>2. Span(c) \subseteq Slot
  BY SpanIsSlots
<1>3. CASE Len(queue) < MaxPending /\ queue' = Append(queue, c) /\ gaps' = gaps \cup gap
  <2>1. queue' \in Seq(ChunkPair) /\ Len(queue') = Len(queue) + 1
    BY <1>1, <1>3
  <2> QED
    BY <1>1, <1>3, <2>1
<1>4. CASE queue' = queue /\ gaps' = gaps \cup gap \cup Span(c)
  BY <1>1, <1>2, <1>4
<1> QED
  BY <1>3, <1>4 DEF HandsOver

(* The history of the dates stays within the slots.                        *)
LEMMA BackdatedIsSlots ==
  ASSUME CoverageTypeOK, Shape, Sessions, InLine, Hear \/ Burst \/ (FlushTail /\ now' = now)
  PROVE  backdated' \subseteq Slot
<1>0. /\ backdated \subseteq Slot /\ now \in Nat /\ now >= 2 /\ now <= MaxTime + 1
      /\ now > ChunkSlots /\ chunkStart \in Nat /\ buf \in Nat /\ buf < ChunkSlots
      /\ chunkStart # 0 => chunkStart <= now
  BY Numbers DEF CoverageTypeOK, InLine, StreamInLine
<1>1. ASSUME NEW from \in Nat, NEW length \in Nat, NEW t \in Nat,
             length <= ChunkSlots, t > ChunkSlots, from <= t, t <= MaxTime + 1
      PROVE  MovedBack(Emitted(from, length, t), from) \subseteq Slot
  <2>1. CASE from + length > t
    <3>1. Emitted(from, length, t)[1] = t - length
      BY <2>1 DEF Emitted
    <3> QED
      BY <1>1, <3>1 DEF MovedBack, Slot
  <2>2. CASE ~(from + length > t)
    <3>1. Emitted(from, length, t)[1] = from
      BY <2>2 DEF Emitted
    <3> QED
      BY <1>1, <3>1 DEF MovedBack, Slot
  <2> QED
    BY <2>1, <2>2
<1>2. CASE Hear \/ Burst
  <2>1. Reads
    BY <1>2, ReadMoves
  <2>2. PICK n \in Nat : now' = n /\ now <= n /\ n <= MaxTime + 1
    BY <2>1 DEF Reads
  <2>3. From \in Nat /\ From <= n /\ From >= 1 /\ From <= MaxTime + 1
    BY <1>0, <2>1, <2>2 DEF Reads
  <2>4. Emitted(From, ChunkSlots, now') = ReadChunk /\ MovedBack(ReadChunk, From) \subseteq Slot
    BY <1>0, <1>1, <2>2, <2>3 DEF ReadChunk
  <2>5. {From} \cap (OutageGap \cup 1 .. now - 1) \subseteq Slot
    BY <1>0, <2>1, OutageGapIsSlots DEF Slot
  <2>6. backdated' \subseteq backdated \cup MovedBack(ReadChunk, From)
                       \cup ({From} \cap (OutageGap \cup 1 .. now - 1))
    <3>1. Read(now')
      BY <1>2 DEF Hear, Burst
    <3> QED
      BY <3>1 DEF Read, ReadChunk, From, OutageGap
  <2> QED
    BY <1>0, <2>4, <2>5, <2>6
<1>3. CASE FlushTail
  <2>1. chunkStart # 0 => MovedBack(TailChunk, chunkStart) \subseteq Slot
    BY <1>0, <1>1 DEF TailChunk
  <2>2. /\ backdated' \subseteq backdated \cup MovedBack(TailChunk, chunkStart)
        /\ chunkStart = 0 => backdated' = backdated
    BY <1>3 DEF FlushTail, TailChunk
  <2> QED
    BY <1>0, <2>1, <2>2
<1> QED
  BY <1>2, <1>3

LEMMA TypeStep ==
  CoverageTypeOK /\ Shape /\ Sessions /\ InLine /\ [CoverageNext]_coverageVars => CoverageTypeOK'
<1> SUFFICES ASSUME CoverageTypeOK, Shape, Sessions, InLine, [CoverageNext]_coverageVars
             PROVE  CoverageTypeOK'
  OBVIOUS
<1> USE DEF history, tables, worker, stream
<1>0. NoChunk \in ChunkPair
  BY DEF NoChunk, ChunkPair, Time
<1>1. CASE StartService
  <2>1. RestartGap \subseteq Slot
    BY RestartGapIsSlots
  <2>2. now \in Time /\ latest + 1 \in SessionNo
    BY <1>1 DEF StartService, CoverageTypeOK, Time, SessionNo
  <2> QED
    BY <1>1, <2>1, <2>2 DEF StartService, CoverageTypeOK, SessionNo
<1>2. CASE Miss
  <2>1. now' = now + 1 /\ now <= MaxTime /\ now \in Slot /\ attended' \subseteq attended \cup {now}
    BY <1>2, Numbers DEF Miss, Slot
  <2>2. now' \in ChunkSlots + 1 .. MaxTime + 1 /\ attended' \subseteq Slot
    BY <2>1 DEF CoverageTypeOK
  <2> QED
    BY <1>2, <2>2 DEF Miss, CoverageTypeOK
<1>3. CASE Connect
  BY <1>3 DEF Connect, CoverageTypeOK
<1>4. CASE Hear \/ Burst
  <2>1. OutageGap \in SUBSET Slot /\ Reads
    BY <1>4, OutageGapIsSlots, ReadMoves
  <2>2. /\ queue' \in Seq(ChunkPair) /\ Len(queue') <= MaxPending /\ gaps' \subseteq Slot
        /\ chunkStart' \in Time /\ buf' \in 0 .. ChunkSlots - 1 /\ lastAudio' \in Time
    <3>1. From \in Time
      BY <2>1, Numbers DEF Reads, Time
    <3>2. CASE ReadsAndCuts
      <4>1. ReadChunk \in ChunkPair /\ ReadChunk[1] >= 1 /\ HandsOver(ReadChunk, OutageGap)
        BY <3>2 DEF ReadsAndCuts, Cuts, ChunkPair, Time
      <4> QED
        BY <2>1, <3>2, <4>1, HandsOverTypes DEF ReadsAndCuts, Cuts, ChunkPair
    <3>3. CASE ReadsOn
      BY <2>1, <3>1, <3>3 DEF ReadsOn, CoverageTypeOK
    <3> QED
      BY <1>4, <3>2, <3>3, ReadCuts
  <2>3. /\ now' \in ChunkSlots + 1 .. MaxTime + 1 /\ attended' \subseteq Slot
        /\ bursts' \in 0 .. MaxBurst
    <3>1. CASE Hear
      <4>1. now' = now + 1 /\ now <= MaxTime /\ attended' = attended \cup {now} /\ bursts' = bursts
        BY <3>1 DEF Hear
      <4> QED
        BY <4>1 DEF CoverageTypeOK, Slot
    <3>2. CASE Burst
      BY <3>2 DEF Burst, CoverageTypeOK
    <3> QED
      BY <1>4, <3>1, <3>2
  <2>4. UNCHANGED <<service, latest, conn, lost, asr, hand, started, lastEnd, done, first>> /\ pending' = 0
    BY <2>1 DEF Reads
  <2>5. backdated' \subseteq Slot /\ 0 \in Time
    BY <1>4, BackdatedIsSlots DEF Time
  <2> QED
    BY <2>2, <2>3, <2>4, <2>5 DEF CoverageTypeOK
<1>5. CASE Disconnect \/ Stop
  <2>1. FlushTail /\ UNCHANGED <<now, latest, lost, attended, bursts>>
    BY <1>5 DEF Disconnect, Stop
  <2>2. /\ queue' \in Seq(ChunkPair) /\ Len(queue') <= MaxPending /\ gaps' \subseteq Slot
        /\ lastAudio' \in Time
    <3>1. CASE Flushes
      <4>1. TailChunk \in ChunkPair /\ TailChunk[1] >= 1 /\ HandsOver(TailChunk, {}) /\ {} \in SUBSET Slot
        BY <3>1 DEF Flushes, Cuts, ChunkPair, Time
      <4> QED
        BY <3>1, <4>1, HandsOverTypes DEF Flushes, Cuts, ChunkPair
    <3>2. CASE ThrowsAway
      BY <3>2 DEF ThrowsAway, CoverageTypeOK
    <3> QED
      BY <2>1, <3>1, <3>2, FlushTailFlushes
  <2>3. /\ chunkStart' = 0 /\ buf' = 0 /\ conn' = "off"
        /\ UNCHANGED <<asr, hand, started, lastEnd, done, first>>
    BY <2>1, FlushTailFlushes
  <2>4. pending' \in Time /\ service' \in {"up", "stopping"}
    <3>1. CASE Disconnect
      <4>1. now \in Time /\ pending \in Time
        BY Numbers DEF CoverageTypeOK, Time
      <4>2. pending' \in {pending, lastAudio', now} /\ service' = "up"
        BY <3>1 DEF Disconnect, GapAnchor
      <4> QED
        BY <2>2, <4>1, <4>2
    <3>2. CASE Stop
      BY <3>2 DEF Stop, CoverageTypeOK
    <3> QED
      BY <1>5, <3>1, <3>2
  <2>5. chunkStart' \in Time /\ buf' \in 0 .. ChunkSlots - 1 /\ backdated' \subseteq Slot
    BY <2>1, <2>3, BackdatedIsSlots DEF Time
  <2> QED
    BY <2>1, <2>2, <2>3, <2>4, <2>5 DEF CoverageTypeOK
<1>6. CASE TakeChunk
  <2>1. Head(queue) \in ChunkPair /\ Tail(queue) \in Seq(ChunkPair) /\ Len(Tail(queue)) <= MaxPending
    BY <1>6 DEF TakeChunk, CoverageTypeOK
  <2> QED
    BY <1>6, <2>1 DEF TakeChunk, CoverageTypeOK
<1>7. CASE Transcribed \/ FailureReported
  <2>1. hand \in ChunkPair /\ hand[1] \in Time /\ hand[2] \in Time
    BY DEF CoverageTypeOK, ChunkPair
  <2>2. lastEnd' \in [SessionNo -> Time] /\ first' \in [SessionNo -> Time]
    BY <1>7, <2>1 DEF Transcribed, FailureReported, Completed, CoverageTypeOK
  <2>3. CASE Transcribed
    <3>1. Busy
      BY <2>3 DEF Transcribed, Busy
    <3>2. Span(hand) \subseteq Slot
      BY <2>1, <3>1, SpanIsSlots, Numbers DEF InLine, HandInLine, WasCut
    <3> QED
      BY <1>0, <2>2, <2>3, <3>2 DEF Transcribed, Completed, CoverageTypeOK
  <2>4. CASE FailureReported
    BY <1>0, <2>2, <2>4 DEF FailureReported, Completed, CoverageTypeOK
  <2> QED
    BY <1>7, <2>3, <2>4
<1>8. CASE TranscriptionFails \/ PersistLost
  <2>1. Busy /\ hand \in ChunkPair
    BY <1>8 DEF TranscriptionFails, PersistLost, Busy, CoverageTypeOK
  <2>2. Span(hand) \subseteq Slot /\ Recorded(hand[1], hand[2]) \subseteq Slot
    BY <2>1, SpanIsSlots, Numbers DEF InLine, HandInLine, WasCut
  <2> QED
    BY <1>0, <1>8, <2>2 DEF TranscriptionFails, PersistLost, CoverageTypeOK
<1>9. CASE Stopped \/ Crash
  <2>1. <<>> \in Seq(ChunkPair) /\ Len(<<>>) = 0 /\ 0 \in Time /\ 0 \in 0 .. ChunkSlots - 1
    BY DEF Time
  <2>2. Forget
    BY <1>9 DEF Stopped, Crash
  <2> QED
    BY <1>0, <2>1, <2>2 DEF Forget, CoverageTypeOK
<1>10. CASE UNCHANGED coverageVars
  BY <1>10 DEF coverageVars, CoverageTypeOK
<1> QED
  BY <1>1, <1>2, <1>3, <1>4, <1>5, <1>6, <1>7, <1>8, <1>9, <1>10 DEF CoverageNext

LEMMA ShapeStep ==
  CoverageTypeOK /\ Shape /\ Sessions /\ InLine /\ [CoverageNext]_coverageVars => Shape'
<1> SUFFICES ASSUME CoverageTypeOK, Shape, Sessions, InLine, [CoverageNext]_coverageVars PROVE Shape'
  OBVIOUS
<1> USE DEF history, tables, worker, stream
<1>0. now \in Nat /\ now >= 1 /\ latest \in Nat /\ lastAudio \in Nat
  BY Numbers
<1>1. CASE StartService
  BY <1>0, <1>1 DEF StartService, Shape
<1>2. CASE Miss \/ Connect
  BY <1>2 DEF Miss, Connect, Shape
<1>3. CASE Hear \/ Burst
  <2>1. Reads
    BY <1>3, ReadMoves
  <2>2. chunkStart' # 0
    <3>1. CASE ReadsAndCuts
      BY <3>1 DEF ReadsAndCuts, Cuts, ChunkPair, Time
    <3>2. CASE ReadsOn
      BY <2>1, <3>2 DEF ReadsOn, Reads
    <3> QED
      BY <1>3, <3>1, <3>2, ReadCuts
  <2> QED
    BY <2>1, <2>2 DEF Reads, Shape
<1>4. CASE Disconnect \/ Stop
  <2>1. chunkStart' = 0 /\ buf' = 0 /\ latest' = latest
    BY <1>4, FlushTailFlushes DEF Disconnect, Stop
  <2>2. CASE Disconnect
    <3>1. pending' # 0
      BY <1>0, <2>2 DEF Disconnect, GapAnchor
    <3> QED
      BY <2>1, <2>2, <3>1 DEF Disconnect, Shape
  <2>3. CASE Stop
    BY <2>1, <2>3 DEF Stop, Shape
  <2> QED
    BY <1>4, <2>2, <2>3
<1>5. CASE TakeChunk
  BY <1>5 DEF TakeChunk, Shape
<1>6. CASE Transcribed \/ TranscriptionFails \/ FailureReported \/ PersistLost
  BY <1>6 DEF Transcribed, TranscriptionFails, FailureReported, PersistLost, Completed, Shape
<1>7. CASE Stopped \/ Crash
  BY <1>7 DEF Stopped, Crash, Forget, Shape
<1>8. CASE UNCHANGED coverageVars
  BY <1>8 DEF coverageVars, Shape
<1> QED
  BY <1>1, <1>2, <1>3, <1>4, <1>5, <1>6, <1>7, <1>8 DEF CoverageNext

(* A chunk in hand belongs to the session of the process.                  *)
LEMMA HandIsCurrent ==
  ASSUME CoverageTypeOK, Shape, Sessions, InLine, Busy
  PROVE  /\ latest \in SessionNo /\ hand[1] \in Nat /\ hand[2] \in Nat /\ lastAudio \in Nat
         /\ 1 <= hand[1] /\ hand[1] < hand[2] /\ hand[2] <= lastAudio /\ lastAudio <= now
         /\ DoneEnd <= hand[2] /\ started[latest] <= hand[2] /\ started[latest] <= DoneEnd
<1>1. /\ hand[1] \in Nat /\ hand[2] \in Nat /\ lastAudio \in Nat /\ now \in Nat
      /\ latest \in Nat /\ latest <= SessionLimit
  BY Numbers
<1>2. latest >= 1 /\ latest \in SessionNo
  BY <1>1 DEF Shape, Busy, Up, SessionNo
<1>3. /\ 1 <= hand[1] /\ hand[1] < hand[2] /\ hand[2] <= lastAudio /\ DoneEnd <= hand[2]
      /\ lastAudio <= now
  BY <1>1 DEF InLine, HandInLine, StreamInLine, WasCut, Follows
<1>4. started[latest] \in Nat /\ started[latest] <= DoneEnd
  BY <1>1, <1>2, Numbers DEF Sessions, DoneEnd
<1> QED
  BY <1>1, <1>2, <1>3, <1>4, DoneEndIsTime

(* What the completion of a chunk does to the times of its session.        *)
LEMMA CompletedMoves ==
  ASSUME CoverageTypeOK, Shape, Sessions, InLine, Busy, Completed
  PROVE  /\ lastEnd' = [lastEnd EXCEPT ![latest] = hand[2]]
         /\ lastEnd'[latest] = hand[2] /\ first'[latest] # 0 /\ first'[latest] \in Nat
         /\ \A s \in SessionNo : s # latest => lastEnd'[s] = lastEnd[s] /\ first'[s] = first[s]
         /\ first'[latest] = IF first[latest] = 0 THEN hand[1] ELSE first[latest]
         /\ DoneEnd' = hand[2]
<1>1. /\ lastEnd \in [SessionNo -> Time] /\ first \in [SessionNo -> Time]
      /\ latest' = latest /\ latest \in SessionNo /\ latest # 0
      /\ lastEnd' = [lastEnd EXCEPT ![latest] = hand[2]]
      /\ first' = [first EXCEPT ![latest] = IF @ = 0 THEN hand[1] ELSE @]
  BY HandIsCurrent DEF Completed, CoverageTypeOK, SessionNo
<1>2. /\ lastEnd'[latest] = hand[2]
      /\ first'[latest] = IF first[latest] = 0 THEN hand[1] ELSE first[latest]
      /\ \A s \in SessionNo : s # latest => lastEnd'[s] = lastEnd[s] /\ first'[s] = first[s]
  BY <1>1
<1>3. first'[latest] # 0 /\ first'[latest] \in Nat /\ hand[2] # 0
  BY <1>1, <1>2, HandIsCurrent DEF Time
<1> QED
  BY <1>1, <1>2, <1>3 DEF DoneEnd

LEMMA SessionsStep ==
  CoverageTypeOK /\ Shape /\ Sessions /\ InLine /\ [CoverageNext]_coverageVars => Sessions'
<1> SUFFICES ASSUME CoverageTypeOK, Shape, Sessions, InLine, [CoverageNext]_coverageVars
             PROVE  Sessions'
  OBVIOUS
<1> USE DEF history, tables, worker, stream
<1>0. now \in Nat /\ now >= 1 /\ latest \in Nat
  BY Numbers
<1>1. CASE StartService
  <2>1. /\ latest + 1 \in SessionNo /\ latest' = latest + 1 /\ now' = now
        /\ UNCHANGED <<lastEnd, first>>
        /\ started' = [started EXCEPT ![latest + 1] = now]
    BY <1>0, <1>1 DEF StartService, SessionNo
  <2>2. started'[latest + 1] = now /\ \A s \in 1 .. latest : started'[s] = started[s]
    BY <1>0, <2>1 DEF CoverageTypeOK, SessionNo
  <2>3. first[latest + 1] = 0 /\ lastEnd[latest + 1] = 0
    BY <1>0, <2>1 DEF Sessions
  <2>4. \A s \in 1 .. latest' : s \in 1 .. latest \/ s = latest + 1
    BY <1>0, <2>1
  <2>5. PICK f : started' = f
    OBVIOUS
  <2>6. ASSUME NEW s \in 1 .. latest + 1
        PROVE  /\ 1 <= f[s] /\ f[s] <= now
               /\ first[s] # 0 <=> lastEnd[s] # 0
               /\ lastEnd[s] # 0 => f[s] <= lastEnd[s] /\ lastEnd[s] <= now
    <3>1. CASE s = latest + 1
      BY <1>0, <2>2, <2>3, <2>5, <3>1
    <3>2. CASE s \in 1 .. latest
      <4>1. f[s] = started[s]
        BY <2>2, <2>5, <3>2
      <4> QED
        BY <3>2, <4>1 DEF Sessions
    <3> QED
      BY <1>0, <3>1, <3>2
  <2>7. \A s \in SessionNo : s > latest + 1 => first[s] = 0 /\ lastEnd[s] = 0
    BY <1>0 DEF Sessions, SessionNo
  <2> QED
    BY <2>1, <2>5, <2>6, <2>7 DEF Sessions
<1>2. CASE Transcribed \/ FailureReported
  <2>1. Busy /\ Completed
    BY <1>2 DEF Transcribed, FailureReported, Busy
  <2>2. UNCHANGED <<now, latest, started>>
    BY <2>1 DEF Completed
  <2>3. \A s \in 1 .. latest : s \in SessionNo
    BY Numbers DEF SessionNo
  <2>4. /\ started[latest] <= lastEnd'[latest] /\ lastEnd'[latest] <= now
        /\ first'[latest] # 0 /\ lastEnd'[latest] # 0
    <3>1. lastEnd'[latest] = hand[2] /\ first'[latest] # 0
      BY <2>1, CompletedMoves
    <3>2. /\ hand[1] \in Nat /\ hand[2] \in Nat /\ hand[1] < hand[2] /\ 1 <= hand[1]
          /\ started[latest] <= hand[2] /\ hand[2] <= lastAudio /\ lastAudio <= now /\ lastAudio \in Nat
      BY <2>1, HandIsCurrent
    <3> QED
      BY <1>0, <3>1, <3>2
  <2>5. \A s \in SessionNo : s # latest => lastEnd'[s] = lastEnd[s] /\ first'[s] = first[s]
    BY <2>1, CompletedMoves
  <2> QED
    BY <1>0, <2>2, <2>3, <2>4, <2>5 DEF Sessions
<1>3. CASE UNCHANGED <<latest, started, lastEnd, first>> /\ now' \in Nat /\ now <= now'
  <2>1. \A s \in 1 .. latest : started[s] \in Nat /\ lastEnd[s] \in Nat
    <3>1. 1 .. latest \subseteq SessionNo
      BY Numbers DEF SessionNo
    <3> QED
      BY <3>1, Numbers
  <2>2. PICK n \in Nat : now' = n /\ now <= n
    BY <1>3
  <2> QED
    BY <1>0, <1>3, <2>1, <2>2 DEF Sessions
<1>4. CASE Hear \/ Burst
  BY <1>3, <1>4, ReadMoves DEF Reads
<1>5. CASE Disconnect \/ Stop
  BY <1>0, <1>3, <1>5 DEF Disconnect, Stop, FlushTail, HandOver
<1>6. CASE Miss \/ Connect \/ TakeChunk \/ TranscriptionFails \/ PersistLost
  BY <1>0, <1>3, <1>6 DEF Miss, Connect, TakeChunk, TranscriptionFails, PersistLost
<1>7. CASE Stopped \/ Crash
  BY <1>0, <1>3, <1>7 DEF Stopped, Crash, Forget
<1>8. CASE UNCHANGED coverageVars
  BY <1>0, <1>3, <1>8 DEF coverageVars
<1> QED
  BY <1>1, <1>2, <1>4, <1>5, <1>6, <1>7, <1>8 DEF CoverageNext

-------------------------------------------------------------------------------
(* The order of the audio in the process.                                  *)

LEMMA Bounds ==
  ASSUME CoverageTypeOK, Shape, Sessions, InLine
  PROVE  /\ DoneEnd \in Nat /\ 1 <= DoneEnd /\ DoneEnd <= now
         /\ now \in Nat /\ now >= 2 /\ lastAudio \in Nat /\ lastAudio <= now
BY Numbers, DoneEndIsTime DEF InLine, StreamInLine

(* The order of the line after a step that does not move DoneEnd.          *)
FollowsNext(c, to) == to <= c[2] /\ \A t \in Nat : c[1] <= t /\ t < to => t \in backdated'
WasCutNext(c) == 1 <= c[1] /\ c[1] < c[2] /\ c[2] <= lastAudio' /\ FollowsNext(c, DoneEnd)

LEMMA StillInLine ==
  ASSUME CoverageTypeOK, lastAudio' \in Nat, lastAudio <= lastAudio', backdated \subseteq backdated'
  PROVE  \A c \in ChunkPair : /\ WasCut(c) => WasCutNext(c)
                              /\ \A to : Follows(c, to) => FollowsNext(c, to)
<1> TAKE c \in ChunkPair
<1>1. c[2] <= lastAudio => c[2] <= lastAudio'
  <2>1. PICK n \in Nat : lastAudio' = n
    OBVIOUS
  <2>2. lastAudio \in Nat /\ c[2] \in Nat
    BY Numbers DEF ChunkPair, Time
  <2> QED
    BY <2>1, <2>2
<1>2. \A to : Follows(c, to) => FollowsNext(c, to)
  BY DEF Follows, FollowsNext, Backed
<1> QED
  BY <1>1, <1>2 DEF WasCut, WasCutNext

(* A chunk that is cut goes to the end of the line.                        *)
LEMMA CutGoesLast ==
  ASSUME CoverageTypeOK, Sessions, HandInLine, QueueInLine, NEW c, NEW from, NEW gap,
         Cuts(c, from, gap), backdated \subseteq backdated',
         UNCHANGED <<asr, hand, latest, started, lastEnd>>
  PROVE  HandInLine' /\ QueueInLine'
<1>0. /\ c \in ChunkPair /\ c[1] \in Nat /\ c[2] \in Nat /\ lastAudio \in Nat
      /\ lastAudio <= c[2] /\ lastAudio' = c[2] /\ DoneEnd \in Nat
  BY Numbers, DoneEndIsTime DEF Cuts, ChunkPair, Time
<1>1. DoneEnd' = DoneEnd /\ Busy' = Busy /\ hand' = hand
  BY DEF DoneEnd, Busy
<1>2. \A d \in ChunkPair : /\ WasCut(d) => WasCutNext(d)
                           /\ \A to : Follows(d, to) => FollowsNext(d, to)
  BY <1>0, StillInLine DEF Cuts
<1>3. /\ hand \in ChunkPair /\ hand[2] \in Nat
      /\ \A i \in DOMAIN queue : queue[i] \in ChunkPair /\ queue[i][2] \in Nat
  BY Numbers DEF CoverageTypeOK
<1>4. WasCutNext(c) /\ \A to \in Nat : to <= lastAudio => FollowsNext(c, to)
  <2>1. \A to \in Nat : to <= lastAudio \/ to = DoneEnd => FollowsNext(c, to)
    BY <1>0 DEF Cuts, FollowsNext
  <2> QED
    BY <1>0, <2>1 DEF Cuts, WasCutNext
<1>5. HandInLine'
  BY <1>1, <1>2, <1>3 DEF HandInLine, WasCutNext, FollowsNext, WasCut, Follows, Backed
<1>6. ASSUME NEW i \in DOMAIN queue
      PROVE  /\ WasCutNext(queue[i]) /\ (Busy => FollowsNext(queue[i], hand[2]))
             /\ \A j \in DOMAIN queue : i < j => FollowsNext(queue[j], queue[i][2])
  BY <1>2, <1>3 DEF QueueInLine
<1>7. Busy => FollowsNext(c, hand[2])
  BY <1>3, <1>4 DEF HandInLine, WasCut
<1>8. \A i \in DOMAIN queue : FollowsNext(c, queue[i][2])
  BY <1>3, <1>4 DEF QueueInLine, WasCut
<1>9. CASE queue' = queue
  BY <1>1, <1>5, <1>6, <1>9 DEF QueueInLine, WasCutNext, FollowsNext, WasCut, Follows, Backed
<1>10. CASE queue' = Append(queue, c)
  <2>1. /\ DOMAIN queue' = 1 .. Len(queue) + 1 /\ queue'[Len(queue) + 1] = c
        /\ \A i \in DOMAIN queue : queue'[i] = queue[i] /\ i \in 1 .. Len(queue)
    BY <1>10, Numbers DEF CoverageTypeOK
  <2>2. \A i \in DOMAIN queue' : i \in DOMAIN queue \/ i = Len(queue) + 1
    BY <2>1, Numbers, SMTT(30)
  <2>3. ASSUME NEW i \in DOMAIN queue'
        PROVE  WasCutNext(queue'[i]) /\ (Busy => FollowsNext(queue'[i], hand[2]))
    BY <1>4, <1>6, <1>7, <2>1, <2>2
  <2>4. ASSUME NEW i \in DOMAIN queue', NEW j \in DOMAIN queue', i < j
        PROVE  FollowsNext(queue'[j], queue'[i][2])
    <3>1. i \in DOMAIN queue
      BY <2>1, <2>2, <2>4, Numbers, SMTT(30)
    <3>2. CASE j \in DOMAIN queue
      BY <1>6, <2>1, <2>4, <3>1, <3>2
    <3>3. CASE j = Len(queue) + 1
      BY <1>8, <2>1, <3>1, <3>3
    <3> QED
      BY <2>2, <3>2, <3>3
  <2> HIDE <1>10
  <2>5. \A i \in DOMAIN queue' : WasCut(queue[i])' /\ (Busy' => Follows(queue[i], hand[2])')
    BY <1>1, <2>3 DEF WasCutNext, FollowsNext, WasCut, Follows, Backed
  <2>6. \A i, j \in DOMAIN queue' : i < j => Follows(queue[j], queue[i][2])'
    BY <2>4 DEF FollowsNext, Follows, Backed
  <2> QED
    BY <1>5, <2>5, <2>6 DEF QueueInLine
<1> QED
  BY <1>5, <1>9, <1>10 DEF Cuts, HandsOver

(* Nothing moves in the line.                                              *)
LEMMA LineStays ==
  ASSUME HandInLine, QueueInLine, UNCHANGED <<queue, lastAudio, latest, started, lastEnd>>,
         backdated \subseteq backdated', Busy' => Busy /\ hand' = hand
  PROVE  HandInLine' /\ QueueInLine' /\ DoneEnd' = DoneEnd
<1>1. DoneEnd' = DoneEnd
  BY DEF DoneEnd
<1>2. HandInLine'
  BY <1>1 DEF HandInLine, WasCut, Follows, Backed
<1>3. QueueInLine'
  <2>1. \A i \in DOMAIN queue' : WasCut(queue[i])' /\ (Busy' => Follows(queue[i], hand[2])')
    BY <1>1 DEF QueueInLine, WasCut, Follows, Backed
  <2>2. \A i, j \in DOMAIN queue' : i < j => Follows(queue[j], queue[i][2])'
    BY DEF QueueInLine, Follows, Backed
  <2> QED
    BY <2>1, <2>2 DEF QueueInLine
<1> QED
  BY <1>1, <1>2, <1>3

LEMMA InLineStep ==
  CoverageTypeOK /\ Shape /\ Sessions /\ InLine /\ [CoverageNext]_coverageVars => InLine'
<1> SUFFICES ASSUME CoverageTypeOK, Shape, Sessions, InLine, [CoverageNext]_coverageVars
             PROVE  InLine'
  OBVIOUS
<1> USE DEF history, tables, worker, stream
<1>0. /\ now \in Nat /\ now >= 1 /\ lastAudio \in Nat /\ lastAudio <= now
      /\ DoneEnd \in Nat /\ 1 <= DoneEnd /\ DoneEnd <= now
      /\ chunkStart \in Nat /\ buf \in Nat /\ pending \in Nat
      /\ HandInLine /\ QueueInLine /\ StreamInLine
  BY Numbers, Bounds DEF InLine
<1>1. CASE StartService
  <2>1. /\ chunkStart' = 0 /\ pending' = 0 /\ lastAudio' = 0 /\ queue' = <<>> /\ asr' = "get"
    BY <1>1 DEF StartService, Shape
  <2> QED
    BY <2>1 DEF InLine, HandInLine, QueueInLine, StreamInLine, Busy
<1>2. CASE /\ UNCHANGED <<queue, latest, started, lastEnd>> /\ (Busy' => Busy /\ hand' = hand)
           /\ UNCHANGED <<chunkStart, buf, lastAudio, pending, backdated>>
           /\ now' \in {now, now + 1}
  <2>1. HandInLine' /\ QueueInLine' /\ DoneEnd' = DoneEnd
    BY <1>0, <1>2, LineStays
  <2>2. PICK n \in Nat : now' = n /\ now <= n
    BY <1>0, <1>2
  <2>3. StreamInLine'
    BY <1>0, <1>2, <2>1, <2>2 DEF StreamInLine, Backed
  <2> QED
    BY <2>1, <2>3 DEF InLine
<1>3. CASE Miss \/ Connect \/ TranscriptionFails \/ PersistLost
  BY <1>2, <1>3 DEF Miss, Connect, TranscriptionFails, PersistLost, Busy
<1>4. CASE Hear \/ Burst
  <2>1. Reads
    BY <1>4, ReadMoves
  <2>2. PICK n \in Nat : now' = n /\ now <= n
    BY <2>1 DEF Reads
  <2>3. DoneEnd' = DoneEnd /\ Busy' = Busy
    BY <2>1 DEF Reads, DoneEnd, Busy
  <2>4. CASE ReadsAndCuts
    <3>1. HandInLine' /\ QueueInLine'
      BY <1>0, <2>1, <2>4, CutGoesLast DEF ReadsAndCuts, Reads
    <3>2. PICK e \in Nat : /\ lastAudio' = e /\ chunkStart' = e /\ DoneEnd <= e /\ e <= n
      <4>1. ReadChunk[2] \in Nat
        BY <2>4 DEF ReadsAndCuts, Cuts, ChunkPair, Time
      <4> QED
        BY <2>2, <2>4, <4>1 DEF ReadsAndCuts, Cuts
    <3>3. buf' = 0 /\ pending' = 0
      BY <2>1, <2>4 DEF ReadsAndCuts, Reads
    <3>4. StreamInLine'
      BY <1>0, <2>2, <2>3, <3>2, <3>3 DEF StreamInLine, Backed
    <3> QED
      BY <3>1, <3>4 DEF InLine
  <2>5. CASE ReadsOn
    <3>1. HandInLine' /\ QueueInLine'
      BY <1>0, <2>1, <2>3, <2>5, LineStays DEF ReadsOn, Reads
    <3>2. /\ From \in Nat /\ From <= now /\ chunkStart' = From /\ buf' = buf + 1
          /\ lastAudio' = lastAudio /\ pending' = 0
          /\ lastAudio <= From + buf + 1 /\ DoneEnd <= From + buf + 1
      BY <2>1, <2>5 DEF ReadsOn, Reads
    <3>3. ASSUME NEW t \in Nat, From <= t, t < lastAudio \/ t < DoneEnd
          PROVE  t \in backdated'
      <4>1. CASE chunkStart = 0
        <5>1. t < now
          BY <1>0, <3>3
        <5> QED
          BY <2>1, <3>3, <4>1, <5>1 DEF Reads
      <4>2. CASE chunkStart # 0
        <5>1. t \in backdated
          BY <1>0, <3>3, <4>2 DEF From, StreamInLine, Backed
        <5> QED
          BY <2>1, <5>1 DEF Reads
      <4> QED
        BY <4>1, <4>2
    <3>4. StreamInLine'
      BY <1>0, <2>2, <2>3, <3>2, <3>3 DEF StreamInLine, Backed
    <3> QED
      BY <3>1, <3>4 DEF InLine
  <2> QED
    BY <1>4, <2>4, <2>5, ReadCuts
<1>5. CASE Disconnect \/ Stop
  <2>1. /\ FlushTail /\ chunkStart' = 0 /\ UNCHANGED <<now, asr, hand, latest, started, lastEnd>>
        /\ Flushes \/ ThrowsAway
        /\ backdated \subseteq backdated'
    BY <1>5, FlushTailFlushes DEF Disconnect, Stop
  <2>2. DoneEnd' = DoneEnd /\ Busy' = Busy
    BY <2>1 DEF DoneEnd, Busy
  <2>3. /\ HandInLine' /\ QueueInLine'
        /\ lastAudio' \in Nat /\ (lastAudio' # 0 => DoneEnd <= lastAudio') /\ lastAudio' <= now
    <3>1. CASE Flushes
      <4>1. HandInLine' /\ QueueInLine'
        BY <1>0, <2>1, <3>1, CutGoesLast DEF Flushes
      <4>2. TailChunk[2] \in Nat
        BY <3>1 DEF Flushes, Cuts, ChunkPair, Time
      <4> QED
        BY <2>1, <3>1, <4>1, <4>2 DEF Flushes, Cuts
    <3>2. CASE ThrowsAway
      <4>1. HandInLine' /\ QueueInLine'
        BY <1>0, <2>1, <2>2, <3>2, LineStays DEF ThrowsAway
      <4> QED
        BY <1>0, <3>2, <4>1 DEF ThrowsAway, StreamInLine
    <3> QED
      BY <2>1, <3>1, <3>2
  <2>4. PICK e \in Nat : lastAudio' = e
    BY <2>3
  <2>5. pending' # 0 => pending' \in Nat /\ DoneEnd <= pending' /\ lastAudio' <= pending' /\ pending' <= now
    <3>1. CASE pending # 0
      <4>1. pending' = pending /\ chunkStart = 0
        BY <1>5, <3>1 DEF Disconnect, Stop, GapAnchor, Shape
      <4>2. lastAudio' = lastAudio
        BY <2>1, <4>1 DEF Flushes, ThrowsAway
      <4> QED
        BY <1>0, <3>1, <4>1, <4>2 DEF StreamInLine
    <3>2. CASE pending = 0
      <4>1. pending' \in {0, lastAudio', now} /\ (pending' = lastAudio' \/ pending' = 0 \/ lastAudio' = 0)
        BY <1>5, <3>2 DEF Disconnect, Stop, GapAnchor
      <4> QED
        BY <1>0, <2>3, <2>4, <4>1
    <3> QED
      BY <3>1, <3>2
  <2>6. StreamInLine'
    BY <1>0, <2>1, <2>2, <2>3, <2>4, <2>5 DEF StreamInLine
  <2> QED
    BY <2>3, <2>6 DEF InLine
<1>6. CASE TakeChunk
  <2>1. /\ queue # <<>> /\ hand' = Head(queue) /\ queue' = Tail(queue) /\ Busy'
        /\ UNCHANGED <<now, chunkStart, buf, lastAudio, pending, latest, started, lastEnd, backdated>>
    BY <1>6 DEF TakeChunk, Busy
  <2>2. /\ hand' = queue[1] /\ 1 \in DOMAIN queue
        /\ \A i \in DOMAIN queue' : i + 1 \in DOMAIN queue /\ queue'[i] = queue[i + 1] /\ 1 < i + 1
    BY <2>1, Numbers DEF CoverageTypeOK
  <2>3. DoneEnd' = DoneEnd
    BY <2>1 DEF DoneEnd
  <2>4. HandInLine'
    BY <1>0, <2>1, <2>2, <2>3 DEF HandInLine, QueueInLine, WasCut, Follows, Backed
  <2>5. QueueInLine'
    <3>1. \A i \in DOMAIN queue' : WasCut(queue[i])' /\ Follows(queue[i], hand[2])'
      <4> SUFFICES ASSUME NEW i \in DOMAIN queue'
                   PROVE  WasCut(queue[i])' /\ Follows(queue[i], hand[2])'
        OBVIOUS
      <4>1. queue'[i] = queue[i + 1] /\ i + 1 \in DOMAIN queue /\ 1 < i + 1
        BY <2>2
      <4>2. WasCut(queue[i + 1]) /\ Follows(queue[i + 1], queue[1][2])
        BY <1>0, <2>2, <4>1 DEF QueueInLine
      <4> QED
        BY <2>1, <2>2, <2>3, <4>1, <4>2 DEF WasCut, Follows, Backed
    <3>2. \A i, j \in DOMAIN queue' : i < j => Follows(queue[j], queue[i][2])'
      <4> SUFFICES ASSUME NEW i \in DOMAIN queue', NEW j \in DOMAIN queue', i < j
                   PROVE  Follows(queue[j], queue[i][2])'
        OBVIOUS
      <4>1. i + 1 < j + 1 /\ i + 1 \in DOMAIN queue /\ j + 1 \in DOMAIN queue
        <5>1. i \in Nat /\ j \in Nat
          BY <2>1, Numbers, SMTT(30) DEF CoverageTypeOK
        <5> QED
          BY <2>2, <5>1
      <4>2. Follows(queue[j + 1], queue[i + 1][2])
        BY <1>0, <4>1 DEF QueueInLine
      <4> QED
        BY <2>1, <2>2, <4>1, <4>2 DEF Follows, Backed
    <3> QED
      BY <3>1, <3>2 DEF QueueInLine
  <2>6. StreamInLine'
    BY <1>0, <2>1, <2>3 DEF StreamInLine, Backed
  <2> QED
    BY <2>4, <2>5, <2>6 DEF InLine
<1>7. CASE Transcribed \/ FailureReported
  <2>1. Busy /\ Completed /\ ~Busy'
    BY <1>7 DEF Transcribed, FailureReported, Busy, Completed
  <2>2. DoneEnd' = hand[2] /\ UNCHANGED <<now, queue, chunkStart, buf, lastAudio, pending, backdated>>
    BY <2>1, CompletedMoves DEF Completed
  <2>3. hand[2] <= lastAudio /\ hand[2] \in Nat /\ lastAudio # 0
    BY <2>1, HandIsCurrent
  <2>4. HandInLine'
    BY <2>1 DEF HandInLine
  <2>5. QueueInLine'
    <3>1. \A i \in DOMAIN queue' : WasCut(queue[i])'
      BY <1>0, <2>1, <2>2 DEF QueueInLine, WasCut, Follows, Backed
    <3>2. \A i, j \in DOMAIN queue' : i < j => Follows(queue[j], queue[i][2])'
      BY <1>0, <2>2 DEF QueueInLine, Follows, Backed
    <3> QED
      BY <2>1, <3>1, <3>2 DEF QueueInLine
  <2>6. StreamInLine'
    <3>1. chunkStart # 0 => hand[2] <= chunkStart + buf /\ Backed(chunkStart, hand[2])
      BY <1>0, <2>3 DEF StreamInLine, Backed
    <3>2. pending # 0 => hand[2] <= pending
      BY <1>0, <2>3 DEF StreamInLine
    <3> QED
      BY <1>0, <2>2, <2>3, <3>1, <3>2 DEF StreamInLine, Backed
  <2> QED
    BY <2>4, <2>5, <2>6 DEF InLine
<1>8. CASE Stopped \/ Crash
  <2>1. chunkStart' = 0 /\ pending' = 0 /\ lastAudio' = 0 /\ queue' = <<>> /\ asr' = "get"
    BY <1>8 DEF Stopped, Crash, Forget
  <2> QED
    BY <2>1 DEF InLine, HandInLine, QueueInLine, StreamInLine, Busy
<1>9. CASE UNCHANGED coverageVars
  BY <1>2, <1>9 DEF coverageVars, Busy
<1> QED
  BY <1>1, <1>3, <1>4, <1>5, <1>6, <1>7, <1>8, <1>9 DEF CoverageNext

-------------------------------------------------------------------------------
(* Transcripts and gaps are apart.                                         *)

(* Time that comes after what was cut is apart from all of it.             *)
LEMMA LaterIsApart ==
  ASSUME CoverageTypeOK, Shape, Sessions, InLine, Clear, NEW later \in SUBSET Nat,
         \A t \in later : (DoneEnd <= t /\ lastAudio <= t) \/ t \in backdated',
         backdated \subseteq backdated'
  PROVE  Apart(gaps \cup later, backdated')
<1>1. DoneEnd \in Nat /\ lastAudio \in Nat /\ done \subseteq Nat
  BY Bounds, Numbers
<1>2. ASSUME NEW t \in Nat, t < DoneEnd \/ t < lastAudio, t \in later
      PROVE  t \in backdated'
  BY <1>1, <1>2
<1>3. \A t \in done : t \in gaps \cup later => t \in backdated'
  BY <1>1, <1>2 DEF Clear, Apart
<1>4. ASSUME asr = "busy", NEW t \in Span(hand), t \in gaps \cup later
      PROVE  t \in backdated'
  <2>1. t \in Nat /\ t < lastAudio
    BY <1>1, <1>4, HandIsCurrent DEF Busy, Span
  <2> QED
    BY <1>2, <1>4, <2>1 DEF Clear, Apart
<1>5. ASSUME NEW i \in DOMAIN queue, NEW t \in Span(queue[i]), t \in gaps \cup later
      PROVE  t \in backdated'
  <2>1. queue[i][1] \in Nat /\ queue[i][2] \in Nat /\ queue[i][2] <= lastAudio
    BY Numbers DEF InLine, QueueInLine, WasCut
  <2>2. t \in Nat /\ t < lastAudio
    BY <1>1, <2>1 DEF Span
  <2> QED
    BY <1>2, <1>5, <2>2 DEF Clear, Apart
<1> QED
  BY <1>3, <1>4, <1>5 DEF Apart

LEMMA AppendedIsLast ==
  ASSUME NEW q \in Seq(ChunkPair), NEW c \in ChunkPair
  PROVE  /\ Append(q, c)[Len(q) + 1] = c
         /\ \A i \in DOMAIN Append(q, c) :
              i = Len(q) + 1 \/ (i \in DOMAIN q /\ Append(q, c)[i] = q[i])
<1>1. Len(q) \in Nat /\ DOMAIN q = 1 .. Len(q)
  OBVIOUS
<1>2. /\ DOMAIN Append(q, c) = 1 .. Len(q) + 1 /\ Append(q, c)[Len(q) + 1] = c
      /\ \A i \in 1 .. Len(q) : Append(q, c)[i] = q[i]
  BY <1>1
<1>3. \A i \in 1 .. Len(q) + 1 : i = Len(q) + 1 \/ i \in 1 .. Len(q)
  BY <1>1
<1> QED
  BY <1>1, <1>2, <1>3

(* A chunk that is cut is apart from the gaps, or is one.                  *)
LEMMA CutIsApart ==
  ASSUME CoverageTypeOK, Shape, Sessions, InLine, Clear, backdated \subseteq backdated',
         NEW c, NEW from \in Nat, NEW gap \in SUBSET Nat, Cuts(c, from, gap),
         \A t \in gap : (DoneEnd <= t /\ lastAudio <= t) \/ t \in backdated',
         \A t \in gaps \cup gap : t < from \/ t \in backdated',
         UNCHANGED <<asr, hand, done>>
  PROVE  Apart(gaps, backdated)' /\ \A t \in gaps' : t \in gaps \cup gap \/ (c[1] <= t /\ t < c[2])
<1>0. c \in ChunkPair /\ c[1] \in Nat /\ c[2] \in Nat /\ Span(c) \subseteq Nat
  BY DEF Cuts, ChunkPair, Time, Span
<1>1. \A t \in Span(c) : c[1] <= t /\ t < c[2] /\ t \in Nat
  BY <1>0 DEF Span
<1>2. gaps \subseteq Nat
  BY Numbers
<1>3. CASE Len(queue) < MaxPending /\ queue' = Append(queue, c) /\ gaps' = gaps \cup gap
  <2>1. Apart(gaps \cup gap, backdated')
    BY LaterIsApart
  <2>2. \A t \in Span(c) : t \in gaps \cup gap => t \in backdated'
    BY <1>0, <1>1, <1>2 DEF Cuts
  <2>3. /\ queue'[Len(queue) + 1] = c
        /\ \A i \in DOMAIN queue' : i = Len(queue) + 1 \/ (i \in DOMAIN queue /\ queue'[i] = queue[i])
    BY <1>0, <1>3, AppendedIsLast DEF CoverageTypeOK
  <2>4. \A i \in DOMAIN queue' : \A t \in Span(queue'[i]) : t \in gaps' => t \in backdated'
    BY <1>3, <2>1, <2>2, <2>3 DEF Apart
  <2>5. \A t \in done' : t \in gaps' => t \in backdated'
    BY <1>3, <2>1 DEF Apart
  <2>6. asr' = "busy" => \A t \in Span(hand') : t \in gaps' => t \in backdated'
    BY <1>3, <2>1 DEF Apart
  <2>7. Apart(gaps, backdated)'
    BY <2>4, <2>5, <2>6, Zenon DEF Apart
  <2> QED
    BY <1>3, <2>7
<1>4. CASE queue' = queue /\ gaps' = gaps \cup gap \cup Span(c)
  <2>1. Apart(gaps \cup (gap \cup Span(c)), backdated')
    <3>1. gap \cup Span(c) \in SUBSET Nat
      BY <1>0
    <3>2. ASSUME NEW t \in Span(c), ~(DoneEnd <= t /\ lastAudio <= t)
          PROVE  t \in backdated'
      <4>1. t \in Nat /\ c[1] <= t /\ (t < DoneEnd \/ t < lastAudio)
        BY <1>0, <1>1, <3>2, Bounds
      <4> QED
        BY <4>1 DEF Cuts
    <3>3. \A t \in gap \cup Span(c) : (DoneEnd <= t /\ lastAudio <= t) \/ t \in backdated'
      BY <3>2
    <3> QED
      BY <3>1, <3>3, LaterIsApart
  <2>2. gaps' = gaps \cup (gap \cup Span(c))
    BY <1>4
  <2>3. \A i \in DOMAIN queue' : \A t \in Span(queue'[i]) : t \in gaps' => t \in backdated'
    BY <1>4, <2>1, <2>2 DEF Apart
  <2>4. \A t \in done' : t \in gaps' => t \in backdated'
    BY <2>1, <2>2 DEF Apart
  <2>5. asr' = "busy" => \A t \in Span(hand') : t \in gaps' => t \in backdated'
    BY <2>1, <2>2 DEF Apart
  <2>6. Apart(gaps, backdated)'
    BY <2>3, <2>4, <2>5, Zenon DEF Apart
  <2>7. \A t \in gaps' : t \in gaps \cup gap \/ (c[1] <= t /\ t < c[2])
    BY <1>1, <2>2
  <2> QED
    BY <2>6, <2>7
<1> QED
  BY <1>3, <1>4 DEF Cuts, HandsOver

(* The outage that the first bytes end comes after all that was cut, and   *)
(* the buffer after all gaps, except where it is dated back.               *)
LEMMA OutageIsLater ==
  ASSUME CoverageTypeOK, Shape, Sessions, InLine, Clear, Reads
  PROVE  /\ OutageGap \in SUBSET Nat
         /\ \A t \in OutageGap : DoneEnd <= t /\ lastAudio <= t /\ t < now'
         /\ \A t \in gaps \cup OutageGap : t < From \/ t \in backdated'
<1>1. pending \in Nat /\ now \in Nat /\ chunkStart \in Nat /\ gaps \subseteq Nat
  BY Numbers
<1>2. pending # 0 => /\ chunkStart = 0 /\ DoneEnd <= pending /\ lastAudio <= pending
  BY DEF Shape, InLine, StreamInLine
<1>3. PICK n \in Nat : now' = n /\ now <= n
  BY DEF Reads
<1>4. \A t \in OutageGap : t \in Nat /\ pending # 0 /\ pending <= t /\ t < n
  BY <1>1, <1>3 DEF OutageGap, Recorded
<1>5. \A t \in OutageGap : DoneEnd <= t /\ lastAudio <= t
  BY <1>1, <1>2, <1>4, Bounds
<1>6. ASSUME NEW t \in gaps \cup OutageGap, From <= t
      PROVE  t \in backdated'
  <2>1. CASE chunkStart = 0
    <3>1. t \in Nat /\ (t < now \/ t \in OutageGap)
      BY <1>1, <1>4, <1>6 DEF Clear
    <3> QED
      BY <1>6, <2>1, <3>1 DEF Reads
  <2>2. CASE chunkStart # 0
    <3>1. t \in gaps /\ t \in Nat
      BY <1>1, <1>2, <1>4, <1>6, <2>2
    <3> QED
      BY <1>1, <1>6, <2>2, <3>1 DEF Clear, From, Reads
  <2> QED
    BY <2>1, <2>2
<1>7. \A t \in gaps \cup OutageGap : t < From \/ t \in backdated'
  <2>1. From \in Nat
    BY DEF Reads
  <2> QED
    BY <1>1, <1>4, <1>6, <2>1
<1> QED
  BY <1>3, <1>4, <1>5, <1>7

LEMMA ClearStep ==
  CoverageTypeOK /\ Shape /\ Sessions /\ InLine /\ Clear /\ [CoverageNext]_coverageVars => Clear'
<1> SUFFICES ASSUME CoverageTypeOK, Shape, Sessions, InLine, Clear, [CoverageNext]_coverageVars
             PROVE  Clear'
  OBVIOUS
<1> USE DEF history, tables, worker, stream
<1>0. /\ now \in Nat /\ lastAudio \in Nat /\ lastAudio <= now /\ chunkStart \in Nat
      /\ DoneEnd \in Nat /\ 1 <= DoneEnd /\ DoneEnd <= now
      /\ done \subseteq Nat /\ gaps \subseteq Nat /\ latest \in Nat
  BY Numbers, Bounds
<1>00. /\ \A t \in done : t < DoneEnd
       /\ \A t \in gaps : t < now /\ (chunkStart # 0 => t < chunkStart \/ t \in backdated)
       /\ Apart(gaps, backdated)
  BY DEF Clear
<1>1. CASE StartService
  <2>1. /\ chunkStart' = 0 /\ asr' = "get" /\ queue' = <<>> /\ lastAudio = 0
        /\ gaps' = gaps \cup RestartGap /\ UNCHANGED <<now, done, backdated>>
    BY <1>1 DEF StartService, Shape
  <2>2. RestartGap \in SUBSET Nat /\ \A t \in RestartGap : DoneEnd <= t /\ t < now
    <3>1. CASE latest = 0 \/ lastEnd[latest] = 0
      BY <3>1 DEF RestartGap
    <3>2. CASE latest # 0 /\ lastEnd[latest] # 0
      <4>1. RestartGap = lastEnd[latest] .. now - 1 /\ DoneEnd = lastEnd[latest]
        BY <3>2 DEF RestartGap, DoneEnd
      <4> QED
        BY <1>0, <4>1
    <3> QED
      BY <3>1, <3>2
  <2>3. Apart(gaps \cup RestartGap, backdated')
    <3>1. \A t \in RestartGap : DoneEnd <= t /\ lastAudio <= t
      BY <2>1, <2>2
    <3> QED
      BY <2>1, <2>2, <3>1, LaterIsApart
  <2>4. DoneEnd' = now
    <3>1. /\ latest + 1 \in SessionNo /\ latest' = latest + 1 /\ lastEnd' = lastEnd
          /\ started' = [started EXCEPT ![latest + 1] = now]
      BY <1>0, <1>1 DEF StartService, SessionNo
    <3>2. lastEnd[latest + 1] = 0
      BY <1>0, <3>1 DEF Sessions
    <3> QED
      BY <1>0, <3>1, <3>2 DEF DoneEnd, CoverageTypeOK
  <2>5. \A t \in done' : t < DoneEnd' /\ (t \in gaps' => t \in backdated')
    BY <1>0, <1>00, <2>1, <2>3, <2>4 DEF Apart
  <2>6. \A t \in gaps' : t < now'
    BY <1>00, <2>1, <2>2
  <2> QED
    BY <2>1, <2>5, <2>6 DEF Clear, Apart
<1>2. CASE Miss \/ Connect
  <2>1. /\ UNCHANGED <<chunkStart, asr, hand, queue, done, gaps, latest, started, lastEnd, backdated>>
        /\ now' \in {now, now + 1}
    BY <1>2 DEF Miss, Connect
  <2>2. DoneEnd' = DoneEnd
    BY <2>1 DEF DoneEnd
  <2>3. Apart(gaps, backdated)'
    BY <1>00, <2>1 DEF Apart
  <2>4. PICK n \in Nat : now' = n /\ now <= n
    BY <1>0, <2>1
  <2> QED
    BY <1>0, <1>00, <2>1, <2>2, <2>3, <2>4 DEF Clear
<1>3. CASE Hear \/ Burst
  <2>1. Reads
    BY <1>3, ReadMoves
  <2>2. DoneEnd' = DoneEnd /\ UNCHANGED <<asr, hand, done>> /\ backdated \subseteq backdated'
    BY <2>1 DEF Reads, DoneEnd
  <2>3. PICK n \in Nat : now' = n /\ now <= n
    BY <2>1 DEF Reads
  <2>4. /\ OutageGap \in SUBSET Nat /\ \A t \in OutageGap : DoneEnd <= t /\ lastAudio <= t /\ t < n
        /\ \A t \in gaps \cup OutageGap : t < From \/ t \in backdated'
        /\ From \in Nat
    BY <2>1, <2>3, OutageIsLater DEF Reads
  <2>5. \A t \in gaps \cup OutageGap : t < n /\ t \in Nat
    BY <1>0, <1>00, <2>3, <2>4
  <2>6. CASE ReadsAndCuts
    <3>1. /\ Apart(gaps, backdated)'
          /\ \A t \in gaps' : t \in gaps \cup OutageGap \/ (ReadChunk[1] <= t /\ t < ReadChunk[2])
      BY <2>2, <2>4, <2>6, CutIsApart DEF ReadsAndCuts
    <3>2. gaps' \subseteq Nat
      BY TypeStep, SMTT(30) DEF CoverageTypeOK, Slot
    <3>3. PICK e \in Nat : e = ReadChunk[2] /\ chunkStart' = e /\ From <= e /\ e <= n
      BY <2>3, <2>6 DEF ReadsAndCuts, Cuts, ChunkPair, Time
    <3>4. \A t \in gaps' : t < n /\ (t < e \/ t \in backdated')
      BY <2>4, <2>5, <3>1, <3>2, <3>3, <2>3
    <3> QED
      BY <1>00, <2>2, <2>3, <3>1, <3>3, <3>4 DEF Clear
  <2>7. CASE ReadsOn
    <3>1. Apart(gaps \cup OutageGap, backdated')
      BY <2>2, <2>4, LaterIsApart
    <3>2. Apart(gaps, backdated)'
      BY <2>2, <2>7, <3>1 DEF ReadsOn, Apart
    <3>3. \A t \in gaps' : t < n /\ (t < From \/ t \in backdated')
      BY <2>4, <2>5, <2>7 DEF ReadsOn
    <3> QED
      BY <1>00, <2>2, <2>3, <2>7, <3>2, <3>3 DEF Clear, ReadsOn
  <2> QED
    BY <1>3, <2>6, <2>7, ReadCuts
<1>4. CASE Disconnect \/ Stop
  <2>1. /\ chunkStart' = 0 /\ UNCHANGED <<now, asr, hand, done, latest, started, lastEnd>>
        /\ Flushes \/ ThrowsAway
        /\ backdated \subseteq backdated'
    BY <1>4, FlushTailFlushes DEF Disconnect, Stop
  <2>2. DoneEnd' = DoneEnd
    BY <2>1 DEF DoneEnd
  <2>3. CASE Flushes
    <3>1. Cuts(TailChunk, chunkStart, {}) /\ chunkStart # 0
      BY <2>3 DEF Flushes
    <3>2. \A t \in gaps \cup {} : t < chunkStart \/ t \in backdated'
      BY <1>00, <2>1, <3>1
    <3>3. /\ Apart(gaps, backdated)'
          /\ \A t \in gaps' : t \in gaps \cup {} \/ (TailChunk[1] <= t /\ t < TailChunk[2])
      BY <1>0, <2>1, <3>1, <3>2, CutIsApart
    <3>4. gaps' \subseteq Nat
      BY TypeStep, SMTT(30) DEF CoverageTypeOK, Slot
    <3>5. TailChunk[2] \in Nat /\ TailChunk[2] <= now
      BY <2>1, <3>1 DEF Cuts, ChunkPair, Time
    <3>6. \A t \in gaps' : t < now'
      BY <1>0, <1>00, <2>1, <3>3, <3>4, <3>5
    <3> QED
      BY <1>00, <2>1, <2>2, <3>3, <3>6 DEF Clear
  <2>4. CASE ThrowsAway
    <3>1. Apart(gaps, backdated)'
      BY <1>00, <2>1, <2>4 DEF ThrowsAway, Apart
    <3> QED
      BY <1>00, <2>1, <2>2, <2>4, <3>1 DEF ThrowsAway, Clear
  <2> QED
    BY <2>1, <2>3, <2>4
<1>5. CASE TakeChunk
  <2>1. /\ queue # <<>> /\ hand' = Head(queue) /\ queue' = Tail(queue)
        /\ UNCHANGED <<now, chunkStart, done, gaps, latest, started, lastEnd, backdated>>
    BY <1>5 DEF TakeChunk
  <2>2. /\ hand' = queue[1] /\ 1 \in DOMAIN queue
        /\ \A i \in DOMAIN queue' : i + 1 \in DOMAIN queue /\ queue'[i] = queue[i + 1]
    BY <2>1, Numbers DEF CoverageTypeOK
  <2>3. DoneEnd' = DoneEnd
    BY <2>1 DEF DoneEnd
  <2>4. Apart(gaps, backdated)'
    BY <1>00, <2>1, <2>2 DEF Apart
  <2> QED
    BY <1>00, <2>1, <2>3, <2>4 DEF Clear
<1>6. CASE Transcribed \/ FailureReported
  <2>1. /\ Busy /\ Completed /\ asr' = "get" /\ UNCHANGED <<now, queue, chunkStart, gaps, backdated>>
        /\ (asr = "busy" /\ done' = done \cup Span(hand)) \/ done' = done
    BY <1>6 DEF Transcribed, FailureReported, Busy, Completed
  <2>2. DoneEnd' = hand[2]
    BY <2>1, CompletedMoves
  <2>3. hand[1] \in Nat /\ hand[2] \in Nat /\ hand[1] < hand[2] /\ DoneEnd <= hand[2]
    BY <2>1, HandIsCurrent
  <2>4. \A t \in done' : t < hand[2]
    <3>1. \A t \in Span(hand) : t < hand[2]
      BY <2>3 DEF Span
    <3>2. \A t \in done : t < hand[2]
      BY <1>0, <1>00, <2>3
    <3> QED
      BY <2>1, <3>1, <3>2
  <2>5. Apart(gaps, backdated)'
    BY <1>00, <2>1 DEF Apart
  <2> QED
    BY <1>00, <2>1, <2>2, <2>4, <2>5 DEF Clear
<1>7. CASE TranscriptionFails
  <2>1. /\ asr = "busy" /\ asr' = "failed" /\ gaps' = gaps \cup Recorded(hand[1], hand[2])
        /\ UNCHANGED <<now, queue, chunkStart, done, latest, started, lastEnd, backdated>>
    BY <1>7 DEF TranscriptionFails
  <2>2. /\ hand[1] \in Nat /\ hand[2] \in Nat /\ hand[1] < hand[2] /\ hand[2] <= lastAudio
        /\ WasCut(hand)
    BY <2>1, HandIsCurrent DEF Busy, InLine, HandInLine
  <2>3. DoneEnd' = DoneEnd
    BY <2>1 DEF DoneEnd
  <2>4. \A t \in Recorded(hand[1], hand[2]) : hand[1] <= t /\ t < hand[2] /\ t \in Nat
    BY <2>2 DEF Recorded
  <2>5. \A t \in gaps' : t < now' /\ (chunkStart' # 0 => t < chunkStart' \/ t \in backdated')
    <3>1. chunkStart # 0 => Backed(chunkStart, lastAudio)
      BY DEF InLine, StreamInLine
    <3> QED
      BY <1>0, <1>00, <2>1, <2>2, <2>4, <3>1 DEF Backed
  <2>6. \A t \in done : t \in gaps' => t \in backdated
    BY <1>0, <1>00, <2>1, <2>2, <2>4 DEF Apart, WasCut, Follows, Backed
  <2>7. ASSUME NEW i \in DOMAIN queue, NEW t \in Span(queue[i]), t \in gaps'
        PROVE  t \in backdated
    <3>1. Follows(queue[i], hand[2]) /\ queue[i][1] \in Nat /\ queue[i][2] \in Nat
      BY <2>1, Numbers DEF InLine, QueueInLine, Busy
    <3>2. t \in Nat /\ queue[i][1] <= t
      BY <3>1 DEF Span
    <3>3. t \in gaps => t \in backdated
      BY <1>00 DEF Apart
    <3> QED
      BY <2>1, <2>2, <2>4, <2>7, <3>1, <3>2, <3>3 DEF Follows, Backed
  <2> QED
    BY <1>00, <2>1, <2>3, <2>5, <2>6, <2>7 DEF Clear, Apart
<1>8. CASE PersistLost
  <2>1. /\ asr' = "get"
        /\ UNCHANGED <<now, queue, chunkStart, done, gaps, latest, started, lastEnd, backdated>>
    BY <1>8 DEF PersistLost
  <2>2. DoneEnd' = DoneEnd
    BY <2>1 DEF DoneEnd
  <2> QED
    BY <1>00, <2>1, <2>2 DEF Clear, Apart
<1>9. CASE Stopped \/ Crash
  <2>1. /\ chunkStart' = 0 /\ queue' = <<>> /\ asr' = "get"
        /\ UNCHANGED <<now, done, gaps, latest, started, lastEnd, backdated>>
    BY <1>9 DEF Stopped, Crash, Forget
  <2>2. DoneEnd' = DoneEnd
    BY <2>1 DEF DoneEnd
  <2> QED
    BY <1>00, <2>1, <2>2 DEF Clear, Apart
<1>10. CASE UNCHANGED coverageVars
  BY <1>00, <1>10 DEF coverageVars, Clear, Apart, DoneEnd
<1> QED
  BY <1>1, <1>2, <1>3, <1>4, <1>5, <1>6, <1>7, <1>8, <1>9, <1>10 DEF CoverageNext

-------------------------------------------------------------------------------
(* What was transcribed was on the air while a connection gave audio.      *)

(* A queue of attended chunks, with one more.                              *)
LEMMA QueueAttended ==
  ASSUME CoverageTypeOK, NEW c \in ChunkPair, NEW gap, HandsOver(c, gap), Known \subseteq Known',
         \A i \in DOMAIN queue : \A t \in Span(queue[i]) : t \in Known,
         \A t \in Span(c) : t \in Known'
  PROVE  \A i \in DOMAIN queue' : \A t \in Span(queue'[i]) : t \in Known'
<1>1. \A i \in DOMAIN queue : \A t \in Span(queue[i]) : t \in Known'
  OBVIOUS
<1>2. CASE queue' = queue
  BY <1>1, <1>2
<1>3. CASE queue' = Append(queue, c)
  <2>1. /\ queue'[Len(queue) + 1] = c
        /\ \A i \in DOMAIN queue' : i = Len(queue) + 1 \/ (i \in DOMAIN queue /\ queue'[i] = queue[i])
    BY <1>3, AppendedIsLast DEF CoverageTypeOK
  <2> QED
    BY <1>1, <2>1
<1> QED
  BY <1>2, <1>3 DEF HandsOver

LEMMA AttendedStep ==
  CoverageTypeOK /\ Shape /\ Sessions /\ InLine /\ AllAttended /\ [CoverageNext]_coverageVars
    => AllAttended'
<1> SUFFICES ASSUME CoverageTypeOK, Shape, Sessions, InLine, AllAttended,
                    [CoverageNext]_coverageVars
             PROVE  AllAttended'
  OBVIOUS
<1> USE DEF history, tables, worker, stream
<1>0. /\ \A t \in done : t \in Known
      /\ asr = "busy" => \A t \in Span(hand) : t \in Known
      /\ \A i \in DOMAIN queue : \A t \in Span(queue[i]) : t \in Known
      /\ chunkStart # 0 => \A t \in Nat : chunkStart <= t /\ t < now => t \in Known
  BY DEF AllAttended
<1>00. now \in Nat /\ chunkStart \in Nat
  BY Numbers
<1>1. CASE StartService \/ Stopped \/ Crash
  <2>1. /\ chunkStart' = 0 /\ queue' = <<>> /\ asr' = "get" /\ UNCHANGED <<done, attended, backdated>>
    BY <1>1 DEF StartService, Shape, Stopped, Crash, Forget
  <2>2. Known' = Known
    BY <2>1 DEF Known
  <2> QED
    BY <1>0, <2>1, <2>2 DEF AllAttended
<1>2. CASE Miss
  <2>1. /\ UNCHANGED <<chunkStart, asr, hand, queue, done>> /\ now' = now + 1
        /\ Known \subseteq Known' /\ (chunkStart # 0 => now \in Known')
    BY <1>2 DEF Miss, Known
  <2>2. chunkStart # 0 => \A t \in Nat : chunkStart <= t /\ t < now + 1 => t \in Known'
    BY <1>0, <1>00, <2>1
  <2> QED
    BY <1>0, <2>1, <2>2 DEF AllAttended
<1>3. CASE Hear \/ Burst
  <2>1. Reads
    BY <1>3, ReadMoves
  <2>2. UNCHANGED <<asr, hand, done>> /\ Known \subseteq Known'
    BY <2>1 DEF Reads, Known
  <2>3. PICK n \in Nat : now' = n /\ now <= n
    BY <2>1 DEF Reads
  <2>4. ASSUME NEW t \in Nat, From <= t, t < n
        PROVE  t \in Known'
    <3>1. CASE now <= t
      BY <2>1, <2>3, <2>4, <3>1 DEF Reads, Known
    <3>2. CASE t < now /\ chunkStart = 0
      BY <2>1, <2>4, <3>2 DEF Reads, Known
    <3>3. CASE t < now /\ chunkStart # 0
      BY <1>0, <2>2, <2>4, <3>3 DEF From
    <3> QED
      BY <1>00, <3>1, <3>2, <3>3
  <2>5. CASE ReadsAndCuts
    <3>1. Cuts(ReadChunk, From, OutageGap)
      BY <2>5 DEF ReadsAndCuts
    <3>2. ReadChunk \in ChunkPair /\ ReadChunk[1] \in Nat /\ ReadChunk[2] \in Nat /\ From \in Nat
      BY <2>1, <3>1 DEF Cuts, Reads, ChunkPair, Time
    <3>3. ASSUME NEW t \in Span(ReadChunk)
          PROVE  t \in Known'
      <4>1. t \in Nat /\ ReadChunk[1] <= t /\ t < ReadChunk[2]
        BY <3>2 DEF Span
      <4>2. t < n
        BY <2>3, <3>1, <3>2, <4>1 DEF Cuts
      <4>3. t < From => t \in Known'
        BY <3>1, <4>1 DEF Cuts, Known
      <4> QED
        BY <2>4, <3>2, <4>1, <4>2, <4>3
    <3>4. \A i \in DOMAIN queue' : \A t \in Span(queue'[i]) : t \in Known'
      BY <1>0, <2>2, <3>1, <3>2, <3>3, QueueAttended DEF Cuts
    <3>5. \A t \in Nat : ReadChunk[2] <= t /\ t < n => t \in Known'
      BY <2>4, <3>1, <3>2 DEF Cuts
    <3> QED
      BY <1>0, <2>2, <2>3, <2>5, <3>4, <3>5 DEF AllAttended, ReadsAndCuts
  <2>6. CASE ReadsOn
    BY <1>0, <2>2, <2>3, <2>4, <2>6 DEF AllAttended, ReadsOn
  <2> QED
    BY <1>3, <2>5, <2>6, ReadCuts
<1>4. CASE Disconnect \/ Stop
  <2>1. /\ chunkStart' = 0 /\ UNCHANGED <<now, asr, hand, done, attended>>
        /\ Flushes \/ ThrowsAway
        /\ backdated \subseteq backdated'
    BY <1>4, FlushTailFlushes DEF Disconnect, Stop
  <2>2. Known \subseteq Known'
    BY <2>1 DEF Known
  <2>3. CASE Flushes
    <3>1. Cuts(TailChunk, chunkStart, {}) /\ chunkStart # 0
      BY <2>3 DEF Flushes
    <3>2. TailChunk \in ChunkPair /\ TailChunk[1] \in Nat /\ TailChunk[2] \in Nat
      BY <3>1 DEF Cuts, ChunkPair, Time
    <3>3. ASSUME NEW t \in Span(TailChunk)
          PROVE  t \in Known'
      <4>1. t \in Nat /\ TailChunk[1] <= t /\ t < TailChunk[2]
        BY <3>2 DEF Span
      <4>2. t < now
        BY <1>00, <2>1, <3>1, <3>2, <4>1 DEF Cuts
      <4>3. t < chunkStart => t \in Known'
        BY <3>1, <4>1 DEF Cuts, Known
      <4> QED
        BY <1>0, <1>00, <2>2, <3>1, <4>1, <4>2, <4>3
    <3>4. \A i \in DOMAIN queue' : \A t \in Span(queue'[i]) : t \in Known'
      BY <1>0, <2>2, <3>1, <3>2, <3>3, QueueAttended DEF Cuts
    <3> QED
      BY <1>0, <2>1, <2>2, <3>4 DEF AllAttended
  <2>4. CASE ThrowsAway
    BY <1>0, <2>1, <2>2, <2>4 DEF AllAttended, ThrowsAway
  <2> QED
    BY <2>1, <2>3, <2>4
<1>5. CASE TakeChunk
  <2>1. /\ queue # <<>> /\ hand' = Head(queue) /\ queue' = Tail(queue) /\ Known' = Known
        /\ UNCHANGED <<now, chunkStart, done>>
    BY <1>5 DEF TakeChunk, Known
  <2>2. /\ hand' = queue[1] /\ 1 \in DOMAIN queue
        /\ \A i \in DOMAIN queue' : i + 1 \in DOMAIN queue /\ queue'[i] = queue[i + 1]
    BY <2>1, Numbers DEF CoverageTypeOK
  <2> QED
    BY <1>0, <2>1, <2>2 DEF AllAttended
<1>6. CASE Connect \/ Transcribed \/ FailureReported \/ TranscriptionFails \/ PersistLost
           \/ UNCHANGED coverageVars
  <2>1. /\ UNCHANGED <<now, chunkStart, queue>> /\ Known' = Known
        /\ done' = done \/ (asr = "busy" /\ done' = done \cup Span(hand))
        /\ asr' # "busy" \/ (asr = "busy" /\ hand' = hand)
    <3>1. CASE Connect \/ UNCHANGED coverageVars
      BY <3>1 DEF Connect, Known, coverageVars
    <3>2. CASE Transcribed \/ FailureReported
      BY <3>2 DEF Transcribed, FailureReported, Completed, Known
    <3>3. CASE TranscriptionFails \/ PersistLost
      BY <3>3 DEF TranscriptionFails, PersistLost, Known
    <3> QED
      BY <1>6, <3>1, <3>2, <3>3
  <2> QED
    BY <1>0, <2>1 DEF AllAttended
<1> QED
  BY <1>1, <1>2, <1>3, <1>4, <1>5, <1>6 DEF CoverageNext

-------------------------------------------------------------------------------
(* Nothing is left out.                                                    *)

(* The tables only grow.                                                   *)
LEMMA KeptGrows ==
  CoverageTypeOK /\ Shape /\ InLine /\ [CoverageNext]_coverageVars => Kept \subseteq Kept'
<1> SUFFICES ASSUME CoverageTypeOK, Shape, InLine, [CoverageNext]_coverageVars
             PROVE  Kept \subseteq Kept'
  OBVIOUS
<1> USE DEF history, tables, worker, stream, Kept
<1>1. CASE StartService
  BY <1>1 DEF StartService
<1>2. CASE Miss \/ Connect \/ TakeChunk
  BY <1>2 DEF Miss, Connect, TakeChunk
<1>3. CASE Hear \/ Burst
  <2>1. UNCHANGED <<done, lost>>
    BY <1>3 DEF Hear, Burst, Read, HandOver
  <2>2. gaps \subseteq gaps'
    BY <1>3 DEF Hear, Burst, Read, HandOver
  <2> QED
    BY <2>1, <2>2
<1>4. CASE Disconnect \/ Stop
  <2>1. UNCHANGED <<done, lost>>
    BY <1>4 DEF Disconnect, Stop, FlushTail, HandOver
  <2>2. gaps \subseteq gaps'
    BY <1>4 DEF Disconnect, Stop, FlushTail, HandOver
  <2> QED
    BY <2>1, <2>2
<1>5. CASE Transcribed \/ FailureReported
  BY <1>5 DEF Transcribed, FailureReported, Completed
<1>6. CASE TranscriptionFails \/ PersistLost
  BY <1>6 DEF TranscriptionFails, PersistLost
<1>7. CASE Stopped \/ Crash
  BY <1>7 DEF Stopped, Crash, Forget
<1>8. CASE UNCHANGED coverageVars
  BY <1>8 DEF coverageVars
<1> QED
  BY <1>1, <1>2, <1>3, <1>4, <1>5, <1>6, <1>7, <1>8 DEF CoverageNext

(* Chunks that stay, or leave for the tables, leave nothing out.           *)
LEMMA CoveredStays ==
  ASSUME Kept \subseteq Kept', queue' = queue, Busy' => Busy /\ hand' = hand,
         asr = "busy" => asr' = "busy" \/ Span(hand) \subseteq Kept'
  PROVE  \A k, t : CoveredFrom(k, t) => CoveredFrom(k, t)'
<1> TAKE k, t
<1> SUFFICES ASSUME CoveredFrom(k, t) PROVE CoveredFrom(k, t)'
  OBVIOUS
<1>1. CASE t \in Kept
  BY <1>1 DEF CoveredFrom
<1>2. CASE asr = "busy" /\ t \in Span(hand)
  BY <1>2 DEF CoveredFrom, Busy
<1>3. CASE \E i \in DOMAIN queue :
             /\ t \in Span(queue[i])
             /\ k = 0 /\ Busy => hand[2] <= t
             /\ \A j \in DOMAIN queue : k <= j /\ j < i => queue[j][2] <= t
  BY <1>3 DEF CoveredFrom
<1> QED
  BY <1>1, <1>2, <1>3 DEF CoveredFrom

LEMMA ChunksStay ==
  ASSUME ChunksComplete, \A k, t : CoveredFrom(k, t) => CoveredFrom(k, t)',
         UNCHANGED <<queue, lastAudio>>, Busy' => Busy /\ hand' = hand,
         Up' /\ first'[latest'] # 0 =>
           /\ lastAudio # 0
           /\ \A t \in Nat : first'[latest'] <= t /\ t < lastAudio => CoveredFrom(0, t)
  PROVE  ChunksComplete'
<1>1. Busy' => Whole(0, hand[1])'
  BY DEF ChunksComplete, Whole
<1>2. \A i \in DOMAIN queue' : Whole(i, queue[i][1])'
  BY DEF ChunksComplete, Whole
<1>3. Up' /\ first'[latest'] # 0 => lastAudio' # 0 /\ Whole(0, first[latest])'
  BY DEF Whole
<1> QED
  BY <1>1, <1>2, <1>3 DEF ChunksComplete

(* Nor does a chunk that is cut after the last one, or after a gap.        *)
LEMMA ChunksGrow ==
  ASSUME CoverageTypeOK, Shape, Sessions, InLine, ChunksComplete,
         NEW c, NEW from, NEW gap, Cuts(c, from, gap),
         Up, Kept \subseteq Kept', UNCHANGED <<latest, asr, hand, first, lost, done>>,
         lastAudio # 0 => \A t \in Nat : lastAudio <= t /\ t < c[1] => t \in gaps'
  PROVE  ChunksComplete'
<1>0. /\ c \in ChunkPair /\ c[1] \in Nat /\ c[2] \in Nat /\ lastAudio \in Nat /\ c[2] # 0
      /\ lastAudio' = c[2] /\ lastAudio <= c[2] /\ c[1] < c[2]
  BY Numbers DEF Cuts, ChunkPair, Time
<1>1. /\ Len(queue) \in Nat /\ DOMAIN queue = 1 .. Len(queue)
      /\ Busy => hand[2] \in Nat /\ hand[2] <= lastAudio
      /\ \A i \in DOMAIN queue : queue[i][2] \in Nat /\ queue[i][2] <= lastAudio /\ lastAudio # 0
  <2>1. ASSUME NEW i \in DOMAIN queue
        PROVE  queue[i][2] \in Nat /\ queue[i][2] <= lastAudio /\ lastAudio # 0
    <3>1. WasCut(queue[i]) /\ queue[i][1] \in Nat /\ queue[i][2] \in Nat
      BY Numbers DEF InLine, QueueInLine
    <3> QED
      BY <1>0, <3>1 DEF WasCut
  <2> QED
    BY <2>1, Numbers DEF InLine, HandInLine, WasCut
<1>2. Busy' = Busy
  BY DEF Busy
<1>3. CASE queue' = queue /\ gaps' = gaps \cup gap \cup Span(c)
  <2>1. \A k, t : CoveredFrom(k, t) => CoveredFrom(k, t)'
    BY <1>2, <1>3, CoveredStays
  <2>2. ASSUME NEW k, NEW t \in Nat, t < c[2], lastAudio # 0, t < lastAudio => CoveredFrom(k, t)
        PROVE  CoveredFrom(k, t)'
    <3>1. CASE t < lastAudio
      BY <2>1, <2>2, <3>1
    <3>2. CASE lastAudio <= t
      <4>1. t \in gaps'
        BY <1>0, <1>3, <2>2, <3>2 DEF Span
      <4> QED
        BY <4>1 DEF CoveredFrom, Kept
    <3> QED
      BY <1>0, <3>1, <3>2
  <2>3. Busy' => Whole(0, hand[1])'
    <3>1. Busy => lastAudio # 0
      BY HandIsCurrent
    <3> QED
      BY <1>0, <1>2, <2>2, <3>1 DEF ChunksComplete, Whole
  <2>4. \A i \in DOMAIN queue' : Whole(i, queue[i][1])'
    <3>1. \A i \in DOMAIN queue : lastAudio # 0
      BY <1>1
    <3> QED
      BY <1>0, <1>3, <2>2, <3>1 DEF ChunksComplete, Whole
  <2>5. Up' /\ first'[latest'] # 0 => lastAudio' # 0 /\ Whole(0, first[latest])'
    BY <1>0, <2>2 DEF ChunksComplete, Whole
  <2> QED
    BY <2>3, <2>4, <2>5 DEF ChunksComplete
<1>4. CASE queue' = Append(queue, c)
  <2>1. /\ queue'[Len(queue) + 1] = c /\ Len(queue) + 1 \in DOMAIN queue'
        /\ \A i \in DOMAIN queue' : i = Len(queue) + 1 \/ i \in DOMAIN queue
        /\ \A i \in DOMAIN queue : i \in DOMAIN queue' /\ queue'[i] = queue[i] /\ i < Len(queue) + 1
    <3>1. queue \in Seq(ChunkPair)
      BY DEF CoverageTypeOK
    <3>2. DOMAIN queue' = 1 .. Len(queue) + 1
      BY <1>0, <1>1, <1>4, <3>1
    <3>3. queue'[Len(queue) + 1] = c /\ \A i \in 1 .. Len(queue) : queue'[i] = queue[i]
      BY <1>0, <1>1, <1>4, <3>1
    <3> QED
      BY <1>1, <3>2, <3>3
  <2>0. PICK last \in Nat : last = Len(queue) + 1
    BY <1>1
  <2>2. ASSUME NEW k, NEW t \in Nat, t < c[2], lastAudio # 0, t < lastAudio => CoveredFrom(k, t)
        PROVE  CoveredFrom(k, t)'
    <3>1. CASE t \in Kept'
      BY <3>1 DEF CoveredFrom
    <3>2. CASE asr = "busy" /\ t \in Span(hand)
      BY <3>2 DEF CoveredFrom
    <3>3. CASE t < lastAudio /\ t \notin Kept' /\ ~(asr = "busy" /\ t \in Span(hand))
      <4>1. PICK i \in DOMAIN queue :
              /\ t \in Span(queue[i])
              /\ k = 0 /\ Busy => hand[2] <= t
              /\ \A j \in DOMAIN queue : k <= j /\ j < i => queue[j][2] <= t
        BY <2>2, <3>3 DEF CoveredFrom
      <4>2. i \in DOMAIN queue' /\ t \in Span(queue'[i]) /\ i < Len(queue) + 1
        BY <2>1, <4>1
      <4>3. \A j \in DOMAIN queue' : k <= j /\ j < i => queue'[j][2] <= t
        <5>1. \A j \in DOMAIN queue' : j < i => j \in DOMAIN queue
          BY <1>1, <2>1, <4>1
        <5> QED
          BY <2>1, <4>1, <5>1
      <4>4. k = 0 /\ Busy' => hand'[2] <= t
        BY <1>2, <4>1
      <4> QED
        BY <4>2, <4>3, <4>4 DEF CoveredFrom
    <3>4. CASE lastAudio <= t /\ t \notin Kept'
      <4>1. c[1] <= t
        BY <1>0, <2>2, <3>4 DEF Kept
      <4>2. last \in DOMAIN queue' /\ t \in Span(queue'[last])
        BY <1>0, <2>0, <2>1, <2>2, <4>1 DEF Span
      <4>3. \A j \in DOMAIN queue' : k <= j /\ j < last => queue'[j][2] <= t
        <5>1. \A j \in DOMAIN queue' : j < last => j \in DOMAIN queue
          BY <1>1, <2>0, <2>1
        <5>2. \A j \in DOMAIN queue : queue'[j][2] <= t
          BY <1>0, <1>1, <2>1, <3>4
        <5> QED
          BY <5>1, <5>2
      <4>4. k = 0 /\ Busy' => hand'[2] <= t
        BY <1>0, <1>1, <1>2, <3>4
      <4> QED
        BY <4>2, <4>3, <4>4 DEF CoveredFrom
    <3> QED
      BY <1>0, <3>1, <3>2, <3>3, <3>4
  <2>3. ASSUME NEW t \in Nat, c[1] <= t, t < c[2]
        PROVE  CoveredFrom(last, t)'
    <3>1. last \in DOMAIN queue' /\ t \in Span(queue'[last])
      BY <1>0, <2>0, <2>1, <2>3 DEF Span
    <3>2. last # 0 /\ \A j \in DOMAIN queue' : ~(last <= j /\ j < last)
      BY <1>1, <2>0, <2>1
    <3> QED
      BY <3>1, <3>2 DEF CoveredFrom
  <2>4. Busy' => Whole(0, hand[1])'
    <3>1. Busy => lastAudio # 0
      BY HandIsCurrent
    <3> QED
      BY <1>0, <1>2, <2>2, <3>1 DEF ChunksComplete, Whole
  <2>5. ASSUME NEW i \in DOMAIN queue' PROVE Whole(i, queue[i][1])'
    <3>1. CASE i \in DOMAIN queue
      <4>1. lastAudio # 0
        BY <1>1, <3>1
      <4> QED
        BY <1>0, <2>1, <2>2, <3>1, <4>1 DEF ChunksComplete, Whole
    <3>2. CASE i = last
      <4>1. queue'[i] = c
        BY <2>0, <2>1, <3>2
      <4> QED
        BY <1>0, <2>3, <3>2, <4>1 DEF Whole
    <3> QED
      BY <2>0, <2>1, <3>1, <3>2
  <2>6. Up' /\ first'[latest'] # 0 => lastAudio' # 0 /\ Whole(0, first[latest])'
    BY <1>0, <2>2 DEF ChunksComplete, Whole
  <2> QED
    BY <2>4, <2>5, <2>6 DEF ChunksComplete
<1> QED
  BY <1>3, <1>4 DEF Cuts, HandsOver

(* Before the buffer, or before what is read now, lies the outage.         *)
LEMMA BeforeTheBuffer ==
  ASSUME CoverageTypeOK, Shape, GapsComplete, Reads, lastAudio # 0
  PROVE  \A t \in Nat : lastAudio <= t /\ t < From => t \in gaps \cup OutageGap
<1>1. lastAudio \in Nat /\ chunkStart \in Nat
  BY Numbers
<1>2. CASE chunkStart # 0
  BY <1>1, <1>2 DEF GapsComplete, From
<1>3. CASE chunkStart = 0
  <2>1. pending # 0 /\ pending = lastAudio
    BY <1>3 DEF Reads, Shape, GapsComplete
  <2>2. PICK n \in Nat : now' = n
    BY DEF Reads
  <2> QED
    BY <1>1, <1>3, <2>1, <2>2 DEF OutageGap, Recorded, From
<1> QED
  BY <1>2, <1>3

LEMMA GapsCompleteStep ==
  CoverageTypeOK /\ Shape /\ Sessions /\ InLine /\ GapsComplete /\ [CoverageNext]_coverageVars
    => GapsComplete'
<1> SUFFICES ASSUME CoverageTypeOK, Shape, Sessions, InLine, GapsComplete, [CoverageNext]_coverageVars
             PROVE  GapsComplete'
  OBVIOUS
<1> USE DEF history, tables, worker, stream
<1>1. CASE StartService \/ Stopped \/ Crash
  BY <1>1 DEF StartService, Stopped, Crash, Forget, Shape, GapsComplete
<1>2. CASE Hear \/ Burst
  <2>1. Reads
    BY <1>2, ReadMoves
  <2>2. pending' = 0
    BY <2>1 DEF Reads
  <2>3. CASE ReadsAndCuts
    <3>1. ReadChunk[2] \in Nat /\ lastAudio' = ReadChunk[2] /\ chunkStart' = ReadChunk[2]
      BY <2>3 DEF ReadsAndCuts, Cuts, ChunkPair, Time
    <3> QED
      BY <2>2, <3>1 DEF GapsComplete
  <2>4. CASE ReadsOn
    <3>1. lastAudio # 0 => \A t \in Nat : lastAudio <= t /\ t < From => t \in gaps'
      BY <2>1, <2>4, BeforeTheBuffer DEF ReadsOn
    <3> QED
      BY <2>2, <2>4, <3>1 DEF ReadsOn, GapsComplete
  <2> QED
    BY <1>2, <2>3, <2>4, ReadCuts
<1>3. CASE Disconnect
  <2>1. chunkStart' = 0 /\ (Flushes \/ ThrowsAway)
    BY <1>3, FlushTailFlushes DEF Disconnect
  <2>2. CASE pending # 0
    <3>1. chunkStart = 0 /\ pending' = pending
      BY <1>3, <2>2 DEF Disconnect, GapAnchor, Shape
    <3>2. lastAudio' = lastAudio
      BY <2>1, <3>1 DEF Flushes, ThrowsAway
    <3> QED
      BY <1>3, <2>1, <2>2, <3>1, <3>2 DEF Disconnect, GapsComplete
  <2>3. CASE pending = 0
    BY <1>3, <2>1, <2>3 DEF Disconnect, GapAnchor, GapsComplete
  <2> QED
    BY <2>2, <2>3
<1>4. CASE Stop
  BY <1>4, FlushTailFlushes DEF Stop, GapsComplete
<1>5. CASE Miss \/ Connect
  BY <1>5 DEF Miss, Connect, GapsComplete
<1>6. CASE TakeChunk \/ Transcribed \/ FailureReported \/ TranscriptionFails \/ PersistLost
  <2>1. UNCHANGED <<service, chunkStart, lastAudio, pending>> /\ gaps \subseteq gaps'
    BY <1>6 DEF TakeChunk, Transcribed, FailureReported, TranscriptionFails, PersistLost, Completed
  <2> QED
    BY <2>1 DEF GapsComplete
<1>7. CASE UNCHANGED coverageVars
  BY <1>7 DEF coverageVars, GapsComplete
<1> QED
  BY <1>1, <1>2, <1>3, <1>4, <1>5, <1>6, <1>7 DEF CoverageNext

(* The queue moves up when the ASR thread takes a chunk.                   *)
LEMMA CoveredMovesUp ==
  ASSUME CoverageTypeOK, Shape, TakeChunk
  PROVE  /\ \A k \in Nat, t \in Nat : CoveredFrom(k + 1, t) => CoveredFrom(k, t)'
         /\ \A t \in Nat : CoveredFrom(0, t) => CoveredFrom(0, t)'
<1> USE DEF history, tables, worker, stream
<1>1. /\ asr = "get" /\ asr' = "busy" /\ queue # <<>> /\ hand' = Head(queue) /\ queue' = Tail(queue)
      /\ UNCHANGED <<done, gaps, lost>>
  BY DEF TakeChunk
<1>2. /\ hand' = queue[1] /\ 1 \in DOMAIN queue
      /\ \A i \in DOMAIN queue' : i \in Nat /\ i + 1 \in DOMAIN queue /\ queue'[i] = queue[i + 1]
      /\ \A i \in DOMAIN queue : i \in Nat /\ i >= 1
      /\ \A i \in DOMAIN queue : i = 1 \/ (i - 1 \in DOMAIN queue' /\ queue'[i - 1] = queue[i])
  <2>1. queue \in Seq(ChunkPair) /\ Len(queue) \in Nat /\ Len(queue) # 0 /\ DOMAIN queue = 1 .. Len(queue)
    BY <1>1, Numbers DEF CoverageTypeOK
  <2>2. /\ hand' = queue[1] /\ DOMAIN queue' = 1 .. Len(queue) - 1
        /\ \A i \in 1 .. Len(queue) - 1 : queue'[i] = queue[i + 1]
    BY <1>1, <2>1
  <2>3. \A i \in DOMAIN queue : i = 1 \/ (i - 1 \in DOMAIN queue' /\ queue'[i - 1] = queue[i])
    <3> SUFFICES ASSUME NEW i \in DOMAIN queue, i # 1
                 PROVE  i - 1 \in DOMAIN queue' /\ queue'[i - 1] = queue[i]
      OBVIOUS
    <3>1. i - 1 \in 1 .. Len(queue) - 1 /\ (i - 1) + 1 = i
      BY <2>1
    <3> QED
      BY <2>2, <3>1
  <2> QED
    BY <2>1, <2>2, <2>3
<1>3. Kept' = Kept /\ Busy' /\ ~Busy
  BY <1>1 DEF Kept, Busy
<1>4. ASSUME NEW k \in Nat, NEW t \in Nat, NEW h \in Nat, CoveredFrom(h, t), h <= k + 1
      PROVE  CoveredFrom(k, t)'
  <2>1. CASE t \in Kept
    BY <1>3, <2>1 DEF CoveredFrom
  <2>2. CASE t \notin Kept
    <3>1. PICK i \in DOMAIN queue : /\ t \in Span(queue[i])
                                    /\ \A j \in DOMAIN queue : h <= j /\ j < i => queue[j][2] <= t
      BY <1>1, <1>4, <2>2 DEF CoveredFrom
    <3>2. CASE i = 1
      BY <1>1, <1>2, <3>1, <3>2 DEF CoveredFrom
    <3>3. CASE i # 1
      <4>1. i - 1 \in DOMAIN queue' /\ t \in Span(queue'[i - 1]) /\ i \in Nat
        BY <1>2, <3>1, <3>3
      <4>2. \A j \in DOMAIN queue' : k <= j /\ j < i - 1 => queue'[j][2] <= t
        <5> SUFFICES ASSUME NEW j \in DOMAIN queue', k <= j, j < i - 1
                     PROVE  queue'[j][2] <= t
          OBVIOUS
        <5>1. j \in Nat /\ j + 1 \in DOMAIN queue /\ queue'[j] = queue[j + 1]
          BY <1>2
        <5>2. h <= j + 1 /\ j + 1 < i
          BY <1>4, <4>1, <5>1
        <5> QED
          BY <3>1, <5>1, <5>2
      <4>3. k = 0 => hand'[2] <= t
        <5>1. k = 0 => h <= 1 /\ 1 < i
          BY <1>2, <1>4, <3>3
        <5> QED
          BY <1>2, <3>1, <5>1
      <4> QED
        BY <4>1, <4>2, <4>3 DEF CoveredFrom
    <3> QED
      BY <3>2, <3>3
  <2> QED
    BY <2>1, <2>2
<1> QED
  BY <1>4

LEMMA ChunksCompleteStep ==
  CoverageTypeOK /\ Shape /\ Sessions /\ InLine /\ ChunksComplete /\ GapsComplete
    /\ [CoverageNext]_coverageVars => ChunksComplete'
<1> SUFFICES ASSUME CoverageTypeOK, Shape, Sessions, InLine, ChunksComplete, GapsComplete,
                    [CoverageNext]_coverageVars
             PROVE  ChunksComplete'
  OBVIOUS
<1> USE DEF history, tables, worker, stream
<1>0. Kept \subseteq Kept'
  BY KeptGrows
<1>1. CASE StartService
  <2>1. /\ queue' = <<>> /\ asr' = "get" /\ first' = first /\ latest' = latest + 1
        /\ latest + 1 \in SessionNo
    BY <1>1, Numbers DEF StartService, Shape, SessionNo
  <2>2. first'[latest'] = 0
    BY <2>1, Numbers, SMTT(30) DEF Sessions
  <2> QED
    BY <2>1, <2>2 DEF ChunksComplete, Busy
<1>2. CASE Stopped \/ Crash
  <2>1. queue' = <<>> /\ asr' = "get" /\ service' = "down"
    BY <1>2 DEF Stopped, Crash, Forget
  <2> QED
    BY <2>1 DEF ChunksComplete, Busy, Up
<1>3. CASE /\ UNCHANGED <<latest, queue, asr, hand, lastAudio, first>> /\ (Up' => Up)
  <2>1. Busy' = Busy
    BY <1>3 DEF Busy
  <2>2. \A k, t : CoveredFrom(k, t) => CoveredFrom(k, t)'
    BY <1>0, <1>3, <2>1, CoveredStays
  <2> QED
    BY <1>3, <2>1, <2>2, ChunksStay DEF ChunksComplete, Whole
<1>4. CASE UNCHANGED coverageVars \/ Miss \/ Connect
  BY <1>3, <1>4 DEF coverageVars, Miss, Connect, Up
<1>5. CASE Hear \/ Burst
  <2>1. Reads
    BY <1>5, ReadMoves
  <2>2. Up /\ Up' /\ UNCHANGED <<latest, asr, hand, first, lost, done>>
    BY <2>1 DEF Reads, Up
  <2>3. CASE ReadsAndCuts
    <3>1. Cuts(ReadChunk, From, OutageGap)
      BY <2>3 DEF ReadsAndCuts
    <3>2. gaps \cup OutageGap \subseteq gaps'
      BY <3>1 DEF Cuts, HandsOver
    <3>3. ReadChunk[1] \in Nat /\ From \in Nat /\ ReadChunk[1] <= From
      BY <2>1, <3>1 DEF Cuts, Reads, ChunkPair, Time
    <3>4. lastAudio # 0 => \A t \in Nat : lastAudio <= t /\ t < ReadChunk[1] => t \in gaps'
      BY <2>1, <3>2, <3>3, BeforeTheBuffer
    <3> QED
      BY <1>0, <2>2, <3>1, <3>4, ChunksGrow
  <2>4. CASE ReadsOn
    BY <1>3, <2>2, <2>4 DEF ReadsOn
  <2> QED
    BY <1>5, <2>3, <2>4, ReadCuts
<1>6. CASE Disconnect \/ Stop
  <2>1. /\ UNCHANGED <<latest, asr, hand, first, lost, done>> /\ (Flushes \/ ThrowsAway)
        /\ Up /\ Up'
    BY <1>6, FlushTailFlushes DEF Disconnect, Stop, Up
  <2>2. CASE Flushes
    <3>1. Cuts(TailChunk, chunkStart, {}) /\ chunkStart # 0
      BY <2>2 DEF Flushes
    <3>2. gaps \subseteq gaps'
      BY <3>1 DEF Cuts, HandsOver
    <3>3. TailChunk[1] \in Nat /\ chunkStart \in Nat /\ TailChunk[1] <= chunkStart
      BY <3>1, Numbers DEF Cuts, ChunkPair, Time
    <3>4. lastAudio # 0 => \A t \in Nat : lastAudio <= t /\ t < TailChunk[1] => t \in gaps'
      BY <3>1, <3>2, <3>3, Numbers, SMTT(30) DEF GapsComplete
    <3> QED
      BY <1>0, <2>1, <3>1, <3>4, ChunksGrow
  <2>3. CASE ThrowsAway
    BY <1>3, <2>1, <2>3 DEF ThrowsAway
  <2> QED
    BY <2>1, <2>2, <2>3
<1>7. CASE TakeChunk
  <2>1. /\ asr = "get" /\ asr' = "busy" /\ queue # <<>> /\ hand' = Head(queue) /\ queue' = Tail(queue)
        /\ UNCHANGED <<service, latest, lastAudio, first>>
    BY <1>7 DEF TakeChunk
  <2>2. /\ hand' = queue[1] /\ 1 \in DOMAIN queue
        /\ \A i \in DOMAIN queue' : i \in Nat /\ i + 1 \in DOMAIN queue /\ queue'[i] = queue[i + 1]
    BY <2>1, Numbers DEF CoverageTypeOK
  <2>3. /\ \A k \in Nat, t \in Nat : CoveredFrom(k + 1, t) => CoveredFrom(k, t)'
        /\ \A t \in Nat : CoveredFrom(0, t) => CoveredFrom(0, t)'
    BY <1>7, CoveredMovesUp
  <2>4. Whole(0, hand[1])'
    <3>1. Whole(1, queue[1][1])
      BY <2>2 DEF ChunksComplete
    <3>2. \A t \in Nat : CoveredFrom(1, t) => CoveredFrom(0, t)'
      <4>1. 0 + 1 = 1 /\ 0 \in Nat
        OBVIOUS
      <4> QED
        BY <2>3, <4>1
    <3> QED
      BY <2>1, <2>2, <3>1, <3>2 DEF Whole
  <2>5. ASSUME NEW i \in DOMAIN queue' PROVE Whole(i, queue[i][1])'
    <3>1. i \in Nat /\ Whole(i + 1, queue[i + 1][1]) /\ queue'[i] = queue[i + 1]
      BY <2>2 DEF ChunksComplete
    <3> QED
      BY <2>1, <2>3, <3>1 DEF Whole
  <2>6. Up' /\ first'[latest'] # 0 => lastAudio' # 0 /\ Whole(0, first[latest])'
    BY <2>1, <2>3 DEF ChunksComplete, Whole, Up
  <2> QED
    BY <2>4, <2>5, <2>6 DEF ChunksComplete
<1>8. CASE Transcribed \/ FailureReported
  <2>1. /\ Busy /\ Completed /\ ~Busy' /\ UNCHANGED <<service, latest, queue, lastAudio>>
        /\ asr = "busy" => done' = done \cup Span(hand)
    BY <1>8 DEF Transcribed, FailureReported, Busy, Completed
  <2>2. asr = "busy" => Span(hand) \subseteq Kept'
    BY <2>1 DEF Kept
  <2>3. \A k, t : CoveredFrom(k, t) => CoveredFrom(k, t)'
    BY <1>0, <2>1, <2>2, CoveredStays
  <2>4. lastAudio # 0
    BY <2>1, HandIsCurrent
  <2>5. ASSUME Up', first'[latest'] # 0, NEW t \in Nat, first'[latest'] <= t, t < lastAudio
        PROVE  CoveredFrom(0, t)
    <3>1. CASE first[latest] = 0
      <4>1. first'[latest'] = hand[1]
        BY <2>1, <3>1, CompletedMoves
      <4> QED
        BY <2>1, <2>5, <4>1 DEF ChunksComplete, Whole
    <3>2. CASE first[latest] # 0
      <4>1. first'[latest'] = first[latest] /\ Up
        BY <2>1, <2>5, <3>2, CompletedMoves DEF Up
      <4> QED
        BY <2>5, <3>2, <4>1 DEF ChunksComplete, Whole
    <3> QED
      BY <3>1, <3>2
  <2> QED
    BY <2>1, <2>3, <2>4, <2>5, ChunksStay
<1>9. CASE TranscriptionFails \/ PersistLost
  <2>1. /\ Busy /\ asr' # "busy" /\ UNCHANGED <<service, latest, queue, lastAudio, first>>
        /\ Busy' => hand' = hand
    BY <1>9 DEF TranscriptionFails, PersistLost, Busy
  <2>2. Span(hand) \subseteq Kept'
    BY <1>9 DEF TranscriptionFails, PersistLost, Kept, Span, Recorded
  <2>3. \A k, t : CoveredFrom(k, t) => CoveredFrom(k, t)'
    BY <1>0, <2>1, <2>2, CoveredStays
  <2> QED
    BY <2>1, <2>3, ChunksStay DEF ChunksComplete, Whole, Up
<1> QED
  BY <1>1, <1>2, <1>4, <1>5, <1>6, <1>7, <1>8, <1>9 DEF CoverageNext

(* What a session has completed up to lastEnd is in the tables, and so is  *)
(* all of a session that has a successor.                                  *)
LEMMA TablesCompleteStep ==
  CoverageTypeOK /\ Shape /\ Sessions /\ InLine /\ ChunksComplete /\ TablesComplete
    /\ [CoverageNext]_coverageVars => TablesComplete'
<1> SUFFICES ASSUME CoverageTypeOK, Shape, Sessions, InLine, ChunksComplete, TablesComplete,
                    [CoverageNext]_coverageVars
             PROVE  TablesComplete'
  OBVIOUS
<1> USE DEF history, tables, worker, stream
<1>0. Kept \subseteq Kept' /\ latest \in Nat /\ latest <= SessionLimit /\ now \in Nat
  BY KeptGrows, Numbers
<1>1. CASE StartService
  <2>1. /\ latest' = latest + 1 /\ latest + 1 \in SessionNo /\ UNCHANGED <<first, lastEnd>>
        /\ gaps' = gaps \cup RestartGap /\ started' = [started EXCEPT ![latest + 1] = now]
    BY <1>0, <1>1 DEF StartService, SessionNo
  <2>2. first'[latest'] = 0
    BY <1>0, <2>1 DEF Sessions
  <2>3. /\ started'[latest + 1] = now
        /\ \A s \in 1 .. latest - 1 : started'[s + 1] = started[s + 1]
    BY <1>0, <2>1 DEF CoverageTypeOK, SessionNo
  <2>4. ASSUME NEW s \in 1 .. latest, first[s] # 0,
               NEW t \in first[s] .. started'[s + 1] - 1
        PROVE  t \in Kept'
    <3>1. s \in SessionNo /\ first[s] \in Nat /\ lastEnd[s] \in Nat
      BY <1>0, Numbers, SMTT(30) DEF SessionNo
    <3>2. CASE s = latest
      <4>1. t \in first[s] .. now - 1 /\ lastEnd[s] # 0
        BY <1>0, <2>3, <2>4, <3>2 DEF Sessions
      <4>2. CASE t < lastEnd[s]
        <5>1. t \in first[latest] .. lastEnd[latest] - 1
          BY <1>0, <3>1, <3>2, <4>1, <4>2
        <5> QED
          BY <1>0, <2>4, <3>2, <5>1 DEF TablesComplete
      <4>3. CASE lastEnd[s] <= t
        <5>1. t \in RestartGap
          BY <1>0, <3>1, <3>2, <4>1, <4>3 DEF RestartGap
        <5> QED
          BY <2>1, <5>1 DEF Kept
      <4> QED
        BY <1>0, <3>1, <4>1, <4>2, <4>3
    <3>3. CASE s # latest
      <4>1. s \in 1 .. latest - 1
        BY <1>0, <3>3
      <4>2. t \in first[s] .. started[s + 1] - 1
        BY <2>3, <2>4, <4>1
      <4> QED
        BY <1>0, <2>4, <4>1, <4>2 DEF TablesComplete
    <3> QED
      BY <3>2, <3>3
  <2>5. 1 .. latest' - 1 = 1 .. latest
    BY <1>0, <2>1
  <2> QED
    BY <2>1, <2>2, <2>4, <2>5 DEF TablesComplete
<1>2. CASE Transcribed \/ FailureReported
  <2>1. /\ Busy /\ Completed /\ UNCHANGED <<latest, started>>
        /\ asr = "busy" => done' = done \cup Span(hand)
    BY <1>2 DEF Transcribed, FailureReported, Busy, Completed
  <2>2. /\ latest \in SessionNo /\ hand[1] \in Nat /\ hand[2] \in Nat /\ lastAudio \in Nat
        /\ hand[2] <= lastAudio /\ Up
    BY <2>1, HandIsCurrent DEF Up, Shape, Busy
  <2>3. /\ lastEnd'[latest] = hand[2] /\ first'[latest] \in Nat
        /\ first'[latest] = IF first[latest] = 0 THEN hand[1] ELSE first[latest]
        /\ \A s \in SessionNo : s # latest => first'[s] = first[s]
    BY <2>1, CompletedMoves
  <2>4. PICK from \in Nat : from = first'[latest]
    BY <2>3
  <2>5. Whole(0, from)
    BY <2>1, <2>2, <2>3, <2>4 DEF ChunksComplete
  <2>6. ASSUME NEW t \in from .. hand[2] - 1 PROVE t \in Kept'
    <3>1. t \in Nat /\ t < hand[2] /\ from <= t /\ t < lastAudio
      BY <2>2, <2>4
    <3>2. CoveredFrom(0, t)
      BY <2>5, <3>1 DEF Whole
    <3>3. ~(hand[2] <= t)
      BY <2>2, <3>1
    <3>4. t \in Kept \/ (asr = "busy" /\ t \in Span(hand))
      BY <2>1, <3>2, <3>3 DEF CoveredFrom
    <3> QED
      BY <1>0, <2>1, <3>4 DEF Kept
  <2>7. ASSUME NEW s \in 1 .. latest - 1, first'[s] # 0,
               NEW t \in first'[s] .. started[s + 1] - 1
        PROVE  t \in Kept'
    <3>1. s \in SessionNo /\ s # latest /\ first'[s] = first[s]
      BY <1>0, <2>3 DEF SessionNo
    <3> QED
      BY <1>0, <2>7, <3>1 DEF TablesComplete
  <2> QED
    BY <2>1, <2>3, <2>4, <2>6, <2>7 DEF TablesComplete
<1>3. CASE UNCHANGED <<latest, started, lastEnd, first>>
  BY <1>0, <1>3 DEF TablesComplete
<1>4. CASE Hear \/ Burst
  BY <1>3, <1>4, ReadMoves DEF Reads
<1>5. CASE Disconnect \/ Stop
  BY <1>3, <1>5, FlushTailFlushes DEF Disconnect, Stop
<1>6. CASE Miss \/ Connect \/ TakeChunk \/ TranscriptionFails \/ PersistLost
  BY <1>3, <1>6 DEF Miss, Connect, TakeChunk, TranscriptionFails, PersistLost
<1>7. CASE Stopped \/ Crash \/ UNCHANGED coverageVars
  BY <1>3, <1>7 DEF Stopped, Crash, Forget, coverageVars
<1> QED
  BY <1>1, <1>2, <1>4, <1>5, <1>6, <1>7 DEF CoverageNext

-------------------------------------------------------------------------------
LEMMA CoverageStarts == CoverageInit => CoverageInv
<1> SUFFICES ASSUME CoverageInit PROVE CoverageInv
  OBVIOUS
<1> USE DEF CoverageInit, Quiet, NoChunk
<1>1. CoverageTypeOK
  <2>1. <<>> \in Seq(ChunkPair) /\ Len(<<>>) = 0 /\ <<0, 0>> \in ChunkPair /\ 0 \in Time
    BY DEF ChunkPair, Time
  <2> QED
    BY <2>1 DEF CoverageTypeOK
<1>2. Shape /\ Sessions
  BY DEF Shape, Sessions, SessionNo
<1>3. InLine /\ Clear /\ AllAttended
  BY DEF InLine, HandInLine, QueueInLine, StreamInLine, Busy, Clear, Apart, AllAttended
<1>4. Complete
  BY DEF Complete, ChunksComplete, GapsComplete, TablesComplete, Busy, Up
<1> QED
  BY <1>1, <1>2, <1>3, <1>4 DEF CoverageInv

LEMMA CoverageStep == CoverageInv /\ [CoverageNext]_coverageVars => CoverageInv'
BY TypeStep, ShapeStep, SessionsStep, InLineStep, ClearStep, AttendedStep, ChunksCompleteStep,
   GapsCompleteStep, TablesCompleteStep DEF CoverageInv, Complete

(* What is in the tables, in the process, or in a gap to come, is all.     *)
LEMMA CoverageAccounts ==
  ASSUME CoverageInv, NEW s \in 1 .. latest, first[s] # 0,
         NEW t \in (first[s] .. SessionEnd(s) - 1) \ (lost \cup Lag)
  PROVE  Accounted(t)
<1> USE DEF CoverageInv, Complete
<1>0. /\ latest \in Nat /\ s \in SessionNo /\ first[s] \in Nat /\ now \in Nat /\ lastAudio \in Nat
      /\ chunkStart \in Nat /\ buf \in Nat /\ latest \in SessionNo /\ lastEnd[s] \in Nat
  BY Numbers, SMTT(30) DEF SessionNo
<1>1. t \in Kept => t \in done \cup gaps
  BY DEF Kept
<1>2. CASE s # latest
  <2>1. s \in 1 .. latest - 1 /\ t \in first[s] .. started[s + 1] - 1
    BY <1>0, <1>2 DEF SessionEnd
  <2> QED
    BY <1>1, <2>1 DEF TablesComplete, Accounted
<1>3. CASE s = latest
  <2>1. t \in first[latest] .. now - 1 /\ t \in Nat /\ first[latest] \in Nat /\ first[latest] <= t
    BY <1>0, <1>3 DEF SessionEnd
  <2>2. CASE service # "up"
    <3>1. lastEnd[latest] # 0
      BY <1>3 DEF Sessions
    <3>2. CASE t < lastEnd[latest]
      <4>1. t \in first[latest] .. lastEnd[latest] - 1
        BY <1>0, <1>3, <2>1, <3>2
      <4> QED
        BY <1>0, <1>1, <1>3, <4>1 DEF TablesComplete, Accounted
    <3>3. CASE lastEnd[latest] <= t
      BY <2>2, <3>1, <3>3 DEF Accounted
    <3> QED
      BY <1>0, <1>3, <2>1, <3>2, <3>3
  <2>3. CASE service = "up"
    <3>1. lastAudio # 0 /\ Whole(0, first[latest])
      BY <1>3, <2>3 DEF ChunksComplete, Up
    <3>2. CASE t < lastAudio
      <4>1. CoveredFrom(0, t)
        BY <2>1, <3>1, <3>2 DEF Whole
      <4>2. t \in Kept \/ t \in Held
        BY <4>1 DEF CoveredFrom, Held
      <4> QED
        BY <1>1, <4>2 DEF Accounted
    <3>3. CASE lastAudio <= t /\ chunkStart # 0
      <4>1. CASE t < chunkStart
        BY <1>0, <2>1, <3>1, <3>3, <4>1 DEF GapsComplete, Accounted
      <4>2. CASE chunkStart <= t /\ t < chunkStart + buf
        <5>1. t \in chunkStart .. chunkStart + buf - 1
          BY <1>0, <2>1, <4>2
        <5>2. t \in Held
          BY <3>3, <5>1 DEF Held
        <5> QED
          BY <5>2 DEF Accounted
      <4>3. CASE chunkStart + buf <= t
        <5>1. t \in Lag
          BY <1>0, <2>1, <3>3, <4>3 DEF Lag
        <5> QED
          BY <5>1
      <4> QED
        BY <1>0, <2>1, <4>1, <4>2, <4>3
    <3>4. CASE lastAudio <= t /\ chunkStart = 0
      BY <2>3, <3>1, <3>4 DEF Shape, GapsComplete, Accounted
    <3> QED
      BY <1>0, <2>1, <3>2, <3>3, <3>4
  <2> QED
    BY <2>2, <2>3
<1> QED
  BY <1>2, <1>3

(* For every chunk length, flush limit, queue, burst and number of         *)
(* sessions: from the first chunk a session completes on, the tables, the  *)
(* process and the gaps to come account for every slot (capture.py,        *)
(* worker.py and the recovery of storage.py together); a slot that is both *)
(* transcribed and in a gap, or transcribed but not on the air while a     *)
(* connection gave audio, is one that a chunk was dated back over; and     *)
(* nothing is dated into the future.                                       *)
THEOREM EverySlotIsAccountedFor == CoverageSpec => []EverySlotAccountedFor
<1>1. CoverageInv => EverySlotAccountedFor
  <2> SUFFICES ASSUME CoverageInv PROVE EverySlotAccountedFor
    OBVIOUS
  <2>1. \A s \in 1 .. latest : first[s] # 0 =>
          \A t \in (first[s] .. SessionEnd(s) - 1) \ (lost \cup Lag) : Accounted(t)
    BY CoverageAccounts
  <2>2. done \cap gaps \subseteq backdated /\ done \subseteq attended \cup backdated
    BY DEF CoverageInv, Clear, Apart, AllAttended, Known
  <2>3. \A t \in done \cup gaps : t < now
    <3>1. now \in Nat /\ DoneEnd \in Nat /\ DoneEnd <= now /\ done \subseteq Nat
      BY Numbers, DoneEndIsTime DEF CoverageInv
    <3> QED
      BY <3>1 DEF CoverageInv, Clear
  <2> QED
    BY <2>1, <2>2, <2>3 DEF CoverageInv, EverySlotAccountedFor
<1> QED
  BY <1>1, CoverageStarts, CoverageStep, PTL DEF CoverageSpec

===============================================================================
