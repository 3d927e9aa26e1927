------------------------ MODULE ScannerOperationsProofs ------------------------
(***************************************************************************)
(* Proofs about ScannerRetention, for any number of chunks, any retention  *)
(* times, and any number of faults and restores; about ScannerProcesses,   *)
(* for any number of processes and feeds; about TranscriptPanel, for every *)
(* number of rows, every size of a page, of the panel and of a             *)
(* subscriber's queue, and every number of fetches on their way; and about *)
(* ScannerCapture and ScannerHealth, for every time-out, back-off, delay   *)
(* of the first bytes, size of the queue and threshold of staleness.       *)
(***************************************************************************)
EXTENDS ScannerRetention, ScannerProcesses, TranscriptPanelProps, ScannerHealth,
        FiniteSetTheorems, SequenceTheorems, TLAPS

Late(c) == Expired(c, policy.audio, now) \/ Expired(c, policy.text, now)

\* What any copy of the table may say of a chunk, the ones a rollback, a kill or a restore
\* can bring back included: no copy has a row of a chunk that is still being transcribed.
SoundRow(copy, c) ==
  /\ copy[c] = "held" /\ c \notin wav => Late(c)
  /\ copy[c] = "purged" /\ c \in wav => c \in stray
  /\ copy[c] # "none" => c \in Cut /\ c \notin unfinished

Sound(copy) == \A c \in Chunk : SoundRow(copy, c)

\* The sweep is the service's, does not run by a time to come, and has only what is due to do.
SweepIsDue ==
  /\ swept <= now
  /\ proc # "up" => sweep = "idle"
  /\ \A c \in due : /\ sweep = "audio" => Expired(c, policy.audio, swept)
                    /\ sweep = "text" => Expired(c, policy.text, swept)
                    /\ sweep # "idle" /\ tx[c] # "none"

ClaimsAreSound ==
  /\ RetentionTypeOK
  /\ Sound(row) /\ Sound(main) /\ Sound(tx) /\ Sound(saved)
  /\ \A c \in unfinished : c \in Cut /\ c \in wav
  /\ SweepIsDue

USE DEF Chunk, RowState, Table, Cut

-----------------------------------------------------------------------------
LEMMA PoliciesAreNumbers == policy \in Policies => policy.audio \in Nat /\ policy.text \in Nat
BY RetentionConstants

\* What is late stays late.
LEMMA LateStays ==
  ASSUME ClaimsAreSound, NEW c \in Chunk, Late(c),
         policy' = policy, now' \in Nat, now <= now',
         c \in Cut => c \in Cut' /\ ends'[c] = ends[c]
  PROVE  Late(c)'
<1>1. c \in Cut /\ ends[c] \in Nat
  BY RetentionConstants DEF Late, Expired, ClaimsAreSound, RetentionTypeOK
<1>2. policy.audio \in Nat /\ policy.text \in Nat /\ now \in Nat
  BY PoliciesAreNumbers DEF ClaimsAreSound, RetentionTypeOK
<1>3. CASE ends[c] + policy.audio <= now
  <2>1. ends'[c] + policy'.audio <= now'
    BY <1>1, <1>2, <1>3
  <2> QED
    BY <1>1, <2>1 DEF Late, Expired
<1>4. CASE ends[c] + policy.text <= now
  <2>1. ends'[c] + policy'.text <= now'
    BY <1>1, <1>2, <1>4
  <2> QED
    BY <1>1, <2>1 DEF Late, Expired
<1> QED
  BY <1>3, <1>4 DEF Late, Expired

\* What every step does: time passes, recordings of chunks that are late go, new chunks
\* come, and chunks are finished.
Grows ==
  /\ policy' = policy /\ now' \in Nat /\ now <= now'
  /\ \A c \in Cut : /\ c \in Cut' /\ ends'[c] = ends[c]
                    /\ c \notin wav => c \notin wav'
                    /\ c \in wav /\ c \notin wav' => Late(c)
                    /\ c \notin unfinished => c \notin unfinished'
  /\ stray \subseteq stray'

\* Sound(copy) after the step, of a copy of before it.
SoundAfter(copy) ==
  \A c \in Chunk : /\ copy[c] = "held" /\ c \notin wav' => Late(c)'
                   /\ copy[c] = "purged" /\ c \in wav' => c \in stray'
                   /\ copy[c] # "none" => c \in Cut' /\ c \notin unfinished'

LEMMA SoundStays ==
  ASSUME ClaimsAreSound, Grows, NEW copy \in Table, Sound(copy)
  PROVE  SoundAfter(copy)
<1> SUFFICES ASSUME NEW c \in Chunk
             PROVE  /\ copy[c] = "held" /\ c \notin wav' => Late(c)'
                    /\ copy[c] = "purged" /\ c \in wav' => c \in stray'
                    /\ copy[c] # "none" => c \in Cut' /\ c \notin unfinished'
  BY DEF SoundAfter
<1>1. CASE copy[c] = "none"
  BY <1>1
<1>2. CASE copy[c] # "none"
  <2>1. c \in Cut /\ c \notin unfinished
    BY <1>2 DEF Sound, SoundRow
  <2>2. copy[c] = "held" /\ c \notin wav' => Late(c)
    BY <2>1 DEF Sound, SoundRow, Grows
  <2>3. Late(c) => Late(c)'
    BY <2>1, LateStays DEF Grows
  <2>4. copy[c] = "purged" /\ c \in wav' => c \in stray'
    BY <2>1 DEF Sound, SoundRow, Grows
  <2> QED
    BY <2>1, <2>2, <2>3, <2>4 DEF Grows
<1> QED
  BY <1>1, <1>2

\* So a step that only moves whole tables about keeps all of them sound.
LEMMA TablesStay ==
  ASSUME ClaimsAreSound, Grows, RetentionTypeOK',
         row' \in {row, main, tx, saved}, main' \in {row, main, tx, saved},
         tx' \in {row, main, tx, saved}, saved' \in {row, main, tx, saved}
  PROVE  Sound(row)' /\ Sound(main)' /\ Sound(tx)' /\ Sound(saved)'
<1>1. row \in Table /\ main \in Table /\ tx \in Table /\ saved \in Table
  BY DEF ClaimsAreSound, RetentionTypeOK
<1>2. SoundAfter(row)
  BY <1>1, SoundStays DEF ClaimsAreSound
<1>3. SoundAfter(main)
  BY <1>1, SoundStays DEF ClaimsAreSound
<1>4. SoundAfter(tx)
  BY <1>1, SoundStays DEF ClaimsAreSound
<1>5. SoundAfter(saved)
  BY <1>1, SoundStays DEF ClaimsAreSound
<1>6. Sound(row)'
  BY <1>2, <1>3, <1>4, <1>5 DEF SoundAfter, Sound, SoundRow
<1>7. Sound(main)'
  BY <1>2, <1>3, <1>4, <1>5 DEF SoundAfter, Sound, SoundRow
<1>8. Sound(tx)'
  BY <1>2, <1>3, <1>4, <1>5 DEF SoundAfter, Sound, SoundRow
<1>9. Sound(saved)'
  BY <1>2, <1>3, <1>4, <1>5 DEF SoundAfter, Sound, SoundRow
<1> QED
  BY <1>6, <1>7, <1>8, <1>9

-----------------------------------------------------------------------------
LEMMA ClaimsInit == RetentionInit => ClaimsAreSound
<1> SUFFICES ASSUME RetentionInit PROVE ClaimsAreSound
  OBVIOUS
<1>1. RetentionTypeOK
  BY RetentionConstants DEF RetentionInit, RetentionTypeOK
<1> QED
  BY <1>1 DEF RetentionInit, ClaimsAreSound, Sound, SoundRow, SweepIsDue

LEMMA UnlinkTypes ==
  ASSUME RetentionTypeOK, NEW c \in Chunk, Unlink(c) \/ UNCHANGED <<wav, faults, stray>>
  PROVE  wav' \subseteq Chunk /\ faults' \in 0 .. MaxFaults /\ stray' \subseteq Chunk
<1>1. CASE UNCHANGED <<wav, faults, stray>>
  BY <1>1 DEF RetentionTypeOK
<1>2. CASE wav' = wav \ {c} /\ UNCHANGED <<faults, stray>>
  BY <1>2 DEF RetentionTypeOK
<1>3. CASE c \in wav /\ Fault /\ stray' = stray \cup {c} /\ UNCHANGED wav
  <2>1. faults' \in 0 .. MaxFaults
    BY <1>3, RetentionConstants DEF RetentionTypeOK, Fault
  <2> QED
    BY <1>3, <2>1 DEF RetentionTypeOK
<1> QED
  BY <1>1, <1>2, <1>3 DEF Unlink

LEMMA TypesNext == RetentionTypeOK /\ [RetentionNext]_retentionVars => RetentionTypeOK'
<1> SUFFICES ASSUME RetentionTypeOK, [RetentionNext]_retentionVars PROVE RetentionTypeOK'
  OBVIOUS
<1> USE RetentionConstants DEF RetentionTypeOK, service, sweeping, files
<1>1. CASE UNCHANGED retentionVars
  BY <1>1 DEF retentionVars
<1>2. CASE Tick
  BY <1>2 DEF Tick
<1>3. CASE CaptureChunk
  <2>1. Len(ends) \in Nat /\ Len(ends) + 1 \in Chunk
    BY <1>3 DEF CaptureChunk
  <2>2. ends' \in Seq(0 .. MaxTime)
    BY <1>3 DEF CaptureChunk
  <2>3. wav' \subseteq Chunk /\ unfinished' \subseteq Chunk
    BY <1>3, <2>1 DEF CaptureChunk
  <2> QED
    BY <1>3, <2>2, <2>3 DEF CaptureChunk
<1>4. CASE BeginSweep \/ SelectText
  BY <1>4 DEF BeginSweep, SelectText, AudioDue, TextDue
<1>5. CASE CommitSweep
  BY <1>5 DEF CommitSweep
<1>6. ASSUME NEW c \in Chunk, PurgeAudio(c) \/ PurgeText(c)
      PROVE  RetentionTypeOK'
  <2>1. CASE PurgeAudio(c)
    <3>1. wav' \subseteq Chunk /\ faults' \in 0 .. MaxFaults /\ stray' \subseteq Chunk
      BY <2>1, UnlinkTypes DEF PurgeAudio
    <3> QED
      BY <2>1, <3>1 DEF PurgeAudio
  <2>2. CASE PurgeText(c)
    <3>1. wav' \subseteq Chunk /\ faults' \in 0 .. MaxFaults /\ stray' \subseteq Chunk
      BY <2>2, UnlinkTypes DEF PurgeText
    <3> QED
      BY <2>2, <3>1 DEF PurgeText
  <2> QED
    BY <1>6, <2>1, <2>2
<1>7. CASE FailSweep
  BY <1>7 DEF FailSweep, Fault
<1>8. ASSUME NEW c \in Chunk, PersistChunk(c) \/ WithoutRow(c)
      PROVE  RetentionTypeOK'
  <2>1. CASE PersistChunk(c)
    BY <2>1 DEF PersistChunk
  <2>2. CASE WithoutRow(c)
    BY <2>2 DEF WithoutRow
  <2> QED
    BY <1>8, <2>1, <2>2
<1>9. CASE Checkpoint \/ Stop \/ Start
  BY <1>9 DEF Checkpoint, Stop, Start
<1>10. CASE Kill
  BY <1>10 DEF Kill, Fault
<1>11. CASE Backup \/ CopyBackup
  BY <1>11 DEF Backup, CopyBackup
<1>12. CASE BeginRestore
  <2>1. restores' \in 0 .. MaxRestores
    BY <1>12 DEF BeginRestore
  <2>2. stray' \subseteq Chunk /\ row' \in Table /\ tx' \in Table
    BY <1>12 DEF BeginRestore, RowsLost
  <2> QED
    BY <1>12, <2>1, <2>2 DEF BeginRestore
<1>13. CASE Replace
  BY <1>13 DEF Replace, RowsLost
<1> QED
  BY <1>1, <1>2, <1>3, <1>4, <1>5, <1>6, <1>7, <1>8, <1>9, <1>10, <1>11, <1>12, <1>13
  DEF RetentionNext, Sweep

-----------------------------------------------------------------------------
\* An unlink removes a recording that is late, or leaves it and says so.
LEMMA UnlinkGrows ==
  ASSUME ClaimsAreSound, NEW c \in due, Late(c), Unlink(c),
         UNCHANGED <<policy, now, ends, unfinished>>
  PROVE  Grows /\ (c \in wav' => c \in stray')
BY DEF Grows, Unlink, ClaimsAreSound, RetentionTypeOK

\* What the sweep has to do is late.
LEMMA DueIsLate ==
  ASSUME ClaimsAreSound, NEW c \in due
  PROVE  Late(c)
<1>1. policy.audio \in Nat /\ policy.text \in Nat /\ now \in Nat /\ swept \in Nat /\ swept <= now
  BY PoliciesAreNumbers DEF ClaimsAreSound, RetentionTypeOK, SweepIsDue
<1>2. sweep = "audio" \/ sweep = "text"
  BY DEF ClaimsAreSound, RetentionTypeOK, SweepIsDue
<1>3. c \in Cut => ends[c] \in Nat
  BY RetentionConstants DEF ClaimsAreSound, RetentionTypeOK
<1> QED
  BY <1>1, <1>2, <1>3 DEF Late, Expired, ClaimsAreSound, SweepIsDue

\* A step that changes neither chunks nor files, and whose tables are copies.
LEMMA QuietStep ==
  ASSUME ClaimsAreSound, RetentionTypeOK', UNCHANGED <<policy, service>>, stray \subseteq stray',
         row' \in {row, main, tx, saved}, main' \in {row, main, tx, saved},
         tx' \in {row, main, tx, saved}, saved' \in {row, main, tx, saved},
         SweepIsDue'
  PROVE  ClaimsAreSound'
<1>1. Grows
  BY DEF Grows, service, ClaimsAreSound, RetentionTypeOK
<1> QED
  BY <1>1, TablesStay DEF ClaimsAreSound, service

\* One recording goes with the row of the sweep that names it.
LEMMA PurgeStep ==
  ASSUME ClaimsAreSound, RetentionTypeOK', NEW c \in due, Unlink(c) \/ UNCHANGED <<wav, faults, stray>>,
         due' = due \ {c}, UNCHANGED <<proc, policy, now, ends, unfinished, row, sweep, swept, files>>,
         \/ tx' = [tx EXCEPT ![c] = "purged"] /\ Unlink(c)
         \/ tx' = tx
  PROVE  ClaimsAreSound'
<1>0. c \in Cut /\ c \notin unfinished
  <2>1. c \in Chunk /\ tx[c] # "none"
    BY DEF ClaimsAreSound, RetentionTypeOK, SweepIsDue
  <2> QED
    BY <2>1 DEF ClaimsAreSound, Sound, SoundRow
<1>1. Late(c)
  BY DueIsLate
<1>2. Grows
  <2>1. CASE Unlink(c)
    BY <1>1, <2>1, UnlinkGrows
  <2>2. CASE UNCHANGED <<wav, faults, stray>>
    BY <2>2 DEF Grows, ClaimsAreSound, RetentionTypeOK
  <2> QED
    BY <2>1, <2>2
<1>3. SoundAfter(row) /\ SoundAfter(main) /\ SoundAfter(saved) /\ SoundAfter(tx)
  <2>1. row \in Table /\ main \in Table /\ tx \in Table /\ saved \in Table
    BY DEF ClaimsAreSound, RetentionTypeOK
  <2> QED
    BY <1>2, <2>1, SoundStays DEF ClaimsAreSound
<1>4. Sound(row)' /\ Sound(main)' /\ Sound(saved)'
  BY <1>3 DEF SoundAfter, Sound, SoundRow, files
<1>5. Sound(tx)'
  <2>1. CASE tx' = tx
    BY <1>3, <2>1 DEF SoundAfter, Sound, SoundRow
  <2>2. CASE tx' = [tx EXCEPT ![c] = "purged"] /\ Unlink(c)
    <3>1. c \in Cut' /\ c \notin unfinished'
      BY <1>0
    <3>2. c \in wav' => c \in stray'
      BY <1>1, <2>2, UnlinkGrows
    <3> QED
      BY <1>3, <2>2, <3>1, <3>2 DEF SoundAfter, Sound, SoundRow, ClaimsAreSound, RetentionTypeOK
  <2> QED
    BY <2>1, <2>2
<1>6. SweepIsDue'
  BY DEF SweepIsDue, Expired, ClaimsAreSound, RetentionTypeOK
<1>7. \A d \in unfinished' : d \in Cut' /\ d \in wav'
  BY <1>0 DEF Unlink, ClaimsAreSound
<1> QED
  BY <1>4, <1>5, <1>6, <1>7 DEF ClaimsAreSound

\* The step of one chunk that is not finished: it gets a row, or none.
LEMMA FinishStep ==
  ASSUME ClaimsAreSound, RetentionTypeOK', NEW c \in unfinished, sweep = "idle",
         unfinished' = unfinished \ {c}, tx' = row',
         row' = row \/ row' = [row EXCEPT ![c] = "held"],
         UNCHANGED <<proc, policy, now, ends, wav, sweep, swept, due, files, stray>>
  PROVE  ClaimsAreSound'
<1>1. Grows
  BY DEF Grows, ClaimsAreSound, RetentionTypeOK
<1>2. SoundAfter(row) /\ SoundAfter(main) /\ SoundAfter(saved)
  <2>1. row \in Table /\ main \in Table /\ saved \in Table
    BY DEF ClaimsAreSound, RetentionTypeOK
  <2> QED
    BY <1>1, <2>1, SoundStays DEF ClaimsAreSound
<1>3. Sound(main)' /\ Sound(saved)'
  BY <1>2 DEF SoundAfter, Sound, SoundRow, files
<1>4. c \in Cut' /\ c \in wav' /\ c \notin unfinished'
  BY DEF ClaimsAreSound
<1>5. Sound(row)'
  BY <1>2, <1>4 DEF SoundAfter, Sound, SoundRow, ClaimsAreSound, RetentionTypeOK
<1>6. Sound(tx)'
  BY <1>5 DEF Sound, SoundRow
<1>7. due = {} /\ SweepIsDue'
  BY DEF ClaimsAreSound, SweepIsDue
<1> QED
  BY <1>3, <1>5, <1>6, <1>7 DEF ClaimsAreSound

LEMMA CaptureStep == ClaimsAreSound /\ RetentionTypeOK' /\ CaptureChunk => ClaimsAreSound'
<1> SUFFICES ASSUME ClaimsAreSound, RetentionTypeOK', CaptureChunk PROVE ClaimsAreSound'
  OBVIOUS
<1>1. /\ Len(ends) + 1 \notin Cut /\ Len(ends) + 1 \in Cut'
      /\ \A c \in Cut : c \in Cut' /\ ends'[c] = ends[c]
  <2>1. ends \in Seq(0 .. MaxTime) /\ now \in 0 .. MaxTime /\ ends' = Append(ends, now)
    BY DEF CaptureChunk, ClaimsAreSound, RetentionTypeOK
  <2>2. Cut = 1 .. Len(ends) /\ Cut' = 1 .. Len(ends) + 1 /\ Len(ends) \in Nat
    BY <2>1 DEF Cut
  <2>3. \A c \in 1 .. Len(ends) : ends'[c] = ends[c]
    BY <2>1
  <2> QED
    BY <2>2, <2>3
<1>2. Grows
  BY <1>1 DEF CaptureChunk, Grows, ClaimsAreSound, RetentionTypeOK
<1>3. Sound(row)' /\ Sound(main)' /\ Sound(tx)' /\ Sound(saved)'
  BY <1>2, TablesStay DEF CaptureChunk, sweeping, files
<1>4. \A c \in unfinished' : c \in Cut' /\ c \in wav'
  BY <1>1 DEF CaptureChunk, ClaimsAreSound
<1>5. SweepIsDue'
  BY <1>1 DEF CaptureChunk, sweeping, ClaimsAreSound, SweepIsDue, Expired
<1> QED
  BY <1>3, <1>4, <1>5 DEF ClaimsAreSound

LEMMA ClaimsNext == ClaimsAreSound /\ [RetentionNext]_retentionVars => ClaimsAreSound'
<1> SUFFICES ASSUME ClaimsAreSound, [RetentionNext]_retentionVars PROVE ClaimsAreSound'
  OBVIOUS
<1>0. RetentionTypeOK'
  BY TypesNext DEF ClaimsAreSound
<1>1. CASE UNCHANGED retentionVars
  <2>1. SweepIsDue'
    BY <1>1 DEF retentionVars, service, ClaimsAreSound, SweepIsDue, Expired, sweeping
  <2> QED
    BY <1>0, <1>1, <2>1, QuietStep DEF retentionVars, service, files, sweeping
<1>2. CASE Tick
  <2>1. Grows
    BY <1>2 DEF Tick, Grows, ClaimsAreSound, RetentionTypeOK
  <2>2. Sound(row)' /\ Sound(main)' /\ Sound(tx)' /\ Sound(saved)'
    BY <1>0, <1>2, <2>1, TablesStay DEF Tick, sweeping, files
  <2>3. SweepIsDue'
    BY <1>2 DEF Tick, sweeping, ClaimsAreSound, SweepIsDue, Expired, RetentionTypeOK
  <2> QED
    BY <1>0, <1>2, <2>2, <2>3 DEF Tick, ClaimsAreSound
<1>3. CASE CaptureChunk
  BY <1>0, <1>3, CaptureStep
<1>4. CASE BeginSweep
  <2>1. SweepIsDue'
    BY <1>4 DEF BeginSweep, service, SweepIsDue, AudioDue, Expired, ClaimsAreSound, RetentionTypeOK
  <2> QED
    BY <1>0, <1>4, <2>1, QuietStep DEF BeginSweep, files
<1>5. CASE SelectText
  <2>1. SweepIsDue'
    BY <1>5 DEF SelectText, service, SweepIsDue, TextDue, Expired, ClaimsAreSound
  <2> QED
    BY <1>0, <1>5, <2>1, QuietStep DEF SelectText, files
<1>6. CASE CommitSweep
  <2>1. Grows
    BY <1>6 DEF CommitSweep, service, Grows, ClaimsAreSound, RetentionTypeOK
  <2>2. SoundAfter(tx) /\ SoundAfter(main) /\ SoundAfter(saved)
    <3>1. tx \in Table /\ main \in Table /\ saved \in Table
      BY DEF ClaimsAreSound, RetentionTypeOK
    <3> QED
      BY <2>1, <3>1, SoundStays DEF ClaimsAreSound
  <2>3. Sound(main)' /\ Sound(saved)'
    BY <1>6, <2>2 DEF CommitSweep, files, SoundAfter, Sound, SoundRow
  <2>4. Sound(row)'
    BY <1>6, <2>2 DEF CommitSweep, SoundAfter, Sound, SoundRow
  <2>5. Sound(tx)'
    BY <1>6, <2>4 DEF CommitSweep, Sound, SoundRow
  <2>6. SweepIsDue' /\ \A c \in unfinished' : c \in Cut' /\ c \in wav'
    BY <1>6 DEF CommitSweep, service, SweepIsDue, ClaimsAreSound
  <2> QED
    BY <1>0, <2>3, <2>4, <2>5, <2>6 DEF ClaimsAreSound
<1>7. ASSUME NEW c \in Chunk, PurgeAudio(c)
      PROVE  ClaimsAreSound'
  BY <1>0, <1>7, PurgeStep DEF PurgeAudio
<1>8. ASSUME NEW c \in Chunk, PurgeText(c)
      PROVE  ClaimsAreSound'
  BY <1>0, <1>8, PurgeStep DEF PurgeText
<1>9. CASE FailSweep
  <2>1. SweepIsDue'
    BY <1>9 DEF FailSweep, service, SweepIsDue, ClaimsAreSound
  <2> QED
    BY <1>0, <1>9, <2>1, QuietStep DEF FailSweep, files
<1>10. ASSUME NEW c \in Chunk, PersistChunk(c) \/ WithoutRow(c)
       PROVE  ClaimsAreSound'
  <2>1. CASE PersistChunk(c)
    BY <1>0, <2>1, FinishStep DEF PersistChunk
  <2>2. CASE WithoutRow(c)
    <3>1. Grows
      BY <2>2 DEF WithoutRow, Grows, ClaimsAreSound, RetentionTypeOK
    <3>2. Sound(row)' /\ Sound(main)' /\ Sound(tx)' /\ Sound(saved)'
      BY <1>0, <2>2, <3>1, TablesStay DEF WithoutRow, sweeping, files
    <3>3. SweepIsDue'
      BY <2>2 DEF WithoutRow, sweeping, ClaimsAreSound, SweepIsDue, Expired
    <3> QED
      BY <1>0, <2>2, <3>2, <3>3 DEF WithoutRow, ClaimsAreSound
  <2> QED
    BY <1>10, <2>1, <2>2
<1>11. CASE Checkpoint \/ Stop \/ Start \/ Backup \/ CopyBackup
  <2>1. SweepIsDue'
    BY <1>11 DEF Checkpoint, Stop, Start, Backup, CopyBackup, service, sweeping, SweepIsDue, Expired,
                 ClaimsAreSound
  <2> QED
    BY <1>0, <1>11, <2>1, QuietStep DEF Checkpoint, Stop, Start, Backup, CopyBackup, service, sweeping, files
<1>12. CASE Kill
  <2>1. Grows
    BY <1>12 DEF Kill, Grows, ClaimsAreSound, RetentionTypeOK
  <2>2. Sound(row)' /\ Sound(main)' /\ Sound(tx)' /\ Sound(saved)'
    BY <1>0, <1>12, <2>1, TablesStay DEF Kill, files
  <2>3. SweepIsDue' /\ unfinished' = {}
    BY <1>12 DEF Kill, ClaimsAreSound, SweepIsDue
  <2> QED
    BY <1>0, <2>2, <2>3 DEF ClaimsAreSound
<1>13. CASE BeginRestore \/ Replace
  <2>1. sweep = "idle" /\ due = {}
    BY <1>13 DEF BeginRestore, Replace, ClaimsAreSound, SweepIsDue
  <2>2. CASE BeginRestore
    <3>1. SweepIsDue'
      BY <2>1, <2>2 DEF BeginRestore, service, SweepIsDue, ClaimsAreSound
    <3> QED
      BY <1>0, <2>2, <3>1, QuietStep DEF BeginRestore
  <2>3. CASE Replace
    <3>1. SweepIsDue'
      BY <2>1, <2>3 DEF Replace, service, SweepIsDue, ClaimsAreSound
    <3> QED
      BY <1>0, <2>3, <3>1, QuietStep DEF Replace
  <2> QED
    BY <1>13, <2>2, <2>3
<1> QED
  BY <1>1, <1>2, <1>3, <1>4, <1>5, <1>6, <1>7, <1>8, <1>9, <1>10, <1>11, <1>12, <1>13
  DEF RetentionNext, Sweep

\* What the rows claim of the recordings is true, through every kill, rollback and restore.
THEOREM RetentionIsTruthful == RetentionSpec => []AudioClaimsAreTrue
<1>1. ClaimsAreSound => AudioClaimsAreTrue
  BY DEF ClaimsAreSound, Sound, SoundRow, Late, AudioClaimsAreTrue
<1> QED
  BY ClaimsInit, ClaimsNext, <1>1, PTL DEF RetentionSpec

-------------------------------------------------------------------------------
(* THE PROCESSES                                                           *)

\* Every process that has begun has the lock of its feed, so the feed's sessions are its.
WorkersHoldLocks ==
  /\ ProcessTypeOK
  /\ \A p \in Process : step[p] # "idle" => holder[FeedOf[p]] = p
  /\ \A p \in Process : step[p] \in {"running", "stopping"} => active[FeedOf[p]] = {p}
  /\ \A p \in removing : step[p] = "building"

USE DEF Steps, Model, Checked

\* A process that gives its lock back takes nobody else's.
LEMMA FreedIsOwn ==
  ASSUME NEW p \in Process, NEW q \in Process, WorkersHoldLocks, step[q] # "idle", p # q
  PROVE  /\ Freed(p) \in [Feed -> Process \cup {Nobody}]
         /\ Freed(p)[FeedOf[q]] = q
BY ProcessConstants DEF Freed, WorkersHoldLocks, ProcessTypeOK

\* The lock has the type it had.
LEMMA FreedType ==
  ASSUME NEW p \in Process, ProcessTypeOK
  PROVE  Freed(p) \in [Feed -> Process \cup {Nobody}]
BY DEF Freed, ProcessTypeOK

LEMMA LocksInit == ProcessInit => WorkersHoldLocks
BY ProcessConstants DEF ProcessInit, WorkersHoldLocks, ProcessTypeOK

LEMMA LocksNext == WorkersHoldLocks /\ [ProcessNext]_processVars => WorkersHoldLocks'
<1> SUFFICES ASSUME WorkersHoldLocks, [ProcessNext]_processVars
             PROVE  WorkersHoldLocks'
  OBVIOUS
<1> USE ProcessConstants
<1>1. CASE UNCHANGED processVars
  BY <1>1 DEF WorkersHoldLocks, ProcessTypeOK, processVars
<1>2. ASSUME NEW p \in Process, ProcessStep(p)
      PROVE  WorkersHoldLocks'
  <2>1. CASE Acquire(p)
    BY <2>1 DEF Acquire, Go, WorkersHoldLocks, ProcessTypeOK
  <2>2. CASE NameOwner(p) \/ FromCache(p) \/ Download(p) \/ Convert(p) \/ Load(p) \/ StopWorker(p)
    <3>1. PICK to \in Steps \ {"idle"} :
            /\ step[p] # "idle" /\ p \notin removing /\ step' = [step EXCEPT ![p] = to]
            /\ to \in {"running", "stopping"} => step[p] = "running"
            /\ UNCHANGED <<holder, cache, removing, active, torn>>
      <4>1. CASE NameOwner(p)
        BY <4>1 DEF NameOwner, Go, WorkersHoldLocks
      <4>2. CASE FromCache(p)
        BY <4>2 DEF FromCache, Go, WorkersHoldLocks
      <4>3. CASE Download(p)
        BY <4>3 DEF Download, Go, WorkersHoldLocks
      <4>4. CASE Convert(p)
        BY <4>4 DEF Convert, Go, WorkersHoldLocks
      <4>5. CASE Load(p)
        BY <4>5 DEF Load, Go, WorkersHoldLocks
      <4>6. CASE StopWorker(p)
        BY <4>6 DEF StopWorker, Go, WorkersHoldLocks
      <4> QED
        BY <2>2, <4>1, <4>2, <4>3, <4>4, <4>5, <4>6
    <3> QED
      BY <3>1 DEF WorkersHoldLocks, ProcessTypeOK
  <2>3. CASE OpenOld(p) \/ RemoveFile(p) \/ Removed(p)
    <3>1. CASE OpenOld(p)
      BY <3>1 DEF OpenOld, WorkersHoldLocks, ProcessTypeOK
    <3>2. CASE RemoveFile(p)
      BY <3>2 DEF RemoveFile, WorkersHoldLocks, ProcessTypeOK
    <3>3. CASE Removed(p)
      BY <3>3 DEF Removed, Go, WorkersHoldLocks, ProcessTypeOK
    <3> QED
      BY <2>3, <3>1, <3>2, <3>3
  <2>4. CASE Install(p)
    <3>1. /\ step' \in [Process -> Steps]
          /\ \A q \in Process : /\ step'[q] # "idle" => step[q] # "idle"
                                /\ step'[q] \in {"running", "stopping"} => step'[q] = step[q]
      BY <2>4 DEF Install, WorkersHoldLocks, ProcessTypeOK
    <3> QED
      BY <2>4, <3>1 DEF Install, WorkersHoldLocks, ProcessTypeOK
  <2>5. CASE Recover(p)
    <3>1. \A q \in Process : step'[q] \in {"running", "stopping"} => active'[FeedOf[q]] = {q}
      BY <2>5 DEF Recover, Go, WorkersHoldLocks, ProcessTypeOK
    <3> QED
      BY <2>5, <3>1 DEF Recover, Go, WorkersHoldLocks, ProcessTypeOK
  <2>6. CASE CloseSession(p)
    <3>1. active' \in [Feed -> SUBSET Process]
      BY <2>6 DEF CloseSession, Go, WorkersHoldLocks, ProcessTypeOK
    <3>2. ASSUME NEW q \in Process, step'[q] \in {"running", "stopping"}
          PROVE  active'[FeedOf[q]] = {q}
      <4>1. q # p /\ step[q] = step'[q]
        BY <2>6, <3>2 DEF CloseSession, Go, WorkersHoldLocks, ProcessTypeOK
      <4>2. FeedOf[q] # FeedOf[p]
        BY <2>6, <3>2, <4>1 DEF CloseSession, Go, WorkersHoldLocks, ProcessTypeOK
      <4> QED
        BY <2>6, <3>2, <4>1, <4>2 DEF CloseSession, Go, WorkersHoldLocks, ProcessTypeOK
    <3> QED
      BY <2>6, <3>1, <3>2 DEF CloseSession, Go, WorkersHoldLocks, ProcessTypeOK
  <2>7. CASE StartFails(p) \/ Release(p) \/ Killed(p)
    <3>1. /\ step' = [step EXCEPT ![p] = "idle"] /\ holder' = Freed(p)
          /\ active' = active /\ cache' = cache /\ removing' \subseteq removing \ {p}
          /\ torn' \in BOOLEAN
      <4>1. CASE StartFails(p)
        BY <4>1 DEF StartFails, WorkersHoldLocks, ProcessTypeOK
      <4>2. CASE Release(p)
        BY <4>2 DEF Release, Go, WorkersHoldLocks, ProcessTypeOK
      <4>3. CASE Killed(p)
        BY <4>3 DEF Killed, WorkersHoldLocks, ProcessTypeOK
      <4> QED
        BY <2>7, <4>1, <4>2, <4>3
    <3>2. ProcessTypeOK'
      BY <3>1, FreedType DEF WorkersHoldLocks, ProcessTypeOK
    <3>3. ASSUME NEW q \in Process, step'[q] # "idle"
          PROVE  q # p /\ step'[q] = step[q] /\ holder'[FeedOf[q]] = q
      BY <3>1, <3>3, FreedIsOwn DEF WorkersHoldLocks, ProcessTypeOK
    <3>4. \A q \in removing' : step'[q] = "building"
      BY <3>1 DEF WorkersHoldLocks, ProcessTypeOK
    <3> QED
      BY <3>1, <3>2, <3>3, <3>4 DEF WorkersHoldLocks
  <2> QED
    BY <1>2, <2>1, <2>2, <2>3, <2>4, <2>5, <2>6, <2>7 DEF ProcessStep
<1> QED
  BY <1>1, <1>2 DEF ProcessNext

\* The lock does what storage.py:39 says: one worker per feed, whose session is the active
\* one, however many processes are started and wherever they fail or are killed.
THEOREM ProcessesAreExclusive == ProcessSpec => []OneWorker
<1>1. WorkersHoldLocks => OneWorker
  BY DEF WorkersHoldLocks, OneWorker
<1> QED
  BY LocksInit, LocksNext, <1>1, PTL DEF ProcessSpec

-----------------------------------------------------------------------------
\* A model in the cache that starts would take is whole, being replaced, or torn by a kill.
THEOREM CacheIsWholeUntilKill == ProcessSpec => []ModelIsWholeUntilKill
<1>1. ProcessInit => ModelIsWholeUntilKill
  BY DEF ProcessInit, ModelIsWholeUntilKill
<1>2. ModelIsWholeUntilKill /\ [ProcessNext]_processVars => ModelIsWholeUntilKill'
  <2> SUFFICES ASSUME ModelIsWholeUntilKill, [ProcessNext]_processVars
               PROVE  ModelIsWholeUntilKill'
    OBVIOUS
  <2>1. CASE UNCHANGED processVars
    BY <2>1 DEF ModelIsWholeUntilKill, processVars
  <2>2. ASSUME NEW p \in Process, ProcessStep(p)
        PROVE  ModelIsWholeUntilKill'
    <3>1. CASE \/ Acquire(p) \/ NameOwner(p) \/ StartFails(p) \/ FromCache(p) \/ Download(p)
               \/ Convert(p) \/ Load(p) \/ Recover(p) \/ StopWorker(p) \/ CloseSession(p) \/ Release(p)
      BY <3>1 DEF Acquire, NameOwner, StartFails, FromCache, Download, Convert, Load, Recover, StopWorker,
                  CloseSession, Release, ModelIsWholeUntilKill
    <3>2. CASE OpenOld(p) \/ RemoveFile(p)
      BY <3>2 DEF OpenOld, RemoveFile, ModelIsWholeUntilKill
    <3>3. CASE Removed(p)
      BY <3>3 DEF Removed, ModelIsWholeUntilKill
    <3>4. CASE Install(p)
      BY <3>4 DEF Install, ModelIsWholeUntilKill
    <3>5. CASE Killed(p)
      BY <3>5 DEF Killed, ModelIsWholeUntilKill
    <3> QED
      BY <2>2, <3>1, <3>2, <3>3, <3>4, <3>5 DEF ProcessStep
  <2> QED
    BY <2>1, <2>2 DEF ProcessNext
<1> QED
  BY <1>1, <1>2, PTL DEF ProcessSpec

-------------------------------------------------------------------------------
(* THE PANEL                                                               *)
(* Pages.  In a finite set with a total order, take the elements with      *)
(* fewer than n others above them: there are at most n, there are n if the *)
(* set has as many, and what lies above one of them is one of them.        *)
TotalOrder(S, R) ==
  /\ \A r \in S : <<r, r>> \notin R
  /\ \A r, s, t \in S : <<r, s>> \in R /\ <<s, t>> \in R => <<r, t>> \in R
  /\ \A r, s \in S : r = s \/ <<r, s>> \in R \/ <<s, r>> \in R

Top(S, R, n) == {r \in S : Cardinality({s \in S : <<r, s>> \in R}) < n}

LEMMA Ranks ==
  ASSUME NEW S, IsFiniteSet(S), NEW R, TotalOrder(S, R), NEW n \in Nat
  PROVE  /\ IsFiniteSet(Top(S, R, n)) /\ Cardinality(Top(S, R, n)) <= n
         /\ n <= Cardinality(S) => Cardinality(Top(S, R, n)) = n
         /\ \A r \in Top(S, R, n), s \in S : <<r, s>> \in R => s \in Top(S, R, n)
<1> DEFINE T == Top(S, R, n)
<1> DEFINE Above(r) == {s \in S : <<r, s>> \in R}
           f == [r \in S |-> Cardinality(Above(r))]
           N == Cardinality(S)
<1>0. N \in Nat
  BY FS_CardinalityType
<1>1. ASSUME NEW r \in S
      PROVE  /\ IsFiniteSet(Above(r)) /\ Cardinality(Above(r)) \in Nat
             /\ Cardinality(Above(r)) <= N - 1
  <2>1. Above(r) \in SUBSET S /\ r \notin Above(r)
    BY DEF TotalOrder
  <2>2. IsFiniteSet(Above(r)) /\ Cardinality(Above(r)) <= N /\ Cardinality(Above(r)) # N
    BY <2>1, FS_Subset
  <2>3. Cardinality(Above(r)) \in Nat
    BY <2>2, FS_CardinalityType
  <2> QED
    BY <1>0, <2>2, <2>3
<1>2. ASSUME NEW r \in S, NEW s \in S, <<r, s>> \in R
      PROVE  Cardinality(Above(s)) < Cardinality(Above(r))
  <2>1. Above(s) \in SUBSET Above(r) /\ Above(s) # Above(r)
    BY <1>2 DEF TotalOrder
  <2>2. Cardinality(Above(s)) <= Cardinality(Above(r)) /\ Cardinality(Above(s)) # Cardinality(Above(r))
    BY <1>1, <2>1, FS_Subset
  <2>3. Cardinality(Above(s)) \in Nat /\ Cardinality(Above(r)) \in Nat
    BY <1>1
  <2> QED
    BY <2>2, <2>3
<1>3. T = {r \in S : Cardinality(Above(r)) < n}
  BY DEF Top
<1> HIDE DEF Above, N, T
<1>4. /\ f \in [S -> 0 .. N - 1]
      /\ \A r, s \in S : <<r, s>> \in R => f[s] < f[r]
      /\ T = {r \in S : f[r] < n}
  BY <1>0, <1>1, <1>2, <1>3
<1> HIDE DEF f
<1>5. \A r \in S : f[r] \in Nat /\ f[r] <= N - 1
  BY <1>0, <1>4
<1>6. ASSUME NEW r \in S, NEW s \in S, f[r] = f[s] PROVE r = s
  <2>1. f[r] \in Nat /\ f[s] \in Nat
    BY <1>5
  <2>2. <<r, s>> \notin R /\ <<s, r>> \notin R
    BY <1>4, <1>6, <2>1
  <2> QED
    BY <2>2 DEF TotalOrder
<1>7. f \in Injection(S, 0 .. N - 1)
  BY <1>4, <1>6 DEF Injection, IsInjective
<1>8. IsFiniteSet(0 .. N - 1) /\ Cardinality(0 .. N - 1) = N
  BY <1>0, FS_Interval
<1>9. f \in Surjection(S, 0 .. N - 1)
  BY <1>7, <1>8, FS_Injection DEF N
<1>10. \A k \in 0 .. N - 1 : \E r \in S : f[r] = k
  BY <1>9 DEF Surjection
<1> DEFINE g == [r \in T |-> f[r]]
<1>11. /\ g \in [T -> 0 .. n - 1]
       /\ \A r \in T : g[r] = f[r]
  BY <1>4, <1>5
<1> HIDE DEF g
<1>12. g \in Injection(T, 0 .. n - 1)
  BY <1>4, <1>6, <1>11 DEF Injection, IsInjective
<1>13. IsFiniteSet(0 .. n - 1) /\ Cardinality(0 .. n - 1) = n
  BY FS_Interval
<1>14. /\ IsFiniteSet(T) /\ Cardinality(T) <= n
       /\ Cardinality(T) = n <=> g \in Surjection(T, 0 .. n - 1)
  BY <1>12, <1>13, FS_Injection
<1>15. ASSUME n <= N PROVE Cardinality(T) = n
  <2>1. \A k \in 0 .. n - 1 : k \in 0 .. N - 1 /\ k < n
    BY <1>0, <1>15
  <2>2. \A k \in 0 .. n - 1 : \E r \in T : g[r] = k
    BY <1>4, <1>10, <1>11, <2>1
  <2>3. g \in Surjection(T, 0 .. n - 1)
    BY <1>11, <2>2 DEF Surjection
  <2> QED
    BY <1>14, <2>3
<1>16. \A r \in T, s \in S : <<r, s>> \in R => s \in T
  BY <1>4, <1>5
<1> QED
  BY <1>14, <1>15, <1>16 DEF N, T

(* The greatest of a set that has an upper bound, and of two numbers.      *)
LEMMA MaxOfBounded ==
  ASSUME NEW n \in Nat, NEW S \in SUBSET (0 .. n), S # {}
  PROVE  Max(S) \in S /\ \A x \in S : x <= Max(S)
<1> DEFINE R == {p \in S \X S : p[1] < p[2]}
           T == Top(S, R, 1)
<1>0. IsFiniteSet(0 .. n)
  BY FS_Interval
<1>1. IsFiniteSet(S) /\ Cardinality(S) \in Nat /\ Cardinality(S) # 0
  BY <1>0, FS_Subset, FS_EmptySet, FS_CardinalityType
<1>2. \A r, s \in S : r \in Nat /\ (<<r, s>> \in R <=> r < s)
  OBVIOUS
<1> HIDE DEF R, T
<1>3. \A r, s, t \in S : <<r, s>> \in R /\ <<s, t>> \in R => <<r, t>> \in R
  BY <1>2
<1>4. ASSUME NEW r \in S, NEW s \in S PROVE r = s \/ <<r, s>> \in R \/ <<s, r>> \in R
  <2>1. r \in Nat /\ s \in Nat /\ (r < s => <<r, s>> \in R) /\ (s < r => <<s, r>> \in R)
    BY <1>2
  <2> QED
    BY <2>1
<1>5. \A r \in S : <<r, r>> \notin R
  BY <1>2
<1>6. Cardinality(T) = 1 /\ IsFiniteSet(T)
  <2>0. TotalOrder(S, R)
    BY <1>3, <1>4, <1>5 DEF TotalOrder
  <2>1. IsFiniteSet(T) /\ (1 <= Cardinality(S) => Cardinality(T) = 1)
    BY <1>1, <2>0, Ranks DEF T
  <2> QED
    BY <1>1, <2>1
<1>7. PICK t \in S : Cardinality({s \in S : <<t, s>> \in R}) < 1
  <2>1. T # {}
    BY <1>6, FS_EmptySet
  <2> QED
    BY <2>1 DEF T, Top
<1>8. {s \in S : <<t, s>> \in R} = {}
  <2>1. IsFiniteSet({s \in S : <<t, s>> \in R})
    BY <1>1, FS_Subset
  <2> QED
    BY <1>7, <2>1, FS_CardinalityType, FS_EmptySet
<1>9. ASSUME NEW x \in S PROVE t >= x
  <2>1. <<t, x>> \notin R /\ t \in Nat /\ x \in Nat
    BY <1>2, <1>8
  <2> QED
    BY <1>2, <2>1
<1> QED
  BY <1>2, <1>9 DEF Max

LEMMA MaxOfTwo ==
  ASSUME NEW a \in Nat, NEW b \in Nat
  PROVE  /\ Max({a, b}) \in {a, b}
         /\ a <= Max({a, b}) /\ b <= Max({a, b})
<1>1. \E x \in {a, b} : \A y \in {a, b} : x >= y
  <2>1. CASE a >= b
    BY <2>1
  <2>2. CASE b >= a
    BY <2>2
  <2> QED
    BY <2>1, <2>2
<1> QED
  BY <1>1 DEF Max

(* The newest and the oldest n rows of a set of rows.                      *)
LEMMA NewestPage ==
  ASSUME given \in Seq(Row), NEW S \in SUBSET DOMAIN given, NEW n \in Nat
  PROVE  /\ Newest(S, n) \subseteq S /\ IsFiniteSet(S)
         /\ IsFiniteSet(Newest(S, n)) /\ Cardinality(Newest(S, n)) <= n
         /\ n <= Cardinality(S) => Cardinality(Newest(S, n)) = n
         /\ \A r \in Newest(S, n), s \in S : Precedes(r, s) => s \in Newest(S, n)
<1> DEFINE R == {p \in S \X S : Precedes(p[1], p[2])}
<1>0. DOMAIN given = 1 .. Len(given) /\ IsFiniteSet(1 .. Len(given))
  BY FS_Interval
<1>1. IsFiniteSet(S)
  BY <1>0, FS_Subset
<1>2. \A r \in S : r \in Nat /\ given[r] \in Nat
  BY <1>0, PanelConstants DEF PanelConstants, Row
<1>3. \A r, s \in S : <<r, s>> \in R <=> Precedes(r, s)
  OBVIOUS
<1> HIDE DEF R
<1>4. \A r \in S : <<r, r>> \notin R
  BY <1>2, <1>3 DEF Precedes
<1>5. \A r, s, t \in S : <<r, s>> \in R /\ <<s, t>> \in R => <<r, t>> \in R
  BY <1>2, <1>3 DEF Precedes
<1>6. ASSUME NEW r \in S, NEW s \in S PROVE r = s \/ <<r, s>> \in R \/ <<s, r>> \in R
  <2>1. r \in Nat /\ s \in Nat /\ given[r] \in Nat /\ given[s] \in Nat
    BY <1>2
  <2>2. r = s \/ Precedes(r, s) \/ Precedes(s, r)
    BY <2>1 DEF Precedes
  <2> QED
    BY <1>3, <2>2
<1>7. Newest(S, n) = Top(S, R, n)
  <2>1. ASSUME NEW r \in S PROVE {s \in S : <<r, s>> \in R} = {s \in S : Precedes(r, s)}
    BY <1>3
  <2> QED
    BY <2>1 DEF Newest, Top
<1>8. TotalOrder(S, R)
  BY <1>4, <1>5, <1>6 DEF TotalOrder
<1>9. Newest(S, n) \subseteq S
  BY DEF Newest
<1>10. /\ IsFiniteSet(Newest(S, n)) /\ Cardinality(Newest(S, n)) <= n
       /\ n <= Cardinality(S) => Cardinality(Newest(S, n)) = n
       /\ \A r \in Newest(S, n), s \in S : <<r, s>> \in R => s \in Newest(S, n)
  BY <1>1, <1>7, <1>8, Ranks
<1>11. \A r \in Newest(S, n), s \in S : Precedes(r, s) => s \in Newest(S, n)
  BY <1>3, <1>9, <1>10
<1> QED
  BY <1>1, <1>9, <1>10, <1>11

LEMMA OldestPage ==
  ASSUME given \in Seq(Row), NEW S \in SUBSET DOMAIN given, NEW n \in Nat
  PROVE  Oldest(S, n) \subseteq S /\ Cardinality(Oldest(S, n)) <= n
<1> DEFINE R == {p \in S \X S : Precedes(p[2], p[1])}
<1>0. DOMAIN given = 1 .. Len(given) /\ IsFiniteSet(1 .. Len(given))
  BY FS_Interval
<1>1. IsFiniteSet(S)
  BY <1>0, FS_Subset
<1>2. \A r \in S : r \in Nat /\ given[r] \in Nat
  BY <1>0, PanelConstants DEF PanelConstants, Row
<1>3. \A r, s \in S : <<r, s>> \in R <=> Precedes(s, r)
  OBVIOUS
<1> HIDE DEF R
<1>4. \A r \in S : <<r, r>> \notin R
  BY <1>2, <1>3 DEF Precedes
<1>5. \A r, s, t \in S : <<r, s>> \in R /\ <<s, t>> \in R => <<r, t>> \in R
  BY <1>2, <1>3 DEF Precedes
<1>6. ASSUME NEW r \in S, NEW s \in S PROVE r = s \/ <<r, s>> \in R \/ <<s, r>> \in R
  <2>1. r \in Nat /\ s \in Nat /\ given[r] \in Nat /\ given[s] \in Nat
    BY <1>2
  <2>2. r = s \/ Precedes(r, s) \/ Precedes(s, r)
    BY <2>1 DEF Precedes
  <2> QED
    BY <1>3, <2>2
<1>7. Oldest(S, n) = Top(S, R, n)
  <2>1. ASSUME NEW r \in S PROVE {s \in S : <<r, s>> \in R} = {s \in S : Precedes(s, r)}
    BY <1>3
  <2> QED
    BY <2>1 DEF Oldest, Top
<1>8. TotalOrder(S, R)
  BY <1>4, <1>5, <1>6 DEF TotalOrder
<1>9. Oldest(S, n) \subseteq S
  BY DEF Oldest
<1> QED
  BY <1>1, <1>7, <1>8, <1>9, Ranks

(* While cursors grow with the rows.                                       *)
Growing == \A r \in DOMAIN given : given[r] = r

(* r is below n of the rows S, so it is not among the newest n.            *)
Below(r, S, n) == Cardinality({s \in S : r < s}) >= n

LEMMA NewestRows ==
  ASSUME given \in Seq(Row), Growing, NEW S \in SUBSET DOMAIN given, NEW n \in Nat \ {0}
  PROVE  /\ \A r \in Newest(S, n), s \in S : r < s => s \in Newest(S, n)
         /\ S # {} => Newest(S, n) # {}
         /\ \A r \in S \ Newest(S, n) : Below(r, S, n)
         /\ \A r \in Nat : Below(r, S, n) =>
              Below(r, Newest(S, n), n) /\ \A s \in Newest(S, n) : r < s
<1> DEFINE T == Newest(S, n)
<1>0. \A r \in DOMAIN given : r \in Nat
  OBVIOUS
<1>1. \A r, s \in S : Precedes(r, s) <=> r < s
  BY <1>0 DEF Precedes, Growing
<1>2. T = {r \in S : Cardinality({s \in S : r < s}) < n}
  <2>1. ASSUME NEW r \in S PROVE {s \in S : Precedes(r, s)} = {s \in S : r < s}
    BY <1>1
  <2> QED
    BY <2>1 DEF Newest
<1>3. /\ T \subseteq S /\ IsFiniteSet(S) /\ IsFiniteSet(T) /\ Cardinality(T) <= n
      /\ n <= Cardinality(S) => Cardinality(T) = n
      /\ \A r \in T, s \in S : Precedes(r, s) => s \in T
  BY NewestPage
<1> DEFINE U(r) == {s \in S : r < s}
<1>4. /\ \A r \in S : r \in T <=> Cardinality(U(r)) < n
      /\ \A r : Below(r, S, n) <=> Cardinality(U(r)) >= n
      /\ \A r, s : s \in U(r) <=> s \in S /\ r < s
  BY <1>2 DEF Below
<1> HIDE DEF T, U
<1>5. \A r \in T, s \in S : r < s => s \in T
  BY <1>1, <1>3
<1>6. ASSUME NEW r PROVE IsFiniteSet(U(r)) /\ Cardinality(U(r)) \in Nat /\ Cardinality(U(r)) <= Cardinality(S)
  <2>1. U(r) \in SUBSET S
    BY <1>4
  <2> QED
    BY <1>3, <2>1, FS_Subset, FS_CardinalityType
<1>7. Cardinality(S) \in Nat
  BY <1>3, FS_CardinalityType
<1>8. \A r \in S \ T : Below(r, S, n)
  BY <1>4, <1>6
<1>9. ASSUME S # {} PROVE T # {}
  <2>1. CASE n <= Cardinality(S)
    BY <1>3, <2>1, FS_EmptySet
  <2>2. CASE ~(n <= Cardinality(S))
    <3>1. PICK r \in S : TRUE
      BY <1>9
    <3>2. Cardinality(U(r)) < n
      BY <1>6, <1>7, <2>2
    <3> QED
      BY <1>4, <3>1, <3>2
  <2> QED
    BY <2>1, <2>2
<1>10. ASSUME NEW r \in Nat, Below(r, S, n)
       PROVE  Below(r, T, n) /\ \A s \in T : r < s
  <2>0. Cardinality(U(r)) >= n /\ Cardinality(U(r)) \in Nat /\ Cardinality(U(r)) <= Cardinality(S)
    BY <1>4, <1>6, <1>10
  <2>1. Cardinality(T) = n
    BY <1>3, <1>7, <2>0
  <2>2. ASSUME NEW t \in T PROVE r < t
    <3> SUFFICES ASSUME ~(r < t) PROVE FALSE
      OBVIOUS
    <3>1. t \in Nat /\ t <= r /\ t \in S
      BY <1>0, <1>3
    <3>2. U(r) \in SUBSET U(t)
      BY <1>0, <1>4, <3>1
    <3>3. Cardinality(U(r)) <= Cardinality(U(t)) /\ Cardinality(U(t)) \in Nat
      BY <1>6, <3>2, FS_Subset
    <3>4. Cardinality(U(t)) < n
      BY <1>4, <3>1
    <3> QED
      BY <2>0, <3>3, <3>4
  <2>3. {s \in T : r < s} = T
    BY <2>2
  <2>4. Cardinality({s \in T : r < s}) = n
    BY <2>1, <2>3, Zenon
  <2> QED
    BY <2>2, <2>4 DEF Below
<1> QED
  BY <1>5, <1>8, <1>9, <1>10 DEF T

-------------------------------------------------------------------------------
(* Types.                                                                  *)

AnswerType == [rows : SUBSET Nat, latest : Nat, whole : BOOLEAN, code : {0, 200, 404}]
RequestType == [kind : Kind, feed : ShownFeed, after : 0 .. MaxRows, answer : AnswerType]

(* An answer holds at most a page of rows, of those published.             *)
AnswerOK(a) == /\ a.rows \subseteq DOMAIN given /\ Cardinality(a.rows) <= PageLimit
               /\ a.latest <= Len(given)

PanelTypes ==
  /\ given \in Seq(Row) /\ Len(given) <= MaxRows
  /\ \A r \in DOMAIN given : given[r] <= r
  /\ table \subseteq DOMAIN given
  /\ announced \in 0 .. Len(given)
  /\ connected \in BOOLEAN
  /\ stream \in Seq(DOMAIN given) /\ Len(stream) <= StreamSize
  /\ feed \in ShownFeed
  /\ latest \in 0 .. Len(given)
  /\ shown \subseteq DOMAIN given /\ Cardinality(shown) <= MaxItems
  /\ requests \in Seq(RequestType) /\ Len(requests) <= MaxRequests
  /\ \A i \in DOMAIN requests : AnswerOK(requests[i].answer)
  /\ hazards \subseteq HazardKind

LEMMA Bounded ==
  ASSUME NEW S, NEW n \in Nat, NEW s \in Seq(S), Len(s) <= n
  PROVE  s \in BoundedSeq(S, n)
<1>1. Len(s) \in 0 .. n /\ s \in [1 .. Len(s) -> S]
  BY LenProperties
<1> QED
  BY <1>1 DEF BoundedSeq, SeqOf

LEMMA TypesFollow == PanelTypes => PanelTypeOK
<1> SUFFICES ASSUME PanelTypes PROVE PanelTypeOK
  OBVIOUS
<1> USE PanelConstants DEF PanelConstants
<1>1. given \in BoundedSeq(Row, MaxRows) /\ stream \in BoundedSeq(DOMAIN given, StreamSize)
  BY Bounded DEF PanelTypes
<1>2. \A i \in DOMAIN requests : requests[i] \in RequestType
  BY DEF PanelTypes
<1>3. \A i \in DOMAIN requests :
        /\ requests[i].kind \in Kind /\ requests[i].feed \in ShownFeed
        /\ requests[i].after \in 0 .. MaxRows
        /\ Cardinality(requests[i].answer.rows) <= PageLimit
  BY <1>2 DEF PanelTypes, AnswerOK, RequestType
<1>4. latest \in 0 .. MaxRows
  BY DEF PanelTypes
<1> QED
  BY <1>1, <1>3, <1>4 DEF PanelTypes, PanelTypeOK

(* COALESCE(MAX(published_seq), 0).                                        *)
LEMMA LatestCursorIs ==
  ASSUME PanelTypes
  PROVE  /\ LatestCursor \in Nat /\ LatestCursor <= Len(given)
         /\ \A r \in table : given[r] <= LatestCursor
         /\ LatestCursor = 0 \/ \E r \in table : given[r] = LatestCursor
<1> DEFINE S == {given[r] : r \in table} \cup {0}
<1>1. Len(given) \in Nat /\ DOMAIN given = 1 .. Len(given)
  BY DEF PanelTypes
<1>2. ASSUME NEW r \in table PROVE given[r] \in 0 .. Len(given)
  <2>1. given[r] \in Nat /\ given[r] <= r /\ r \in 1 .. Len(given)
    BY <1>1, PanelConstants DEF PanelTypes, Row, PanelConstants
  <2> QED
    BY <1>1, <2>1
<1>3. S \in SUBSET (0 .. Len(given)) /\ S # {}
  BY <1>1, <1>2
<1>4. Max(S) \in S /\ \A x \in S : x <= Max(S)
  BY <1>1, <1>3, MaxOfBounded
<1>5. LatestCursor = Max(S)
  BY DEF LatestCursor
<1>6. \A r \in table : given[r] \in S
  OBVIOUS
<1>7. \A x \in S : x = 0 \/ \E r \in table : given[r] = x
  OBVIOUS
<1> HIDE DEF S
<1>8. LatestCursor \in 0 .. Len(given)
  BY <1>3, <1>4, <1>5
<1> QED
  BY <1>1, <1>4, <1>5, <1>6, <1>7, <1>8

LEMMA ListingOK ==
  ASSUME PanelTypes, NEW after \in Nat
  PROVE  Listing(after) \in AnswerType /\ AnswerOK(Listing(after))
<1> DEFINE newer == {r \in table : given[r] > after}
           page == IF after > 0 THEN Oldest(newer, PageLimit) ELSE Newest(newer, PageLimit)
<1>1. newer \in SUBSET DOMAIN given /\ given \in Seq(Row) /\ PageLimit \in Nat
  BY PanelConstants DEF PanelTypes, PanelConstants
<1>2. page \subseteq newer /\ Cardinality(page) <= PageLimit
  BY <1>1, NewestPage, OldestPage
<1>3. DOMAIN given \subseteq Nat
  BY <1>1
<1>4. Listing(after) = [rows |-> page, latest |-> LatestCursor, whole |-> page = newer, code |-> 200]
  BY DEF Listing
<1> HIDE DEF page, newer
<1> QED
  BY <1>1, <1>2, <1>3, <1>4, LatestCursorIs DEF AnswerType, AnswerOK

LEMMA AnswerTyped ==
  ASSUME PanelTypes, NEW q \in RequestType
  PROVE  AnswerTo(q) \in AnswerType /\ AnswerOK(AnswerTo(q))
<1>1. Unanswered \in AnswerType /\ Unanswered.rows = {} /\ Unanswered.latest = 0
  BY DEF Unanswered, AnswerType
<1>2. NotFound \in AnswerType /\ NotFound.rows = {} /\ NotFound.latest = 0
  BY <1>1 DEF AnswerType, NotFound
<1>3. AnswerOK(NotFound)
  BY <1>2, FS_EmptySet, PanelConstants DEF AnswerOK, PanelTypes, PanelConstants
<1>4. q.after \in Nat
  BY DEF RequestType
<1> QED
  BY <1>2, <1>3, <1>4, ListingOK DEF AnswerTo

LEMMA Appended ==
  ASSUME NEW S, NEW q \in Seq(S), NEW x \in S
  PROVE  /\ Append(q, x) \in Seq(S) /\ Len(Append(q, x)) = Len(q) + 1 /\ Len(q) \in Nat
         /\ DOMAIN q = 1 .. Len(q) /\ DOMAIN Append(q, x) = 1 .. Len(q) + 1
         /\ \A i \in 1 .. Len(q) : Append(q, x)[i] = q[i]
         /\ Append(q, x)[Len(q) + 1] = x
OBVIOUS

LEMMA Taken ==
  ASSUME NEW S, NEW q \in Seq(S), q # <<>>
  PROVE  /\ Tail(q) \in Seq(S) /\ Len(Tail(q)) = Len(q) - 1 /\ Len(q) \in Nat \ {0}
         /\ DOMAIN q = 1 .. Len(q) /\ DOMAIN Tail(q) = 1 .. Len(q) - 1
         /\ \A i \in 1 .. Len(q) - 1 : Tail(q)[i] = q[i + 1]
         /\ Head(q) = q[1] /\ Head(q) \in S
OBVIOUS

LEMMA RequestRemoved ==
  ASSUME NEW S, NEW q \in Seq(S), NEW i \in DOMAIN q
  PROVE  /\ RemoveAt(q, i) \in Seq(S) /\ Len(RemoveAt(q, i)) = Len(q) - 1 /\ Len(q) \in Nat \ {0}
         /\ \A j \in DOMAIN RemoveAt(q, i) : \E k \in DOMAIN q \ {i} : RemoveAt(q, i)[j] = q[k]
<1> DEFINE a == SubSeq(q, 1, i - 1)
           b == SubSeq(q, i + 1, Len(q))
<1>1. Len(q) \in Nat \ {0} /\ DOMAIN q = 1 .. Len(q) /\ i \in 1 .. Len(q) /\ i \in Int /\ Len(q) \in Int
  OBVIOUS
<1>2. \A k \in 1 .. Len(q) : q[k] \in S
  OBVIOUS
<1>3. /\ a \in Seq(S) /\ Len(a) = i - 1
      /\ \A j \in 1 .. i - 1 : a[j] = q[j]
  BY <1>1, <1>2, SubSeqProperties
<1>4. /\ b \in Seq(S) /\ Len(b) = Len(q) - i
      /\ \A j \in 1 .. Len(q) - i : b[j] = q[i + j]
  BY <1>1, <1>2, SubSeqProperties
<1>5. RemoveAt(q, i) = a \o b
  BY DEF RemoveAt
<1> HIDE DEF a, b
<1>6. /\ a \o b \in Seq(S) /\ Len(a \o b) = Len(a) + Len(b)
      /\ \A j \in 1 .. Len(a) + Len(b) :
           (a \o b)[j] = IF j <= Len(a) THEN a[j] ELSE b[j - Len(a)]
  BY <1>3, <1>4, ConcatProperties
<1>7. Len(a \o b) = Len(q) - 1 /\ DOMAIN (a \o b) = 1 .. Len(q) - 1
  <2>1. Len(a) + Len(b) = Len(q) - 1
    BY <1>1, <1>3, <1>4
  <2>2. DOMAIN (a \o b) = 1 .. Len(a \o b)
    BY <1>6
  <2> QED
    BY <1>6, <2>1, <2>2
<1>8. ASSUME NEW j \in 1 .. Len(q) - 1
      PROVE  \E k \in DOMAIN q \ {i} : (a \o b)[j] = q[k]
  <2>1. CASE j <= i - 1
    <3>1. (a \o b)[j] = q[j] /\ j \in DOMAIN q \ {i}
      BY <1>1, <1>3, <1>4, <1>6, <2>1
    <3> QED
      BY <3>1
  <2>2. CASE ~(j <= i - 1)
    <3>1. j - (i - 1) \in 1 .. Len(q) - i /\ i + (j - (i - 1)) = j + 1
      BY <1>1, <2>2
    <3>2. b[j - (i - 1)] = q[j + 1]
      BY <1>4, <3>1
    <3>3. j \in 1 .. Len(a) + Len(b) /\ ~(j <= Len(a)) /\ j - Len(a) = j - (i - 1)
      BY <1>1, <1>3, <1>4, <2>2
    <3>4. (a \o b)[j] = b[j - (i - 1)]
      BY <1>6, <3>3
    <3>5. j + 1 \in DOMAIN q \ {i}
      BY <1>1, <2>2
    <3> QED
      BY <3>2, <3>4, <3>5
  <2> QED
    BY <2>1, <2>2
<1> QED
  BY <1>1, <1>5, <1>6, <1>7, <1>8

LEMMA RequestsTyped ==
  ASSUME PanelTypes, NEW i \in DOMAIN requests
  PROVE  /\ requests[i] \in RequestType /\ AnswerOK(requests[i].answer)
         /\ requests[i].answer \in AnswerType /\ requests[i].answer.latest \in Nat
<1>1. requests[i] \in RequestType /\ AnswerOK(requests[i].answer)
  BY DEF PanelTypes
<1>2. requests[i].answer \in AnswerType
  BY <1>1 DEF RequestType
<1> QED
  BY <1>1, <1>2 DEF AnswerType

LEMMA EmptyAnswerOK == Unanswered \in AnswerType /\ AnswerOK(Unanswered)
<1>1. Unanswered \in AnswerType /\ Unanswered.rows = {} /\ Unanswered.latest = 0
  BY DEF Unanswered, AnswerType
<1> QED
  BY <1>1, FS_EmptySet, PanelConstants DEF AnswerOK, PanelConstants

(* The types of the panel's side, while the published rows only grow.      *)
LEMMA MergeOK ==
  ASSUME PanelTypes, NEW S \in SUBSET DOMAIN given, NEW T \in SUBSET DOMAIN given
  PROVE  Merge(S, T) \subseteq DOMAIN given /\ Cardinality(Merge(S, T)) <= MaxItems
<1>1. S \cup T \in SUBSET DOMAIN given /\ given \in Seq(Row) /\ MaxItems \in Nat
  BY PanelConstants DEF PanelTypes, PanelConstants
<1> QED
  BY <1>1, NewestPage DEF Merge

LEMMA SendTypes ==
  ASSUME PanelTypes, NEW kind \in Kind, NEW f \in ShownFeed, NEW after \in 0 .. MaxRows,
         Len(requests) < MaxRequests,
         requests' = Append(requests, Request(kind, f, after)), UNCHANGED given
  PROVE  /\ requests' \in Seq(RequestType) /\ Len(requests') <= MaxRequests
         /\ \A i \in DOMAIN requests' : AnswerOK(requests[i].answer)'
<1> DEFINE q == Request(kind, f, after)
<1>1. q \in RequestType /\ q.answer = Unanswered
  BY EmptyAnswerOK DEF Request, RequestType
<1> HIDE DEF q
<1>2. requests \in Seq(RequestType) /\ MaxRequests \in Nat
  BY PanelConstants DEF PanelTypes, PanelConstants
<1>3. /\ Append(requests, q) \in Seq(RequestType)
      /\ Len(Append(requests, q)) = Len(requests) + 1 /\ Len(requests) \in Nat
      /\ DOMAIN requests = 1 .. Len(requests)
      /\ DOMAIN Append(requests, q) = 1 .. Len(requests) + 1
      /\ \A i \in 1 .. Len(requests) : Append(requests, q)[i] = requests[i]
      /\ Append(requests, q)[Len(requests) + 1] = q
  BY <1>1, <1>2, Appended
<1>4. requests' = Append(requests, q)
  BY DEF q
<1>6. ASSUME NEW i \in DOMAIN requests' PROVE AnswerOK(requests[i].answer)'
  <2> SUFFICES AnswerOK(requests'[i].answer)
    BY DEF AnswerOK
  <2>1. CASE i = Len(requests) + 1
    BY <1>1, <1>3, <1>4, <2>1, EmptyAnswerOK
  <2>2. CASE i # Len(requests) + 1
    <3>1. i \in 1 .. Len(requests)
      BY <1>3, <1>4, <2>2
    <3> QED
      BY <1>3, <1>4, <3>1 DEF PanelTypes
  <2> QED
    BY <2>1, <2>2
<1> QED
  BY <1>2, <1>3, <1>4, <1>6

LEMMA RemoveTypes ==
  ASSUME PanelTypes, NEW i \in DOMAIN requests,
         requests' = RemoveAt(requests, i), UNCHANGED given
  PROVE  /\ requests' \in Seq(RequestType) /\ Len(requests') <= MaxRequests
         /\ \A j \in DOMAIN requests' : AnswerOK(requests[j].answer)'
<1>1. /\ RemoveAt(requests, i) \in Seq(RequestType)
      /\ Len(RemoveAt(requests, i)) = Len(requests) - 1 /\ Len(requests) \in Nat \ {0}
      /\ \A j \in DOMAIN RemoveAt(requests, i) :
           \E k \in DOMAIN requests \ {i} : RemoveAt(requests, i)[j] = requests[k]
  BY RequestRemoved DEF PanelTypes
<1>3. ASSUME NEW j \in DOMAIN requests' PROVE AnswerOK(requests[j].answer)'
  <2>1. AnswerOK(requests'[j].answer)
    BY <1>1 DEF PanelTypes
  <2> QED
    BY <2>1 DEF AnswerOK
<1> QED
  BY <1>1, <1>3, PanelConstants DEF PanelTypes, PanelConstants

LEMMA PublishTypes == PanelTypes /\ Publish => PanelTypes'
<1> SUFFICES ASSUME PanelTypes, Publish PROVE PanelTypes'
  OBVIOUS
<1> DEFINE n == Len(given)
<1>0. given \in Seq(Row) /\ MaxRows \in Nat /\ n \in Nat /\ DOMAIN given = 1 .. n /\ n < MaxRows
  BY PanelConstants DEF PanelTypes, PanelConstants, Publish
<1>1. LatestCursor \in Nat /\ LatestCursor <= n
  BY LatestCursorIs
<1> DEFINE c == LatestCursor + 1
<1>2. c \in Row /\ c <= n + 1
  BY <1>0, <1>1 DEF Row
<1>3. given' = Append(given, c) /\ table' = table \cup {n + 1}
  BY DEF Publish
<1> HIDE DEF c
<1>4. /\ Append(given, c) \in Seq(Row) /\ Len(Append(given, c)) = n + 1
      /\ DOMAIN Append(given, c) = 1 .. n + 1
      /\ \A i \in 1 .. n : Append(given, c)[i] = given[i]
      /\ Append(given, c)[n + 1] = c
  BY <1>0, <1>2, Appended
<1>5. \A r \in DOMAIN given' : given'[r] <= r
  BY <1>0, <1>2, <1>3, <1>4 DEF PanelTypes
<1>6. DOMAIN given' = 1 .. n + 1 /\ Len(given') = n + 1 /\ given' \in Seq(Row) /\ DOMAIN given \subseteq DOMAIN given'
  BY <1>0, <1>3, <1>4
<1>7. table' \subseteq DOMAIN given'
  BY <1>0, <1>3, <1>6 DEF PanelTypes
<1>8. stream' = stream /\ stream \in Seq(DOMAIN given)
  BY DEF Publish, push, PanelTypes
<1>9. stream' \in Seq(DOMAIN given')
  BY <1>6, <1>8
<1>10. ASSUME NEW i \in DOMAIN requests' PROVE AnswerOK(requests[i].answer)'
  <2>1. requests' = requests
    BY DEF Publish
  <2>2. AnswerOK(requests[i].answer) /\ requests[i].answer.latest \in Nat
    BY <2>1, RequestsTyped
  <2> QED
    BY <1>0, <1>6, <2>1, <2>2 DEF AnswerOK
<1>11. hazards' \subseteq HazardKind
  BY DEF Publish, Hazards, Where, HazardKind, PanelTypes
<1>12. /\ announced' \in 0 .. Len(given') /\ latest' \in 0 .. Len(given') /\ shown' \subseteq DOMAIN given'
  BY <1>0, <1>6 DEF Publish, panel, PanelTypes
<1> QED
  BY <1>0, <1>5, <1>6, <1>7, <1>8, <1>9, <1>10, <1>11, <1>12 DEF PanelTypes, Publish, panel, push

LEMMA AnnounceTypes == PanelTypes /\ Announce => PanelTypes'
<1> SUFFICES ASSUME PanelTypes, Announce PROVE PanelTypes'
  OBVIOUS
<1>0. /\ Len(given) \in Nat /\ DOMAIN given = 1 .. Len(given) /\ StreamSize \in Nat \ {0}
      /\ stream \in Seq(DOMAIN given)
  BY PanelConstants DEF PanelTypes, PanelConstants
<1>1. announced' \in 0 .. Len(given) /\ announced' \in DOMAIN given /\ announced' = announced + 1
  BY <1>0 DEF PanelTypes, Announce
<1>2. /\ Append(stream, announced') \in Seq(DOMAIN given)
      /\ Len(Append(stream, announced')) = Len(stream) + 1 /\ Len(stream) \in Nat
  BY <1>0, <1>1, Appended
<1>3. stream' \in Seq(DOMAIN given) /\ Len(stream') <= StreamSize
  <2>1. CASE stream' = stream
    BY <2>1 DEF PanelTypes
  <2>2. CASE Len(stream) < StreamSize /\ stream' = Append(stream, announced')
    BY <1>0, <1>2, <2>2
  <2>3. CASE Len(stream) >= StreamSize /\ stream' = Append(Tail(stream), announced')
    <3>1. stream # <<>>
      BY <1>0, <2>3
    <3>2. Tail(stream) \in Seq(DOMAIN given) /\ Len(Tail(stream)) = Len(stream) - 1
      BY <1>0, <3>1, Taken
    <3>3. /\ Append(Tail(stream), announced') \in Seq(DOMAIN given)
          /\ Len(Append(Tail(stream), announced')) = Len(Tail(stream)) + 1
      BY <1>1, <3>2, Appended
    <3> QED
      BY <1>0, <1>2, <2>3, <3>2, <3>3 DEF PanelTypes
  <2> QED
    BY <1>0, <1>2, <2>1, <2>2, <2>3 DEF Announce
<1>4. hazards' \subseteq HazardKind
  BY DEF Announce, Hazards, NoHazard, HazardKind, PanelTypes
<1> QED
  BY <1>1, <1>3, <1>4 DEF PanelTypes, Announce, panel, AnswerOK

LEMMA AnswerTypes == ASSUME PanelTypes, NEW i \in DOMAIN requests, Answer(i) PROVE PanelTypes'
<1> DEFINE a == AnswerTo(requests[i])
<1>1. a \in AnswerType /\ AnswerOK(a)
  BY AnswerTyped DEF PanelTypes
<1>2. requests' = [requests EXCEPT ![i].answer = a] /\ requests \in Seq(RequestType)
  BY DEF Answer, PanelTypes
<1> HIDE DEF a
<1>3. requests[i] \in RequestType
  BY <1>2
<1>4. [requests[i] EXCEPT !.answer = a] \in RequestType
  BY <1>1, <1>3 DEF RequestType
<1>5. /\ requests' \in Seq(RequestType) /\ Len(requests') = Len(requests)
      /\ DOMAIN requests' = DOMAIN requests
      /\ \A j \in DOMAIN requests : requests'[j].answer = IF j = i THEN a ELSE requests[j].answer
  BY <1>2, <1>3, <1>4 DEF RequestType
<1>6. ASSUME NEW j \in DOMAIN requests' PROVE AnswerOK(requests[j].answer)'
  <2>1. AnswerOK(requests'[j].answer)
    BY <1>1, <1>5 DEF PanelTypes
  <2> QED
    BY <2>1 DEF Answer, server, AnswerOK
<1> QED
  BY <1>5, <1>6 DEF PanelTypes, Answer, server, push, panel, NoHazard

(* An answered cursor lies within the published rows.                      *)
LEMMA DeliverTypes == ASSUME PanelTypes, NEW i \in DOMAIN requests, Deliver(i) PROVE PanelTypes'
<1> DEFINE a == requests[i].answer
<1>1. UNCHANGED given /\ requests' = RemoveAt(requests, i)
  BY DEF Deliver, server
<1>2. /\ requests' \in Seq(RequestType) /\ Len(requests') <= MaxRequests
      /\ \A j \in DOMAIN requests' : AnswerOK(requests[j].answer)'
  BY <1>1, RemoveTypes
<1>3. AnswerOK(a) /\ a.latest \in Nat
  BY RequestsTyped
<1> HIDE DEF a
<1>4. latest' \in 0 .. Len(given)
  <2>1. latest' = latest \/ latest' = Max({latest, a.latest})
    BY DEF a, Deliver, Apply, Clear
  <2>2. latest \in 0 .. Len(given) /\ Len(given) \in Nat /\ a.latest \in 0 .. Len(given) /\ latest \in Nat
    BY <1>3 DEF PanelTypes, AnswerOK
  <2>3. Max({latest, a.latest}) \in {latest, a.latest}
    BY <1>3, <2>2, MaxOfTwo
  <2> QED
    BY <2>1, <2>2, <2>3
<1>5. shown' \subseteq DOMAIN given /\ Cardinality(shown') <= MaxItems
  <2>1. \/ shown' = {}
        \/ shown' = Merge({}, a.rows)
        \/ shown' = Merge(shown, a.rows)
    BY DEF a, Deliver, Apply, Clear
  <2>2. a.rows \subseteq DOMAIN given /\ shown \subseteq DOMAIN given
    BY <1>3 DEF PanelTypes, AnswerOK
  <2> QED
    BY <2>1, <2>2, MergeOK, FS_EmptySet, PanelConstants DEF PanelConstants
<1>6. hazards' \subseteq HazardKind
  BY DEF Deliver, Apply, Clear, Hazards, NoHazard, Where, HazardKind, PanelTypes
<1> QED
  BY <1>1, <1>2, <1>4, <1>5, <1>6 DEF PanelTypes, Deliver, server, push

LEMMA ReadTypes == PanelTypes /\ ReadEvent => PanelTypes'
<1> SUFFICES ASSUME PanelTypes, ReadEvent PROVE PanelTypes'
  OBVIOUS
<1> DEFINE shownRow == Head(stream)
<1>1. /\ Tail(stream) \in Seq(DOMAIN given) /\ Len(Tail(stream)) = Len(stream) - 1
      /\ Len(stream) \in Nat /\ shownRow \in DOMAIN given
  BY Taken DEF PanelTypes, ReadEvent
<1>2. given[shownRow] \in 0 .. Len(given)
  <2>1. given[shownRow] \in Nat /\ given[shownRow] <= shownRow /\ shownRow \in 1 .. Len(given)
    BY <1>1, PanelConstants DEF PanelTypes, Row, PanelConstants
  <2> QED
    BY <2>1
<1>3. latest' \in 0 .. Len(given)
  <2>1. latest' = Max({latest, given[shownRow]})
    BY DEF ReadEvent
  <2>2. latest \in 0 .. Len(given) /\ latest \in Nat /\ given[shownRow] \in Nat
    BY <1>2 DEF PanelTypes
  <2> HIDE DEF shownRow
  <2>3. Max({latest, given[shownRow]}) \in {latest, given[shownRow]}
    BY <2>2, MaxOfTwo
  <2> QED
    BY <1>2, <2>1, <2>2, <2>3
<1>4. shown' \subseteq DOMAIN given /\ Cardinality(shown') <= MaxItems
  BY <1>1, MergeOK DEF PanelTypes, ReadEvent
<1>5. hazards' \subseteq HazardKind
  BY DEF ReadEvent, Hazards, Where, HazardKind, PanelTypes
<1>6. \A i \in DOMAIN requests' : AnswerOK(requests[i].answer)'
  BY DEF PanelTypes, ReadEvent, server, AnswerOK
<1>7. /\ UNCHANGED <<given, table, announced, connected, feed, requests>>
      /\ stream' = Tail(stream)
  BY DEF ReadEvent, server
<1>8. stream' \in Seq(DOMAIN given) /\ Len(stream') <= StreamSize
  BY <1>1, <1>7, PanelConstants DEF PanelTypes, PanelConstants
<1> QED
  BY <1>3, <1>4, <1>5, <1>6, <1>7, <1>8 DEF PanelTypes

LEMMA NoEvents ==
  ASSUME PanelTypes, stream' = stream \/ stream' = <<>>
  PROVE  stream' \in Seq(DOMAIN given) /\ Len(stream') <= StreamSize
<1>1. <<>> \in Seq(DOMAIN given) /\ Len(<<>>) = 0
  OBVIOUS
<1>2. Len(stream) <= StreamSize /\ stream \in Seq(DOMAIN given) /\ 0 <= StreamSize
  BY PanelConstants DEF PanelTypes, PanelConstants
<1>3. CASE stream' = stream
  BY <1>2, <1>3
<1>4. CASE stream' = <<>>
  <2>1. stream' \in Seq(DOMAIN given)
    BY <1>1, <1>4
  <2>2. Len(stream') = 0
    BY <1>1, <1>4
  <2> QED
    BY <1>2, <2>1, <2>2
<1> QED
  BY <1>3, <1>4

LEMMA SendingTypes == PanelTypes /\ (Poll \/ Refresh \/ SwitchFeed) => PanelTypes'
<1> SUFFICES ASSUME PanelTypes, Poll \/ Refresh \/ SwitchFeed PROVE PanelTypes'
  OBVIOUS
<1> USE PanelConstants DEF PanelConstants
<1>1. latest \in 0 .. MaxRows /\ 0 \in 0 .. MaxRows /\ UNCHANGED given
  BY DEF PanelTypes, Poll, Refresh, SwitchFeed, server
<1>2. /\ requests' \in Seq(RequestType) /\ Len(requests') <= MaxRequests
      /\ \A i \in DOMAIN requests' : AnswerOK(requests[i].answer)'
  <2>1. CASE Poll
    BY <1>1, <2>1, SendTypes DEF Poll, Send, Kind, PanelTypes
  <2>2. CASE Refresh
    BY <1>1, <2>2, SendTypes DEF Refresh, Send, Kind, PanelTypes
  <2>3. CASE SwitchFeed
    <3>1. feed' \in ShownFeed
      BY <2>3 DEF SwitchFeed
    <3> QED
      BY <1>1, <2>3, <3>1, SendTypes DEF SwitchFeed, Kind
  <2> QED
    BY <2>1, <2>2, <2>3
<1>3. hazards' \subseteq HazardKind
  BY DEF Poll, Refresh, SwitchFeed, Send, Hazards, Where, HazardKind, PanelTypes
<1>4. /\ feed' \in ShownFeed /\ UNCHANGED <<given, table, announced, shown>>
      /\ connected' \in BOOLEAN
      /\ latest' = latest \/ latest' = 0
      /\ stream' = stream \/ stream' = <<>>
  BY DEF Poll, Refresh, SwitchFeed, server, push, panel, CloseStream, PanelTypes
<1>5. latest' \in 0 .. Len(given)
  BY <1>4 DEF PanelTypes
<1>6. stream' \in Seq(DOMAIN given) /\ Len(stream') <= StreamSize
  BY <1>4, NoEvents
<1> QED
  BY <1>1, <1>2, <1>3, <1>4, <1>5, <1>6 DEF PanelTypes

LEMMA OtherTypes ==
  /\ PanelTypes /\ (Expire \/ Connect \/ Disconnect \/ UNCHANGED panelVars) => PanelTypes'
  /\ PanelTypes /\ (\E i \in DOMAIN requests : Fail(i)) => PanelTypes'
<1>1. ASSUME PanelTypes, Expire \/ Connect \/ Disconnect \/ UNCHANGED panelVars PROVE PanelTypes'
  <2>1. hazards' \subseteq HazardKind
    BY <1>1 DEF Expire, Connect, Disconnect, Hazards, NoHazard, Where, HazardKind, PanelTypes, panelVars
  <2>2. table' \subseteq DOMAIN given /\ UNCHANGED <<given, announced, panel, requests>>
    BY <1>1 DEF Expire, Connect, Disconnect, server, push, panel, PanelTypes, panelVars
  <2>3. connected' \in BOOLEAN /\ stream' \in Seq(DOMAIN given) /\ Len(stream') <= StreamSize
    <3>1. connected' \in BOOLEAN /\ (stream' = stream \/ stream' = <<>>)
      BY <1>1 DEF Expire, Connect, Disconnect, push, CloseStream, PanelTypes, panelVars
    <3> QED
      BY <1>1, <3>1, NoEvents
  <2> QED
    BY <1>1, <2>1, <2>2, <2>3 DEF PanelTypes, panel, AnswerOK
<1>2. ASSUME PanelTypes, NEW i \in DOMAIN requests, Fail(i) PROVE PanelTypes'
  <2>1. UNCHANGED <<given, table, announced, stream, connected, feed, latest, shown, hazards>>
        /\ requests' = RemoveAt(requests, i)
    BY <1>2 DEF Fail, server, push, panel, NoHazard
  <2>2. /\ requests' \in Seq(RequestType) /\ Len(requests') <= MaxRequests
        /\ \A j \in DOMAIN requests' : AnswerOK(requests[j].answer)'
    BY <1>2, <2>1, RemoveTypes
  <2> QED
    BY <1>2, <2>1, <2>2 DEF PanelTypes
<1> QED
  BY <1>1, <1>2

LEMMA InitTypes == PanelInit => PanelTypes
<1> SUFFICES ASSUME PanelInit PROVE PanelTypes
  OBVIOUS
<1>1. Request("mount", "transcribed", 0) \in RequestType
  BY EmptyAnswerOK, PanelConstants DEF Request, RequestType, Kind, ShownFeed, PanelConstants
<1>2. Request("mount", "transcribed", 0).answer = Unanswered
  BY DEF Request
<1> DEFINE q == Request("mount", "transcribed", 0)
<1> HIDE DEF q
<1>3. q \in RequestType /\ q.answer = Unanswered /\ requests = <<q>>
  BY <1>1, <1>2 DEF q, PanelInit
<1>4. given = <<>> /\ DOMAIN given = {} /\ Len(given) = 0 /\ given \in Seq(Row)
  BY DEF PanelInit
<1>5. requests \in Seq(RequestType) /\ Len(requests) = 1 /\ DOMAIN requests = {1} /\ requests[1] = q
  BY <1>3
<1>6. stream \in Seq(DOMAIN given) /\ Len(stream) = 0
  BY DEF PanelInit
<1>7. 0 \in 0 .. Len(given)
  BY <1>4
<1>8. Len(requests) <= MaxRequests /\ Len(stream) <= StreamSize /\ Cardinality({}) <= MaxItems
  BY <1>5, <1>6, FS_EmptySet, PanelConstants DEF PanelConstants
<1>9. \A i \in DOMAIN requests : AnswerOK(requests[i].answer)
  BY <1>3, <1>5, EmptyAnswerOK
<1>10. Len(given) <= MaxRows
  BY <1>4, PanelConstants DEF PanelConstants
<1> QED
  BY <1>4, <1>5, <1>6, <1>7, <1>8, <1>9, <1>10 DEF PanelInit, PanelTypes, ShownFeed

LEMMA TypesStep == PanelTypes /\ [PanelNext]_panelVars => PanelTypes'
BY PublishTypes, AnnounceTypes, AnswerTypes, DeliverTypes, ReadTypes, SendingTypes, OtherTypes DEF PanelNext

(* PanelTypeOK holds: at most MaxItems segments, StreamSize events, MaxRequests *)
(* fetches and PageLimit rows in an answer, and no cursor above the number *)
(* of the rows, whatever expires, fails or comes late.                     *)
THEOREM PanelTypeCorrect == PanelSpec => []PanelTypeOK
<1>1. PanelSpec => []PanelTypes
  BY InitTypes, TypesStep, PTL DEF PanelSpec
<1> QED
  BY <1>1, TypesFollow, PTL

-------------------------------------------------------------------------------
(* The inductive invariant of NoHolesUndisturbed.                          *)

(* The table is a suffix of the published rows, and cursors grow with them *)
(* until one is used again.                                                *)
RowsInv ==
  /\ \A r \in table, s \in DOMAIN given : r < s => s \in table
  /\ "reuse" \notin hazards => Growing

(* The unread events are those of the last rows that were announced, and   *)
(* of all of them before the first one is read, unless an event is missed. *)
EventsRead == announced - Len(stream)

StreamInv ==
  "missed" \notin hazards =>
    /\ EventsRead \in Nat
    /\ "event" \notin hazards => EventsRead = 0
    /\ \A i \in DOMAIN stream : stream[i] = EventsRead + i

LEMMA HazardsGrow == PanelTypes /\ [PanelNext]_panelVars => hazards \subseteq hazards'
BY DEF PanelNext, panelVars, Publish, Expire, Announce, Poll, Refresh, SwitchFeed, Send, Answer,
       Deliver, Apply, Clear, Fail, Connect, Disconnect, ReadEvent, Hazards, NoHazard

LEMMA StillUndisturbed == PanelTypes /\ [PanelNext]_panelVars /\ Undisturbed' => Undisturbed
BY HazardsGrow DEF Undisturbed

LEMMA RowsStep == PanelTypes /\ RowsInv /\ [PanelNext]_panelVars => RowsInv'
<1> SUFFICES ASSUME PanelTypes, RowsInv, [PanelNext]_panelVars PROVE RowsInv'
  OBVIOUS
<1>1. CASE Publish
  <2> DEFINE n == Len(given)
             c == LatestCursor + 1
  <2>1. /\ given \in Seq(Row) /\ n \in Nat /\ DOMAIN given = 1 .. n /\ n < MaxRows /\ MaxRows \in Nat
        /\ table \subseteq 1 .. n
    BY <1>1, PanelConstants DEF PanelTypes, PanelConstants, Publish
  <2>2. c \in Row /\ c \in 1 .. n + 1
    BY <2>1, LatestCursorIs DEF Row
  <2>3. given' = Append(given, c) /\ table' = table \cup {n + 1}
    BY <1>1 DEF Publish
  <2>4. c \in ToSet(given) => "reuse" \in hazards'
    BY <1>1 DEF Publish, Hazards, Where
  <2> HIDE DEF c
  <2>5. /\ DOMAIN given' = 1 .. n + 1
        /\ \A i \in 1 .. n : given'[i] = given[i]
        /\ given'[n + 1] = c
    BY <2>1, <2>2, <2>3, Appended
  <2>6. ASSUME NEW r \in table', NEW s \in DOMAIN given', r < s PROVE s \in table'
    <3>1. s \in 1 .. n \/ s = n + 1
      BY <2>1, <2>5
    <3>2. s \in 1 .. n => r \in table
      BY <2>1, <2>3, <2>6
    <3> QED
      BY <2>1, <2>3, <2>6, <3>1, <3>2 DEF RowsInv
  <2>7. ASSUME "reuse" \notin hazards' PROVE Growing'
    <3>1. Growing
      BY <2>7, HazardsGrow DEF RowsInv
    <3>2. \A k \in 1 .. n : k \in ToSet(given)
      BY <2>1, <3>1 DEF ToSet, Growing
    <3>3. c = n + 1
      BY <2>1, <2>2, <2>4, <2>7, <3>2
    <3> QED
      BY <2>1, <2>5, <3>1, <3>3 DEF Growing
  <2> QED
    BY <2>6, <2>7 DEF RowsInv
<1>2. CASE Expire
  <2>1. PICK r \in table : table' = {s \in table : s > r}
    BY <1>2 DEF Expire
  <2>2. UNCHANGED <<given, hazards>> /\ DOMAIN given \subseteq Nat
    BY <1>2 DEF Expire, NoHazard, PanelTypes
  <2> QED
    BY <2>1, <2>2 DEF RowsInv, Growing, PanelTypes
<1>3. ASSUME UNCHANGED <<given, table>> PROVE RowsInv'
  BY <1>3, HazardsGrow DEF RowsInv, Growing
<1> QED
  BY <1>1, <1>2, <1>3 DEF PanelNext, panelVars, Announce, Poll, Refresh, SwitchFeed, Send, Answer,
       Deliver, Fail, Connect, Disconnect, ReadEvent, server

LEMMA StreamStep == PanelTypes /\ StreamInv /\ [PanelNext]_panelVars => StreamInv'
<1> SUFFICES ASSUME PanelTypes, StreamInv, [PanelNext]_panelVars, "missed" \notin hazards'
             PROVE  /\ EventsRead' \in Nat
                    /\ "event" \notin hazards' => EventsRead' = 0
                    /\ \A i \in DOMAIN stream' : stream'[i] = EventsRead' + i
  BY DEF StreamInv
<1>0. /\ hazards \subseteq hazards' /\ "missed" \notin hazards
      /\ stream \in Seq(DOMAIN given) /\ announced \in Nat /\ Len(stream) \in Nat
      /\ DOMAIN stream = 1 .. Len(stream)
  BY HazardsGrow DEF PanelTypes
<1>1. /\ EventsRead \in Nat
      /\ "event" \notin hazards => EventsRead = 0
      /\ \A i \in 1 .. Len(stream) : stream[i] = EventsRead + i
  BY <1>0 DEF StreamInv
<1>2. CASE Announce
  <2>1. stream' = Append(stream, announced + 1) /\ announced' = announced + 1
    BY <1>2 DEF Announce, Hazards
  <2>2. announced + 1 \in DOMAIN given
    BY <1>2 DEF PanelTypes, Announce
  <2>3. /\ Len(stream') = Len(stream) + 1 /\ DOMAIN stream' = 1 .. Len(stream) + 1
        /\ \A i \in 1 .. Len(stream) : stream'[i] = stream[i]
        /\ stream'[Len(stream) + 1] = announced + 1
    BY <1>0, <2>1, <2>2, Appended
  <2>4. EventsRead' = EventsRead
    BY <1>0, <2>1, <2>3 DEF EventsRead
  <2>5. EventsRead + (Len(stream) + 1) = announced + 1
    BY <1>0 DEF EventsRead
  <2>6. ASSUME NEW i \in 1 .. Len(stream) + 1 PROVE stream'[i] = EventsRead + i
    BY <1>0, <1>1, <2>3, <2>5
  <2> QED
    BY <1>0, <1>1, <2>3, <2>4, <2>6
<1>3. CASE ReadEvent
  <2>1. stream # <<>> /\ stream' = Tail(stream) /\ announced' = announced /\ "event" \in hazards'
    BY <1>3 DEF ReadEvent, Hazards, server
  <2>2. /\ Len(stream') = Len(stream) - 1 /\ DOMAIN stream' = 1 .. Len(stream) - 1
        /\ \A i \in 1 .. Len(stream) - 1 : stream'[i] = stream[i + 1]
    BY <1>0, <2>1, Taken
  <2>3. EventsRead' = EventsRead + 1
    BY <1>0, <2>1, <2>2 DEF EventsRead
  <2>4. ASSUME NEW i \in 1 .. Len(stream) - 1 PROVE stream'[i] = EventsRead' + i
    <3>1. i + 1 \in 1 .. Len(stream) /\ EventsRead + (i + 1) = EventsRead' + i
      BY <1>0, <1>1, <2>3
    <3> QED
      BY <1>1, <2>2, <3>1
  <2> QED
    BY <1>1, <2>1, <2>2, <2>3, <2>4
<1>4. CASE UNCHANGED <<stream, announced>>
  <2>1. EventsRead' = EventsRead
    BY <1>4 DEF EventsRead
  <2> QED
    BY <1>0, <1>1, <1>4, <2>1
<1>5. SwitchFeed \/ Disconnect => UNCHANGED <<stream, announced>>
  <2>1. ASSUME stream' = <<>>, stream # <<>> => "missed" \in hazards' PROVE UNCHANGED stream
    BY <2>1
  <2> QED
    BY <2>1 DEF SwitchFeed, Disconnect, CloseStream, Hazards, Where, server
<1> QED
  BY <1>2, <1>3, <1>4, <1>5 DEF PanelNext, panelVars, Publish, Expire, Poll, Refresh, Answer,
       Deliver, Fail, Connect, server, push

(* The rows the panel must have: all but those whose events are to come,   *)
(* or, before the first event, those up to the cursor.                     *)
Coming(r) == r \in ToSet(stream) \/ r > announced
DueRows == {r \in table : IF "event" \in hazards THEN ~Coming(r) ELSE r <= latest}

(* With the rows T in the table and D of them due, the segments sh of feed *)
(* f have no holes below the cursor l, and leave nothing to be asked for   *)
(* again: the panel is empty only while all rows lie above its cursor.     *)
ShownOK(f, l, sh, T, D) ==
  \A r \in T :
    /\ f = "transcribed" /\ sh = {} => l < r
    /\ r \in D /\ (\E s \in sh : s < r) => r \in sh

(* The answer of a full fetch has no holes, up to the cursor it brings.    *)
FullOK(a, l, T, D) ==
  \A r \in T :
    /\ a.rows = {} => l < r /\ a.latest < r
    /\ (r \in D \/ r <= a.latest) /\ (\E s \in a.rows : s < r) => r \in a.rows

(* The answer of a poll has all rows between its two cursors; a row after  *)
(* the first that is due is in it or on screen, or was pushed off.         *)
PollOK(a, after, sh, T, D) ==
  /\ \A s \in a.rows : after < s
  /\ \A r \in T : after < r =>
       /\ r <= a.latest => r \in a.rows
       /\ r \in D => r \in a.rows \cup sh \/ Below(r, sh, MaxItems)

RequestOK(q, f, l, sh, T, D) ==
  /\ q.feed = f /\ q.after <= l
  /\ IsFull(q) => q.after = 0
  /\ q.answer.code = 200 => f = "transcribed"
  /\ q.answer.code = 404 => f = "other"
  /\ IsFull(q) /\ q.answer.code = 200 => FullOK(q.answer, l, T, D)
  /\ ~IsFull(q) /\ q.answer.code = 200 /\ q.answer.whole => PollOK(q.answer, q.after, sh, T, D)

PanelOK ==
  /\ ShownOK(feed, latest, shown, table, DueRows)
  /\ \A i \in DOMAIN requests :
       /\ RequestOK(requests[i], feed, latest, shown, table, DueRows)
       /\ IsFull(requests[i]) => Len(requests) = 1

PanelInv == PanelTypes /\ RowsInv /\ StreamInv /\ (Undisturbed => PanelOK)

LEMMA PanelInvImplies == PanelInv => NoHolesUndisturbed
<1> SUFFICES ASSUME PanelInv, Undisturbed, feed = "transcribed", NEW r \in table,
                    given[r] <= latest, shown = {} \/ \E s \in shown : given[s] < given[r]
             PROVE  r \in shown \/ OnItsWay(r)
  BY TypesFollow DEF NoHolesUndisturbed, NoHoles, PanelInv
<1>1. Growing /\ table \subseteq DOMAIN given /\ shown \subseteq DOMAIN given
  BY DEF PanelInv, PanelTypes, RowsInv, Undisturbed
<1>2. r <= latest /\ (shown = {} \/ \E s \in shown : s < r)
  BY <1>1 DEF Growing
<1>3. /\ shown = {} => latest < r
      /\ r \in DueRows /\ (\E s \in shown : s < r) => r \in shown
  BY DEF PanelInv, PanelOK, ShownOK
<1>4. \E s \in shown : s < r
  BY <1>1, <1>2, <1>3 DEF PanelInv, PanelTypes
<1> QED
  BY <1>2, <1>3, <1>4 DEF DueRows, Coming, OnItsWay

-------------------------------------------------------------------------------
(* Steps that leave the panel and its fetches alone: rows may be published *)
(* above everything, and go; none becomes due.                             *)
LEMMA QuietRequest ==
  ASSUME NEW q, q.answer.latest \in Nat, NEW f, NEW l \in Nat, NEW sh, NEW T, NEW D,
         NEW T2 \in SUBSET Nat, NEW D2, RequestOK(q, f, l, sh, T, D),
         \A r \in T2 : \/ r \in T /\ (r \in D2 => r \in D)
                       \/ r \notin D2 /\ l < r /\ q.answer.latest < r
  PROVE  RequestOK(q, f, l, sh, T2, D2)
<1>1. ASSUME FullOK(q.answer, l, T, D) PROVE FullOK(q.answer, l, T2, D2)
  <2> SUFFICES ASSUME NEW r \in T2
               PROVE  /\ q.answer.rows = {} => l < r /\ q.answer.latest < r
                      /\ (r \in D2 \/ r <= q.answer.latest) /\ (\E s \in q.answer.rows : s < r)
                           => r \in q.answer.rows
    BY DEF FullOK
  <2>1. CASE r \in T /\ (r \in D2 => r \in D)
    BY <1>1, <2>1 DEF FullOK
  <2>2. CASE r \notin D2 /\ l < r /\ q.answer.latest < r
    <3>1. ~ (r <= q.answer.latest)
      BY <2>2
    <3> QED
      BY <2>2, <3>1
  <2> QED
    BY <2>1, <2>2
<1>2. ASSUME PollOK(q.answer, q.after, sh, T, D) PROVE PollOK(q.answer, q.after, sh, T2, D2)
  BY <1>2 DEF PollOK
<1> QED
  BY <1>1, <1>2 DEF RequestOK

LEMMA QuietPanelStep ==
  ASSUME PanelTypes, PanelTypes', PanelOK, UNCHANGED <<feed, latest, shown, requests>>,
         \A r \in table' : \/ r \in table /\ (r \in DueRows' => r \in DueRows)
                           \/ /\ r \notin DueRows' /\ latest < r
                              /\ \A i \in DOMAIN requests : requests[i].answer.latest < r
                              /\ \A s \in shown : s < r
  PROVE  PanelOK'
<1>1. ShownOK(feed, latest, shown, table', DueRows')
  BY DEF PanelOK, ShownOK
<1>2. table' \in SUBSET Nat /\ latest \in Nat
  BY DEF PanelTypes
<1>3. ASSUME NEW i \in DOMAIN requests
      PROVE  RequestOK(requests[i], feed, latest, shown, table', DueRows')
  <2> DEFINE q == requests[i]
             D == DueRows
             D2 == DueRows'
  <2>1. q.answer.latest \in Nat
    BY RequestsTyped
  <2>2. RequestOK(q, feed, latest, shown, table, D)
    BY DEF PanelOK
  <2>3. \A r \in table' : \/ r \in table /\ (r \in D2 => r \in D)
                          \/ r \notin D2 /\ latest < r /\ q.answer.latest < r
    OBVIOUS
  <2> HIDE DEF q, D, D2
  <2>4. RequestOK(q, feed, latest, shown, table', D2)
    BY <1>2, <2>1, <2>2, <2>3, QuietRequest
  <2> QED
    BY <2>4 DEF q, D2
<1> QED
  BY <1>1, <1>3 DEF PanelOK

LEMMA QuietActions ==
  ASSUME PanelTypes, PanelTypes', PanelOK, Undisturbed', hazards \subseteq hazards',
         Publish \/ Expire \/ Announce \/ Connect \/ Disconnect \/ UNCHANGED panelVars
  PROVE  PanelOK'
<1>0. UNCHANGED <<feed, latest, shown, requests>>
  BY DEF Publish, Expire, Announce, Connect, Disconnect, panelVars, panel
<1>1. ~({"missed", "event"} \subseteq hazards')
  BY DEF Undisturbed
<1>2. CASE Publish
  <2> DEFINE n == Len(given)
  <2>1. n \in Nat /\ DOMAIN given = 1 .. n /\ table' = table \cup {n + 1} /\ UNCHANGED <<stream, announced>>
    BY <1>2 DEF PanelTypes, Publish, push
  <2>2. "event" \in hazards' <=> "event" \in hazards
    BY <1>2 DEF Publish, Hazards, Where
  <2>3. ASSUME NEW r \in table PROVE r \in DueRows' => r \in DueRows
    BY <1>0, <2>1, <2>2 DEF DueRows, Coming
  <2>4. /\ n + 1 \notin DueRows' /\ latest < n + 1
        /\ \A i \in DOMAIN requests : requests[i].answer.latest < n + 1
        /\ \A s \in shown : s < n + 1
    <3>1. latest < n + 1 /\ announced < n + 1 /\ \A s \in shown : s < n + 1
      BY <2>1 DEF PanelTypes
    <3>2. \A i \in DOMAIN requests : requests[i].answer.latest < n + 1
      BY <2>1, RequestsTyped DEF AnswerOK
    <3>3. latest \in Nat /\ announced \in Nat
      BY DEF PanelTypes
    <3> QED
      BY <1>0, <2>1, <3>1, <3>2, <3>3 DEF DueRows, Coming
  <2> QED
    BY <1>0, <2>1, <2>3, <2>4, QuietPanelStep
<1>3. CASE Expire \/ Connect \/ UNCHANGED panelVars
  <2>1. table' \subseteq table /\ UNCHANGED <<stream, announced, hazards>>
    BY <1>3 DEF Expire, Connect, panelVars, push, server, NoHazard
  <2>2. DueRows' \subseteq DueRows
    BY <1>0, <2>1 DEF DueRows, Coming
  <2> QED
    BY <1>0, <2>1, <2>2, QuietPanelStep
<1>4. CASE Announce
  <2>1. UNCHANGED table
    BY <1>4 DEF Announce
  <2>2. CASE "missed" \in hazards'
    <3>1. "event" \notin hazards' /\ "event" \notin hazards
      BY <1>1, <2>2
    <3>2. DueRows' \subseteq DueRows
      BY <1>0, <2>1, <3>1 DEF DueRows
    <3> QED
      BY <1>0, <2>1, <3>2, QuietPanelStep
  <2>3. CASE "missed" \notin hazards'
    <3>1. stream' = Append(stream, announced + 1) /\ announced' = announced + 1 /\ UNCHANGED hazards
      BY <1>4, <2>3 DEF Announce, Hazards, NoHazard
    <3>2. announced + 1 \in DOMAIN given /\ announced \in Nat /\ stream \in Seq(DOMAIN given)
      BY <1>4 DEF PanelTypes, Announce
    <3>3. ASSUME NEW r \in table, Coming(r) PROVE Coming(r)'
      <4>0. r \in Nat
        BY DEF PanelTypes
      <4>1. CASE r > announced + 1
        BY <3>1, <4>1 DEF Coming
      <4>2. CASE r = announced + 1
        BY <3>1, <3>2, <4>2, Appended DEF Coming, ToSet
      <4>3. CASE r \in ToSet(stream)
        BY <3>1, <3>2, <4>3, Appended DEF Coming, ToSet
      <4> QED
        BY <3>2, <3>3, <4>0, <4>1, <4>2, <4>3 DEF Coming
    <3>4. DueRows' \subseteq DueRows
      BY <1>0, <2>1, <3>1, <3>3 DEF DueRows
    <3> QED
      BY <1>0, <2>1, <3>4, QuietPanelStep
  <2> QED
    BY <2>2, <2>3
<1>5. CASE Disconnect
  <2>1. UNCHANGED <<table, announced>> /\ stream' = <<>>
    BY <1>5 DEF Disconnect, CloseStream, server
  <2>2. CASE stream # <<>>
    <3>1. "event" \notin hazards' /\ "event" \notin hazards
      BY <1>1, <1>5, <2>2 DEF Disconnect, Hazards, Where
    <3>2. DueRows' \subseteq DueRows
      BY <1>0, <2>1, <3>1 DEF DueRows
    <3> QED
      BY <1>0, <2>1, <3>2, QuietPanelStep
  <2>3. CASE stream = <<>>
    <3>1. UNCHANGED stream /\ ("event" \in hazards' <=> "event" \in hazards)
      BY <1>5, <2>1, <2>3 DEF Disconnect, Hazards, Where
    <3>2. DueRows' \subseteq DueRows
      BY <1>0, <2>1, <3>1 DEF DueRows, Coming
    <3> QED
      BY <1>0, <2>1, <3>2, QuietPanelStep
  <2> QED
    BY <2>2, <2>3
<1> QED
  BY <1>2, <1>3, <1>4, <1>5

-------------------------------------------------------------------------------
(* Steps that send a fetch, lose it or answer it.                          *)

LEMMA FailStep ==
  ASSUME PanelTypes, PanelOK, NEW i \in DOMAIN requests, Fail(i)
  PROVE  PanelOK'
<1>1. UNCHANGED <<table, announced, stream, feed, latest, shown, hazards>> /\ requests' = RemoveAt(requests, i)
  BY DEF Fail, server, push, panel, NoHazard
<1>2. DueRows' = DueRows
  BY <1>1 DEF DueRows, Coming
<1>3. ASSUME NEW j \in DOMAIN requests'
      PROVE  \E k \in DOMAIN requests \ {i} : requests'[j] = requests[k]
  BY <1>1, RequestRemoved DEF PanelTypes
<1>4. ASSUME NEW j \in DOMAIN requests'
      PROVE  /\ RequestOK(requests'[j], feed, latest, shown, table, DueRows)
             /\ ~IsFull(requests'[j])
  <2>1. PICK k \in DOMAIN requests \ {i} : requests'[j] = requests[k]
    BY <1>3
  <2>2. Len(requests) # 1
    BY <2>1 DEF PanelTypes
  <2> QED
    BY <2>1, <2>2 DEF PanelOK
<1> QED
  BY <1>1, <1>2, <1>4 DEF PanelOK

LEMMA AnswerStep ==
  ASSUME PanelTypes, PanelOK, RowsInv, Undisturbed, NEW i \in DOMAIN requests, Answer(i)
  PROVE  PanelOK'
<1> DEFINE q == requests[i]
           q2 == [q EXCEPT !.answer = AnswerTo(q)]
           newer == {r \in table : given[r] > q.after}
<1>0. UNCHANGED <<table, announced, stream, feed, latest, shown, hazards>>
  BY DEF Answer, server, push, panel, NoHazard
<1>1. DueRows' = DueRows
  BY <1>0 DEF DueRows, Coming
<1>2. q \in RequestType /\ q.after \in Nat
  BY RequestsTyped DEF RequestType
<1>3. /\ Len(requests') = Len(requests) /\ DOMAIN requests' = DOMAIN requests
      /\ requests'[i] = q2
      /\ \A j \in DOMAIN requests \ {i} : requests'[j] = requests[j]
  BY DEF Answer, PanelTypes
<1>4. /\ q2.kind = q.kind /\ q2.feed = q.feed /\ q2.after = q.after /\ q2.answer = AnswerTo(q)
  BY <1>2 DEF RequestType
<1>5. Growing /\ table \subseteq DOMAIN given /\ given \in Seq(Row)
  BY DEF PanelTypes, RowsInv, Undisturbed
<1>6. newer \in SUBSET DOMAIN given /\ \A r \in table : r \in newer <=> q.after < r
  BY <1>2, <1>5 DEF Growing
<1>7. RequestOK(q, feed, latest, shown, table, DueRows)
  BY DEF PanelOK
<1>8. CASE q.feed = "other"
  <2>1. AnswerTo(q).code = 404
    BY <1>8 DEF AnswerTo, NotFound, Unanswered
  <2>2. RequestOK(q2, feed, latest, shown, table, DueRows)
    BY <1>4, <1>7, <1>8, <2>1 DEF RequestOK, IsFull
  <2> QED
    BY <1>0, <1>1, <1>3, <1>4, <2>2 DEF PanelOK, IsFull
<1>9. CASE q.feed # "other"
  <2> DEFINE a == AnswerTo(q)
             page == IF q.after > 0 THEN Oldest(newer, PageLimit) ELSE Newest(newer, PageLimit)
  <2>1. a.rows = page /\ a.code = 200 /\ a.whole = (page = newer)
    BY <1>9 DEF AnswerTo, Listing
  <2>2. q.feed = "transcribed"
    BY <1>2, <1>9 DEF RequestType, ShownFeed
  <2> HIDE DEF a, newer
  <2>3. ASSUME ~IsFull(q), a.whole PROVE PollOK(a, q.after, shown, table, DueRows)
    <3>1. a.rows = newer
      BY <2>1, <2>3
    <3>2. newer \subseteq table
      BY DEF newer
    <3> QED
      BY <1>6, <3>1, <3>2 DEF PollOK
  <2>4. ASSUME IsFull(q) PROVE FullOK(a, latest, table, DueRows)
    <3>1. q.after = 0
      BY <1>7, <2>4 DEF RequestOK
    <3>2. newer = table
      BY <1>5, <1>6, <3>1 DEF newer
    <3>3. a.rows = Newest(table, PageLimit)
      BY <2>1, <3>1, <3>2
    <3>4. PageLimit \in Nat \ {0}
      BY PanelConstants DEF PanelConstants
    <3>5. /\ \A r \in Newest(table, PageLimit), s \in table : r < s => s \in Newest(table, PageLimit)
          /\ table # {} => Newest(table, PageLimit) # {}
      BY <1>5, <3>4, NewestRows
    <3> QED
      BY <3>3, <3>5 DEF FullOK
  <2>5. RequestOK(q2, feed, latest, shown, table, DueRows)
    BY <1>4, <1>7, <2>1, <2>2, <2>3, <2>4 DEF RequestOK, IsFull, a
  <2> QED
    BY <1>0, <1>1, <1>3, <1>4, <2>5 DEF PanelOK, IsFull
<1> QED
  BY <1>8, <1>9

LEMMA NewRequest ==
  ASSUME NEW kind, NEW f, NEW after, NEW l, NEW sh, NEW T, NEW D,
         after <= l, kind # "poll" => after = 0
  PROVE  /\ RequestOK(Request(kind, f, after), f, l, sh, T, D)
         /\ IsFull(Request(kind, f, after)) <=> kind # "poll"
BY DEF Request, RequestOK, Unanswered, IsFull

LEMMA PollStep ==
  ASSUME PanelTypes, PanelOK, Undisturbed', Poll
  PROVE  PanelOK'
<1> DEFINE q == Request("poll", feed, latest)
<1>0. latest \in Nat /\ latest <= latest /\ latest \in 0 .. MaxRows /\ feed \in ShownFeed
  BY PanelConstants DEF PanelTypes, PanelConstants
<1>1. UNCHANGED <<table, announced, stream, feed, latest, shown>> /\ requests' = Append(requests, q)
  BY DEF Poll, Send, server, push, panel
<1>2. ~Overlaps("poll") /\ ("event" \in hazards' <=> "event" \in hazards)
  BY DEF Poll, Send, Hazards, Where, Undisturbed
<1>3. \A i \in DOMAIN requests : ~IsFull(requests[i])
  BY <1>2 DEF Overlaps
<1>4. DueRows' = DueRows
  BY <1>1, <1>2 DEF DueRows, Coming
<1>5. RequestOK(q, feed, latest, shown, table, DueRows) /\ ~IsFull(q)
  BY <1>0, NewRequest
<1>6. q \in RequestType
  BY <1>0, EmptyAnswerOK DEF Request, RequestType, Kind
<1> HIDE DEF q
<1>7. /\ DOMAIN requests' = 1 .. Len(requests) + 1 /\ DOMAIN requests = 1 .. Len(requests)
      /\ Len(requests) \in Nat
      /\ \A i \in 1 .. Len(requests) : requests'[i] = requests[i]
      /\ requests'[Len(requests) + 1] = q
  BY <1>1, <1>6, Appended DEF PanelTypes
<1>8. ASSUME NEW i \in DOMAIN requests'
      PROVE  /\ RequestOK(requests'[i], feed, latest, shown, table, DueRows)
             /\ ~IsFull(requests'[i])
  BY <1>3, <1>5, <1>7 DEF PanelOK
<1> QED
  BY <1>1, <1>4, <1>8 DEF PanelOK

(* A full fetch is sent while no other fetch is on its way.                *)
LEMMA FullStep ==
  ASSUME PanelTypes, NEW kind \in {"mount", "refresh"}, NEW f \in ShownFeed, Overlaps(kind) => "overlap" \in hazards',
         Undisturbed', requests' = Append(requests, Request(kind, f, 0)), NEW l \in Nat, NEW sh, NEW T, NEW D
  PROVE  \A i \in DOMAIN requests' :
           /\ RequestOK(requests'[i], f, l, sh, T, D)
           /\ Len(requests') = 1
<1> DEFINE q == Request(kind, f, 0)
<1>1. requests = <<>>
  BY DEF Undisturbed, Overlaps
<1>2. RequestOK(q, f, l, sh, T, D)
  BY NewRequest
<1> HIDE DEF q
<1>3. requests' = <<q>>
  BY <1>1 DEF q
<1>4. /\ Len(requests') = 1
      /\ \A i \in DOMAIN requests' : requests'[i] = q
  <2>1. Len(<<q>>) = 1 /\ DOMAIN <<q>> = {1} /\ <<q>>[1] = q
    OBVIOUS
  <2> QED
    BY <1>3, <2>1
<1> QED
  BY <1>2, <1>4

LEMMA RefreshStep ==
  ASSUME PanelTypes, PanelOK, Undisturbed', Refresh
  PROVE  PanelOK'
<1>1. UNCHANGED <<table, announced, stream, feed, latest, shown>>
      /\ requests' = Append(requests, Request("refresh", feed, 0))
  BY DEF Refresh, Send, server, push, panel
<1>2. (Overlaps("refresh") => "overlap" \in hazards') /\ ("event" \in hazards' <=> "event" \in hazards)
  BY DEF Refresh, Send, Hazards, Where
<1>3. DueRows' = DueRows
  BY <1>1, <1>2 DEF DueRows, Coming
<1>4. \A i \in DOMAIN requests' :
        /\ RequestOK(requests'[i], feed, latest, shown, table, DueRows)
        /\ Len(requests') = 1
  <2> DEFINE D == DueRows
  <2>1. latest \in Nat /\ feed \in ShownFeed
    BY DEF PanelTypes
  <2> HIDE DEF D
  <2>2. \A i \in DOMAIN requests' :
          /\ RequestOK(requests'[i], feed, latest, shown, table, D)
          /\ Len(requests') = 1
    BY <1>1, <1>2, <2>1, FullStep
  <2> QED
    BY <2>2 DEF D
<1> QED
  BY <1>1, <1>3, <1>4 DEF PanelOK

(* The segments stay: they have no holes below the events still to come,   *)
(* or the panel asks for everything again.                                 *)
LEMMA SwitchStep ==
  ASSUME PanelTypes, PanelOK, Undisturbed', SwitchFeed
  PROVE  PanelOK'
<1>1. /\ UNCHANGED <<table, announced, shown>> /\ latest' = 0 /\ stream' = <<>> /\ feed' \in ShownFeed
      /\ requests' = Append(requests, Request("mount", feed', 0))
  BY DEF SwitchFeed, CloseStream, server
<1>2. /\ Overlaps("mount") => "overlap" \in hazards'
      /\ stream # <<>> => "missed" \in hazards'
      /\ "event" \in hazards' <=> "event" \in hazards
  BY DEF SwitchFeed, Hazards, Where
<1>3. \A r \in table : r \in Nat /\ 0 < r
  BY DEF PanelTypes
<1>4. DueRows' \subseteq DueRows
  <2>1. CASE "event" \in hazards
    <3>1. stream' = stream
      BY <1>1, <1>2, <2>1 DEF Undisturbed
    <3> QED
      BY <1>1, <1>2, <2>1, <3>1 DEF DueRows, Coming
  <2>2. CASE "event" \notin hazards
    BY <1>1, <1>2, <1>3, <2>2 DEF DueRows
  <2> QED
    BY <2>1, <2>2
<1>5. ShownOK(feed', 0, shown, table, DueRows')
  BY <1>3, <1>4 DEF PanelOK, ShownOK
<1> DEFINE D2 == DueRows'
<1>6. \A i \in DOMAIN requests' :
        /\ RequestOK(requests'[i], feed', 0, shown, table, D2)
        /\ Len(requests') = 1
  <2> HIDE DEF D2
  <2> QED
    BY <1>1, <1>2, FullStep
<1> QED
  BY <1>1, <1>5, <1>6 DEF PanelOK

-------------------------------------------------------------------------------
(* Steps that change what is shown.                                        *)

(* A merge leaves no hole where the merged rows have none: a row is kept,  *)
(* or so many lie above it that nothing at or below it is.                 *)
LEMMA Merged ==
  ASSUME given \in Seq(Row), Growing,
         NEW A \in SUBSET DOMAIN given, NEW B \in SUBSET DOMAIN given
  PROVE  /\ Merge(A, B) \subseteq A \cup B
         /\ A \cup B # {} => Merge(A, B) # {}
         /\ \A r \in A \cup B, s \in Merge(A, B) : s < r => r \in Merge(A, B)
         /\ \A r \in A \cup B : r \in Merge(A, B) \/ Below(r, Merge(A, B), MaxItems)
         /\ \A r \in Nat : Below(r, A, MaxItems) =>
              Below(r, Merge(A, B), MaxItems) /\ \A s \in Merge(A, B) : r < s
<1> DEFINE S == A \cup B
           M == Newest(S, MaxItems)
<1>0. MaxItems \in Nat \ {0} /\ S \in SUBSET DOMAIN given /\ DOMAIN given \subseteq Nat
  BY PanelConstants DEF PanelConstants
<1>1. M \subseteq S /\ IsFiniteSet(S)
  BY <1>0, NewestPage
<1>2. /\ \A r \in M, s \in S : r < s => s \in M
      /\ S # {} => M # {}
      /\ \A r \in S \ M : Below(r, S, MaxItems)
      /\ \A r \in Nat : Below(r, S, MaxItems) =>
           Below(r, M, MaxItems) /\ \A s \in M : r < s
  BY <1>0, NewestRows
<1>3. Merge(A, B) = M
  BY DEF Merge
<1>4. A \in SUBSET S
  OBVIOUS
<1> HIDE DEF M, S
<1>5. ASSUME NEW r \in Nat, Below(r, A, MaxItems) PROVE Below(r, S, MaxItems)
  <2> DEFINE X == {s \in A : r < s}
             Y == {s \in S : r < s}
  <2>1. X \in SUBSET Y /\ Y \in SUBSET S /\ Cardinality(X) >= MaxItems
    BY <1>4, <1>5 DEF Below
  <2> SUFFICES Cardinality(Y) >= MaxItems
    BY DEF Below
  <2> HIDE DEF X, Y
  <2>2. IsFiniteSet(Y) /\ IsFiniteSet(X) /\ Cardinality(X) <= Cardinality(Y)
    BY <1>1, <2>1, FS_Subset
  <2>3. Cardinality(X) \in Nat /\ Cardinality(Y) \in Nat
    BY <2>2, FS_CardinalityType
  <2> QED
    BY <1>0, <2>1, <2>2, <2>3
<1>6. \A r \in S : r \in M \/ Below(r, M, MaxItems)
  BY <1>0, <1>2
<1> QED
  BY <1>1, <1>2, <1>3, <1>5, <1>6 DEF S

(* A poll on its way while B is merged into the segments A.                *)
LEMMA MergedRequest ==
  ASSUME given \in Seq(Row), Growing,
         NEW A \in SUBSET DOMAIN given, NEW B \in SUBSET DOMAIN given,
         NEW f, NEW l \in Nat, NEW l2 \in Nat, l <= l2, NEW T \in SUBSET Nat, NEW D, NEW D2,
         NEW q, q.after \in Nat, ~IsFull(q), RequestOK(q, f, l, A, T, D),
         \A r \in T : r \in D2 /\ q.after < r => r \in D \/ r \in B
  PROVE  RequestOK(q, f, l2, Merge(A, B), T, D2)
<1> DEFINE M == Merge(A, B)
<1>1. /\ \A r \in A \cup B : r \in M \/ Below(r, M, MaxItems)
      /\ \A r \in Nat : Below(r, A, MaxItems) => Below(r, M, MaxItems)
  BY Merged
<1> HIDE DEF M
<1>2. ASSUME PollOK(q.answer, q.after, A, T, D) PROVE PollOK(q.answer, q.after, M, T, D2)
  BY <1>1, <1>2 DEF PollOK
<1>3. q.after <= l2
  BY DEF RequestOK
<1> QED
  BY <1>2, <1>3 DEF RequestOK, M

LEMMA ReadStep ==
  ASSUME PanelTypes, PanelTypes', PanelOK, RowsInv, StreamInv, Undisturbed, Undisturbed', ReadEvent
  PROVE  PanelOK'
<1> DEFINE shownRow == Head(stream)
           M == Merge(shown, {shownRow})
           D == DueRows
           D2 == DueRows'
<1>0. /\ given \in Seq(Row) /\ Growing /\ DOMAIN given \subseteq Nat /\ table \in SUBSET Nat
      /\ shown \in SUBSET DOMAIN given /\ latest \in Nat /\ table \subseteq DOMAIN given
      /\ stream \in Seq(DOMAIN given) /\ stream # <<>> /\ announced \in Nat
  BY DEF PanelTypes, RowsInv, Undisturbed, ReadEvent
<1>1. /\ Len(stream) \in Nat \ {0} /\ DOMAIN stream = 1 .. Len(stream)
      /\ DOMAIN Tail(stream) = 1 .. Len(stream) - 1
      /\ \A i \in 1 .. Len(stream) - 1 : Tail(stream)[i] = stream[i + 1]
      /\ shownRow = stream[1] /\ shownRow \in DOMAIN given
  BY <1>0, Taken
<1>2. /\ UNCHANGED <<table, announced, feed, requests>> /\ stream' = Tail(stream)
      /\ latest' = Max({latest, given[shownRow]}) /\ shown' = M
  BY DEF ReadEvent, server
<1>3. "event" \in hazards' /\ "missed" \notin hazards'
  BY DEF ReadEvent, Hazards, Undisturbed
<1>4. \A i \in DOMAIN requests : ~IsFull(requests[i])
  BY DEF ReadEvent, Hazards, Where, Undisturbed
<1>5. "missed" \notin hazards
  BY <1>3 DEF ReadEvent, Hazards
<1>6. /\ EventsRead \in Nat /\ EventsRead + Len(stream) = announced
      /\ "event" \notin hazards => EventsRead = 0
      /\ \A i \in DOMAIN stream : stream[i] = EventsRead + i
  <2>1. EventsRead + Len(stream) = announced
    BY <1>0, <1>1 DEF EventsRead
  <2> QED
    BY <1>5, <2>1 DEF StreamInv
<1>7. shownRow = EventsRead + 1
  BY <1>1, <1>6
<1> HIDE DEF shownRow, M, D, D2
<1>8. ASSUME NEW r \in D2 PROVE r \in table /\ r <= shownRow
  <2>1. r \in table /\ r \in Nat /\ ~(r \in ToSet(Tail(stream))) /\ ~(r > announced)
    BY <1>0, <1>2, <1>3 DEF D2, DueRows, Coming
  <2>2. CASE r > shownRow
    <3>1. r - shownRow \in 1 .. Len(stream) - 1 /\ EventsRead + ((r - shownRow) + 1) = r /\ (r - shownRow) + 1 \in DOMAIN stream
      BY <1>0, <1>1, <1>6, <1>7, <2>1, <2>2
    <3>2. Tail(stream)[r - shownRow] = r
      BY <1>1, <1>6, <3>1
    <3> QED
      BY <1>1, <2>1, <3>1, <3>2 DEF ToSet
  <2> QED
    BY <1>0, <1>1, <2>1, <2>2
<1>9. ASSUME NEW r \in D2, r # shownRow PROVE r \in D /\ r < shownRow
  <2>1. r \in table /\ r < shownRow /\ r \in Nat /\ 0 < r
    BY <1>0, <1>1, <1>8, <1>9 DEF PanelTypes
  <2>2. "event" \in hazards
    BY <1>6, <1>7, <2>1
  <2>3. ~(r > announced) /\ \A i \in DOMAIN stream : stream[i] # r
    BY <1>0, <1>1, <1>6, <1>7, <2>1
  <2> QED
    BY <2>1, <2>2, <2>3 DEF D, DueRows, Coming, ToSet
<1>10. /\ M \subseteq shown \cup {shownRow} /\ M # {}
       /\ \A r \in shown \cup {shownRow}, s \in M : s < r => r \in M
  <2>1. {shownRow} \in SUBSET DOMAIN given /\ shown \cup {shownRow} # {}
    BY <1>1
  <2> QED
    BY <1>0, <2>1, Merged DEF M
<1>11. ShownOK(feed, latest, shown, table, D) /\ \A i \in DOMAIN requests : RequestOK(requests[i], feed, latest, shown, table, D)
  BY DEF PanelOK, D
<1>12. ShownOK(feed, latest', M, table, D2)
  <2> SUFFICES ASSUME NEW r \in table, r \in D2, NEW s \in M, s < r PROVE r \in M
    BY <1>10 DEF ShownOK
  <2>1. CASE r = shownRow
    BY <1>10, <2>1
  <2>2. CASE r # shownRow
    <3>1. r \in D /\ r < shownRow /\ s \in shown
      BY <1>0, <1>1, <1>9, <1>10, <2>2
    <3>2. r \in shown
      BY <1>11, <3>1 DEF ShownOK
    <3> QED
      BY <1>10, <3>2
  <2> QED
    BY <2>1, <2>2
<1>13. latest' \in Nat /\ latest <= latest'
  <2>1. given[shownRow] \in Nat
    BY <1>0, <1>1 DEF Growing
  <2> QED
    BY <1>0, <1>2, <2>1, MaxOfTwo
<1>14. ASSUME NEW i \in DOMAIN requests PROVE RequestOK(requests[i], feed, latest', M, table, D2)
  <2> DEFINE q == requests[i]
             l2 == latest'
  <2>1. q.after \in Nat /\ ~IsFull(q) /\ RequestOK(q, feed, latest, shown, table, D)
    BY <1>4, <1>11, RequestsTyped DEF RequestType
  <2>2. l2 \in Nat /\ latest <= l2
    BY <1>13
  <2> HIDE DEF q, l2
  <2>3. RequestOK(q, feed, l2, Merge(shown, {shownRow}), table, D2)
    BY <1>0, <1>1, <1>9, <2>1, <2>2, MergedRequest
  <2> QED
    BY <2>3 DEF q, l2, M
<1> QED
  BY <1>2, <1>4, <1>12, <1>14 DEF PanelOK, D2

LEMMA ClearStep ==
  ASSUME PanelTypes, PanelOK, NEW i \in DOMAIN requests, Deliver(i), Clear(requests[i])
  PROVE  PanelOK'
<1>1. UNCHANGED <<table, announced, stream, feed, latest, hazards>> /\ requests' = RemoveAt(requests, i) /\ shown' = {}
  BY DEF Deliver, Clear, server, push, NoHazard
<1>2. DueRows' = DueRows
  BY <1>1 DEF DueRows, Coming
<1>3. feed = "other"
  BY DEF PanelOK, RequestOK, Clear
<1>4. ShownOK(feed, latest, {}, table, DueRows)
  BY <1>3 DEF ShownOK
<1>5. ASSUME NEW j \in DOMAIN requests'
      PROVE  /\ RequestOK(requests'[j], feed, latest, {}, table, DueRows)
             /\ ~IsFull(requests'[j])
  <2>1. PICK k \in DOMAIN requests \ {i} : requests'[j] = requests[k]
    BY <1>1, RequestRemoved DEF PanelTypes
  <2>2. Len(requests) # 1
    BY <2>1 DEF PanelTypes
  <2>3. RequestOK(requests[k], feed, latest, shown, table, DueRows) /\ ~IsFull(requests[k])
    BY <2>1, <2>2 DEF PanelOK
  <2> QED
    BY <1>3, <2>1, <2>3 DEF RequestOK
<1> QED
  BY <1>1, <1>2, <1>4, <1>5 DEF PanelOK

LEMMA ApplyStep ==
  ASSUME PanelTypes, PanelOK, RowsInv, Undisturbed, Undisturbed',
         NEW i \in DOMAIN requests, Deliver(i), Apply(requests[i])
  PROVE  PanelOK'
<1> DEFINE q == requests[i]
           a == q.answer
           B == a.rows
           l2 == latest'
           D == DueRows
           D2 == DueRows'
<1>0. /\ given \in Seq(Row) /\ Growing /\ table \in SUBSET Nat /\ B \in SUBSET DOMAIN given
      /\ shown \in SUBSET DOMAIN given /\ latest \in Nat /\ a.latest \in Nat /\ q.after \in Nat
      /\ DOMAIN given \subseteq Nat
  BY RequestsTyped DEF PanelTypes, RowsInv, Undisturbed, AnswerOK, RequestType
<1>1. /\ UNCHANGED <<table, announced, stream, feed>> /\ requests' = RemoveAt(requests, i)
      /\ l2 = Max({latest, a.latest}) /\ a.code = 200
      /\ shown' = Merge(IF IsFull(q) THEN {} ELSE shown, B)
  BY DEF Deliver, Apply, server, push
<1>2. /\ "event" \in hazards' <=> "event" \in hazards
      /\ ~IsFull(q) => a.whole
  BY DEF Apply, Hazards, Where, Undisturbed
<1>3. l2 \in {latest, a.latest} /\ l2 \in Nat /\ latest <= l2 /\ a.latest <= l2
  BY <1>0, <1>1, MaxOfTwo
<1>4. \A r \in table : r \in D2 => r \in D \/ (latest < r /\ r <= a.latest)
  <2> SUFFICES ASSUME NEW r \in table, r \in D2 PROVE r \in D \/ (latest < r /\ r <= a.latest)
    OBVIOUS
  <2>1. CASE "event" \in hazards
    BY <1>1, <1>2, <2>1 DEF DueRows, Coming
  <2>2. CASE "event" \notin hazards
    <3>1. r <= l2 /\ (r <= latest => r \in D)
      BY <1>2, <2>2 DEF DueRows
    <3> QED
      BY <1>0, <1>3, <3>1
  <2> QED
    BY <2>1, <2>2
<1>5. /\ ShownOK(feed, latest, shown, table, D)
      /\ \A j \in DOMAIN requests : RequestOK(requests[j], feed, latest, shown, table, D)
      /\ \A j \in DOMAIN requests : IsFull(requests[j]) => Len(requests) = 1
  BY DEF PanelOK
<1>6. /\ feed = "transcribed" /\ q.after <= latest
      /\ IsFull(q) => FullOK(a, latest, table, D)
      /\ ~IsFull(q) => PollOK(a, q.after, shown, table, D)
  BY <1>1, <1>2, <1>5 DEF RequestOK
<1>7. ASSUME NEW j \in DOMAIN requests'
      PROVE  \E k \in DOMAIN requests \ {i} : requests'[j] = requests[k] /\ ~IsFull(requests[k])
  <2>1. PICK k \in DOMAIN requests \ {i} : requests'[j] = requests[k]
    BY <1>1, <1>7, RequestRemoved DEF PanelTypes
  <2>2. Len(requests) # 1
    BY <2>1 DEF PanelTypes
  <2> QED
    BY <1>5, <2>1, <2>2
<1> DEFINE M == shown'
<1> HIDE DEF D, D2, l2, B, a, q, M
<1>8. CASE IsFull(q)
  <2>1. M = Merge({}, B)
    BY <1>1, <1>8 DEF M
  <2>2. /\ M \subseteq B
        /\ B # {} => M # {}
        /\ \A r \in B, s \in M : s < r => r \in M
    BY <1>0, <2>1, Merged
  <2>3. FullOK(a, latest, table, D)
    BY <1>6, <1>8
  <2>4. ASSUME NEW r \in table
        PROVE  /\ M = {} => l2 < r
               /\ r \in D2 /\ (\E s \in M : s < r) => r \in M
    <3>1. M = {} => l2 < r
      BY <1>3, <2>2, <2>3 DEF FullOK, B
    <3>2. ASSUME r \in D2, NEW s \in M, s < r PROVE r \in M
      <4>1. r \in B
        BY <1>4, <2>2, <2>3, <3>2 DEF FullOK, B
      <4> QED
        BY <2>2, <3>2, <4>1
    <3> QED
      BY <3>1, <3>2
  <2>5. ShownOK(feed, l2, M, table, D2)
    BY <2>4 DEF ShownOK
  <2>6. DOMAIN requests' = {}
    <3>1. Len(requests) = 1
      BY <1>5, <1>8 DEF q
    <3>2. DOMAIN requests \ {i} = {}
      BY <3>1 DEF PanelTypes
    <3> QED
      BY <1>7, <3>2
  <2> QED
    BY <1>1, <2>5, <2>6 DEF PanelOK, l2, M, D2
<1>9. CASE ~IsFull(q)
  <2>1. M = Merge(shown, B)
    BY <1>1, <1>9 DEF M
  <2>2. /\ M \subseteq shown \cup B
        /\ shown \cup B # {} => M # {}
        /\ \A r \in shown \cup B, s \in M : s < r => r \in M
        /\ \A r \in Nat : Below(r, shown, MaxItems) => \A s \in M : r < s
    BY <1>0, <2>1, Merged
  <2>3. /\ \A s \in B : q.after < s
        /\ \A r \in table : q.after < r =>
             /\ r <= a.latest => r \in B
             /\ r \in D => r \in B \cup shown \/ Below(r, shown, MaxItems)
    BY <1>6, <1>9 DEF PollOK, B
  <2>4. ASSUME NEW r \in table
        PROVE  /\ M = {} => l2 < r
               /\ r \in D2 /\ (\E s \in M : s < r) => r \in M
    <3>0. r \in Nat
      BY <1>0
    <3>1. ASSUME M = {} PROVE l2 < r
      <4>1. shown = {} /\ B = {}
        BY <2>2, <3>1
      <4>2. latest < r
        BY <1>5, <1>6, <4>1 DEF ShownOK
      <4> QED
        BY <1>0, <1>3, <1>6, <2>3, <3>0, <4>1, <4>2
    <3>2. ASSUME r \in D2, NEW s \in M, s < r PROVE r \in M
      <4>1. r \in shown \cup B
        <5>1. CASE latest < r /\ r <= a.latest
          BY <1>0, <1>6, <2>3, <3>0, <5>1
        <5>2. CASE r \in D /\ s \in shown
          BY <1>5, <3>2, <5>2 DEF ShownOK
        <5>3. CASE r \in D /\ s \in B
          <6>1. q.after < r /\ s \in Nat
            BY <1>0, <2>3, <3>0, <3>2, <5>3
          <6>2. ~Below(r, shown, MaxItems)
            BY <2>2, <3>0, <3>2, <6>1
          <6> QED
            BY <2>3, <5>3, <6>1, <6>2
        <5> QED
          BY <1>4, <2>2, <3>2, <5>1, <5>2, <5>3
      <4> QED
        BY <2>2, <3>2, <4>1
    <3> QED
      BY <3>1, <3>2
  <2>5. ShownOK(feed, l2, M, table, D2)
    BY <2>4 DEF ShownOK
  <2>6. \A r \in table : r \in D2 => r \in D \/ r \in B
    BY <1>0, <1>4, <1>6, <2>3
  <2>7. ASSUME NEW j \in DOMAIN requests'
        PROVE  RequestOK(requests'[j], feed, l2, M, table, D2) /\ ~IsFull(requests'[j])
    <3>1. PICK k \in DOMAIN requests \ {i} : requests'[j] = requests[k] /\ ~IsFull(requests[k])
      BY <1>7
    <3> DEFINE p == requests[k]
    <3>2. p.after \in Nat /\ ~IsFull(p) /\ RequestOK(p, feed, latest, shown, table, D)
      BY <1>5, <3>1, RequestsTyped DEF RequestType
    <3> HIDE DEF p
    <3>3. RequestOK(p, feed, l2, Merge(shown, B), table, D2)
      BY <1>0, <1>3, <2>6, <3>2, MergedRequest
    <3> QED
      BY <2>1, <3>1, <3>3 DEF p
  <2> QED
    BY <1>1, <2>5, <2>7 DEF PanelOK, l2, M, D2
<1> QED
  BY <1>8, <1>9

LEMMA PanelStep == PanelInv /\ [PanelNext]_panelVars => PanelInv'
<1> SUFFICES ASSUME PanelInv, [PanelNext]_panelVars PROVE PanelInv'
  OBVIOUS
<1>1. PanelTypes /\ RowsInv /\ StreamInv /\ PanelTypes' /\ RowsInv' /\ StreamInv' /\ hazards \subseteq hazards'
  BY TypesStep, RowsStep, StreamStep, HazardsGrow DEF PanelInv
<1>2. ASSUME Undisturbed' PROVE PanelOK'
  <2>1. Undisturbed /\ PanelOK
    BY <1>1, <1>2, StillUndisturbed DEF PanelInv
  <2> QED
    BY <1>1, <1>2, <2>1, QuietActions, FailStep, AnswerStep, PollStep, RefreshStep, SwitchStep,
       ReadStep, ClearStep, ApplyStep DEF PanelNext, Deliver
<1> QED
  BY <1>1, <1>2 DEF PanelInv

LEMMA PanelStart == PanelInit => PanelInv
<1> SUFFICES ASSUME PanelInit PROVE PanelInv
  OBVIOUS
<1>1. PanelTypes
  BY InitTypes
<1>2. /\ table = {} /\ DOMAIN given = {} /\ Len(stream) = 0 /\ DOMAIN stream = {} /\ announced = 0
      /\ feed = "transcribed" /\ latest = 0 /\ shown = {}
  BY DEF PanelInit
<1> DEFINE q == Request("mount", "transcribed", 0)
           D == DueRows
<1>3. requests = <<q>>
  BY DEF PanelInit
<1>4. RequestOK(q, "transcribed", 0, {}, {}, D)
  <2> HIDE DEF D
  <2> QED
    BY NewRequest
<1> HIDE DEF q, D
<1>5. Len(requests) = 1 /\ \A i \in DOMAIN requests : requests[i] = q
  BY <1>3
<1>6. PanelOK
  BY <1>2, <1>4, <1>5 DEF PanelOK, ShownOK, D
<1>7. RowsInv /\ StreamInv
  BY <1>2 DEF RowsInv, StreamInv, Growing, EventsRead
<1> QED
  BY <1>1, <1>6, <1>7 DEF PanelInv

(* Without the hazards, no row the service still has is skipped: the panel *)
(* shows every row from the oldest on screen to the cursor it asks on      *)
(* from, or an unread event will bring it, whatever fails and in whatever  *)
(* order polls are answered.                                               *)
THEOREM PanelHasNoHoles == PanelSpec => []NoHolesUndisturbed
<1>1. PanelSpec => []PanelInv
  BY PanelStart, PanelStep, PTL DEF PanelSpec
<1> QED
  BY <1>1, PanelInvImplies, PTL

-------------------------------------------------------------------------------
(* THE CAPTURE LOOP AND THE STATUS                                         *)
(* A back-off is a wait: it is never empty, and never above the maximum.   *)
LEMMA BackoffIsBounded ==
  ASSUME NEW attempt \in 1 .. MaxFailures
  PROVE  BackoffSeconds(attempt) \in 1 .. MaxDelay
<1> DEFINE power == 2 ^ (attempt - 1)
<1>1. attempt - 1 \in 0 .. MaxFailures
  BY CaptureConstants DEF CaptureConstants
<1>2. power \in Nat \ {0}
  BY <1>1, PowersOfTwo DEF PowersOfTwo
<1>3. AtMost(MaxDelay, power) \in 1 .. MaxDelay
  <2> HIDE DEF power
  <2> QED
    BY <1>2, CaptureConstants DEF CaptureConstants, AtMost
<1> QED
  BY <1>3 DEF BackoffSeconds

(* A further failure stays within its bound and leads to a wait.           *)
LEMMA BackoffWaits ==
  ASSUME TypeOK, Backoff
  PROVE  /\ failures' \in 0 .. MaxFailures /\ delay' \in 1 .. MaxDelay
         /\ stage' = "backoff" /\ received' = FALSE /\ silent' = 0
<1>1. failures' \in 1 .. MaxFailures
  BY CaptureConstants DEF CaptureConstants, TypeOK, Backoff, AtMost
<1>2. delay' \in 1 .. MaxDelay
  BY <1>1, BackoffIsBounded DEF Backoff
<1> QED
  BY <1>1, <1>2, CaptureConstants DEF CaptureConstants, Backoff

LEMMA AgesAreBounded ==
  ASSUME TypeOK
  PROVE  MaxAge \in Nat /\ Older \in 0 .. MaxAge
BY CaptureConstants DEF CaptureConstants, TypeOK, Older, AtMost, MaxAge

(* The pending gap has an age within its bound.                            *)
LEMMA GapAnchorIsPending ==
  ASSUME TypeOK, GapAnchor
  PROVE  pending' = TRUE /\ outage' \in 0 .. MaxAge
<1>1. CASE pending \/ ~received
  BY <1>1, AgesAreBounded DEF GapAnchor
<1>2. CASE ~(pending \/ ~received)
  BY <1>2, AgesAreBounded, CaptureConstants DEF CaptureConstants, GapAnchor, AtMost, TypeOK
<1> QED
  BY <1>1, <1>2

(* The type invariant in two halves: where the thread is, and its numbers. *)
Places ==
  /\ source \in {"up", "down"} /\ stopping \in BOOLEAN /\ stage \in Stage
  /\ received \in BOOLEAN /\ (received => stage = "open")
  /\ pending \in BOOLEAN /\ heard \in BOOLEAN

Numbers ==
  /\ silent \in 0 .. ReadTimeout /\ outage \in 0 .. MaxAge
  /\ failures \in 0 .. MaxFailures
  /\ delay \in 0 .. MaxDelay /\ (stage = "backoff" => delay > 0)

LEMMA TypeHalves == (TypeOK <=> Places /\ Numbers) /\ (TypeOK' <=> (Places /\ Numbers)')
BY DEF TypeOK, Places, Numbers

LEMMA TypeStep == TypeOK /\ [Next]_vars => TypeOK'
<1> SUFFICES ASSUME TypeOK, Places, Numbers, [Next]_vars PROVE Places' /\ Numbers'
  BY TypeHalves
<1> USE CaptureConstants DEF CaptureConstants
<1>1. CASE Open
  <2>1. Places'
    BY <1>1, Zenon DEF Open, Places, Stage, environment
  <2>2. Numbers'
    BY <1>1, SMT DEF Open, Numbers, Places, environment
  <2> QED BY <2>1, <2>2
<1>2. CASE OpenFails
  <2>1. Places'
    BY <1>2, BackoffWaits, Zenon DEF OpenFails, Places, Stage, environment
  <2>2. Numbers'
    BY <1>2, BackoffWaits, SMT DEF OpenFails, Numbers, Places, environment
  <2> QED BY <2>1, <2>2
<1>3. CASE Bytes
  <2>1. Places'
    BY <1>3, Zenon DEF Bytes, Places, Stage, environment
  <2>2. Numbers'
    BY <1>3, AgesAreBounded, SMT DEF Bytes, Numbers, Places, environment
  <2> QED BY <2>1, <2>2
<1>4. CASE Idle
  <2>1. Places'
    BY <1>4, Zenon DEF Idle, Places, Stage, environment
  <2>2. Numbers'
    BY <1>4, AgesAreBounded, SMT DEF Idle, TimedOut, Numbers, Places, environment
  <2> QED BY <2>1, <2>2
<1>5. CASE GiveUp
  <2>1. Places'
    BY <1>5, BackoffWaits, GapAnchorIsPending, Zenon DEF GiveUp, Places, Stage, environment
  <2>2. Numbers'
    BY <1>5, BackoffWaits, GapAnchorIsPending, SMT DEF GiveUp, Numbers, Places, environment
  <2> QED BY <2>1, <2>2
<1>6. CASE Closed
  <2>1. Places'
    BY <1>6, BackoffWaits, GapAnchorIsPending, Zenon DEF Closed, Places, Stage, environment
  <2>2. Numbers'
    BY <1>6, BackoffWaits, GapAnchorIsPending, SMT DEF Closed, Numbers, Places, environment
  <2> QED BY <2>1, <2>2
<1>7. CASE Wait
  <2>1. Places'
    BY <1>7, Zenon DEF Wait, Places, Stage, environment
  <2>2. Numbers'
    BY <1>7, AgesAreBounded, SMT DEF Wait, Numbers, Places, environment
  <2> QED BY <2>1, <2>2
<1>8. CASE Ends
  <2>1. Places'
    BY <1>8, Zenon DEF Ends, Places, Stage, environment
  <2>2. Numbers'
    BY <1>8, SMT DEF Ends, Numbers, Places, environment
  <2> QED BY <2>1, <2>2
<1>9. CASE SourceChanges
  <2>1. Places'
    BY <1>9, Zenon DEF SourceChanges, Places, Stage, environment
  <2>2. Numbers'
    BY <1>9, SMT DEF SourceChanges, Numbers, Places, environment
  <2> QED BY <2>1, <2>2
<1>10. CASE StopRequested
  <2>1. Places'
    BY <1>10, Zenon DEF StopRequested, Places, Stage, environment
  <2>2. Numbers'
    BY <1>10, SMT DEF StopRequested, Numbers, Places, environment
  <2> QED BY <2>1, <2>2
<1>11. CASE UNCHANGED vars
  <2>1. Places'
    BY <1>11, Zenon DEF vars, Places, Stage, environment
  <2>2. Numbers'
    BY <1>11, SMT DEF vars, Numbers, Places, environment
  <2> QED BY <2>1, <2>2
<1> QED
  BY <1>1, <1>2, <1>3, <1>4, <1>5, <1>6, <1>7, <1>8, <1>9, <1>10, <1>11 DEF Next, Capture

LEMMA TypeInit == Init => TypeOK
<1> SUFFICES ASSUME Init PROVE Places /\ Numbers
  BY TypeHalves
<1>1. Places
  BY Zenon DEF Init, Places, Stage
<1>2. Numbers
  BY CaptureConstants, SMT DEF CaptureConstants, Init, Numbers, MaxAge
<1> QED BY <1>1, <1>2

(* The loop never leaves its states: ages, failures and waits stay within  *)
(* their bounds, and a back-off has something left to wait for.            *)
THEOREM CaptureTypeCorrect == Spec => []TypeOK
BY TypeInit, TypeStep, PTL DEF Spec

-------------------------------------------------------------------------------
(* An attempt that gives bytes has recorded the gap before it, and what    *)
(* was heard before any other attempt left a gap to record.                *)
OutageInv ==
  /\ received => heard /\ ~pending
  /\ OutageRemembered

LEMMA OutageStep == TypeOK /\ OutageInv /\ [Next]_vars => OutageInv'
<1> SUFFICES ASSUME TypeOK, OutageInv, [Next]_vars PROVE OutageInv'
  OBVIOUS
<1> USE DEF OutageInv, OutageRemembered
<1>1. CASE Open
  BY <1>1 DEF Open, TypeOK
<1>2. CASE OpenFails
  BY <1>2 DEF OpenFails, Backoff, TypeOK
<1>3. CASE Bytes
  BY <1>3 DEF Bytes
<1>4. CASE Idle
  BY <1>4 DEF Idle
<1>5. CASE GiveUp
  BY <1>5, GapAnchorIsPending DEF GiveUp, Backoff
<1>6. CASE Closed
  BY <1>6, GapAnchorIsPending DEF Closed, Backoff
<1>7. CASE Wait
  BY <1>7 DEF Wait
<1>8. CASE Ends
  BY <1>8 DEF Ends
<1>9. CASE SourceChanges
  BY <1>9 DEF SourceChanges
<1>10. CASE StopRequested
  BY <1>10 DEF StopRequested
<1>11. CASE UNCHANGED vars
  BY <1>11 DEF vars
<1> QED
  BY <1>1, <1>2, <1>3, <1>4, <1>5, <1>6, <1>7, <1>8, <1>9, <1>10, <1>11 DEF Next, Capture

(* However often an attempt fails, and in whatever way (run of capture.py: *)
(* pending_gap_start is only cleared by bytes), the gap of an outage that  *)
(* follows audio will be recorded.                                         *)
THEOREM OutagesAreRemembered == Spec => []OutageRemembered
<1>1. Init => OutageInv
  BY DEF Init, OutageInv, OutageRemembered
<1>2. OutageInv => OutageRemembered
  BY DEF OutageInv
<1> QED
  BY <1>1, <1>2, OutageStep, CaptureTypeCorrect, PTL DEF Spec

-------------------------------------------------------------------------------
(* The health report is written next to the capture loop and never steers  *)
(* it: every step of ScannerHealth is a step of ScannerCapture, or leaves  *)
(* its variables alone.                                                    *)
LEMMA HealthStepIsCaptureStep == [HealthNext]_healthVars => [Next]_vars
<1> SUFFICES ASSUME [HealthNext]_healthVars PROVE [Next]_vars
  OBVIOUS
<1> USE DEF Next
<1>1. CASE HealthCapture
  BY <1>1 DEF HealthCapture, Capture, HealthOpen, HealthOpenFails, HealthBytes, HealthIdle,
              HealthLost, HealthWait, HealthEnds
<1>2. CASE CutChunk
  BY <1>2 DEF CutChunk
<1>3. CASE Asr
  BY <1>3 DEF Asr, Take, Transcribes, TranscribeFails, RecordFailure, MarkSilence,
              AnnouncePublishing, Persist
<1>4. CASE SweepFails \/ CheckFails \/ Shutdown
  BY <1>4 DEF SweepFails, CheckFails, Shutdown
<1>5. CASE Environment
  BY <1>5 DEF Environment
<1>6. CASE UNCHANGED healthVars
  BY <1>6 DEF healthVars
<1> QED
  BY <1>1, <1>2, <1>3, <1>4, <1>5, <1>6 DEF HealthNext

(* The runtime with its report implements the capture loop, so that what   *)
(* is proved of the loop holds of the service: its gaps are recorded.      *)
THEOREM HealthImplementsCapture == HealthSpec => Spec /\ []TypeOK /\ []OutageRemembered
<1>1. HealthInit => Init
  BY DEF HealthInit
<1>2. HealthSpec => Spec
  BY <1>1, HealthStepIsCaptureStep, PTL DEF HealthSpec, Spec
<1> QED
  BY <1>2, CaptureTypeCorrect, OutagesAreRemembered, PTL

-------------------------------------------------------------------------------
(* A fault leaves its error behind whatever is written over the status.    *)
(* The two places that clear an error can only do so after a reconnect:    *)
(* the first bytes of an attempt are the only ones that find the status    *)
(* still at "connecting" or "upstream_unavailable", and no chunk is        *)
(* transcribed while the status is that of a failed transcription.         *)
ErrorStays ==
  /\ faulted => error # "none"
  /\ received => status \notin {"connecting", "upstream_unavailable"}
  /\ asr = "transcribing" => status # "asr_failure"

(* The report's own types.                                                 *)
ReportTypes ==
  /\ status \in Statuses /\ error \in Faults \cup {"none"}
  /\ asr \in {"idle", "transcribing", "failed", "speech", "silence", "persisting"}
  /\ asrOk \in BOOLEAN /\ storeOk \in BOOLEAN /\ faulted \in BOOLEAN
  /\ status \in Faults => error \in Faults

Counts == age \in 0 .. Stale /\ queue \in 0 .. QueueSize

LEMMA ReportTypesStep == ReportTypes /\ ErrorStays /\ [HealthNext]_healthVars => ReportTypes'
<1> SUFFICES ASSUME ReportTypes, ErrorStays, [HealthNext]_healthVars PROVE ReportTypes'
  OBVIOUS
<1> USE DEF ReportTypes, Statuses, Faults, Good
<1>1. CASE HealthOpen
  BY <1>1 DEF HealthOpen, Connecting, Open, vars, worker, report
<1>2. CASE HealthOpenFails
  BY <1>2 DEF HealthOpenFails, SetFault, OpenFails, Backoff, vars, worker, report
<1>3. CASE HealthBytes
  BY <1>3 DEF HealthBytes, Heard, SetFault, Bytes, vars, worker, report
<1>4. CASE CutChunk
  BY <1>4 DEF CutChunk, Enqueue, Write, SetFault, SetStatus, vars, worker, report
<1>5. CASE HealthIdle
  BY <1>5 DEF HealthIdle, Unwritten, Idle, vars, worker, report
<1>6. CASE HealthWait
  BY <1>6 DEF HealthWait, Unwritten, Wait, vars, worker, report
<1>7. CASE HealthLost
  BY <1>7 DEF HealthLost, SetFault, GiveUp, Closed, Backoff, vars, worker, report
<1>8. CASE HealthEnds
  BY <1>8 DEF HealthEnds, Enqueue, Write, SetFault, SetStatus, Ends, vars, worker, report
<1>9. CASE Take
  BY <1>9 DEF Take, SetStatus, vars, worker, report
<1>10. CASE Transcribes
  BY <1>10 DEF Transcribes, ErrorStays, vars, worker, report
<1>11. CASE TranscribeFails
  BY <1>11 DEF TranscribeFails, SetFault, vars, worker, report
<1>12. CASE RecordFailure
  BY <1>12 DEF RecordFailure, Write, SetFault, SetStatus, vars, worker, report
<1>13. CASE MarkSilence
  BY <1>13 DEF MarkSilence, Write, Settle, SetFault, SetStatus, vars, worker, report
<1>14. CASE AnnouncePublishing
  BY <1>14 DEF AnnouncePublishing, SetStatus, vars, worker, report
<1>15. CASE Persist
  BY <1>15 DEF Persist, Write, Settle, SetFault, SetStatus, vars, worker, report
<1>16. CASE SweepFails
  BY <1>16 DEF SweepFails, SetFault, vars, worker, report
<1>17. CASE CheckFails
  BY <1>17 DEF CheckFails, SetFault, vars, worker, report
<1>18. CASE Shutdown
  BY <1>18 DEF Shutdown, SetStatus, vars, worker, report
<1>19. CASE Environment
  BY <1>19 DEF Environment, SourceChanges, StopRequested, vars, worker, report
<1>20. CASE UNCHANGED healthVars
  BY <1>20 DEF healthVars, vars, worker, report
<1> QED
  BY <1>1, <1>2, <1>3, <1>4, <1>5, <1>6, <1>7, <1>8, <1>9, <1>10, <1>11,
     <1>12, <1>13, <1>14, <1>15, <1>16, <1>17, <1>18, <1>19, <1>20
     DEF HealthNext, HealthCapture, Asr

LEMMA ErrorStaysStep == ReportTypes /\ ErrorStays /\ [HealthNext]_healthVars => ErrorStays'
<1> SUFFICES ASSUME ReportTypes, ErrorStays, [HealthNext]_healthVars PROVE ErrorStays'
  OBVIOUS
<1> USE DEF ErrorStays, ReportTypes, Faults
<1>1. CASE HealthOpen
  BY <1>1 DEF HealthOpen, Connecting, Open, vars, worker, report
<1>2. CASE HealthOpenFails
  BY <1>2 DEF HealthOpenFails, SetFault, OpenFails, Backoff, vars, worker, report
<1>3. CASE HealthBytes
  BY <1>3 DEF HealthBytes, Heard, SetFault, Bytes, vars, worker, report
<1>4. CASE CutChunk
  BY <1>4 DEF CutChunk, Enqueue, Write, SetFault, SetStatus, vars, worker, report
<1>5. CASE HealthIdle
  BY <1>5 DEF HealthIdle, Unwritten, Idle, vars, worker, report
<1>6. CASE HealthWait
  BY <1>6 DEF HealthWait, Unwritten, Wait, vars, worker, report
<1>7. CASE HealthLost
  BY <1>7 DEF HealthLost, SetFault, GiveUp, Closed, Backoff, vars, worker, report
<1>8. CASE HealthEnds
  BY <1>8 DEF HealthEnds, Enqueue, Write, SetFault, SetStatus, Ends, vars, worker, report
<1>9. CASE Take
  BY <1>9 DEF Take, SetStatus, vars, worker, report
<1>10. CASE Transcribes
  BY <1>10 DEF Transcribes, vars, worker, report
<1>11. CASE TranscribeFails
  BY <1>11 DEF TranscribeFails, SetFault, vars, worker, report
<1>12. CASE RecordFailure
  BY <1>12 DEF RecordFailure, Write, SetFault, SetStatus, vars, worker, report
<1>13. CASE MarkSilence
  BY <1>13 DEF MarkSilence, Write, Settle, SetFault, SetStatus, vars, worker, report
<1>14. CASE AnnouncePublishing
  BY <1>14 DEF AnnouncePublishing, SetStatus, vars, worker, report
<1>15. CASE Persist
  BY <1>15 DEF Persist, Write, Settle, SetFault, SetStatus, vars, worker, report
<1>16. CASE SweepFails
  BY <1>16 DEF SweepFails, SetFault, vars, worker, report
<1>17. CASE CheckFails
  BY <1>17 DEF CheckFails, SetFault, vars, worker, report
<1>18. CASE Shutdown
  BY <1>18 DEF Shutdown, SetStatus, vars, worker, report
<1>19. CASE Environment
  BY <1>19 DEF Environment, SourceChanges, StopRequested, vars, worker, report
<1>20. CASE UNCHANGED healthVars
  BY <1>20 DEF healthVars, vars, worker, report
<1> QED
  BY <1>1, <1>2, <1>3, <1>4, <1>5, <1>6, <1>7, <1>8, <1>9, <1>10, <1>11,
     <1>12, <1>13, <1>14, <1>15, <1>16, <1>17, <1>18, <1>19, <1>20
     DEF HealthNext, HealthCapture, Asr

LEMMA CountsStep == ReportTypes /\ Counts /\ [HealthNext]_healthVars => Counts'
<1> SUFFICES ASSUME ReportTypes, Counts, [HealthNext]_healthVars PROVE Counts'
  OBVIOUS
<1> USE HealthConstants DEF HealthConstants, Counts, Stale, Older1, AtMost
<1>1. CASE HealthOpen
  BY <1>1 DEF HealthOpen, Connecting, Open, vars, worker, report
<1>2. CASE HealthOpenFails
  BY <1>2 DEF HealthOpenFails, SetFault, OpenFails, Backoff, vars, worker, report
<1>3. CASE HealthBytes
  BY <1>3 DEF HealthBytes, Heard, SetFault, Bytes, vars, worker, report
<1>4. CASE CutChunk
  BY <1>4 DEF CutChunk, Enqueue, Write, SetFault, SetStatus, vars, worker, report
<1>5. CASE HealthIdle
  BY <1>5 DEF HealthIdle, Unwritten, Idle, vars, worker, report
<1>6. CASE HealthWait
  BY <1>6 DEF HealthWait, Unwritten, Wait, vars, worker, report
<1>7. CASE HealthLost
  BY <1>7 DEF HealthLost, SetFault, GiveUp, Closed, Backoff, vars, worker, report
<1>8. CASE HealthEnds
  BY <1>8 DEF HealthEnds, Enqueue, Write, SetFault, SetStatus, Ends, vars, worker, report
<1>9. CASE Take
  BY <1>9 DEF Take, SetStatus, vars, worker, report
<1>10. CASE Transcribes
  BY <1>10 DEF Transcribes, vars, worker, report
<1>11. CASE TranscribeFails
  BY <1>11 DEF TranscribeFails, SetFault, vars, worker, report
<1>12. CASE RecordFailure
  BY <1>12 DEF RecordFailure, Write, SetFault, SetStatus, vars, worker, report
<1>13. CASE MarkSilence
  BY <1>13 DEF MarkSilence, Write, Settle, SetFault, SetStatus, vars, worker, report
<1>14. CASE AnnouncePublishing
  BY <1>14 DEF AnnouncePublishing, SetStatus, vars, worker, report
<1>15. CASE Persist
  BY <1>15 DEF Persist, Write, Settle, SetFault, SetStatus, vars, worker, report
<1>16. CASE SweepFails
  BY <1>16 DEF SweepFails, SetFault, vars, worker, report
<1>17. CASE CheckFails
  BY <1>17 DEF CheckFails, SetFault, vars, worker, report
<1>18. CASE Shutdown
  BY <1>18 DEF Shutdown, SetStatus, vars, worker, report
<1>19. CASE Environment
  BY <1>19 DEF Environment, SourceChanges, StopRequested, vars, worker, report
<1>20. CASE UNCHANGED healthVars
  BY <1>20 DEF healthVars, vars, worker, report
<1> QED
  BY <1>1, <1>2, <1>3, <1>4, <1>5, <1>6, <1>7, <1>8, <1>9, <1>10, <1>11,
     <1>12, <1>13, <1>14, <1>15, <1>16, <1>17, <1>18, <1>19, <1>20
     DEF HealthNext, HealthCapture, Asr

(* A fault of any part of the service (worker.py: _record_processing_error,*)
(* _handle_upstream_error, the sweep, the health check) is shown until the *)
(* upstream reconnects, however the capture thread, the ASR thread and the *)
(* sweep interleave their writes of the one status.                        *)
THEOREM FaultsAreShown == HealthSpec => []FaultIsShown
<1>1. HealthInit => ReportTypes /\ ErrorStays
  BY DEF HealthInit, Init, ReportTypes, ErrorStays, Statuses, Faults
<1>2. HealthInit => Counts
  BY HealthConstants DEF HealthConstants, HealthInit, Counts, Stale
<1>3. ReportTypes /\ ErrorStays /\ Counts /\ TypeOK => FaultIsShown
  BY DEF ReportTypes, ErrorStays, Counts, FaultIsShown, HealthTypeOK, Healthy
<1> QED
  BY <1>1, <1>2, <1>3, ReportTypesStep, ErrorStaysStep, CountsStep, HealthImplementsCapture, PTL
     DEF HealthSpec
=============================================================================
