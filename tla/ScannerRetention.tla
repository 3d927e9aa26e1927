--------------------------- MODULE ScannerRetention ---------------------------
(***************************************************************************)
(* The private recordings of the scanner service and the rows that account *)
(* for them: the retention sweep (storage.py, enforce_retention), the      *)
(* chunks that come and go beside it (capture.py, worker.py), the hot      *)
(* backup and the restore of the database (cli.py), and kills between any  *)
(* two of their steps.                                                     *)
(*                                                                         *)
(* A file is unlinked before the transaction that forgets it commits, so   *)
(* what is on disk (wav) and what the database says (row) are two things.  *)
(* row is the database as the next reader sees it, main the part of it     *)
(* that a checkpoint has moved from the write-ahead log into the file.     *)
(*                                                                         *)
(* The service holds the feed lock, the sweep holds the store's; retention *)
(* of audio is on (SCANNER_RETAIN_PRIVATE_AUDIO).                          *)
(***************************************************************************)
EXTENDS Naturals, FiniteSets, Sequences

CONSTANTS MaxChunks,   \* bound: chunks cut
          MaxTime,     \* bound: the clock
          LastCut,     \* bound: the last time a chunk is cut, so that all come due
          MaxFaults,   \* bound: kills, failed statements and failed unlinks, together
          MaxRestores, \* bound: restores begun
          Policies     \* the two retention times to choose from: [audio, text]

ASSUME RetentionConstants ==
  /\ MaxChunks \in Nat /\ MaxTime \in Nat /\ LastCut \in Nat /\ MaxFaults \in Nat /\ MaxRestores \in Nat
  /\ Policies # {} /\ Policies \subseteq [audio : Nat, text : Nat \ {0}]

VARIABLES
  proc,     \* "up", "down", or how far a restore has come: "unlinked", "copied"
  policy,   \* the configured retention times
  now,      \* the clock
  ends,     \* audio_end_utc of the chunks cut so far
  wav,      \* the chunks whose recording is on disk
  unfinished,  \* the chunks the worker has not finished
  row,      \* the segments table: "none", "held" (audio_retained = 1) or "purged"
  main,     \* the same, without what is in the write-ahead log only
  tx,       \* the table inside the transaction of the sweep
  sweep,    \* "idle", "audio" or "text"
  swept,    \* the time the sweep runs by
  due,      \* the rows of its query it has still to do
  saved,    \* the table in the latest backup, of the empty database at first
  faults,   \* how many faults have happened
  restores, \* how many restores have begun
  stray     \* history: recordings whose unlink failed or whose row a restore removed

retentionVars == <<proc, policy, now, ends, wav, unfinished, row, main, tx, sweep, swept,
                   due, saved, faults, restores, stray>>

Chunk == 1 .. MaxChunks
Cut == DOMAIN ends
RowState == {"none", "held", "purged"}
Table == [Chunk -> RowState]

service == <<now, ends, wav, unfinished>>
sweeping == <<tx, sweep, swept, due>>
files == <<main, saved, restores>>

RetentionInit ==
  /\ proc = "up" /\ policy \in Policies
  /\ now = 0 /\ ends = <<>> /\ wav = {} /\ unfinished = {}
  /\ row = [c \in Chunk |-> "none"] /\ main = row /\ tx = row
  /\ sweep = "idle" /\ swept = 0 /\ due = {}
  /\ saved = row /\ faults = 0 /\ restores = 0 /\ stray = {}

Fault == faults < MaxFaults /\ faults' = faults + 1

Tick ==
  /\ now < MaxTime /\ now' = now + 1
  /\ UNCHANGED <<proc, policy, ends, wav, unfinished, row, sweeping, files, faults, stray>>

-----------------------------------------------------------------------------
(* The capture and the worker. *)

\* A chunk is cut and its recording written under the private directory.
CaptureChunk ==
  /\ proc = "up" /\ Len(ends) < MaxChunks /\ now <= LastCut
  /\ ends' = Append(ends, now)
  /\ wav' = wav \cup {Len(ends) + 1} /\ unfinished' = unfinished \cup {Len(ends) + 1}
  /\ UNCHANGED <<proc, policy, now, row, sweeping, files, faults, stray>>

\* Speech becomes a row.
PersistChunk(c) ==
  /\ proc = "up" /\ sweep = "idle" /\ c \in unfinished
  /\ unfinished' = unfinished \ {c}
  /\ row' = [row EXCEPT ![c] = "held"] /\ tx' = row'
  /\ UNCHANGED <<proc, policy, now, ends, wav, sweep, swept, due, files, faults, stray>>

\* Silence and failures of the recogniser become none, and their recording stays: only
\* one that is not retained is unlinked (worker.py:314, :335).
WithoutRow(c) ==
  /\ proc = "up" /\ sweep = "idle" /\ c \in unfinished
  /\ unfinished' = unfinished \ {c}
  /\ UNCHANGED <<proc, policy, now, ends, wav, row, sweeping, files, faults, stray>>

-----------------------------------------------------------------------------
(* enforce_retention: one transaction under the store's lock. *)

Expired(c, age, at) == c \in Cut /\ ends[c] + age <= at

AudioDueEarly(table, at) ==   \* a mutant: a recording goes one tick before its time
  {c \in Chunk : table[c] = "held" /\ Expired(c, policy.audio, at + 1)}

AudioDue(table, at) == {c \in Chunk : table[c] = "held" /\ Expired(c, policy.audio, at)}
TextDue(table, at) == {c \in Chunk : table[c] # "none" /\ Expired(c, policy.text, at)}

BeginSweep ==
  /\ proc = "up" /\ sweep = "idle"
  /\ sweep' = "audio" /\ swept' = now /\ tx' = row
  /\ due' = AudioDue(row, now)
  /\ UNCHANGED <<proc, policy, service, row, files, faults, stray>>

\* unlink(missing_ok=True), whose OSError is ignored.
Unlink(c) ==
  \/ wav' = wav \ {c} /\ UNCHANGED <<faults, stray>>
  \/ c \in wav /\ Fault /\ stray' = stray \cup {c} /\ UNCHANGED wav

PurgeAudio(c) ==
  /\ sweep = "audio" /\ c \in due
  /\ due' = due \ {c}
  /\ Unlink(c)
  /\ tx' = [tx EXCEPT ![c] = "purged"]
  /\ UNCHANGED <<proc, policy, now, ends, unfinished, row, sweep, swept, files>>

SelectText ==
  /\ sweep = "audio" /\ due = {}
  /\ sweep' = "text" /\ due' = TextDue(tx, swept)
  /\ UNCHANGED <<proc, policy, service, row, tx, swept, files, faults, stray>>

ForgetText(c) ==   \* a mutant: the recording of an expired transcript is left
  /\ sweep = "text" /\ c \in due
  /\ due' = due \ {c}
  /\ UNCHANGED <<proc, policy, service, row, tx, sweep, swept, files, faults, stray>>

\* The recording of an expired transcript goes too, when the row still names it.
PurgeText(c) ==
  /\ sweep = "text" /\ c \in due
  /\ due' = due \ {c}
  /\ IF tx[c] = "held" THEN Unlink(c) ELSE UNCHANGED <<wav, faults, stray>>
  /\ UNCHANGED <<proc, policy, now, ends, unfinished, row, tx, sweep, swept, files>>

\* DELETE and COMMIT.
CommitSweep ==
  /\ sweep = "text" /\ due = {}
  /\ row' = [c \in Chunk |-> IF c \in TextDue(tx, swept) THEN "none" ELSE tx[c]]
  /\ tx' = row' /\ sweep' = "idle"
  /\ UNCHANGED <<proc, policy, service, swept, due, files, faults, stray>>

\* A statement fails: the transaction is rolled back, the files stay unlinked.
FailSweep ==
  /\ sweep # "idle" /\ Fault
  /\ sweep' = "idle" /\ due' = {} /\ tx' = row
  /\ UNCHANGED <<proc, policy, service, row, swept, files, stray>>

-----------------------------------------------------------------------------
(* The process. *)

Checkpoint ==
  /\ proc = "up" /\ sweep = "idle" /\ main # row
  /\ main' = row
  /\ UNCHANGED <<proc, policy, service, row, sweeping, saved, faults, restores, stray>>

\* The last connection to close moves the write-ahead log into the file.
Stop ==
  /\ proc = "up" /\ sweep = "idle" /\ unfinished = {}
  /\ proc' = "down" /\ main' = row
  /\ UNCHANGED <<policy, service, row, sweeping, saved, faults, restores, stray>>

\* A kill, of the service or of a restore.
Kill ==
  /\ proc # "down" /\ Fault
  /\ proc' = "down" /\ unfinished' = {}
  /\ sweep' = "idle" /\ due' = {} /\ tx' = row
  /\ UNCHANGED <<policy, now, ends, wav, row, swept, files, stray>>

Start ==
  /\ proc = "down" /\ proc' = "up"
  /\ UNCHANGED <<policy, service, row, sweeping, files, faults, stray>>

-----------------------------------------------------------------------------
(* backup_to and restore_from. *)

\* The online backup sees the committed table, also while a sweep is running.
Backup ==
  /\ proc \in {"up", "down"} /\ saved # row
  /\ saved' = row
  /\ UNCHANGED <<proc, policy, service, row, main, sweeping, faults, restores, stray>>

RowsLost(table) == {c \in Chunk : row[c] # "none" /\ table[c] = "none"}

\* A restore removes the write-ahead log of the target, with what only it holds, ...
BeginRestore ==
  /\ proc = "down" /\ restores < MaxRestores
  /\ proc' = "unlinked" /\ restores' = restores + 1
  /\ row' = main /\ tx' = main /\ stray' = stray \cup RowsLost(main)
  /\ UNCHANGED <<policy, service, main, sweep, swept, due, saved, faults>>

\* ... copies the backup beside it, ...
CopyBackup ==
  /\ proc = "unlinked" /\ proc' = "copied"
  /\ UNCHANGED <<policy, service, row, sweeping, files, faults, stray>>

\* ... and puts the copy in its place.
Replace ==
  /\ proc = "copied" /\ proc' = "down"
  /\ row' = saved /\ main' = saved /\ tx' = saved /\ stray' = stray \cup RowsLost(saved)
  /\ UNCHANGED <<policy, service, sweep, swept, due, saved, faults, restores>>

Sweep ==
  \/ BeginSweep \/ SelectText \/ CommitSweep
  \/ \E c \in Chunk : PurgeAudio(c) \/ PurgeText(c)

RetentionNext ==
  \/ Tick \/ CaptureChunk \/ Sweep \/ FailSweep
  \/ \E c \in Chunk : PersistChunk(c) \/ WithoutRow(c)
  \/ Checkpoint \/ Stop \/ Kill \/ Start
  \/ Backup \/ BeginRestore \/ CopyBackup \/ Replace

\* Time passes, systemd starts the service again, a sweep that has begun goes on, and the
\* service is not restarted before every sweep: the thread waits a whole interval first.
RetentionFairness ==
  /\ WF_retentionVars(Tick) /\ WF_retentionVars(Sweep) /\ SF_retentionVars(BeginSweep)
  /\ WF_retentionVars(Start) /\ WF_retentionVars(CopyBackup) /\ WF_retentionVars(Replace)

RetentionSpec == RetentionInit /\ [][RetentionNext]_retentionVars /\ RetentionFairness
-----------------------------------------------------------------------------

RetentionTypeOK ==
  /\ proc \in {"up", "down", "unlinked", "copied"} /\ policy \in Policies
  /\ now \in 0 .. MaxTime /\ ends \in Seq(0 .. MaxTime)
  /\ wav \subseteq Chunk /\ unfinished \subseteq Chunk /\ due \subseteq Chunk /\ stray \subseteq Chunk
  /\ row \in Table /\ main \in Table /\ tx \in Table /\ saved \in Table
  /\ sweep \in {"idle", "audio", "text"} /\ swept \in 0 .. MaxTime
  /\ faults \in 0 .. MaxFaults /\ restores \in 0 .. MaxRestores

\* SAFETY.  A row never claims a recording that is gone, unless the recording was already
\* due, so that the next sweep takes the claim back: not even when a sweep is killed or
\* rolled back between an unlink and its commit, or a backup from before it is restored.
\* And a row that says its recording was purged is right, unless the unlink failed
\* ("truthfully clear audio_retained", storage.py:728).
AudioClaimsAreTrue ==
  \A c \in Chunk :
    /\ row[c] = "held" /\ c \notin wav
         => Expired(c, policy.audio, now) \/ Expired(c, policy.text, now)
    /\ row[c] = "purged" /\ c \in wav => c \in stray

\* LIVENESS.  The recording of a row is removed in the end, whichever of the two retention
\* times is the shorter and however often a sweep is cut short, unless its unlink failed or
\* a restore removed the row that names it.  (The recording of a chunk that never had a row
\* is not looked for by any sweep.)
AudioLeaves == \A c \in Chunk : row[c] = "held" ~> c \notin wav \/ c \in stray
=============================================================================
