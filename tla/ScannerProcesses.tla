--------------------------- MODULE ScannerProcesses ---------------------------
(***************************************************************************)
(* The processes of the scanner service (cli.py: serve and smoke, of one   *)
(* feed or of several), from their start to their end: the lock of the     *)
(* feed (storage.py, FeedFileLock), the speech model all of them share     *)
(* (model_bootstrap.py), the sessions they open and close in the database, *)
(* and kills between any two of their steps.                               *)
(*                                                                         *)
(* The lock is the kernel's: it belongs to an open file of a process and   *)
(* goes with it, and its file is never removed.  The model in the cache is *)
(* a directory of three files, which is installed by one rename and        *)
(* removed file by file.  systemd starts a service again after any end.    *)
(***************************************************************************)
EXTENDS Naturals, FiniteSets

CONSTANTS Process,  \* the processes that serve or smoke-test
          Feed,
          FeedOf,   \* the feed each process is configured for
          Nobody

ASSUME ProcessConstants == FeedOf \in [Process -> Feed] /\ Nobody \notin Process

VARIABLES
  step,     \* how far each process is
  holder,   \* who has the lock of a feed
  cache,    \* the files of the converted model in the cache
  removing, \* the processes whose rmtree has opened the directory that is there now
  active,   \* the sessions of a feed that are active in the database, by process
  torn      \* history: a kill has cut an rmtree short since the model was installed

processVars == <<step, holder, cache, removing, active, torn>>

Steps == {"idle", "locked", "resolving", "building", "renaming", "loading", "starting",
          "running", "stopping", "closed"}

\* A model is taken from the cache when it has the first two.
Checked == {"model.bin", "config.json"}
Model == Checked \cup {"vocabulary"}

ProcessTypeOK ==
  /\ step \in [Process -> Steps]
  /\ holder \in [Feed -> Process \cup {Nobody}]
  /\ cache \subseteq Model /\ removing \subseteq Process
  /\ active \in [Feed -> SUBSET Process]
  /\ torn \in BOOLEAN

ProcessInit ==
  /\ step = [p \in Process |-> "idle"] /\ holder = [f \in Feed |-> Nobody]
  /\ cache = {} /\ removing = {}
  /\ active = [f \in Feed |-> {}] /\ torn = FALSE

Go(p, from, to) == step[p] = from /\ step' = [step EXCEPT ![p] = to]

-----------------------------------------------------------------------------
(* FeedFileLock. *)

AcquireBlindly(p) ==   \* a mutant: the answer of flock is ignored
  /\ Go(p, "idle", "locked")
  /\ holder' = [holder EXCEPT ![FeedOf[p]] = p]
  /\ UNCHANGED <<cache, removing, active, torn>>

\* flock without waiting: a process that is refused ends (it stays "idle").
Acquire(p) ==
  /\ Go(p, "idle", "locked")
  /\ holder[FeedOf[p]] = Nobody
  /\ holder' = [holder EXCEPT ![FeedOf[p]] = p]
  /\ UNCHANGED <<cache, removing, active, torn>>

\* The owner is written into the lock's file, for the one who is refused.
NameOwner(p) ==
  /\ Go(p, "locked", "resolving")
  /\ UNCHANGED <<holder, cache, removing, active, torn>>

Freed(p) == [f \in Feed |-> IF holder[f] = p THEN Nobody ELSE holder[f]]

\* Any step of the start may raise: start() releases the lock and the process ends.
StartFails(p) ==
  /\ step[p] \in {"locked", "resolving", "building", "renaming", "loading", "starting"}
  /\ p \notin removing
  /\ step' = [step EXCEPT ![p] = "idle"]
  /\ holder' = Freed(p)
  /\ UNCHANGED <<cache, removing, active, torn>>

-----------------------------------------------------------------------------
(* resolve_whisper_model_path and convert_npz_to_ct2. *)

\* The cached model; else a download, into the hub's own cache.
FromCache(p) ==
  /\ Go(p, "resolving", "loading") /\ Checked \subseteq cache
  /\ UNCHANGED <<holder, cache, removing, active, torn>>

Download(p) ==
  /\ Go(p, "resolving", "starting") /\ ~(Checked \subseteq cache)
  /\ UNCHANGED <<holder, cache, removing, active, torn>>

\* When there is none the weights are cloned and converted, in a directory of the process.
Convert(p) ==
  /\ Go(p, "resolving", "building") /\ ~(Checked \subseteq cache)
  /\ UNCHANGED <<holder, cache, removing, active, torn>>

\* rmtree of whatever is in the place by now: it opens the directory, ...
OpenOld(p) ==
  /\ step[p] = "building" /\ p \notin removing /\ cache # {}
  /\ removing' = removing \cup {p}
  /\ UNCHANGED <<step, holder, cache, active, torn>>

\* ... unlinks one file after the other, ...
RemoveFile(p) ==
  /\ p \in removing
  /\ \E file \in cache : cache' = cache \ {file}
  /\ UNCHANGED <<step, holder, removing, active, torn>>

\* ... and is done when nothing is left, or nothing was there.
Removed(p) ==
  /\ Go(p, "building", "renaming") /\ cache = {}
  /\ removing' = removing \ {p}
  /\ UNCHANGED <<holder, cache, active, torn>>

InstallByFile(p) ==   \* a mutant: the model is written in its place, file by file
  /\ step[p] = "renaming"
  /\ \E file \in Model \ cache :
       /\ cache' = cache \cup {file}
       /\ step' = [step EXCEPT ![p] = IF cache' = Model THEN "loading" ELSE "renaming"]
  /\ torn' = FALSE /\ UNCHANGED <<holder, removing, active>>

\* A directory is renamed over nothing or over an empty one, and over no other: a model
\* that another process has installed meanwhile makes this start fail.  An rmtree whose
\* empty directory is replaced has nothing left to do.
Install(p) ==
  /\ step[p] = "renaming" /\ cache = {}
  /\ step' = [q \in Process |-> IF q = p THEN "loading" ELSE IF q \in removing THEN "renaming" ELSE step[q]]
  /\ cache' = Model /\ removing' = {} /\ torn' = FALSE
  /\ UNCHANGED <<holder, active>>

\* The recogniser reads its files: all of them, or the start fails.
Load(p) ==
  /\ Go(p, "loading", "starting") /\ cache = Model
  /\ UNCHANGED <<holder, cache, removing, active, torn>>

-----------------------------------------------------------------------------
(* The sessions, and the end. *)

\* recover_and_start_session: what is active of the feed is interrupted.
Recover(p) ==
  /\ Go(p, "starting", "running")
  /\ active' = [active EXCEPT ![FeedOf[p]] = {p}]
  /\ UNCHANGED <<holder, cache, removing, torn>>

\* The joins of stop() are over, of threads that have ended or not.
StopWorker(p) ==
  /\ Go(p, "running", "stopping")
  /\ UNCHANGED <<holder, cache, removing, active, torn>>

\* close_session; its failure is logged.
CloseSession(p) ==
  /\ Go(p, "stopping", "closed")
  /\ active' \in {active, [active EXCEPT ![FeedOf[p]] = @ \ {p}]}
  /\ UNCHANGED <<holder, cache, removing, torn>>

Release(p) ==
  /\ Go(p, "closed", "idle")
  /\ holder' = Freed(p)
  /\ UNCHANGED <<cache, removing, active, torn>>

\* The kernel takes the lock back; files and rows stay as they are.
Killed(p) ==
  /\ step[p] # "idle"
  /\ step' = [step EXCEPT ![p] = "idle"]
  /\ holder' = Freed(p)
  /\ removing' = removing \ {p}
  /\ torn' = (torn \/ p \in removing)
  /\ UNCHANGED <<cache, active>>

ProcessStep(p) ==
  \/ Acquire(p) \/ NameOwner(p) \/ StartFails(p)
  \/ FromCache(p) \/ Download(p) \/ Convert(p) \/ OpenOld(p) \/ RemoveFile(p) \/ Removed(p)
  \/ Install(p) \/ Load(p)
  \/ Recover(p) \/ StopWorker(p) \/ CloseSession(p) \/ Release(p) \/ Killed(p)

ProcessNext == \E p \in Process : ProcessStep(p)

ProcessSpec == ProcessInit /\ [][ProcessNext]_processVars

-----------------------------------------------------------------------------
(* What the processes promise each other. *)

\* SAFETY.  A feed has one worker at most, from the acquisition of its lock to its release,
\* through failed starts, ends and kills at any step; and while a worker runs its session
\* is the one session of the feed that is active: none is interrupted under a live worker,
\* and none of a dead one is left beside it.  ("preventing duplicate capture workers for
\* the same feed", storage.py:39.)
OneWorker ==
  /\ \A p, q \in Process :
       FeedOf[p] = FeedOf[q] /\ step[p] # "idle" /\ step[q] # "idle" => p = q
  /\ \A p \in Process : step[p] \in {"running", "stopping"} => active[FeedOf[p]] = {p}

\* SAFETY.  A model that the next start would take from the cache is whole, or is being
\* replaced at this moment by a process of another feed, whatever the processes that build
\* it together do and wherever they are killed.  The one way to a cache that every later
\* start takes and fails on is a kill in the middle of an rmtree.
ModelIsWholeUntilKill == Checked \subseteq cache => cache = Model \/ removing # {} \/ torn
=============================================================================
