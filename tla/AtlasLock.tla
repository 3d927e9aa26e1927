------------------------------ MODULE AtlasLock ------------------------------
(***************************************************************************)
(* The Atlas data set on disk, in its four places: the raw sources, the    *)
(* plaintext tree (atlas/data and atlas/exports), the ciphertext (atlas/   *)
(* enc) and the stash outside the repository.  tools/build_atlas.py writes *)
(* the plaintext, tools/lock_atlas.py moves it between the other three.    *)
(* A person runs one tool at a time and any run may be killed between two  *)
(* files or within one.                                                    *)
(*                                                                         *)
(* A file's content is the number of the build that wrote it; a key is the *)
(* salt it was derived with, since the passphrase stays the same.          *)
(***************************************************************************)
EXTENDS Naturals, Sequences, FiniteSets, SequencesExt

CONSTANTS Threads,        \* the thread files, in the order os.walk lists them
          MaxBuilds,      \* bound: builds
          MaxLocks,       \* bound: locks
          MaxKills        \* bound: runs killed

Index == "atlas.json"
Inventory == "inventory.json"
Packet == "exports/packet.md"

ASSUME ThreadsAssumption == Threads \in Seq(STRING) /\ IsInjective(Threads)
                            /\ {Index, Inventory, Packet} \cap Range(Threads) = {}
ASSUME AtlasBounds == {MaxBuilds, MaxLocks} \subseteq Nat \ {0}

\* _collect's order: the files of atlas/data, its threads, then the exports.
Files == <<Index, Inventory>> \o Threads \o <<Packet>>
Names == Range(Files)
Base(f) == IF f = Packet THEN "exports" ELSE "data"
Bases == {"data", "exports"}

None == 0                       \* no such file
Torn == MaxBuilds + 1           \* the content of a file whose writer was killed

NoFiles == [f \in Names |-> None]
NoBlob == [key |-> 0, name |-> "", content |-> None]
NoHead == [key |-> 0, items |-> <<>>, digest |-> NoFiles]
NoEnc == [manifest |-> 0, head |-> NoHead, blobs |-> [i \in DOMAIN Files |-> NoBlob]]
NoRun == [op |-> "none"]

VARIABLES
  raw,        \* the raw sources are on this machine
  built,      \* built[v]: the threads of build v
  latest,     \* the last build that wrote all its files
  plain,      \* plain[f]: the build file f of the plaintext tree is from
  dirs,       \* the directories of the plaintext tree that exist
  stash,      \* stash[f]: the same of the copy outside the repository
  enc,        \* the ciphertext: manifest (its salt), head and blobs
  locked,     \* locked[s]: what the tree held when the lock with salt s began
  risked,     \* since that build another build began while the tree held its only copy, a
              \* lock on a tree that held a part of it, or an unlock of something else
  run,        \* the tool at work
  kills       \* runs killed

lockVars == <<raw, built, latest, plain, dirs, stash, enc, locked, risked, run, kills>>

-----------------------------------------------------------------------------
(* What the places hold. *)

Position(f) == CHOOSE i \in DOMAIN Files : Files[i] = f

\* The files of a set, in _collect's order.
InOrder(S) == CHOOSE s \in [1..Cardinality(S) -> S] :
                \A i, j \in DOMAIN s : i < j => Position(s[i]) < Position(s[j])

Items(tree) == InOrder({f \in Names : tree[f] # None})

\* The files that make up build v; the packets are derived from them.
DataSet(v) == {Index, Inventory} \cup built[v]

Whole(tree, v) == v > 0 /\ \A f \in DataSet(v) : tree[f] = v

\* One blob opens: it is there, it was written under the manifest's key, for this name.
Opens(i) == enc.blobs[i].key = enc.manifest /\ enc.blobs[i].name = enc.head.items[i]

HeadOpens == enc.manifest # 0 /\ enc.head.key = enc.manifest

Verifies ==
  HeadOpens /\ \A i \in DOMAIN enc.head.items :
                 Opens(i) /\ enc.blobs[i].content = enc.head.digest[enc.head.items[i]]

EncWhole(v) ==
  v > 0 /\ HeadOpens /\ \A f \in DataSet(v) :
                 \E i \in DOMAIN enc.head.items :
                   enc.head.items[i] = f /\ Opens(i) /\ enc.blobs[i].content = v

-----------------------------------------------------------------------------
(* The build. *)

\* Either the machine with the sources, nothing built yet, or a fresh clone: the
\* ciphertext of build 1 and nothing else.
LockInit ==
  /\ raw \in BOOLEAN
  /\ built = IF raw THEN <<>> ELSE <<Range(Threads)>>
  /\ latest = Len(built)
  /\ plain = NoFiles /\ stash = NoFiles /\ dirs = {}
  /\ locked = IF raw THEN <<>> ELSE <<[f \in Names |-> 1]>>
  /\ enc = IF raw THEN NoEnc
           ELSE [manifest |-> 1,
                 head |-> [key |-> 1, items |-> Files, digest |-> [f \in Names |-> 1]],
                 blobs |-> [i \in DOMAIN Files |-> [key |-> 1, name |-> Files[i], content |-> 1]]]
  /\ risked = FALSE /\ run = NoRun /\ kills = 0

\* main() makes the directories before it looks for records.
BuildNothing ==
  /\ run = NoRun /\ ~raw
  /\ dirs' = Bases
  /\ UNCHANGED <<raw, built, latest, plain, stash, enc, locked, risked, run, kills>>

\* It writes into the tree that is there.
StartBuild(S, pw) ==
  /\ run = NoRun /\ raw /\ Len(built) < MaxBuilds /\ (pw => Len(locked) < MaxLocks)
  /\ dirs' = Bases
  /\ built' = Append(built, S)
  /\ run' = [op |-> "build", left |-> InOrder(S) \o <<Index, Inventory>>, pw |-> pw]
  /\ risked' = (risked \/ (latest > 0 /\ ~Whole(stash, latest) /\ ~EncWhole(latest)))
  /\ UNCHANGED <<raw, latest, plain, stash, enc, locked, kills>>

\* The file of a thread is written as soon as the thread is made, the index after all of
\* them; a file of an earlier build that this one does not write stays.
WriteFile ==
  /\ run.op = "build" /\ run.left # <<>> /\ Head(run.left) # Inventory
  /\ plain' = [plain EXCEPT ![Head(run.left)] = Len(built)]
  /\ run' = [run EXCEPT !.left = Tail(@)]
  /\ UNCHANGED <<raw, built, latest, dirs, stash, enc, locked, risked, kills>>

\* The inventory is the last file of the data set.
WriteInventory ==
  /\ run.op = "build" /\ run.left = <<Inventory>>
  /\ plain' = [plain EXCEPT ![Inventory] = Len(built)]
  /\ latest' = Len(built) /\ risked' = FALSE
  /\ run' = [run EXCEPT !.left = <<>>]
  /\ UNCHANGED <<raw, built, dirs, stash, enc, locked, kills>>

-----------------------------------------------------------------------------
(* lock. *)

BeginLockAnyway(tree, away) ==   \* a mutant: an empty tree is locked too
  /\ run' = [op |-> "wipe", items |-> Items(tree), away |-> away]
  /\ locked' = Append(locked, tree)
  /\ risked' = (risked \/ (Items(tree) # <<>> /\ ~Whole(tree, latest)))

\* lock() up to rmtree: it exits when there is nothing to lock.
BeginLock(tree, away) ==
  IF Items(tree) = <<>> THEN run' = NoRun /\ UNCHANGED <<locked, risked>>
  ELSE /\ run' = [op |-> "wipe", items |-> Items(tree), away |-> away]
       /\ locked' = Append(locked, tree)
       /\ risked' = (risked \/ (Items(tree) # <<>> /\ ~Whole(tree, latest)))

\* The packets are best effort; the lock follows when ATLAS_PASSWORD is set.
FinishBuild(made) ==
  /\ run.op = "build" /\ run.left = <<>>
  /\ LET tree == IF made THEN [plain EXCEPT ![Packet] = Len(built)] ELSE plain
     IN /\ plain' = tree
        /\ IF run.pw THEN BeginLock(tree, TRUE) ELSE run' = NoRun /\ UNCHANGED <<locked, risked>>
  /\ UNCHANGED <<raw, built, latest, dirs, stash, enc, kills>>

StartLock(away) ==
  /\ run = NoRun /\ Len(locked) < MaxLocks
  /\ UNCHANGED <<raw, built, latest, plain, dirs, stash, enc, kills>>
  /\ BeginLock(plain, away)

SameSalt == 1                   \* a mutant: the salt of the last lock is used again

Salt == Len(locked)             \* fresh with every lock

\* rmtree(out), one file at a time: the manifest and the head anywhere among the blobs.
Wipe ==
  /\ run.op = "wipe"
  /\ \/ enc.manifest # 0 /\ enc' = [enc EXCEPT !.manifest = 0]
     \/ enc.head # NoHead /\ enc' = [enc EXCEPT !.head = NoHead]
     \/ \E i \in DOMAIN Files :
          /\ enc.blobs[i] # NoBlob /\ \A j \in 1..i - 1 : enc.blobs[j] = NoBlob
          /\ enc' = [enc EXCEPT !.blobs[i] = NoBlob]
  /\ UNCHANGED <<raw, built, latest, plain, dirs, stash, locked, risked, run, kills>>

StartEncrypting ==
  /\ run.op = "wipe" /\ enc = NoEnc
  /\ run' = [op |-> "encrypt", items |-> run.items, away |-> run.away, at |-> 1]
  /\ UNCHANGED <<raw, built, latest, plain, dirs, stash, enc, locked, risked, kills>>

WriteBlob ==
  /\ run.op = "encrypt" /\ run.at <= Len(run.items)
  /\ LET f == run.items[run.at] IN
       enc' = [enc EXCEPT !.blobs[run.at] = [key |-> Salt, name |-> f, content |-> plain[f]]]
  /\ run' = [run EXCEPT !.at = @ + 1]
  /\ UNCHANGED <<raw, built, latest, plain, dirs, stash, locked, risked, kills>>

WriteHead ==
  /\ run.op = "encrypt" /\ run.at = Len(run.items) + 1
  /\ enc' = [enc EXCEPT !.head =
       [key |-> Salt, items |-> run.items,
        digest |-> [f \in Names |-> IF f \in Range(run.items) THEN plain[f] ELSE None]]]
  /\ run' = [run EXCEPT !.at = @ + 1]
  /\ UNCHANGED <<raw, built, latest, plain, dirs, stash, locked, risked, kills>>

AfterManifest == IF run.away THEN [op |-> "stash", left |-> <<"data", "exports">>] ELSE NoRun

WriteManifest ==
  /\ run.op = "encrypt" /\ run.at = Len(run.items) + 2
  /\ enc' = [enc EXCEPT !.manifest = Salt]
  /\ run' = AfterManifest
  /\ UNCHANGED <<raw, built, latest, plain, dirs, stash, locked, risked, kills>>

Stashed(b) == {f \in Names : Base(f) = b /\ stash[f] # None}

\* _stash: the older copy of a directory is removed, file by file, and then the
\* directory is moved in one step.
Stash ==
  /\ run.op = "stash" /\ run.left # <<>>
  /\ LET b == Head(run.left)
         next == IF Tail(run.left) = <<>> THEN NoRun ELSE [run EXCEPT !.left = Tail(@)]
     IN \/ /\ b \notin dirs
           /\ run' = next /\ UNCHANGED <<plain, dirs, stash>>
        \/ /\ b \in dirs
           /\ \E f \in Stashed(b) : stash' = [stash EXCEPT ![f] = None]
           /\ UNCHANGED <<plain, dirs, run>>
        \/ /\ b \in dirs /\ Stashed(b) = {}
           /\ stash' = [f \in Names |-> IF Base(f) = b THEN plain[f] ELSE stash[f]]
           /\ plain' = [f \in Names |-> IF Base(f) = b THEN None ELSE plain[f]]
           /\ dirs' = dirs \ {b}
           /\ run' = next
  /\ UNCHANGED <<raw, built, latest, enc, locked, risked, kills>>

-----------------------------------------------------------------------------
(* unlock, and the end of a run that is killed. *)

StartUnlock ==
  /\ run = NoRun /\ HeadOpens
  /\ run' = [op |-> "unlock", at |-> 1]
  /\ risked' = (risked \/ ~EncWhole(latest))
  /\ UNCHANGED <<raw, built, latest, plain, dirs, stash, enc, locked, kills>>

\* A blob that is missing or does not open ends the run by an exception.
WritePlain ==
  /\ run.op = "unlock" /\ run.at \in DOMAIN enc.head.items
  /\ LET f == enc.head.items[run.at] IN
       IF Opens(run.at)
       THEN /\ plain' = [plain EXCEPT ![f] = enc.blobs[run.at].content]
            /\ dirs' = dirs \cup {Base(f)}
            /\ run' = IF run.at = Len(enc.head.items) THEN NoRun ELSE [run EXCEPT !.at = @ + 1]
       ELSE run' = NoRun /\ UNCHANGED <<plain, dirs>>
  /\ UNCHANGED <<raw, built, latest, stash, enc, locked, risked, kills>>

\* The plaintext file a run has open.
Writing ==
  CASE run.op = "build" /\ run.left # <<>> -> {Head(run.left)}
    [] run.op = "unlock" /\ Opens(run.at) -> {enc.head.items[run.at]}
    [] OTHER -> {}

Kill ==
  /\ run # NoRun /\ kills < MaxKills
  /\ \E torn \in SUBSET Writing :
       /\ plain' = [f \in Names |-> IF f \in torn THEN Torn ELSE plain[f]]
       /\ dirs' = dirs \cup {Base(f) : f \in torn}
  /\ run' = NoRun /\ kills' = kills + 1
  /\ UNCHANGED <<raw, built, latest, stash, enc, locked, risked>>

Tool ==
  \/ BuildNothing
  \/ \E S \in SUBSET Range(Threads) \ {{}}, pw \in BOOLEAN : StartBuild(S, pw)
  \/ WriteFile \/ WriteInventory
  \/ \E made \in BOOLEAN : FinishBuild(made)
  \/ \E away \in BOOLEAN : StartLock(away)
  \/ Wipe \/ StartEncrypting \/ WriteBlob \/ WriteHead \/ WriteManifest \/ Stash
  \/ StartUnlock \/ WritePlain
  \/ Kill
=============================================================================
