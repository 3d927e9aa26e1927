------------------------------ MODULE AtlasProofs ------------------------------
(***************************************************************************)
(* Theorems about the Atlas data set and the page that shows it, for any   *)
(* threads and any number of builds, locks, kills, loads and reads.        *)
(***************************************************************************)
EXTENDS AtlasViewerProps, FiniteSetTheorems, SequenceTheorems, TLAPS

-------------------------------------------------------------------------------
(* The order of the files.                                                 *)

LEMMA FilesAre ==
  /\ Files \in Seq(Names) /\ Len(Files) \in Nat /\ DOMAIN Files = 1 .. Len(Files)
  /\ {Index, Inventory, Packet} \cup Range(Threads) \subseteq Names
  /\ {Index, Inventory, Packet} \cap Range(Threads) = {}
  /\ Index # Packet /\ Inventory # Packet /\ Index # Inventory
  /\ \A f \in Names : Position(f) \in 1 .. Len(Files) /\ Files[Position(f)] = f
<1> DEFINE R == Range(Threads) \cup {Index, Inventory, Packet}
<1>0. Index # Packet /\ Inventory # Packet /\ Index # Inventory
  BY DEF Index, Inventory, Packet
<1>1. /\ Threads \in Seq(R) /\ Len(Threads) \in Nat /\ DOMAIN Threads = 1 .. Len(Threads)
      /\ Index \in R /\ Inventory \in R /\ Packet \in R
  <2>1. Threads \in Seq(STRING)
    BY ThreadsAssumption
  <2>2. Len(Threads) \in Nat /\ DOMAIN Threads = 1 .. Len(Threads) /\ Threads \in [1 .. Len(Threads) -> STRING]
    BY <2>1
  <2>3. \A i \in DOMAIN Threads : Threads[i] \in R
    BY DEF Range
  <2>4. Index \in R /\ Inventory \in R /\ Packet \in R
    OBVIOUS
  <2> HIDE DEF R
  <2>5. Threads \in [1 .. Len(Threads) -> R]
    BY <2>2, <2>3
  <2> QED
    BY <2>2, <2>4, <2>5
<1> HIDE DEF R
<1>2. Files \in Seq(R) /\ Len(Files) = Len(Threads) + 3 /\ Len(Threads) \in Nat
      /\ Files[1] = Index /\ Files[2] = Inventory /\ Files[Len(Threads) + 3] = Packet
      /\ \A i \in 1 .. Len(Threads) : Files[i + 2] = Threads[i]
  <2> DEFINE h == <<Index, Inventory>>
             m == h \o Threads
             e == <<Packet>>
  <2>1. /\ h \in Seq(R) /\ Len(h) = 2 /\ h[1] = Index /\ h[2] = Inventory
        /\ e \in Seq(R) /\ Len(e) = 1 /\ e[1] = Packet
    BY <1>1
  <2>2. Files = m \o e
    BY DEF Files
  <2> HIDE DEF h, m, e
  <2>3. /\ m \in Seq(R) /\ Len(m) = 2 + Len(Threads)
        /\ \A i \in 1 .. 2 + Len(Threads) : m[i] = IF i <= 2 THEN h[i] ELSE Threads[i - 2]
    <3>1. /\ h \o Threads \in Seq(R) /\ Len(h \o Threads) = Len(h) + Len(Threads)
          /\ \A i \in 1 .. Len(h) + Len(Threads) :
               (h \o Threads)[i] = IF i <= Len(h) THEN h[i] ELSE Threads[i - Len(h)]
      BY <1>1, <2>1, ConcatProperties
    <3> QED
      BY <2>1, <3>1 DEF m
  <2>4. /\ m \o e \in Seq(R) /\ Len(m \o e) = Len(m) + 1
        /\ \A i \in 1 .. Len(m) + 1 : (m \o e)[i] = IF i <= Len(m) THEN m[i] ELSE e[i - Len(m)]
    <3>1. /\ m \o e \in Seq(R) /\ Len(m \o e) = Len(m) + Len(e)
          /\ \A i \in 1 .. Len(m) + Len(e) : (m \o e)[i] = IF i <= Len(m) THEN m[i] ELSE e[i - Len(m)]
      BY <2>1, <2>3, ConcatProperties
    <3> QED
      BY <2>1, <3>1
  <2>5. Files \in Seq(R) /\ Len(Files) = Len(Threads) + 3
    BY <1>1, <2>2, <2>3, <2>4
  <2>6. Files[1] = Index /\ Files[2] = Inventory
    <3>1. 1 \in 1 .. Len(m) + 1 /\ 1 <= Len(m) /\ 2 \in 1 .. Len(m) + 1 /\ 2 <= Len(m)
      BY <1>1, <2>3
    <3>2. m[1] = h[1] /\ m[2] = h[2]
      BY <1>1, <2>3
    <3> QED
      BY <2>1, <2>2, <2>4, <3>1, <3>2
  <2>7. Files[Len(Threads) + 3] = Packet
    <3>1. Len(Threads) + 3 \in 1 .. Len(m) + 1 /\ ~(Len(Threads) + 3 <= Len(m)) /\ Len(Threads) + 3 - Len(m) = 1
      BY <1>1, <2>3
    <3> QED
      BY <2>1, <2>2, <2>4, <3>1
  <2>8. ASSUME NEW i \in 1 .. Len(Threads) PROVE Files[i + 2] = Threads[i]
    <3>1. i + 2 \in 1 .. 2 + Len(Threads) /\ ~(i + 2 <= 2) /\ (i + 2) - 2 = i
      BY <1>1
    <3>2. m[i + 2] = Threads[i]
      BY <2>3, <3>1
    <3>3. i + 2 \in 1 .. Len(m) + 1 /\ i + 2 <= Len(m)
      BY <1>1, <2>3
    <3> QED
      BY <2>2, <2>4, <3>2, <3>3
  <2> QED
    BY <1>1, <2>5, <2>6, <2>7, <2>8
<1>3. DOMAIN Files = 1 .. Len(Files) /\ Names = {Files[i] : i \in 1 .. Len(Files)}
  BY <1>2 DEF Names, Range
<1>4. Files \in Seq(Names)
  BY <1>2, <1>3
<1>5. Range(Threads) = {Threads[i] : i \in 1 .. Len(Threads)}
  BY <1>1 DEF Range
<1>6. Index \in Names /\ Inventory \in Names /\ Packet \in Names
  <2>1. 1 \in 1 .. Len(Files) /\ 2 \in 1 .. Len(Files) /\ Len(Threads) + 3 \in 1 .. Len(Files)
    BY <1>2
  <2> QED
    BY <1>2, <1>3, <2>1
<1>7. Range(Threads) \subseteq Names
  <2> SUFFICES ASSUME NEW i \in 1 .. Len(Threads) PROVE Threads[i] \in Names
    BY <1>5
  <2>1. i + 2 \in 1 .. Len(Files) /\ Files[i + 2] = Threads[i]
    BY <1>2
  <2> QED
    BY <1>3, <2>1
<1>8. \A f \in Names : Position(f) \in 1 .. Len(Files) /\ Files[Position(f)] = f
  BY <1>3 DEF Position
<1>9. {Index, Inventory, Packet} \cap Range(Threads) = {}
  BY ThreadsAssumption
<1>10. Len(Files) \in Nat
  BY <1>2
<1> QED
  BY <1>0, <1>3, <1>4, <1>6, <1>7, <1>8, <1>9, <1>10

LEMMA NamesFinite ==
  /\ IsFiniteSet(Names) /\ Cardinality(Names) \in Nat /\ Cardinality(Names) <= Len(Files)
<1> DEFINE p == [f \in Names |-> Position(f)]
<1>1. p \in Injection(Names, 1 .. Len(Files))
  BY FilesAre DEF Injection, IsInjective
<1>2. IsFiniteSet(1 .. Len(Files)) /\ Cardinality(1 .. Len(Files)) = Len(Files)
  <2>1. Len(Files) \in Nat /\ Len(Files) \in Int /\ 1 \in Int
    BY FilesAre
  <2> QED
    BY <2>1, FS_Interval
<1> HIDE DEF p
<1>3. IsFiniteSet(Names) /\ Cardinality(Names) <= Len(Files)
  BY <1>1, <1>2, FS_Injection
<1> QED
  BY <1>3, FS_CardinalityType

(* InOrder lists a set of files, each once.                                *)
LEMMA Listed ==
  ASSUME NEW S \in SUBSET Names
  PROVE  /\ InOrder(S) \in Seq(Names) /\ Len(InOrder(S)) \in Nat /\ Len(InOrder(S)) <= Len(Files)
         /\ DOMAIN InOrder(S) = 1 .. Len(InOrder(S))
         /\ \A i \in DOMAIN InOrder(S) : InOrder(S)[i] \in S
         /\ \A f \in S : \E i \in DOMAIN InOrder(S) : InOrder(S)[i] = f
         /\ \A i, j \in DOMAIN InOrder(S) : InOrder(S)[i] = InOrder(S)[j] => i = j
         /\ S # {} <=> InOrder(S) # <<>>
<1> DEFINE N == Cardinality(S)
           Upto(f) == {g \in S : Position(g) <= Position(f)}
           rank == [f \in S |-> Cardinality(Upto(f))]
<1>1. IsFiniteSet(S) /\ N \in Nat /\ N <= Len(Files)
  BY FilesAre, NamesFinite, FS_Subset, FS_CardinalityType
<1>2. \A f \in S : Position(f) \in Nat
  BY FilesAre
<1>3. \A f, g \in S : Position(f) = Position(g) => f = g
  BY FilesAre
<1>4. ASSUME NEW f \in S PROVE IsFiniteSet(Upto(f)) /\ Cardinality(Upto(f)) \in 1 .. N
  <2>1. Upto(f) \in SUBSET S /\ f \in Upto(f)
    BY <1>2
  <2>2. IsFiniteSet(Upto(f)) /\ Cardinality(Upto(f)) <= N /\ Cardinality(Upto(f)) # 0
    BY <1>1, <2>1, FS_Subset, FS_EmptySet
  <2>3. Cardinality(Upto(f)) \in Nat
    BY <2>2, FS_CardinalityType
  <2> QED
    BY <1>1, <2>2, <2>3
<1>5. ASSUME NEW f \in S, NEW g \in S, Position(f) < Position(g)
      PROVE  Cardinality(Upto(f)) < Cardinality(Upto(g))
  <2>1. Upto(f) \in SUBSET Upto(g) /\ Upto(f) # Upto(g)
    BY <1>2, <1>5
  <2>2. Cardinality(Upto(f)) <= Cardinality(Upto(g)) /\ Cardinality(Upto(f)) # Cardinality(Upto(g))
    BY <1>4, <2>1, FS_Subset
  <2> QED
    BY <1>4, <2>2
<1> HIDE DEF N, Upto
<1>6. /\ rank \in [S -> 1 .. N]
      /\ \A f, g \in S : Position(f) < Position(g) => rank[f] < rank[g]
  BY <1>4, <1>5
<1> HIDE DEF rank
<1>7. ASSUME NEW f \in S, NEW g \in S, rank[f] = rank[g] PROVE f = g
  <2>1. rank[f] \in Nat /\ rank[g] \in Nat /\ Position(f) \in Nat /\ Position(g) \in Nat
    BY <1>2, <1>6
  <2>2. Position(f) = Position(g)
    BY <1>6, <1>7, <2>1
  <2> QED
    BY <1>3, <2>2
<1>8. rank \in Injection(S, 1 .. N)
  BY <1>6, <1>7 DEF Injection, IsInjective
<1>9. IsFiniteSet(1 .. N) /\ Cardinality(1 .. N) = N
  BY <1>1, FS_Interval
<1>10. rank \in Surjection(S, 1 .. N)
  BY <1>8, <1>9, FS_Injection DEF N
<1>11. \A k \in 1 .. N : \E f \in S : rank[f] = k
  BY <1>10 DEF Surjection
<1> DEFINE s == [k \in 1 .. N |-> CHOOSE f \in S : rank[f] = k]
<1>12. s \in [1 .. N -> S] /\ \A k \in 1 .. N : rank[s[k]] = k
  BY <1>11
<1> HIDE DEF s
<1>13. ASSUME NEW i \in 1 .. N, NEW j \in 1 .. N, i < j PROVE Position(s[i]) < Position(s[j])
  <2>1. s[i] \in S /\ s[j] \in S /\ rank[s[i]] = i /\ rank[s[j]] = j
    BY <1>12
  <2>2. Position(s[i]) \in Nat /\ Position(s[j]) \in Nat
    BY <1>2, <2>1
  <2>3. s[i] # s[j]
    BY <1>13, <2>1
  <2>4. Position(s[i]) # Position(s[j])
    BY <1>3, <2>1, <2>3
  <2>5. ~(Position(s[j]) < Position(s[i]))
    BY <1>6, <1>13, <2>1
  <2> QED
    BY <2>2, <2>4, <2>5
<1>14. \E t \in [1 .. N -> S] : \A i, j \in DOMAIN t : i < j => Position(t[i]) < Position(t[j])
  <2>1. DOMAIN s = 1 .. N
    BY <1>12
  <2> QED
    BY <1>12, <1>13, <2>1
<1> DEFINE q == InOrder(S)
<1>15. q \in [1 .. N -> S] /\ \A i, j \in DOMAIN q : i < j => Position(q[i]) < Position(q[j])
  BY <1>14 DEF InOrder, N
<1> HIDE DEF q
<1>16. q \in Seq(S) /\ q \in Seq(Names) /\ Len(q) = N /\ DOMAIN q = 1 .. N
  BY <1>1, <1>15
<1>17. ASSUME NEW i \in 1 .. N, NEW j \in 1 .. N, q[i] = q[j] PROVE i = j
  <2>1. Position(q[i]) \in Nat /\ i \in Nat /\ j \in Nat
    BY <1>1, <1>2, <1>15
  <2>2. ~(i < j) /\ ~(j < i)
    BY <1>15, <1>16, <1>17, <2>1
  <2> QED
    BY <2>1, <2>2
<1>18. q \in Injection(1 .. N, S)
  BY <1>15, <1>17 DEF Injection, IsInjective
<1>19. q \in Surjection(1 .. N, S)
  BY <1>1, <1>9, <1>18, FS_Injection DEF N
<1>20. \A f \in S : \E i \in 1 .. N : q[i] = f
  BY <1>19 DEF Surjection
<1>21. S # {} <=> q # <<>>
  <2>1. S = {} <=> N = 0
    BY <1>1, FS_EmptySet DEF N
  <2>2. q = <<>> <=> N = 0
    BY <1>1, <1>16
  <2> QED
    BY <2>1, <2>2
<1> QED
  BY <1>1, <1>15, <1>16, <1>17, <1>20, <1>21 DEF q

-------------------------------------------------------------------------------
(* The inductive invariant: the tools' side.                               *)
Trees == [Names -> Contents]
Heads == [key : 0 .. MaxLocks, items : Seq(Names), digest : Trees]
EncType == [manifest : 0 .. MaxLocks, head : Heads, blobs : [DOMAIN Files -> Blobs]]
Run == {NoRun} \cup [op : {"build"}, left : Seq(Names), pw : BOOLEAN]
               \cup [op : {"wipe"}, items : Seq(Names), away : BOOLEAN]
               \cup [op : {"encrypt"}, items : Seq(Names), away : BOOLEAN, at : Nat \ {0}]
               \cup [op : {"stash"}, left : Seq(Bases)]
               \cup [op : {"unlock"}, at : Nat \ {0}]

LockTypes ==
  /\ built \in Seq(SUBSET Range(Threads)) /\ Len(built) <= MaxBuilds
  /\ latest \in 0 .. Len(built)
  /\ plain \in Trees /\ stash \in Trees
  /\ dirs \subseteq Bases /\ \A f \in Names : plain[f] # None => Base(f) \in dirs
  /\ locked \in Seq(Trees) /\ Len(locked) <= MaxLocks
  /\ run \in Run

(* What was encrypted under a key is what the tree held when the lock with *)
(* that key began, and a head is of one lock.                              *)
BlobTrue(b) == b = NoBlob \/ (/\ b.key \in 1 .. Len(locked) /\ b.name \in Names
                              /\ b.content = locked[b.key][b.name])
HeadTrue(h) == h = NoHead \/ (h.key \in 1 .. Len(locked) /\ Len(h.items) <= Len(Files))

EncTypes ==
  /\ enc \in EncType /\ enc.manifest <= Len(locked)
  /\ HeadTrue(enc.head) /\ \A i \in DOMAIN Files : BlobTrue(enc.blobs[i])

(* A build writes the inventory after the rest, into directories that are  *)
(* there, and what it writes over is still elsewhere.                      *)
Elsewhere == ~risked /\ latest > 0 => Whole(stash, latest) \/ EncWhole(latest)

BuildInv ==
  run.op = "build" =>
    /\ dirs = Bases
    /\ run.pw => Len(locked) < MaxLocks
    /\ run.left # <<>> =>
         /\ latest < Len(built) /\ run.left[Len(run.left)] = Inventory
         /\ \A t \in DataSet(Len(built)) :
              plain[t] = Len(built) \/ \E i \in DOMAIN run.left : run.left[i] = t
         /\ Elsewhere
    /\ run.left = <<>> => latest = Len(built) /\ Whole(plain, latest)

(* A lock encrypts the tree as it was when it began, under a salt that no  *)
(* manifest has yet.                                                       *)
LockingInv ==
  run.op \in {"wipe", "encrypt"} =>
    /\ run.items = Items(plain)
    /\ Len(locked) > 0 /\ locked[Len(locked)] = plain
    /\ enc.manifest < Len(locked)
    /\ ~risked /\ latest > 0 => Whole(plain, latest)

EncryptInv ==
  run.op = "encrypt" =>
    /\ run.at <= Len(run.items) + 2
    /\ \A i \in DOMAIN run.items : i < run.at =>
         enc.blobs[i] = [key |-> Len(locked), name |-> run.items[i], content |-> plain[run.items[i]]]
    /\ run.at = Len(run.items) + 2 =>
         /\ enc.head.key = Len(locked) /\ enc.head.items = run.items
         /\ \A f \in Range(run.items) : enc.head.digest[f] = plain[f]

(* While stash and unlock touch the plaintext, the ciphertext is whole.    *)
AwayInv ==
  run.op \in {"stash", "unlock"} /\ ~risked /\ latest > 0 => EncWhole(latest)

RestInv ==
  run.op = "none" /\ ~risked /\ latest > 0 =>
    Whole(plain, latest) \/ Whole(stash, latest) \/ EncWhole(latest)

VerifyInv == enc.manifest # 0 /\ enc.manifest = Len(locked) => Verifies

LockInv == LockTypes /\ EncTypes /\ BuildInv /\ LockingInv /\ EncryptInv /\ AwayInv /\ RestInv /\ VerifyInv

(* The page's side: what it holds is of the lock whose manifest it loaded. *)
Flows == {"closed", "prompt", "restore", "unlock", "load", "ready", "dead"}
PageType == [flow : Flows, manifest : 0 .. MaxLocks, key : 0 .. MaxLocks, toc : Heads,
             booted : BOOLEAN, wrong : BOOLEAN]
PageTypes ==
  /\ page \in PageType /\ page.manifest <= Len(locked) /\ page.key \in {0, page.manifest}
  /\ HeadTrue(page.toc)
  /\ cache \in Trees /\ shown \in Contents
  /\ http \in [head : Heads, blobs : [DOMAIN Files -> Blobs]]
  /\ HeadTrue(http.head) /\ \A i \in DOMAIN Files : BlobTrue(http.blobs[i])

(* A read that has its answer has a blob of the page's lock.               *)
ReadsInv ==
  /\ reads \subseteq [name : Names, blob : DOMAIN Files, got : Blobs \cup {Pending}]
  /\ \A r \in reads : r.got # Pending =>
       /\ r.got \in Blobs /\ r.got # NoBlob /\ BlobTrue(r.got)
       /\ r.got.key = page.manifest /\ r.got.name = r.name

PageInv ==
  /\ page.flow # "closed" => page.manifest # 0
  /\ page.manifest = 0 => cache = NoFiles /\ shown = None
  /\ page.flow \in {"restore", "unlock"} => page.key = page.manifest
  /\ OneDataset

ViewerInv == PageTypes /\ ReadsInv /\ PageInv
AtlasInv == LockInv /\ ViewerInv

LEMMA AtlasInvImplies == AtlasInv => DatasetSurvives /\ OneDataset
<1> SUFFICES ASSUME AtlasInv PROVE DatasetSurvives
  BY DEF AtlasInv, ViewerInv, PageInv
<1>1. /\ enc.manifest \in 0 .. MaxLocks /\ enc.head \in Heads /\ enc.blobs \in [DOMAIN Files -> Blobs]
      /\ page.flow \in Flows /\ page.toc \in Heads /\ HeadTrue(page.toc) /\ HeadTrue(enc.head)
  BY DEF AtlasInv, LockInv, EncTypes, EncType, ViewerInv, PageTypes, PageType
<1>2. ASSUME NEW h \in Heads, HeadTrue(h) PROVE HeadOK(h)
  <2>1. h.key \in 0 .. MaxLocks /\ h.items \in Seq(Names) /\ h.digest \in [Names -> Contents]
    BY DEF Heads, Trees
  <2>2. Len(h.items) <= Len(Files)
    BY <1>2, FilesAre DEF HeadTrue, NoHead
  <2> QED
    BY <2>1, <2>2 DEF HeadOK
<1>3. run.op \in {"none", "build", "wipe", "encrypt", "stash", "unlock"}
  BY DEF AtlasInv, LockInv, LockTypes, Run, NoRun
<1>4. TypeOK
  BY <1>1, <1>2, <1>3 DEF AtlasInv, LockInv, LockTypes, ViewerInv, PageTypes, TypeOK, Trees, Flows
<1>5. ASSUME latest > 0, ~risked
      PROVE  Whole(plain, latest) \/ Whole(stash, latest) \/ EncWhole(latest)
  BY <1>3, <1>5 DEF AtlasInv, LockInv, BuildInv, Elsewhere, LockingInv, AwayInv, RestInv
<1> QED
  BY <1>4, <1>5 DEF AtlasInv, LockInv, VerifyInv, DatasetSurvives

-------------------------------------------------------------------------------
(* The runs, and the empty tree.                                           *)
LEMMA RunIs ==
  ASSUME run \in Run
  PROVE  /\ run.op \in {"none", "build", "wipe", "encrypt", "stash", "unlock"}
         /\ run = NoRun <=> run.op = "none"
         /\ run.op = "build" => run \in [op : {"build"}, left : Seq(Names), pw : BOOLEAN]
         /\ run.op = "wipe" => run \in [op : {"wipe"}, items : Seq(Names), away : BOOLEAN]
         /\ run.op = "encrypt" => run \in [op : {"encrypt"}, items : Seq(Names), away : BOOLEAN, at : Nat \ {0}]
         /\ run.op = "stash" => run \in [op : {"stash"}, left : Seq(Bases)]
         /\ run.op = "unlock" => run \in [op : {"unlock"}, at : Nat \ {0}]
BY DEF Run, NoRun

LEMMA Constants ==
  /\ MaxBuilds \in Nat /\ MaxLocks \in Nat /\ MaxBuilds > 0 /\ MaxLocks > 0
  /\ None \in Contents /\ Torn \in Contents /\ \A v \in 0 .. MaxBuilds : v \in Contents
  /\ NoFiles \in Trees /\ NoBlob \in Blobs /\ NoHead \in Heads /\ NoEnc \in EncType
  /\ Bases = {"data", "exports"} /\ \A f \in Names : Base(f) \in Bases
<1>1. MaxBuilds \in Nat /\ MaxLocks \in Nat /\ MaxBuilds > 0 /\ MaxLocks > 0
  BY AtlasBounds
<1>2. None \in Contents /\ Torn \in Contents /\ \A v \in 0 .. MaxBuilds : v \in Contents
  BY <1>1 DEF None, Torn, Contents
<1>3. NoFiles \in Trees
  BY <1>2 DEF NoFiles, Trees
<1>4. NoBlob \in Blobs
  BY <1>1, <1>2 DEF NoBlob, Blobs
<1>5. NoHead \in Heads
  BY <1>1, <1>3 DEF NoHead, Heads
<1>6. NoEnc \in EncType
  BY <1>1, <1>4, <1>5 DEF NoEnc, EncType
<1>7. \A f \in Names : Base(f) \in Bases
  BY DEF Base, Bases
<1> QED
  BY <1>1, <1>2, <1>3, <1>4, <1>5, <1>6, <1>7 DEF Bases

LEMMA ItemsAre ==
  ASSUME NEW tree \in Trees
  PROVE  /\ Items(tree) \in Seq(Names) /\ Len(Items(tree)) \in Nat /\ Len(Items(tree)) <= Len(Files)
         /\ DOMAIN Items(tree) = 1 .. Len(Items(tree))
         /\ Range(Items(tree)) = {f \in Names : tree[f] # None}
         /\ \A f \in Names : tree[f] # None => \E i \in DOMAIN Items(tree) : Items(tree)[i] = f
         /\ (\E f \in Names : tree[f] # None) <=> Items(tree) # <<>>
<1> DEFINE S == {f \in Names : tree[f] # None}
<1>1. S \in SUBSET Names
  OBVIOUS
<1>2. Items(tree) = InOrder(S)
  BY DEF Items
<1>3. (\E f \in Names : tree[f] # None) <=> S # {}
  OBVIOUS
<1>4. \A f \in Names : tree[f] # None <=> f \in S
  OBVIOUS
<1> HIDE DEF S
<1> DEFINE q == InOrder(S)
<1>5. /\ q \in Seq(Names) /\ Len(q) \in Nat /\ Len(q) <= Len(Files) /\ DOMAIN q = 1 .. Len(q)
      /\ \A i \in DOMAIN q : q[i] \in S
      /\ \A f \in S : \E i \in DOMAIN q : q[i] = f
      /\ S # {} <=> q # <<>>
  BY <1>1, Listed
<1> HIDE DEF q
<1>6. Range(q) = S
  BY <1>5 DEF Range
<1>7. Items(tree) = q
  BY <1>2 DEF q
<1>8. \A f \in Names : tree[f] # None => \E i \in DOMAIN q : q[i] = f
  BY <1>4, <1>5
<1>9. (\E f \in Names : tree[f] # None) <=> q # <<>>
  BY <1>3, <1>5
<1>10. Range(q) = {f \in Names : tree[f] # None}
  BY <1>6 DEF S
<1> QED
  BY <1>5, <1>7, <1>8, <1>9, <1>10

-------------------------------------------------------------------------------
(* The first state.                                                        *)
LEMMA AtlasInit == Init => AtlasInv
<1> SUFFICES ASSUME Init PROVE AtlasInv
  OBVIOUS
<1> DEFINE one == [f \in Names |-> 1]
           head == [key |-> 1, items |-> Files, digest |-> one]
           blob == [i \in DOMAIN Files |-> [key |-> 1, name |-> Files[i], content |-> 1]]
<1>0. one \in Trees /\ 1 \in Contents /\ 1 \in 0 .. MaxLocks
  BY Constants DEF Trees
<1>1. /\ raw \in BOOLEAN /\ latest = Len(built) /\ plain = NoFiles /\ stash = NoFiles /\ dirs = {}
      /\ ~risked /\ run = NoRun
      /\ raw => built = <<>> /\ locked = <<>> /\ enc = NoEnc
      /\ ~raw => /\ built = <<Range(Threads)>> /\ locked = <<one>>
                 /\ enc = [manifest |-> 1, head |-> head, blobs |-> blob]
  BY DEF Init, LockInit
<1>2. head \in Heads /\ blob \in [DOMAIN Files -> Blobs]
  <2>1. \A i \in DOMAIN Files : Files[i] \in Names
    BY FilesAre
  <2> HIDE DEF one
  <2> QED
    BY <1>0, <2>1, FilesAre DEF Heads, Blobs
<1>3. /\ head.key = 1 /\ head.items = Files /\ head.digest = one
      /\ \A i \in DOMAIN Files : blob[i].key = 1 /\ blob[i].name = Files[i] /\ blob[i].content = 1
      /\ \A f \in Names : one[f] = 1
  OBVIOUS
<1> HIDE DEF one, head, blob
<1>4. LockTypes
  <2>1. built \in Seq(SUBSET Range(Threads)) /\ Len(built) <= MaxBuilds /\ latest \in 0 .. Len(built)
    <3>1. Range(Threads) \in SUBSET Range(Threads)
      OBVIOUS
    <3>2. CASE raw
      BY <1>1, <3>2, Constants
    <3>3. CASE ~raw
      BY <1>1, <3>1, <3>3, Constants
    <3> QED
      BY <3>2, <3>3
  <2>2. locked \in Seq(Trees) /\ Len(locked) <= MaxLocks
    <3>1. <<one>> \in Seq(Trees) /\ Len(<<one>>) = 1 /\ <<>> \in Seq(Trees) /\ Len(<<>>) = 0
      BY <1>0
    <3>2. locked = <<one>> \/ locked = <<>>
      BY <1>1
    <3>3. 1 <= MaxLocks /\ 0 <= MaxLocks
      BY Constants
    <3>4. CASE locked = <<one>>
      BY <3>1, <3>3, <3>4
    <3>5. CASE locked = <<>>
      BY <3>1, <3>3, <3>5
    <3> QED
      BY <3>2, <3>4, <3>5
  <2>3. \A f \in Names : plain[f] = None
    BY <1>1 DEF NoFiles
  <2>4. run \in Run
    BY <1>1 DEF Run
  <2> QED
    BY <1>1, <2>1, <2>2, <2>3, <2>4, Constants DEF LockTypes
<1>5. run.op = "none"
  BY <1>1 DEF NoRun
<1>6. BuildInv /\ LockingInv /\ EncryptInv /\ AwayInv
  BY <1>5 DEF BuildInv, LockingInv, EncryptInv, AwayInv
<1>7. EncTypes /\ VerifyInv /\ RestInv
  <2>1. CASE raw
    <3>1. enc = NoEnc /\ locked = <<>> /\ Len(locked) = 0 /\ latest = 0
      BY <1>1, <2>1
    <3>2. enc.manifest = 0 /\ enc.head = NoHead /\ \A i \in DOMAIN Files : enc.blobs[i] = NoBlob
      BY <3>1 DEF NoEnc
    <3>3. EncTypes
      BY <3>1, <3>2, Constants DEF EncTypes, HeadTrue, BlobTrue
    <3> QED
      BY <3>1, <3>2, <3>3 DEF VerifyInv, RestInv
  <2>2. CASE ~raw
    <3>1. enc = [manifest |-> 1, head |-> head, blobs |-> blob] /\ locked = <<one>> /\ Len(locked) = 1
          /\ locked[1] = one /\ built = <<Range(Threads)>> /\ latest = 1
      BY <1>1, <2>2
    <3>2. enc.manifest = 1 /\ enc.head = head /\ enc.blobs = blob
      BY <3>1
    <3>3. enc \in EncType
      BY <1>0, <1>2, <3>1 DEF EncType
    <3>4. \A i \in DOMAIN Files : Files[i] \in Names
      BY FilesAre
    <3>5. EncTypes
      <4>1. HeadTrue(enc.head)
        BY <1>3, <3>1, <3>2, FilesAre DEF HeadTrue
      <4>2. ASSUME NEW i \in DOMAIN Files PROVE BlobTrue(enc.blobs[i])
        <5>1. enc.blobs[i].key = 1 /\ enc.blobs[i].name = Files[i] /\ enc.blobs[i].content = 1
          BY <1>3, <3>2
        <5>2. locked[1][Files[i]] = 1 /\ 1 \in 1 .. Len(locked)
          BY <1>3, <3>1, <3>4
        <5> QED
          BY <3>4, <5>1, <5>2 DEF BlobTrue
      <4> QED
        BY <3>1, <3>2, <3>3, <4>1, <4>2 DEF EncTypes
    <3>6. HeadOpens
      BY <1>3, <3>2 DEF HeadOpens
    <3>7. \A i \in DOMAIN Files : Opens(i) /\ enc.blobs[i].content = 1 /\ enc.head.items[i] = Files[i]
      <4> SUFFICES ASSUME NEW i \in DOMAIN Files
                   PROVE  Opens(i) /\ enc.blobs[i].content = 1 /\ enc.head.items[i] = Files[i]
        OBVIOUS
      <4>1. enc.blobs[i].key = 1 /\ enc.blobs[i].name = Files[i] /\ enc.blobs[i].content = 1
        BY <1>3, <3>2
      <4> QED
        BY <1>3, <3>2, <4>1 DEF Opens
    <3>8. Verifies
      BY <1>3, <3>2, <3>4, <3>6, <3>7 DEF Verifies
    <3>9. EncWhole(1)
      <4>1. built[1] = Range(Threads)
        BY <3>1
      <4>2. DataSet(1) \subseteq Names
        BY <4>1, FilesAre DEF DataSet
      <4>3. ASSUME NEW f \in DataSet(1)
            PROVE  \E i \in DOMAIN enc.head.items : enc.head.items[i] = f /\ Opens(i) /\ enc.blobs[i].content = 1
        <5>1. Position(f) \in DOMAIN Files /\ Files[Position(f)] = f
          BY <4>2, FilesAre
        <5> QED
          BY <1>3, <3>2, <3>7, <5>1
      <4> QED
        BY <3>6, <4>3 DEF EncWhole
    <3> QED
      BY <3>1, <3>5, <3>8, <3>9 DEF VerifyInv, RestInv
  <2> QED
    BY <1>1, <2>1, <2>2
<1>8. ViewerInv
  <2>1. page = Closed /\ cache = NoFiles /\ shown = None /\ http = NoHttp /\ reads = {}
    BY DEF Init, ViewerInit
  <2>2. /\ page.flow = "closed" /\ page.manifest = 0 /\ page.key = 0 /\ page.toc = NoHead /\ ~page.wrong
    BY <2>1 DEF Closed
  <2>3. page \in PageType
    BY <2>1, Constants DEF Closed, PageType, Flows
  <2>4. http.head = NoHead /\ \A i \in DOMAIN Files : http.blobs[i] = NoBlob
    BY <2>1 DEF NoHttp
  <2>5. http \in [head : Heads, blobs : [DOMAIN Files -> Blobs]]
    BY <2>1, Constants DEF NoHttp
  <2>6. Len(locked) \in Nat
    BY <1>4 DEF LockTypes
  <2>7. PageTypes
    BY <2>1, <2>2, <2>3, <2>4, <2>5, <2>6, Constants DEF PageTypes, HeadTrue, BlobTrue
  <2>8. PageInv
    <3>1. \A f \in Names : cache[f] = None
      BY <2>1 DEF NoFiles
    <3> QED
      BY <2>1, <2>2, <3>1 DEF PageInv, OneDataset
  <2>9. ReadsInv
    BY <2>1 DEF ReadsInv
  <2> QED
    BY <2>7, <2>8, <2>9 DEF ViewerInv
<1> QED
  BY <1>4, <1>6, <1>7, <1>8 DEF AtlasInv, LockInv

-------------------------------------------------------------------------------
(* What a step leaves alone.                                               *)
LEMMA EncUntouched ==
  ASSUME EncTypes, VerifyInv, UNCHANGED <<enc, locked>>
  PROVE  EncTypes' /\ VerifyInv'
<1>1. EncTypes'
  BY DEF EncTypes, HeadTrue, BlobTrue
<1>2. VerifyInv'
  BY DEF VerifyInv, Verifies, HeadOpens, Opens
<1> QED
  BY <1>1, <1>2

LEMMA EncWholeUntouched ==
  ASSUME EncWhole(latest), UNCHANGED <<enc, built, latest>>
  PROVE  EncWhole(latest)'
BY DEF EncWhole, DataSet, HeadOpens, Opens

LEMMA WholeUntouched ==
  ASSUME UNCHANGED <<built, latest>>
  PROVE  /\ plain' = plain => (Whole(plain, latest)' <=> Whole(plain, latest))
         /\ stash' = stash => (Whole(stash, latest)' <=> Whole(stash, latest))
BY DEF Whole, DataSet

LEMMA ElsewhereUntouched ==
  ASSUME Elsewhere, UNCHANGED <<built, latest, stash, enc, risked>>
  PROVE  Elsewhere'
BY EncWholeUntouched, WholeUntouched DEF Elsewhere

(* Only a run that locks puts the ciphertext at stake.                     *)
LEMMA BuildSteps ==
  ASSUME LockTypes', EncTypes', VerifyInv', BuildInv', run'.op = "build"
  PROVE  LockInv'
BY DEF LockInv, LockingInv, EncryptInv, AwayInv, RestInv

LEMMA AwaySteps ==
  ASSUME LockTypes', EncTypes', VerifyInv', run'.op \in {"none", "stash", "unlock"},
         ~risked' /\ latest' > 0 => EncWhole(latest)'
  PROVE  LockInv'
BY DEF LockInv, BuildInv, LockingInv, EncryptInv, AwayInv, RestInv

-------------------------------------------------------------------------------
(* The build.                                                              *)
LEMMA BuildNothingKeeps ==
  ASSUME LockInv, BuildNothing
  PROVE  LockInv'
<1>1. LockTypes'
  BY Constants DEF LockInv, LockTypes, BuildNothing
<1>2. EncTypes' /\ VerifyInv'
  BY EncUntouched DEF LockInv, BuildNothing
<1>3. run'.op = "none" /\ run.op = "none"
  BY DEF BuildNothing, NoRun
<1>4. RestInv'
  <2>1. EncWhole(latest) => EncWhole(latest)'
    BY EncWholeUntouched DEF BuildNothing
  <2>2. /\ Whole(plain, latest)' <=> Whole(plain, latest)
        /\ Whole(stash, latest)' <=> Whole(stash, latest)
    BY WholeUntouched DEF BuildNothing
  <2> QED
    BY <1>3, <2>1, <2>2 DEF LockInv, RestInv, BuildNothing
<1> QED
  BY <1>1, <1>2, <1>3, <1>4 DEF LockInv, BuildInv, LockingInv, EncryptInv, AwayInv

LEMMA StartBuildKeeps ==
  ASSUME LockInv, NEW S \in SUBSET Range(Threads), NEW pw \in BOOLEAN, StartBuild(S, pw)
  PROVE  LockInv'
<1> DEFINE q == InOrder(S)
           e == <<Index, Inventory>>
           left == q \o e
<1>1. S \in SUBSET Names /\ Index \in Names /\ Inventory \in Names
  BY FilesAre
<1>2. q \in Seq(Names) /\ Len(q) \in Nat /\ \A f \in S : \E i \in 1 .. Len(q) : q[i] = f
  BY <1>1, Listed
<1>3. e \in Seq(Names) /\ Len(e) = 2 /\ e[1] = Index /\ e[2] = Inventory
  BY <1>1
<1>4. run' = [op |-> "build", left |-> left, pw |-> pw]
  BY DEF StartBuild
<1> HIDE DEF q, e
<1>5. /\ left \in Seq(Names) /\ Len(left) = Len(q) + Len(e)
      /\ \A i \in 1 .. Len(q) + Len(e) : left[i] = IF i <= Len(q) THEN q[i] ELSE e[i - Len(q)]
  BY <1>2, <1>3, ConcatProperties
<1> HIDE DEF left
<1>6. /\ Len(left) = Len(q) + 2 /\ DOMAIN left = 1 .. Len(q) + 2 /\ left # <<>>
      /\ left[Len(q) + 1] = Index /\ left[Len(left)] = Inventory
  <2>1. /\ Len(q) + 1 \in 1 .. Len(q) + 2 /\ ~(Len(q) + 1 <= Len(q)) /\ (Len(q) + 1) - Len(q) = 1
        /\ Len(q) + 2 \in 1 .. Len(q) + 2 /\ ~(Len(q) + 2 <= Len(q)) /\ (Len(q) + 2) - Len(q) = 2
    BY <1>2
  <2> QED
    BY <1>2, <1>3, <1>5, <2>1
<1>7. ASSUME NEW f \in S PROVE \E i \in DOMAIN left : left[i] = f
  <2>0. Len(q) + Len(e) = Len(q) + 2
    BY <1>3
  <2>1. PICK i \in 1 .. Len(q) : q[i] = f
    BY <1>2
  <2>2. i \in 1 .. Len(q) + Len(e) /\ i <= Len(q) /\ i \in DOMAIN left
    BY <1>2, <1>6, <2>0
  <2> QED
    BY <1>5, <2>1, <2>2
<1>8. run'.op = "build" /\ run'.left = left /\ run'.pw = pw /\ run' \in Run
  BY <1>4, <1>5 DEF Run
<1>9. /\ built' \in Seq(SUBSET Range(Threads)) /\ Len(built') = Len(built) + 1 /\ Len(built) \in Nat
      /\ built'[Len(built')] = S
  BY DEF LockInv, LockTypes, StartBuild
<1>10. LockTypes'
  BY <1>8, <1>9, Constants DEF LockInv, LockTypes, StartBuild
<1>11. EncTypes' /\ VerifyInv'
  BY EncUntouched DEF LockInv, StartBuild
<1>12. BuildInv'
  <2>1. latest' < Len(built')
    BY <1>9 DEF LockInv, LockTypes, StartBuild
  <2>2. dirs' = Bases /\ (pw => Len(locked') < MaxLocks)
    BY DEF StartBuild
  <2>3. Elsewhere'
    <3>1. /\ UNCHANGED <<latest, stash, enc>>
          /\ ~risked' /\ latest > 0 => Whole(stash, latest) \/ EncWhole(latest)
      BY DEF StartBuild
    <3>2. ASSUME latest > 0 PROVE DataSet(latest)' = DataSet(latest)
      <4>1. latest \in 1 .. Len(built) /\ built' = Append(built, S) /\ built \in Seq(SUBSET Range(Threads))
        BY <3>2 DEF LockInv, LockTypes, StartBuild
      <4>2. built'[latest] = built[latest]
        BY <4>1
      <4> QED
        BY <3>1, <4>2 DEF DataSet
    <3>3. latest > 0 /\ Whole(stash, latest) => Whole(stash, latest)'
      BY <3>1, <3>2 DEF Whole
    <3>4. latest > 0 /\ EncWhole(latest) => EncWhole(latest)'
      BY <3>1, <3>2 DEF EncWhole, HeadOpens, Opens
    <3> QED
      BY <3>1, <3>3, <3>4 DEF Elsewhere
  <2>4. \A t \in DataSet(Len(built))' : \E i \in DOMAIN left : left[i] = t
    <3>1. Len(q) + 1 \in DOMAIN left /\ Len(left) \in DOMAIN left
      BY <1>2, <1>6
    <3>2. DataSet(Len(built))' = {Index, Inventory} \cup S
      BY <1>9 DEF DataSet
    <3> QED
      BY <1>6, <1>7, <3>1, <3>2
  <2> QED
    BY <1>6, <1>8, <2>1, <2>2, <2>3, <2>4 DEF BuildInv
<1> QED
  BY <1>8, <1>10, <1>11, <1>12, BuildSteps

LEMMA WriteFileKeeps ==
  ASSUME LockInv, WriteFile
  PROVE  LockInv'
<1> DEFINE q == run.left
           n == Len(built)
<1>1. run \in [op : {"build"}, left : Seq(Names), pw : BOOLEAN]
  BY RunIs DEF LockInv, LockTypes, WriteFile
<1>0. q \in Seq(Names) /\ q # <<>> /\ Head(q) # Inventory /\ Len(q) \in Nat /\ Tail(q) \in Seq(Names)
  <2>1. q \in Seq(Names) /\ q # <<>> /\ Head(q) # Inventory
    BY <1>1 DEF WriteFile
  <2> QED
    BY <2>1, HeadTailProperties
<1>2. run'.op = "build" /\ run'.left = Tail(q) /\ run'.pw = run.pw /\ run' \in Run
  <2>1. run' = [op |-> "build", left |-> Tail(q), pw |-> run.pw]
    BY <1>1 DEF WriteFile
  <2> QED
    BY <1>0, <1>1, <2>1 DEF Run
<1>3. /\ n \in Nat /\ n <= MaxBuilds /\ latest \in Nat /\ latest < n
      /\ dirs = Bases /\ (run.pw => Len(locked) < MaxLocks)
      /\ q[Len(q)] = Inventory
      /\ \A t \in DataSet(n) : plain[t] = n \/ \E i \in DOMAIN q : q[i] = t
      /\ Elsewhere
  BY <1>0, <1>1 DEF LockInv, LockTypes, BuildInv
<1>4. /\ plain' = [plain EXCEPT ![Head(q)] = n] /\ plain \in Trees
      /\ UNCHANGED <<built, latest, dirs, stash, enc, locked, risked>>
  BY DEF LockInv, LockTypes, WriteFile
<1>5. n \in Contents
  BY <1>3, Constants
<1>6. built \in Seq(SUBSET Range(Threads)) /\ DataSet(n) \subseteq Names
  <2>1. n \in 1 .. n /\ built \in Seq(SUBSET Range(Threads))
    BY <1>3 DEF LockInv, LockTypes
  <2> QED
    BY <2>1, FilesAre DEF DataSet
<1>7. \A i \in 1 .. Len(q) : q[i] \in Names
  BY <1>0
<1> HIDE DEF q, n
<1>8. Head(q) = q[1] /\ Head(q) \in Names /\ Len(q) > 1
  <2>1. Head(q) = q[1] /\ Len(q) # 0
    BY <1>0
  <2>2. Len(q) # 1
    BY <1>0, <1>3, <2>1
  <2>0. Len(q) \in Nat /\ Len(q) # 0
    BY <1>0, <2>1
  <2> DEFINE m == Len(q)
  <2>5. m \in Nat /\ m # 0 /\ m # 1
    BY <2>0, <2>2
  <2> HIDE DEF m
  <2>6. m > 1
    BY <2>5
  <2>3. Len(q) > 1
    BY <2>6 DEF m
  <2> QED
    BY <1>7, <2>1, <2>3
<1>9. /\ Tail(q) \in Seq(Names) /\ Len(Tail(q)) = Len(q) - 1
      /\ \A i \in 1 .. Len(q) - 1 : Tail(q)[i] = q[i + 1]
  BY <1>0, HeadTailProperties
<1>10. Tail(q) # <<>> /\ Tail(q)[Len(Tail(q))] = Inventory /\ DOMAIN Tail(q) = 1 .. Len(q) - 1
  <2>1. Len(q) - 1 \in 1 .. Len(q) - 1 /\ (Len(q) - 1) + 1 = Len(q)
    BY <1>0, <1>8
  <2>2. Tail(q)[Len(q) - 1] = q[Len(q)]
    BY <1>9, <2>1
  <2>3. Tail(q)[Len(Tail(q))] = Inventory
    BY <1>3, <1>9, <2>2
  <2>4. Tail(q) # <<>> /\ DOMAIN Tail(q) = 1 .. Len(q) - 1
    <3>1. Len(Tail(q)) # 0
      BY <1>0, <1>8, <1>9
    <3> DEFINE r == Tail(q)
    <3>2. r \in Seq(Names) /\ Len(r) # 0
      BY <1>9, <3>1
    <3> HIDE DEF r
    <3>3. r # <<>> /\ DOMAIN r = 1 .. Len(r)
      BY <3>2
    <3> QED
      BY <1>9, <3>3 DEF r
  <2> QED
    BY <2>3, <2>4
<1>11. plain' \in Trees /\ \A f \in Names : plain'[f] = IF f = Head(q) THEN n ELSE plain[f]
  BY <1>4, <1>5, <1>8 DEF Trees
<1>12. ASSUME NEW t \in DataSet(n) PROVE plain'[t] = n \/ \E i \in DOMAIN Tail(q) : Tail(q)[i] = t
  <2>1. t \in Names
    BY <1>6
  <2>2. CASE plain[t] = n \/ t = Head(q)
    BY <1>11, <2>1, <2>2
  <2>3. CASE plain[t] # n /\ t # Head(q)
    <3>1. PICK i \in DOMAIN q : q[i] = t
      BY <1>3, <2>3
    <3>2. i \in 1 .. Len(q) /\ i # 1
      BY <1>0, <1>8, <2>3, <3>1
    <3>3. i - 1 \in 1 .. Len(q) - 1 /\ (i - 1) + 1 = i
      BY <1>0, <3>2
    <3>4. Tail(q)[i - 1] = t
      BY <1>9, <3>1, <3>3
    <3> QED
      BY <1>10, <3>3, <3>4
  <2> QED
    BY <2>2, <2>3
<1>13. LockTypes'
  <2>1. \A f \in Names : plain'[f] # None => Base(f) \in dirs'
    BY <1>3, <1>4, Constants
  <2> QED
    BY <1>2, <1>4, <1>11, <2>1 DEF LockInv, LockTypes
<1>14. EncTypes' /\ VerifyInv'
  BY <1>4, EncUntouched DEF LockInv
<1>15. BuildInv'
  <2>1. Len(built') = n /\ DataSet(Len(built))' = DataSet(n)
    BY <1>4 DEF n, DataSet
  <2>2. Elsewhere'
    BY <1>3, <1>4, ElsewhereUntouched
  <2> QED
    BY <1>2, <1>3, <1>4, <1>10, <1>12, <2>1, <2>2 DEF BuildInv
<1> QED
  BY <1>2, <1>13, <1>14, <1>15, BuildSteps

LEMMA WriteInventoryKeeps ==
  ASSUME LockInv, WriteInventory
  PROVE  LockInv'
<1> DEFINE n == Len(built)
<1>1. run \in [op : {"build"}, left : Seq(Names), pw : BOOLEAN] /\ run.left = <<Inventory>>
  BY RunIs DEF LockInv, LockTypes, WriteInventory
<1>2. run'.op = "build" /\ run'.left = <<>> /\ run'.pw = run.pw /\ run' \in Run
  <2>1. run' = [op |-> "build", left |-> <<>>, pw |-> run.pw]
    BY <1>1 DEF WriteInventory
  <2> QED
    BY <1>1, <2>1 DEF Run
<1>3. run.left # <<>> /\ DOMAIN run.left = {1} /\ run.left[1] = Inventory
  BY <1>1
<1>4. /\ n \in Nat /\ n <= MaxBuilds /\ latest \in Nat /\ latest < n
      /\ dirs = Bases /\ (run.pw => Len(locked) < MaxLocks)
      /\ \A t \in DataSet(n) : plain[t] = n \/ t = Inventory
  BY <1>1, <1>3 DEF LockInv, LockTypes, BuildInv
<1>5. /\ plain' = [plain EXCEPT ![Inventory] = n] /\ plain \in Trees /\ latest' = n
      /\ UNCHANGED <<built, dirs, stash, enc, locked>>
  BY DEF LockInv, LockTypes, WriteInventory
<1>6. DataSet(n) \subseteq Names /\ Inventory \in Names
  <2>1. n \in 1 .. n /\ built \in Seq(SUBSET Range(Threads))
    BY <1>4 DEF LockInv, LockTypes
  <2> QED
    BY <2>1, FilesAre DEF DataSet
<1>7. n \in Contents
  BY <1>4, Constants
<1> HIDE DEF n
<1>8. plain' \in Trees /\ \A f \in Names : plain'[f] = IF f = Inventory THEN n ELSE plain[f]
  BY <1>5, <1>6, <1>7 DEF Trees
<1>9. LockTypes'
  <2>1. \A f \in Names : plain'[f] # None => Base(f) \in dirs'
    BY <1>4, <1>5, Constants
  <2>2. latest' \in 0 .. Len(built')
    BY <1>4, <1>5 DEF n
  <2> QED
    BY <1>2, <1>5, <1>8, <2>1, <2>2 DEF LockInv, LockTypes
<1>10. EncTypes' /\ VerifyInv'
  BY <1>5, EncUntouched DEF LockInv
<1>11. BuildInv'
  <2>1. \A f \in DataSet(n) : plain'[f] = n
    BY <1>4, <1>6, <1>8
  <2>2. Whole(plain, latest)'
    BY <1>4, <1>5, <2>1 DEF Whole, DataSet
  <2>3. latest' = Len(built')
    BY <1>5 DEF n
  <2> QED
    BY <1>2, <1>4, <1>5, <2>2, <2>3 DEF BuildInv
<1> QED
  BY <1>2, <1>9, <1>10, <1>11, BuildSteps

-------------------------------------------------------------------------------
(* A lock begins: what the earlier locks encrypted is remembered.          *)
Grown ==
  /\ locked' \in Seq(Trees) /\ Len(locked) <= Len(locked')
  /\ \A k \in 1 .. Len(locked) : locked'[k] = locked[k]

LEMMA TrueOfMore ==
  ASSUME locked \in Seq(Trees), Grown
  PROVE  /\ \A b \in Blobs : BlobTrue(b) => b = NoBlob \/ (/\ b.key \in 1 .. Len(locked') /\ b.name \in Names
                                                           /\ b.content = locked'[b.key][b.name])
         /\ \A h \in Heads : HeadTrue(h) => h = NoHead \/ (h.key \in 1 .. Len(locked') /\ Len(h.items) <= Len(Files))
<1>1. Len(locked) \in Nat /\ Len(locked') \in Nat
  BY DEF Grown
<1>2. \A k \in 1 .. Len(locked) : k \in 1 .. Len(locked') /\ locked'[k] = locked[k]
  BY <1>1 DEF Grown
<1>3. ASSUME NEW b \in Blobs, BlobTrue(b)
      PROVE  b = NoBlob \/ (/\ b.key \in 1 .. Len(locked') /\ b.name \in Names
                            /\ b.content = locked'[b.key][b.name])
  BY <1>2, <1>3 DEF BlobTrue
<1>4. ASSUME NEW h \in Heads, HeadTrue(h)
      PROVE  h = NoHead \/ (h.key \in 1 .. Len(locked') /\ Len(h.items) <= Len(Files))
  BY <1>2, <1>4 DEF HeadTrue
<1> QED
  BY <1>3, <1>4

LEMMA BeginLockKeeps ==
  ASSUME LockInv, NEW tree \in Trees, NEW away \in BOOLEAN,
         BeginLock(tree, away), plain' = tree, UNCHANGED <<built, latest, dirs, stash, enc>>,
         Len(locked) < MaxLocks, \A f \in Names : tree[f] # None => Base(f) \in dirs,
         Items(tree) = <<>> => tree = plain /\ run.op = "none"
  PROVE  LockInv'
<1> USE DEF LockInv
<1>1. CASE Items(tree) = <<>>
  <2>1. run'.op = "none" /\ run' \in Run /\ UNCHANGED <<locked, risked>> /\ plain' = plain /\ run.op = "none"
    BY <1>1 DEF BeginLock, NoRun, Run
  <2>2. LockTypes'
    BY <2>1 DEF LockTypes
  <2>3. EncTypes' /\ VerifyInv'
    BY <2>1, EncUntouched
  <2>4. RestInv'
    <3>1. EncWhole(latest) => EncWhole(latest)'
      BY EncWholeUntouched
    <3>2. /\ Whole(plain, latest)' <=> Whole(plain, latest)
          /\ Whole(stash, latest)' <=> Whole(stash, latest)
      BY <2>1, WholeUntouched
    <3> QED
      BY <2>1, <3>1, <3>2 DEF RestInv
  <2> QED
    BY <2>1, <2>2, <2>3, <2>4 DEF BuildInv, LockingInv, EncryptInv, AwayInv
<1>2. CASE Items(tree) # <<>>
  <2>1. /\ run' = [op |-> "wipe", items |-> Items(tree), away |-> away]
        /\ locked' = Append(locked, tree)
        /\ ~risked' => Whole(tree, latest)
    BY <1>2 DEF BeginLock
  <2>2. run'.op = "wipe" /\ run'.items = Items(tree) /\ run' \in Run
    BY <2>1, ItemsAre DEF Run
  <2>3. /\ locked \in Seq(Trees) /\ Len(locked) \in Nat /\ Len(locked') = Len(locked) + 1
        /\ locked' \in Seq(Trees) /\ locked'[Len(locked')] = tree
        /\ \A k \in 1 .. Len(locked) : locked'[k] = locked[k]
    BY <2>1 DEF LockTypes
  <2>4. Grown
    BY <2>3 DEF Grown
  <2>5. LockTypes'
    <3>1. Len(locked') <= MaxLocks
      BY <2>3, Constants
    <3> QED
      BY <2>2, <2>3, <3>1 DEF LockTypes
  <2>6. EncTypes'
    <3>1. enc \in EncType /\ enc.manifest <= Len(locked') /\ enc.manifest \in Nat /\ enc.head \in Heads
          /\ enc.manifest <= Len(locked) /\ \A i \in DOMAIN Files : enc.blobs[i] \in Blobs
      <4>1. enc.manifest \in Nat /\ enc.manifest <= Len(locked) /\ enc \in EncType
        BY DEF EncTypes, EncType
      <4>2. enc.head \in Heads /\ \A i \in DOMAIN Files : enc.blobs[i] \in Blobs
        BY DEF EncTypes, EncType
      <4> QED
        BY <2>3, <4>1, <4>2
    <3>2. HeadTrue(enc.head)'
      BY <2>3, <2>4, <3>1, TrueOfMore DEF EncTypes, HeadTrue
    <3>3. ASSUME NEW i \in DOMAIN Files PROVE BlobTrue(enc.blobs[i])'
      <4>1. BlobTrue(enc.blobs[i]) /\ enc.blobs[i] \in Blobs
        BY <3>1 DEF EncTypes
      <4>2. enc'.blobs[i] = enc.blobs[i]
        OBVIOUS
      <4> QED
        BY <2>3, <2>4, <4>1, <4>2, TrueOfMore DEF BlobTrue
    <3> QED
      BY <3>1, <3>2, <3>3 DEF EncTypes
  <2>7. enc'.manifest < Len(locked')
    <3>1. enc.manifest \in Nat /\ enc.manifest <= Len(locked)
      BY DEF EncTypes, EncType
    <3> QED
      BY <2>3, <3>1
  <2>8. VerifyInv'
    <3>1. enc'.manifest # Len(locked')
      BY <2>3, <2>7
    <3> QED
      BY <3>1 DEF VerifyInv
  <2>9. LockingInv'
    <3>1. Whole(tree, latest) => Whole(plain, latest)'
      BY DEF Whole, DataSet
    <3>2. Items(plain)' = Items(tree)
      BY DEF Items
    <3> QED
      BY <2>1, <2>2, <2>3, <2>7, <3>1, <3>2 DEF LockingInv
  <2> QED
    BY <2>2, <2>5, <2>6, <2>8, <2>9 DEF BuildInv, EncryptInv, AwayInv, RestInv
<1> QED
  BY <1>1, <1>2

LEMMA StartLockKeeps ==
  ASSUME LockInv, NEW away \in BOOLEAN, StartLock(away)
  PROVE  LockInv'
<1>1. /\ BeginLock(plain, away) /\ plain' = plain /\ UNCHANGED <<built, latest, dirs, stash, enc>>
      /\ Len(locked) < MaxLocks /\ run.op = "none"
  BY DEF StartLock, NoRun
<1>2. plain \in Trees /\ \A f \in Names : plain[f] # None => Base(f) \in dirs
  BY DEF LockInv, LockTypes
<1> QED
  BY <1>1, <1>2, BeginLockKeeps

LEMMA FinishBuildKeeps ==
  ASSUME LockInv, NEW made \in BOOLEAN, FinishBuild(made)
  PROVE  LockInv'
<1> DEFINE tree == IF made THEN [plain EXCEPT ![Packet] = Len(built)] ELSE plain
<1>1. /\ run.op = "build" /\ run.left = <<>> /\ plain' = tree
      /\ UNCHANGED <<built, latest, dirs, stash, enc>>
      /\ IF run.pw THEN BeginLock(tree, TRUE) ELSE run' = NoRun /\ UNCHANGED <<locked, risked>>
  BY DEF FinishBuild
<1>2. /\ dirs = Bases /\ (run.pw => Len(locked) < MaxLocks) /\ latest = Len(built) /\ Whole(plain, latest)
      /\ plain \in Trees /\ built \in Seq(SUBSET Range(Threads)) /\ Len(built) <= MaxBuilds
  BY <1>1 DEF LockInv, BuildInv, LockTypes
<1>3. Len(built) \in Contents /\ Len(built) \in Nat
  <2>1. Len(built) \in Nat
    BY <1>2
  <2> QED
    BY <1>2, <2>1, Constants
<1>4. tree \in Trees /\ \A f \in Names : tree[f] = plain[f] \/ tree[f] = latest
  <2>1. CASE made
    BY <1>2, <1>3, <2>1, FilesAre DEF Trees
  <2>2. CASE ~made
    BY <1>2, <2>2
  <2> QED
    BY <2>1, <2>2
<1> HIDE DEF tree
<1>5. DataSet(latest) \subseteq Names /\ latest > 0
  <2>1. latest > 0 /\ latest \in 1 .. Len(built)
    BY <1>2, <1>3 DEF Whole
  <2>2. built[latest] \in SUBSET Range(Threads)
    BY <1>2, <2>1
  <2> QED
    BY <2>1, <2>2, FilesAre DEF DataSet
<1>6. Whole(tree, latest)
  BY <1>2, <1>4, <1>5 DEF Whole
<1>7. \A f \in Names : tree[f] # None => Base(f) \in dirs
  BY <1>2, Constants
<1>8. CASE run.pw
  <2>1. tree[Index] # None /\ Index \in Names
    <3>1. tree[Index] = latest
      BY <1>6 DEF Whole, DataSet
    <3> QED
      BY <1>2, <1>3, <1>5, <3>1, FilesAre DEF None
  <2>2. Items(tree) # <<>>
    BY <1>4, <2>1, ItemsAre
  <2>3. BeginLock(tree, TRUE) /\ Len(locked) < MaxLocks
    BY <1>1, <1>2, <1>8
  <2> QED
    BY <1>1, <1>4, <1>7, <2>2, <2>3, BeginLockKeeps
<1>9. CASE ~run.pw
  <2>1. run' = NoRun /\ UNCHANGED <<locked, risked>>
    BY <1>1, <1>9
  <2>2. run'.op = "none" /\ run' \in Run
    BY <2>1 DEF NoRun, Run
  <2>3. LockTypes'
    BY <1>1, <1>4, <1>7, <2>1, <2>2 DEF LockInv, LockTypes
  <2>4. EncTypes' /\ VerifyInv'
    BY <1>1, <2>1, EncUntouched DEF LockInv
  <2>5. Whole(plain, latest)'
    BY <1>1, <1>6 DEF Whole, DataSet
  <2> QED
    BY <2>2, <2>3, <2>4, <2>5 DEF LockInv, BuildInv, LockingInv, EncryptInv, AwayInv, RestInv
<1> QED
  BY <1>8, <1>9

-------------------------------------------------------------------------------
(* A lock at work on the ciphertext.                                       *)
LEMMA LockSteps ==
  ASSUME LockTypes', EncTypes', LockingInv', EncryptInv', run'.op \in {"wipe", "encrypt"},
         enc'.manifest < Len(locked')
  PROVE  LockInv'
<1>1. VerifyInv'
  <2>1. enc'.manifest \in Nat /\ Len(locked') \in Nat
    BY DEF EncTypes, EncType, LockTypes
  <2>2. enc'.manifest # Len(locked')
    BY <2>1
  <2> QED
    BY <2>2 DEF VerifyInv
<1> QED
  BY <1>1 DEF LockInv, BuildInv, AwayInv, RestInv

LEMMA LockingFacts ==
  ASSUME LockInv, run.op \in {"wipe", "encrypt"}
  PROVE  /\ run.items = Items(plain) /\ run.items \in Seq(Names) /\ Len(run.items) \in Nat
         /\ Len(run.items) <= Len(Files) /\ DOMAIN run.items = 1 .. Len(run.items)
         /\ DOMAIN run.items \subseteq DOMAIN Files /\ Range(run.items) \subseteq Names
         /\ plain \in Trees /\ Len(locked) \in 1 .. MaxLocks /\ locked[Len(locked)] = plain
         /\ enc \in EncType /\ enc.manifest \in Nat /\ enc.manifest < Len(locked)
         /\ (~risked /\ latest > 0 => Whole(plain, latest))
<1> USE DEF LockInv
<1>1. /\ run.items = Items(plain) /\ plain \in Trees
      /\ Len(locked) > 0 /\ locked[Len(locked)] = plain /\ enc.manifest < Len(locked)
      /\ (~risked /\ latest > 0 => Whole(plain, latest))
  BY DEF LockingInv, LockTypes
<1>2. Len(locked) \in Nat /\ Len(locked) <= MaxLocks
  BY DEF LockTypes
<1>3. enc \in EncType /\ enc.manifest \in Nat
  BY DEF EncTypes, EncType
<1>4. /\ Items(plain) \in Seq(Names) /\ Len(Items(plain)) \in Nat /\ Len(Items(plain)) <= Len(Files)
      /\ DOMAIN Items(plain) = 1 .. Len(Items(plain)) /\ Range(Items(plain)) \subseteq Names
  BY <1>1, ItemsAre
<1>5. 1 .. Len(Items(plain)) \subseteq DOMAIN Files
  BY <1>4, FilesAre
<1>6. Len(locked) \in 1 .. MaxLocks
  BY <1>1, <1>2, Constants
<1> QED
  BY <1>1, <1>3, <1>4, <1>5, <1>6

LEMMA WipeKeeps ==
  ASSUME LockInv, Wipe
  PROVE  LockInv'
<1>1. /\ run.op = "wipe"
      /\ UNCHANGED <<raw, built, latest, plain, dirs, stash, locked, risked, run, kills>>
  BY DEF Wipe
<1>2. /\ enc \in EncType /\ enc.manifest \in Nat /\ enc.manifest < Len(locked) /\ Len(locked) \in Nat
  BY <1>1, LockingFacts
<1>3. enc.head \in Heads /\ enc.blobs \in [DOMAIN Files -> Blobs] /\ enc.manifest \in 0 .. MaxLocks
      /\ enc = [manifest |-> enc.manifest, head |-> enc.head, blobs |-> enc.blobs]
  BY <1>2 DEF EncType
<1>4. HeadTrue(enc.head) /\ \A i \in DOMAIN Files : BlobTrue(enc.blobs[i])
  BY DEF LockInv, EncTypes
<1>5. LockTypes'
  BY <1>1 DEF LockInv, LockTypes
<1>6. enc' \in EncType /\ enc'.manifest \in {0, enc.manifest} /\ enc'.head \in {NoHead, enc.head}
      /\ \A i \in DOMAIN Files : enc'.blobs[i] \in {NoBlob, enc.blobs[i]}
  <2>1. CASE enc' = [enc EXCEPT !.manifest = 0]
    <3>1. enc' = [manifest |-> 0, head |-> enc.head, blobs |-> enc.blobs] /\ 0 \in 0 .. MaxLocks
      BY <1>3, <2>1, Constants
    <3> QED
      BY <1>3, <3>1 DEF EncType
  <2>2. CASE enc' = [enc EXCEPT !.head = NoHead]
    <3>1. enc' = [manifest |-> enc.manifest, head |-> NoHead, blobs |-> enc.blobs] /\ NoHead \in Heads
      BY <1>3, <2>2, Constants
    <3> QED
      BY <1>3, <3>1 DEF EncType
  <2>3. ASSUME NEW i \in DOMAIN Files, enc' = [enc EXCEPT !.blobs[i] = NoBlob]
        PROVE  enc' \in EncType /\ enc'.manifest \in {0, enc.manifest} /\ enc'.head \in {NoHead, enc.head}
               /\ \A j \in DOMAIN Files : enc'.blobs[j] \in {NoBlob, enc.blobs[j]}
    <3> DEFINE b == [enc.blobs EXCEPT ![i] = NoBlob]
    <3>1. b \in [DOMAIN Files -> Blobs] /\ \A j \in DOMAIN Files : b[j] \in {NoBlob, enc.blobs[j]}
      BY <1>3, Constants
    <3>2. enc' = [manifest |-> enc.manifest, head |-> enc.head, blobs |-> b]
      BY <1>3, <2>3
    <3> HIDE DEF b
    <3> QED
      BY <1>3, <3>1, <3>2 DEF EncType
  <2> QED
    BY <2>1, <2>2, <2>3 DEF Wipe
<1>7. enc'.manifest < Len(locked') /\ enc'.manifest <= Len(locked')
  <2>1. enc'.manifest \in Nat /\ enc'.manifest < Len(locked)
    BY <1>2, <1>6, LockingFacts, <1>1
  <2> QED
    BY <1>1, <1>2, <2>1
<1>8. EncTypes'
  <2>1. HeadTrue(enc.head)'
    BY <1>1, <1>4, <1>6 DEF HeadTrue
  <2>2. ASSUME NEW i \in DOMAIN Files PROVE BlobTrue(enc.blobs[i])'
    <3>1. enc'.blobs[i] = NoBlob \/ enc'.blobs[i] = enc.blobs[i]
      BY <1>6
    <3> QED
      BY <1>1, <1>4, <3>1 DEF BlobTrue
  <2> QED
    BY <1>6, <1>7, <2>1, <2>2 DEF EncTypes
<1>9. LockingInv'
  BY <1>1, <1>7 DEF LockInv, LockingInv, Items, Whole, DataSet
<1>10. EncryptInv' /\ run'.op = "wipe"
  BY <1>1 DEF EncryptInv
<1> QED
  BY <1>5, <1>7, <1>8, <1>9, <1>10, LockSteps

LEMMA StartEncryptingKeeps ==
  ASSUME LockInv, StartEncrypting
  PROVE  LockInv'
<1>1. /\ run.op = "wipe" /\ UNCHANGED <<raw, built, latest, plain, dirs, stash, enc, locked, risked, kills>>
      /\ run' = [op |-> "encrypt", items |-> run.items, away |-> run.away, at |-> 1]
  BY DEF StartEncrypting
<1>2. run \in [op : {"wipe"}, items : Seq(Names), away : BOOLEAN] /\ Len(run.items) \in Nat
  BY <1>1, RunIs, LockingFacts DEF LockInv, LockTypes
<1>3. run' \in Run /\ run'.op = "encrypt" /\ run'.items = run.items /\ run'.at = 1
  BY <1>1, <1>2 DEF Run
<1>4. LockTypes'
  BY <1>1, <1>3 DEF LockInv, LockTypes
<1>5. EncTypes'
  BY <1>1, EncUntouched DEF LockInv
<1>6. LockingInv' /\ enc'.manifest < Len(locked')
  BY <1>1, <1>3 DEF LockInv, LockingInv, Items, Whole, DataSet
<1>7. EncryptInv'
  <2>1. DOMAIN run.items = 1 .. Len(run.items)
    BY <1>1, LockingFacts
  <2>2. \A i \in DOMAIN run.items : ~(i < 1)
    BY <1>2, <2>1
  <2> QED
    BY <1>2, <1>3, <2>2 DEF EncryptInv
<1> QED
  BY <1>3, <1>4, <1>5, <1>6, <1>7, LockSteps

LEMMA WriteBlobKeeps ==
  ASSUME LockInv, WriteBlob
  PROVE  LockInv'
<1> DEFINE items == run.items
           at == run.at
           f == items[at]
           s == Len(locked)
           new == [key |-> s, name |-> f, content |-> plain[f]]
           b == [enc.blobs EXCEPT ![at] = new]
<1>1. /\ run.op = "encrypt" /\ at <= Len(items)
      /\ UNCHANGED <<raw, built, latest, plain, dirs, stash, locked, risked, kills>>
      /\ enc' = [enc EXCEPT !.blobs[at] = new] /\ run' = [run EXCEPT !.at = @ + 1]
  BY DEF WriteBlob, Salt
<1>2. run \in [op : {"encrypt"}, items : Seq(Names), away : BOOLEAN, at : Nat \ {0}]
  BY <1>1, RunIs DEF LockInv, LockTypes
<1>3. /\ items \in Seq(Names) /\ Len(items) \in Nat /\ DOMAIN items = 1 .. Len(items)
      /\ DOMAIN items \subseteq DOMAIN Files /\ plain \in Trees /\ s \in 1 .. MaxLocks /\ locked[s] = plain
      /\ enc \in EncType /\ enc.manifest \in Nat /\ enc.manifest < s
  BY <1>1, LockingFacts
<1>4. at \in Nat \ {0} /\ at \in DOMAIN items /\ at \in DOMAIN Files /\ f \in Names
  <2>1. at \in Nat \ {0}
    BY <1>2
  <2>2. at \in DOMAIN items
    BY <1>1, <1>3, <2>1
  <2>3. f \in Names
    BY <1>3, <2>2
  <2> QED
    BY <1>3, <2>1, <2>2, <2>3
<1>5. enc.head \in Heads /\ enc.blobs \in [DOMAIN Files -> Blobs] /\ enc.manifest \in 0 .. MaxLocks
      /\ enc = [manifest |-> enc.manifest, head |-> enc.head, blobs |-> enc.blobs]
  BY <1>3 DEF EncType
<1>6. new \in Blobs /\ new.key = s /\ new.name = f /\ new.content = plain[f]
  <2>1. plain[f] \in Contents
    BY <1>3, <1>4 DEF Trees
  <2>2. s \in 0 .. MaxLocks
    BY <1>3, Constants
  <2> QED
    BY <1>4, <2>1, <2>2 DEF Blobs
<1>7. run' \in Run /\ run'.op = "encrypt" /\ run'.items = items /\ run'.at = at + 1
  <2>1. run' = [op |-> "encrypt", items |-> items, away |-> run.away, at |-> at + 1]
    BY <1>1, <1>2
  <2>2. at + 1 \in Nat \ {0}
    BY <1>4
  <2> QED
    BY <1>2, <2>1, <2>2 DEF Run
<1>8. enc' = [manifest |-> enc.manifest, head |-> enc.head, blobs |-> b]
  BY <1>1, <1>5
<1> HIDE DEF new
<1>9. b \in [DOMAIN Files -> Blobs] /\ \A i \in DOMAIN Files : b[i] = IF i = at THEN new ELSE enc.blobs[i]
  BY <1>4, <1>5, <1>6
<1> HIDE DEF b, items, at, f, s
<1>10. enc' \in EncType /\ enc'.manifest = enc.manifest /\ enc'.head = enc.head /\ enc'.blobs = b
  BY <1>5, <1>8, <1>9 DEF EncType
<1>11. Len(locked') = s /\ s \in Nat /\ locked' = locked /\ plain' = plain
  BY <1>1, <1>3 DEF s
<1>12. EncTypes'
  <2>1. HeadTrue(enc.head)'
    BY <1>10, <1>11 DEF LockInv, EncTypes, HeadTrue
  <2>2. ASSUME NEW i \in DOMAIN Files PROVE BlobTrue(enc.blobs[i])'
    <3>1. CASE i = at
      <4>1. enc'.blobs[i] = new
        BY <1>9, <1>10, <3>1
      <4>2. new.key \in 1 .. Len(locked') /\ new.name \in Names /\ new.content = locked'[new.key][new.name]
        BY <1>3, <1>4, <1>6, <1>11
      <4> QED
        BY <4>1, <4>2 DEF BlobTrue
    <3>2. CASE i # at
      <4>1. enc'.blobs[i] = enc.blobs[i]
        BY <1>9, <1>10, <3>2
      <4> QED
        BY <1>11, <4>1 DEF BlobTrue, LockInv, EncTypes
    <3> QED
      BY <3>1, <3>2
  <2>3. enc'.manifest <= Len(locked')
    BY <1>3, <1>10, <1>11
  <2> QED
    BY <1>10, <2>1, <2>2, <2>3 DEF EncTypes
<1>13. LockTypes'
  BY <1>1, <1>7 DEF LockInv, LockTypes
<1>14. enc'.manifest < Len(locked')
  BY <1>3, <1>10, <1>11
<1>15. LockingInv'
  BY <1>1, <1>7, <1>14 DEF LockInv, LockingInv, Items, Whole, DataSet, items
<1>16. EncryptInv'
  <2>1. ASSUME NEW i \in DOMAIN items, i < at + 1
        PROVE  b[i] = [key |-> s, name |-> items[i], content |-> plain[items[i]]]
    <3>0. i \in Nat /\ i \in DOMAIN Files
      BY <1>3
    <3>1. CASE i = at
      BY <1>9, <3>0, <3>1 DEF new, f
    <3>2. CASE i # at
      <4>1. i < at
        BY <1>4, <2>1, <3>0, <3>2
      <4>2. enc.blobs[i] = [key |-> s, name |-> items[i], content |-> plain[items[i]]]
        BY <1>1, <4>1 DEF LockInv, EncryptInv, items, at, s
      <4> QED
        BY <1>9, <3>0, <3>2, <4>2
    <3> QED
      BY <3>1, <3>2
  <2>2. at + 1 <= Len(items) + 2 /\ at + 1 # Len(items) + 2
    BY <1>1, <1>3, <1>4
  <2> QED
    BY <1>7, <1>10, <1>11, <2>1, <2>2 DEF EncryptInv
<1> QED
  BY <1>7, <1>12, <1>13, <1>14, <1>15, <1>16, LockSteps

LEMMA WriteHeadKeeps ==
  ASSUME LockInv, WriteHead
  PROVE  LockInv'
<1> DEFINE items == run.items
           at == run.at
           s == Len(locked)
           digest == [f \in Names |-> IF f \in Range(items) THEN plain[f] ELSE None]
           new == [key |-> s, items |-> items, digest |-> digest]
<1>1. /\ run.op = "encrypt" /\ at = Len(items) + 1
      /\ UNCHANGED <<raw, built, latest, plain, dirs, stash, locked, risked, kills>>
      /\ enc' = [enc EXCEPT !.head = new] /\ run' = [run EXCEPT !.at = @ + 1]
  BY DEF WriteHead, Salt
<1>2. run \in [op : {"encrypt"}, items : Seq(Names), away : BOOLEAN, at : Nat \ {0}]
  BY <1>1, RunIs DEF LockInv, LockTypes
<1>3. /\ items \in Seq(Names) /\ Len(items) \in Nat /\ DOMAIN items = 1 .. Len(items)
      /\ Len(items) <= Len(Files) /\ DOMAIN items \subseteq DOMAIN Files /\ plain \in Trees
      /\ s \in 1 .. MaxLocks /\ Range(items) \subseteq Names
      /\ enc \in EncType /\ enc.manifest \in Nat /\ enc.manifest < s
  BY <1>1, LockingFacts
<1>4. enc.head \in Heads /\ enc.blobs \in [DOMAIN Files -> Blobs] /\ enc.manifest \in 0 .. MaxLocks
      /\ enc = [manifest |-> enc.manifest, head |-> enc.head, blobs |-> enc.blobs]
  BY <1>3 DEF EncType
<1>5. digest \in Trees /\ \A f \in Range(items) : digest[f] = plain[f]
  BY <1>3, Constants DEF Trees
<1>6. run' \in Run /\ run'.op = "encrypt" /\ run'.items = items /\ run'.at = at + 1
  <2>1. run' = [op |-> "encrypt", items |-> items, away |-> run.away, at |-> at + 1]
    BY <1>1, <1>2
  <2>2. at + 1 \in Nat \ {0}
    BY <1>2
  <2> QED
    BY <1>2, <2>1, <2>2 DEF Run
<1> HIDE DEF digest
<1>7. new \in Heads /\ new.key = s /\ new.items = items /\ new.digest = digest
  <2>1. s \in 0 .. MaxLocks
    BY <1>3, Constants
  <2> QED
    BY <1>3, <1>5, <2>1 DEF Heads
<1>8. enc' = [manifest |-> enc.manifest, head |-> new, blobs |-> enc.blobs]
  BY <1>1, <1>4
<1> HIDE DEF new, items, at, s
<1>9. enc' \in EncType /\ enc'.manifest = enc.manifest /\ enc'.head = new /\ enc'.blobs = enc.blobs
  BY <1>4, <1>7, <1>8 DEF EncType
<1>10. Len(locked') = s /\ s \in Nat /\ locked' = locked /\ plain' = plain
  BY <1>1, <1>3 DEF s
<1>11. EncTypes'
  <2>1. HeadTrue(enc.head)'
    <3>1. new.key \in 1 .. Len(locked')
      BY <1>3, <1>7, <1>10
    <3> QED
      BY <1>3, <1>7, <1>9, <3>1 DEF HeadTrue
  <2>2. ASSUME NEW i \in DOMAIN Files PROVE BlobTrue(enc.blobs[i])'
    BY <1>9, <1>10 DEF BlobTrue, LockInv, EncTypes
  <2>3. enc'.manifest <= Len(locked')
    BY <1>3, <1>9, <1>10
  <2> QED
    BY <1>9, <2>1, <2>2, <2>3 DEF EncTypes
<1>12. LockTypes'
  BY <1>1, <1>6 DEF LockInv, LockTypes
<1>13. enc'.manifest < Len(locked')
  BY <1>3, <1>9, <1>10
<1>14. LockingInv'
  BY <1>1, <1>6, <1>13 DEF LockInv, LockingInv, Items, Whole, DataSet, items
<1>15. EncryptInv'
  <2>1. ASSUME NEW i \in DOMAIN items, i < at + 1
        PROVE  enc.blobs[i] = [key |-> s, name |-> items[i], content |-> plain[items[i]]]
    <3>1. i < at
      BY <1>1, <1>3 DEF items, at
    <3> QED
      BY <1>1, <3>1 DEF LockInv, EncryptInv, items, at, s
  <2>2. at + 1 <= Len(items) + 2
    BY <1>1, <1>3 DEF items, at
  <2> QED
    BY <1>5, <1>6, <1>7, <1>9, <1>10, <2>1, <2>2 DEF EncryptInv
<1> QED
  BY <1>6, <1>11, <1>12, <1>13, <1>14, <1>15, LockSteps

(* The manifest comes last: with it the ciphertext is whole and verifies.  *)
LEMMA WriteManifestKeeps ==
  ASSUME LockInv, WriteManifest
  PROVE  LockInv'
<1> DEFINE items == run.items
           s == Len(locked)
<1>1. /\ run.op = "encrypt" /\ run.at = Len(items) + 2
      /\ UNCHANGED <<raw, built, latest, plain, dirs, stash, locked, risked, kills>>
      /\ enc' = [enc EXCEPT !.manifest = s]
      /\ run' = IF run.away THEN [op |-> "stash", left |-> <<"data", "exports">>] ELSE NoRun
  BY DEF WriteManifest, Salt, AfterManifest
<1>2. run' \in Run /\ run'.op \in {"none", "stash"}
  <2>1. <<"data", "exports">> \in Seq(Bases)
    BY DEF Bases
  <2>2. CASE run.away
    BY <1>1, <2>1, <2>2 DEF Run
  <2>3. CASE ~run.away
    BY <1>1, <2>3 DEF Run, NoRun
  <2> QED
    BY <2>2, <2>3
<1>3. /\ items = Items(plain) /\ items \in Seq(Names) /\ Len(items) \in Nat /\ DOMAIN items = 1 .. Len(items)
      /\ DOMAIN items \subseteq DOMAIN Files /\ plain \in Trees
      /\ s \in 1 .. MaxLocks /\ Range(items) \subseteq Names /\ enc \in EncType
      /\ (~risked /\ latest > 0 => Whole(plain, latest))
  BY <1>1, LockingFacts
<1>4. enc.head \in Heads /\ enc.blobs \in [DOMAIN Files -> Blobs]
      /\ enc' = [manifest |-> s, head |-> enc.head, blobs |-> enc.blobs]
  BY <1>1, <1>3 DEF EncType
<1>5. /\ enc.head.key = s /\ enc.head.items = items
      /\ \A f \in Range(items) : enc.head.digest[f] = plain[f]
      /\ \A i \in DOMAIN items : enc.blobs[i] = [key |-> s, name |-> items[i], content |-> plain[items[i]]]
  <2>1. \A i \in DOMAIN items : i < run.at
    BY <1>1, <1>3
  <2> QED
    BY <1>1, <2>1 DEF LockInv, EncryptInv
<1> HIDE DEF items, s
<1>6. enc' \in EncType /\ enc'.manifest = s /\ enc'.head = enc.head /\ enc'.blobs = enc.blobs /\ s # 0 /\ s \in Nat
  <2>1. s \in 0 .. MaxLocks /\ s # 0 /\ s \in Nat
    BY <1>3, Constants
  <2> QED
    BY <1>4, <2>1 DEF EncType
<1>7. HeadOpens'
  BY <1>5, <1>6 DEF HeadOpens
<1>8. ASSUME NEW i \in DOMAIN items
      PROVE  Opens(i)' /\ enc'.blobs[i].content = plain[items[i]] /\ items[i] \in Range(items)
  <2>1. enc.blobs[i].key = s /\ enc.blobs[i].name = items[i] /\ enc.blobs[i].content = plain[items[i]]
    <3>1. enc.blobs[i] = [key |-> s, name |-> items[i], content |-> plain[items[i]]]
      BY <1>5
    <3> QED
      BY <3>1
  <2>2. items[i] \in Range(items)
    BY DEF Range
  <2> QED
    BY <1>5, <1>6, <2>1, <2>2 DEF Opens
<1>9. VerifyInv'
  <2>1. enc'.head.items = items /\ \A f \in Range(items) : enc'.head.digest[f] = plain[f]
    BY <1>5, <1>6
  <2>2. Verifies'
    BY <1>7, <1>8, <2>1 DEF Verifies
  <2> QED
    BY <2>2 DEF VerifyInv
<1>10. ASSUME ~risked', latest' > 0 PROVE EncWhole(latest)'
  <2>1. Whole(plain, latest) /\ latest' = latest /\ built' = built
    BY <1>1, <1>3, <1>10
  <2>2. latest \in 1 .. Len(built) /\ built \in Seq(SUBSET Range(Threads))
    <3>1. latest \in 0 .. Len(built) /\ latest > 0 /\ built \in Seq(SUBSET Range(Threads))
      BY <1>10, <2>1 DEF LockInv, LockTypes
    <3> QED
      BY <3>1
  <2>3. DataSet(latest) \subseteq Names
    BY <2>2, FilesAre DEF DataSet
  <2>4. ASSUME NEW f \in DataSet(latest)
        PROVE  \E i \in DOMAIN items : items[i] = f /\ Opens(i)' /\ enc'.blobs[i].content = latest
    <3>1. plain[f] = latest /\ f \in Names
      BY <2>1, <2>3 DEF Whole
    <3>2. plain[f] # None
      BY <2>2, <3>1 DEF None
    <3>3. PICK i \in DOMAIN items : items[i] = f
      BY <1>3, <3>1, <3>2, ItemsAre
    <3> QED
      BY <1>8, <3>1, <3>3
  <2>5. enc'.head.items = items
    BY <1>5, <1>6
  <2> QED
    BY <1>7, <1>10, <2>1, <2>4, <2>5 DEF EncWhole, DataSet
<1>11. EncTypes'
  <2>1. HeadTrue(enc.head)'
    BY <1>1, <1>6 DEF LockInv, EncTypes, HeadTrue
  <2>2. ASSUME NEW i \in DOMAIN Files PROVE BlobTrue(enc.blobs[i])'
    BY <1>1, <1>6 DEF BlobTrue, LockInv, EncTypes
  <2>3. enc'.manifest <= Len(locked')
    BY <1>1, <1>6 DEF s
  <2> QED
    BY <1>6, <2>1, <2>2, <2>3 DEF EncTypes
<1>12. LockTypes'
  BY <1>1, <1>2 DEF LockInv, LockTypes
<1> QED
  BY <1>2, <1>9, <1>10, <1>11, <1>12, AwaySteps

-------------------------------------------------------------------------------
(* The stash, the unlock, and a run that is killed.                        *)
LEMMA StashKeeps ==
  ASSUME LockInv, Stash
  PROVE  LockInv'
<1> DEFINE b == Head(run.left)
           next == IF Tail(run.left) = <<>> THEN NoRun ELSE [run EXCEPT !.left = Tail(@)]
           to == [f \in Names |-> IF Base(f) = b THEN plain[f] ELSE stash[f]]
           from == [f \in Names |-> IF Base(f) = b THEN None ELSE plain[f]]
<1>1. run \in [op : {"stash"}, left : Seq(Bases)] /\ run.left # <<>> /\ run.op = "stash"
  BY RunIs DEF Stash, LockInv, LockTypes
<1>2. UNCHANGED <<raw, built, latest, enc, locked, risked, kills>>
  BY DEF Stash
<1>3. next \in Run /\ next.op \in {"none", "stash"}
  <2>1. Tail(run.left) \in Seq(Bases)
    BY <1>1, HeadTailProperties
  <2>2. [run EXCEPT !.left = Tail(@)] = [op |-> "stash", left |-> Tail(run.left)]
    BY <1>1
  <2> QED
    BY <2>1, <2>2 DEF Run, NoRun
<1> HIDE DEF next
<1>4. /\ plain \in Trees /\ stash \in Trees /\ dirs \subseteq Bases /\ run \in Run
      /\ \A f \in Names : plain[f] # None => Base(f) \in dirs
  BY DEF LockInv, LockTypes
<1>5. to \in Trees /\ from \in Trees /\ \A f \in Names : from[f] = IF Base(f) = b THEN None ELSE plain[f]
  BY <1>4, Constants DEF Trees
<1> HIDE DEF to, from
<1>6. /\ plain' \in Trees /\ stash' \in Trees /\ dirs' \subseteq Bases /\ run' \in Run
      /\ run'.op \in {"none", "stash"}
      /\ \A f \in Names : plain'[f] # None => Base(f) \in dirs'
  <2>1. CASE run' = next /\ UNCHANGED <<plain, dirs, stash>>
    BY <1>3, <1>4, <2>1
  <2>2. CASE (\E f \in Stashed(b) : stash' = [stash EXCEPT ![f] = None]) /\ UNCHANGED <<plain, dirs, run>>
    <3>1. stash' \in Trees
      BY <1>4, <2>2, Constants DEF Trees
    <3> QED
      BY <1>1, <1>4, <2>2, <3>1
  <2>3. CASE stash' = to /\ plain' = from /\ dirs' = dirs \ {b} /\ run' = next
    <3>1. \A f \in Names : plain'[f] # None => Base(f) # b /\ plain[f] # None
      BY <1>5, <2>3
    <3> QED
      BY <1>3, <1>4, <1>5, <2>3, <3>1
  <2> QED
    BY <2>1, <2>2, <2>3 DEF Stash, next, to, from
<1>7. LockTypes'
  BY <1>2, <1>6 DEF LockInv, LockTypes
<1>8. EncTypes' /\ VerifyInv'
  BY <1>2, EncUntouched DEF LockInv
<1>9. ~risked' /\ latest' > 0 => EncWhole(latest)'
  BY <1>1, <1>2, EncWholeUntouched DEF LockInv, AwayInv
<1> QED
  BY <1>6, <1>7, <1>8, <1>9, AwaySteps

LEMMA StartUnlockKeeps ==
  ASSUME LockInv, StartUnlock
  PROVE  LockInv'
<1>1. UNCHANGED <<raw, built, latest, plain, dirs, stash, enc, locked, kills>>
      /\ run' = [op |-> "unlock", at |-> 1] /\ (~risked' => EncWhole(latest))
  BY DEF StartUnlock
<1>2. run' \in Run /\ run'.op = "unlock"
  BY <1>1 DEF Run
<1>3. LockTypes'
  BY <1>1, <1>2 DEF LockInv, LockTypes
<1>4. EncTypes' /\ VerifyInv'
  BY <1>1, EncUntouched DEF LockInv
<1>5. ~risked' => EncWhole(latest)'
  BY <1>1, EncWholeUntouched
<1> QED
  BY <1>2, <1>3, <1>4, <1>5, AwaySteps

LEMMA WritePlainKeeps ==
  ASSUME LockInv, WritePlain
  PROVE  LockInv'
<1> DEFINE at == run.at
           f == enc.head.items[at]
           v == enc.blobs[at].content
<1>1. run \in [op : {"unlock"}, at : Nat \ {0}] /\ run.op = "unlock" /\ at \in DOMAIN enc.head.items
  BY RunIs DEF WritePlain, LockInv, LockTypes
<1>2. UNCHANGED <<raw, built, latest, stash, enc, locked, risked, kills>>
  BY DEF WritePlain
<1>3. enc.head \in Heads /\ enc.blobs \in [DOMAIN Files -> Blobs] /\ HeadTrue(enc.head)
  BY DEF LockInv, EncTypes, EncType
<1>4. f \in Names /\ v \in Contents
  <2>1. enc.head.items \in Seq(Names) /\ at \in 1 .. Len(enc.head.items)
    BY <1>1, <1>3 DEF Heads
  <2>2. Len(enc.head.items) <= Len(Files) /\ Len(enc.head.items) \in Nat
    BY <1>3, <2>1, FilesAre DEF HeadTrue, NoHead
  <2>3. at \in DOMAIN Files
    BY <2>1, <2>2, FilesAre
  <2>4. enc.blobs[at] \in Blobs
    BY <1>3, <2>3
  <2>5. v \in Contents
    BY <2>4 DEF Blobs
  <2>6. f \in Names
    BY <2>1
  <2> QED
    BY <2>5, <2>6
<1>5. /\ plain \in Trees /\ dirs \subseteq Bases /\ \A g \in Names : plain[g] # None => Base(g) \in dirs
  BY DEF LockInv, LockTypes
<1>6. run' \in Run /\ run'.op \in {"none", "unlock"}
  <2>1. [run EXCEPT !.at = @ + 1] = [op |-> "unlock", at |-> at + 1] /\ at + 1 \in Nat \ {0}
    BY <1>1
  <2>2. run' = NoRun \/ run' = [run EXCEPT !.at = @ + 1]
    BY DEF WritePlain
  <2> QED
    BY <2>1, <2>2 DEF Run, NoRun
<1> HIDE DEF at, f, v
<1>7. /\ plain' \in Trees /\ dirs' \subseteq Bases
      /\ \A g \in Names : plain'[g] # None => Base(g) \in dirs'
  <2>1. CASE plain' = [plain EXCEPT ![f] = v] /\ dirs' = dirs \cup {Base(f)}
    <3>1. plain' \in Trees /\ \A g \in Names : plain'[g] = IF g = f THEN v ELSE plain[g]
      BY <1>4, <1>5, <2>1 DEF Trees
    <3>2. \A g \in Names : plain'[g] # None => g = f \/ plain[g] # None
      BY <3>1
    <3> QED
      BY <1>4, <1>5, <2>1, <3>1, <3>2, Constants
  <2>2. CASE UNCHANGED <<plain, dirs>>
    BY <1>5, <2>2
  <2> QED
    BY <2>1, <2>2 DEF WritePlain, at, f, v
<1>8. LockTypes'
  BY <1>2, <1>6, <1>7 DEF LockInv, LockTypes
<1>9. EncTypes' /\ VerifyInv'
  BY <1>2, EncUntouched DEF LockInv
<1>10. ~risked' /\ latest' > 0 => EncWhole(latest)'
  BY <1>1, <1>2, EncWholeUntouched DEF LockInv, AwayInv
<1> QED
  BY <1>6, <1>8, <1>9, <1>10, AwaySteps

(* Only a build and an unlock have a plaintext file open; the build has not *)
(* finished then, and the ciphertext an unlock reads is whole.             *)
LEMMA KillKeeps ==
  ASSUME LockInv, Kill
  PROVE  LockInv'
<1>1. PICK torn \in SUBSET Writing :
        /\ plain' = [f \in Names |-> IF f \in torn THEN Torn ELSE plain[f]]
        /\ dirs' = dirs \cup {Base(f) : f \in torn}
  BY DEF Kill
<1>2. UNCHANGED <<raw, built, latest, stash, enc, locked, risked>> /\ run' = NoRun /\ run # NoRun
  BY DEF Kill
<1>3. run'.op = "none" /\ run' \in Run
  BY <1>2 DEF NoRun, Run
<1>4. /\ plain \in Trees /\ dirs \subseteq Bases /\ \A f \in Names : plain[f] # None => Base(f) \in dirs
      /\ run \in Run
  BY DEF LockInv, LockTypes
<1>5. run.op \in {"build", "wipe", "encrypt", "stash", "unlock"}
  BY <1>2, <1>4, RunIs
<1>6. /\ plain' \in Trees /\ dirs' \subseteq Bases
      /\ \A f \in Names : plain'[f] # None => Base(f) \in dirs'
  <2>1. plain' \in Trees
    BY <1>1, <1>4, Constants DEF Trees
  <2>2. dirs' \subseteq Bases
    BY <1>1, <1>4 DEF Base, Bases
  <2>3. \A f \in Names : plain'[f] # None => f \in torn \/ plain[f] # None
    BY <1>1
  <2> QED
    BY <1>1, <1>4, <2>1, <2>2, <2>3
<1>7. LockTypes'
  BY <1>2, <1>3, <1>6 DEF LockInv, LockTypes
<1>8. EncTypes' /\ VerifyInv'
  BY <1>2, EncUntouched DEF LockInv
<1>9. RestInv'
  <2> SUFFICES ASSUME ~risked, latest > 0
               PROVE  Whole(plain, latest)' \/ Whole(stash, latest)' \/ EncWhole(latest)'
    BY <1>2 DEF RestInv
  <2>1. CASE run.op \in {"stash", "unlock"}
    BY <1>2, <2>1, EncWholeUntouched DEF LockInv, AwayInv
  <2>2. CASE run.op = "build" /\ run.left # <<>>
    <3>1. Whole(stash, latest) \/ EncWhole(latest)
      BY <2>2 DEF LockInv, BuildInv, Elsewhere
    <3> QED
      BY <1>2, <3>1, EncWholeUntouched, WholeUntouched
  <2>3. CASE run.op \in {"build", "wipe", "encrypt"} /\ ~(run.op = "build" /\ run.left # <<>>)
    <3>1. Whole(plain, latest)
      <4>1. CASE run.op = "build"
        BY <2>3, <4>1 DEF LockInv, BuildInv
      <4>2. CASE run.op \in {"wipe", "encrypt"}
        BY <4>2, LockingFacts
      <4> QED
        BY <2>3, <4>1, <4>2
    <3>2. Writing = {}
      BY <2>3 DEF Writing
    <3>3. torn = {}
      BY <3>2
    <3>4. plain' = [f \in Names |-> plain[f]]
      BY <1>1, <3>3
    <3>5. plain' = plain
      BY <1>4, <3>4 DEF Trees
    <3> QED
      BY <1>2, <3>1, <3>5, WholeUntouched
  <2> QED
    BY <1>5, <2>1, <2>2, <2>3
<1> QED
  BY <1>3, <1>7, <1>8, <1>9 DEF LockInv, BuildInv, LockingInv, EncryptInv, AwayInv

LEMMA ToolKeeps ==
  ASSUME LockInv, Tool
  PROVE  LockInv'
<1>1. ASSUME NEW S \in SUBSET Range(Threads) \ {{}}, NEW pw \in BOOLEAN, StartBuild(S, pw) PROVE LockInv'
  <2>1. S \in SUBSET Range(Threads)
    OBVIOUS
  <2> QED
    BY <1>1, <2>1, StartBuildKeeps
<1> QED
  BY <1>1, BuildNothingKeeps, WriteFileKeeps, WriteInventoryKeeps, FinishBuildKeeps,
     StartLockKeeps, WipeKeeps, StartEncryptingKeeps, WriteBlobKeeps, WriteHeadKeeps,
     WriteManifestKeeps, StashKeeps, StartUnlockKeeps, WritePlainKeeps, KillKeeps DEF Tool

(* A tool forgets no lock.                                                 *)
LEMMA ToolGrows ==
  ASSUME LockInv, Tool
  PROVE  Grown
<1>0. locked \in Seq(Trees) /\ plain \in Trees /\ Len(built) \in Nat /\ Len(built) <= MaxBuilds
  BY DEF LockInv, LockTypes
<1>1. CASE locked' = locked
  BY <1>0, <1>1 DEF Grown
<1>2. ASSUME NEW tree \in Trees, locked' = Append(locked, tree) PROVE Grown
  BY <1>0, <1>2 DEF Grown
<1>3. ASSUME NEW made \in BOOLEAN, FinishBuild(made) PROVE Grown
  <2> DEFINE tree == IF made THEN [plain EXCEPT ![Packet] = Len(built)] ELSE plain
  <2>1. tree \in Trees
    <3>1. Len(built) \in Contents
      BY <1>0, Constants
    <3> QED
      BY <1>0, <3>1, FilesAre DEF Trees
  <2>2. locked' = locked \/ locked' = Append(locked, tree)
    BY <1>3 DEF FinishBuild, BeginLock
  <2> HIDE DEF tree
  <2> QED
    BY <1>1, <1>2, <2>1, <2>2
<1>4. ASSUME NEW away \in BOOLEAN, StartLock(away) PROVE Grown
  <2>1. locked' = locked \/ locked' = Append(locked, plain)
    BY <1>4 DEF StartLock, BeginLock
  <2> QED
    BY <1>0, <1>1, <1>2, <2>1
<1>5. CASE BuildNothing \/ \E S \in SUBSET Range(Threads) \ {{}}, pw \in BOOLEAN : StartBuild(S, pw)
  BY <1>1, <1>5 DEF BuildNothing, StartBuild
<1>6. CASE WriteFile \/ WriteInventory \/ Wipe \/ StartEncrypting \/ WriteBlob \/ WriteHead
  BY <1>1, <1>6 DEF WriteFile, WriteInventory, Wipe, StartEncrypting, WriteBlob, WriteHead
<1>7. CASE WriteManifest \/ Stash \/ StartUnlock \/ WritePlain \/ Kill
  BY <1>1, <1>7 DEF WriteManifest, Stash, StartUnlock, WritePlain, Kill
<1> QED
  BY <1>3, <1>4, <1>5, <1>6, <1>7 DEF Tool

-------------------------------------------------------------------------------
(* The page.                                                               *)
LEMMA PageIs ==
  ASSUME LockInv, ViewerInv
  PROVE  /\ locked \in Seq(Trees) /\ Len(locked) \in Nat /\ Len(locked) <= MaxLocks
         /\ page.flow \in Flows /\ page.manifest \in 0 .. MaxLocks /\ page.manifest \in 0 .. Len(locked)
         /\ page.key \in {0, page.manifest}
         /\ page.toc \in Heads /\ HeadTrue(page.toc) /\ page.booted \in BOOLEAN /\ page.wrong \in BOOLEAN
         /\ page = [flow |-> page.flow, manifest |-> page.manifest, key |-> page.key, toc |-> page.toc,
                    booted |-> page.booted, wrong |-> page.wrong]
<1>1. locked \in Seq(Trees) /\ Len(locked) \in Nat /\ Len(locked) <= MaxLocks
  BY DEF LockInv, LockTypes
<1>2. page \in PageType /\ page.manifest <= Len(locked) /\ page.key \in {0, page.manifest} /\ HeadTrue(page.toc)
  BY DEF ViewerInv, PageTypes
<1>3. /\ page.flow \in Flows /\ page.manifest \in 0 .. MaxLocks /\ page.toc \in Heads
      /\ page.booted \in BOOLEAN /\ page.wrong \in BOOLEAN
      /\ page = [flow |-> page.flow, manifest |-> page.manifest, key |-> page.key, toc |-> page.toc,
                 booted |-> page.booted, wrong |-> page.wrong]
  BY <1>2 DEF PageType
<1> QED
  BY <1>1, <1>2, <1>3, Constants

LEMMA ToolLeavesPage ==
  ASSUME LockInv, ViewerInv, Grown, UNCHANGED viewerVars
  PROVE  ViewerInv'
<1>1. /\ locked \in Seq(Trees) /\ Len(locked) \in Nat /\ page.manifest \in 0 .. Len(locked)
      /\ page.toc \in Heads /\ Len(locked') \in Nat /\ Len(locked) <= Len(locked')
      /\ \A k \in 1 .. Len(locked) : locked'[k] = locked[k]
  BY PageIs DEF Grown
<1>2. UNCHANGED <<page, cache, shown, session, http, reads, loads>>
  BY DEF viewerVars
<1>3. PageTypes'
  <2>1. /\ page \in PageType /\ page.key \in {0, page.manifest} /\ HeadTrue(page.toc)
        /\ cache \in Trees /\ shown \in Contents /\ http \in [head : Heads, blobs : [DOMAIN Files -> Blobs]]
        /\ HeadTrue(http.head) /\ \A i \in DOMAIN Files : BlobTrue(http.blobs[i])
    BY DEF ViewerInv, PageTypes
  <2>2. page.manifest <= Len(locked')
    BY <1>1
  <2>3. HeadTrue(page.toc)' /\ HeadTrue(http.head)'
    BY <1>1, <1>2, <2>1, TrueOfMore DEF HeadTrue
  <2>4. ASSUME NEW i \in DOMAIN Files PROVE BlobTrue(http.blobs[i])'
    <3>1. http.blobs[i] \in Blobs /\ BlobTrue(http.blobs[i])
      BY <2>1
    <3> QED
      BY <1>1, <1>2, <3>1, TrueOfMore DEF BlobTrue
  <2> QED
    BY <1>2, <2>1, <2>2, <2>3, <2>4 DEF PageTypes
<1>4. ReadsInv'
  <2>1. ASSUME NEW r \in reads, r.got # Pending
        PROVE  /\ r.got \in Blobs /\ r.got # NoBlob /\ BlobTrue(r.got)'
               /\ r.got.key = page.manifest /\ r.got.name = r.name
    <3>1. /\ r.got \in Blobs /\ r.got # NoBlob /\ BlobTrue(r.got)
          /\ r.got.key = page.manifest /\ r.got.name = r.name
      BY <2>1 DEF ViewerInv, ReadsInv
    <3> QED
      BY <1>1, <3>1, TrueOfMore DEF BlobTrue
  <2>2. reads \subseteq [name : Names, blob : DOMAIN Files, got : Blobs \cup {Pending}]
    BY DEF ViewerInv, ReadsInv
  <2> QED
    BY <1>2, <2>1, <2>2 DEF ReadsInv
<1>5. PageInv'
  <2>1. PageInv
    BY DEF ViewerInv
  <2>2. ASSUME page.manifest # 0 PROVE locked'[page.manifest] = locked[page.manifest]
    BY <1>1, <2>2
  <2>3. page.manifest = 0 => (\A f \in Names : cache[f] = None) /\ shown = None
    BY <2>1 DEF PageInv, NoFiles
  <2>4. OneDataset'
    <3>1. page.toc # NoHead => page.toc.key = page.manifest
      BY <2>1 DEF PageInv, OneDataset
    <3>2. ASSUME NEW f \in Names, cache[f] # None PROVE cache[f] = locked'[page.manifest][f]
      BY <2>1, <2>2, <2>3, <3>2 DEF PageInv, OneDataset
    <3>3. shown # None => shown = locked'[page.manifest][Index]
      BY <2>1, <2>2, <2>3 DEF PageInv, OneDataset
    <3>4. page.wrong => Len(locked') >= 2
      BY <1>1, <2>1 DEF PageInv, OneDataset
    <3> QED
      BY <1>2, <3>1, <3>2, <3>3, <3>4 DEF OneDataset
  <2> QED
    BY <1>2, <2>1, <2>4 DEF PageInv
<1> QED
  BY <1>3, <1>4, <1>5 DEF ViewerInv

(* The page acts on its own state; the disk stays as it is.                *)
LEMMA PageSteps ==
  ASSUME LockInv, ViewerInv, UNCHANGED lockVars,
         NEW fl \in Flows, NEW mf \in 0 .. Len(locked), NEW k \in {0, mf}, NEW tc \in Heads,
         NEW bo \in BOOLEAN, NEW wr \in BOOLEAN,
         page' = [flow |-> fl, manifest |-> mf, key |-> k, toc |-> tc, booted |-> bo, wrong |-> wr],
         HeadTrue(tc), fl # "closed" => mf # 0, fl \in {"restore", "unlock"} => k = mf,
         tc # NoHead => tc.key = mf, wr => Len(locked) >= 2,
         http' \in [head : Heads, blobs : [DOMAIN Files -> Blobs]],
         HeadTrue(http'.head), \A i \in DOMAIN Files : BlobTrue(http'.blobs[i]),
         ReadsInv',
         \/ cache' = NoFiles /\ shown' = None
         \/ /\ mf # 0 /\ mf = page.manifest /\ cache' \in Trees /\ shown' \in Contents
            /\ \A f \in Names : cache'[f] \in {None, cache[f], locked[mf][f]}
            /\ shown' \in {None, shown, locked[mf][Index]}
         \/ mf = page.manifest /\ UNCHANGED <<cache, shown>>
  PROVE  ViewerInv'
<1>0. Len(locked) \in Nat /\ Len(locked) <= MaxLocks /\ locked' = locked
  BY PageIs DEF lockVars
<1>1. /\ page'.flow = fl /\ page'.manifest = mf /\ page'.key = k /\ page'.toc = tc
      /\ page'.booted = bo /\ page'.wrong = wr
  OBVIOUS
<1>2. page' \in PageType
  <2>1. mf \in 0 .. MaxLocks /\ k \in 0 .. MaxLocks
    BY <1>0, Constants
  <2> QED
    BY <2>1 DEF PageType
<1>3. cache \in Trees /\ shown \in Contents
  BY DEF ViewerInv, PageTypes
<1>4. cache' \in Trees /\ shown' \in Contents
  BY <1>3, Constants
<1>5. PageTypes'
  <2>1. page'.manifest <= Len(locked') /\ page'.key \in {0, page'.manifest}
    BY <1>0, <1>1
  <2>2. HeadTrue(page.toc)' /\ HeadTrue(http.head)'
    BY <1>0, <1>1 DEF HeadTrue
  <2>3. \A i \in DOMAIN Files : BlobTrue(http.blobs[i])'
    BY <1>0 DEF BlobTrue
  <2> QED
    BY <1>2, <1>4, <2>1, <2>2, <2>3 DEF PageTypes
<1>6. \A f \in Names : cache[f] # None => cache[f] = locked[page.manifest][f]
  BY DEF ViewerInv, PageInv, OneDataset
<1>7. shown # None => shown = locked[page.manifest][Index]
  BY DEF ViewerInv, PageInv, OneDataset
<1>8. page.manifest = 0 => cache = NoFiles /\ shown = None
  BY DEF ViewerInv, PageInv
<1>9. \A f \in Names : cache'[f] # None => cache'[f] = locked[mf][f]
  <2>1. CASE cache' = NoFiles
    BY <2>1 DEF NoFiles
  <2>2. CASE mf = page.manifest
    BY <1>6, <2>2 DEF NoFiles
  <2> QED
    BY <2>1, <2>2
<1>10. shown' # None => shown' = locked[mf][Index]
  BY <1>7
<1>11. mf = 0 => cache' = NoFiles /\ shown' = None
  BY <1>8
<1>12. OneDataset'
  BY <1>0, <1>1, <1>9, <1>10 DEF OneDataset
<1>13. PageInv'
  BY <1>1, <1>11, <1>12 DEF PageInv
<1> QED
  BY <1>5, <1>13 DEF ViewerInv

LEMMA HttpIs ==
  ASSUME ViewerInv
  PROVE  /\ http \in [head : Heads, blobs : [DOMAIN Files -> Blobs]] /\ http.head \in Heads
         /\ http.blobs \in [DOMAIN Files -> Blobs] /\ http = [head |-> http.head, blobs |-> http.blobs]
         /\ HeadTrue(http.head) /\ \A i \in DOMAIN Files : BlobTrue(http.blobs[i])
BY DEF ViewerInv, PageTypes

LEMMA ReadsUntouched ==
  ASSUME ViewerInv, locked' = locked, page'.manifest = page.manifest, reads' = reads
  PROVE  ReadsInv'
<1>1. \A r \in reads : r.got # Pending =>
        /\ r.got \in Blobs /\ r.got # NoBlob /\ BlobTrue(r.got)'
        /\ r.got.key = page'.manifest /\ r.got.name = r.name
  BY DEF ViewerInv, ReadsInv, BlobTrue
<1> QED
  BY <1>1 DEF ViewerInv, ReadsInv

LEMMA LoadPageKeeps ==
  ASSUME LockInv, ViewerInv, UNCHANGED lockVars, NEW newTab \in BOOLEAN, LoadPage(newTab)
  PROVE  ViewerInv'
<1> DEFINE mf == enc.manifest
           fl == IF session' = mf THEN "restore" ELSE "prompt"
           k == IF session' = mf THEN session' ELSE 0
<1>1. mf # 0 /\ mf \in 0 .. Len(locked)
  BY PageIs DEF LoadPage, LockInv, EncTypes, EncType
<1>2. /\ page' = [Closed EXCEPT !.manifest = mf, !.flow = fl, !.key = k]
      /\ cache' = NoFiles /\ shown' = None /\ reads' = {} /\ http' = http
  BY DEF LoadPage
<1>3. fl \in {"restore", "prompt"} /\ fl \in Flows /\ k \in {0, mf} /\ (fl = "restore" => k = mf)
  BY DEF Flows
<1>4. page' = [flow |-> fl, manifest |-> mf, key |-> k, toc |-> NoHead, booted |-> FALSE, wrong |-> FALSE]
  BY <1>2 DEF Closed
<1>5. ReadsInv'
  BY <1>2 DEF ReadsInv
<1>6. HeadTrue(NoHead) /\ NoHead \in Heads
  BY Constants DEF HeadTrue
<1> HIDE DEF fl, k, mf
<1>7. fl # "closed" /\ (fl \in {"restore", "unlock"} => k = mf)
  BY <1>3
<1>8. /\ http' \in [head : Heads, blobs : [DOMAIN Files -> Blobs]]
      /\ HeadTrue(http'.head) /\ \A i \in DOMAIN Files : BlobTrue(http'.blobs[i])
  BY <1>2, HttpIs
<1> DEFINE tc == NoHead
<1>9. tc \in Heads /\ HeadTrue(tc) /\ (tc # NoHead => tc.key = mf)
      /\ page' = [flow |-> fl, manifest |-> mf, key |-> k, toc |-> tc, booted |-> FALSE, wrong |-> FALSE]
  BY <1>4, <1>6
<1> HIDE DEF tc
<1>10. cache' = NoFiles /\ shown' = None /\ mf # 0
  BY <1>1, <1>2
<1> QED
  BY <1>1, <1>3, <1>5, <1>7, <1>8, <1>9, <1>10, PageSteps

LEMMA SubmitKeeps ==
  ASSUME LockInv, ViewerInv, UNCHANGED lockVars, Submit
  PROVE  ViewerInv'
<1>1. /\ page.flow = "prompt" /\ page' = [page EXCEPT !.flow = "unlock", !.key = page.manifest, !.wrong = FALSE]
      /\ UNCHANGED <<cache, shown, session, http, reads, loads>>
  BY DEF Submit
<1>2. page' = [flow |-> "unlock", manifest |-> page.manifest, key |-> page.manifest, toc |-> page.toc,
               booted |-> page.booted, wrong |-> FALSE]
  BY <1>1, PageIs
<1>3. page.manifest # 0 /\ (page.toc # NoHead => page.toc.key = page.manifest)
  BY <1>1 DEF ViewerInv, PageInv, OneDataset
<1>4. ReadsInv'
  BY <1>1, <1>2, ReadsUntouched DEF lockVars
<1>5. "unlock" \in Flows
  BY DEF Flows
<1> QED
  BY <1>1, <1>2, <1>3, <1>4, <1>5, PageIs, HttpIs, PageSteps

(* A head of another lock than the manifest's is refused.                  *)
LEMMA LoadTocKeeps ==
  ASSUME LockInv, ViewerInv, UNCHANGED lockVars, NEW remember \in BOOLEAN, LoadToc(remember)
  PROVE  ViewerInv'
<1> DEFINE head == IF http.head # NoHead THEN http.head ELSE enc.head
           fl == IF shown = None THEN "load" ELSE "ready"
           wr == page.flow = "unlock" /\ head # NoHead
<1>1. /\ page.flow \in {"restore", "unlock"} /\ http' = [http EXCEPT !.head = head]
      /\ UNCHANGED <<cache, shown, reads, loads>>
  BY DEF LoadToc
<1>2. \/ head # NoHead /\ head.key = page.key /\ page' = [page EXCEPT !.flow = fl, !.toc = head]
      \/ ~(head # NoHead /\ head.key = page.key) /\ page' = [page EXCEPT !.flow = "prompt", !.wrong = wr]
  BY DEF LoadToc
<1>3. head \in Heads /\ HeadTrue(head)
  BY HttpIs DEF LockInv, EncTypes, EncType
<1>4. /\ page.manifest # 0 /\ page.key = page.manifest /\ page.manifest \in 1 .. Len(locked)
      /\ (page.toc # NoHead => page.toc.key = page.manifest)
      /\ (page.wrong => Len(locked) >= 2)
  <2>1. page.manifest # 0 /\ page.key = page.manifest
    BY <1>1 DEF ViewerInv, PageInv
  <2>2. page.manifest \in 1 .. Len(locked)
    BY <2>1, PageIs
  <2> QED
    BY <2>1, <2>2 DEF ViewerInv, PageInv, OneDataset
<1>5. fl \in Flows /\ fl \notin {"closed", "restore", "unlock"} /\ "prompt" \in Flows
  BY DEF Flows
<1>6. wr \in BOOLEAN
  OBVIOUS
<1> HIDE DEF head, fl
<1>7. http' = [head |-> head, blobs |-> http.blobs]
  BY <1>1, HttpIs
<1>8. /\ http' \in [head : Heads, blobs : [DOMAIN Files -> Blobs]]
      /\ HeadTrue(http'.head) /\ \A i \in DOMAIN Files : BlobTrue(http'.blobs[i])
  BY <1>3, <1>7, HttpIs
<1>9. CASE head # NoHead /\ head.key = page.key /\ page' = [page EXCEPT !.flow = fl, !.toc = head]
  <2>1. page' = [flow |-> fl, manifest |-> page.manifest, key |-> page.key, toc |-> head,
                 booted |-> page.booted, wrong |-> page.wrong]
    BY <1>9, PageIs
  <2>2. ReadsInv'
    BY <1>1, <2>1, ReadsUntouched DEF lockVars
  <2>3. head.key = page.manifest
    BY <1>4, <1>9
  <2> QED
    BY <1>1, <1>3, <1>4, <1>5, <1>8, <2>1, <2>2, <2>3, PageIs, PageSteps
<1>10. CASE ~(head # NoHead /\ head.key = page.key) /\ page' = [page EXCEPT !.flow = "prompt", !.wrong = wr]
  <2>1. page' = [flow |-> "prompt", manifest |-> page.manifest, key |-> page.key, toc |-> page.toc,
                 booted |-> page.booted, wrong |-> wr]
    BY <1>10, PageIs
  <2>2. ReadsInv'
    BY <1>1, <2>1, ReadsUntouched DEF lockVars
  <2>3. wr => Len(locked) >= 2
    <3> SUFFICES ASSUME wr PROVE Len(locked) >= 2
      OBVIOUS
    <3>1. head # NoHead /\ head.key # page.key
      BY <1>10
    <3>2. head.key \in 1 .. Len(locked) /\ page.key \in 1 .. Len(locked) /\ Len(locked) \in Nat
      BY <1>3, <1>4, <3>1, PageIs DEF HeadTrue
    <3> QED
      BY <3>1, <3>2
  <2> HIDE DEF wr
  <2> QED
    BY <1>1, <1>4, <1>5, <1>6, <1>8, <2>1, <2>2, <2>3, PageIs, PageSteps
<1> QED
  BY <1>2, <1>9, <1>10

LEMMA StartReadKeeps ==
  ASSUME LockInv, ViewerInv, UNCHANGED lockVars, NEW f \in Names, StartRead(f)
  PROVE  ViewerInv'
<1>1. reads' = reads \cup ReadOf(f) /\ UNCHANGED <<page, cache, shown, session, http, loads>>
  BY DEF StartRead
<1>2. DOMAIN page.toc.items \subseteq DOMAIN Files
  <2>1. page.toc \in Heads /\ HeadTrue(page.toc)
    BY PageIs
  <2>2. page.toc.items \in Seq(Names) /\ Len(page.toc.items) \in Nat
    BY <2>1 DEF Heads
  <2>3. Len(page.toc.items) <= Len(Files) /\ Len(Files) \in Nat /\ DOMAIN Files = 1 .. Len(Files)
    BY <2>1, FilesAre DEF HeadTrue, NoHead
  <2>4. DOMAIN page.toc.items = 1 .. Len(page.toc.items)
    BY <2>2
  <2> QED
    BY <2>2, <2>3, <2>4
<1>3. \A r \in ReadOf(f) : r \in [name : Names, blob : DOMAIN Files, got : Blobs \cup {Pending}]
                           /\ r.got = Pending
  BY <1>2 DEF ReadOf
<1>4. locked' = locked
  BY DEF lockVars
<1>5. ReadsInv'
  <2>1. \A r \in reads : r.got # Pending =>
          /\ r.got \in Blobs /\ r.got # NoBlob /\ BlobTrue(r.got)'
          /\ r.got.key = page'.manifest /\ r.got.name = r.name
    BY <1>1, <1>4 DEF ViewerInv, ReadsInv, BlobTrue
  <2>2. reads \subseteq [name : Names, blob : DOMAIN Files, got : Blobs \cup {Pending}]
    BY DEF ViewerInv, ReadsInv
  <2>3. \A r \in reads' : r \in reads \/ r \in ReadOf(f)
    BY <1>1
  <2>4. reads' \subseteq [name : Names, blob : DOMAIN Files, got : Blobs \cup {Pending}]
    BY <1>3, <2>2, <2>3
  <2>5. \A r \in reads' : r.got # Pending =>
          /\ r.got \in Blobs /\ r.got # NoBlob /\ BlobTrue(r.got)'
          /\ r.got.key = page'.manifest /\ r.got.name = r.name
    BY <1>3, <2>1, <2>3
  <2> QED
    BY <2>4, <2>5 DEF ReadsInv
<1>6. PageTypes'
  BY <1>1, <1>4 DEF ViewerInv, PageTypes, HeadTrue, BlobTrue
<1>7. PageInv'
  BY <1>1, <1>4 DEF ViewerInv, PageInv, OneDataset
<1> QED
  BY <1>5, <1>6, <1>7 DEF ViewerInv

(* What opens with the page's key is of the page's lock.                   *)
LEMMA FetchedKeeps ==
  ASSUME LockInv, ViewerInv, UNCHANGED lockVars, NEW r \in reads, Fetched(r)
  PROVE  ViewerInv'
<1> DEFINE i == r.blob
           stored == http.blobs[i]
           blob == IF stored # NoBlob THEN stored ELSE enc.blobs[i]
           ok == blob # NoBlob /\ blob.key = page.key /\ blob.name = r.name
           got == [r EXCEPT !.got = blob]
           rest == reads \ {r}
           bs == [http.blobs EXCEPT ![i] = blob]
           RT == [name : Names, blob : DOMAIN Files, got : Blobs \cup {Pending}]
<1>1. /\ http' = [http EXCEPT !.blobs[i] = blob]
      /\ reads' = rest \cup (IF ok THEN {got} ELSE {})
      /\ page' = IF ok THEN page ELSE Failed(r.name)
      /\ UNCHANGED <<cache, shown, session, loads>>
  BY DEF Fetched
<1>2. r \in RT /\ reads \subseteq RT
  BY DEF ViewerInv, ReadsInv
<1>3. i \in DOMAIN Files /\ r.name \in Names
  BY <1>2
<1>4. blob \in Blobs /\ BlobTrue(blob)
  BY <1>3, HttpIs DEF LockInv, EncTypes, EncType
<1>5. locked' = locked
  BY DEF lockVars
<1>6. ok => /\ got \in RT /\ got.got = blob /\ got.name = r.name
            /\ blob # NoBlob /\ BlobTrue(blob) /\ blob.name = r.name /\ blob.key = page.manifest
  <2> SUFFICES ASSUME ok PROVE /\ got \in RT /\ got.got = blob /\ got.name = r.name
                               /\ blob # NoBlob /\ BlobTrue(blob) /\ blob.name = r.name /\ blob.key = page.manifest
    OBVIOUS
  <2>1. got = [name |-> r.name, blob |-> r.blob, got |-> blob]
    BY <1>2
  <2>2. got \in RT /\ got.got = blob /\ got.name = r.name
    BY <1>2, <1>4, <2>1
  <2>3. blob # NoBlob /\ blob.key = page.key /\ blob.name = r.name
    OBVIOUS
  <2> HIDE DEF blob, ok, got
  <2>4. blob.key # 0
    BY <1>4, <2>3, PageIs DEF BlobTrue
  <2>5. blob.key = page.manifest
    BY <2>3, <2>4, PageIs
  <2> QED
    BY <1>4, <2>2, <2>3, <2>5
<1>7. http' = [head |-> http.head, blobs |-> bs]
  BY <1>1, HttpIs
<1> HIDE DEF blob, stored, ok, got
<1>8. bs \in [DOMAIN Files -> Blobs] /\ \A j \in DOMAIN Files : bs[j] = IF j = i THEN blob ELSE http.blobs[j]
  BY <1>3, <1>4, HttpIs
<1> HIDE DEF bs, i
<1>9. /\ http' \in [head : Heads, blobs : [DOMAIN Files -> Blobs]]
      /\ HeadTrue(http'.head) /\ \A j \in DOMAIN Files : BlobTrue(http'.blobs[j])
  <2>1. http'.head = http.head /\ http'.blobs = bs
    BY <1>7
  <2>2. \A j \in DOMAIN Files : BlobTrue(bs[j])
    BY <1>4, <1>8, HttpIs
  <2>3. http' \in [head : Heads, blobs : [DOMAIN Files -> Blobs]]
    BY <1>7, <1>8, HttpIs
  <2> QED
    BY <2>1, <2>2, <2>3, HttpIs
<1>10. PICK fl \in {page.flow, "ready", "dead"} :
         page' = [flow |-> fl, manifest |-> page.manifest, key |-> page.key, toc |-> page.toc,
                  booted |-> page.booted, wrong |-> page.wrong]
               /\ (fl # page.flow => page.flow = "load")
  <2>1. CASE page' = page
    BY <2>1, PageIs
  <2>2. CASE page.flow = "load" /\ page' = [page EXCEPT !.flow = IF page.booted THEN "ready" ELSE "dead"]
    <3> DEFINE fl == IF page.booted THEN "ready" ELSE "dead"
    <3>1. fl \in {page.flow, "ready", "dead"}
      OBVIOUS
    <3>2. page' = [flow |-> fl, manifest |-> page.manifest, key |-> page.key, toc |-> page.toc,
                   booted |-> page.booted, wrong |-> page.wrong]
      BY <2>2, PageIs
    <3> HIDE DEF fl
    <3> QED
      BY <2>2, <3>1, <3>2
  <2> QED
    BY <1>1, <2>1, <2>2 DEF Failed
<1>11. page'.manifest = page.manifest
  BY <1>10
<1>12. ReadsInv'
  <2>1. \A q \in reads : q.got # Pending =>
          /\ q.got \in Blobs /\ q.got # NoBlob /\ BlobTrue(q.got)'
          /\ q.got.key = page'.manifest /\ q.got.name = q.name
    BY <1>5, <1>11 DEF ViewerInv, ReadsInv, BlobTrue
  <2>2. ASSUME NEW q \in reads', q.got # Pending
        PROVE  /\ q.got \in Blobs /\ q.got # NoBlob /\ BlobTrue(q.got)'
               /\ q.got.key = page'.manifest /\ q.got.name = q.name
    <3>1. CASE q \in reads
      BY <2>1, <2>2, <3>1
    <3>2. CASE ok /\ q = got
      <4>1. q.got = blob /\ q.name = r.name /\ blob \in Blobs /\ blob # NoBlob /\ blob.name = r.name
            /\ blob.key = page.manifest /\ BlobTrue(blob)
        BY <1>4, <1>6, <3>2
      <4>2. BlobTrue(q.got)'
        BY <1>5, <4>1 DEF BlobTrue
      <4> QED
        BY <1>11, <4>1, <4>2
    <3> QED
      BY <1>1, <3>1, <3>2
  <2>3. reads' \subseteq RT
    BY <1>1, <1>2, <1>6
  <2> QED
    BY <2>2, <2>3 DEF ReadsInv
<1>13. /\ page.flow # "closed" => page.manifest # 0
       /\ page.flow \in {"restore", "unlock"} => page.key = page.manifest
       /\ page.toc # NoHead => page.toc.key = page.manifest
       /\ page.wrong => Len(locked) >= 2
  BY DEF ViewerInv, PageInv, OneDataset
<1>14. /\ fl \in Flows /\ (fl # "closed" => page.manifest # 0)
       /\ (fl \in {"restore", "unlock"} => page.key = page.manifest)
  BY <1>10, <1>13, PageIs DEF Flows
<1>15. UNCHANGED <<cache, shown>>
  BY <1>1
<1> QED
  BY <1>9, <1>10, <1>12, <1>13, <1>14, <1>15, PageIs, PageSteps

LEMMA DecryptedKeeps ==
  ASSUME LockInv, ViewerInv, UNCHANGED lockVars, NEW r \in reads, Decrypted(r)
  PROVE  ViewerInv'
<1> DEFINE f == r.name
           v == r.got.content
           fl == IF f = Index /\ page.flow = "load" THEN "ready" ELSE page.flow
           bo == IF f = Index /\ page.flow = "load" THEN TRUE ELSE page.booted
<1>1. /\ r.got # Pending /\ cache' = [cache EXCEPT ![f] = v] /\ shown' = (IF f = Index THEN v ELSE shown)
      /\ page' = IF f = Index /\ page.flow = "load"
                 THEN [page EXCEPT !.flow = "ready", !.booted = TRUE] ELSE page
      /\ reads' = reads \ {r} /\ UNCHANGED <<session, http, loads>>
  BY DEF Decrypted, Use
<1>2. /\ r \in [name : Names, blob : DOMAIN Files, got : Blobs \cup {Pending}]
      /\ r.got \in Blobs /\ r.got # NoBlob /\ BlobTrue(r.got)
      /\ r.got.key = page.manifest /\ r.got.name = r.name
  BY <1>1 DEF ViewerInv, ReadsInv
<1>3. f \in Names /\ v \in Contents /\ page.manifest # 0 /\ v = locked[page.manifest][f]
  <2>1. page.manifest \in 1 .. Len(locked) /\ v = locked[page.manifest][f]
    BY <1>2 DEF BlobTrue
  <2>2. v \in Contents
    BY <1>2 DEF Blobs
  <2> QED
    BY <1>2, <2>1, <2>2
<1>4. page' = [flow |-> fl, manifest |-> page.manifest, key |-> page.key, toc |-> page.toc,
               booted |-> bo, wrong |-> page.wrong]
  BY <1>1, PageIs
<1>5. bo \in BOOLEAN /\ fl \in Flows /\ (fl = page.flow \/ fl = "ready")
  BY PageIs DEF Flows
<1>6. cache \in Trees /\ shown \in Contents
  BY DEF ViewerInv, PageTypes
<1> HIDE DEF v, f, fl, bo
<1>7. cache' \in Trees /\ \A g \in Names : cache'[g] = IF g = f THEN v ELSE cache[g]
  BY <1>1, <1>3, <1>6 DEF Trees
<1>8. /\ \A g \in Names : cache'[g] \in {None, cache[g], locked[page.manifest][g]}
      /\ shown' \in {None, shown, locked[page.manifest][Index]} /\ shown' \in Contents
  BY <1>1, <1>3, <1>6, <1>7
<1>9. page'.manifest = page.manifest /\ locked' = locked
  BY <1>4 DEF lockVars
<1>10. ReadsInv'
  <2>1. \A q \in reads : q.got # Pending =>
          /\ q.got \in Blobs /\ q.got # NoBlob /\ BlobTrue(q.got)'
          /\ q.got.key = page'.manifest /\ q.got.name = q.name
    BY <1>9 DEF ViewerInv, ReadsInv, BlobTrue
  <2>2. reads' \subseteq reads
    BY <1>1
  <2> QED
    BY <2>1, <2>2 DEF ViewerInv, ReadsInv
<1>11. /\ page.flow # "closed" => page.manifest # 0
       /\ page.flow \in {"restore", "unlock"} => page.key = page.manifest
       /\ page.toc # NoHead => page.toc.key = page.manifest
       /\ page.wrong => Len(locked) >= 2
  BY DEF ViewerInv, PageInv, OneDataset
<1>12. /\ fl # "closed" => page.manifest # 0
       /\ fl \in {"restore", "unlock"} => page.key = page.manifest
  BY <1>3, <1>5, <1>11
<1>13. /\ http' \in [head : Heads, blobs : [DOMAIN Files -> Blobs]]
       /\ HeadTrue(http'.head) /\ \A j \in DOMAIN Files : BlobTrue(http'.blobs[j])
  BY <1>1, HttpIs
<1> QED
  BY <1>3, <1>4, <1>5, <1>7, <1>8, <1>10, <1>11, <1>12, <1>13, PageIs, PageSteps

LEMMA LockNowKeeps ==
  ASSUME LockInv, ViewerInv, UNCHANGED lockVars, LockNow
  PROVE  ViewerInv'
<1> DEFINE tc == NoHead
<1>1. /\ page.flow \in {"load", "ready"} /\ page' = [page EXCEPT !.flow = "prompt", !.key = 0, !.toc = tc]
      /\ cache' = NoFiles /\ shown' = None /\ UNCHANGED <<http, reads, loads>>
  BY DEF LockNow
<1>2. page' = [flow |-> "prompt", manifest |-> page.manifest, key |-> 0, toc |-> tc,
               booted |-> page.booted, wrong |-> page.wrong]
  BY <1>1, PageIs
<1>3. page.manifest # 0 /\ (page.wrong => Len(locked) >= 2)
  BY <1>1 DEF ViewerInv, PageInv, OneDataset
<1>4. ReadsInv'
  BY <1>1, <1>2, ReadsUntouched DEF lockVars
<1>5. tc \in Heads /\ HeadTrue(tc) /\ (tc # NoHead => tc.key = page.manifest) /\ "prompt" \in Flows
  BY Constants DEF HeadTrue, Flows
<1> HIDE DEF tc
<1>6. /\ http' \in [head : Heads, blobs : [DOMAIN Files -> Blobs]]
      /\ HeadTrue(http'.head) /\ \A j \in DOMAIN Files : BlobTrue(http'.blobs[j])
  BY <1>1, HttpIs
<1>7. cache' = NoFiles /\ shown' = None
  BY <1>1
<1> QED
  BY <1>2, <1>3, <1>4, <1>5, <1>6, <1>7, PageIs, PageSteps

-------------------------------------------------------------------------------
(* The theorems.                                                           *)
LEMMA AtlasStep == AtlasInv /\ [Next]_vars => AtlasInv'
<1> SUFFICES ASSUME AtlasInv, [Next]_vars PROVE AtlasInv'
  OBVIOUS
<1>0. LockInv /\ ViewerInv
  BY DEF AtlasInv
<1>1. CASE Tool /\ UNCHANGED viewerVars
  BY <1>0, <1>1, ToolKeeps, ToolGrows, ToolLeavesPage DEF AtlasInv
<1>2. ASSUME UNCHANGED lockVars PROVE LockInv'
  BY <1>0, <1>2 DEF lockVars, LockInv, LockTypes, EncTypes, HeadTrue, BlobTrue, BuildInv, LockingInv,
     EncryptInv, AwayInv, RestInv, VerifyInv, Verifies, EncWhole, HeadOpens, Opens, Elsewhere, Whole, DataSet, Items
<1>3. CASE Viewer /\ UNCHANGED lockVars
  <2>1. ViewerInv'
    BY <1>0, <1>3, LoadPageKeeps, SubmitKeeps, LoadTocKeeps, StartReadKeeps, FetchedKeeps,
       DecryptedKeeps, LockNowKeeps DEF Viewer
  <2> QED
    BY <1>2, <1>3, <2>1 DEF AtlasInv
<1>4. CASE UNCHANGED vars
  <2>1. UNCHANGED lockVars /\ UNCHANGED viewerVars
    BY <1>4 DEF vars
  <2>2. Grown
    BY <1>0, <2>1 DEF Grown, LockInv, LockTypes, lockVars
  <2> QED
    BY <1>0, <1>2, <2>1, <2>2, ToolLeavesPage DEF AtlasInv
<1> QED
  BY <1>1, <1>3, <1>4 DEF Next

(* The latest complete data set is whole in the tree, the stash or the     *)
(* ciphertext, also while a later build is at work and after it was        *)
(* killed, unless that build began when only the tree held it, or a lock   *)
(* or an unlock began on a part of it; and a ciphertext with the manifest  *)
(* of the last lock verifies (tools/build_atlas.py: main;                  *)
(* tools/lock_atlas.py: lock, unlock, _stash, verify): for any threads,    *)
(* builds, locks and kills.                                                *)
THEOREM DatasetAlwaysSurvives == Spec => []DatasetSurvives
<1>1. AtlasInv => DatasetSurvives
  BY AtlasInvImplies
<1> QED
  BY AtlasInit, AtlasStep, <1>1, PTL DEF Spec

(* A page shows one data set, that of the manifest it loaded, and calls a  *)
(* right passphrase wrong only after the data set was locked again         *)
(* (js/lock.js: text, unlock, _loadToc, lockNow): for any interleaving of  *)
(* the tools and the page's reads.                                         *)
THEOREM PageAlwaysShowsOneDataset == Spec => []OneDataset
<1>1. AtlasInv => OneDataset
  BY AtlasInvImplies
<1> QED
  BY AtlasInit, AtlasStep, <1>1, PTL DEF Spec
===============================================================================
