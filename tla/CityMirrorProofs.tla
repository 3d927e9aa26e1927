--------------------------- MODULE CityMirrorProofs ---------------------------
(***************************************************************************)
(* Proofs about CityMirror, for every site, every budget and every set of  *)
(* kinds of fault.  The first part is about what is recorded, kept and     *)
(* published; the others are about what folds compute, the sum of the      *)
(* archive's bytes and the work list of a run, and what they are for.      *)
(***************************************************************************)
EXTENDS CityMirrorProps, FiniteSetTheorems, SequenceTheorems,
        WellFoundedInduction, TLAPS

(* The shapes of the JSON state, the directory and the Mirror object.      *)
(* Nothing is said of the queue, which a fold computes (see SoundRun).     *)
IsState(s) ==
  s \in [archived : [Url -> Nat], byAge : {s.byAge}, pending : {s.pending}]

IsDir(d) ==
  /\ d \in [file : {d.file}, state : {d.state}, docs : [Document -> Nat]]
  /\ IsState(d.state)

IsRun(r) ==
  /\ r \in [state : {r.state}, queue : {r.queue}, scheduled : {r.scheduled},
            visited : {r.visited}, bytes : {r.bytes}, archive : {r.archive}]
  /\ IsState(r.state)

ShapeInv == IsDir(cache) /\ IsDir(dir) /\ IsRun(run)

(* A run starts from all the records of the cache and only adds to them.   *)
Holds(state) == Records(cache.state) \subseteq Records(state)

KeepInv ==
  faults \cap {"restore", "evict"} = {} =>
    /\ phase # "idle" => Holds(dir.state)
    /\ phase \in {"started", "crawling"} => Holds(run.state)

(* The files under documents/ are there for each document with a record,   *)
(* and without a kill they are the recorded ones: by the records of the    *)
(* directory until a crawl starts to write, by those of the run from then. *)
HasFiles(docs, state) == \A u \in Document : u \in Records(state) => docs[u] # 0
AreRecorded(docs, state) ==
  \A u \in Document : u \in Records(state) => docs[u] = state.archived[u]

FilesInv ==
  /\ HasFiles(cache.docs, cache.state)
  /\ HasFiles(dir.docs, dir.state)
  /\ phase \in {"started", "crawling"} => HasFiles(dir.docs, run.state)

RecordedInv ==
  "kill" \notin faults =>
    /\ AreRecorded(cache.docs, cache.state)
    /\ phase # "crawling" => AreRecorded(dir.docs, dir.state)
    /\ phase \in {"started", "crawling"} => AreRecorded(dir.docs, run.state)

IInv == ShapeInv /\ KeepInv /\ FilesInv /\ RecordedInv
-------------------------------------------------------------------------------
(* What the steps of a run do to the Mirror object.                        *)
LEMMA FreshShape ==
  /\ IsState(FreshState) /\ IsDir(EmptyDir) /\ IsRun(NoRun)
  /\ Records(FreshState) = {} /\ EmptyDir.state = FreshState
BY Zenon DEF IsState, FreshState, IsDir, EmptyDir, IsRun, NoRun, NewRun, Records

LEMMA NewRunShape ==
  ASSUME NEW s, IsState(s)
  PROVE  IsRun(NewRun(s)) /\ NewRun(s).state = s
BY DEF IsRun, NewRun

LEMMA EnqueueShape ==
  ASSUME NEW r, IsRun(r), NEW urls
  PROVE  IsRun(EnqueueAll(r, urls)) /\ EnqueueAll(r, urls).state = r.state
<1> DEFINE todo == FoldLeft(Enqueue, [queue |-> r.queue, scheduled |-> r.scheduled], urls)
<1>1. EnqueueAll(r, urls) = [r EXCEPT !.queue = todo.queue, !.scheduled = todo.scheduled]
  BY DEF EnqueueAll
<1> HIDE DEF todo
<1>2. QED BY <1>1 DEF IsRun

LEMMA PoppedShape ==
  ASSUME IsRun(run), NEW b
  PROVE  IsRun(Popped(b)) /\ Popped(b).state = run.state
BY DEF IsRun, Popped

LEMMA CheckedShape ==
  ASSUME NEW r, IsRun(r), NEW u
  PROVE  IsRun(Checked(r, u)) /\ Checked(r, u).state.archived = r.state.archived
BY DEF IsRun, IsState, Checked

(* Whatever a request brings, the Mirror object keeps its shape, and       *)
(* either no record and no file changes or one version is archived.        *)
Archives(u, v) ==
  /\ run'.state.archived = [run.state.archived EXCEPT ![u] = v]
  /\ dir' = IF u \in Document THEN [dir EXCEPT !.docs[u] = v] ELSE dir

Outcome(u) ==
  /\ IsRun(run')
  /\ \/ dir' = dir /\ run'.state.archived = run.state.archived
     \/ \E v \in Version : Archives(u, v)

LEMMA VisitOutcome ==
  ASSUME ShapeInv, NEW u \in Url, CrawlPage(u)
  PROVE  Outcome(u)
<1>0. IsRun(run) BY DEF ShapeInv
<1>1. CASE NotModified(u)
  <2>1. IsRun(Checked(Popped(run.bytes), u))
        /\ Checked(Popped(run.bytes), u).state.archived = run.state.archived
    BY <1>0, PoppedShape, CheckedShape
  <2>2. QED BY <1>1, <2>1, EnqueueShape DEF NotModified, Outcome
<1>2. CASE HttpError(u)
  BY <1>0, <1>2, PoppedShape, CheckedShape DEF HttpError, Outcome
<1>3. CASE Refused(u)
  BY <1>0, <1>3, PoppedShape DEF Refused, Outcome
<1>4. CASE TooLong(u)
  BY <1>0, <1>4, PoppedShape DEF TooLong, Outcome
<1>5. ASSUME NEW v \in Version, ArchiveFull(u, v) PROVE Outcome(u)
  BY <1>0, <1>5, PoppedShape DEF ArchiveFull, Outcome
<1>6. ASSUME NEW v \in Version, Archive(u, v) PROVE Outcome(u)
  <2> DEFINE popped == Popped(run.bytes + Size(v))
             r == [popped EXCEPT !.state.archived[u] = v, !.archive = ArchiveAfter(u, v)]
  <2>1. IsRun(popped) /\ popped.state = run.state
    BY <1>0, PoppedShape
  <2>2. v \in Nat
    BY DEF Version
  <2> HIDE DEF popped
  <2>3. IsRun(r) /\ r.state.archived = [run.state.archived EXCEPT ![u] = v]
    BY <2>1, <2>2 DEF IsRun, IsState
  <2> HIDE DEF r
  <2>4. run' = EnqueueAll(Checked(r, u), Links[u])
    BY <1>6 DEF Archive, r, popped
  <2>5. IsRun(Checked(r, u)) /\ Checked(r, u).state.archived = r.state.archived
    BY <2>3, CheckedShape
  <2>6. IsRun(run') /\ run'.state = Checked(r, u).state
    BY <2>4, <2>5, EnqueueShape
  <2>7. Archives(u, v)
    BY <1>6, <2>3, <2>5, <2>6 DEF Archive, Archives
  <2>8. QED BY <2>6, <2>7 DEF Outcome
<1>7. QED BY <1>1, <1>2, <1>3, <1>4, <1>5, <1>6 DEF CrawlPage

LEMMA OutcomeKeeps ==
  ASSUME ShapeInv, NEW u \in Url, Outcome(u)
  PROVE  /\ IsDir(dir') /\ dir'.state = dir.state
         /\ Records(run.state) \subseteq Records(run'.state)
         /\ HasFiles(dir.docs, dir.state) => HasFiles(dir'.docs, dir.state)
         /\ HasFiles(dir.docs, run.state) => HasFiles(dir'.docs, run'.state)
         /\ AreRecorded(dir.docs, run.state) => AreRecorded(dir'.docs, run'.state)
<1> DEFINE Goal ==
      /\ IsDir(dir') /\ dir'.state = dir.state
      /\ Records(run.state) \subseteq Records(run'.state)
      /\ HasFiles(dir.docs, dir.state) => HasFiles(dir'.docs, dir.state)
      /\ HasFiles(dir.docs, run.state) => HasFiles(dir'.docs, run'.state)
      /\ AreRecorded(dir.docs, run.state) => AreRecorded(dir'.docs, run'.state)
<1>1. CASE dir' = dir /\ run'.state.archived = run.state.archived
  <2>1. Records(run'.state) = Records(run.state)
    BY <1>1 DEF Records
  <2>2. QED BY <1>1, <2>1 DEF ShapeInv, HasFiles, AreRecorded
<1>2. ASSUME NEW v \in Version, Archives(u, v) PROVE Goal
  <2>1. v \in Nat /\ v # 0
    BY DEF Version
  <2>2. IsDir(dir) /\ run.state.archived \in [Url -> Nat]
    BY DEF ShapeInv, IsRun, IsState
  <2>3. /\ IsDir(dir') /\ dir'.state = dir.state
        /\ \A w \in Document : dir'.docs[w] = IF w = u THEN v ELSE dir.docs[w]
    BY <1>2, <2>1, <2>2 DEF Archives, IsDir
  <2>4. \A w \in Url : run'.state.archived[w] = IF w = u THEN v ELSE run.state.archived[w]
    BY <1>2, <2>2 DEF Archives
  <2>5. \A w \in Url : w \in Records(run'.state) <=> w = u \/ w \in Records(run.state)
    BY <2>1, <2>4 DEF Records
  <2>6. Records(run.state) \subseteq Records(run'.state)
    BY <2>5 DEF Records
  <2>7. Document \subseteq Url
    BY MirrorConstants
  <2>8. QED BY <2>1, <2>3, <2>4, <2>5, <2>6, <2>7 DEF HasFiles, AreRecorded
<1>3. QED BY <1>1, <1>2 DEF Outcome

LEMMA InitInv == Init => IInv
BY FreshShape DEF Init, IInv, ShapeInv, KeepInv, FilesInv,
     RecordedInv, Holds, HasFiles, AreRecorded

LEMMA StepInv == IInv /\ [Next]_vars => IInv'
<1> SUFFICES ASSUME IInv, [Next]_vars PROVE IInv'
  OBVIOUS
<1> USE DEF IInv
<1>1. CASE Restore
  <2>1. ShapeInv'
    BY <1>1, FreshShape DEF Restore, ShapeInv, IsDir
  <2>2. (faults' \cap {"restore", "evict"} = {} => dir' = cache) /\ cache' = cache
    BY <1>1 DEF Restore, Fault, NoFault
  <2>3. dir' = cache \/ (dir'.state = FreshState /\ dir'.docs = cache.docs)
    BY <1>1 DEF Restore, ShapeInv, IsDir
  <2>4. KeepInv'
    BY <1>1, <2>2 DEF Restore, KeepInv, Holds
  <2>5. FilesInv' /\ RecordedInv'
    BY <1>1, <2>2, <2>3, FreshShape
    DEF Restore, Fault, NoFault, FilesInv, RecordedInv, HasFiles, AreRecorded
  <2>6. QED BY <2>1, <2>4, <2>5
<1>2. CASE Load
  <2>1. IsRun(run') /\ run'.state = dir.state
    BY <1>2, NewRunShape DEF Load, ShapeInv, IsDir
  <2>2. IsDir(dir') /\ dir'.state = dir.state /\ dir'.docs = dir.docs
    BY <1>2 DEF Load, ShapeInv, IsDir
  <2>3. ShapeInv'
    BY <1>2, <2>1, <2>2 DEF Load, ShapeInv
  <2>4. KeepInv' /\ FilesInv' /\ RecordedInv'
    BY <1>2, <2>1, <2>2 DEF Load, NoFault, KeepInv, FilesInv, RecordedInv, Holds
  <2>5. QED BY <2>3, <2>4
<1>3. CASE ReadRobots
  <2>1. IsRun(run') /\ run'.state = run.state
    BY <1>3, EnqueueShape DEF ReadRobots, ShapeInv
  <2>2. QED
    BY <1>3, <2>1 DEF ReadRobots, NoFault, ShapeInv, KeepInv, FilesInv, RecordedInv, Holds
<1>4. ASSUME NEW u \in Url, Visit(u) PROVE IInv'
  <2>1. Outcome(u)
    BY <1>4, VisitOutcome DEF Visit
  <2>2. IsRun(run')
    BY <2>1 DEF Outcome
  <2>3. QED
    BY <1>4, <2>1, <2>2, OutcomeKeeps
    DEF Visit, NoFault, ShapeInv, KeepInv, FilesInv, RecordedInv, Holds
<1>5. ASSUME NEW s, IsState(s), s.archived = run.state.archived, WriteState(s),
             phase \in {"started", "crawling"}, faults \subseteq faults'
      PROVE  IInv'
  <2>1. /\ IsDir(dir') /\ dir'.state = s /\ dir'.docs = dir.docs
        /\ cache' = cache /\ phase' = "ended" /\ run' = NoRun
    BY <1>5 DEF WriteState, ShapeInv, IsDir
  <2>2. Records(s) = Records(run.state)
    BY <1>5 DEF Records
  <2>3. ShapeInv'
    BY <2>1, FreshShape DEF ShapeInv
  <2>4. KeepInv' /\ FilesInv' /\ RecordedInv'
    BY <1>5, <2>1, <2>2
    DEF KeepInv, FilesInv, RecordedInv, Holds, HasFiles, AreRecorded
  <2>5. QED BY <2>3, <2>4
<1>6. CASE RobotsFail
  <2>1. IsState(run.state)
    BY DEF ShapeInv, IsRun
  <2>2. QED BY <1>5, <1>6, <2>1 DEF RobotsFail, NoFault
<1>7. CASE Finish
  <2> DEFINE s == [run.state EXCEPT !.pending = run.queue]
  <2>1. IsState(s) /\ s.archived = run.state.archived
    BY DEF ShapeInv, IsRun, IsState
  <2>2. faults \subseteq faults' /\ WriteState(s) /\ phase = "crawling"
    BY <1>7 DEF Finish, Fault, NoFault
  <2> HIDE DEF s
  <2>3. QED BY <1>5, <2>1, <2>2
<1>8. CASE Kill
  <2>1. "kill" \in faults' /\ faults \subseteq faults'
    BY <1>8 DEF Kill, Fault
  <2>2. \/ dir' = dir
        \/ \E u \in Document : dir' = [dir EXCEPT !.docs[u] = Torn]
    BY <1>8 DEF Kill
  <2>3. Torn \in Nat /\ Torn # 0
    BY MirrorConstants DEF Torn
  <2>4. IsDir(dir') /\ dir'.state = dir.state
        /\ \A u \in Document : dir.docs[u] # 0 => dir'.docs[u] # 0
    BY <2>2, <2>3 DEF ShapeInv, IsDir
  <2>5. QED
    BY <1>8, <2>1, <2>4, FreshShape
    DEF Kill, ShapeInv, KeepInv, FilesInv, RecordedInv, Holds, HasFiles
<1>9. CASE Lose
  BY <1>9, FreshShape
  DEF Lose, Fault, ShapeInv, KeepInv, FilesInv, RecordedInv, HasFiles, AreRecorded
<1>10. CASE SaveCache
  <2>1. ShapeInv'
    BY <1>10, FreshShape DEF SaveCache, ShapeInv
  <2>2. KeepInv' /\ FilesInv' /\ RecordedInv'
    BY <1>10, FreshShape
    DEF SaveCache, NoFault, KeepInv, FilesInv, RecordedInv, HasFiles, AreRecorded
  <2>3. QED BY <2>1, <2>2
<1>11. CASE Evict
  BY <1>11, FreshShape
  DEF Evict, Fault, ShapeInv, KeepInv, FilesInv, RecordedInv, HasFiles, AreRecorded
<1>12. CASE UNCHANGED vars
  BY <1>12 DEF vars, ShapeInv, KeepInv, FilesInv, RecordedInv, Holds
<1>13. QED
  BY <1>1, <1>2, <1>3, <1>4, <1>6, <1>7, <1>8, <1>9, <1>10, <1>11, <1>12 DEF Next

(* A saved snapshot hides no record of the one before it, in any number of *)
(* runs, unless a restore was unreadable or the cache evicted: what keeps  *)
(* validate_mirror_snapshot's promise is that every run starts from the    *)
(* records of the cache and no outcome of a request takes one away.        *)
THEOREM SavesHideNothing == Spec => HidesNothingUntilFault
<1> DEFINE Keeps == faults' \cap {"restore", "evict"} = {}
                      => Records(cache.state) \subseteq Records(cache'.state)
<1>1. IInv /\ [Next]_vars => [Keeps]_vars
  <2> SUFFICES ASSUME IInv, Next PROVE Keeps
    OBVIOUS
  <2>1. CASE SaveCache
    BY <2>1 DEF IInv, KeepInv, SaveCache, NoFault, Holds
  <2>2. CASE Evict
    BY <2>2 DEF Evict, Fault
  <2>3. CASE UNCHANGED cache
    BY <2>3
  <2>4. QED
    BY <2>1, <2>2, <2>3
    DEF Next, Restore, Load, ReadRobots, RobotsFail, Visit, Finish, WriteState, Kill, Lose
<1>2. QED BY <1>1, InitInv, StepInv, PTL DEF Spec, HidesNothingUntilFault

(* Every record is published, and without a kill under the very body that  *)
(* was recorded: no outcome of a request and no failed run separates a     *)
(* document from its fingerprint.                                          *)
THEOREM PublishesWhatItRecorded == Spec => []RenderedIsRecorded
<1>1. IInv => RenderedIsRecorded
  BY DEF IInv, FilesInv, RecordedInv, HasFiles, AreRecorded, RenderedIsRecorded,
         Rendered, Shown, Records
<1>2. QED BY <1>1, InitInv, StepInv, PTL DEF Spec

-------------------------------------------------------------------------------
(* FOLDS                                                                   *)
(* The community modules' folds are recursive functions on the subsets of  *)
(* a set.  What one computes is proved from the least set for which it     *)
(* would fail; that there is such a function at all is proved here.        *)

(* Of the subsets of a finite set in B one has no proper subset in B.      *)
LEMMA LeastSet ==
  ASSUME NEW S, IsFiniteSet(S), NEW B \in SUBSET SUBSET S, B # {}
  PROVE  \E m \in B : \A s \in SUBSET m : s # m => s \notin B
<1> DEFINE R == StrictSubsetOrdering(S)
           F == FiniteSubsetsOf(S)
<1>1. IsWellFoundedOn(R, F)
  BY FS_StrictSubsetOrderingWellFounded
<1>2. B \subseteq F
  BY FS_Subset DEF FiniteSubsetsOf
<1>3. \E m \in B : \A s \in B : ~ (<<s, m>> \in R)
  <2> HIDE DEF R, F
  <2> QED
    BY <1>1, <1>2, WFMin
<1>4. PICK m \in B : \A s \in B : ~ (<<s, m>> \in R)
  BY <1>3
<1>5. ASSUME NEW s \in SUBSET m, s # m, s \in B PROVE FALSE
  <2>1. s \in SUBSET S /\ m \in SUBSET S
    OBVIOUS
  <2>2. <<s, m>> \in R
    BY <1>5, <2>1 DEF StrictSubsetOrdering
  <2> QED
    BY <1>4, <1>5, <2>2
<1> QED
  BY <1>5

(* g folds step over the subsets of D, taking the element c[s] of s last.  *)
IsFold(g, D, base, c, step) ==
  \A s \in SUBSET D : g[s] = IF s = {} THEN base ELSE step[<<g[s \ {c[s]}], c[s]>>]

LEMMA FoldsAgree ==
  ASSUME NEW S, IsFiniteSet(S), NEW base, NEW step,
         NEW c, \A s \in SUBSET S : s # {} => c[s] \in s,
         NEW g, NEW h, IsFold(g, S, base, c, step), IsFold(h, S, base, c, step)
  PROVE  \A s \in SUBSET S : g[s] = h[s]
<1> DEFINE B == {s \in SUBSET S : g[s] # h[s]}
<1> SUFFICES ASSUME B # {} PROVE FALSE
  OBVIOUS
<1>1. B \in SUBSET SUBSET S
  OBVIOUS
<1> HIDE DEF B
<1>2. PICK m \in B : \A s \in SUBSET m : s # m => s \notin B
  BY <1>1, LeastSet
<1>3. m \in SUBSET S /\ g[m] # h[m]
  BY DEF B
<1>4. m # {}
  BY <1>3 DEF IsFold
<1>5. c[m] \in m
  BY <1>3, <1>4
<1>6. m \ {c[m]} \in SUBSET m /\ m \ {c[m]} # m /\ m \ {c[m]} \in SUBSET S
  BY <1>3, <1>5
<1>7. g[m \ {c[m]}] = h[m \ {c[m]}]
  BY <1>2, <1>6 DEF B
<1> QED
  BY <1>3, <1>4, <1>7 DEF IsFold

(* A fold exists: were m a least set without one, the folds on its proper  *)
(* subsets, which agree (FoldsAgree), would make up one on m.              *)
LEMMA FoldExists ==
  ASSUME NEW S, IsFiniteSet(S), NEW T, NEW base \in T,
         NEW c, \A s \in SUBSET S : s # {} => c[s] \in s,
         NEW step, \A t \in T, x \in S : step[<<t, x>>] \in T
  PROVE  \E g \in [SUBSET S -> T] : IsFold(g, S, base, c, step)
<1> DEFINE Has(D, g) == g \in [SUBSET D -> T] /\ IsFold(g, D, base, c, step)
           B == {D \in SUBSET S : ~ \E g : Has(D, g)}
<1> SUFFICES ASSUME B # {} PROVE FALSE
  OBVIOUS
<1>1. B \in SUBSET SUBSET S
  OBVIOUS
<1> HIDE DEF B
<1>2. PICK m \in B : \A s \in SUBSET m : s # m => s \notin B
  BY <1>1, LeastSet
<1>3. m \in SUBSET S /\ ~ \E g : Has(m, g)
  BY DEF B
<1> DEFINE fold == [D \in SUBSET m |-> CHOOSE g : Has(D, g)]
<1>4. ASSUME NEW D \in SUBSET m, D # m PROVE Has(D, fold[D])
  <2>1. D \notin B /\ D \in SUBSET S
    BY <1>2, <1>3, <1>4
  <2>2. \E g : Has(D, g)
    BY <2>1 DEF B
  <2> HIDE DEF Has
  <2> QED
    BY <2>2
<1> HIDE DEF fold
<1> DEFINE new == [s \in SUBSET m |->
                     IF s # m THEN fold[s][s]
                     ELSE IF m = {} THEN base
                     ELSE step[<<fold[m \ {c[m]}][m \ {c[m]}], c[m]>>]]
<1>5. ASSUME NEW s \in SUBSET m, s # {}
      PROVE  s \ {c[s]} \in SUBSET m /\ s \ {c[s]} # m /\ s \ {c[s]} # s /\ c[s] \in s
             /\ s \ {c[s]} \in SUBSET s
  <2>1. c[s] \in s
    BY <1>3, <1>5
  <2> QED
    BY <2>1
<1>6. ASSUME NEW D \in SUBSET m, D # m, NEW s \in SUBSET D PROVE fold[D][s] = fold[s][s]
  <2>1. Has(D, fold[D]) /\ s \in SUBSET m /\ s # m
    BY <1>4, <1>6
  <2>2. Has(s, fold[s])
    BY <1>4, <2>1
  <2>3. IsFold(fold[D], s, base, c, step) /\ IsFold(fold[s], s, base, c, step)
    BY <2>1, <2>2 DEF IsFold
  <2>4. IsFiniteSet(s) /\ \A r \in SUBSET s : r # {} => c[r] \in r
    BY <1>3, <2>1, FS_Subset
  <2> QED
    BY <2>3, <2>4, FoldsAgree
<1>7. ASSUME NEW s \in SUBSET m PROVE new[s] \in T
  <2>1. CASE s # m
    <3>1. fold[s] \in [SUBSET s -> T]
      BY <1>4, <2>1
    <3> QED
      BY <2>1, <3>1
  <2>2. CASE s = m /\ m = {}
    BY <2>2
  <2>3. CASE s = m /\ m # {}
    <3> DEFINE r == m \ {c[m]}
    <3>1. r \in SUBSET m /\ r # m /\ c[m] \in S
      BY <1>3, <1>5, <2>3
    <3>2. fold[r] \in [SUBSET r -> T]
      BY <1>4, <3>1
    <3>3. fold[r][r] \in T
      BY <3>2
    <3> QED
      BY <2>3, <3>1, <3>3
  <2> QED
    BY <2>1, <2>2, <2>3
<1>8. ASSUME NEW s \in SUBSET m
      PROVE  new[s] = IF s = {} THEN base ELSE step[<<new[s \ {c[s]}], c[s]>>]
  <2>1. CASE s = {}
    <3>1. CASE s = m
      BY <2>1, <3>1
    <3>2. CASE s # m
      <4>1. IsFold(fold[s], s, base, c, step) /\ s \in SUBSET s
        BY <1>4, <3>2
      <4>2. fold[s][s] = base
        BY <2>1, <4>1 DEF IsFold
      <4> QED
        BY <2>1, <3>2, <4>2
    <3> QED
      BY <3>1, <3>2
  <2>2. CASE s # {}
    <3> DEFINE r == s \ {c[s]}
    <3>1. r \in SUBSET m /\ r # m /\ r \in SUBSET s
      BY <1>5, <2>2
    <3>2. new[r] = fold[r][r]
      BY <3>1
    <3>3. CASE s = m
      BY <2>2, <3>2, <3>3
    <3>4. CASE s # m
      <4>1. IsFold(fold[s], s, base, c, step) /\ s \in SUBSET s
        BY <1>4, <3>4
      <4>2. fold[s][s] = step[<<fold[s][r], c[s]>>]
        BY <2>2, <4>1 DEF IsFold
      <4>3. fold[s][r] = fold[r][r]
        BY <1>6, <3>1, <3>4
      <4> QED
        BY <2>2, <3>2, <3>4, <4>2, <4>3
    <3> QED
      BY <3>3, <3>4
  <2> QED
    BY <2>1, <2>2
<1>9. new \in [SUBSET m -> T]
  BY <1>7
<1> HIDE DEF new
<1>10. Has(m, new)
  BY <1>8, <1>9 DEF IsFold
<1> QED
  BY <1>3, <1>10

-------------------------------------------------------------------------------
(* THE SUM OF THE ARCHIVE                                                  *)
(* ArchiveBytes is a fold over the records; it counts their bytes.         *)

(* The bytes of an archive, each one of its own.                           *)
Bytes(a, S) == {b \in S \X Nat : 1 <= b[2] /\ b[2] <= a[b[1]]}

LEMMA BytesOfOne ==
  ASSUME NEW x, NEW n \in Nat
  PROVE  IsFiniteSet({x} \X (1 .. n)) /\ Cardinality({x} \X (1 .. n)) = n
<1> DEFINE f == [k \in 1 .. n |-> <<x, k>>]
<1>1. IsFiniteSet(1 .. n) /\ Cardinality(1 .. n) = n
  BY FS_Interval
<1>2. f \in Bijection(1 .. n, {x} \X (1 .. n))
  BY DEF Bijection, Injection, Surjection, IsInjective
<1>3. ExistsBijection(1 .. n, {x} \X (1 .. n))
  BY <1>2 DEF ExistsBijection
<1> QED
  BY <1>1, <1>3, FS_Bijection

LEMMA BytesAdd ==
  ASSUME NEW a \in [Url -> Nat], NEW S \in SUBSET Url, NEW x \in Url, x \notin S,
         IsFiniteSet(Bytes(a, S))
  PROVE  /\ IsFiniteSet(Bytes(a, S \cup {x}))
         /\ Cardinality(Bytes(a, S \cup {x})) = Cardinality(Bytes(a, S)) + a[x]
<1> DEFINE one == {x} \X (1 .. a[x])
           less == Bytes(a, S)
           more == Bytes(a, S \cup {x})
<1>1. a[x] \in Nat
  OBVIOUS
<1>2. more = less \cup one
  BY <1>1 DEF Bytes
<1>3. less \cap one = {}
  BY DEF Bytes
<1>4. IsFiniteSet(one) /\ Cardinality(one) = a[x]
  BY <1>1, BytesOfOne
<1>5. IsFiniteSet(less)
  OBVIOUS
<1> HIDE DEF one, less, more
<1>6. /\ IsFiniteSet(less \cup one)
      /\ Cardinality(less \cup one)
           = Cardinality(less) + Cardinality(one) - Cardinality(less \cap one)
  BY <1>4, <1>5, FS_Union
<1>7. Cardinality(less \cap one) = 0 /\ Cardinality(less) \in Nat
  BY <1>3, <1>5, FS_EmptySet, FS_CardinalityType
<1>8. IsFiniteSet(more) /\ Cardinality(more) = Cardinality(less) + a[x]
  BY <1>1, <1>2, <1>4, <1>6, <1>7
<1> QED
  BY <1>8 DEF less, more

LEMMA SumCounts ==
  ASSUME NEW a \in [Url -> Nat], NEW S \in SUBSET Url, IsFiniteSet(S),
         NEW c, \A s \in SUBSET S : s # {} => c[s] \in s,
         NEW h, \A s \in SUBSET S : h[s] = IF s = {} THEN 0 ELSE a[c[s]] + h[s \ {c[s]}]
  PROVE  IsFiniteSet(Bytes(a, S)) /\ h[S] = Cardinality(Bytes(a, S))
<1> DEFINE Counted(s) == IsFiniteSet(Bytes(a, s)) /\ h[s] = Cardinality(Bytes(a, s))
           B == {s \in SUBSET S : ~ Counted(s)}
<1> SUFFICES ASSUME B # {} PROVE FALSE
  OBVIOUS
<1>1. B \in SUBSET SUBSET S
  OBVIOUS
<1> HIDE DEF B
<1>2. PICK m \in B : \A s \in SUBSET m : s # m => s \notin B
  BY <1>1, LeastSet
<1>3. m \in SUBSET S /\ ~ Counted(m)
  BY DEF B
<1>4. CASE m = {}
  <2>1. Bytes(a, m) = {}
    BY <1>4 DEF Bytes
  <2>2. h[m] = 0
    BY <1>3, <1>4
  <2> QED
    BY <1>3, <2>1, <2>2, FS_EmptySet
<1>5. CASE m # {}
  <2> DEFINE x == c[m]
             r == m \ {x}
  <2>1. x \in m
    BY <1>3, <1>5
  <2>2. r \in SUBSET m /\ r # m /\ r \in SUBSET S /\ x \notin r /\ m = r \cup {x} /\ x \in Url
    BY <1>3, <2>1
  <2>3. h[m] = a[x] + h[r]
    BY <1>3, <1>5
  <2>4. a[x] \in Nat
    BY <2>2
  <2> HIDE DEF x, r
  <2>5. Counted(r)
    BY <1>2, <2>2 DEF B
  <2>6. /\ IsFiniteSet(Bytes(a, m))
        /\ Cardinality(Bytes(a, m)) = Cardinality(Bytes(a, r)) + a[x]
    BY <2>2, <2>5, BytesAdd
  <2>7. Cardinality(Bytes(a, r)) \in Nat
    BY <2>5, FS_CardinalityType
  <2> QED
    BY <1>3, <2>3, <2>4, <2>5, <2>6, <2>7
<1> QED
  BY <1>4, <1>5

(* The sum exists, so that it is what the fold computes, and it is the     *)
(* number of bytes.                                                        *)
LEMMA ArchiveBytesCounts ==
  ASSUME NEW s, s.archived \in [Url -> Nat], IsFiniteSet(Records(s))
  PROVE  /\ IsFiniteSet(Bytes(s.archived, Records(s)))
         /\ ArchiveBytes(s) = Cardinality(Bytes(s.archived, Records(s)))
<1> DEFINE a == s.archived
           S == Records(s)
           c == [t \in SUBSET S |-> CHOOSE x \in t : TRUE]
           step == [p \in Nat \X S |-> a[p[2]] + p[1]]
           Sum(g) == g = [t \in SUBSET S |->
                            IF t = {} THEN 0
                            ELSE a[CHOOSE x \in t : TRUE] + g[t \ {CHOOSE x \in t : TRUE}]]
<1>1. ArchiveBytes(s) = (CHOOSE g : Sum(g))[S]
  BY Zenon DEF ArchiveBytes, MapThenSumSet, MapThenFoldSet, Size
<1>2. S \in SUBSET Url /\ IsFiniteSet(S) /\ a \in [Url -> Nat]
  BY DEF Records
<1>3. \A t \in SUBSET S : t # {} => (CHOOSE x \in t : TRUE) \in t
  OBVIOUS
<1>4. \A t \in SUBSET S : c[t] = CHOOSE x \in t : TRUE
  OBVIOUS
<1>5. \A n \in Nat, x \in S : step[<<n, x>>] = a[x] + n /\ step[<<n, x>>] \in Nat
  BY <1>2
<1> HIDE DEF a, S, c, step
<1>6. \A t \in SUBSET S : t # {} => c[t] \in t
  BY <1>3, <1>4
<1>7. PICK g \in [SUBSET S -> Nat] : IsFold(g, S, 0, c, step)
  BY <1>2, <1>5, <1>6, FoldExists
<1>8. \A t \in SUBSET S : g[t] = IF t = {} THEN 0 ELSE a[c[t]] + g[t \ {c[t]}]
  <2> TAKE t \in SUBSET S
  <2>1. CASE t = {}
    BY <1>7, <2>1 DEF IsFold
  <2>2. CASE t # {}
    <3>1. c[t] \in S /\ t \ {c[t]} \in SUBSET S
      BY <1>6, <2>2
    <3>2. g[t \ {c[t]}] \in Nat
      BY <3>1
    <3>3. g[t] = step[<<g[t \ {c[t]}], c[t]>>]
      BY <1>7, <2>2 DEF IsFold
    <3> QED
      BY <1>5, <2>2, <3>1, <3>2, <3>3
  <2> QED
    BY <2>1, <2>2
<1>9. Sum(g)
  <2>1. \A t \in SUBSET S : g[t] = IF t = {} THEN 0
            ELSE a[CHOOSE x \in t : TRUE] + g[t \ {CHOOSE x \in t : TRUE}]
    BY <1>4, <1>8
  <2> QED
    BY <2>1
<1> DEFINE h == CHOOSE g1 : Sum(g1)
<1>10. Sum(h)
  BY <1>9
<1> HIDE DEF h
<1>11. \A t \in SUBSET S : h[t] = IF t = {} THEN 0 ELSE a[c[t]] + h[t \ {c[t]}]
  BY <1>4, <1>10
<1>12. IsFiniteSet(Bytes(a, S)) /\ h[S] = Cardinality(Bytes(a, S))
  BY <1>2, <1>6, <1>11, SumCounts
<1> QED
  BY <1>1, <1>12 DEF a, S, h

(* A version of a URL that replaces another changes the sum by as much.    *)
LEMMA SameArchive ==
  ASSUME NEW s, NEW t, s.archived = t.archived, s.archived \in [Url -> Nat],
         IsFiniteSet(Records(s))
  PROVE  Records(t) = Records(s) /\ ArchiveBytes(t) = ArchiveBytes(s)
<1>1. Records(t) = Records(s)
  BY DEF Records
<1>2. /\ ArchiveBytes(s) = Cardinality(Bytes(s.archived, Records(s)))
      /\ ArchiveBytes(t) = Cardinality(Bytes(t.archived, Records(t)))
  BY <1>1, ArchiveBytesCounts
<1> QED
  BY <1>1, <1>2

LEMMA ArchiveReplaces ==
  ASSUME NEW s, s.archived \in [Url -> Nat], IsFiniteSet(Records(s)),
         NEW u \in Url, NEW v \in Nat \ {0},
         NEW t, t.archived = [s.archived EXCEPT ![u] = v]
  PROVE  /\ IsFiniteSet(Records(t)) /\ Records(t) = Records(s) \cup {u}
         /\ ArchiveBytes(s) \in Nat
         /\ ArchiveBytes(t) = ArchiveBytes(s) + v - s.archived[u]
<1> DEFINE R == Records(s) \ {u}
           a == s.archived
           b == t.archived
           rest == Cardinality(Bytes(a, R))
<1>1. /\ b \in [Url -> Nat] /\ b[u] = v /\ a[u] \in Nat
      /\ \A w \in R : b[w] = a[w]
      /\ R \in SUBSET Url /\ u \notin R
  BY DEF Records
<1>2. Records(t) = Records(s) \cup {u} /\ Records(t) = R \cup {u}
  BY DEF Records
<1>3. IsFiniteSet(Records(t)) /\ IsFiniteSet(R)
  BY <1>2, FS_AddElement, FS_RemoveElement
<1>4. IsFiniteSet(Bytes(a, Records(s)))
      /\ ArchiveBytes(s) = Cardinality(Bytes(a, Records(s)))
  BY ArchiveBytesCounts
<1>5. ArchiveBytes(t) = Cardinality(Bytes(b, Records(t)))
  BY <1>1, <1>3, ArchiveBytesCounts
<1>6. Bytes(b, R) = Bytes(a, R)
  BY <1>1 DEF Bytes
<1>7. Bytes(a, R) \subseteq Bytes(a, Records(s))
  BY DEF Bytes
<1>8. IsFiniteSet(Bytes(a, R)) /\ rest \in Nat
  BY <1>4, <1>7, FS_Subset, FS_CardinalityType
<1>9. Cardinality(Bytes(b, R \cup {u})) = rest + v
  <2>1. IsFiniteSet(Bytes(b, R))
    BY <1>6, <1>8
  <2>2. Cardinality(Bytes(b, R \cup {u})) = Cardinality(Bytes(b, R)) + b[u]
    BY <1>1, <2>1, BytesAdd
  <2> QED
    BY <1>1, <1>6, <2>2
<1>10. Cardinality(Bytes(a, Records(s))) = rest + a[u]
  <2>1. CASE a[u] = 0
    <3>1. R = Records(s)
      BY <2>1 DEF Records
    <3> HIDE DEF R
    <3> QED
      BY <1>8, <2>1, <3>1
  <2>2. CASE a[u] # 0
    <3>1. R \cup {u} = Records(s)
      BY <2>2 DEF Records
    <3>2. Cardinality(Bytes(a, R \cup {u})) = rest + a[u]
      BY <1>1, <1>8, BytesAdd
    <3> HIDE DEF R
    <3> QED
      BY <3>1, <3>2
  <2> QED
    BY <2>1, <2>2
<1>11. ArchiveBytes(t) = rest + v
  BY <1>2, <1>5, <1>9
<1>12. ArchiveBytes(s) = rest + a[u]
  BY <1>4, <1>10
<1> HIDE DEF rest, R, b
<1>13. ArchiveBytes(s) \in Nat /\ ArchiveBytes(t) = ArchiveBytes(s) + v - a[u]
  BY <1>1, <1>8, <1>11, <1>12
<1> QED
  BY <1>2, <1>3, <1>13

-------------------------------------------------------------------------------
(* The folds over sequences take the element of the greatest index last.   *)
LEMMA MaxIsMember ==
  ASSUME NEW n \in Nat, NEW S \in SUBSET (1 .. n), S # {}
  PROVE  Max(S) \in S
<1> DEFINE Above(x) == {y \in S : y > x}
           B == {Above(x) : x \in S}
<1>1. IsFiniteSet(S) /\ \A x \in S : x \in Nat
  <2>1. 1 \in Int /\ n \in Int
    OBVIOUS
  <2>2. IsFiniteSet(1 .. n)
    BY <2>1, FS_Interval
  <2>3. IsFiniteSet(S)
    BY <2>2, FS_Subset
  <2> QED
    BY <2>3
<1>2. B \in SUBSET SUBSET S /\ B # {}
  OBVIOUS
<1>3. PICK m \in B : \A s \in SUBSET m : s # m => s \notin B
  <2> HIDE DEF B
  <2> QED
    BY <1>1, <1>2, LeastSet
<1>4. PICK x \in S : m = Above(x)
  OBVIOUS
<1>5. ASSUME NEW y \in S, y > x PROVE FALSE
  <2>1. Above(y) \in SUBSET Above(x) /\ y \in Above(x) /\ y \notin Above(y)
    <3>1. x \in Nat /\ y \in Nat /\ y > x /\ \A z \in S : z \in Nat
      BY <1>1, <1>5
    <3>2. Above(y) \in SUBSET Above(x)
      <4>1. ASSUME NEW z \in S, z > y PROVE z > x
        BY <3>1, <4>1
      <4> QED
        BY <4>1
    <3>3. y \in Above(x)
      BY <3>1
    <3>4. y \notin Above(y)
      BY <3>1
    <3> QED
      BY <3>2, <3>3, <3>4
  <2>2. Above(y) \in B
    OBVIOUS
  <2> QED
    BY <1>3, <1>4, <2>1, <2>2
<1>6. \A y \in S : x >= y
  BY <1>5
<1> QED
  BY <1>6, Zenon DEF Max

(* The work list of a run: each URL is on it once, and only a URL that has *)
(* been scheduled.                                                         *)
Todos == {t \in [queue : Seq(Url), scheduled : SUBSET Url] :
            ToSet(t.queue) \subseteq t.scheduled /\ IsInjective(t.queue)}

LEMMA EnqueueKeeps ==
  ASSUME NEW t \in Todos, NEW u \in Url
  PROVE  Enqueue(t, u) \in Todos
<1>1. /\ t.queue \in Seq(Url) /\ t.scheduled \in SUBSET Url
      /\ ToSet(t.queue) \subseteq t.scheduled /\ IsInjective(t.queue)
  BY DEF Todos
<1>2. CASE u \in t.scheduled
  BY <1>2 DEF Enqueue
<1>3. CASE u \notin t.scheduled
  <2> DEFINE q == t.queue
             m == Len(t.queue)
             p == Append(t.queue, u)
             new == [queue |-> p, scheduled |-> t.scheduled \cup {u}]
  <2>1. /\ m \in Nat /\ DOMAIN q = 1 .. m /\ DOMAIN p = 1 .. m + 1
        /\ p \in Seq(Url) /\ p[m + 1] = u
        /\ \A i \in 1 .. m : p[i] = q[i]
    BY <1>1, AppendProperties, LenProperties
  <2>2. \A i \in 1 .. m : q[i] \in t.scheduled
    BY <1>1, <2>1 DEF ToSet
  <2>3. \A i, j \in 1 .. m : q[i] = q[j] => i = j
    BY <1>1, <2>1 DEF IsInjective
  <2>4. new = Enqueue(t, u)
    BY <1>3 DEF Enqueue
  <2> HIDE DEF p, m, q
  <2>5. \A i \in 1 .. m + 1 : i \in 1 .. m \/ i = m + 1
    BY <2>1
  <2>6. \A i \in 1 .. m + 1 : p[i] \in t.scheduled \cup {u}
    BY <2>1, <2>2, <2>5
  <2>7. \A i, j \in 1 .. m + 1 : p[i] = p[j] => i = j
    BY <1>3, <2>1, <2>2, <2>3, <2>5
  <2>8. ToSet(p) \subseteq t.scheduled \cup {u} /\ IsInjective(p)
    BY <2>1, <2>6, <2>7 DEF ToSet, IsInjective
  <2>9. new \in Todos
    BY <1>1, <2>1, <2>8 DEF Todos
  <2> QED
    BY <2>4, <2>9
<1> QED
  BY <1>2, <1>3

LEMMA FoldEnqueueKeeps ==
  ASSUME NEW t \in Todos, NEW urls \in Seq(Url)
  PROVE  FoldLeft(Enqueue, t, urls) \in Todos
<1> DEFINE S == DOMAIN urls
           c == [s \in SUBSET S |-> Max(s)]
           step == [p \in Todos \X S |-> Enqueue(p[1], urls[p[2]])]
           Fold(g) == g = [s \in SUBSET S |->
                             IF s = {} THEN t
                             ELSE Enqueue(g[s \ {Max(s)}], urls[Max(s)])]
<1>1. FoldLeft(Enqueue, t, urls) = (CHOOSE g : Fold(g))[S]
  BY Zenon DEF FoldLeft, MapThenFoldSet
<1>2. Len(urls) \in Nat /\ S = 1 .. Len(urls) /\ \A i \in S : urls[i] \in Url
  OBVIOUS
<1>3. IsFiniteSet(S)
  BY <1>2, FS_Interval
<1>4. \A s \in SUBSET S : s # {} => Max(s) \in s
  BY <1>2, MaxIsMember
<1>5. \A s \in SUBSET S : c[s] = Max(s)
  OBVIOUS
<1>6. \A r \in Todos, i \in S : step[<<r, i>>] = Enqueue(r, urls[i]) /\ step[<<r, i>>] \in Todos
  BY <1>2, EnqueueKeeps
<1> HIDE DEF S, c, step
<1>7. PICK g \in [SUBSET S -> Todos] : IsFold(g, S, t, c, step)
  <2>1. \A s \in SUBSET S : s # {} => c[s] \in s
    BY <1>4, <1>5
  <2>2. \A r \in Todos, i \in S : step[<<r, i>>] \in Todos
    BY <1>6
  <2> HIDE DEF Fold
  <2> QED
    BY <1>3, <2>1, <2>2, FoldExists
<1>8. \A s \in SUBSET S : g[s] = IF s = {} THEN t ELSE Enqueue(g[s \ {Max(s)}], urls[Max(s)])
  <2> TAKE s \in SUBSET S
  <2>1. CASE s = {}
    BY <1>7, <2>1 DEF IsFold
  <2>2. CASE s # {}
    <3>1. c[s] = Max(s) /\ Max(s) \in S /\ s \ {Max(s)} \in SUBSET S
      BY <1>4, <1>5, <2>2
    <3>2. g[s \ {Max(s)}] \in Todos
      BY <3>1
    <3>3. g[s] = step[<<g[s \ {Max(s)}], Max(s)>>]
      BY <1>7, <2>2, <3>1 DEF IsFold
    <3> QED
      BY <1>6, <2>2, <3>1, <3>2, <3>3
  <2> QED
    BY <2>1, <2>2
<1>9. Fold(g)
  BY <1>8
<1> DEFINE h == CHOOSE g1 : Fold(g1)
<1>10. Fold(h)
  BY <1>9
<1> HIDE DEF h
<1>11. h = [s \in SUBSET S |->
              IF s = {} THEN t ELSE Enqueue(h[s \ {Max(s)}], urls[Max(s)])]
  BY <1>10
<1> HIDE DEF Fold
<1> DEFINE B == {s \in SUBSET S : h[s] \notin Todos}
<1>12. B = {}
  <2> SUFFICES ASSUME B # {} PROVE FALSE
    OBVIOUS
  <2>1. B \in SUBSET SUBSET S
    OBVIOUS
  <2> HIDE DEF B
  <2>2. PICK m \in B : \A s \in SUBSET m : s # m => s \notin B
    BY <1>3, <2>1, LeastSet
  <2>3. m \in SUBSET S /\ h[m] \notin Todos
    BY DEF B
  <2>4. m # {}
    BY <1>11, <2>3
  <2>5. Max(m) \in m
    BY <1>4, <2>3, <2>4
  <2> DEFINE r == m \ {Max(m)}
  <2>6. r \in SUBSET m /\ r # m /\ r \in SUBSET S /\ urls[Max(m)] \in Url
    BY <1>2, <2>3, <2>5
  <2>7. h[r] \in Todos
    BY <2>2, <2>6 DEF B
  <2>8. h[m] = Enqueue(h[r], urls[Max(m)])
    BY <1>11, <2>3, <2>4
  <2> QED
    BY <2>3, <2>6, <2>7, <2>8, EnqueueKeeps
<1>13. h[S] \in Todos
  BY <1>12
<1> QED
  BY <1>1, <1>13 DEF h

(* The order in which the records have been checked: the URL checked now   *)
(* goes last, and the others stay.                                         *)
LEMMA CheckedNowKeeps ==
  ASSUME NEW q \in Seq(Url), IsInjective(q), NEW u \in Url
  PROVE  /\ CheckedNow(q, u) \in Seq(Url) /\ IsInjective(CheckedNow(q, u))
         /\ ToSet(CheckedNow(q, u)) = ToSet(q) \cup {u}
<1> DEFINE n == Len(q)
           rest == RemoveFirst(q, u)
           m == Len(rest)
           p == Append(rest, u)
           Others ==
             /\ rest \in Seq(Url)
             /\ \A i, j \in 1 .. m : rest[i] = rest[j] => i = j
             /\ \A i \in 1 .. m : rest[i] # u /\ \E j \in 1 .. n : rest[i] = q[j]
             /\ \A j \in 1 .. n : q[j] = u \/ \E i \in 1 .. m : rest[i] = q[j]
<1>1. n \in Nat /\ DOMAIN q = 1 .. n /\ \A i \in 1 .. n : q[i] \in Url
  OBVIOUS
<1>2. \A i, j \in 1 .. n : q[i] = q[j] => i = j
  BY <1>1 DEF IsInjective
<1>3. Others
  <2>1. CASE \A i \in 1 .. n : q[i] # u
    <3>1. rest = q
      BY <2>1 DEF RemoveFirst
    <3> HIDE DEF rest
    <3> QED
      BY <1>1, <1>2, <2>1, <3>1
  <2>2. ASSUME NEW k \in 1 .. n, q[k] = u
        PROVE  Others
    <3> DEFINE I == {i \in 1 .. Len(q) : q[i] = u}
               a == SubSeq(q, 1, k - 1)
               b == SubSeq(q, k + 1, n)
    <3>1. I = {k}
      BY <1>2, <2>2
    <3>2. Min(I) = k
      BY <1>1, <3>1 DEF Min
    <3>3. rest = a \o b
      BY <2>2, <3>1, <3>2 DEF RemoveFirst, RemoveAt, SelectInSeq
    <3>4. /\ a \in Seq(Url) /\ Len(a) = k - 1 /\ \A i \in 1 .. k - 1 : a[i] = q[i]
      <4>1. k - 1 \in Int /\ \A i \in 1 .. k - 1 : q[i] \in Url
        BY <1>1
      <4>2. /\ a \in Seq(Url) /\ Len(a) = IF 1 <= k - 1 THEN k - 1 - 1 + 1 ELSE 0
            /\ \A i \in 1 .. k - 1 - 1 + 1 : a[i] = q[1 + i - 1]
        BY <4>1, SubSeqProperties
      <4> HIDE DEF a, n
      <4> QED
        BY <1>1, <4>2
    <3>5. /\ b \in Seq(Url) /\ Len(b) = n - k /\ \A i \in 1 .. n - k : b[i] = q[k + i]
      <4>1. k + 1 \in Int /\ n \in Int /\ \A i \in k + 1 .. n : q[i] \in Url
        BY <1>1
      <4> HIDE DEF n
      <4>2. /\ b \in Seq(Url) /\ Len(b) = IF k + 1 <= n THEN n - (k + 1) + 1 ELSE 0
            /\ \A i \in 1 .. n - (k + 1) + 1 : b[i] = q[k + 1 + i - 1]
        BY <4>1, SubSeqProperties
      <4> HIDE DEF b
      <4> QED
        BY <1>1, <4>2
    <3>6. /\ rest \in Seq(Url) /\ Len(rest) = Len(a) + Len(b)
          /\ \A i \in 1 .. Len(a) + Len(b) :
               rest[i] = IF i <= Len(a) THEN a[i] ELSE b[i - Len(a)]
      <4> HIDE DEF rest, a, b
      <4> QED
        BY <3>3, <3>4, <3>5, ConcatProperties
    <3> HIDE DEF rest, a, b, n, I
    <3>7. /\ Len(rest) = n - 1
          /\ \A i \in 1 .. n - 1 : rest[i] = IF i < k THEN q[i] ELSE q[i + 1]
      BY <1>1, <3>4, <3>5, <3>6
    <3>8. \A i, j \in 1 .. n - 1 : rest[i] = rest[j] => i = j
      BY <1>1, <1>2, <3>7
    <3>9. \A i \in 1 .. n - 1 : rest[i] # u /\ \E j \in 1 .. n : rest[i] = q[j]
      BY <1>1, <1>2, <2>2, <3>7
    <3>10. ASSUME NEW j \in 1 .. n, q[j] # u PROVE \E i \in 1 .. n - 1 : rest[i] = q[j]
      <4>1. j # k
        BY <2>2, <3>10
      <4>2. CASE j < k
        <5>1. j \in 1 .. n - 1 /\ rest[j] = q[j]
          BY <1>1, <3>7, <4>2
        <5> QED
          BY <5>1
      <4>3. CASE j > k
        <5>1. j - 1 \in 1 .. n - 1 /\ rest[j - 1] = q[j]
          BY <1>1, <3>7, <4>3
        <5> QED
          BY <5>1
      <4> QED
        BY <1>1, <4>1, <4>2, <4>3
    <3> QED
      BY <3>6, <3>7, <3>8, <3>9, <3>10
  <2> QED
    BY <2>1, <2>2
<1>4. /\ m \in Nat /\ p \in Seq(Url) /\ DOMAIN p = 1 .. m + 1 /\ p[m + 1] = u
      /\ \A i \in 1 .. m : p[i] = rest[i]
  BY <1>3, AppendProperties, LenProperties
<1>5. p = CheckedNow(q, u)
  BY DEF CheckedNow
<1> HIDE DEF p, m, rest, n
<1>6. \A i \in 1 .. m + 1 : i \in 1 .. m \/ i = m + 1
  BY <1>4
<1>7. IsInjective(p)
  <2>1. \A i, j \in 1 .. m + 1 : p[i] = p[j] => i = j
    BY <1>3, <1>4, <1>6
  <2> QED
    BY <1>4, <2>1 DEF IsInjective
<1>8. ToSet(p) = ToSet(q) \cup {u}
  <2>1. ASSUME NEW w \in ToSet(p) PROVE w \in ToSet(q) \cup {u}
    <3>1. PICK i \in 1 .. m + 1 : w = p[i]
      BY <1>4 DEF ToSet
    <3>2. CASE i = m + 1
      BY <1>4, <3>1, <3>2
    <3>3. CASE i \in 1 .. m
      <4>1. PICK j \in 1 .. n : rest[i] = q[j]
        BY <1>3, <3>3
      <4> QED
        BY <1>1, <1>4, <3>1, <3>3, <4>1 DEF ToSet
    <3> QED
      BY <1>6, <3>2, <3>3
  <2>2. ASSUME NEW j \in 1 .. n PROVE q[j] \in ToSet(p)
    <3>1. CASE q[j] = u
      <4>1. m + 1 \in 1 .. m + 1
        BY <1>4
      <4> QED
        BY <1>4, <3>1, <4>1 DEF ToSet
    <3>2. CASE q[j] # u
      <4>1. PICK i \in 1 .. m : rest[i] = q[j]
        BY <1>3, <3>2
      <4>2. i \in 1 .. m + 1 /\ p[i] = q[j]
        BY <1>4, <4>1
      <4> QED
        BY <1>4, <4>2 DEF ToSet
    <3> QED
      BY <3>1, <3>2
  <2>3. u \in ToSet(p)
    <3>1. m + 1 \in 1 .. m + 1
      BY <1>4
    <3> QED
      BY <1>4, <3>1 DEF ToSet
  <2>4. ToSet(q) \subseteq ToSet(p)
    BY <1>1, <2>2 DEF ToSet
  <2> QED
    BY <2>1, <2>3, <2>4
<1> QED
  BY <1>4, <1>5, <1>7, <1>8

-------------------------------------------------------------------------------
(* THE BUDGET, THE LISTS AND THE TYPES                                     *)

(* What a state, a directory and a run are beside their shapes.  All       *)
(* records but those of a version just archived are in the lists: known    *)
(* are those that byAge holds.                                             *)
ListsHold(s, known) ==
  /\ s.byAge \in Seq(Url) /\ IsInjective(s.byAge) /\ ToSet(s.byAge) = known
  /\ s.pending \in Seq(Url) /\ IsInjective(s.pending)

StateHolds(s, known) ==
  /\ IsState(s) /\ ListsHold(s, known)
  /\ IsFiniteSet(Records(s)) /\ ArchiveBytes(s) <= MaxArchive

RunHolds(r, known) ==
  /\ IsRun(r) /\ StateHolds(r.state, known)
  /\ r.archive = ArchiveBytes(r.state)
  /\ [queue |-> r.queue, scheduled |-> r.scheduled] \in Todos
  /\ r.visited \in 0 .. MaxPages /\ r.bytes \in 0 .. MaxBytes + 1

SoundState(s) == StateHolds(s, Records(s))
SoundRun(r) == RunHolds(r, Records(r.state))
SoundDir(d) ==
  /\ IsDir(d) /\ SoundState(d.state)
  /\ d.file \in {"absent", "corrupt", "valid"} /\ d.docs \in [Document -> 0 .. Torn]

BudgetInv ==
  /\ SoundDir(cache) /\ cache.file # "corrupt" /\ SoundDir(dir) /\ SoundRun(run)
  /\ phase \in Phase /\ faults \subseteq FaultKind

LEMMA Bounds ==
  /\ MaxVersion \in Nat \ {0} /\ MaxPages \in Nat \ {0} /\ MaxBytes \in Nat \ {0}
  /\ MaxArchive \in Nat \ {0} /\ Torn \in Nat \ {0} /\ Version \subseteq 0 .. Torn
BY MirrorConstants DEF Torn, Version

LEMMA EmptyListInjective == <<>> \in Seq(Url) /\ IsInjective(<<>>) /\ ToSet(<<>>) = {}
BY DEF IsInjective, ToSet

LEMMA SoundNewRun ==
  ASSUME NEW s, SoundState(s)
  PROVE  SoundRun(NewRun(s))
<1> DEFINE t == [queue |-> <<>>, scheduled |-> {}]
           r == NewRun(s)
<1>1. t \in Todos
  BY EmptyListInjective DEF Todos
<1>2. IsRun(r) /\ r.state = s
  BY NewRunShape DEF SoundState, StateHolds
<1>3. /\ r.queue = <<>> /\ r.scheduled = {} /\ r.visited = 0 /\ r.bytes = 0
      /\ r.archive = ArchiveBytes(s)
  BY DEF NewRun
<1>4. 0 \in 0 .. MaxPages /\ 0 \in 0 .. MaxBytes + 1
  BY Bounds
<1> HIDE DEF r
<1>5. [queue |-> r.queue, scheduled |-> r.scheduled] = t
  BY <1>3
<1>6. QED
  BY <1>1, <1>2, <1>3, <1>4, <1>5 DEF SoundRun, RunHolds, SoundState, r

LEMMA SoundFresh == SoundState(FreshState) /\ SoundDir(EmptyDir) /\ SoundRun(NoRun)
<1>1. /\ FreshState.byAge = <<>> /\ FreshState.pending = <<>>
      /\ FreshState.archived = [u \in Url |-> 0]
  BY DEF FreshState
<1>2. IsFiniteSet({}) /\ Cardinality({}) = 0
  BY FS_EmptySet
<1>3. IsFiniteSet(Records(FreshState)) /\ Records(FreshState) = {}
  BY <1>2, FreshShape
<1>4. ArchiveBytes(FreshState) = 0
  <2>1. ArchiveBytes(FreshState) = Cardinality(Bytes(FreshState.archived, {}))
    BY <1>1, <1>3, ArchiveBytesCounts
  <2>2. Bytes(FreshState.archived, {}) = {}
    BY DEF Bytes
  <2> QED
    BY <1>2, <2>1, <2>2
<1>5. SoundState(FreshState)
  BY <1>1, <1>3, <1>4, Bounds, EmptyListInjective, FreshShape
  DEF SoundState, StateHolds, ListsHold
<1>6. SoundDir(EmptyDir)
  <2>1. /\ EmptyDir.file = "absent" /\ EmptyDir.docs = [u \in Document |-> 0]
        /\ EmptyDir.state = FreshState
    BY DEF EmptyDir
  <2>2. EmptyDir.docs \in [Document -> 0 .. Torn]
    BY <2>1, Bounds
  <2> QED
    BY <1>5, <2>1, <2>2, FreshShape DEF SoundDir
<1> QED
  BY <1>5, <1>6, SoundNewRun DEF NoRun

LEMMA SoundEnqueue ==
  ASSUME NEW r, SoundRun(r), NEW urls \in Seq(Url)
  PROVE  SoundRun(EnqueueAll(r, urls))
<1> DEFINE before == [queue |-> r.queue, scheduled |-> r.scheduled]
           todo == FoldLeft(Enqueue, before, urls)
           p == EnqueueAll(r, urls)
<1>1. before \in Todos /\ IsRun(r)
  BY DEF SoundRun, RunHolds
<1>2. p = [r EXCEPT !.queue = todo.queue, !.scheduled = todo.scheduled]
  BY DEF EnqueueAll
<1> HIDE DEF before
<1>3. todo \in Todos
  BY <1>1, FoldEnqueueKeeps
<1> HIDE DEF todo
<1>4. [queue |-> todo.queue, scheduled |-> todo.scheduled] = todo
  BY <1>3 DEF Todos
<1>5. IsRun(p) /\ p.state = r.state
  BY <1>1, EnqueueShape
<1> HIDE DEF p
<1>6. /\ p.queue = todo.queue /\ p.scheduled = todo.scheduled
      /\ p.visited = r.visited /\ p.bytes = r.bytes /\ p.archive = r.archive
  BY <1>1, <1>2 DEF IsRun
<1>7. SoundRun(p)
  BY <1>3, <1>4, <1>5, <1>6 DEF SoundRun, RunHolds
<1> QED
  BY <1>7 DEF p

(* Taking the next URL off the list, whatever the request then costs.      *)
LEMMA SoundPopped ==
  ASSUME SoundRun(run), MayGoOn, NEW bytes \in 0 .. MaxBytes + 1
  PROVE  /\ SoundRun(Popped(bytes)) /\ Popped(bytes).state = run.state
         /\ Popped(bytes).archive = run.archive
<1> DEFINE q == run.queue
           n == Len(run.queue)
           rest == Tail(run.queue)
           p == Popped(bytes)
           new == [queue |-> rest, scheduled |-> run.scheduled]
<1>1. /\ q \in Seq(Url) /\ run.scheduled \in SUBSET Url
      /\ ToSet(q) \subseteq run.scheduled /\ IsInjective(q)
  <2> DEFINE t == [queue |-> q, scheduled |-> run.scheduled]
  <2>1. t \in Todos
    BY DEF SoundRun, RunHolds
  <2>2. t.queue = q /\ t.scheduled = run.scheduled
    OBVIOUS
  <2> HIDE DEF t, q
  <2> QED
    BY <2>1, <2>2 DEF Todos
<1>2. q # <<>>
  BY DEF MayGoOn
<1>3. /\ n \in Nat /\ DOMAIN q = 1 .. n
      /\ rest \in Seq(Url) /\ DOMAIN rest = 1 .. n - 1
      /\ \A i \in 1 .. n - 1 : rest[i] = q[i + 1]
  BY <1>1, <1>2, HeadTailProperties, LenProperties
<1>4. IsRun(run) /\ IsRun(p) /\ p.state = run.state
  BY PoppedShape DEF SoundRun, RunHolds
<1>5. /\ p.queue = rest /\ p.scheduled = run.scheduled /\ p.visited = run.visited + 1
      /\ p.bytes = bytes /\ p.archive = run.archive
  BY <1>4 DEF Popped, IsRun
<1> HIDE DEF q, n, rest, p
<1>6. ToSet(rest) \subseteq run.scheduled
  <2>1. \A i \in 1 .. n : q[i] \in run.scheduled
    BY <1>1, <1>3 DEF ToSet
  <2>2. \A i \in 1 .. n - 1 : i + 1 \in 1 .. n
    BY <1>3
  <2>3. \A i \in 1 .. n - 1 : rest[i] \in run.scheduled
    BY <1>3, <2>1, <2>2
  <2> QED
    BY <1>3, <2>3 DEF ToSet
<1>7. IsInjective(rest)
  <2>1. \A i, j \in 1 .. n : q[i] = q[j] => i = j
    BY <1>1, <1>3 DEF IsInjective
  <2>2. \A i, j \in 1 .. n - 1 : rest[i] = rest[j] => i = j
    BY <1>3, <2>1
  <2> QED
    BY <1>3, <2>2 DEF IsInjective
<1>8. new \in Todos
  BY <1>1, <1>3, <1>6, <1>7 DEF Todos
<1>9. run.visited + 1 \in 0 .. MaxPages
  BY Bounds DEF MayGoOn, SoundRun, RunHolds
<1>10. /\ StateHolds(p.state, Records(p.state)) /\ p.archive = ArchiveBytes(p.state)
  BY <1>4, <1>5 DEF SoundRun, RunHolds
<1>11. [queue |-> p.queue, scheduled |-> p.scheduled] \in Todos
  BY <1>5, <1>8
<1>12. SoundRun(p)
  BY <1>4, <1>5, <1>9, <1>10, <1>11 DEF SoundRun, RunHolds
<1> QED
  BY <1>4, <1>5, <1>12 DEF p

(* A URL with a record is marked as checked: byAge lists what it listed,   *)
(* and that URL.                                                           *)
LEMMA SoundChecked ==
  ASSUME NEW u \in Url, NEW r, NEW known, RunHolds(r, known),
         Records(r.state) = IF r.state.archived[u] = 0 THEN known ELSE known \cup {u}
  PROVE  SoundRun(Checked(r, u))
<1> DEFINE s == r.state
           p == Checked(r, u)
<1>1. IsRun(r) /\ IsState(s) /\ StateHolds(s, known)
  BY DEF RunHolds, StateHolds
<1>2. CASE r.state.archived[u] = 0
  BY <1>2 DEF Checked, SoundRun
<1>3. CASE r.state.archived[u] # 0
  <2> DEFINE age == CheckedNow(s.byAge, u)
  <2>1. p = [r EXCEPT !.state.byAge = age]
    BY <1>3 DEF Checked
  <2>2. /\ age \in Seq(Url) /\ IsInjective(age) /\ ToSet(age) = known \cup {u}
    BY <1>1, CheckedNowKeeps DEF StateHolds, ListsHold
  <2>3. IsRun(p) /\ p.state.archived = s.archived
    BY <1>1, CheckedShape
  <2> HIDE DEF p, age
  <2>4. /\ p.state.byAge = age /\ p.state.pending = s.pending
        /\ p.queue = r.queue /\ p.scheduled = r.scheduled /\ p.visited = r.visited
        /\ p.bytes = r.bytes /\ p.archive = r.archive
    BY <1>1, <2>1 DEF IsRun, IsState
  <2>5. Records(p.state) = known \cup {u}
    <3>1. Records(p.state) = Records(s)
      BY <2>3 DEF Records
    <3> QED
      BY <1>3, <3>1
  <2>6. IsFiniteSet(Records(p.state)) /\ ArchiveBytes(p.state) = ArchiveBytes(s)
    <3>1. s.archived \in [Url -> Nat] /\ IsFiniteSet(Records(s))
      BY <1>1 DEF StateHolds, IsState
    <3>2. Records(p.state) = Records(s) /\ ArchiveBytes(p.state) = ArchiveBytes(s)
      BY <2>3, <3>1, SameArchive
    <3> QED
      BY <3>1, <3>2
  <2>7. IsState(p.state)
    BY <2>3 DEF IsRun
  <2>8. StateHolds(p.state, Records(p.state))
    BY <1>1, <2>2, <2>4, <2>5, <2>6, <2>7 DEF StateHolds, ListsHold
  <2>9. SoundRun(p)
    BY <2>3, <2>4, <2>6, <2>8 DEF SoundRun, RunHolds
  <2> QED
    BY <2>9 DEF p
<1> QED
  BY <1>2, <1>3

LEMMA CheckedKeeps ==
  ASSUME NEW u \in Url, NEW r, SoundRun(r)
  PROVE  SoundRun(Checked(r, u))
<1>1. Records(r.state)
        = IF r.state.archived[u] = 0 THEN Records(r.state) ELSE Records(r.state) \cup {u}
  BY DEF Records
<1> QED
  BY <1>1, SoundChecked DEF SoundRun

(* A version is archived: the sum is carried along as it is counted.       *)
LEMMA SoundArchived ==
  ASSUME NEW u \in Url, NEW v \in Version, SoundRun(run), MayGoOn,
         run.bytes + Size(v) <= MaxBytes, ArchiveAfter(u, v) <= MaxArchive,
         NEW r, r = [Popped(run.bytes + Size(v)) EXCEPT
                       !.state.archived[u] = v, !.archive = ArchiveAfter(u, v)]
  PROVE  SoundRun(Checked(r, u))
<1> DEFINE p == Popped(run.bytes + Size(v))
           s == run.state
           after == ArchiveAfter(u, v)
<1>1. v \in Nat \ {0} /\ Size(v) = v
  BY Bounds DEF Version, Size
<1>2. run.bytes \in Nat /\ run.bytes + Size(v) \in 0 .. MaxBytes + 1
  BY <1>1, Bounds DEF SoundRun, RunHolds
<1>3. SoundRun(p) /\ p.state = s /\ p.archive = run.archive
  BY <1>2, SoundPopped
<1>4. IsRun(p) /\ IsState(s)
  BY <1>3 DEF SoundRun, RunHolds, IsRun
<1>5. s.archived \in [Url -> Nat] /\ s.archived[u] \in Nat /\ IsFiniteSet(Records(s))
  BY <1>3, <1>4 DEF SoundRun, RunHolds, StateHolds, IsState
<1>6. run.archive = ArchiveBytes(s)
  BY DEF SoundRun, RunHolds
<1>7. after = run.archive + v - s.archived[u]
  <2>1. after = run.archive + v - (IF s.archived[u] = 0 THEN 0 ELSE s.archived[u])
    BY <1>1 DEF ArchiveAfter, Size
  <2> QED
    BY <1>5, <2>1
<1>8. after <= MaxArchive
  OBVIOUS
<1> HIDE DEF p, after
<1>9. r = [p EXCEPT !.state.archived[u] = v, !.archive = after]
  BY DEF p, after
<1>10. /\ IsRun(r) /\ r.state.archived = [s.archived EXCEPT ![u] = v]
       /\ r.state.byAge = s.byAge /\ r.state.pending = s.pending
       /\ r.archive = after /\ r.queue = p.queue /\ r.scheduled = p.scheduled
       /\ r.visited = p.visited /\ r.bytes = p.bytes
  <2>1. /\ r.state = [s EXCEPT !.archived[u] = v] /\ r.archive = after
        /\ r.queue = p.queue /\ r.scheduled = p.scheduled
        /\ r.visited = p.visited /\ r.bytes = p.bytes
        /\ r \in [state : {r.state}, queue : {r.queue}, scheduled : {r.scheduled},
                  visited : {r.visited}, bytes : {r.bytes}, archive : {r.archive}]
    BY <1>3, <1>4, <1>9 DEF IsRun
  <2> HIDE DEF s
  <2>2. /\ r.state.archived = [s.archived EXCEPT ![u] = v]
        /\ r.state.byAge = s.byAge /\ r.state.pending = s.pending
        /\ IsState(r.state)
    BY <1>1, <1>4, <1>5, <2>1 DEF IsState
  <2> QED
    BY <2>1, <2>2 DEF IsRun
<1>11. /\ IsFiniteSet(Records(r.state)) /\ Records(r.state) = Records(s) \cup {u}
       /\ ArchiveBytes(r.state) = ArchiveBytes(s) + v - s.archived[u]
  BY <1>1, <1>5, <1>10, ArchiveReplaces
<1>12. ArchiveBytes(r.state) = after
  BY <1>6, <1>7, <1>11
<1>13. StateHolds(r.state, Records(s))
  <2>1. ListsHold(r.state, Records(s))
    BY <1>3, <1>10 DEF SoundRun, RunHolds, StateHolds, ListsHold
  <2>2. IsState(r.state)
    BY <1>10 DEF IsRun
  <2> QED
    BY <1>8, <1>11, <1>12, <2>1, <2>2 DEF StateHolds
<1>14. RunHolds(r, Records(s))
  BY <1>3, <1>10, <1>12, <1>13 DEF SoundRun, RunHolds
<1>15. r.state.archived[u] # 0
  BY <1>1, <1>5, <1>10
<1> QED
  BY <1>11, <1>14, <1>15, SoundChecked

LEMMA SoundFiles ==
  ASSUME NEW d, SoundDir(d), NEW u \in Document, NEW v \in 0 .. Torn
  PROVE  SoundDir([d EXCEPT !.docs[u] = v])
<1> DEFINE e == [d EXCEPT !.docs[u] = v]
<1>1. IsDir(d) /\ d.docs \in [Document -> 0 .. Torn]
  BY DEF SoundDir
<1>2. e.file = d.file /\ e.state = d.state /\ e.docs = [d.docs EXCEPT ![u] = v]
  BY <1>1 DEF IsDir
<1>3. e.docs \in [Document -> 0 .. Torn] /\ v \in Nat
  BY <1>1, <1>2, Bounds
<1>4. IsDir(e)
  BY <1>1, <1>3 DEF IsDir
<1> HIDE DEF e
<1>5. SoundDir(e)
  BY <1>2, <1>3, <1>4 DEF SoundDir
<1> QED
  BY <1>5 DEF e

LEMMA SoundPage ==
  ASSUME SoundDir(dir), SoundRun(run), NEW u \in Url, MayGoOn, CrawlPage(u)
  PROVE  SoundDir(dir') /\ SoundRun(run')
<1>1. /\ run.bytes \in 0 .. MaxBytes + 1 /\ MaxBytes + 1 \in 0 .. MaxBytes + 1
      /\ Links[u] \in Seq(Url)
  BY Bounds, MirrorConstants DEF SoundRun, RunHolds
<1>2. ASSUME NEW v \in 0 .. MaxVersion, run.bytes + Size(v) <= MaxBytes
      PROVE  run.bytes + Size(v) \in 0 .. MaxBytes + 1
  BY <1>1, <1>2, Bounds DEF Size
<1>3. CASE NotModified(u)
  <2>1. SoundRun(Checked(Popped(run.bytes), u))
    BY <1>1, SoundPopped, CheckedKeeps
  <2> QED
    BY <1>1, <1>3, <2>1, SoundEnqueue DEF NotModified
<1>4. CASE HttpError(u)
  BY <1>1, <1>4, SoundPopped, CheckedKeeps DEF HttpError
<1>5. CASE Refused(u)
  <2>1. PICK v \in 0 .. MaxVersion : /\ run.bytes + Size(v) <= MaxBytes
                                     /\ run' = Popped(run.bytes + Size(v))
    BY <1>5 DEF Refused
  <2> QED
    BY <1>2, <1>5, <2>1, SoundPopped DEF Refused
<1>6. CASE TooLong(u)
  <2>1. PICK bytes \in {run.bytes, MaxBytes + 1} : run' = Popped(bytes)
    BY <1>6 DEF TooLong
  <2>2. bytes \in 0 .. MaxBytes + 1
    BY <1>1
  <2> QED
    BY <1>6, <2>1, <2>2, SoundPopped DEF TooLong
<1>7. ASSUME NEW v \in Version, run.bytes + Size(v) <= MaxBytes,
             ArchiveFull(u, v) \/ Archive(u, v)
      PROVE  SoundDir(dir') /\ SoundRun(run')
  <2>1. v \in 0 .. MaxVersion /\ v \in 0 .. Torn
    BY Bounds DEF Version
  <2>2. CASE ArchiveFull(u, v)
    BY <1>2, <1>7, <2>1, <2>2, SoundPopped DEF ArchiveFull
  <2>3. CASE Archive(u, v)
    <3> DEFINE r == [Popped(run.bytes + Size(v)) EXCEPT
                       !.state.archived[u] = v, !.archive = ArchiveAfter(u, v)]
    <3>1. /\ ArchiveAfter(u, v) <= MaxArchive
          /\ run' = EnqueueAll(Checked(r, u), Links[u])
          /\ dir' = IF u \in Document THEN [dir EXCEPT !.docs[u] = v] ELSE dir
      BY <2>3 DEF Archive
    <3>2. SoundRun(Checked(r, u))
      BY <1>7, <3>1, SoundArchived
    <3> HIDE DEF r
    <3>3. SoundRun(run')
      BY <1>1, <3>1, <3>2, SoundEnqueue
    <3>4. SoundDir(dir')
      BY <2>1, <3>1, SoundFiles
    <3> QED
      BY <3>3, <3>4
  <2> QED
    BY <1>7, <2>2, <2>3
<1> QED
  BY <1>3, <1>4, <1>5, <1>6, <1>7 DEF CrawlPage

LEMMA FaultKnown ==
  ASSUME faults \subseteq FaultKind, NEW kind, Fault(kind)
  PROVE  faults' \subseteq FaultKind
BY MirrorConstants DEF Fault

LEMMA BudgetInit == Init => BudgetInv
BY SoundFresh DEF Init, BudgetInv, Phase, EmptyDir

LEMMA BudgetStep == BudgetInv /\ [Next]_vars => BudgetInv'
<1> SUFFICES ASSUME BudgetInv, [Next]_vars PROVE BudgetInv'
  OBVIOUS
<1> USE DEF BudgetInv
<1>1. CASE Restore
  <2>1. phase' = "restored" /\ cache' = cache /\ run' = run
    BY <1>1 DEF Restore
  <2>2. faults' \subseteq FaultKind
    BY <1>1, FaultKnown DEF Restore, NoFault
  <2>3. SoundDir(dir')
    <3>1. CASE dir' = cache
      BY <3>1
    <3>2. CASE dir' = [cache EXCEPT !.file = "corrupt", !.state = FreshState]
      <4>1. /\ IsDir(dir') /\ dir'.file = "corrupt" /\ dir'.state = FreshState
            /\ dir'.docs = cache.docs
        BY <3>2, FreshShape DEF SoundDir, IsDir
      <4> QED
        BY <4>1, SoundFresh DEF SoundDir
    <3> QED
      BY <1>1, <3>1, <3>2 DEF Restore
  <2> QED
    BY <2>1, <2>2, <2>3 DEF Phase
<1>2. CASE Load
  <2>1. SoundRun(run')
    BY <1>2, SoundNewRun DEF Load, SoundDir
  <2>2. /\ IsDir(dir') /\ dir'.state = dir.state /\ dir'.docs = dir.docs
        /\ dir'.file \in {"absent", "corrupt", "valid"}
    BY <1>2 DEF Load, SoundDir, IsDir
  <2>3. SoundDir(dir')
    BY <2>2 DEF SoundDir
  <2> QED
    BY <1>2, <2>1, <2>3 DEF Load, NoFault, Phase
<1>3. CASE ReadRobots
  <2>1. PICK sitemap \in {<<>>, Sitemap} :
          run' = EnqueueAll(run, WorkList(run.state, sitemap))
    BY <1>3 DEF ReadRobots
  <2>2. /\ run.state.pending \in Seq(Url) /\ run.state.byAge \in Seq(Url)
        /\ Seeds \in Seq(Url) /\ sitemap \in Seq(Url)
    <3>1. Seeds \in Seq(Url) /\ Sitemap \in Seq(Url) /\ <<>> \in Seq(Url)
      BY MirrorConstants, EmptyListInjective
    <3> QED
      BY <3>1 DEF SoundRun, RunHolds, StateHolds, ListsHold
  <2>3. WorkList(run.state, sitemap) \in Seq(Url)
    BY <2>2 DEF WorkList
  <2>4. SoundRun(run')
    BY <2>1, <2>3, SoundEnqueue
  <2> QED
    BY <1>3, <2>4 DEF ReadRobots, NoFault, Phase
<1>4. ASSUME NEW u \in Url, Visit(u) PROVE BudgetInv'
  <2>1. SoundDir(dir') /\ SoundRun(run')
    BY <1>4, SoundPage DEF Visit
  <2> QED
    BY <1>4, <2>1 DEF Visit, NoFault
<1>5. ASSUME NEW s, SoundState(s), WriteState(s) PROVE SoundDir(dir') /\ SoundRun(run')
             /\ cache' = cache /\ phase' \in Phase
  <2>1. IsState(s) /\ dir' = [dir EXCEPT !.file = "valid", !.state = s] /\ run' = NoRun
    BY <1>5 DEF WriteState, SoundState, StateHolds
  <2>2. IsDir(dir') /\ dir'.file = "valid" /\ dir'.state = s /\ dir'.docs = dir.docs
    BY <2>1 DEF SoundDir, IsDir
  <2>3. SoundDir(dir')
    BY <1>5, <2>2 DEF SoundDir
  <2> QED
    BY <1>5, <2>1, <2>3, SoundFresh DEF WriteState, Phase
<1>6. CASE RobotsFail
  BY <1>5, <1>6 DEF RobotsFail, NoFault, SoundRun, RunHolds, SoundState
<1>7. CASE Finish
  <2> DEFINE s == [run.state EXCEPT !.pending = run.queue]
  <2>1. IsState(run.state) /\ StateHolds(run.state, Records(run.state))
    BY DEF SoundRun, RunHolds, StateHolds
  <2>2. run.queue \in Seq(Url) /\ IsInjective(run.queue)
    <3> DEFINE t == [queue |-> run.queue, scheduled |-> run.scheduled]
    <3>1. t \in Todos
      BY DEF SoundRun, RunHolds
    <3>2. t.queue = run.queue
      OBVIOUS
    <3> HIDE DEF t
    <3> QED
      BY <3>1, <3>2 DEF Todos
  <2>3. /\ IsState(s) /\ s.archived = run.state.archived
        /\ s.byAge = run.state.byAge /\ s.pending = run.queue
    BY <2>1 DEF IsState
  <2>4. WriteState(s) /\ faults' \subseteq FaultKind
    BY <1>7, FaultKnown DEF Finish, NoFault
  <2> HIDE DEF s
  <2>5. Records(s) = Records(run.state) /\ ArchiveBytes(s) = ArchiveBytes(run.state)
    <3>1. run.state.archived \in [Url -> Nat] /\ IsFiniteSet(Records(run.state))
      BY <2>1 DEF StateHolds, IsState
    <3> QED
      BY <2>3, <3>1, SameArchive
  <2>6. SoundState(s)
    BY <2>1, <2>2, <2>3, <2>5 DEF SoundState, StateHolds, ListsHold
  <2> QED
    BY <1>5, <2>4, <2>6
<1>8. CASE Kill
  <2>1. phase' = "ended" /\ run' = NoRun /\ cache' = cache /\ faults' \subseteq FaultKind
    BY <1>8, FaultKnown DEF Kill
  <2>2. SoundDir(dir')
    <3>1. CASE dir' = dir
      BY <3>1
    <3>2. ASSUME NEW u \in Document, dir' = [dir EXCEPT !.docs[u] = Torn]
          PROVE  SoundDir(dir')
      <4>1. Torn \in 0 .. Torn
        BY Bounds
      <4> QED
        BY <3>2, <4>1, SoundFiles
    <3> QED
      BY <1>8, <3>1, <3>2 DEF Kill
  <2> QED
    BY <2>1, <2>2, SoundFresh DEF Phase
<1>9. CASE Lose
  BY <1>9, SoundFresh, FaultKnown DEF Lose, Phase
<1>10. CASE SaveCache
  <2>1. SoundDir(cache') /\ cache'.file # "corrupt"
    BY <1>10 DEF SaveCache, Validates
  <2> QED
    BY <1>10, <2>1, SoundFresh DEF SaveCache, NoFault, Phase
<1>11. CASE Evict
  <2>1. EmptyDir.file # "corrupt"
    BY DEF EmptyDir
  <2> QED
    BY <1>11, <2>1, SoundFresh, FaultKnown DEF Evict
<1>12. CASE UNCHANGED vars
  BY <1>12 DEF vars
<1> QED
  BY <1>1, <1>2, <1>3, <1>4, <1>6, <1>7, <1>8, <1>9, <1>10, <1>11, <1>12 DEF Next

LEMMA BudgetTypes == BudgetInv => TypeOK
<1> SUFFICES ASSUME BudgetInv PROVE TypeOK
  OBVIOUS
<1>1. cache.file \in {"absent", "valid"}
  BY DEF BudgetInv, SoundDir
<1>2. ASSUME NEW d \in {cache, dir}
      PROVE  /\ d.file \in {"absent", "corrupt", "valid"}
             /\ d.docs \in [Document -> 0 .. Torn]
             /\ ToSet(d.state.byAge) = Records(d.state) /\ IsInjective(d.state.byAge)
             /\ IsInjective(d.state.pending)
  BY <1>2 DEF BudgetInv, SoundDir, SoundState, StateHolds, ListsHold
<1>3. ToSet(run.queue) \subseteq run.scheduled /\ IsInjective(run.queue)
  <2> DEFINE t == [queue |-> run.queue, scheduled |-> run.scheduled]
  <2>1. t \in Todos
    BY DEF BudgetInv, SoundRun, RunHolds
  <2>2. t.queue = run.queue /\ t.scheduled = run.scheduled
    OBVIOUS
  <2> HIDE DEF t
  <2> QED
    BY <2>1, <2>2 DEF Todos
<1> QED
  BY <1>1, <1>2, <1>3 DEF TypeOK, BudgetInv, SoundRun, RunHolds

(* The archive stays within max_archive_bytes, over any number of runs,    *)
(* kills and evictions: the sum that crawl_page carries along is that of   *)
(* the records in the run, and the one of the records in the cache and in  *)
(* the directory never was above it.  The lists of state.json hold each    *)
(* record once, and the queue each URL it has scheduled.                   *)
THEOREM BudgetIsKept == Spec => []WithinArchiveBudget
<1>1. BudgetInv => WithinArchiveBudget
  BY BudgetTypes
  DEF BudgetInv, SoundDir, SoundRun, SoundState, RunHolds, StateHolds, WithinArchiveBudget
<1>2. QED
  BY <1>1, BudgetInit, BudgetStep, PTL DEF Spec
===============================================================================
