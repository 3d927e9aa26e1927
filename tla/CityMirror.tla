------------------------------ MODULE CityMirror ------------------------------
(***************************************************************************)
(* The mirror of the city website: the crawler tools/sync_city.py, the     *)
(* gate tools/validate_mirror_snapshot.py, and the crawl job of            *)
(* .github/workflows/pages.yml that carries the snapshot from one run to   *)
(* the next through the Actions cache.  The publish job only renders what  *)
(* the cache holds (Rendered).                                             *)
(*                                                                         *)
(* A crawl job restores the latest cache, loads state.json, reads          *)
(* robots.txt, works through a queue of URLs, writes state.json once at    *)
(* its end, and saves the directory if the gate lets it.  Documents are    *)
(* written as they are fetched, so the directory is between two snapshots  *)
(* while a crawl runs.  The bodies behind a URL are numbered versions.     *)
(***************************************************************************)
EXTENDS Naturals, Sequences, FiniteSets, FiniteSetsExt, SequencesExt

CONSTANTS
  Url,          \* the URLs in scope (canonical does not return None)
  Document,     \* those that serve a supported document, the others pages
  Links,        \* Links[u] is the sequence of the in-scope links of page u
  Seeds,        \* config seeds
  Sitemap,      \* the pages the sitemaps list
  MaxVersion,   \* how many versions of a body there are
  MaxPages,     \* max_pages_per_run
  MaxBytes,     \* max_bytes_per_run
  MaxArchive,   \* max_archive_bytes
  FaultKinds,   \* which faults may happen, and happen again, see FaultKind
  MaxKinds      \* how many kinds of fault happen in one behaviour

FaultKind == {"restore",   \* the restored state.json is unreadable
              "evict",     \* the cache is evicted
              "kill",      \* the crawl is killed before it ends
              "deadline"}  \* the run's time is up before its queue is empty

ASSUME MirrorConstants ==
  /\ Document \subseteq Url
  /\ Links \in [Url -> Seq(Url)] /\ Seeds \in Seq(Url) /\ Sitemap \in Seq(Url)
  /\ {MaxVersion, MaxPages, MaxBytes, MaxArchive} \subseteq Nat \ {0}
  /\ FaultKinds \subseteq FaultKind
  /\ MaxKinds \in Nat

Version == 1 .. MaxVersion
Torn == MaxVersion + 1      \* a file whose write was cut short
Size(v) == v                \* a later version is longer

VARIABLES
  cache,    \* the directory as last saved
  dir,      \* the directory .cache/city-mirror of the crawl job
  phase,    \* where the crawl job is
  run,      \* the Mirror object of the crawl job
  faults    \* the kinds of fault that have happened so far

vars == <<cache, dir, phase, run, faults>>

Phase == {"idle", "restored", "started", "crawling", "ended"}

(* state.json: the archived version of each URL (0 without a record), the  *)
(* records by checked_at, and the URLs left over for the next run.         *)
FreshState == [archived |-> [u \in Url |-> 0], byAge |-> <<>>, pending |-> <<>>]
Records(state) == {u \in Url : state.archived[u] # 0}

(* The directory: state.json and the files under documents/.               *)
EmptyDir == [file |-> "absent", state |-> FreshState, docs |-> [u \in Document |-> 0]]
ArchiveBytes(state) == MapThenSumSet(LAMBDA u : Size(state.archived[u]), Records(state))

NewRun(state) ==
  [state |-> state, queue |-> <<>>, scheduled |-> {}, visited |-> 0, bytes |-> 0,
   archive |-> ArchiveBytes(state)]
NoRun == NewRun(FreshState)

TypeOK ==
  /\ cache.file \in {"absent", "valid"}
  /\ \A d \in {cache, dir} :
       /\ d.file \in {"absent", "corrupt", "valid"}
       /\ d.docs \in [Document -> 0 .. Torn]
       /\ ToSet(d.state.byAge) = Records(d.state) /\ IsInjective(d.state.byAge)
       /\ IsInjective(d.state.pending)
  /\ phase \in Phase
  /\ ToSet(run.queue) \subseteq run.scheduled /\ IsInjective(run.queue)
  /\ run.visited \in 0 .. MaxPages
  /\ run.bytes \in 0 .. MaxBytes + 1
  /\ faults \subseteq FaultKind

Init ==
  /\ cache = EmptyDir /\ dir = EmptyDir
  /\ phase = "idle" /\ run = NoRun
  /\ faults = {}

Fault(kind) == /\ kind \in FaultKinds
               /\ faults' = faults \cup {kind}
               /\ Cardinality(faults') <= MaxKinds
NoFault == UNCHANGED faults

-------------------------------------------------------------------------------
(* The job starts in an empty workspace and restores the latest cache.     *)
Restore ==
  /\ phase = "idle"
  /\ phase' = "restored"
  /\ \/ dir' = cache /\ NoFault
     \/ /\ cache.file = "valid"
        /\ dir' = [cache EXCEPT !.file = "corrupt", !.state = FreshState]
        /\ Fault("restore")
  /\ UNCHANGED <<cache, run>>

(* _load_state: an unreadable file is moved out of the directory and the   *)
(* run goes on from an empty state.                                        *)
Load ==
  /\ phase = "restored"
  /\ phase' = "started"
  /\ run' = NewRun(dir.state)
  /\ dir' = [dir EXCEPT !.file = IF @ = "valid" THEN @ ELSE "absent"]
  /\ UNCHANGED cache /\ NoFault

(* enqueue: a URL is scheduled once in a run.                              *)
Enqueue(todo, u) ==
  IF u \in todo.scheduled THEN todo
  ELSE [queue |-> Append(todo.queue, u), scheduled |-> todo.scheduled \cup {u}]

EnqueueAll(r, urls) ==
  LET todo == FoldLeft(Enqueue, [queue |-> r.queue, scheduled |-> r.scheduled], urls)
  IN [r EXCEPT !.queue = todo.queue, !.scheduled = todo.scheduled]

(* Mutant: the seeds and the sitemaps come before the work left over.      *)
WorkListSeedsFirst(state, sitemap) ==
  Seeds \o sitemap \o state.pending \o state.byAge

(* The work left over comes first, what has a record already comes last,   *)
(* longest unchecked first.  Sitemaps that cannot be read list nothing.    *)
WorkList(state, sitemap) == state.pending \o Seeds \o sitemap \o state.byAge

ReadRobots ==
  /\ phase = "started"
  /\ phase' = "crawling"
  /\ \E sitemap \in {<<>>, Sitemap} :
       run' = EnqueueAll(run, WorkList(run.state, sitemap))
  /\ UNCHANGED <<cache, dir>> /\ NoFault

(* The end of run(): state.json is replaced, whatever the run has seen.    *)
WriteState(state) ==
  /\ dir' = [dir EXCEPT !.file = "valid", !.state = state]
  /\ phase' = "ended"
  /\ run' = NoRun
  /\ UNCHANGED cache

RobotsFail == phase = "started" /\ WriteState(run.state) /\ NoFault

-------------------------------------------------------------------------------
(* The loop of run() takes the next URL and gives it to crawl_page.        *)
MayGoOn == run.queue # <<>> /\ run.visited < MaxPages /\ run.bytes < MaxBytes

Popped(bytes) == [run EXCEPT !.queue = Tail(@), !.visited = @ + 1, !.bytes = bytes]

CheckedNow(byAge, u) == Append(RemoveFirst(byAge, u), u)

Checked(r, u) == IF r.state.archived[u] = 0 THEN r
                 ELSE [r EXCEPT !.state.byAge = CheckedNow(@, u)]

(* 304: the links of the archived version are followed.                    *)
NotModified(u) ==
  /\ run.state.archived[u] # 0
  /\ run' = EnqueueAll(Checked(Popped(run.bytes), u), Links[u])
  /\ UNCHANGED dir

(* Mutant: a source that has disappeared is dropped.                       *)
HttpErrorForgets(u) ==
  /\ run' = [Popped(run.bytes) EXCEPT
               !.state.archived[u] = 0,
               !.state.byAge = RemoveFirst(@, u),
               !.archive = ArchiveBytes([run.state EXCEPT !.archived[u] = 0])]
  /\ UNCHANGED dir

(* Any other status but 200: the record stays and is marked as checked.    *)
HttpError(u) == run' = Checked(Popped(run.bytes), u) /\ UNCHANGED dir

(* Disallowed by robots.txt, a connection that fails, a redirect out of    *)
(* scope, or, with the body downloaded, an unsupported type or a PDF that  *)
(* is none: the record stays as it is.                                     *)
Refused(u) ==
  /\ \E v \in 0 .. MaxVersion :
       /\ run.bytes + Size(v) <= MaxBytes
       /\ run' = Popped(run.bytes + Size(v))
  /\ UNCHANGED dir

(* The body does not fit in what is left of the download budget, by its    *)
(* Content-Length or when one byte more than that has been read.           *)
TooLong(u) ==
  /\ \E v \in Version : run.bytes + Size(v) > MaxBytes
  /\ \E bytes \in {run.bytes, MaxBytes + 1} : run' = Popped(bytes)
  /\ UNCHANGED dir

(* Mutant: the bytes of the version that is replaced are not given back.   *)
ArchiveAfterAdding(u, v) == run.archive + Size(v)

ArchiveAfter(u, v) ==
  LET old == run.state.archived[u] IN
  run.archive + Size(v) - (IF old = 0 THEN 0 ELSE Size(old))

(* Mutant: the document is written before the budget is checked.           *)
ArchiveFullAfterWrite(u, v) ==
  /\ ArchiveAfter(u, v) > MaxArchive
  /\ run' = Popped(run.bytes + Size(v))
  /\ dir' = IF u \in Document THEN [dir EXCEPT !.docs[u] = v] ELSE dir

ArchiveFull(u, v) ==
  /\ ArchiveAfter(u, v) > MaxArchive
  /\ run' = Popped(run.bytes + Size(v))
  /\ UNCHANGED dir

(* 200: the document is written to the directory, the record replaced.     *)
Archive(u, v) ==
  /\ ArchiveAfter(u, v) <= MaxArchive
  /\ dir' = IF u \in Document THEN [dir EXCEPT !.docs[u] = v] ELSE dir
  /\ run' = LET r == [Popped(run.bytes + Size(v)) EXCEPT
                        !.state.archived[u] = v, !.archive = ArchiveAfter(u, v)]
            IN EnqueueAll(Checked(r, u), Links[u])

CrawlPage(u) ==
  \/ NotModified(u) \/ HttpError(u) \/ Refused(u) \/ TooLong(u)
  \/ \E v \in Version : /\ run.bytes + Size(v) <= MaxBytes
                         /\ (ArchiveFull(u, v) \/ Archive(u, v))

Visit(u) ==
  /\ phase = "crawling" /\ MayGoOn /\ u = Head(run.queue)
  /\ CrawlPage(u)
  /\ UNCHANGED <<cache, phase>> /\ NoFault

Finish ==
  /\ phase = "crawling"
  /\ WriteState([run.state EXCEPT !.pending = run.queue])
  /\ IF MayGoOn THEN Fault("deadline") ELSE NoFault

(* The step's timeout ends the process, in the middle of writing a         *)
(* document or not; the steps after it run (if: always()).                 *)
Kill ==
  /\ phase \in {"restored", "started", "crawling"}
  /\ phase' = "ended" /\ run' = NoRun
  /\ \/ UNCHANGED dir
     \/ /\ phase = "crawling" /\ MayGoOn /\ Head(run.queue) \in Document
        /\ dir' = [dir EXCEPT !.docs[Head(run.queue)] = Torn]
  /\ Fault("kill") /\ UNCHANGED cache

(* The whole job is lost, with its workspace.                              *)
Lose ==
  /\ phase # "idle"
  /\ phase' = "idle" /\ run' = NoRun /\ dir' = EmptyDir
  /\ Fault("kill") /\ UNCHANGED cache

(* validate_mirror_snapshot lets a readable state.json of the right shape  *)
(* pass, and the directory becomes the latest cache.                       *)
Validates(d) == d.file = "valid"

SaveCache ==
  /\ phase = "ended"
  /\ phase' = "idle" /\ dir' = EmptyDir
  /\ cache' = IF Validates(dir) THEN dir ELSE cache
  /\ UNCHANGED run /\ NoFault

Evict == cache' = EmptyDir /\ Fault("evict") /\ UNCHANGED <<dir, phase, run>>

Next ==
  \/ Restore \/ Load \/ ReadRobots \/ RobotsFail
  \/ \E u \in Url : Visit(u)
  \/ Finish \/ Kill \/ Lose \/ SaveCache \/ Evict

Spec == Init /\ [][Next]_vars

-------------------------------------------------------------------------------
(* render, as the publish job runs it on the cache: each record is shown   *)
(* with its fingerprint, a document only if its file is there.             *)
Rendered(d) ==
  {u \in Records(d.state) : u \in Document => d.docs[u] # 0}
Shown(d, u) == IF u \in Document THEN d.docs[u] ELSE d.state.archived[u]
=============================================================================
