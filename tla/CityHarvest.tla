----------------------------- MODULE CityHarvest -----------------------------
(***************************************************************************)
(* The harvester of tools/anycity_crawler.py: a crawl of a town's websites *)
(* in the order of a priority queue, resumed from one run to the next      *)
(* through state.json.                                                     *)
(*                                                                         *)
(* The queue is a binary heap kept by heapq.  What is left of it when a    *)
(* run's budget is used up is saved in the order of the heap's array, and  *)
(* scheduled in that order by the next run.  The state directory is        *)
(* written as documents arrive and once at the end of a run; the output    *)
(* directory is written after that.  Bodies are numbered versions.         *)
(***************************************************************************)
EXTENDS Naturals, Sequences, FiniteSets, FiniteSetsExt, SequencesExt

CONSTANTS
  Url,             \* the URLs in scope (canonical does not return None)
  Document,        \* those that serve a supported document, the others pages
  DocumentUrl,     \* those whose path ends in .pdf or .txt
  Links,           \* Links[u] is the sequence of the in-scope links of page u
  Score,           \* what score_candidate says of a URL by itself,
  AnchorScore,     \* and together with the text of the links to it
  FocusedMinScore, \* focused_min_score
  Seed,            \* the profile's seed
  SuggestedSeeds,  \* the profile's wrapper.suggested_seeds
  MaxVersion,      \* how many versions of a body there are at most,
  Versions,        \* and how many there are of each
  MaxPages,        \* max_pages_per_run
  FaultKinds,      \* which faults may happen, and happen again, see FaultKind
  MaxKinds         \* how many kinds of fault happen in one behaviour

FaultKind == {"corrupt",  \* state.json is unreadable when a run starts
              "kill",     \* the process is killed
              "budget"}   \* the run is out of bytes or time before its queue is empty

(* The scores of enqueue's fixed priorities.                               *)
SeedScore == 10000
PendingScore == 9000
SuggestedScore == 8000
RecordScore == 1

ASSUME HarvestConstants ==
  /\ Document \subseteq Url /\ DocumentUrl \subseteq Url
  /\ Links \in [Url -> Seq(Url)] /\ \A d \in Document : Links[d] = <<>>
  /\ {Score, AnchorScore} \subseteq [Url -> 0 .. SuggestedScore - 1]
  /\ \A u \in Url : Score[u] <= AnchorScore[u]
  /\ Seed \in Url /\ SuggestedSeeds \in Seq(Url)
  /\ {FocusedMinScore, MaxKinds} \subseteq Nat
  /\ {MaxVersion, MaxPages} \subseteq Nat \ {0}
  /\ Versions \in [Url -> 1 .. MaxVersion]
  /\ FaultKinds \subseteq FaultKind

Version(u) == 1 .. Versions[u]
Torn == MaxVersion + 1      \* a file whose write was cut short
MaxDepth == 2               \* stands for every depth from 2 on

VARIABLES
  disk,     \* the state directory: state.json and documents/
  out,      \* the output directory: catalog.json, documents.jsonl, documents/
  phase,    \* where the process is
  run,      \* the Harvester object
  faults    \* the kinds of fault that have happened so far

vars == <<disk, out, phase, run, faults>>

Phase == {"idle", "crawling", "saved", "copied"}

(* state.json: the archived version of each URL (0 without a record), the  *)
(* records by checked_at, and the URLs left over for the next run.         *)
FreshState == [archived |-> [u \in Url |-> 0], byAge |-> <<>>, pending |-> <<>>]
Records(state) == {u \in Url : state.archived[u] # 0}
Known(state) == Records(state) \cup ToSet(state.pending)

NoFiles == [u \in Document |-> 0]
NewRun(state) == [state |-> state, heap |-> <<>>, scheduled |-> {}, visited |-> 0]
NoRun == NewRun(FreshState)

-------------------------------------------------------------------------------
(* heapq on tuples <<-score, counter, url, depth>>: the counter decides    *)
(* between equal scores.                                                   *)
Before(a, b) == a.score > b.score \/ (a.score = b.score /\ a.n < b.n)

(* The positions from the root to a position.                              *)
PathTo[p \in Nat \ {0}] == IF p = 1 THEN {1} ELSE {p} \cup PathTo[p \div 2]

(* The new entry goes to the end, and on the path to there every entry     *)
(* that is not before it moves one place down.                             *)
HeapPush(heap, e) ==
  LET end == Len(heap) + 1
      stays(p) == p \notin PathTo[end] \/ (p # end /\ Before(heap[p], e))
  IN [p \in 1 .. end |->
        IF stays(p) THEN heap[p]
        ELSE IF p = 1 \/ Before(heap[p \div 2], e) THEN e
        ELSE heap[p \div 2]]

SmallerChild(heap, p) ==
  IF p % 2 = 0 THEN p + 1 \notin DOMAIN heap \/ Before(heap[p], heap[p + 1])
  ELSE ~ Before(heap[p - 1], heap[p])

(* The last entry goes to the root, and on the path of the smaller         *)
(* children every entry that is before it moves one place up.              *)
PathDown(heap) ==
  {p \in DOMAIN heap : \A q \in PathTo[p] \ {1} : SmallerChild(heap, q)}

HeapPop(heap) ==
  LET last == Last(heap)
      rest == Front(heap)
      path == PathDown(rest)
      movesUp(c) == c \in path \ {1} /\ Before(rest[c], last)
  IN [p \in DOMAIN rest |->
        IF \E c \in path : c \div 2 = p /\ movesUp(c)
        THEN rest[CHOOSE c \in path : c \div 2 = p]
        ELSE IF p = 1 \/ movesUp(p) THEN last
        ELSE rest[p]]

Urls(heap) == [i \in DOMAIN heap |-> heap[i].url]

TypeOK ==
  /\ phase \in Phase
  /\ \A state \in {disk.state, run.state} :
       /\ state.archived \in [Url -> 0 .. MaxVersion]
       /\ ToSet(state.byAge) = Records(state) /\ IsInjective(state.byAge)
       /\ ToSet(state.pending) \subseteq Url /\ IsInjective(state.pending)
  /\ {disk.docs, out.docs} \subseteq [Document -> 0 .. Torn]
  /\ out.listed \subseteq Document
  /\ ToSet(Urls(run.heap)) \subseteq run.scheduled /\ IsInjective(Urls(run.heap))
  /\ \A p \in 2 .. Len(run.heap) : Before(run.heap[p \div 2], run.heap[p])
  /\ run.visited \in 0 .. MaxPages
  /\ faults \subseteq FaultKind

Init ==
  /\ disk = [state |-> FreshState, docs |-> NoFiles]
  /\ out = [catalog |-> FreshState.archived, listed |-> {}, docs |-> NoFiles]
  /\ phase = "idle" /\ run = NoRun
  /\ faults = {}

Fault(kind) == /\ kind \in FaultKinds
               /\ faults' = faults \cup {kind}
               /\ Cardinality(faults') <= MaxKinds
NoFault == UNCHANGED faults

-------------------------------------------------------------------------------
(* enqueue: a URL is scheduled once in a run, with its first score.        *)
Enqueue(r, u, score, depth) ==
  IF u \in r.scheduled THEN r
  ELSE LET n == Cardinality(r.scheduled) + 1
       IN [r EXCEPT !.scheduled = @ \cup {u},
                    !.heap = HeapPush(@, [score |-> score, n |-> n, url |-> u, depth |-> depth])]

(* Of a sequence of URLs the wanted ones are scheduled, in its order.      *)
EnqueueEach(r, urls, wanted, scores, depth) ==
  LET after[i \in 0 .. Len(urls)] ==
        IF i = 0 THEN r
        ELSE IF urls[i] \in wanted
        THEN Enqueue(after[i - 1], urls[i], scores[urls[i]], depth)
        ELSE after[i - 1]
  IN after[Len(urls)]

EnqueueAll(r, urls, score) == EnqueueEach(r, urls, Url, [u \in Url |-> score], 1)

(* Mutant: the work left over competes with what is found.                 *)
WorkListLeftoversLast(r) ==
  LET withSeed == Enqueue(r, Seed, SeedScore, 0)
      withSuggested == EnqueueAll(withSeed, SuggestedSeeds, SuggestedScore)
  IN EnqueueAll(EnqueueAll(withSuggested, r.state.pending, RecordScore),
                r.state.byAge, RecordScore)

(* What a run starts with; the records longest unchecked first.            *)
WorkList(r) ==
  LET withPending == EnqueueAll(r, r.state.pending, PendingScore)
      withSeed == Enqueue(withPending, Seed, SeedScore, 0)
      withSuggested == EnqueueAll(withSeed, SuggestedSeeds, SuggestedScore)
  IN EnqueueAll(withSuggested, r.state.byAge, RecordScore)

(* _load_state moves an unreadable state.json away and starts afresh.      *)
Start ==
  /\ phase = "idle"
  /\ phase' = "crawling"
  /\ \/ NoFault /\ UNCHANGED disk
     \/ Fault("corrupt") /\ disk' = [disk EXCEPT !.state = FreshState]
  /\ run' = WorkList(NewRun(disk'.state))
  /\ UNCHANGED out

MayGoOn == run.heap # <<>> /\ run.visited < MaxPages

Popped == [run EXCEPT !.heap = HeapPop(@), !.visited = @ + 1]

CheckedNow(byAge, u) == Append(RemoveFirst(byAge, u), u)
Checked(r, u) == IF r.state.archived[u] = 0 THEN r
                 ELSE [r EXCEPT !.state.byAge = CheckedNow(@, u)]

(* The links of a page are scheduled if they look like records, or if the  *)
(* page is the seed.                                                       *)
Worthwhile(u, score, depth) ==
  u \in DocumentUrl \/ score >= FocusedMinScore \/ depth <= 1

EnqueueLinks(r, u, depth, scores) ==
  LET deeper == IF depth = MaxDepth THEN MaxDepth ELSE depth + 1
      wanted == {v \in Url : Worthwhile(v, scores[v], deeper)}
  IN EnqueueEach(r, Links[u], wanted, scores, deeper)

(* 304: the links are known, the text of the links is not.                 *)
NotModified(u, depth) ==
  /\ run.state.archived[u] # 0
  /\ run' = EnqueueLinks(Checked(Popped, u), u, depth, Score)
  /\ UNCHANGED disk

(* Any other status but 200: the record stays and is marked as checked.    *)
HttpError(u) == run' = Checked(Popped, u) /\ UNCHANGED disk

(* Disallowed by the robots.txt of its host, a robots.txt that cannot be   *)
(* read, a failing connection, a redirect out of scope, an unsupported     *)
(* type, a PDF that is none, or a budget that does not allow the body: the *)
(* record stays as it is.                                                  *)
Refused(u) == run' = Popped /\ UNCHANGED disk

(* 200: the document is written to the state directory at once.            *)
Archive(u, depth, v) ==
  /\ run' = EnqueueLinks(Checked([Popped EXCEPT !.state.archived[u] = v], u),
                         u, depth, AnchorScore)
  /\ disk' = IF u \in Document THEN [disk EXCEPT !.docs[u] = v] ELSE disk

(* One turn of the loop of run() with fetch_one.                           *)
Visit(u) ==
  /\ phase = "crawling" /\ MayGoOn /\ u = run.heap[1].url
  /\ LET depth == run.heap[1].depth IN
       \/ NotModified(u, depth) \/ HttpError(u) \/ Refused(u)
       \/ \E v \in Version(u) : Archive(u, depth, v)
  /\ UNCHANGED <<out, phase>> /\ NoFault

(* Mutant: the next URL is taken off the queue before the budget is looked *)
(* at.                                                                     *)
LeftoverAfterPop == IF run.heap = <<>> THEN <<>> ELSE Urls(HeapPop(run.heap))

(* pending, in the order of the heap's array.                              *)
Leftover == Urls(run.heap)

(* The end of the loop: state.json is replaced.                            *)
SaveState ==
  /\ phase = "crawling"
  /\ phase' = "saved"
  /\ disk' = [disk EXCEPT !.state = [run.state EXCEPT !.pending = Leftover]]
  /\ run' = NoRun
  /\ UNCHANGED out
  /\ IF MayGoOn THEN Fault("budget") ELSE NoFault

(* The documents that write_outputs copies and lists.                      *)
Listed == {u \in Document \cap Records(disk.state) : disk.docs[u] # 0}
CopiedDocuments(urls) ==
  [u \in Document |-> IF u \in urls THEN disk.docs[u] ELSE out.docs[u]]

(* Mutant: only documents that are not there yet are copied.               *)
CopyNewDocuments ==
  /\ phase = "saved"
  /\ phase' = "copied"
  /\ out' = [out EXCEPT !.docs = CopiedDocuments({u \in Listed : out.docs[u] = 0})]
  /\ UNCHANGED <<disk, run>> /\ NoFault

(* write_outputs copies the documents first,                               *)
CopyDocuments ==
  /\ phase = "saved"
  /\ phase' = "copied"
  /\ out' = [out EXCEPT !.docs = CopiedDocuments(Listed)]
  /\ UNCHANGED <<disk, run>> /\ NoFault

(* and then lists them.                                                    *)
WriteCatalog ==
  /\ phase = "copied"
  /\ phase' = "idle"
  /\ out' = [out EXCEPT !.catalog = disk.state.archived, !.listed = Listed]
  /\ UNCHANGED <<disk, run>> /\ NoFault

(* The process is killed, in the middle of writing a document or not.      *)
Kill ==
  /\ phase # "idle"
  /\ phase' = "idle" /\ run' = NoRun
  /\ \/ UNCHANGED <<disk, out>>
     \/ /\ phase = "crawling" /\ MayGoOn /\ run.heap[1].url \in Document
        /\ disk' = [disk EXCEPT !.docs[run.heap[1].url] = Torn]
        /\ UNCHANGED out
     \/ /\ phase = "saved"
        /\ \E copied \in SUBSET Listed, torn \in Listed :
             out' = [out EXCEPT !.docs = [CopiedDocuments(copied) EXCEPT ![torn] = Torn]]
        /\ UNCHANGED disk
  /\ Fault("kill")

Next ==
  \/ Start
  \/ \E u \in Url : Visit(u)
  \/ SaveState \/ CopyDocuments \/ WriteCatalog \/ Kill

Spec == Init /\ [][Next]_vars
=============================================================================
