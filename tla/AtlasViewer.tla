----------------------------- MODULE AtlasViewer -----------------------------
(***************************************************************************)
(* One tab of the Atlas on the data set AtlasLock keeps: js/lock.js with   *)
(* the part of js/app.js and js/core.js that reads through it.  Between a  *)
(* fetch and the use of its answer the tools go on working on the disk and *)
(* the person goes on clicking.                                            *)
(*                                                                         *)
(* Only the manifest is asked of the server every time.  The head and the  *)
(* blobs are fetched with cache: 'force-cache', and their names (head.bin, *)
(* b00001.bin ...) are the same in every lock.                             *)
(***************************************************************************)
EXTENDS AtlasLock

CONSTANTS MaxLoads,       \* bound: loads of the page
          MaxReads        \* bound: reads in flight

VARIABLES
  page,      \* flow, manifest (its salt), key, toc, booted, wrong: the last right
             \* passphrase was answered "did not decrypt"
  cache,     \* Lock.cache: the decrypted texts, by name
  shown,     \* the build Atlas.data is from
  session,   \* the salt of the key kept in sessionStorage, 0 for none
  http,      \* the browser's HTTP cache: "head" and the blobs
  reads,     \* the reads in flight: [name, blob, got]
  loads      \* pages loaded

viewerVars == <<page, cache, shown, session, http, reads, loads>>

NoHttp == [head |-> NoHead, blobs |-> [i \in DOMAIN Files |-> NoBlob]]
Closed == [flow |-> "closed", manifest |-> 0, key |-> 0, toc |-> NoHead,
           booted |-> FALSE, wrong |-> FALSE]
Pending == [key |-> 0, name |-> "pending", content |-> None]

Unlocked == page.toc # NoHead

ViewerInit ==
  /\ page = Closed /\ cache = NoFiles /\ shown = None
  /\ session = 0 /\ http = NoHttp /\ reads = {} /\ loads = 0

\* probe and the start of boot: a key kept for this salt is used, any other asks.
LoadPage(newTab) ==
  /\ loads < MaxLoads /\ enc.manifest # 0
  /\ session' = IF newTab THEN 0 ELSE session
  /\ page' = [Closed EXCEPT !.manifest = enc.manifest,
                !.flow = IF session' = enc.manifest THEN "restore" ELSE "prompt",
                !.key = IF session' = enc.manifest THEN session' ELSE 0]
  /\ cache' = NoFiles /\ shown' = None /\ reads' = {} /\ loads' = loads + 1
  /\ UNCHANGED http

\* The form: the key is derived with the salt of the manifest the page was loaded with.
Submit ==
  /\ page.flow = "prompt"
  /\ page' = [page EXCEPT !.flow = "unlock", !.key = page.manifest, !.wrong = FALSE]
  /\ UNCHANGED <<cache, shown, session, http, reads, loads>>

\* A read of the index is started by boot and, when nothing is loaded, by the form.
ReadOf(f) ==
  {[name |-> f, blob |-> i, got |-> Pending] : i \in {j \in DOMAIN page.toc.items : page.toc.items[j] = f}}

\* _loadToc, with its fetch and its decryption, and what unlock or
\* _restoreSessionKey do with the outcome.  Nothing else of the page can act meanwhile.
LoadToc(remember) ==
  /\ page.flow \in {"restore", "unlock"}
  /\ LET head == IF http.head # NoHead THEN http.head ELSE enc.head
         fails == [page EXCEPT !.flow = "prompt", !.wrong = page.flow = "unlock" /\ head # NoHead]
     IN /\ http' = [http EXCEPT !.head = head]
        /\ IF head # NoHead /\ head.key = page.key
           THEN /\ page' = [page EXCEPT !.flow = IF shown = None THEN "load" ELSE "ready", !.toc = head]
                /\ session' = IF page.flow = "unlock" /\ remember THEN page.key ELSE session
           ELSE /\ page' = fails
                /\ session' = IF page.flow = "restore" THEN 0 ELSE session
  /\ UNCHANGED <<cache, shown, reads, loads>>

-----------------------------------------------------------------------------
(* text(): the cache, or a fetch, then a decryption, then the cache. *)

Use(f, v) == shown' = IF f = Index THEN v ELSE shown

\* loadAtlas takes the index, a click a thread.  loadAtlas then reads the inventory, as a
\* thread is read, a failure being ignored: it is left out.
Wanted == IF page.flow = "load" THEN {Index} ELSE IF page.flow = "ready" THEN Range(Threads) ELSE {}

StartRead(f) ==
  /\ f \in Wanted /\ Unlocked /\ cache[f] = None /\ ReadOf(f) # {}
  /\ Cardinality(reads) < MaxReads
  /\ reads' = reads \cup ReadOf(f)
  /\ UNCHANGED <<page, cache, shown, session, http, loads>>

\* The read of the index failed: boot shows its error page, the form an error.
Failed(f) ==
  IF f = Index /\ page.flow = "load"
  THEN [page EXCEPT !.flow = IF page.booted THEN "ready" ELSE "dead"] ELSE page

\* The answer of the fetch, decrypted with the key of that moment.
Fetched(r) ==
  /\ r \in reads /\ r.got = Pending
  /\ LET stored == http.blobs[r.blob]
         blob == IF stored # NoBlob THEN stored ELSE enc.blobs[r.blob]
         ok == blob # NoBlob /\ blob.key = page.key /\ blob.name = r.name
     IN /\ http' = [http EXCEPT !.blobs[r.blob] = blob]
        /\ reads' = (reads \ {r}) \cup (IF ok THEN {[r EXCEPT !.got = blob]} ELSE {})
        /\ page' = IF ok THEN page ELSE Failed(r.name)
  /\ UNCHANGED <<cache, shown, session, loads>>

\* The decryption resolves, whatever happened to the page in between.
Decrypted(r) ==
  /\ r \in reads /\ r.got # Pending
  /\ cache' = [cache EXCEPT ![r.name] = r.got.content]
  /\ Use(r.name, r.got.content)
  /\ page' = IF r.name = Index /\ page.flow = "load"
             THEN [page EXCEPT !.flow = "ready", !.booted = TRUE] ELSE page
  /\ reads' = reads \ {r}
  /\ UNCHANGED <<session, http, loads>>

\* The button is there once the page has booted.
LockNow ==
  /\ page.booted /\ page.flow \in {"load", "ready"} /\ Unlocked
  /\ page' = [page EXCEPT !.flow = "prompt", !.key = 0, !.toc = NoHead]
  /\ cache' = NoFiles /\ shown' = None /\ session' = 0
  /\ UNCHANGED <<http, reads, loads>>

Viewer ==
  \/ \E newTab \in BOOLEAN : LoadPage(newTab)
  \/ Submit
  \/ \E remember \in BOOLEAN : LoadToc(remember)
  \/ \E f \in Names : StartRead(f)
  \/ \E r \in reads : Fetched(r) \/ Decrypted(r)
  \/ LockNow

Init == LockInit /\ ViewerInit
Next == (Tool /\ UNCHANGED viewerVars) \/ (Viewer /\ UNCHANGED lockVars)
vars == <<lockVars, viewerVars>>
Spec == Init /\ [][Next]_vars
=============================================================================
