--------------------------- MODULE CityMirrorProps ---------------------------
(***************************************************************************)
(* The properties of CityMirror: what the published mirror can be trusted  *)
(* for, and that a site larger than a run is covered all the same.         *)
(***************************************************************************)
EXTENDS CityMirror

(* Every record of a snapshot is published, and what is published under it *)
(* is the body its SHA-256 and retrieval time belong to, unless a crawl    *)
(* was killed between a document and the snapshot (dest.write_bytes in     *)
(* crawl_page, save_json at the end of run).                               *)
RenderedIsRecorded ==
  /\ Rendered(cache) = Records(cache.state)
  /\ "kill" \notin faults =>
       \A u \in Rendered(cache) : Shown(cache, u) = cache.state.archived[u]

(* The budget is kept, by the sum the run carries along and by the records *)
(* themselves, over runs that only know the records they have loaded.      *)
WithinArchiveBudget ==
  /\ TypeOK
  /\ run.archive = ArchiveBytes(run.state) /\ run.archive <= MaxArchive
  /\ ArchiveBytes(cache.state) <= MaxArchive

(* A snapshot that is saved hides none of the records of the one it        *)
(* replaces: not after a failed run, a disappeared source or a kill.       *)
(* (validate_mirror_snapshot.py: a bad snapshot "would hide a previous     *)
(* good cache".)  It takes an unreadable restore, or the cache's eviction: *)
(* _load_state then starts from nothing, and the empty run is saved.       *)
HidesNothingUntilFault ==
  [][faults' \cap {"restore", "evict"} = {}
       => Records(cache.state) \subseteq Records(cache'.state)]_vars

(* The job runs every day, and robots.txt can be read now and then.        *)
CrawlFairness ==
  /\ WF_vars(Restore) /\ WF_vars(Load) /\ SF_vars(ReadRobots)
  /\ WF_vars(\E u \in Url : Visit(u)) /\ WF_vars(Finish) /\ WF_vars(SaveCache)

LiveSpec == Spec /\ CrawlFairness

Known(u) == u \in Records(cache.state) \cup ToSet(cache.state.pending)

(* However small a run's budget is, what the snapshot knows is visited     *)
(* again and again ("avoid permanently starving a site larger than the     *)
(* per-run budget"), whatever the sources answer, as long as runs are      *)
(* neither killed nor out of time, and the cache comes back.               *)
NothingStarves ==
  \A u \in Url :
    <>[](Known(u) /\ faults = {}) => []<><<Visit(u)>>_vars
=============================================================================
