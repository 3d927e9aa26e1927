--------------------------- MODULE CityHarvestProps ---------------------------
(***************************************************************************)
(* The properties of CityHarvest: what its catalogue can be trusted for,   *)
(* and what becomes of the work a run leaves over.                         *)
(***************************************************************************)
EXTENDS CityHarvest

(* A listed document is there, and it is the body its catalogued SHA-256   *)
(* and retrieval time belong to, unless a run was killed between the       *)
(* document and state.json, or between the copies and the catalogue        *)
(* (dest.write_bytes in fetch_one, save_json in run, write_outputs).       *)
OutputIsRecorded ==
  /\ TypeOK
  /\ \A u \in out.listed :
       /\ out.docs[u] # 0
       /\ phase = "idle" /\ "kill" \notin faults => out.docs[u] = out.catalog[u]

(* "Unfinished work first": as long as a run has work of an earlier run    *)
(* left, nothing else is next but the seed, whatever it has found on its   *)
(* way and however it scores; and of what is next nothing better waits.    *)
UnfinishedFirst ==
  LET unfinished == ToSet(disk.state.pending) \cap ToSet(Urls(run.heap))
  IN /\ \A p \in 2 .. Len(run.heap) : Before(run.heap[1], run.heap[p])
     /\ phase = "crawling" /\ unfinished # {}
          => run.heap[1].url \in unfinished \cup {Seed}

(* What a run has scheduled it has visited, once, or it waits.  What it     *)
(* knew or scheduled is archived or pending after it, unless the run has   *)
(* visited it; and what was archived still is, unless state.json was       *)
(* unreadable.                                                             *)
NothingForgotten ==
  [][/\ run'.visited + Len(run'.heap) = Cardinality(run'.scheduled)
     /\ phase = "crawling" /\ phase' = "saved" =>
          Known(run.state) \cup run.scheduled
            \subseteq Known(disk'.state) \cup (run.scheduled \ ToSet(Urls(run.heap)))
     /\ "corrupt" \notin faults' => Records(disk.state) \subseteq Records(disk'.state)]_vars

=============================================================================
