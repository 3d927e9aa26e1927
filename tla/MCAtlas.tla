------------------------------- MODULE MCAtlas -------------------------------
(***************************************************************************)
(* A data set of one thread, built, locked, unlocked and viewed.  A run of *)
(* a tool is killed, or the page is loaded a second time.                  *)
(***************************************************************************)
EXTENDS AtlasViewerProps
CONSTANT MaxEvents
MCThreads == <<"threads/t1.json">>
AtlasSpec == Init /\ [][Next /\ kills' + loads' <= MaxEvents]_vars
=============================================================================
