---------------------------- MODULE MCAuditIngest ----------------------------
(***************************************************************************)
(* Two videos of one body on one day, the second with an expected_file; or *)
(* a remote data set of three rows.  The records of the ones have other    *)
(* sources than those of the other, so the run grows one of them at a time *)
(* and leaves the other as it was.                                         *)
(***************************************************************************)
EXTENDS AuditIngestProps
CONSTANTS dated, second
BothPaths == {dated, second}
MCExpected == <<None, second>>
MCDated == <<dated, dated>>
MCOffered == <<{"auto"}, {"manual"}>>
MCLine == {"aye", "nay"}
MCLineLen == [l \in MCLine |-> 3]
MCSpeeches == {<< <<"aye", "aye", "nay", "aye">>, <<"nay", "nay">> >>}
MCSelections == {{1, 2}}
MCLimits == {0, 1}

MCDataSets == {2 :> "tow" @@ 3 :> "plat" @@ 4 :> "fine"}

NoTranscripts == fetch.phase = "idle" /\ incidents = 0 /\ \A j \in Job : job[j] = Idle
NoRows == server.kind = "socrata" /\ changes = 0 /\ indexed = {} /\ pull = NoPull

SourcesInit == Init /\ RemoteInit

SourcesNext ==
  \/ NoRows /\ Next /\ UNCHANGED remoteVars
  \/ NoTranscripts /\ catalog = NoFiles /\ records = <<>> /\ RemoteNext /\ UNCHANGED vars

SourcesSpec == SourcesInit /\ [][SourcesNext]_<<vars, remoteVars>>
=============================================================================
