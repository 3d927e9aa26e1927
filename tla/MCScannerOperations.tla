-------------------------- MODULE MCScannerOperations --------------------------
(***************************************************************************)
(* An instance of ScannerRetention and ScannerProcesses for TLC.  The two  *)
(* look at different parts of the running service and share no state: the  *)
(* run moves one of them and leaves the other where it starts.             *)
(***************************************************************************)
EXTENDS ScannerRetention, ScannerProcesses

OperationsInit == RetentionInit /\ ProcessInit

OperationsNext ==
  \/ ProcessInit /\ RetentionNext /\ UNCHANGED processVars
  \/ RetentionInit /\ ProcessNext /\ UNCHANGED retentionVars

OperationsSpec ==
  OperationsInit /\ [][OperationsNext]_<<retentionVars, processVars>> /\ RetentionFairness

\* Audio kept for less time than the transcripts, and for more.
MCPolicies == {[audio |-> 1, text |-> 2], [audio |-> 2, text |-> 1]}

\* The service and a smoke test of one feed, and the service of another.
MCFeedOf == [serve |-> "police", smoke |-> "police", other |-> "fire"]
=============================================================================
