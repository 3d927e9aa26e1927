----------------------------- MODULE MCScannerStore -----------------------------
(***************************************************************************)
(* An instance of ScannerStore and ScannerCoverage for TLC.  The two look  *)
(* at the same service from two sides, the transactions of the store and   *)
(* the audio of the feed, and share no state: the run moves one of them    *)
(* and leaves the other where it starts.                                   *)
(***************************************************************************)
EXTENDS ScannerStoreProps, ScannerCoverage

StoreCoverageInit == Init /\ CoverageInit

StoreCoverageNext ==
  \/ CoverageInit /\ Next /\ UNCHANGED coverageVars
  \/ Init /\ CoverageNext /\ UNCHANGED vars

StoreCoverageSpec ==
  StoreCoverageInit /\ [][StoreCoverageNext]_<<vars, coverageVars>>
===============================================================================
