---------------------------- MODULE MCCityHarvest ----------------------------
(***************************************************************************)
(* An instance of CityRecon and CityHarvest for TLC.  The profile is       *)
(* reviewed by a person between the two, so the run moves one of them and  *)
(* leaves the other where it starts.                                       *)
(*                                                                         *)
(* The town has a home page, a board's listing page, an agenda that only   *)
(* its link text gives away, a packet with a .pdf path, a page of news and *)
(* a memo that look like nothing; it links to videos.  The harvest's site is one *)
(* of those the reconnaissance sees.                                       *)
(***************************************************************************)
EXTENDS CityHarvestProps, CityReconProps
CONSTANTS home, board, news, agenda, packet, memo, video

TownUrl == {home, board, news, agenda, packet, memo}
TownDocument == {agenda, packet, memo}
TownDocumentUrl == {packet}
TownLinks == (home :> <<board>>) @@ (board :> <<agenda, packet, home>>) @@ (news :> <<>>)
               @@ (agenda :> <<>>) @@ (packet :> <<>>) @@ (memo :> <<>>)
TownScore == (home :> 0) @@ (board :> 3) @@ (news :> 2) @@ (agenda :> 1) @@ (packet :> 8) @@ (memo :> 2)
TownAnchorScore == [TownScore EXCEPT ![agenda] = 9, ![board] = 5]
TownVersions == [u \in TownUrl |-> IF u = agenda THEN 2 ELSE 1]
NoSuggestedSeeds == <<>>

TownSites ==
  {(home :> h) @@ (board :> b) @@ (news :> n) @@ (agenda :> <<>>) @@ (packet :> <<>>) @@ (memo :> <<>>) :
     h \in {<<board>>, <<video>>, <<news, video>>, <<board, news>>},
     b \in {<<agenda, packet, home>>, <<packet, news, memo>>, <<agenda>>},
     n \in {<<>>, <<packet>>, <<agenda, board>>, <<packet, agenda>>}}
TownSitemaps == {<<>>, <<video, news, memo>>, <<packet, board>>, <<news, board, agenda>>}
TownHosts == (home :> "town") @@ (news :> "town") @@ (board :> "platform") @@ (agenda :> "platform")
               @@ (packet :> "clerk") @@ (memo :> "town") @@ (video :> "youtube")
AnyCityInit == Init /\ ReconInit
AnyCityNext ==
  \/ recon.step = "new" /\ site = TownLinks /\ Next /\ UNCHANGED reconVars
  \/ Init /\ ReconNext /\ UNCHANGED vars
AnyCitySpec == AnyCityInit /\ [][AnyCityNext]_<<vars, reconVars>>
=============================================================================
