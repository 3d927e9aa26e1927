----------------------------- MODULE MCCityMirror -----------------------------
(***************************************************************************)
(* A site of a home page, a news page and a document, each linked from     *)
(* another, the news page listed in the sitemap.                           *)
(***************************************************************************)
EXTENDS CityMirrorProps
CONSTANTS home, news, packet
MCUrl == {home, news, packet}
MCDocument == {packet}
MCLinks == (home :> <<news, packet>>) @@ (news :> <<home>>) @@ (packet :> <<>>)
MCSeeds == <<home>>
MCSitemap == <<news>>
===============================================================================
