---------------------------- MODULE CityReconProps ----------------------------
(***************************************************************************)
(* What the profile of a reconnaissance is good for: the harvest that      *)
(* starts from it gets to what the reconnaissance has seen.                *)
(***************************************************************************)
EXTENDS CityRecon

\* canonical: the links of a page that are in scope.
LinksOf(u, allowed) == {w \in ToSet(site[u]) : InScope(w, allowed)}

\* What an undisturbed harvest with this profile schedules: its seeds, and by the rule of
\* EnqueueLinks the links of what it has.
Follows(u) == {w \in LinksOf(u, profile.hosts) :
                 Worthwhile(w, AnchorScore[w], IF u = Seed THEN 1 ELSE MaxDepth)}
Harvested ==
  {w \in Url : \A S \in SUBSET Url : profile.seeds \subseteq S /\ (\A u \in S : Follows(u) \subseteq S)
                                       => w \in S}

\* What only a sitemap gave away, and looks like nothing.
Slips(u) == u \in ToSet(mapped) /\ recon.best[u] < FocusedMinScore

\* SAFETY.  A record on a page the reconnaissance has read is one the harvest schedules,
\* although the harvest follows fewer links and starts from no sitemap, unless the profile
\* had no room for all relevant pages; the only records it misses are those that a sitemap
\* listed and that look like nothing, and those of such a page.  And the scope never
\* widens: a host other than the seed's is in the profile only by its fingerprint or by
\* --allow-host, and everything scheduled is in scope.  (Recon.run, profile and
\* Harvester.__init__.)
ProfileReachesWhatWasSeen ==
  /\ recon.discovered \subseteq PlatformHosts \cup AllowHosts
  /\ \A u \in recon.scheduled : InScope(u, AllowHosts)
  /\ profile.seeds # {} /\ Relevant(recon) \subseteq profile.seeds =>
       LET reached == Harvested IN
       \A p \in recon.pages : \A d \in ToSet(site[p.url]) \cap recon.documents :
         d \in reached \/ Slips(p.url) \/ Slips(d)
=============================================================================
