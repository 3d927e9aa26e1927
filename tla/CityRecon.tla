------------------------------- MODULE CityRecon -------------------------------
(***************************************************************************)
(* The reconnaissance of tools/anycity_crawler.py: a first, bounded crawl  *)
(* of a town's websites, which only looks, and the profile it writes for   *)
(* the harvester: the pages to start from and the hosts in scope.          *)
(*                                                                         *)
(* The town is outside the program and any of a set of sites.  The queue   *)
(* is the harvester's: the same heap, and a URL is scheduled once, with    *)
(* the score of its first sighting.  Fingerprints of platforms and URL     *)
(* templates, which the harvester does not use, are left out.              *)
(***************************************************************************)
EXTENDS CityHarvest

CONSTANTS
  Outside,          \* URLs no host in scope serves
  Sites,            \* [Url -> Seq(Url \cup Outside)]: the links of each page
  Sitemaps,         \* what the sitemaps of a town, and those they point to, may list
  HostOf,           \* the host of each URL
  SeedHosts,        \* the seed's domain and its subdomains,
  PlatformHosts,    \* hosts with the fingerprint of a crawlable platform,
  AllowHosts,       \* and those of --allow-host
  RecordLike,       \* URLs whose link text names a kind of record
  ReconMinScore,    \* recon_min_score
  ReconMaxPages,    \* recon_max_pages
  ListingDocuments, \* document links of a listing page (2),
  ListingCivic,     \* or relevant links (5)
  MaxListings,      \* the listing pages among the seeds of a profile (25),
  MaxSuggested      \* and all of them, at most (60)

ASSUME ReconConstants ==
  /\ Outside \cap Url = {} /\ Sites \subseteq [Url -> Seq(Url \cup Outside)]
  /\ \A s \in Sites : \A d \in Document : s[d] = <<>>
  /\ Sitemaps \subseteq Seq(Url \cup Outside) /\ <<>> \in Sitemaps
  /\ \A u \in Url : HostOf[u] \in SeedHosts \cup PlatformHosts \cup AllowHosts
  /\ \A u \in Outside : HostOf[u] \notin SeedHosts \cup PlatformHosts \cup AllowHosts
  /\ ReconMinScore \in Nat /\ ReconMinScore >= FocusedMinScore
  /\ {ReconMaxPages, ListingDocuments, ListingCivic, MaxListings, MaxSuggested} \subseteq Nat \ {0}

VARIABLES
  site,     \* the links of the town's pages
  mapped,   \* the URLs read from the sitemaps
  recon,    \* the Recon object: its queue, candidates, pages and hosts
  profile   \* [seeds, hosts], as written; no seeds before

reconVars == <<site, mapped, recon, profile>>

NoProfile == [seeds |-> {}, hosts |-> {}]

ReconInit ==
  /\ site \in Sites /\ mapped = <<>>
  /\ recon = [step |-> "new", heap |-> <<>>, scheduled |-> {}, fetched |-> 0,
              best |-> [u \in {} |-> 0], documents |-> {}, pages |-> {}, discovered |-> {}]
  /\ profile = NoProfile

-------------------------------------------------------------------------------
(* Scope: which hosts the crawl may ask.                                   *)

Reason(u, allowed) ==
  CASE HostOf[u] \in SeedHosts -> "seed-domain"
    [] HostOf[u] \notin SeedHosts /\ HostOf[u] \in allowed -> "allowlist"
    [] HostOf[u] \notin SeedHosts \cup allowed /\ HostOf[u] \in PlatformHosts -> "platform"
    [] OTHER -> "none"

InScope(u, allowed) == Reason(u, allowed) # "none"

\* note: a host in scope that is not the town's own is remembered.
Noted(r, u) ==
  IF Reason(u, AllowHosts \cup r.discovered) \in {"allowlist", "platform"}
  THEN [r EXCEPT !.discovered = @ \cup {HostOf[u]}] ELSE r

-------------------------------------------------------------------------------
(* The crawl.                                                              *)

\* _candidate: every URL seen, with the best score of its sightings.
Seen(r, u, score) ==
  LET before == IF u \in DOMAIN r.best THEN r.best[u] ELSE 0
      top == IF score > before THEN score ELSE before
  IN [r EXCEPT !.best = [v \in DOMAIN @ \cup {u} |-> IF v = u THEN top ELSE @[v]],
               !.documents = IF u \in DocumentUrl THEN @ \cup {u} ELSE @]

\* enqueue, with the best score there is so far.
Schedule(r, u, depth) == Enqueue(r, u, r.best[u], depth)

\* A URL that a sitemap lists, or a page links to, is a candidate if it is in scope, as the
\* scope is by then; one from the seed or a sitemap is scheduled whatever it scores.
Sight(r, w, where) ==
  IF ~ InScope(w, AllowHosts \cup r.discovered) THEN r
  ELSE IF where = "sitemap" THEN Schedule(Seen(r, w, Score[w]), w, 1)
  ELSE LET s == Seen(Noted(r, w), w, AnchorScore[w]) IN
       IF where = "seed" \/ s.best[w] >= ReconMinScore THEN Schedule(s, w, MaxDepth) ELSE s

SightEach(r, urls, where) ==
  LET after[i \in 0 .. Len(urls)] ==
        IF i = 0 THEN r ELSE Sight(after[i - 1], urls[i], where)
  IN after[Len(urls)]

\* run, before its loop: the seed, and what the sitemaps of its host list.  Those that
\* cannot be read list nothing; when its robots.txt refuses there are none.
ReconStart ==
  /\ recon.step = "new"
  /\ mapped' \in Sitemaps
  /\ LET withSeed == Enqueue(Seen(recon, Seed, Score[Seed]), Seed, SeedScore, 0)
     IN recon' = [SightEach(withSeed, mapped', "sitemap") EXCEPT !.step = "crawling"]
  /\ UNCHANGED <<site, profile>>

ReconGoesOn == recon.heap # <<>> /\ recon.fetched < ReconMaxPages

\* The document links and the relevant links of a page, with what is known by then.
Followed(r, links) == {i \in DOMAIN links : InScope(links[i], AllowHosts \cup r.discovered)}
DocumentLinks(r, links) ==
  {i \in Followed(r, links) :
     links[i] \in r.documents \/ (links[i] \in RecordLike /\ r.best[links[i]] >= 12)}
CivicLinks(r, links) == {i \in Followed(r, links) : r.best[links[i]] >= ReconMinScore}

ReadPage(r, u, depth) ==
  LET followed == SightEach(Noted(r, u), site[u], IF depth < 1 THEN "seed" ELSE "page")
      page == [url |-> u, documents |-> Cardinality(DocumentLinks(followed, site[u])),
               civic |-> Cardinality(CivicLinks(followed, site[u]))]
  IN [followed EXCEPT !.pages = @ \cup {page}]

\* One turn of the loop.  The path of a document is not fetched; what is answers with a
\* page or a document, with neither, or not at all.
ReconVisit ==
  /\ recon.step = "crawling" /\ ReconGoesOn
  /\ LET u == recon.heap[1].url
         popped == [recon EXCEPT !.heap = HeapPop(@)]
         asked == [popped EXCEPT !.fetched = @ + 1]
         noted == Noted(asked, u)
     IN IF u \in DocumentUrl THEN recon' = popped
        ELSE \/ recon' \in {asked, noted}
             \/ u \in Document /\ recon' = [noted EXCEPT !.documents = @ \cup {u}]
             \/ u \notin Document /\ recon' = ReadPage(asked, u, recon.heap[1].depth)
  /\ UNCHANGED <<site, mapped, profile>>

-------------------------------------------------------------------------------
(* profile.                                                                *)

ListingPages == {p \in recon.pages : p.documents >= ListingDocuments \/ p.civic >= ListingCivic}

\* The best listing pages, of equal ones any, until there are enough.
Listings(listed) ==
  /\ listed \subseteq ListingPages /\ Cardinality(listed) <= MaxListings
  /\ \A p \in ListingPages \ listed :
       /\ Cardinality(listed) = MaxListings
       /\ \A q \in listed : q.documents > p.documents \/ (q.documents = p.documents /\ q.civic >= p.civic)

SuggestedAbove(r) ==   \* a mutant: a page with just the minimum is left out
  {u \in DOMAIN r.best : u \notin r.documents /\ r.best[u] > FocusedMinScore}

\* The candidates that are worth a seed of their own.
Relevant(r) == {u \in DOMAIN r.best : u \notin r.documents /\ r.best[u] >= FocusedMinScore}

\* The seed and the best listing pages, and of the relevant candidates the best ones, of
\* equal ones any, until there are enough.
MaySuggest(seeds, listed) ==
  LET always == {Seed} \cup {p.url : p \in listed}
      added == seeds \ always
      left == Relevant(recon) \ seeds
  IN /\ always \subseteq seeds /\ added \subseteq Relevant(recon)
     /\ Cardinality(added) <= Max({0, MaxSuggested - Cardinality(always)})
     /\ left # {} => Cardinality(seeds) >= MaxSuggested
     /\ \A u \in left, v \in added : recon.best[u] <= recon.best[v]

\* The end of the crawl, its queue empty or its pages, bytes or time used up.
WriteProfile ==
  /\ recon.step = "crawling" /\ recon' = [recon EXCEPT !.step = "done"]
  /\ \E seeds \in SUBSET DOMAIN recon.best, listed \in SUBSET ListingPages :
       /\ Listings(listed) /\ MaySuggest(seeds, listed)
       /\ profile' = [seeds |-> seeds, hosts |-> recon.discovered \cup AllowHosts]
  /\ UNCHANGED <<site, mapped>>

ReconNext == ReconStart \/ ReconVisit \/ WriteProfile

ReconSpec == ReconInit /\ [][ReconNext]_reconVars
=============================================================================
