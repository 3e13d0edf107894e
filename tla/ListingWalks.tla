--------------------------- MODULE ListingWalks ---------------------------
(***************************************************************************)
(* discover() of the connectors that read listings (ingest/connectors/):    *)
(* sitemap, feed, html_index, planning_portal, ckan, arcgis_rest,           *)
(* ogc_api_features, ogc_wfs, ogc_wms, http and file.  One call is one walk: *)
(* every request it makes is a step, and may fail.  What the site shows is   *)
(* constant during the walk.                                                *)
(***************************************************************************)
EXTENDS Integers, Sequences, SequencesExt

CONSTANTS
    ListingSites,       \* ListingSites[kind]: what the site of a connector may be
    ListingWanted,      \* candidates that pass include, exclude and title filters
    ListingFormats,     \* files that have an allowed format
    ListingCap,         \* max_resources, max_urls, max_items
    ListingPages,       \* max_pages
    SitemapDefault,     \* /sitemap.xml
    SitemapBudget,      \* max_sitemaps
    CkanRows,           \* rows
    ListingNone         \* no page, no file

\* The connectors that read one document; the site is what it lists.
DocumentKinds == {"feed", "ogc_api", "wfs", "wms", "http"}

ListingKinds == DocumentKinds \cup {"sitemap", "html_next", "html_param", "portal",
                                    "ckan_ids", "ckan_search", "arcgis", "file"}

HtmlKinds == {"html_next", "html_param"}

\* s lists something, in an order.
ListingList(s) == s \in Seq(ToSet(s))

\* What a site is, for the connectors that read it: its lists; indexes that lead to
\* sitemaps, which may be missing; pages numbered from 0, and the next of each.
ListingSiteOf(kind, s) ==
    /\ kind = "sitemap" =>
         /\ SitemapDefault \in DOMAIN s.kids /\ s.declared \in Seq(DOMAIN s.kids)
         /\ s.kids \in [DOMAIN s.kids -> Seq(DOMAIN s.kids)]
         /\ \A d \in DOMAIN s.kids : ListingList(s.locs[d])
    /\ kind \in HtmlKinds \cup {"portal"} =>
         /\ \E last \in DOMAIN s.links : last \in Nat /\ DOMAIN s.links = 0..last
         /\ \A p \in DOMAIN s.links :
              /\ ListingList(s.links[p])
              /\ kind = "html_next" => s.next[p] \in DOMAIN s.links \cup {ListingNone}
              /\ kind = "portal" => \A l \in ToSet(s.links[p]) : ListingList(s.files[l])
    /\ kind \in {"ckan_ids", "ckan_search", "arcgis", "file"} =>
         ListingList(s) /\ \A i \in DOMAIN s : ListingList(s[i])
    /\ kind \in DocumentKinds => ListingList(s)

ASSUME ListingAssumption ==
    /\ DOMAIN ListingSites = ListingKinds
    /\ \A kind \in ListingKinds : \A s \in ListingSites[kind] : ListingSiteOf(kind, s)
    /\ ListingCap \in Nat /\ ListingPages \in Nat /\ SitemapBudget \in Nat
    /\ CkanRows \in Nat \ {0}
    /\ ListingNone \notin ListingFormats

VARIABLES
    listing,        \* the walk
    listingSite     \* what the site shows

listingVars == <<listing, listingSite>>

SitemapDeclared == listingSite.declared     \* the Sitemap: lines of robots.txt
SitemapKids == listingSite.kids             \* SitemapKids[d]: the children of an index
SitemapLocs == listingSite.locs             \* SitemapLocs[d]: the URLs of a urlset
HtmlLinks == listingSite.links              \* HtmlLinks[p]: the links on page p; 0 is the first
HtmlNext == listingSite.next                \* HtmlNext[p]: the page its next link leads to
HtmlFile == listingSite.file                \* HtmlFile[l]: the file on the detail page of l
PortalFiles == listingSite.files            \* PortalFiles[l]: the attachments on that page

ListingPcs == {"idle", "docs", "items", "done", "raised"}

ListingTypeOK ==
    /\ listing.kind \in ListingKinds
    /\ listing.pc \in ListingPcs
    /\ listing.detail \in BOOLEAN
    /\ listing.page \in Nat
    /\ listing.lost \in BOOLEAN
    /\ listing.capped \in BOOLEAN
    /\ Len(listing.found) \in Nat

\* docs: documents still to be read; at: the one its items come from; items: candidates
\* of it still to be looked at; page: how many pages, sitemaps or packages have been read;
\* lost and capped are history: a request failed, and a cap kept the walk from looking
\* further.
ListingInit ==
    \E kind \in ListingKinds, detail \in BOOLEAN :
        /\ detail => kind \in {"html_next", "html_param"}
        /\ listingSite \in ListingSites[kind]
        /\ listing = [kind |-> kind, pc |-> "idle", detail |-> detail, docs |-> <<>>,
                      at |-> ListingNone, items |-> <<>>, seen |-> {}, page |-> 0,
                      found |-> <<>>, lost |-> FALSE, capped |-> FALSE]

At(kinds, pc) == listing.kind \in kinds /\ listing.pc = pc

ListingDone == [listing EXCEPT !.pc = "done"]
ListingCapped == [listing EXCEPT !.pc = "done", !.capped = TRUE]
ListingRaised == [listing EXCEPT !.pc = "raised", !.lost = TRUE]
ListingFull == Len(listing.found) >= ListingCap

\* The walk with one candidate less, and the files fs found.
ListingTook(fs) == [listing EXCEPT !.items = Tail(@), !.found = @ \o fs]
ListingSkip == ListingTook(<<>>)

\* What a file found adds: one of an allowed format not found before.
ListingEmit(file) ==
    IF file \in ListingFormats /\ <<"file", file>> \notin listing.seen
    THEN [ListingTook(<<file>>) EXCEPT !.seen = @ \cup {<<"file", file>>}]
    ELSE ListingSkip

\* The candidates of the document read next.
ListingReads(items) ==
    [listing EXCEPT !.pc = "items", !.items = items, !.docs = Tail(@)]

-----------------------------------------------------------------------------
(* Connectors that read one document. *)

\* The candidate of a feed entry: its first enclosure that is wanted, or its link.
FeedChoice(entry) ==
    LET candidates == IF entry.enclosures # <<>> THEN entry.enclosures
                      ELSE IF entry.link # ListingNone THEN <<entry.link>> ELSE <<>>
        wanted == SelectSeq(candidates, LAMBDA u : u \in ListingWanted \cap ListingFormats)
    IN  IF wanted = <<>> THEN <<>> ELSE <<Head(wanted)>>

\* What an entry of a document lists; http and wms have no filters.
EntryFiles(kind, entry) ==
    CASE kind = "feed" -> FeedChoice(entry)
      [] kind \in {"http", "wms"} -> <<entry>>
      [] OTHER -> IF entry \in ListingWanted THEN <<entry>> ELSE <<>>

\* feed and ogc_api look at nothing beyond their cap, wfs at what it would not list.
EntryBeyondCap(entry) ==
    /\ ListingFull
    /\ listing.kind \in {"feed", "ogc_api"} \/ (listing.kind = "wfs" /\ entry \in ListingWanted)

\* The URLs of http stand in the descriptor, and need no request.
DocumentGet ==
    /\ At(DocumentKinds, "idle")
    /\ \E ok \in IF listing.kind = "http" THEN {TRUE} ELSE BOOLEAN :
         listing' = IF ok THEN [listing EXCEPT !.pc = "items", !.items = listingSite]
                    ELSE ListingRaised

DocumentEntry ==
    /\ At(DocumentKinds, "items")
    /\ listing' = IF listing.items = <<>> THEN ListingDone
                  ELSE IF EntryBeyondCap(Head(listing.items)) THEN ListingCapped
                  ELSE ListingTook(EntryFiles(listing.kind, Head(listing.items)))

-----------------------------------------------------------------------------
(* file: every glob walks the folder again; a file two globs match comes twice. *)

FileGlobs ==
    /\ At({"file"}, "idle")
    /\ listing' = [listing EXCEPT !.pc = "docs", !.docs = listingSite]

FileGlob ==
    /\ At({"file"}, "docs")
    /\ listing' = IF listing.docs = <<>> THEN ListingDone ELSE ListingReads(Head(listing.docs))

FilePath ==
    /\ At({"file"}, "items")
    /\ listing' = IF listing.items = <<>> THEN [listing EXCEPT !.pc = "docs"]
                  ELSE ListingTook(<<Head(listing.items)>>)

-----------------------------------------------------------------------------
(* Sitemaps. *)

\* Those robots.txt declares, or the conventional one when it declares none or
\* cannot be read.
SitemapRoots == IF SitemapDeclared # <<>> THEN SitemapDeclared ELSE <<SitemapDefault>>

SitemapUrls ==
    /\ At({"sitemap"}, "idle")
    /\ \E ok \in BOOLEAN :
         listing' = [listing EXCEPT !.pc = "docs",
            !.docs = IF ok THEN SitemapRoots ELSE <<SitemapDefault>>,
            !.lost = ~ok]

\* _walk reads a sitemap once.
SitemapUnseen(d) == d \notin listing.seen

SitemapDoc ==
    /\ At({"sitemap"}, "docs")
    /\ listing.docs # <<>>
    /\ LET d == Head(listing.docs)
           rest == Tail(listing.docs)
           read == [listing EXCEPT !.seen = @ \cup {d}, !.page = @ + 1, !.at = d]
       IN  IF ~SitemapUnseen(d) THEN listing' = [listing EXCEPT !.docs = rest]
           ELSE IF listing.page = SitemapBudget
           THEN listing' = [listing EXCEPT !.docs = rest, !.capped = TRUE]
           ELSE \E ok \in BOOLEAN :
                  listing' = IF ok
                    THEN [read EXCEPT !.docs = SitemapKids[d] \o rest, !.pc = "items",
                                      !.items = SitemapLocs[d]]
                    ELSE [read EXCEPT !.docs = rest, !.lost = TRUE]

\* The loop of discover over what _walk yields.
SitemapLoc ==
    /\ At({"sitemap"}, "items")
    /\ IF listing.items = <<>> THEN listing' = [listing EXCEPT !.pc = "docs"]
       ELSE IF ListingFull THEN listing' = ListingCapped
       ELSE LET loc == Head(listing.items)
            IN  listing' = ListingTook(IF loc \in ListingWanted \cap ListingFormats
                                       THEN <<loc>> ELSE <<>>)

SitemapEnd ==
    /\ At({"sitemap"}, "docs")
    /\ listing.docs = <<>>
    /\ listing' = ListingDone

-----------------------------------------------------------------------------
(* html_index. *)

\* Beyond the last page a numbered page is empty.
HtmlPageLinks(p) == IF p \in DOMAIN HtmlLinks THEN HtmlLinks[p] ELSE <<>>

\* _pages yields page p, or the request for it raises.
HtmlYields(p) ==
    \E ok \in BOOLEAN :
        listing' = IF ok THEN [listing EXCEPT !.pc = "items", !.at = p, !.page = @ + 1,
                                  !.seen = @ \cup {<<"page", p>>}, !.items = HtmlPageLinks(p)]
                   ELSE ListingRaised

HtmlIndex == At(HtmlKinds, "idle") /\ HtmlYields(0)

\* A next link is followed to pages not seen before, up to max_pages.
HtmlFollow ==
    /\ At({"html_next"}, "docs")
    /\ LET next == HtmlNext[listing.at] IN
       IF next = ListingNone \/ <<"page", next>> \in listing.seen THEN listing' = ListingDone
       ELSE IF listing.page >= ListingPages THEN listing' = ListingCapped
       ELSE HtmlYields(next)

\* Numbered pages 1 .. max_pages come after the index page, until one is empty.
HtmlNumbered ==
    /\ At({"html_param"}, "docs")
    /\ IF listing.at # 0 /\ HtmlPageLinks(listing.at) = <<>> THEN listing' = ListingDone
       ELSE IF listing.page > ListingPages THEN listing' = ListingCapped
       ELSE HtmlYields(listing.page)

\* _matches, on the link.
HtmlMatches(link) == link \in ListingWanted

\* Mutant: a detail page that cannot be read is passed over.
HtmlDetailSkipped == ListingSkip
HtmlDetailFails == ListingRaised

HtmlLink ==
    /\ At(HtmlKinds, "items")
    /\ IF listing.items = <<>> THEN listing' = [listing EXCEPT !.pc = "docs"]
       ELSE IF ListingFull THEN listing' = ListingCapped
       ELSE LET link == Head(listing.items) IN
            IF ~HtmlMatches(link) THEN listing' = ListingSkip
            ELSE IF ~listing.detail THEN listing' = ListingEmit(link)
            ELSE \E ok \in BOOLEAN :
                   listing' = IF ~ok THEN HtmlDetailFails
                              ELSE IF HtmlFile[link] = ListingNone THEN ListingSkip
                              ELSE ListingEmit(HtmlFile[link])

-----------------------------------------------------------------------------
(* planning_portal. *)

PortalPage ==
    /\ At({"portal"}, "idle") \/ (At({"portal"}, "docs") /\ listing.docs = <<>>)
    /\ IF listing.page = ListingPages THEN listing' = ListingCapped
       ELSE \E ok \in BOOLEAN :
              listing' = IF ~ok THEN ListingRaised
                         ELSE IF HtmlPageLinks(listing.page) = <<>> THEN ListingDone
                         ELSE [listing EXCEPT !.pc = "docs", !.page = @ + 1,
                                              !.docs = HtmlPageLinks(listing.page)]

PortalDetail ==
    /\ At({"portal"}, "docs")
    /\ listing.docs # <<>>
    /\ \E ok \in BOOLEAN :
         listing' = IF ok THEN ListingReads(PortalFiles[Head(listing.docs)]) ELSE ListingRaised

\* All attachments of an item are yielded, those found before too.
PortalFile ==
    /\ At({"portal"}, "items")
    /\ listing' = IF listing.items = <<>> THEN [listing EXCEPT !.pc = "docs"]
                  ELSE IF Head(listing.items) \in ListingFormats
                  THEN ListingTook(<<Head(listing.items)>>) ELSE ListingSkip

-----------------------------------------------------------------------------
(* ckan: packages, as one asks for them or searches for them, and the resources of each. *)

\* package_ids: one request each; one that fails is passed over.
CkanShow ==
    /\ At({"ckan_ids"}, "docs")
    /\ IF listing.docs = <<>> THEN listing' = ListingDone
       ELSE \E ok \in BOOLEAN :
              listing' = IF ok THEN ListingReads(Head(listing.docs))
                         ELSE [listing EXCEPT !.docs = Tail(@), !.lost = TRUE]

CkanIds ==
    /\ At({"ckan_ids"}, "idle")
    /\ listing' = [listing EXCEPT !.pc = "docs", !.docs = listingSite]

\* package_search goes on after the packages it was given, which the server may cut.
CkanNextStart(batch) == listing.page + Len(batch)

CkanSearch ==
    /\ \/ At({"ckan_search"}, "idle")
       \/ At({"ckan_search"}, "docs") /\ listing.docs = <<>> /\ listing.page < Len(listingSite)
    /\ \E ok \in BOOLEAN, cut \in 1..CkanRows :
         LET batch == SubSeq(listingSite, listing.page + 1,
                             IF listing.page + cut < Len(listingSite)
                             THEN listing.page + cut ELSE Len(listingSite))
         IN  listing' = IF ~ok THEN ListingRaised
                        ELSE [listing EXCEPT !.pc = "docs", !.page = CkanNextStart(batch),
                                             !.docs = batch]

\* The loop over a batch, and its end at the last one.
CkanPackage ==
    /\ At({"ckan_search"}, "docs")
    /\ \/ listing.docs # <<>> /\ listing' = ListingReads(Head(listing.docs))
       \/ listing.docs = <<>> /\ listing.page >= Len(listingSite) /\ listing' = ListingDone

\* Of an allowed format, each id once.
CkanResource ==
    /\ At({"ckan_ids", "ckan_search"}, "items")
    /\ listing' = IF listing.items = <<>> THEN [listing EXCEPT !.pc = "docs"]
                  ELSE ListingEmit(Head(listing.items))

-----------------------------------------------------------------------------
(* arcgis_rest. *)

ArcServices ==
    /\ At({"arcgis"}, "idle")
    /\ listing' = [listing EXCEPT !.pc = "docs", !.docs = listingSite]

ArcService ==
    /\ At({"arcgis"}, "docs")
    /\ IF listing.docs = <<>> THEN listing' = ListingDone
       ELSE \E ok \in BOOLEAN :
              listing' = IF ok THEN ListingReads(Head(listing.docs)) ELSE ListingRaised

\* The name the filters match comes with a request of its own.
ArcLayer ==
    /\ At({"arcgis"}, "items")
    /\ IF listing.items = <<>> THEN listing' = [listing EXCEPT !.pc = "docs"]
       ELSE IF ListingFull THEN listing' = ListingCapped
       ELSE \E ok \in BOOLEAN :
              listing' = IF ~ok THEN ListingRaised
                         ELSE IF Head(listing.items) \in ListingWanted
                         THEN ListingTook(<<Head(listing.items)>>) ELSE ListingSkip

-----------------------------------------------------------------------------
ListingStep ==
    \/ DocumentGet \/ DocumentEntry \/ FileGlobs \/ FileGlob \/ FilePath
    \/ SitemapUrls \/ SitemapDoc \/ SitemapLoc \/ SitemapEnd
    \/ HtmlIndex \/ HtmlFollow \/ HtmlNumbered \/ HtmlLink
    \/ PortalPage \/ PortalDetail \/ PortalFile
    \/ CkanIds \/ CkanShow \/ CkanSearch \/ CkanPackage \/ CkanResource
    \/ ArcServices \/ ArcService \/ ArcLayer

ListingNext == ListingStep /\ UNCHANGED listingSite

ListingSpec == ListingInit /\ [][ListingNext]_listingVars

\* A call goes on: every request is answered or times out.
ListingFairness == WF_listingVars(ListingNext)

-----------------------------------------------------------------------------
(* What the site offers, whatever the way there. *)

SitemapClosed(S) == \A d \in S : ToSet(SitemapKids[d]) \subseteq S

SitemapReached ==
    {d \in DOMAIN SitemapKids : \A S \in SUBSET DOMAIN SitemapKids :
        SitemapClosed(S) /\ ToSet(SitemapRoots) \subseteq S => d \in S}

\* The pages of a numbered listing end before the first empty one.
HtmlNumberedPages ==
    {p \in DOMAIN HtmlLinks : \A q \in DOMAIN HtmlLinks : q \in 1..p => HtmlLinks[q] # <<>>}

HtmlChain ==
    {p \in DOMAIN HtmlLinks : \A S \in SUBSET DOMAIN HtmlLinks :
        0 \in S /\ (\A q \in S : HtmlNext[q] \in S \cup {ListingNone}) => p \in S}

LinksOn(pages) == UNION {ToSet(HtmlLinks[p]) : p \in pages}

HtmlFiles(pages) ==
    {IF listing.detail THEN HtmlFile[l] ELSE l : l \in LinksOn(pages) \cap ListingWanted}
        \cap ListingFormats

\* The portal's pages are numbered from 0 here.
PortalPages ==
    {p \in DOMAIN HtmlLinks : \A q \in DOMAIN HtmlLinks : q \in 0..p => HtmlLinks[q] # <<>>}

ListingOffered ==
    CASE listing.kind = "sitemap" ->
            (UNION {ToSet(SitemapLocs[d]) : d \in SitemapReached}) \cap ListingWanted \cap ListingFormats
      [] listing.kind = "html_next" -> HtmlFiles(HtmlChain)
      [] listing.kind = "html_param" -> HtmlFiles(HtmlNumberedPages)
      [] listing.kind = "portal" ->
            (UNION {ToSet(PortalFiles[l]) : l \in LinksOn(PortalPages)}) \cap ListingFormats
      [] listing.kind \in {"ckan_ids", "ckan_search"} ->
            (UNION {ToSet(p) : p \in ToSet(listingSite)}) \cap ListingFormats
      [] listing.kind = "arcgis" -> (UNION {ToSet(s) : s \in ToSet(listingSite)}) \cap ListingWanted
      [] listing.kind = "file" -> UNION {ToSet(g) : g \in ToSet(listingSite)}
      [] OTHER -> UNION {ToSet(EntryFiles(listing.kind, entry)) : entry \in ToSet(listingSite)}

\* The connectors that pass over a request that fails.
ListingLenient == {"sitemap", "ckan_ids"}

(* A walk that ends without raising has found all the site offers, and       *)
(* nothing else: a crawl marks what it does not find as disappeared          *)
(* (crawl.py:263-265), so what is behind a request that failed must make the *)
(* walk raise.  Only a declared cap, and in the lenient connectors a failed  *)
(* request, may hide something (sitemap.py:62-65, ckan.py:52-56).  html and  *)
(* ckan list nothing twice (html.py:175-177, ckan.py:88).                    *)
ListingHonest ==
    /\ listing.lost \/ ToSet(listing.found) \subseteq ListingOffered
    /\ listing.pc = "done" /\ ~listing.capped /\ (listing.lost => listing.kind \notin ListingLenient)
         => ToSet(listing.found) = ListingOffered
    /\ listing.kind \in HtmlKinds \cup {"ckan_ids", "ckan_search"} => IsInjective(listing.found)

\* resource_key_for: the layers of a WFS or WMS come without an identity and all with
\* the URL of the service.
ResourceKey(i) ==
    IF listing.kind \in {"wfs", "wms"} THEN <<"url", listing.kind>> ELSE <<"resource", i>>

(* "Stable identity for a discovered resource" (crawl.py:92): no two of what *)
(* a discovery lists are one resource to the crawl, or each overwrites what  *)
(* it knew of the other.                                                     *)
ResourcesToldApart ==
    \A i, j \in ToSet(listing.found) : ResourceKey(i) = ResourceKey(j) => i = j

(* A walk ends, though sitemaps and next links may lead in circles           *)
(* (sitemap.py:58-61, html.py:93-100).                                      *)
ListingEnds == <>(listing.pc \in {"done", "raised"})
=============================================================================
