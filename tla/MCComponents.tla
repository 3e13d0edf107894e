---------------------------- MODULE MCComponents ----------------------------
(***************************************************************************)
(* Small instances for TLC of the components that do not share state: a     *)
(* behaviour picks one of Parts and runs it, the others stay where they     *)
(* begin.                                                                   *)
(***************************************************************************)
EXTENDS RobotsRules, HttpFetch, ListingWalks, GridSweep, FeaturePaging, TileArchive,
        LayerComparison, SourceRegistry

CONSTANTS Parts

VARIABLE part

vars == <<part, robotsVars, fetchVars, listingVars, gridVars, pagingVars, tileVars,
          layerVars, registryVars>>

AllParts == {"robots", "fetch", "listing", "grid", "paging", "tiles", "layers", "registry"}

ASSUME PartsAssumption == Parts \subseteq AllParts

-----------------------------------------------------------------------------
(* Instances. *)

\* Bodies of a chunk, of the limit, and beyond it.
Sizes == [small |-> 1, large |-> 2, huge |-> 3]
Bodies == DOMAIN Sizes

\* Files f1 to f3 are of a wanted format, f9 is not; l9 is a page without a file.
Formats == {"f1", "f2", "f3"}
Wanted == Formats \cup {"l9"}
Lists(S, n) == UNION {[1..m -> S] : m \in 0..n}

\* Sitemap indexes that list each other, and themselves.
Sitemaps ==
    [declared : {<<>>, <<"b", "a">>}, kids : [{"a", "b"} -> Lists({"a", "b", "c"}, 1)],
     locs : {[a |-> <<"f1", "f9">>, b |-> <<"f2">>, c |-> <<"f2", "f3">>]}]
\* A document is an index of others or a list of places, never both.
SitemapSites ==
    {[s EXCEPT !.kids = s.kids @@ [c |-> kids],
               !.locs = [d \in DOMAIN s.locs |-> IF (s.kids @@ [c |-> kids])[d] = <<>> THEN s.locs[d] ELSE <<>>]]
       : s \in Sitemaps, kids \in {<<>>, <<"a">>}}

Links == {<<>>, <<"f1", "f9", "l9">>, <<"f2", "f1">>}
Details == {[f1 |-> "f3", f2 |-> "f1", l9 |-> "f2"], [f1 |-> ListingNone, f2 |-> "f2", l9 |-> "f2"]}
HtmlSites(next) == [links : [0..2 -> Links], next : next, file : Details]
\* Next links that end, lead in a circle, or back.
NextLinks == {[p \in 0..2 |-> IF p = 2 THEN ListingNone ELSE p + 1], [p \in 0..2 |-> (p + 1) % 3],
              [p \in 0..2 |-> IF p = 1 THEN 1 ELSE 1]}
Packages == Lists({<<"f1", "f2">>, <<"f9">>, <<"f2", "f3">>}, 3)
Entries == {[enclosures |-> <<"f9", "f2">>, link |-> "f1"], [enclosures |-> <<>>, link |-> "f1"],
            [enclosures |-> <<>>, link |-> ListingNone], [enclosures |-> <<"f9">>, link |-> "f3"]}

Sites ==
    [kind \in ListingKinds |->
       CASE kind = "sitemap" -> SitemapSites
         [] kind = "html_next" -> HtmlSites(NextLinks)
         [] kind = "html_param" -> HtmlSites({<<>>})
         [] kind = "portal" -> [links : [0..2 -> Links],
                                files : {[f1 |-> <<"f1", "f9">>, f2 |-> <<"f2", "f1">>, f9 |-> <<"f3">>, l9 |-> <<>>]}]
         [] kind \in {"ckan_ids", "ckan_search", "arcgis", "file"} -> Packages
         [] kind = "feed" -> Lists(Entries, 2)
         [] OTHER -> Lists({"f1", "f2", "f9"}, 3)]

\* The ids of plans as file names: two differ in what a file name drops.
Names == [p |-> "p", q |-> "_", r |-> "_"]

\* Two points that share plans, with and without geometries.
Grids == [at : {[c \in 1..2 |-> IF c = 1 THEN {"p"} ELSE {"p", "q", "r"}], [c \in 1..2 |-> {}]},
          drawn : {S \cup {"r"} : S \in SUBSET {"p", "q"}},
          detail : {[p |-> a, q |-> b, r |-> "silent"] : a, b \in {"drawn", "null", "silent"}}]

\* Tables in the order of their ids and not, shorter and longer than pages and batches.
Tables == {<<>>, <<2>>, <<3, 1>>, <<0, 1, 2>>, <<2, 0, 1>>}

\* The tiles of three zooms; one that has the same bytes as its neighbour, one without any.
Lookups == UNION {{z} \X (0..2^z - 1) \X (0..2^z - 1) : z \in 0..2}
Places == {<<0, 0, 0>>, <<1, 1, 0>>, <<2, 0, 1>>, <<2, 3, 3>>}
Payloads == [empty |-> 0, small |-> 2, big |-> 5]

Shape(type, valid, empty, within) ==
    [type |-> type, valid |-> valid, empty |-> empty, within |-> within]
Shapes == [square |-> Shape("Polygon", TRUE, FALSE, TRUE), moved |-> Shape("Polygon", TRUE, FALSE, TRUE),
           many |-> Shape("MultiPolygon", TRUE, FALSE, TRUE), twisted |-> Shape("Polygon", FALSE, FALSE, TRUE),
           far |-> Shape("Polygon", TRUE, FALSE, FALSE), nothing |-> Shape("Polygon", TRUE, TRUE, TRUE),
           road |-> Shape("LineString", TRUE, FALSE, TRUE), rail |-> Shape("LineString", TRUE, FALSE, TRUE),
           bag |-> Shape("GeometryCollection", TRUE, FALSE, TRUE)]
Overlaps == {<<"square", "moved">>, <<"moved", "square">>}
Crossings == {<<"road", "rail">>, <<"rail", "road">>}
Gaps == {{"square", "moved"}}
Broken == {{"square", "many"}}
Unprojectable == {"far"}
Undated == {"when"}

No == QualityNone
Row(id, alt, shape, class, props) ==
    [id |-> id, alt |-> alt, code |-> No, shape |-> shape, class |-> class, props |-> props]
Coded(code, shape, props) ==
    [id |-> No, alt |-> No, code |-> code, shape |-> shape, class |-> No, props |-> props]
File(crs, declared, rows) ==
    [crs |-> crs, keyed |-> TRUE, declared |-> declared, required |-> FALSE,
     forbids |-> {}, flaws |-> {}, rows |-> rows]
Plain == File("canonical", "Polygon", <<Row("k1", "a1", "square", "c", "p"), Row("k2", "a2", "moved", "c", "p")>>)
Roads == File("canonical", "LineString", <<Row("k1", No, "road", "c", "p"), Row("k5", No, "rail", "c", "p")>>)
Files ==
    {File("canonical", No, <<>>), Plain,
     [Plain EXCEPT !.crs = "other",
        !.rows = <<Row("k2", "a1", "square", "d", "p"), Row("k1", "a2", "moved", "c", "q")>>],
     [Plain EXCEPT !.crs = "geographic",
        !.rows = <<Row("k1", "a1", "moved", "c", "p"), Row("k2", "a2", "far", "c", "p")>>],
     [Plain EXCEPT !.crs = "unknown", !.rows = <<Row("k1", "a1", "square", No, "p")>>],
     [Plain EXCEPT !.rows = <<Row("k1", "a1", "twisted", No, "p"), Row("k2", "a2", "many", "c", "p")>>],
     [Plain EXCEPT !.crs = "other", !.required = TRUE,
        !.rows = <<Row("k1", "a1", "moved", "c", No), Row("k3", "a3", "far", "c", "p")>>],
     [Plain EXCEPT !.keyed = FALSE, !.forbids = {"overlaps", "gaps"}, !.flaws = {"early"}],
     [Plain EXCEPT !.forbids = {"gaps"},
        !.rows = <<Row(No, "k1", "far", "c", "p"), Row("k1", "a2", "far", "c", "p")>>],
     File("canonical", "LineString",
        <<Coded("k2", "road", "when"), Coded(No, "rail", No), Row("k4", No, No, "c", "p")>>),
     [Roads EXCEPT !.forbids = {"crossings"}],
     [File("canonical", "MultiPolygon", <<Row("k1", No, "many", "c", "p"), Row("k2", No, "nothing", "c", "p"),
                                          Row("k6", No, "bag", "c", "p")>>)
        EXCEPT !.flaws = {"reversed", "unattributed", "ungrouped"}],
     [Plain EXCEPT !.forbids = {"gaps"},
        !.rows = <<Row("k1", "a1", "square", "c", "p"), Row("k2", "a2", "many", "c", "p")>>]}

Descriptors == {[authority |-> "x", enabled |-> TRUE, rest |-> "r"],
                [authority |-> "x", enabled |-> FALSE, rest |-> "r"],
                [authority |-> RegistryNone, enabled |-> TRUE, rest |-> "r"]}
\* Two syncs and a crawl of the first source.
Tasks == [sync |-> 0, crawl |-> 1, again |-> 0]

-----------------------------------------------------------------------------
(* Where a part begins that is not run.                                     *)

RobotsOff == RobotsInit /\ robotsSite = "permits"
ListingOff == ListingInit /\ listing.kind = "wms" /\ listingSite = <<>>
GridOff ==
    GridInit /\ grid.kind = "sqhkt" /\ gridSite = CHOOSE s \in GridSites : TRUE
PagingOff ==
    /\ PagingInit /\ paging.kind = "wfs" /\ pagingRows = <<>>
    /\ pagingServer = CHOOSE s \in PagingServers : TRUE
LayerOff == LayerInit /\ layerFile = [s \in Layers |-> CHOOSE f \in LayerFiles : TRUE]
RegistryOff == RegistryInit /\ registryFiles = [k \in RegistryKeys |-> RegistryNone]

Init ==
    /\ part \in Parts
    /\ FetchInit /\ TileInit
    /\ IF part = "robots" THEN RobotsInit ELSE RobotsOff
    /\ IF part = "listing" THEN ListingInit ELSE ListingOff
    /\ IF part = "grid" THEN GridInit ELSE GridOff
    /\ IF part = "paging" THEN PagingInit ELSE PagingOff
    /\ IF part = "layers" THEN LayerInit ELSE LayerOff
    /\ IF part = "registry" THEN RegistryInit ELSE RegistryOff

\* What stays while a part runs.
NotRobots == UNCHANGED <<part, fetchVars, listingVars, gridVars, pagingVars, tileVars, layerVars, registryVars>>
NotFetch == UNCHANGED <<part, robotsVars, listingVars, gridVars, pagingVars, tileVars, layerVars, registryVars>>
NotListing == UNCHANGED <<part, robotsVars, fetchVars, gridVars, pagingVars, tileVars, layerVars, registryVars>>
NotGrid == UNCHANGED <<part, robotsVars, fetchVars, listingVars, pagingVars, tileVars, layerVars, registryVars>>
NotPaging == UNCHANGED <<part, robotsVars, fetchVars, listingVars, gridVars, tileVars, layerVars, registryVars>>
NotTiles == UNCHANGED <<part, robotsVars, fetchVars, listingVars, gridVars, pagingVars, layerVars, registryVars>>
NotLayers == UNCHANGED <<part, robotsVars, fetchVars, listingVars, gridVars, pagingVars, tileVars, registryVars>>
NotRegistry == UNCHANGED <<part, robotsVars, fetchVars, listingVars, gridVars, pagingVars, tileVars, layerVars>>

Next ==
    \/ part = "robots" /\ RobotsNext /\ NotRobots
    \/ part = "fetch" /\ FetchNext /\ NotFetch
    \/ part = "listing" /\ ListingNext /\ NotListing
    \/ part = "grid" /\ GridNext /\ NotGrid
    \/ part = "paging" /\ PagingNext /\ NotPaging
    \/ part = "tiles" /\ TileNext /\ NotTiles
    \/ part = "layers" /\ LayerNext /\ NotLayers
    \/ part = "registry" /\ RegistryNext /\ NotRegistry

Spec == Init /\ [][Next]_vars

\* FetchFairness, ListingFairness, GridFairness and PagingFairness, of the part that runs.
FairSpec ==
    /\ Spec
    /\ WF_vars(part = "fetch" /\ FetchStep /\ NotFetch)
    /\ WF_vars(part = "fetch" /\ FetchElapse /\ NotFetch)
    /\ WF_vars(part = "listing" /\ ListingNext /\ NotListing)
    /\ WF_vars(part = "grid" /\ GridNext /\ NotGrid)
    /\ WF_vars(part = "paging" /\ PagingCallStep /\ NotPaging)

-----------------------------------------------------------------------------
(* Every part keeps its types.                                               *)
ComponentsTypeOK ==
    /\ part \in AllParts
    /\ RobotsTypeOK /\ FetchTypeOK /\ ListingTypeOK /\ GridTypeOK /\ PagingTypeOK
    /\ TileTypeOK /\ LayerTypeOK /\ RegistryTypeOK

(* What a discovery that did not raise has listed is what the source shows:  *)
(* for the walks of ListingWalks but for declared caps and the failed        *)
(* requests that sitemap and ckan pass over, for the sweeps of GridSweep at  *)
(* the points that answered.  A crawl takes it for the whole                 *)
(* (crawl.py:263-265), which it is not where requests were passed over.      *)
DiscoveriesHonest == ListingHonest /\ GridHonest

(* What is asked before an item is fetched: a crawl is told of an origin     *)
(* what its robots.txt said within the last RobotsTTL, and each attempt      *)
(* waits out its delay after the last attempt under a delay.  Redirects that *)
(* an attempt follows ask neither (FetchSpaced), nor do the requests of a    *)
(* discovery.                                                                *)
AttemptsPolite == RobotsHonoured /\ FetchPolite

(* Whatever the server answers, a fetch, a discovery and the paging of a     *)
(* layer end: a crawl, and with it the claim on its source, is not held for  *)
(* ever (http_client.py:83-88, sitemap.py:58-61, html.py:93-100).           *)
CallsEnd ==
    /\ FetchEnds
    /\ part = "listing" => ListingEnds
    /\ part = "grid" => <>(grid.pc \in {"done", "raised"})
    /\ part = "paging" => PagesEnd
=============================================================================
