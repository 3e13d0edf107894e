----------------------------- MODULE ListingProofs -----------------------------
(***************************************************************************)
(* Proofs about ListingWalks, for any sites, filters, formats and caps:     *)
(* what a walk that did not raise has listed is what the site offers, and   *)
(* html and ckan list nothing twice.                                        *)
(***************************************************************************)
EXTENDS ListingWalks, TLAPS

-----------------------------------------------------------------------------
(* Lists.                                                                  *)

LEMMA SequenceIsList ==
  ASSUME NEW S, NEW s \in Seq(S) PROVE ListingList(s) /\ ToSet(s) \subseteq S
  <1> DEFINE T == ToSet(s)
  <1>1. /\ Len(s) \in Nat /\ DOMAIN s = 1 .. Len(s) /\ \A i \in 1 .. Len(s) : s[i] \in T
        /\ s = [i \in 1 .. Len(s) |-> s[i]]
    BY DEF ToSet
  <1> HIDE DEF T
  <1>2. s \in Seq(T)
    BY <1>1
  <1>3. ToSet(s) \subseteq S
    BY DEF ToSet
  <1> QED
    BY <1>2, <1>3 DEF T, ListingList

(* A list that is not empty is its head and its tail.                      *)
LEMMA HeadAndTail ==
  ASSUME NEW s, ListingList(s), s # <<>>
  PROVE  /\ ListingList(Tail(s)) /\ Head(s) \in ToSet(s)
         /\ ToSet(s) = {Head(s)} \cup ToSet(Tail(s))
  <1> DEFINE S == ToSet(s)
  <1>1. s \in Seq(S)
    BY DEF ListingList
  <1> HIDE DEF S
  <1>2. /\ Tail(s) \in Seq(S) /\ Len(s) \in Nat \ {0} /\ Head(s) = s[1]
        /\ Len(Tail(s)) = Len(s) - 1 /\ \A i \in 1 .. Len(s) - 1 : Tail(s)[i] = s[i + 1]
        /\ DOMAIN s = 1 .. Len(s) /\ DOMAIN Tail(s) = 1 .. Len(s) - 1
    BY <1>1
  <1>3. ToSet(s) = {Head(s)} \cup ToSet(Tail(s))
    <2>1. ASSUME NEW i \in DOMAIN s PROVE s[i] \in {Head(s)} \cup ToSet(Tail(s))
      <3>1. i = 1 \/ (i - 1 \in DOMAIN Tail(s) /\ s[i] = Tail(s)[i - 1])
        BY <1>2
      <3> QED
        BY <1>2, <3>1 DEF ToSet
    <2>2. ASSUME NEW i \in DOMAIN Tail(s) PROVE Tail(s)[i] \in ToSet(s)
      <3>1. i + 1 \in DOMAIN s /\ Tail(s)[i] = s[i + 1]
        BY <1>2
      <3> QED
        BY <3>1 DEF ToSet
    <2>3. Head(s) \in ToSet(s)
      BY <1>2 DEF ToSet
    <2> QED
      BY <2>1, <2>2, <2>3 DEF ToSet
  <1>4. ListingList(Tail(s))
    BY <1>2, SequenceIsList
  <1> QED
    BY <1>3, <1>4

LEMMA Joined ==
  ASSUME NEW s, NEW t, ListingList(s), ListingList(t)
  PROVE  ListingList(s \o t) /\ ToSet(s \o t) = ToSet(s) \cup ToSet(t)
  <1> DEFINE S == ToSet(s) \cup ToSet(t)
  <1>1. s \in Seq(S) /\ t \in Seq(S)
    <2>1. ToSet(s) \subseteq S /\ ToSet(t) \subseteq S
      OBVIOUS
    <2> HIDE DEF S
    <2> QED
      BY <2>1 DEF ListingList
  <1> HIDE DEF S
  <1>2. /\ s \o t \in Seq(S) /\ Len(s \o t) = Len(s) + Len(t)
        /\ Len(s) \in Nat /\ Len(t) \in Nat
        /\ DOMAIN s = 1 .. Len(s) /\ DOMAIN t = 1 .. Len(t)
        /\ DOMAIN (s \o t) = 1 .. Len(s) + Len(t)
        /\ \A i \in 1 .. Len(s) + Len(t) :
             (s \o t)[i] = IF i <= Len(s) THEN s[i] ELSE t[i - Len(s)]
    BY <1>1
  <1>3. \A i \in DOMAIN s : s[i] \in ToSet(s \o t)
    <2> TAKE i \in DOMAIN s
    <2>1. i \in DOMAIN (s \o t) /\ (s \o t)[i] = s[i]
      BY <1>2
    <2> QED
      BY <2>1 DEF ToSet
  <1>4. \A i \in DOMAIN t : t[i] \in ToSet(s \o t)
    <2> TAKE i \in DOMAIN t
    <2>1. i + Len(s) \in DOMAIN (s \o t) /\ (s \o t)[i + Len(s)] = t[i]
      BY <1>2
    <2> QED
      BY <2>1 DEF ToSet
  <1>5. \A i \in DOMAIN (s \o t) : (s \o t)[i] \in ToSet(s) \cup ToSet(t)
    <2> TAKE i \in DOMAIN (s \o t)
    <2>1. CASE i <= Len(s)
      BY <1>2, <2>1 DEF ToSet
    <2>2. CASE i > Len(s)
      <3>1. i - Len(s) \in DOMAIN t /\ (s \o t)[i] = t[i - Len(s)]
        BY <1>2, <2>2
      <3> QED
        BY <3>1 DEF ToSet
    <2> QED
      BY <1>2, <2>1, <2>2
  <1>6. ToSet(s \o t) = ToSet(s) \cup ToSet(t)
    BY <1>3, <1>4, <1>5 DEF ToSet
  <1>7. ListingList(s \o t)
    BY <1>2, SequenceIsList
  <1> QED
    BY <1>6, <1>7

LEMMA EmptyList == ListingList(<<>>) /\ ToSet(<<>>) = {}
  BY DEF ListingList, ToSet

LEMMA OneList == ASSUME NEW x PROVE ListingList(<<x>>) /\ ToSet(<<x>>) = {x}
  <1>1. ToSet(<<x>>) = {x}
    BY DEF ToSet
  <1> QED
    BY <1>1 DEF ListingList

(* Nothing twice, with something new at the end.                           *)
LEMMA JoinedOnce ==
  ASSUME NEW s, ListingList(s), IsInjective(s), NEW x, x \notin ToSet(s)
  PROVE  IsInjective(s \o <<x>>)
  <1> DEFINE S == ToSet(s) \cup {x}
  <1>1. s \in Seq(S) /\ x \in S
    <2>1. ToSet(s) \subseteq S
      OBVIOUS
    <2> HIDE DEF S
    <2> QED
      BY <2>1 DEF ListingList, S
  <1> HIDE DEF S
  <1>2. /\ DOMAIN s = 1 .. Len(s) /\ Len(s) \in Nat
        /\ DOMAIN (s \o <<x>>) = 1 .. Len(s) + 1
        /\ (s \o <<x>>)[Len(s) + 1] = x
        /\ \A i \in 1 .. Len(s) : (s \o <<x>>)[i] = s[i] /\ s[i] # x
    BY <1>1 DEF ToSet
  <1> QED
    BY <1>2 DEF IsInjective

-----------------------------------------------------------------------------
(* What has been found, and what of the document is still to be looked at. *)
Listed == ToSet(listing.found)
Ahead == ToSet(listing.items)

(* The fields of a walk.                                                   *)
ListingDomain == {"kind", "pc", "detail", "docs", "at", "items", "seen", "page", "found",
                  "lost", "capped"}

(* They are what they are called, and lists are lists.                     *)
WalkTyped ==
    /\ DOMAIN listing = ListingDomain /\ ListingTypeOK
    /\ listing.capped \in BOOLEAN
    /\ ListingSiteOf(listing.kind, listingSite)
    /\ ListingList(listing.found) /\ ListingList(listing.items) /\ ListingList(listing.docs)

-----------------------------------------------------------------------------
(* What is left in the documents, the walk lists or has listed: that       *)
(* nothing is lost between the two is what each walk has to show.          *)

(* What these entries list.                                                *)
EntriesList(kind, S) == UNION {ToSet(EntryFiles(kind, entry)) : entry \in S}

DocumentWalk ==
    /\ listing.pc \in {"idle", "items", "done", "raised"}
    /\ listing.pc = "idle" => Listed = {}
    /\ listing.pc \in {"items", "done"} =>
         Listed \cup EntriesList(listing.kind, Ahead) = EntriesList(listing.kind, ToSet(listingSite))
    /\ listing.pc = "done" => listing.capped \/ listing.items = <<>>
    /\ listing.pc = "raised" => listing.lost

(* Lists of lists: the globs of a folder, packages, services.              *)
NestedKinds == {"file", "arcgis", "ckan_ids", "ckan_search"}

Nested(S) == UNION {ToSet(list) : list \in S}

(* What of it passes the filters.                                          *)
Passing(kind, S) ==
    CASE kind = "file" -> S
      [] kind = "arcgis" -> S \cap ListingWanted
      [] OTHER -> S \cap ListingFormats

(* What has not been asked for.                                            *)
Behind ==
    IF listing.kind = "ckan_search"
    THEN {listingSite[i] : i \in listing.page + 1 .. Len(listingSite)}
    ELSE IF listing.pc = "idle" THEN ToSet(listingSite) ELSE {}

NestedWalk ==
    /\ \A list \in ToSet(listing.docs) : ListingList(list)
    /\ listing.kind = "ckan_search" => listing.page <= Len(listingSite)
    /\ listing.lost \/ Listed \cup Passing(listing.kind, Ahead \cup Nested(ToSet(listing.docs)) \cup Nested(Behind))
                         = Passing(listing.kind, Nested(ToSet(listingSite)))
    /\ listing.lost /\ listing.pc # "raised" => listing.kind = "ckan_ids"
    /\ listing.pc \in {"idle", "docs"} => listing.items = <<>>
    /\ listing.pc = "idle" => listing.docs = <<>>
    /\ listing.pc = "done" => \/ listing.capped
                             \/ (listing.items = <<>> /\ listing.docs = <<>> /\ Behind = {})
    /\ listing.pc = "raised" => listing.lost

(* What was found under a name once is marked as found.                    *)
FoundOnce ==
    /\ \A file : file \in Listed <=> <<"file", file>> \in listing.seen
    /\ IsInjective(listing.found)

(* Sitemaps: all that are known are read or waiting, and all can be known. *)
SitemapListed(S) ==
    (UNION {ToSet(SitemapLocs[d]) : d \in S}) \cap ListingWanted \cap ListingFormats

SitemapWalk ==
    /\ listing.seen \subseteq DOMAIN SitemapKids /\ ToSet(listing.docs) \subseteq DOMAIN SitemapKids
    /\ listing.pc = "idle" => listing.seen = {} /\ Listed = {}
    /\ listing.pc \in {"idle", "docs"} => listing.items = <<>>
    /\ listing.pc = "done" /\ ~listing.capped => listing.items = <<>> /\ listing.docs = <<>>
    /\ listing.pc # "raised"
    /\ ~listing.lost =>
         /\ listing.seen \cup ToSet(listing.docs) \subseteq SitemapReached
         /\ Listed \cup (Ahead \cap ListingWanted \cap ListingFormats) = SitemapListed(listing.seen)
         /\ listing.pc # "idle" /\ ~listing.capped =>
              /\ ToSet(SitemapRoots) \subseteq listing.seen \cup ToSet(listing.docs)
              /\ \A d \in listing.seen :
                   ToSet(SitemapKids[d]) \subseteq listing.seen \cup ToSet(listing.docs)

(* html: the pages read are the ones the walk leads to.                    *)
HtmlOf(links) ==
    {IF listing.detail THEN HtmlFile[l] ELSE l : l \in links \cap ListingWanted} \cap ListingFormats

HtmlRead == {p \in DOMAIN HtmlLinks : <<"page", p>> \in listing.seen}

HtmlWalk ==
    /\ listing.pc = "raised" => listing.lost
    /\ listing.lost => listing.pc = "raised"
    /\ listing.pc = "idle" => HtmlRead = {} /\ listing.page = 0 /\ Listed = {}
    /\ listing.pc \in {"idle", "docs"} => listing.items = <<>>
    /\ listing.pc = "done" => listing.capped \/ listing.items = <<>>
    /\ listing.pc \in {"docs", "items", "done"} =>
         /\ 0 \in HtmlRead
         /\ Listed \cup HtmlOf(Ahead) = HtmlFiles(HtmlRead)
         /\ listing.kind = "html_next" =>
              /\ HtmlRead \subseteq HtmlChain /\ listing.at \in HtmlRead
              /\ \A p \in HtmlRead \ {listing.at} : HtmlNext[p] \in HtmlRead \cup {ListingNone}
              /\ listing.pc = "done" /\ ~listing.capped =>
                   HtmlNext[listing.at] \in HtmlRead \cup {ListingNone}
         /\ listing.kind = "html_param" =>
              /\ listing.page = listing.at + 1 /\ listing.at \in Nat
              /\ HtmlRead = {p \in DOMAIN HtmlLinks : p <= listing.at}
              /\ \A p \in 1 .. listing.at - 1 : HtmlPageLinks(p) # <<>>
              /\ listing.pc = "done" /\ ~listing.capped =>
                   listing.at # 0 /\ HtmlPageLinks(listing.at) = <<>>

(* planning_portal.                                                        *)
PortalListed(links) == (UNION {ToSet(PortalFiles[l]) : l \in links}) \cap ListingFormats

PortalWalk ==
    /\ listing.pc = "raised" => listing.lost
    /\ listing.lost => listing.pc = "raised"
    /\ listing.pc \in {"idle", "docs"} => listing.items = <<>>
    /\ listing.pc = "idle" => listing.docs = <<>> /\ listing.page = 0
    /\ ToSet(listing.docs) \subseteq LinksOn(DOMAIN HtmlLinks)
    /\ \A p \in 0 .. listing.page - 1 : p \in PortalPages
    /\ ~listing.lost =>
         Listed \cup (Ahead \cap ListingFormats) \cup PortalListed(ToSet(listing.docs))
            = PortalListed(LinksOn(0 .. listing.page - 1))
    /\ listing.pc = "done" /\ ~listing.capped =>
         listing.items = <<>> /\ listing.docs = <<>> /\ HtmlPageLinks(listing.page) = <<>>

(* Each connector keeps to its own walk.                                   *)
WalkInv ==
    /\ WalkTyped
    /\ listing.kind \in DocumentKinds => DocumentWalk
    /\ listing.kind \in NestedKinds => NestedWalk
    /\ listing.kind \in HtmlKinds \cup {"ckan_ids", "ckan_search"} => FoundOnce
    /\ listing.kind = "sitemap" => SitemapWalk
    /\ listing.kind \in HtmlKinds => HtmlWalk
    /\ listing.kind = "portal" => PortalWalk

(* One candidate less, and the files fs more.                              *)
LEMMA TookTyped ==
  ASSUME WalkTyped, listing.items # <<>>, NEW fs, ListingList(fs), listing' = ListingTook(fs),
         UNCHANGED listingSite
  PROVE  /\ WalkTyped'
         /\ listing'.kind = listing.kind /\ listing'.pc = listing.pc /\ listing'.docs = listing.docs
         /\ listing'.detail = listing.detail /\ listing'.at = listing.at
         /\ listing'.seen = listing.seen /\ listing'.page = listing.page
         /\ listing'.lost = listing.lost /\ listing'.capped = listing.capped
         /\ listing'.items = Tail(listing.items) /\ listing'.found = listing.found \o fs
         /\ Listed' = Listed \cup ToSet(fs) /\ Ahead = {Head(listing.items)} \cup Ahead'
  <1>1. /\ DOMAIN listing' = ListingDomain
        /\ listing'.kind = listing.kind /\ listing'.pc = listing.pc /\ listing'.docs = listing.docs
        /\ listing'.detail = listing.detail /\ listing'.at = listing.at
        /\ listing'.seen = listing.seen /\ listing'.page = listing.page
        /\ listing'.lost = listing.lost /\ listing'.capped = listing.capped
        /\ listing'.items = Tail(listing.items) /\ listing'.found = listing.found \o fs
    BY DEF WalkTyped, ListingDomain, ListingTook
  <1>2. /\ ListingList(listing'.items) /\ Ahead = {Head(listing.items)} \cup ToSet(listing'.items)
    BY <1>1, HeadAndTail DEF WalkTyped, Ahead
  <1>3. ListingList(listing'.found) /\ ToSet(listing'.found) = Listed \cup ToSet(fs)
    BY <1>1, Joined DEF WalkTyped, Listed
  <1>4. Len(listing'.found) \in Nat
    BY <1>3 DEF ListingList
  <1> QED
    BY <1>1, <1>2, <1>3, <1>4 DEF WalkTyped, ListingTypeOK, Listed, Ahead

LEMMA SkipTyped ==
  ASSUME WalkTyped, listing.items # <<>>, listing' = ListingSkip, UNCHANGED listingSite
  PROVE  /\ WalkTyped'
         /\ listing'.kind = listing.kind /\ listing'.pc = listing.pc /\ listing'.docs = listing.docs
         /\ listing'.detail = listing.detail /\ listing'.at = listing.at
         /\ listing'.seen = listing.seen /\ listing'.page = listing.page
         /\ listing'.lost = listing.lost /\ listing'.capped = listing.capped
         /\ listing'.items = Tail(listing.items) /\ listing'.found = listing.found
         /\ Listed' = Listed /\ Ahead = {Head(listing.items)} \cup Ahead'
  <1>1. listing.found \o <<>> = listing.found
    BY DEF WalkTyped, ListingList
  <1> QED
    BY <1>1, TookTyped, EmptyList DEF ListingSkip

(* A document more is read.                                                *)
LEMMA ReadsTyped ==
  ASSUME WalkTyped, listing.docs # <<>>, NEW items, ListingList(items),
         listing' = ListingReads(items), UNCHANGED listingSite
  PROVE  /\ WalkTyped'
         /\ listing'.kind = listing.kind /\ listing'.pc = "items" /\ listing'.items = items
         /\ listing'.detail = listing.detail /\ listing'.at = listing.at
         /\ listing'.seen = listing.seen /\ listing'.page = listing.page
         /\ listing'.lost = listing.lost /\ listing'.capped = listing.capped
         /\ listing'.docs = Tail(listing.docs) /\ listing'.found = listing.found
         /\ ToSet(listing.docs) = {Head(listing.docs)} \cup ToSet(listing'.docs)
  <1>1. /\ DOMAIN listing' = ListingDomain
        /\ listing'.kind = listing.kind /\ listing'.pc = "items" /\ listing'.items = items
        /\ listing'.detail = listing.detail /\ listing'.at = listing.at
        /\ listing'.seen = listing.seen /\ listing'.page = listing.page
        /\ listing'.lost = listing.lost /\ listing'.capped = listing.capped
        /\ listing'.docs = Tail(listing.docs) /\ listing'.found = listing.found
    BY DEF WalkTyped, ListingDomain, ListingReads
  <1>2. ListingList(listing'.docs) /\ ToSet(listing.docs) = {Head(listing.docs)} \cup ToSet(listing'.docs)
    BY <1>1, HeadAndTail DEF WalkTyped
  <1> QED
    BY <1>1, <1>2 DEF WalkTyped, ListingTypeOK, ListingPcs

(* The walk ends, with or without a cap, or raises.                        *)
LEMMA EndTyped ==
  ASSUME WalkTyped, listing' \in {ListingDone, ListingCapped, ListingRaised}, UNCHANGED listingSite
  PROVE  /\ WalkTyped'
         /\ listing'.kind = listing.kind /\ listing'.items = listing.items
         /\ listing'.detail = listing.detail /\ listing'.at = listing.at
         /\ listing'.seen = listing.seen /\ listing'.page = listing.page
         /\ listing'.docs = listing.docs /\ listing'.found = listing.found
         /\ Listed' = Listed /\ Ahead' = Ahead
         /\ listing' = ListingDone =>
              listing'.pc = "done" /\ listing'.lost = listing.lost /\ listing'.capped = listing.capped
         /\ listing' = ListingCapped =>
              listing'.pc = "done" /\ listing'.lost = listing.lost /\ listing'.capped
         /\ listing' = ListingRaised =>
              listing'.pc = "raised" /\ listing'.lost /\ listing'.capped = listing.capped
  <1>1. DOMAIN listing = ListingDomain
    BY DEF WalkTyped
  <1>2. /\ DOMAIN listing' = ListingDomain
        /\ listing'.kind = listing.kind /\ listing'.items = listing.items
        /\ listing'.detail = listing.detail /\ listing'.at = listing.at
        /\ listing'.seen = listing.seen /\ listing'.page = listing.page
        /\ listing'.docs = listing.docs /\ listing'.found = listing.found
        /\ listing' = ListingDone =>
             listing'.pc = "done" /\ listing'.lost = listing.lost /\ listing'.capped = listing.capped
        /\ listing' = ListingCapped =>
             listing'.pc = "done" /\ listing'.lost = listing.lost /\ listing'.capped
        /\ listing' = ListingRaised =>
             listing'.pc = "raised" /\ listing'.lost /\ listing'.capped = listing.capped
    BY <1>1 DEF ListingDomain, ListingDone, ListingCapped, ListingRaised
  <1>3. WalkTyped'
    BY <1>2 DEF WalkTyped, ListingTypeOK, ListingPcs
  <1> QED
    BY <1>2, <1>3 DEF Listed, Ahead

(* Kinds that share a step keep to it.                                     *)
LEMMA KindsApart ==
  /\ DocumentKinds \cap NestedKinds = {} /\ DocumentKinds \cap HtmlKinds = {}
  /\ NestedKinds \cap HtmlKinds = {} /\ "sitemap" \notin DocumentKinds \cup NestedKinds \cup HtmlKinds
  /\ "portal" \notin DocumentKinds \cup NestedKinds \cup HtmlKinds
  BY DEF DocumentKinds, NestedKinds, HtmlKinds

-----------------------------------------------------------------------------
(* Connectors that read one document.                                      *)

LEMMA EntryLists ==
  ASSUME NEW kind, NEW entry PROVE ListingList(EntryFiles(kind, entry))
  <1>1. EntryFiles(kind, entry) = <<>> \/ \E x : EntryFiles(kind, entry) = <<x>>
    BY DEF EntryFiles, FeedChoice
  <1> QED
    BY <1>1, EmptyList, OneList

LEMMA DocumentGetKeeps ==
  ASSUME WalkTyped, DocumentWalk, DocumentGet, UNCHANGED listingSite
  PROVE  listing'.kind = listing.kind /\ WalkTyped' /\ DocumentWalk'
  <1>1. listing.kind \in DocumentKinds /\ listing.pc = "idle"
    BY DEF DocumentGet, At
  <1>2. CASE listing' = ListingRaised
    BY <1>2, EndTyped DEF DocumentWalk
  <1>3. CASE listing' = [listing EXCEPT !.pc = "items", !.items = listingSite]
    <2>1. ListingList(listingSite)
      BY <1>1 DEF WalkTyped, ListingSiteOf, DocumentKinds, HtmlKinds
    <2>2. /\ DOMAIN listing' = ListingDomain /\ listing'.kind = listing.kind
          /\ listing'.pc = "items" /\ listing'.items = listingSite
          /\ listing'.detail = listing.detail /\ listing'.docs = listing.docs
          /\ listing'.page = listing.page /\ listing'.found = listing.found
          /\ listing'.lost = listing.lost /\ listing'.capped = listing.capped
      BY <1>3 DEF WalkTyped, ListingDomain
    <2>3. WalkTyped'
      BY <2>1, <2>2 DEF WalkTyped, ListingTypeOK, ListingPcs
    <2>4. Listed = {}
      BY <1>1 DEF DocumentWalk
    <2>5. DocumentWalk'
      BY <2>2, <2>4 DEF DocumentWalk, Listed, Ahead
    <2> QED
      BY <2>2, <2>3, <2>5
  <1> QED
    BY <1>2, <1>3 DEF DocumentGet

LEMMA DocumentEntryKeeps ==
  ASSUME WalkTyped, DocumentWalk, DocumentEntry, UNCHANGED listingSite
  PROVE  listing'.kind = listing.kind /\ WalkTyped' /\ DocumentWalk'
  <1>1. /\ listing.pc = "items"
        /\ Listed \cup EntriesList(listing.kind, Ahead) = EntriesList(listing.kind, ToSet(listingSite))
    BY DEF DocumentEntry, At, DocumentWalk
  <1>2. CASE listing.items = <<>>
    <2>1. listing' = ListingDone
      BY <1>2 DEF DocumentEntry
    <2>2. /\ WalkTyped' /\ listing'.kind = listing.kind /\ listing'.items = <<>>
          /\ Listed' = Listed /\ Ahead' = Ahead /\ listing'.pc = "done"
      BY <1>2, <2>1, EndTyped
    <2> QED
      BY <1>1, <2>2 DEF DocumentWalk
  <1>3. CASE listing.items # <<>> /\ EntryBeyondCap(Head(listing.items))
    <2>1. listing' = ListingCapped
      BY <1>3 DEF DocumentEntry
    <2>2. /\ WalkTyped' /\ listing'.kind = listing.kind /\ listing'.capped
          /\ Listed' = Listed /\ Ahead' = Ahead /\ listing'.pc = "done"
      BY <2>1, EndTyped
    <2> QED
      BY <1>1, <2>2 DEF DocumentWalk
  <1>4. CASE listing.items # <<>> /\ ~EntryBeyondCap(Head(listing.items))
    <2> DEFINE entry == Head(listing.items)
    <2>1. listing' = ListingTook(EntryFiles(listing.kind, entry))
      BY <1>4 DEF DocumentEntry
    <2>2. /\ WalkTyped' /\ listing'.kind = listing.kind /\ listing'.pc = "items"
          /\ Listed' = Listed \cup ToSet(EntryFiles(listing.kind, entry)) /\ Ahead = {entry} \cup Ahead'
      BY <1>1, <1>4, <2>1, EntryLists, TookTyped
    <2>3. EntriesList(listing.kind, Ahead) = ToSet(EntryFiles(listing.kind, entry)) \cup EntriesList(listing.kind, Ahead')
      BY <2>2 DEF EntriesList
    <2> QED
      BY <1>1, <2>2, <2>3 DEF DocumentWalk
  <1> QED
    BY <1>2, <1>3, <1>4

-----------------------------------------------------------------------------
(* Lists of lists: file, ckan and arcgis_rest.                             *)

LEMMA PassingParts ==
  ASSUME NEW kind, NEW S, NEW T
  PROVE  /\ Passing(kind, S \cup T) = Passing(kind, S) \cup Passing(kind, T)
         /\ Passing(kind, {}) = {}
  BY DEF Passing

LEMMA NestedParts ==
  ASSUME NEW x, NEW S
  PROVE  /\ Nested({x} \cup S) = ToSet(x) \cup Nested(S) /\ Nested({}) = {}
  BY DEF Nested

(* The lists of a site are read one after the other.                       *)
LEMMA NestedOpens ==
  ASSUME WalkTyped, NestedWalk, listing.kind \in NestedKinds \ {"ckan_search"},
         listing.pc = "idle", listing' = [listing EXCEPT !.pc = "docs", !.docs = listingSite],
         UNCHANGED listingSite
  PROVE  /\ listing'.kind = listing.kind /\ WalkTyped' /\ NestedWalk'
         /\ listing'.seen = listing.seen /\ listing'.found = listing.found
  <1>1. ListingList(listingSite) /\ \A i \in DOMAIN listingSite : ListingList(listingSite[i])
    BY DEF WalkTyped, ListingSiteOf, NestedKinds, HtmlKinds
  <1>2. \A list \in ToSet(listingSite) : ListingList(list)
    BY <1>1 DEF ToSet
  <1>3. /\ DOMAIN listing' = ListingDomain /\ listing'.kind = listing.kind
        /\ listing'.pc = "docs" /\ listing'.items = listing.items
        /\ listing'.detail = listing.detail /\ listing'.docs = listingSite
        /\ listing'.page = listing.page /\ listing'.found = listing.found
        /\ listing'.lost = listing.lost /\ listing'.capped = listing.capped
        /\ listing'.seen = listing.seen
    BY DEF WalkTyped, ListingDomain
  <1>4. WalkTyped'
    BY <1>1, <1>3 DEF WalkTyped, ListingTypeOK, ListingPcs
  <1>5. /\ Behind = ToSet(listingSite) /\ Behind' = {}
        /\ listing.docs = <<>> /\ listing.items = <<>>
    BY <1>3 DEF Behind, NestedWalk
  <1>6. Listed' = Listed /\ Ahead' = Ahead
    BY <1>3 DEF Listed, Ahead
  <1>7. Nested(ToSet(listing.docs)) \cup Nested(Behind) = Nested(ToSet(listing'.docs)) \cup Nested(Behind')
    BY <1>3, <1>5, EmptyList, NestedParts
  <1>8. NestedWalk'
    <2>1. Ahead \cup Nested(ToSet(listing.docs)) \cup Nested(Behind)
            = Ahead' \cup Nested(ToSet(listing'.docs)) \cup Nested(Behind')
      BY <1>6, <1>7
    <2>2. (listing.lost \/ Listed \cup Passing(listing.kind, Ahead \cup Nested(ToSet(listing.docs)) \cup Nested(Behind))
                         = Passing(listing.kind, Nested(ToSet(listingSite))))'
      BY <1>3, <1>6, <2>1 DEF NestedWalk
    <2> QED
      BY <1>2, <1>3, <1>5, <2>2 DEF NestedWalk
  <1> QED
    BY <1>3, <1>4, <1>8

(* One list more is read: what it lists is no longer in a document.        *)
LEMMA NestedReads ==
  ASSUME WalkTyped, NestedWalk, listing.kind \in NestedKinds, listing.pc = "docs",
         listing.docs # <<>>, listing' = ListingReads(Head(listing.docs)), UNCHANGED listingSite
  PROVE  /\ listing'.kind = listing.kind /\ WalkTyped' /\ NestedWalk'
         /\ listing'.seen = listing.seen /\ listing'.found = listing.found
  <1> DEFINE list == Head(listing.docs)
  <1>1. ListingList(list) /\ \A other \in ToSet(listing.docs) : ListingList(other)
    BY HeadAndTail DEF WalkTyped, NestedWalk
  <1>2. /\ WalkTyped'
        /\ listing'.kind = listing.kind /\ listing'.pc = "items" /\ listing'.items = list
        /\ listing'.seen = listing.seen /\ listing'.page = listing.page
        /\ listing'.lost = listing.lost /\ listing'.found = listing.found
        /\ ToSet(listing.docs) = {list} \cup ToSet(listing'.docs)
    BY <1>1, ReadsTyped
  <1>3. Ahead = {} /\ Ahead' = ToSet(list) /\ Listed' = Listed /\ Behind' = Behind
    BY <1>2, EmptyList DEF NestedWalk, Ahead, Listed, Behind
  <1>4. Nested(ToSet(listing.docs)) = ToSet(list) \cup Nested(ToSet(listing'.docs))
    BY <1>2, NestedParts, ZenonT(60)
  <1> HIDE DEF list
  <1>5. Ahead \cup Nested(ToSet(listing.docs)) \cup Nested(Behind)
          = Ahead' \cup Nested(ToSet(listing'.docs)) \cup Nested(Behind')
    BY <1>3, <1>4
  <1>6. (listing.lost \/ Listed \cup Passing(listing.kind, Ahead \cup Nested(ToSet(listing.docs)) \cup Nested(Behind))
                       = Passing(listing.kind, Nested(ToSet(listingSite))))'
    BY <1>2, <1>3, <1>5 DEF NestedWalk
  <1>7. NestedWalk'
    BY <1>1, <1>2, <1>6 DEF NestedWalk
  <1> QED
    BY <1>2, <1>7

(* The list is read to its end.                                            *)
LEMMA NestedOver ==
  ASSUME WalkTyped, NestedWalk, listing.kind \in NestedKinds, listing.pc = "items",
         listing.items = <<>>, listing' = [listing EXCEPT !.pc = "docs"], UNCHANGED listingSite
  PROVE  /\ listing'.kind = listing.kind /\ WalkTyped' /\ NestedWalk'
         /\ listing'.seen = listing.seen /\ listing'.found = listing.found
  <1>1. /\ DOMAIN listing' = ListingDomain /\ listing'.kind = listing.kind
        /\ listing'.pc = "docs" /\ listing'.items = listing.items
        /\ listing'.detail = listing.detail /\ listing'.docs = listing.docs
        /\ listing'.page = listing.page /\ listing'.found = listing.found
        /\ listing'.lost = listing.lost /\ listing'.capped = listing.capped
        /\ listing'.seen = listing.seen
    BY DEF WalkTyped, ListingDomain
  <1>2. WalkTyped'
    BY <1>1 DEF WalkTyped, ListingTypeOK, ListingPcs
  <1>3. Listed' = Listed /\ Ahead' = Ahead /\ Behind' = Behind
    BY <1>1 DEF Listed, Ahead, Behind
  <1>4. NestedWalk'
    BY <1>1, <1>3 DEF NestedWalk
  <1> QED
    BY <1>1, <1>2, <1>4

(* A candidate less, and of the files more what passes.                    *)
LEMMA NestedTakes ==
  ASSUME WalkTyped, NestedWalk, listing.kind \in NestedKinds, listing.pc = "items",
         listing.items # <<>>, WalkTyped', UNCHANGED listingSite,
         listing'.kind = listing.kind, listing'.pc = listing.pc, listing'.docs = listing.docs,
         listing'.page = listing.page, listing'.lost = listing.lost,
         Ahead = {Head(listing.items)} \cup Ahead',
         Listed' = Listed \cup Passing(listing.kind, {Head(listing.items)})
  PROVE  NestedWalk'
  <1>1. Behind' = Behind
    BY DEF Behind
  <1> DEFINE x == Head(listing.items)
             rest == Nested(ToSet(listing.docs)) \cup Nested(Behind)
  <1>2. Ahead \cup Nested(ToSet(listing.docs)) \cup Nested(Behind) = {x} \cup (Ahead' \cup rest)
    OBVIOUS
  <1>3. Ahead' \cup Nested(ToSet(listing.docs)) \cup Nested(Behind) = Ahead' \cup rest
    OBVIOUS
  <1> HIDE DEF x, rest
  <1>4. Passing(listing.kind, {x} \cup (Ahead' \cup rest))
          = Passing(listing.kind, {x}) \cup Passing(listing.kind, Ahead' \cup rest)
    BY PassingParts
  <1>5. Listed' \cup Passing(listing.kind, Ahead' \cup rest)
          = Listed \cup Passing(listing.kind, {x} \cup (Ahead' \cup rest))
    BY <1>4 DEF x
  <1>6. (listing.lost \/ Listed \cup Passing(listing.kind, Ahead \cup Nested(ToSet(listing.docs)) \cup Nested(Behind))
                       = Passing(listing.kind, Nested(ToSet(listingSite))))'
    BY <1>1, <1>2, <1>3, <1>5 DEF NestedWalk
  <1> QED
    BY <1>6 DEF NestedWalk

(* The walk ends where nothing is left, stops at its cap, or raises.       *)
LEMMA NestedEnds ==
  ASSUME WalkTyped, NestedWalk, listing.kind \in NestedKinds, UNCHANGED listingSite,
         listing.pc \in {"docs", "items"} \/ listing' = ListingRaised,
         \/ listing' = ListingDone /\ listing.items = <<>> /\ listing.docs = <<>> /\ Behind = {}
         \/ listing' = ListingCapped
         \/ listing' = ListingRaised
  PROVE  /\ listing'.kind = listing.kind /\ WalkTyped' /\ NestedWalk'
         /\ listing'.seen = listing.seen /\ listing'.found = listing.found
  <1>1. /\ WalkTyped'
        /\ listing'.kind = listing.kind /\ listing'.items = listing.items
        /\ listing'.seen = listing.seen /\ listing'.page = listing.page
        /\ listing'.docs = listing.docs /\ listing'.found = listing.found
        /\ Listed' = Listed /\ Ahead' = Ahead
        /\ listing' = ListingDone =>
             listing'.pc = "done" /\ listing'.lost = listing.lost /\ listing'.capped = listing.capped
        /\ listing' = ListingCapped =>
             listing'.pc = "done" /\ listing'.lost = listing.lost /\ listing'.capped
        /\ listing' = ListingRaised =>
             listing'.pc = "raised" /\ listing'.lost /\ listing'.capped = listing.capped
    BY EndTyped
  <1>2. CASE listing' = ListingRaised
    BY <1>1, <1>2 DEF NestedWalk
  <1>3. CASE listing' # ListingRaised
    <2>1. Behind' = Behind
      BY <1>1, <1>3 DEF Behind
    <2> QED
      BY <1>1, <1>3, <2>1 DEF NestedWalk
  <1> QED
    BY <1>1, <1>2, <1>3

LEMMA FileKeeps ==
  ASSUME WalkTyped, NestedWalk, FileGlobs \/ FileGlob \/ FilePath, UNCHANGED listingSite
  PROVE  listing.kind = "file" /\ listing'.kind = listing.kind /\ WalkTyped' /\ NestedWalk'
  <1>1. listing.kind = "file"
    BY DEF FileGlobs, FileGlob, FilePath, At
  <1>2. CASE FileGlobs
    BY <1>1, <1>2, NestedOpens DEF FileGlobs, At, NestedKinds
  <1>3. CASE FileGlob /\ listing.docs = <<>>
    <2>1. listing.pc = "docs" /\ listing.items = <<>> /\ listing' = ListingDone /\ Behind = {}
      BY <1>1, <1>3 DEF FileGlob, At, NestedWalk, Behind
    <2> QED
      BY <1>1, <1>3, <2>1, NestedEnds DEF NestedKinds
  <1>4. CASE FileGlob /\ listing.docs # <<>>
    BY <1>1, <1>4, NestedReads DEF FileGlob, At, NestedKinds
  <1>5. CASE FilePath /\ listing.items = <<>>
    BY <1>1, <1>5, NestedOver DEF FilePath, At, NestedKinds
  <1>6. CASE FilePath /\ listing.items # <<>>
    <2> DEFINE path == Head(listing.items)
    <2>1. listing.pc = "items" /\ listing' = ListingTook(<<path>>)
      BY <1>6 DEF FilePath, At
    <2>2. ListingList(<<path>>) /\ ToSet(<<path>>) = Passing(listing.kind, {path})
      BY <1>1, OneList DEF Passing
    <2> QED
      BY <1>1, <1>6, <2>1, <2>2, TookTyped, NestedTakes DEF NestedKinds
  <1> QED
    BY <1>2, <1>3, <1>4, <1>5, <1>6

LEMMA ArcKeeps ==
  ASSUME WalkTyped, NestedWalk, ArcServices \/ ArcService \/ ArcLayer, UNCHANGED listingSite
  PROVE  listing.kind = "arcgis" /\ listing'.kind = listing.kind /\ WalkTyped' /\ NestedWalk'
  <1>1. listing.kind = "arcgis" /\ listing.kind \in NestedKinds
    BY DEF ArcServices, ArcService, ArcLayer, At, NestedKinds
  <1>2. CASE ArcServices
    BY <1>1, <1>2, NestedOpens DEF ArcServices, At
  <1>3. CASE ArcService /\ listing.docs = <<>>
    <2>1. listing.pc = "docs" /\ listing.items = <<>> /\ listing' = ListingDone /\ Behind = {}
      BY <1>1, <1>3 DEF ArcService, At, NestedWalk, Behind
    <2> QED
      BY <1>1, <1>3, <2>1, NestedEnds
  <1>4. CASE ArcService /\ listing.docs # <<>>
    <2>1. listing.pc = "docs" /\ listing' \in {ListingReads(Head(listing.docs)), ListingRaised}
      BY <1>4 DEF ArcService, At
    <2> QED
      BY <1>1, <1>4, <2>1, NestedReads, NestedEnds
  <1>5. CASE ArcLayer /\ listing.items = <<>>
    BY <1>1, <1>5, NestedOver DEF ArcLayer, At
  <1>6. CASE ArcLayer /\ listing.items # <<>>
    <2> DEFINE layer == Head(listing.items)
    <2>1. listing.pc = "items"
          /\ \/ listing' \in {ListingCapped, ListingRaised}
             \/ layer \in ListingWanted /\ listing' = ListingTook(<<layer>>)
             \/ layer \notin ListingWanted /\ listing' = ListingSkip
      BY <1>6 DEF ArcLayer, At
    <2>2. CASE listing' \in {ListingCapped, ListingRaised}
      BY <1>1, <2>1, <2>2, NestedEnds
    <2>3. CASE layer \in ListingWanted /\ listing' = ListingTook(<<layer>>)
      <3>1. ListingList(<<layer>>) /\ ToSet(<<layer>>) = Passing(listing.kind, {layer})
        BY <1>1, <2>3, OneList DEF Passing
      <3> QED
        BY <1>1, <1>6, <2>1, <2>3, <3>1, TookTyped, NestedTakes
    <2>4. CASE layer \notin ListingWanted /\ listing' = ListingSkip
      <3>1. Passing(listing.kind, {layer}) = {}
        BY <1>1, <2>4 DEF Passing
      <3> QED
        BY <1>1, <1>6, <2>1, <2>4, <3>1, SkipTyped, NestedTakes
    <2> QED
      BY <2>1, <2>2, <2>3, <2>4
  <1> QED
    BY <1>2, <1>3, <1>4, <1>5, <1>6

(* What is emitted was not found before, and is marked as found.           *)
LEMMA Emitted ==
  ASSUME WalkTyped, FoundOnce, listing.items # <<>>, NEW file, listing' = ListingEmit(file),
         UNCHANGED listingSite
  PROVE  /\ WalkTyped' /\ FoundOnce'
         /\ listing'.kind = listing.kind /\ listing'.pc = listing.pc /\ listing'.docs = listing.docs
         /\ listing'.detail = listing.detail /\ listing'.at = listing.at
         /\ listing'.page = listing.page
         /\ listing'.lost = listing.lost /\ listing'.capped = listing.capped
         /\ \A p : <<"page", p>> \in listing'.seen <=> <<"page", p>> \in listing.seen
         /\ listing'.items = Tail(listing.items) /\ Ahead = {Head(listing.items)} \cup Ahead'
         /\ Listed' = Listed \cup ({file} \cap ListingFormats)
  <1>1. CASE file \in ListingFormats /\ <<"file", file>> \notin listing.seen
    <2> DEFINE took == ListingTook(<<file>>)
    <2>1. listing' = [took EXCEPT !.seen = @ \cup {<<"file", file>>}]
      BY <1>1 DEF ListingEmit
    <2>2. /\ DOMAIN took = ListingDomain
          /\ took.kind = listing.kind /\ took.pc = listing.pc /\ took.docs = listing.docs
          /\ took.detail = listing.detail /\ took.at = listing.at
          /\ took.seen = listing.seen /\ took.page = listing.page
          /\ took.lost = listing.lost /\ took.capped = listing.capped
          /\ took.items = Tail(listing.items) /\ took.found = listing.found \o <<file>>
      BY DEF WalkTyped, ListingDomain, ListingTook
    <2> HIDE DEF took
    <2>3. /\ DOMAIN listing' = ListingDomain
          /\ listing'.kind = listing.kind /\ listing'.pc = listing.pc /\ listing'.docs = listing.docs
          /\ listing'.detail = listing.detail /\ listing'.at = listing.at
          /\ listing'.seen = listing.seen \cup {<<"file", file>>}
          /\ listing'.page = listing.page
          /\ listing'.lost = listing.lost /\ listing'.capped = listing.capped
          /\ listing'.items = Tail(listing.items) /\ listing'.found = listing.found \o <<file>>
      BY <2>1, <2>2 DEF ListingDomain
    <2>4. /\ ListingList(listing'.items) /\ Ahead = {Head(listing.items)} \cup Ahead'
          /\ ListingList(listing'.found) /\ Listed' = Listed \cup {file}
      BY <2>3, HeadAndTail, OneList, Joined DEF WalkTyped, Ahead, Listed
    <2>5. Len(listing'.found) \in Nat
      BY <2>4 DEF ListingList
    <2>6. WalkTyped'
      BY <2>3, <2>4, <2>5 DEF WalkTyped, ListingTypeOK
    <2>7. FoundOnce'
      <3>1. file \notin Listed
        BY <1>1 DEF FoundOnce
      <3>2. IsInjective(listing'.found)
        BY <2>3, <3>1, JoinedOnce DEF FoundOnce, WalkTyped, Listed
      <3>3. \A f : f \in Listed' <=> <<"file", f>> \in listing'.seen
        BY <2>3, <2>4 DEF FoundOnce
      <3> QED
        BY <3>2, <3>3 DEF FoundOnce
    <2>8. \A p : <<"page", p>> \in listing'.seen <=> <<"page", p>> \in listing.seen
      BY <2>3
    <2> QED
      BY <1>1, <2>3, <2>4, <2>6, <2>7, <2>8
  <1>2. CASE ~(file \in ListingFormats /\ <<"file", file>> \notin listing.seen)
    <2>1. listing' = ListingSkip
      BY <1>2 DEF ListingEmit
    <2>2. /\ WalkTyped' /\ listing'.found = listing.found /\ listing'.seen = listing.seen
          /\ Listed' = Listed
      BY <2>1, SkipTyped
    <2>3. FoundOnce'
      BY <2>2 DEF FoundOnce
    <2>4. {file} \cap ListingFormats \subseteq Listed
      BY <1>2 DEF FoundOnce
    <2> QED
      BY <2>1, <2>2, <2>3, <2>4, SkipTyped
  <1> QED
    BY <1>1, <1>2

LEMMA SliceOf ==
  ASSUME NEW s, ListingList(s), NEW a \in Nat, NEW e \in Nat, a <= e, e <= Len(s)
  PROVE  /\ ListingList(SubSeq(s, a + 1, e)) /\ Len(SubSeq(s, a + 1, e)) = e - a
         /\ \A x : x \in ToSet(SubSeq(s, a + 1, e)) <=> \E i \in a + 1 .. e : x = s[i]
  <1> DEFINE S == ToSet(s)
             t == SubSeq(s, a + 1, e)
  <1>1. s \in Seq(S)
    BY DEF ListingList
  <1> HIDE DEF S
  <1>2. /\ t \in Seq(S) /\ Len(t) = e - a /\ DOMAIN t = 1 .. e - a
        /\ \A i \in 1 .. e - a : t[i] = s[i + a]
    BY <1>1
  <1> HIDE DEF t
  <1>3. \A i \in 1 .. e - a : i + a \in a + 1 .. e /\ t[i] = s[i + a]
    BY <1>2
  <1>4. \A i \in a + 1 .. e : i - a \in 1 .. e - a /\ t[i - a] = s[i]
    BY <1>2
  <1>5. ASSUME NEW x PROVE x \in ToSet(t) <=> \E i \in a + 1 .. e : x = s[i]
    <2>1. ASSUME x \in ToSet(t) PROVE \E i \in a + 1 .. e : x = s[i]
      <3>1. PICK i \in 1 .. e - a : x = t[i]
        BY <1>2, <2>1 DEF ToSet
      <3> QED
        BY <1>3, <3>1
    <2>2. ASSUME NEW i \in a + 1 .. e, x = s[i] PROVE x \in ToSet(t)
      <3>1. i - a \in DOMAIN t /\ t[i - a] = x
        BY <1>2, <1>4, <2>2
      <3> QED
        BY <3>1 DEF ToSet
    <2> QED
      BY <2>1, <2>2
  <1> QED
    BY <1>2, <1>5, SequenceIsList DEF t

LEMMA CkanSearchKeeps ==
  ASSUME WalkTyped, NestedWalk, CkanSearch, UNCHANGED listingSite
  PROVE  /\ listing'.kind = listing.kind /\ WalkTyped' /\ NestedWalk'
         /\ listing'.seen = listing.seen /\ listing'.found = listing.found
  <1>1. /\ listing.kind = "ckan_search" /\ listing.kind \in NestedKinds
        /\ listing.pc \in {"idle", "docs"} /\ listing.docs = <<>> /\ listing.items = <<>>
    BY DEF CkanSearch, At, NestedWalk, NestedKinds
  <1>2. CASE listing' = ListingRaised
    BY <1>1, <1>2, NestedEnds
  <1>3. CASE listing' # ListingRaised
    <2>1. PICK cut \in 1 .. CkanRows :
            LET batch == SubSeq(listingSite, listing.page + 1,
                                IF listing.page + cut < Len(listingSite)
                                THEN listing.page + cut ELSE Len(listingSite))
            IN  listing' = [listing EXCEPT !.pc = "docs", !.page = CkanNextStart(batch), !.docs = batch]
      BY <1>3 DEF CkanSearch
    <2> DEFINE last == Len(listingSite)
               end == IF listing.page + cut < last THEN listing.page + cut ELSE last
               batch == SubSeq(listingSite, listing.page + 1, end)
    <2>2. ListingList(listingSite) /\ \A i \in DOMAIN listingSite : ListingList(listingSite[i])
      BY <1>1 DEF WalkTyped, ListingSiteOf, HtmlKinds
    <2>3. last \in Nat /\ DOMAIN listingSite = 1 .. last
      BY <2>2 DEF ListingList
    <2>4. listing.page \in Nat /\ listing.page <= last /\ cut \in Nat \ {0}
      BY <1>1, ListingAssumption DEF WalkTyped, ListingTypeOK, NestedWalk
    <2>5. end \in Nat /\ listing.page <= end /\ end <= last
      BY <2>3, <2>4
    <2>6. /\ ListingList(batch) /\ Len(batch) = end - listing.page
          /\ \A x : x \in ToSet(batch) <=> \E i \in listing.page + 1 .. end : x = listingSite[i]
      <3>1. listing.page \in Nat /\ end \in Nat /\ listing.page <= end /\ end <= Len(listingSite)
        BY <2>4, <2>5
      <3> HIDE DEF end
      <3>2. /\ ListingList(SubSeq(listingSite, listing.page + 1, end))
            /\ Len(SubSeq(listingSite, listing.page + 1, end)) = end - listing.page
            /\ \A x : x \in ToSet(SubSeq(listingSite, listing.page + 1, end))
                     <=> \E i \in listing.page + 1 .. end : x = listingSite[i]
        BY <2>2, <3>1, SliceOf
      <3> QED
        BY <3>2
    <2> HIDE DEF end, last
    <2>7. listing' = [listing EXCEPT !.pc = "docs", !.page = CkanNextStart(batch), !.docs = batch]
      BY <2>1 DEF end, last
    <2>8. CkanNextStart(batch) = end
      BY <2>4, <2>5, <2>6 DEF CkanNextStart
    <2> HIDE DEF batch
    <2>9. /\ DOMAIN listing' = ListingDomain /\ listing'.kind = listing.kind
          /\ listing'.pc = "docs" /\ listing'.items = listing.items
          /\ listing'.detail = listing.detail /\ listing'.docs = batch
          /\ listing'.page = end /\ listing'.found = listing.found
          /\ listing'.lost = listing.lost /\ listing'.capped = listing.capped
          /\ listing'.seen = listing.seen
      BY <2>7, <2>8 DEF WalkTyped, ListingDomain
    <2>10. WalkTyped'
      BY <2>5, <2>6, <2>9 DEF WalkTyped, ListingTypeOK, ListingPcs
    <2>11. Listed' = Listed /\ Ahead' = Ahead
      BY <2>9 DEF Listed, Ahead
    <2>12. Behind = ToSet(batch) \cup Behind'
      <3>1. Behind = {listingSite[i] : i \in listing.page + 1 .. last}
        BY <1>1 DEF Behind, last
      <3>2. Behind' = {listingSite[i] : i \in end + 1 .. last}
        BY <1>1, <2>9 DEF Behind, last
      <3>3. \A i \in Int : i \in listing.page + 1 .. last
                           <=> i \in listing.page + 1 .. end \/ i \in end + 1 .. last
        BY <2>3, <2>4, <2>5
      <3> QED
        BY <2>6, <3>1, <3>2, <3>3
    <2>13. Nested(ToSet(listing.docs)) = {}
      BY <1>1, EmptyList, NestedParts
    <2>14. Nested(Behind) = Nested(ToSet(batch)) \cup Nested(Behind')
      BY <2>12 DEF Nested
    <2>15. Ahead \cup Nested(ToSet(listing.docs)) \cup Nested(Behind)
             = Ahead' \cup Nested(ToSet(listing'.docs)) \cup Nested(Behind')
      BY <2>9, <2>11, <2>13, <2>14
    <2>16. (listing.lost \/ Listed \cup Passing(listing.kind, Ahead \cup Nested(ToSet(listing.docs)) \cup Nested(Behind))
                          = Passing(listing.kind, Nested(ToSet(listingSite))))'
      BY <2>9, <2>11, <2>15 DEF NestedWalk
    <2>17. \A list \in ToSet(batch) : ListingList(list)
      <3>1. \A i \in listing.page + 1 .. end : i \in DOMAIN listingSite
        BY <2>3, <2>4, <2>5
      <3> QED
        BY <2>2, <2>6, <3>1
    <2>18. NestedWalk'
      BY <1>1, <2>5, <2>9, <2>16, <2>17 DEF NestedWalk, last
    <2> QED
      BY <2>9, <2>10, <2>18
  <1> QED
    BY <1>2, <1>3

LEMMA CkanKeeps ==
  ASSUME WalkTyped, NestedWalk, FoundOnce, UNCHANGED listingSite,
         CkanIds \/ CkanShow \/ CkanSearch \/ CkanPackage \/ CkanResource
  PROVE  /\ listing.kind \in {"ckan_ids", "ckan_search"} /\ listing'.kind = listing.kind
         /\ WalkTyped' /\ NestedWalk' /\ FoundOnce'
  <1>1. listing.kind \in {"ckan_ids", "ckan_search"} /\ listing.kind \in NestedKinds
    BY DEF CkanIds, CkanShow, CkanSearch, CkanPackage, CkanResource, At, NestedKinds
  <1> DEFINE Kept == /\ listing'.kind = listing.kind /\ WalkTyped' /\ NestedWalk'
                     /\ listing'.seen = listing.seen /\ listing'.found = listing.found
  <1>2. CASE CkanIds
    <2>1. Kept
      BY <1>1, <1>2, NestedOpens DEF CkanIds, At
    <2> QED
      BY <1>1, <2>1 DEF FoundOnce, Listed
  <1>3. CASE CkanShow
    <2>1. listing.kind = "ckan_ids" /\ listing.pc = "docs" /\ listing.items = <<>> /\ Behind = {}
      BY <1>3 DEF CkanShow, At, NestedWalk, Behind
    <2>2. CASE listing.docs = <<>>
      <3>1. Kept
        BY <1>1, <1>3, <2>1, <2>2, NestedEnds DEF CkanShow
      <3> QED
        BY <1>1, <3>1 DEF FoundOnce, Listed
    <2>3. CASE listing.docs # <<>> /\ listing' = ListingReads(Head(listing.docs))
      <3>1. Kept
        BY <1>1, <2>1, <2>3, NestedReads
      <3> QED
        BY <1>1, <3>1 DEF FoundOnce, Listed
    <2>4. CASE listing.docs # <<>> /\ listing' = [listing EXCEPT !.docs = Tail(@), !.lost = TRUE]
      <3>1. /\ DOMAIN listing' = ListingDomain /\ listing'.kind = listing.kind
            /\ listing'.pc = listing.pc /\ listing'.items = listing.items
            /\ listing'.detail = listing.detail /\ listing'.docs = Tail(listing.docs)
            /\ listing'.page = listing.page /\ listing'.found = listing.found
            /\ listing'.lost /\ listing'.capped = listing.capped
            /\ listing'.seen = listing.seen
        BY <2>4 DEF WalkTyped, ListingDomain
      <3>2. ListingList(listing'.docs) /\ ToSet(listing'.docs) \subseteq ToSet(listing.docs)
        BY <2>4, <3>1, HeadAndTail DEF WalkTyped
      <3>3. WalkTyped'
        BY <3>1, <3>2 DEF WalkTyped, ListingTypeOK
      <3>4. NestedWalk'
        BY <2>1, <3>1, <3>2 DEF NestedWalk
      <3> QED
        BY <1>1, <3>1, <3>3, <3>4 DEF FoundOnce, Listed
    <2> QED
      BY <1>3, <2>2, <2>3, <2>4 DEF CkanShow
  <1>4. CASE CkanSearch
    <2>1. Kept
      BY <1>4, CkanSearchKeeps
    <2> QED
      BY <1>1, <2>1 DEF FoundOnce, Listed
  <1>5. CASE CkanPackage
    <2>1. listing.kind = "ckan_search" /\ listing.pc = "docs" /\ listing.items = <<>>
      BY <1>5 DEF CkanPackage, At, NestedWalk
    <2>2. CASE listing.docs # <<>>
      <3>1. Kept
        BY <1>1, <1>5, <2>1, <2>2, NestedReads DEF CkanPackage
      <3> QED
        BY <1>1, <3>1 DEF FoundOnce, Listed
    <2>3. CASE listing.docs = <<>>
      <3>1. listing' = ListingDone /\ listing.page >= Len(listingSite)
        BY <1>5, <2>3 DEF CkanPackage
      <3>2. ListingList(listingSite)
        BY <2>1 DEF WalkTyped, ListingSiteOf, HtmlKinds
      <3>3. Len(listingSite) \in Nat /\ listing.page \in Nat
        BY <3>2 DEF ListingList, WalkTyped, ListingTypeOK
      <3>4. listing.page + 1 .. Len(listingSite) = {}
        BY <3>1, <3>3
      <3>5. Behind = {}
        BY <2>1, <3>4 DEF Behind
      <3>6. Kept
        BY <1>1, <2>1, <2>3, <3>1, <3>5, NestedEnds
      <3> QED
        BY <1>1, <3>6 DEF FoundOnce, Listed
    <2> QED
      BY <2>2, <2>3
  <1>6. CASE CkanResource /\ listing.items = <<>>
    <2>1. Kept
      BY <1>1, <1>6, NestedOver DEF CkanResource, At
    <2> QED
      BY <1>1, <2>1 DEF FoundOnce, Listed
  <1>7. CASE CkanResource /\ listing.items # <<>>
    <2> DEFINE resource == Head(listing.items)
    <2>1. listing.pc = "items" /\ listing' = ListingEmit(resource)
      BY <1>7 DEF CkanResource, At
    <2>2. Passing(listing.kind, {resource}) = {resource} \cap ListingFormats
      BY <1>1 DEF Passing
    <2> HIDE DEF resource
    <2>3. /\ WalkTyped' /\ FoundOnce'
          /\ listing'.kind = listing.kind /\ listing'.pc = listing.pc /\ listing'.docs = listing.docs
          /\ listing'.page = listing.page /\ listing'.lost = listing.lost
          /\ Ahead = {Head(listing.items)} \cup Ahead'
          /\ Listed' = Listed \cup ({resource} \cap ListingFormats)
      BY <1>7, <2>1, Emitted
    <2>4. NestedWalk'
      BY <1>1, <1>7, <2>1, <2>2, <2>3, NestedTakes DEF resource
    <2> QED
      BY <1>1, <2>3, <2>4
  <1> QED
    BY <1>2, <1>3, <1>4, <1>5, <1>6, <1>7

-----------------------------------------------------------------------------
(* Sitemaps.                                                               *)

LEMMA SitemapSite ==
  ASSUME WalkTyped, listing.kind = "sitemap"
  PROVE  /\ SitemapDefault \in DOMAIN SitemapKids
         /\ ListingList(SitemapRoots) /\ ToSet(SitemapRoots) \subseteq DOMAIN SitemapKids
         /\ \A d \in DOMAIN SitemapKids :
              /\ ListingList(SitemapKids[d]) /\ ToSet(SitemapKids[d]) \subseteq DOMAIN SitemapKids
              /\ ListingList(SitemapLocs[d])
  <1>1. /\ SitemapDefault \in DOMAIN SitemapKids /\ SitemapDeclared \in Seq(DOMAIN SitemapKids)
        /\ SitemapKids \in [DOMAIN SitemapKids -> Seq(DOMAIN SitemapKids)]
        /\ \A d \in DOMAIN SitemapKids : ListingList(SitemapLocs[d])
    <2>1. ListingSiteOf("sitemap", listingSite)
      BY DEF WalkTyped
    <2>2. /\ SitemapDefault \in DOMAIN listingSite.kids
          /\ listingSite.declared \in Seq(DOMAIN listingSite.kids)
          /\ listingSite.kids \in [DOMAIN listingSite.kids -> Seq(DOMAIN listingSite.kids)]
          /\ \A d \in DOMAIN listingSite.kids : ListingList(listingSite.locs[d])
      BY <2>1 DEF ListingSiteOf
    <2> QED
      BY <2>2 DEF SitemapKids, SitemapDeclared, SitemapLocs
  <1>2. ListingList(SitemapRoots) /\ ToSet(SitemapRoots) \subseteq DOMAIN SitemapKids
    BY <1>1, SequenceIsList, OneList DEF SitemapRoots
  <1>3. ASSUME NEW d \in DOMAIN SitemapKids
        PROVE  ListingList(SitemapKids[d]) /\ ToSet(SitemapKids[d]) \subseteq DOMAIN SitemapKids
    <2>1. SitemapKids[d] \in Seq(DOMAIN SitemapKids)
      BY <1>1
    <2> QED
      BY <2>1, SequenceIsList
  <1> QED
    BY <1>1, <1>2, <1>3

(* The sitemaps that can be reached: the declared ones, and what a reached *)
(* one leads to, and no others.                                            *)
LEMMA SitemapReachedClosed ==
  ASSUME WalkTyped, listing.kind = "sitemap"
  PROVE  ToSet(SitemapRoots) \subseteq SitemapReached /\ SitemapClosed(SitemapReached)
  <1>1. ToSet(SitemapRoots) \subseteq SitemapReached
    BY SitemapSite DEF SitemapReached
  <1>2. ASSUME NEW d \in SitemapReached, NEW kid \in ToSet(SitemapKids[d])
        PROVE  kid \in SitemapReached
    <2>1. d \in DOMAIN SitemapKids /\ kid \in DOMAIN SitemapKids
      BY <1>2, SitemapSite DEF SitemapReached
    <2>2. ASSUME NEW S \in SUBSET DOMAIN SitemapKids, SitemapClosed(S), ToSet(SitemapRoots) \subseteq S
          PROVE  kid \in S
      BY <1>2, <2>2 DEF SitemapReached, SitemapClosed
    <2> QED
      BY <2>1, <2>2 DEF SitemapReached
  <1> QED
    BY <1>1, <1>2 DEF SitemapClosed

LEMMA SitemapReachedLeast ==
  ASSUME NEW S \in SUBSET DOMAIN SitemapKids, ToSet(SitemapRoots) \subseteq S, SitemapClosed(S)
  PROVE  SitemapReached \subseteq S
  BY DEF SitemapReached

LEMMA SitemapStands ==
  ASSUME UNCHANGED listingSite
  PROVE  /\ SitemapKids' = SitemapKids /\ SitemapRoots' = SitemapRoots
         /\ SitemapReached' = SitemapReached
         /\ \A S : SitemapListed(S)' = SitemapListed(S)
  <1>1. /\ SitemapKids' = SitemapKids /\ SitemapRoots' = SitemapRoots /\ SitemapLocs' = SitemapLocs
    BY DEF SitemapKids, SitemapRoots, SitemapDeclared, SitemapLocs
  <1>2. SitemapReached' = SitemapReached
    BY <1>1 DEF SitemapReached, SitemapClosed
  <1>3. \A S : SitemapListed(S)' = SitemapListed(S)
    BY <1>1 DEF SitemapListed
  <1> QED
    BY <1>1, <1>2, <1>3

LEMMA SitemapListedMore ==
  ASSUME NEW S, NEW d
  PROVE  SitemapListed(S \cup {d})
           = SitemapListed(S) \cup (ToSet(SitemapLocs[d]) \cap ListingWanted \cap ListingFormats)
  <1>1. (UNION {ToSet(SitemapLocs[e]) : e \in S \cup {d}})
          = (UNION {ToSet(SitemapLocs[e]) : e \in S}) \cup ToSet(SitemapLocs[d])
    OBVIOUS
  <1> QED
    BY <1>1 DEF SitemapListed

LEMMA SitemapUrlsKeeps ==
  ASSUME WalkTyped, SitemapWalk, SitemapUrls, UNCHANGED listingSite
  PROVE  listing'.kind = listing.kind /\ WalkTyped' /\ SitemapWalk'
  <1>1. listing.kind = "sitemap" /\ listing.pc = "idle"
    BY DEF SitemapUrls, At
  <1>2. PICK ok \in BOOLEAN :
          listing' = [listing EXCEPT !.pc = "docs",
             !.docs = IF ok THEN SitemapRoots ELSE <<SitemapDefault>>, !.lost = ~ok]
    BY DEF SitemapUrls
  <1>3. /\ DOMAIN listing' = ListingDomain /\ listing'.kind = listing.kind
        /\ listing'.pc = "docs" /\ listing'.items = listing.items
        /\ listing'.docs = (IF ok THEN SitemapRoots ELSE <<SitemapDefault>>)
        /\ listing'.detail = listing.detail
        /\ listing'.page = listing.page /\ listing'.found = listing.found
        /\ listing'.lost = ~ok /\ listing'.capped = listing.capped
        /\ listing'.seen = listing.seen
    BY <1>2 DEF WalkTyped, ListingDomain
  <1>4. ListingList(listing'.docs) /\ ToSet(listing'.docs) \subseteq DOMAIN SitemapKids
    BY <1>1, <1>3, SitemapSite, OneList
  <1>5. WalkTyped'
    BY <1>3, <1>4 DEF WalkTyped, ListingTypeOK, ListingPcs
  <1>6. listing.seen = {} /\ Listed = {} /\ listing.items = <<>>
    BY <1>1 DEF SitemapWalk
  <1>7. Listed' = {} /\ Ahead' = {} /\ SitemapListed({}) = {}
    BY <1>3, <1>6, EmptyList DEF Listed, Ahead, SitemapListed
  <1>8. ToSet(SitemapRoots) \subseteq SitemapReached
    BY <1>1, SitemapReachedClosed
  <1>9. SitemapWalk'
    BY <1>3, <1>4, <1>6, <1>7, <1>8, SitemapStands DEF SitemapWalk
  <1> QED
    BY <1>3, <1>5, <1>9

(* What a sitemap read lists stands before the walk; what it leads to, in  *)
(* its queue.                                                              *)
LEMMA SitemapDocKeeps ==
  ASSUME WalkTyped, SitemapWalk, SitemapDoc, UNCHANGED listingSite
  PROVE  listing'.kind = listing.kind /\ WalkTyped' /\ SitemapWalk'
  <1> DEFINE d == Head(listing.docs)
             rest == Tail(listing.docs)
             read == [listing EXCEPT !.seen = @ \cup {d}, !.page = @ + 1, !.at = d]
  <1>1. /\ listing.kind = "sitemap" /\ listing.pc = "docs" /\ listing.docs # <<>>
        /\ listing.items = <<>>
    BY DEF SitemapDoc, At, SitemapWalk
  <1>2. ListingList(rest) /\ ToSet(listing.docs) = {d} \cup ToSet(rest)
    BY <1>1, HeadAndTail DEF WalkTyped
  <1>3. d \in DOMAIN SitemapKids /\ ToSet(rest) \subseteq DOMAIN SitemapKids
    BY <1>2 DEF SitemapWalk
  <1>4. CASE ~SitemapUnseen(d)
    <2>1. listing' = [listing EXCEPT !.docs = rest]
      BY <1>4 DEF SitemapDoc
    <2>2. /\ DOMAIN listing' = ListingDomain /\ listing'.kind = listing.kind
          /\ listing'.pc = listing.pc /\ listing'.items = listing.items
          /\ listing'.docs = rest /\ listing'.detail = listing.detail
          /\ listing'.page = listing.page /\ listing'.found = listing.found
          /\ listing'.lost = listing.lost /\ listing'.capped = listing.capped
          /\ listing'.seen = listing.seen
      BY <2>1 DEF WalkTyped, ListingDomain
    <2> HIDE DEF rest
    <2>3. WalkTyped'
      BY <1>2, <2>2 DEF WalkTyped, ListingTypeOK
    <2>4. Listed' = Listed /\ Ahead' = Ahead
      BY <2>2 DEF Listed, Ahead
    <2>5. /\ listing'.seen \cup ToSet(listing'.docs) = listing.seen \cup ToSet(listing.docs)
          /\ ToSet(listing'.docs) \subseteq DOMAIN SitemapKids
      BY <1>2, <1>3, <1>4, <2>2 DEF SitemapUnseen
    <2>6. SitemapWalk'
      BY <1>1, <2>2, <2>4, <2>5, SitemapStands DEF SitemapWalk
    <2> QED
      BY <2>2, <2>3, <2>6
  <1>5. CASE SitemapUnseen(d) /\ listing.page = SitemapBudget
    <2>1. listing' = [listing EXCEPT !.docs = rest, !.capped = TRUE]
      BY <1>5 DEF SitemapDoc
    <2>2. /\ DOMAIN listing' = ListingDomain /\ listing'.kind = listing.kind
          /\ listing'.pc = listing.pc /\ listing'.items = listing.items
          /\ listing'.docs = rest /\ listing'.detail = listing.detail
          /\ listing'.page = listing.page /\ listing'.found = listing.found
          /\ listing'.lost = listing.lost /\ listing'.capped
          /\ listing'.capped \in BOOLEAN /\ listing'.seen = listing.seen
      BY <2>1 DEF WalkTyped, ListingDomain
    <2> HIDE DEF rest
    <2>3. WalkTyped'
      BY <1>2, <2>2 DEF WalkTyped, ListingTypeOK
    <2>4. Listed' = Listed /\ Ahead' = Ahead
      BY <2>2 DEF Listed, Ahead
    <2>5. /\ listing'.seen \cup ToSet(listing'.docs) \subseteq listing.seen \cup ToSet(listing.docs)
          /\ ToSet(listing'.docs) \subseteq DOMAIN SitemapKids
      BY <1>2, <1>3, <2>2
    <2>6. SitemapWalk'
      BY <1>1, <2>2, <2>4, <2>5, SitemapStands DEF SitemapWalk
    <2> QED
      BY <2>2, <2>3, <2>6
  <1>6. CASE SitemapUnseen(d) /\ listing.page # SitemapBudget
    <2>1. \/ listing' = [read EXCEPT !.docs = rest, !.lost = TRUE]
          \/ listing' = [read EXCEPT !.docs = SitemapKids[d] \o rest, !.pc = "items",
                                     !.items = SitemapLocs[d]]
      BY <1>6 DEF SitemapDoc
    <2>2. /\ DOMAIN read = ListingDomain /\ read.kind = listing.kind
          /\ read.pc = listing.pc /\ read.items = listing.items
          /\ read.docs = listing.docs /\ read.detail = listing.detail
          /\ read.page = listing.page + 1 /\ read.found = listing.found
          /\ read.lost = listing.lost /\ read.capped = listing.capped
          /\ read.seen = listing.seen \cup {d}
      BY DEF WalkTyped, ListingDomain
    <2> HIDE DEF read
    <2>3. CASE listing' = [read EXCEPT !.docs = rest, !.lost = TRUE]
      <3>1. /\ DOMAIN listing' = ListingDomain /\ listing'.kind = listing.kind
            /\ listing'.pc = listing.pc /\ listing'.items = listing.items
            /\ listing'.docs = rest /\ listing'.detail = listing.detail
            /\ listing'.page = listing.page + 1 /\ listing'.found = listing.found
            /\ listing'.lost /\ listing'.lost \in BOOLEAN /\ listing'.capped = listing.capped
            /\ listing'.seen = listing.seen \cup {d}
        BY <2>2, <2>3 DEF ListingDomain
      <3> HIDE DEF rest, d
      <3>2. WalkTyped'
        BY <1>2, <3>1 DEF WalkTyped, ListingTypeOK
      <3>3. SitemapWalk'
        BY <1>1, <1>3, <3>1, SitemapStands DEF SitemapWalk
      <3> QED
        BY <3>1, <3>2, <3>3
    <2>4. CASE listing' = [read EXCEPT !.docs = SitemapKids[d] \o rest, !.pc = "items",
                                       !.items = SitemapLocs[d]]
      <3>1. /\ DOMAIN listing' = ListingDomain /\ listing'.kind = listing.kind
            /\ listing'.pc = "items" /\ listing'.items = SitemapLocs[d]
            /\ listing'.docs = SitemapKids[d] \o rest /\ listing'.detail = listing.detail
            /\ listing'.page = listing.page + 1 /\ listing'.found = listing.found
            /\ listing'.lost = listing.lost /\ listing'.capped = listing.capped
            /\ listing'.seen = listing.seen \cup {d}
        BY <2>2, <2>4 DEF ListingDomain
      <3> HIDE DEF rest, d
      <3>2. /\ ListingList(SitemapKids[d]) /\ ToSet(SitemapKids[d]) \subseteq DOMAIN SitemapKids
            /\ ListingList(SitemapLocs[d])
        BY <1>1, <1>3, SitemapSite
      <3>3. ListingList(listing'.docs) /\ ToSet(listing'.docs) = ToSet(SitemapKids[d]) \cup ToSet(rest)
        BY <1>2, <3>1, <3>2, Joined
      <3>4. WalkTyped'
        BY <3>1, <3>2, <3>3 DEF WalkTyped, ListingTypeOK, ListingPcs
      <3>5. Listed' = Listed /\ Ahead = {} /\ Ahead' = ToSet(SitemapLocs[d])
        BY <1>1, <3>1, EmptyList DEF Listed, Ahead
      <3>6. SitemapListed(listing.seen \cup {d})
              = SitemapListed(listing.seen)
                \cup (ToSet(SitemapLocs[d]) \cap ListingWanted \cap ListingFormats)
        BY SitemapListedMore
      <3>7. ASSUME ~listing.lost
            PROVE  /\ listing'.seen \cup ToSet(listing'.docs) \subseteq SitemapReached
                   /\ Listed' \cup (Ahead' \cap ListingWanted \cap ListingFormats)
                        = SitemapListed(listing'.seen)
        <4>1. d \in SitemapReached
          BY <1>2, <3>7 DEF SitemapWalk
        <4>2. ToSet(SitemapKids[d]) \subseteq SitemapReached
          BY <1>1, <4>1, SitemapReachedClosed DEF SitemapClosed
        <4> QED
          BY <1>2, <3>1, <3>3, <3>5, <3>6, <3>7, <4>1, <4>2 DEF SitemapWalk
      <3>8. ASSUME ~listing.lost, ~listing.capped
            PROVE  /\ ToSet(SitemapRoots) \subseteq listing'.seen \cup ToSet(listing'.docs)
                   /\ \A e \in listing'.seen :
                        ToSet(SitemapKids[e]) \subseteq listing'.seen \cup ToSet(listing'.docs)
        BY <1>1, <1>2, <3>1, <3>3, <3>8 DEF SitemapWalk
      <3>9. SitemapWalk'
        BY <1>1, <1>3, <3>1, <3>2, <3>3, <3>7, <3>8, SitemapStands DEF SitemapWalk
      <3> QED
        BY <3>1, <3>4, <3>9
    <2> QED
      BY <2>1, <2>3, <2>4
  <1> QED
    BY <1>4, <1>5, <1>6

LEMMA SitemapLocKeeps ==
  ASSUME WalkTyped, SitemapWalk, SitemapLoc, UNCHANGED listingSite
  PROVE  listing'.kind = listing.kind /\ WalkTyped' /\ SitemapWalk'
  <1>1. listing.kind = "sitemap" /\ listing.pc = "items"
    BY DEF SitemapLoc, At
  <1>2. CASE listing.items = <<>>
    <2>1. listing' = [listing EXCEPT !.pc = "docs"]
      BY <1>2 DEF SitemapLoc
    <2>2. /\ DOMAIN listing' = ListingDomain /\ listing'.kind = listing.kind
          /\ listing'.pc = "docs" /\ listing'.items = <<>>
          /\ listing'.docs = listing.docs /\ listing'.detail = listing.detail
          /\ listing'.page = listing.page /\ listing'.found = listing.found
          /\ listing'.lost = listing.lost /\ listing'.capped = listing.capped
          /\ listing'.seen = listing.seen
      BY <1>2, <2>1 DEF WalkTyped, ListingDomain
    <2>3. WalkTyped'
      BY <2>2, EmptyList DEF WalkTyped, ListingTypeOK, ListingPcs
    <2>4. Listed' = Listed /\ Ahead' = Ahead
      BY <1>2, <2>2 DEF Listed, Ahead
    <2>5. SitemapWalk'
      BY <1>1, <2>2, <2>4, SitemapStands DEF SitemapWalk
    <2> QED
      BY <2>2, <2>3, <2>5
  <1>3. CASE listing.items # <<>> /\ ListingFull
    <2>1. listing' = ListingCapped
      BY <1>3 DEF SitemapLoc
    <2>2. /\ WalkTyped' /\ listing'.kind = listing.kind /\ listing'.capped /\ listing'.pc = "done"
          /\ listing'.seen = listing.seen /\ listing'.docs = listing.docs
          /\ listing'.lost = listing.lost /\ Listed' = Listed /\ Ahead' = Ahead
      BY <2>1, EndTyped
    <2>3. SitemapWalk'
      BY <1>1, <2>2, SitemapStands DEF SitemapWalk
    <2> QED
      BY <2>2, <2>3
  <1>4. CASE listing.items # <<>> /\ ~ListingFull
    <2> DEFINE loc == Head(listing.items)
               fs == IF loc \in ListingWanted \cap ListingFormats THEN <<loc>> ELSE <<>>
    <2>1. listing' = ListingTook(fs)
      BY <1>4 DEF SitemapLoc
    <2>2. ListingList(fs) /\ ToSet(fs) = {loc} \cap ListingWanted \cap ListingFormats
      BY OneList, EmptyList
    <2> HIDE DEF fs
    <2>3. /\ WalkTyped' /\ listing'.kind = listing.kind /\ listing'.pc = "items"
          /\ listing'.docs = listing.docs /\ listing'.seen = listing.seen
          /\ listing'.lost = listing.lost /\ listing'.capped = listing.capped
          /\ Listed' = Listed \cup ToSet(fs) /\ Ahead = {loc} \cup Ahead'
      BY <1>1, <1>4, <2>1, <2>2, TookTyped
    <2>4. Listed' \cup (Ahead' \cap ListingWanted \cap ListingFormats)
            = Listed \cup (Ahead \cap ListingWanted \cap ListingFormats)
      BY <2>2, <2>3
    <2>5. SitemapWalk'
      BY <1>1, <2>3, <2>4, SitemapStands DEF SitemapWalk
    <2> QED
      BY <2>3, <2>5
  <1> QED
    BY <1>2, <1>3, <1>4

LEMMA SitemapEndKeeps ==
  ASSUME WalkTyped, SitemapWalk, SitemapEnd, UNCHANGED listingSite
  PROVE  listing'.kind = listing.kind /\ WalkTyped' /\ SitemapWalk'
  <1>1. /\ listing.kind = "sitemap" /\ listing.pc = "docs" /\ listing.docs = <<>>
        /\ listing.items = <<>> /\ listing' = ListingDone
    BY DEF SitemapEnd, At, SitemapWalk
  <1>2. /\ WalkTyped' /\ listing'.kind = listing.kind /\ listing'.pc = "done"
        /\ listing'.items = listing.items /\ listing'.capped = listing.capped
        /\ listing'.seen = listing.seen /\ listing'.docs = listing.docs
        /\ listing'.lost = listing.lost /\ Listed' = Listed /\ Ahead' = Ahead
    BY <1>1, EndTyped
  <1>3. SitemapWalk'
    BY <1>1, <1>2, SitemapStands DEF SitemapWalk
  <1> QED
    BY <1>2, <1>3

-----------------------------------------------------------------------------
(* html_index.                                                             *)

LEMMA PagesSite ==
  ASSUME WalkTyped, listing.kind \in HtmlKinds \cup {"portal"}
  PROVE  /\ 0 \in DOMAIN HtmlLinks /\ DOMAIN HtmlLinks \subseteq Nat
         /\ \A p \in DOMAIN HtmlLinks, q \in Nat : q <= p => q \in DOMAIN HtmlLinks
         /\ \A p : ListingList(HtmlPageLinks(p))
         /\ listing.kind = "html_next" =>
              \A p \in DOMAIN HtmlLinks : HtmlNext[p] \in DOMAIN HtmlLinks \cup {ListingNone}
         /\ listing.kind = "portal" =>
              \A l \in LinksOn(DOMAIN HtmlLinks) : ListingList(PortalFiles[l])
  <1>1. /\ \E last \in DOMAIN HtmlLinks : last \in Nat /\ DOMAIN HtmlLinks = 0..last
        /\ \A p \in DOMAIN HtmlLinks :
             /\ ListingList(HtmlLinks[p])
             /\ listing.kind = "html_next" => HtmlNext[p] \in DOMAIN HtmlLinks \cup {ListingNone}
             /\ listing.kind = "portal" => \A l \in ToSet(HtmlLinks[p]) : ListingList(PortalFiles[l])
    BY DEF WalkTyped, ListingSiteOf, HtmlLinks, HtmlNext, PortalFiles
  <1>2. PICK last \in Nat : DOMAIN HtmlLinks = 0..last
    BY <1>1
  <1>3. /\ 0 \in DOMAIN HtmlLinks /\ DOMAIN HtmlLinks \subseteq Nat
        /\ \A p \in DOMAIN HtmlLinks, q \in Nat : q <= p => q \in DOMAIN HtmlLinks
    BY <1>2
  <1>4. \A p : ListingList(HtmlPageLinks(p))
    BY <1>1, EmptyList DEF HtmlPageLinks
  <1>5. listing.kind = "portal" => \A l \in LinksOn(DOMAIN HtmlLinks) : ListingList(PortalFiles[l])
    BY <1>1 DEF LinksOn
  <1> QED
    BY <1>1, <1>3, <1>4, <1>5

LEMMA PagesStand ==
  ASSUME UNCHANGED listingSite
  PROVE  /\ HtmlLinks' = HtmlLinks /\ HtmlNext' = HtmlNext /\ HtmlFile' = HtmlFile
         /\ PortalFiles' = PortalFiles /\ HtmlChain' = HtmlChain /\ PortalPages' = PortalPages
         /\ \A p : HtmlPageLinks(p)' = HtmlPageLinks(p)
         /\ \A P : LinksOn(P)' = LinksOn(P)
         /\ \A L : PortalListed(L)' = PortalListed(L)
  <1>1. /\ HtmlLinks' = HtmlLinks /\ HtmlNext' = HtmlNext /\ HtmlFile' = HtmlFile
        /\ PortalFiles' = PortalFiles
    BY DEF HtmlLinks, HtmlNext, HtmlFile, PortalFiles
  <1>2. HtmlChain' = HtmlChain
    BY <1>1 DEF HtmlChain
  <1>3. PortalPages' = PortalPages
    BY <1>1 DEF PortalPages
  <1>4. \A p : HtmlPageLinks(p)' = HtmlPageLinks(p)
    BY <1>1 DEF HtmlPageLinks
  <1>5. \A P : LinksOn(P)' = LinksOn(P)
    BY <1>1 DEF LinksOn
  <1>6. \A L : PortalListed(L)' = PortalListed(L)
    BY <1>1 DEF PortalListed
  <1> QED
    BY <1>1, <1>2, <1>3, <1>4, <1>5, <1>6

LEMMA HtmlStands ==
  ASSUME UNCHANGED listingSite, listing'.detail = listing.detail
  PROVE  /\ \A L : HtmlOf(L)' = HtmlOf(L)
         /\ \A P : HtmlFiles(P)' = HtmlFiles(P)
  BY PagesStand DEF HtmlOf, HtmlFiles

LEMMA HtmlParts ==
  ASSUME NEW L, NEW M
  PROVE  HtmlOf(L \cup M) = HtmlOf(L) \cup HtmlOf(M) /\ HtmlOf({}) = {}
  BY DEF HtmlOf

(* A page more: its links are what it adds.                                *)
LEMMA PageMore ==
  ASSUME NEW P, NEW p
  PROVE  LinksOn(P \cup ({p} \cap DOMAIN HtmlLinks)) = LinksOn(P) \cup ToSet(HtmlPageLinks(p))
  <1>1. CASE p \in DOMAIN HtmlLinks
    <2>1. P \cup ({p} \cap DOMAIN HtmlLinks) = P \cup {p} /\ HtmlPageLinks(p) = HtmlLinks[p]
      BY <1>1 DEF HtmlPageLinks
    <2>2. LinksOn(P \cup {p}) = LinksOn(P) \cup ToSet(HtmlLinks[p])
      BY DEF LinksOn
    <2> QED
      BY <2>1, <2>2
  <1>2. CASE p \notin DOMAIN HtmlLinks
    <2>1. P \cup ({p} \cap DOMAIN HtmlLinks) = P /\ ToSet(HtmlPageLinks(p)) = {}
      BY <1>2, EmptyList DEF HtmlPageLinks
    <2> QED
      BY <2>1
  <1> QED
    BY <1>1, <1>2

LEMMA ChainLeads ==
  ASSUME WalkTyped, listing.kind = "html_next"
  PROVE  /\ 0 \in HtmlChain /\ HtmlChain \subseteq DOMAIN HtmlLinks
         /\ \A p \in HtmlChain : HtmlNext[p] \in HtmlChain \cup {ListingNone}
  <1>1. /\ 0 \in DOMAIN HtmlLinks
        /\ \A p \in DOMAIN HtmlLinks : HtmlNext[p] \in DOMAIN HtmlLinks \cup {ListingNone}
    BY PagesSite DEF HtmlKinds
  <1>2. 0 \in HtmlChain /\ HtmlChain \subseteq DOMAIN HtmlLinks
    BY <1>1 DEF HtmlChain
  <1>3. ASSUME NEW p \in HtmlChain, HtmlNext[p] # ListingNone PROVE HtmlNext[p] \in HtmlChain
    <2>1. HtmlNext[p] \in DOMAIN HtmlLinks
      BY <1>1, <1>2, <1>3
    <2>2. ASSUME NEW S \in SUBSET DOMAIN HtmlLinks,
                 0 \in S /\ \A q \in S : HtmlNext[q] \in S \cup {ListingNone}
          PROVE  HtmlNext[p] \in S
      BY <1>3, <2>2 DEF HtmlChain
    <2> QED
      BY <2>1, <2>2 DEF HtmlChain
  <1> QED
    BY <1>2, <1>3

LEMMA ChainLeast ==
  ASSUME NEW S \in SUBSET DOMAIN HtmlLinks, 0 \in S,
         \A q \in S : HtmlNext[q] \in S \cup {ListingNone}
  PROVE  HtmlChain \subseteq S
  BY DEF HtmlChain

(* What a page read adds, whichever way it was chosen.                     *)
LEMMA HtmlYieldsTyped ==
  ASSUME WalkTyped, FoundOnce, listing.kind \in HtmlKinds, listing.items = <<>>, NEW p,
         HtmlYields(p), listing' # ListingRaised, UNCHANGED listingSite
  PROVE  /\ WalkTyped' /\ FoundOnce'
         /\ listing'.kind = listing.kind /\ listing'.pc = "items" /\ listing'.at = p
         /\ listing'.page = listing.page + 1
         /\ listing'.lost = listing.lost /\ listing'.capped = listing.capped
         /\ HtmlRead' = HtmlRead \cup ({p} \cap DOMAIN HtmlLinks)
         /\ Listed' = Listed
         /\ Listed \cup HtmlOf(Ahead) = HtmlFiles(HtmlRead)
              => (Listed \cup HtmlOf(Ahead) = HtmlFiles(HtmlRead))'
  <1>1. listing' = [listing EXCEPT !.pc = "items", !.at = p, !.page = @ + 1,
                                   !.seen = @ \cup {<<"page", p>>}, !.items = HtmlPageLinks(p)]
    BY DEF HtmlYields
  <1>2. /\ DOMAIN listing' = ListingDomain /\ listing'.kind = listing.kind
        /\ listing'.pc = "items" /\ listing'.items = HtmlPageLinks(p)
        /\ listing'.docs = listing.docs /\ listing'.detail = listing.detail
        /\ listing'.page = listing.page + 1 /\ listing'.found = listing.found
        /\ listing'.lost = listing.lost /\ listing'.capped = listing.capped
        /\ listing'.at = p /\ listing'.seen = listing.seen \cup {<<"page", p>>}
    BY <1>1 DEF WalkTyped, ListingDomain
  <1>3. WalkTyped'
    BY <1>2, PagesSite DEF WalkTyped, ListingTypeOK, ListingPcs
  <1>4. Listed' = Listed /\ Ahead = {} /\ Ahead' = ToSet(HtmlPageLinks(p))
    BY <1>2, EmptyList DEF Listed, Ahead
  <1>5. FoundOnce'
    <2>1. \A file : <<"file", file>> \in listing'.seen <=> <<"file", file>> \in listing.seen
      BY <1>2
    <2> QED
      BY <1>2, <1>4, <2>1 DEF FoundOnce
  <1>6. HtmlRead' = HtmlRead \cup ({p} \cap DOMAIN HtmlLinks)
    <2>1. \A q : <<"page", q>> \in listing'.seen <=> (<<"page", q>> \in listing.seen \/ q = p)
      BY <1>2
    <2> QED
      BY <2>1, PagesStand DEF HtmlRead
  <1>7. ASSUME Listed \cup HtmlOf(Ahead) = HtmlFiles(HtmlRead)
        PROVE  Listed' \cup HtmlOf(Ahead)' = HtmlFiles(HtmlRead)'
    <2>1. HtmlOf(Ahead)' = HtmlOf(ToSet(HtmlPageLinks(p)))
      BY <1>2, <1>4, HtmlStands DEF HtmlOf
    <2>2. HtmlFiles(HtmlRead)' = HtmlOf(LinksOn(HtmlRead) \cup ToSet(HtmlPageLinks(p)))
      <3>1. LinksOn(HtmlRead)' = LinksOn(HtmlRead) \cup ToSet(HtmlPageLinks(p))
        BY <1>6, PageMore, PagesStand DEF LinksOn
      <3> QED
        BY <1>2, <3>1, PagesStand DEF HtmlFiles, HtmlOf
    <2>3. HtmlFiles(HtmlRead) = HtmlOf(LinksOn(HtmlRead)) /\ HtmlOf(Ahead) = {}
      BY <1>4, HtmlParts DEF HtmlFiles, HtmlOf
    <2> QED
      BY <1>4, <1>7, <2>1, <2>2, <2>3, HtmlParts
  <1> QED
    BY <1>2, <1>3, <1>4, <1>5, <1>6, <1>7

LEMMA HtmlIndexKeeps ==
  ASSUME WalkTyped, FoundOnce, HtmlWalk, HtmlIndex, UNCHANGED listingSite
  PROVE  listing'.kind = listing.kind /\ WalkTyped' /\ FoundOnce' /\ HtmlWalk'
  <1>1. /\ listing.kind \in HtmlKinds /\ listing.pc = "idle" /\ HtmlYields(0)
        /\ listing.items = <<>> /\ HtmlRead = {} /\ listing.page = 0 /\ Listed = {}
    BY DEF HtmlIndex, At, HtmlWalk
  <1>2. CASE listing' = ListingRaised
    <2>1. /\ WalkTyped' /\ listing'.kind = listing.kind /\ listing'.pc = "raised" /\ listing'.lost
          /\ listing'.seen = listing.seen /\ listing'.found = listing.found /\ Listed' = Listed
      BY <1>2, EndTyped
    <2> QED
      BY <2>1 DEF FoundOnce, HtmlWalk
  <1>3. CASE listing' # ListingRaised
    <2>1. Listed \cup HtmlOf(Ahead) = HtmlFiles(HtmlRead)
      <3>1. HtmlOf(Ahead) = {}
        BY <1>1, EmptyList, HtmlParts DEF Ahead
      <3>2. HtmlFiles(HtmlRead) = {}
        BY <1>1 DEF HtmlFiles, LinksOn
      <3> QED
        BY <1>1, <3>1, <3>2
    <2>2. /\ WalkTyped' /\ FoundOnce'
          /\ listing'.kind = listing.kind /\ listing'.pc = "items" /\ listing'.at = 0
          /\ listing'.page = 1 /\ listing'.lost = listing.lost
          /\ HtmlRead' = HtmlRead \cup ({0} \cap DOMAIN HtmlLinks)
          /\ (Listed \cup HtmlOf(Ahead) = HtmlFiles(HtmlRead))'
      BY <1>1, <1>3, <2>1, HtmlYieldsTyped
    <2>3. HtmlRead' = {0}
      BY <1>1, <2>2, PagesSite
    <2>4. ~listing'.lost
      BY <1>1, <2>2 DEF HtmlWalk
    <2>5. listing.kind = "html_next" => HtmlRead' \subseteq HtmlChain
      BY <2>3, ChainLeads
    <2>6. listing.kind = "html_param" =>
            /\ HtmlRead' = {p \in DOMAIN HtmlLinks : p <= 0}
            /\ \A p \in 1 .. 0 - 1 : HtmlPageLinks(p) # <<>>
      BY <1>1, <2>3, PagesSite
    <2>7. HtmlWalk'
      BY <1>1, <2>2, <2>3, <2>4, <2>5, <2>6, PagesStand, SMTT(60) DEF HtmlWalk
    <2> QED
      BY <2>2, <2>7
  <1> QED
    BY <1>2, <1>3

LEMMA HtmlFollowKeeps ==
  ASSUME WalkTyped, FoundOnce, HtmlWalk, HtmlFollow, UNCHANGED listingSite
  PROVE  listing'.kind = listing.kind /\ WalkTyped' /\ FoundOnce' /\ HtmlWalk'
  <1> DEFINE next == HtmlNext[listing.at]
  <1>1. /\ listing.kind = "html_next" /\ listing.kind \in HtmlKinds /\ listing.pc = "docs"
        /\ listing.items = <<>> /\ ~listing.lost
        /\ HtmlRead \subseteq HtmlChain /\ listing.at \in HtmlRead /\ 0 \in HtmlRead
    BY DEF HtmlFollow, At, HtmlWalk, HtmlKinds
  <1>2. listing.at \in HtmlChain /\ next \in HtmlChain \cup {ListingNone}
    BY <1>1, ChainLeads
  <1>3. CASE next = ListingNone \/ <<"page", next>> \in listing.seen
    <2>1. listing' = ListingDone
      BY <1>3 DEF HtmlFollow
    <2>2. /\ WalkTyped' /\ listing'.kind = listing.kind /\ listing'.pc = "done"
          /\ listing'.at = listing.at /\ listing'.seen = listing.seen /\ listing'.lost = listing.lost
          /\ listing'.found = listing.found /\ listing'.items = listing.items
          /\ listing'.detail = listing.detail /\ Listed' = Listed /\ Ahead' = Ahead
      BY <2>1, EndTyped
    <2>3. HtmlRead' = HtmlRead
      BY <2>2, PagesStand DEF HtmlRead
    <2>4. next \in HtmlRead \cup {ListingNone}
      BY <1>1, <1>2, <1>3, ChainLeads DEF HtmlRead
    <2>5. (Listed \cup HtmlOf(Ahead) = HtmlFiles(HtmlRead))'
      <3>1. Listed \cup HtmlOf(Ahead) = HtmlFiles(HtmlRead)
        BY <1>1 DEF HtmlWalk
      <3>2. HtmlOf(Ahead)' = HtmlOf(Ahead) /\ HtmlFiles(HtmlRead)' = HtmlFiles(HtmlRead)
        BY <2>2, <2>3, PagesStand DEF HtmlOf, HtmlFiles, LinksOn
      <3> QED
        BY <2>2, <3>1, <3>2
    <2>6. HtmlWalk'
      BY <1>1, <2>2, <2>3, <2>4, <2>5, PagesStand DEF HtmlWalk
    <2> QED
      BY <2>2, <2>6 DEF FoundOnce
  <1>4. CASE /\ ~(next = ListingNone \/ <<"page", next>> \in listing.seen)
             /\ listing.page >= ListingPages
    <2>1. listing' = ListingCapped
      BY <1>4 DEF HtmlFollow
    <2>2. /\ WalkTyped' /\ listing'.kind = listing.kind /\ listing'.pc = "done" /\ listing'.capped
          /\ listing'.at = listing.at /\ listing'.seen = listing.seen /\ listing'.lost = listing.lost
          /\ listing'.found = listing.found /\ listing'.items = listing.items
          /\ listing'.detail = listing.detail /\ Listed' = Listed /\ Ahead' = Ahead
      BY <2>1, EndTyped
    <2>3. HtmlRead' = HtmlRead
      BY <2>2, PagesStand DEF HtmlRead
    <2>4. (Listed \cup HtmlOf(Ahead) = HtmlFiles(HtmlRead))'
      <3>1. Listed \cup HtmlOf(Ahead) = HtmlFiles(HtmlRead)
        BY <1>1 DEF HtmlWalk
      <3>2. HtmlOf(Ahead)' = HtmlOf(Ahead) /\ HtmlFiles(HtmlRead)' = HtmlFiles(HtmlRead)
        BY <2>2, <2>3, PagesStand DEF HtmlOf, HtmlFiles, LinksOn
      <3> QED
        BY <2>2, <3>1, <3>2
    <2>5. HtmlWalk'
      BY <1>1, <2>2, <2>3, <2>4, PagesStand DEF HtmlWalk
    <2> QED
      BY <2>2, <2>5 DEF FoundOnce
  <1>5. CASE /\ ~(next = ListingNone \/ <<"page", next>> \in listing.seen)
             /\ ~(listing.page >= ListingPages)
    <2>1. HtmlYields(next)
      BY <1>5 DEF HtmlFollow
    <2>2. CASE listing' = ListingRaised
      <3>1. /\ WalkTyped' /\ listing'.kind = listing.kind /\ listing'.pc = "raised" /\ listing'.lost
            /\ listing'.seen = listing.seen /\ listing'.found = listing.found /\ Listed' = Listed
        BY <2>2, EndTyped
      <3> QED
        BY <3>1 DEF FoundOnce, HtmlWalk
    <2>3. CASE listing' # ListingRaised
      <3>1. /\ WalkTyped' /\ FoundOnce'
            /\ listing'.kind = listing.kind /\ listing'.pc = "items" /\ listing'.at = next
            /\ listing'.lost = listing.lost
            /\ HtmlRead' = HtmlRead \cup ({next} \cap DOMAIN HtmlLinks)
            /\ (Listed \cup HtmlOf(Ahead) = HtmlFiles(HtmlRead))'
        <4>1. Listed \cup HtmlOf(Ahead) = HtmlFiles(HtmlRead)
          BY <1>1 DEF HtmlWalk
        <4> HIDE DEF next
        <4> QED
          BY <1>1, <2>1, <2>3, <4>1, HtmlYieldsTyped
      <3>2. next \in HtmlChain /\ next \in DOMAIN HtmlLinks
        BY <1>1, <1>2, <1>5, ChainLeads
      <3>3. /\ HtmlRead' \subseteq HtmlChain /\ next \in HtmlRead' /\ 0 \in HtmlRead'
        BY <1>1, <3>1, <3>2
      <3>4. \A p \in HtmlRead' \ {next} : HtmlNext[p] \in HtmlRead' \cup {ListingNone}
        <4> TAKE p \in HtmlRead' \ {next}
        <4>1. p \in HtmlRead
          BY <3>1
        <4>2. CASE p = listing.at
          BY <3>3, <4>2
        <4>3. CASE p # listing.at
          BY <1>1, <3>1, <4>1, <4>3 DEF HtmlWalk
        <4> QED
          BY <4>2, <4>3
      <3>5. HtmlWalk'
        BY <1>1, <3>1, <3>3, <3>4, PagesStand DEF HtmlWalk
      <3> QED
        BY <3>1, <3>5
    <2> QED
      BY <2>2, <2>3
  <1> QED
    BY <1>3, <1>4, <1>5

LEMMA HtmlNumberedKeeps ==
  ASSUME WalkTyped, FoundOnce, HtmlWalk, HtmlNumbered, UNCHANGED listingSite
  PROVE  listing'.kind = listing.kind /\ WalkTyped' /\ FoundOnce' /\ HtmlWalk'
  <1> DEFINE empty == listing.at # 0 /\ HtmlPageLinks(listing.at) = <<>>
  <1>1. /\ listing.kind = "html_param" /\ listing.kind \in HtmlKinds /\ listing.pc = "docs"
        /\ listing.items = <<>> /\ ~listing.lost /\ 0 \in HtmlRead
        /\ Listed \cup HtmlOf(Ahead) = HtmlFiles(HtmlRead)
        /\ listing.page = listing.at + 1 /\ listing.at \in Nat
        /\ HtmlRead = {p \in DOMAIN HtmlLinks : p <= listing.at}
        /\ \A p \in 1 .. listing.at - 1 : HtmlPageLinks(p) # <<>>
    BY DEF HtmlNumbered, At, HtmlWalk, HtmlKinds
  <1>2. CASE listing' \in {ListingDone, ListingCapped}
    <2>1. \/ empty /\ listing' = ListingDone
          \/ listing' = ListingCapped
      <3>1. CASE empty
        BY <3>1 DEF HtmlNumbered
      <3>2. CASE ~empty
        <4>1. \A p : HtmlYields(p) => listing'.pc # "done"
          BY DEF HtmlYields, ListingRaised, WalkTyped, ListingDomain
        <4>2. listing'.pc = "done"
          BY <1>2, EndTyped
        <4> QED
          BY <3>2, <4>1, <4>2 DEF HtmlNumbered
      <3> QED
        BY <3>1, <3>2
    <2>2. /\ WalkTyped' /\ listing'.kind = listing.kind /\ listing'.pc = "done"
          /\ listing' = ListingCapped => listing'.capped
          /\ listing'.at = listing.at /\ listing'.seen = listing.seen /\ listing'.lost = listing.lost
          /\ listing'.page = listing.page
          /\ listing'.found = listing.found /\ listing'.items = listing.items
          /\ listing'.detail = listing.detail /\ Listed' = Listed /\ Ahead' = Ahead
      BY <1>2, EndTyped
    <2>3. HtmlRead' = HtmlRead
      BY <2>2, PagesStand DEF HtmlRead
    <2>4. (Listed \cup HtmlOf(Ahead) = HtmlFiles(HtmlRead))'
      <3>1. HtmlOf(Ahead)' = HtmlOf(Ahead) /\ HtmlFiles(HtmlRead)' = HtmlFiles(HtmlRead)
        BY <2>2, <2>3, PagesStand DEF HtmlOf, HtmlFiles, LinksOn
      <3> QED
        BY <1>1, <2>2, <3>1
    <2>5. HtmlWalk'
      BY <1>1, <2>1, <2>2, <2>3, <2>4, PagesStand DEF HtmlWalk
    <2> QED
      BY <2>2, <2>5 DEF FoundOnce
  <1>3. CASE listing' = ListingRaised
    <2>1. /\ WalkTyped' /\ listing'.kind = listing.kind /\ listing'.pc = "raised" /\ listing'.lost
          /\ listing'.seen = listing.seen /\ listing'.found = listing.found /\ Listed' = Listed
      BY <1>3, EndTyped
    <2> QED
      BY <2>1 DEF FoundOnce, HtmlWalk
  <1>4. CASE listing' \notin {ListingDone, ListingCapped, ListingRaised}
    <2>1. HtmlYields(listing.page) /\ ~empty
      BY <1>4 DEF HtmlNumbered
    <2>2. /\ WalkTyped' /\ FoundOnce'
          /\ listing'.kind = listing.kind /\ listing'.pc = "items" /\ listing'.at = listing.page
          /\ listing'.page = listing.page + 1 /\ listing'.lost = listing.lost
          /\ HtmlRead' = HtmlRead \cup ({listing.page} \cap DOMAIN HtmlLinks)
          /\ (Listed \cup HtmlOf(Ahead) = HtmlFiles(HtmlRead))'
      BY <1>1, <1>4, <2>1, HtmlYieldsTyped
    <2>3. HtmlRead' = {p \in DOMAIN HtmlLinks : p <= listing.page}
      <3>1. \A p \in DOMAIN HtmlLinks : p <= listing.page <=> p <= listing.at \/ p = listing.page
        BY <1>1, PagesSite
      <3> QED
        BY <1>1, <2>2, <3>1
    <2>4. \A p \in 1 .. listing.page - 1 : HtmlPageLinks(p) # <<>>
      <3> TAKE p \in 1 .. listing.page - 1
      <3>1. (p = listing.at /\ listing.at # 0) \/ p \in 1 .. listing.at - 1
        BY <1>1
      <3> QED
        BY <1>1, <2>1, <3>1
    <2>5. 0 \in HtmlRead' /\ listing.page \in Nat
      BY <1>1, <2>2
    <2>6. HtmlWalk'
      BY <1>1, <2>2, <2>3, <2>4, <2>5, PagesStand DEF HtmlWalk
    <2> QED
      BY <2>2, <2>6
  <1> QED
    BY <1>2, <1>3, <1>4

(* What a link adds is what it was to list.                                *)
LEMMA HtmlTakes ==
  ASSUME WalkTyped, HtmlWalk, listing.kind \in HtmlKinds, listing.pc = "items", listing.items # <<>>,
         UNCHANGED listingSite,
         listing'.kind = listing.kind, listing'.pc = listing.pc, listing'.detail = listing.detail,
         listing'.at = listing.at, listing'.page = listing.page, listing'.lost = listing.lost,
         \A p : <<"page", p>> \in listing'.seen <=> <<"page", p>> \in listing.seen,
         Ahead = {Head(listing.items)} \cup Ahead',
         Listed' = Listed \cup HtmlOf({Head(listing.items)})
  PROVE  HtmlWalk'
  <1>1. HtmlRead' = HtmlRead
    BY PagesStand DEF HtmlRead
  <1>2. (Listed \cup HtmlOf(Ahead) = HtmlFiles(HtmlRead))'
    <2>1. Listed \cup HtmlOf(Ahead) = HtmlFiles(HtmlRead)
      BY DEF HtmlWalk
    <2>2. HtmlOf(Ahead) = HtmlOf({Head(listing.items)}) \cup HtmlOf(Ahead')
      BY HtmlParts
    <2>3. HtmlOf(Ahead)' = HtmlOf(Ahead') /\ HtmlFiles(HtmlRead)' = HtmlFiles(HtmlRead)
      BY <1>1, PagesStand DEF HtmlOf, HtmlFiles, LinksOn
    <2> QED
      BY <2>1, <2>2, <2>3
  <1> QED
    BY <1>1, <1>2, PagesStand DEF HtmlWalk

LEMMA HtmlLinkKeeps ==
  ASSUME WalkTyped, FoundOnce, HtmlWalk, HtmlLink, UNCHANGED listingSite
  PROVE  listing'.kind = listing.kind /\ WalkTyped' /\ FoundOnce' /\ HtmlWalk'
  <1> DEFINE link == Head(listing.items)
  <1>1. /\ listing.kind \in HtmlKinds /\ listing.pc = "items"
        /\ Listed \cup HtmlOf(Ahead) = HtmlFiles(HtmlRead)
    BY DEF HtmlLink, At, HtmlWalk
  <1>2. CASE listing.items = <<>>
    <2>1. listing' = [listing EXCEPT !.pc = "docs"]
      BY <1>2 DEF HtmlLink
    <2>2. /\ DOMAIN listing' = ListingDomain /\ listing'.kind = listing.kind
          /\ listing'.pc = "docs" /\ listing'.items = <<>>
          /\ listing'.docs = listing.docs /\ listing'.detail = listing.detail
          /\ listing'.page = listing.page /\ listing'.found = listing.found
          /\ listing'.lost = listing.lost /\ listing'.capped = listing.capped
          /\ listing'.seen = listing.seen /\ listing'.at = listing.at
      BY <1>2, <2>1 DEF WalkTyped, ListingDomain
    <2>3. WalkTyped'
      BY <2>2, EmptyList DEF WalkTyped, ListingTypeOK, ListingPcs
    <2>4. Listed' = Listed /\ Ahead' = Ahead
      BY <1>2, <2>2 DEF Listed, Ahead
    <2>5. HtmlRead' = HtmlRead
      BY <2>2, PagesStand DEF HtmlRead
    <2>6. HtmlOf(Ahead)' = HtmlOf(Ahead) /\ HtmlFiles(HtmlRead)' = HtmlFiles(HtmlRead)
      BY <2>2, <2>4, <2>5, PagesStand DEF HtmlOf, HtmlFiles, LinksOn
    <2>7. (Listed \cup HtmlOf(Ahead) = HtmlFiles(HtmlRead))'
      BY <1>1, <2>4, <2>6
    <2>8. HtmlWalk'
      BY <1>1, <2>2, <2>5, <2>7, PagesStand DEF HtmlWalk
    <2> QED
      BY <2>2, <2>3, <2>4, <2>8 DEF FoundOnce
  <1>3. CASE listing' = ListingCapped
    <2>1. /\ WalkTyped' /\ listing'.kind = listing.kind /\ listing'.pc = "done" /\ listing'.capped
          /\ listing'.at = listing.at /\ listing'.seen = listing.seen /\ listing'.lost = listing.lost
          /\ listing'.page = listing.page
          /\ listing'.found = listing.found /\ listing'.items = listing.items
          /\ listing'.detail = listing.detail /\ Listed' = Listed /\ Ahead' = Ahead
      BY <1>3, EndTyped
    <2>2. HtmlRead' = HtmlRead
      BY <2>1, PagesStand DEF HtmlRead
    <2>3. HtmlOf(Ahead)' = HtmlOf(Ahead) /\ HtmlFiles(HtmlRead)' = HtmlFiles(HtmlRead)
      BY <2>1, <2>2, PagesStand DEF HtmlOf, HtmlFiles, LinksOn
    <2>4. (Listed \cup HtmlOf(Ahead) = HtmlFiles(HtmlRead))'
      BY <1>1, <2>1, <2>3
    <2>5. HtmlWalk'
      BY <1>1, <2>1, <2>2, <2>4, PagesStand DEF HtmlWalk
    <2> QED
      BY <2>1, <2>5 DEF FoundOnce
  <1>4. CASE listing' = ListingRaised
    <2>1. /\ WalkTyped' /\ listing'.kind = listing.kind /\ listing'.pc = "raised" /\ listing'.lost
          /\ listing'.seen = listing.seen /\ listing'.found = listing.found /\ Listed' = Listed
      BY <1>4, EndTyped
    <2> QED
      BY <2>1 DEF FoundOnce, HtmlWalk
  <1>5. CASE listing.items # <<>> /\ listing' = ListingSkip /\ HtmlOf({link}) = {}
    <2>1. /\ WalkTyped' /\ listing'.kind = listing.kind /\ listing'.pc = listing.pc
          /\ listing'.detail = listing.detail /\ listing'.at = listing.at
          /\ listing'.seen = listing.seen /\ listing'.page = listing.page
          /\ listing'.lost = listing.lost /\ listing'.found = listing.found
          /\ Listed' = Listed /\ Ahead = {link} \cup Ahead'
      BY <1>5, SkipTyped
    <2>2. HtmlWalk'
      BY <1>1, <1>5, <2>1, HtmlTakes
    <2> QED
      BY <2>1, <2>2 DEF FoundOnce
  <1>6. ASSUME NEW file, listing.items # <<>>, listing' = ListingEmit(file),
               HtmlOf({link}) = {file} \cap ListingFormats
        PROVE  listing'.kind = listing.kind /\ WalkTyped' /\ FoundOnce' /\ HtmlWalk'
    <2>1. /\ WalkTyped' /\ FoundOnce'
          /\ listing'.kind = listing.kind /\ listing'.pc = listing.pc
          /\ listing'.detail = listing.detail /\ listing'.at = listing.at
          /\ listing'.page = listing.page /\ listing'.lost = listing.lost
          /\ \A p : <<"page", p>> \in listing'.seen <=> <<"page", p>> \in listing.seen
          /\ Ahead = {link} \cup Ahead'
          /\ Listed' = Listed \cup ({file} \cap ListingFormats)
      BY <1>6, Emitted
    <2>2. HtmlWalk'
      BY <1>1, <1>6, <2>1, HtmlTakes
    <2> QED
      BY <2>1, <2>2
  <1>7. CASE listing.items # <<>> /\ listing' \notin {ListingCapped, ListingRaised}
    <2>1. \/ ~HtmlMatches(link) /\ listing' = ListingSkip
          \/ HtmlMatches(link) /\ ~listing.detail /\ listing' = ListingEmit(link)
          \/ /\ HtmlMatches(link) /\ listing.detail
             /\ HtmlFile[link] = ListingNone /\ listing' = ListingSkip
          \/ HtmlMatches(link) /\ listing.detail /\ listing' = ListingEmit(HtmlFile[link])
      BY <1>7 DEF HtmlLink, HtmlDetailFails
    <2>2. CASE ~HtmlMatches(link)
      <3>1. HtmlOf({link}) = {}
        BY <2>2 DEF HtmlOf, HtmlMatches
      <3> QED
        BY <1>5, <1>7, <2>1, <2>2, <3>1
    <2>3. CASE HtmlMatches(link) /\ ~listing.detail
      <3>1. HtmlOf({link}) = {link} \cap ListingFormats
        BY <2>3 DEF HtmlOf, HtmlMatches
      <3> QED
        BY <1>6, <1>7, <2>1, <2>3, <3>1
    <2>4. CASE HtmlMatches(link) /\ listing.detail
      <3>1. HtmlOf({link}) = {HtmlFile[link]} \cap ListingFormats
        BY <2>4 DEF HtmlOf, HtmlMatches
      <3>2. HtmlFile[link] = ListingNone => HtmlOf({link}) = {}
        BY <3>1, ListingAssumption
      <3> QED
        BY <1>5, <1>6, <1>7, <2>1, <2>4, <3>1, <3>2
    <2> QED
      BY <2>2, <2>3, <2>4
  <1> QED
    BY <1>2, <1>3, <1>4, <1>7

-----------------------------------------------------------------------------
(* planning_portal.                                                        *)

LEMMA PortalParts ==
  ASSUME NEW L, NEW M
  PROVE  PortalListed(L \cup M) = PortalListed(L) \cup PortalListed(M) /\ PortalListed({}) = {}
  BY DEF PortalListed

LEMMA PortalOne ==
  ASSUME NEW l PROVE PortalListed({l}) = ToSet(PortalFiles[l]) \cap ListingFormats
  BY DEF PortalListed

LEMMA PortalPageKeeps ==
  ASSUME WalkTyped, PortalWalk, PortalPage, UNCHANGED listingSite
  PROVE  listing'.kind = listing.kind /\ WalkTyped' /\ PortalWalk'
  <1>1. /\ listing.kind = "portal" /\ listing.pc \in {"idle", "docs"} /\ listing.docs = <<>>
        /\ listing.items = <<>> /\ ~listing.lost /\ listing.page \in Nat
    BY DEF PortalPage, At, PortalWalk, WalkTyped, ListingTypeOK
  <1>2. CASE listing' = ListingCapped
    <2>1. /\ WalkTyped' /\ listing'.kind = listing.kind /\ listing'.pc = "done" /\ listing'.capped
          /\ listing'.lost = listing.lost /\ listing'.page = listing.page
          /\ listing'.docs = listing.docs /\ Listed' = Listed /\ Ahead' = Ahead
      BY <1>2, EndTyped
    <2>2. PortalWalk'
      BY <1>1, <2>1, PagesStand DEF PortalWalk
    <2> QED
      BY <2>1, <2>2
  <1>3. CASE listing' = ListingRaised
    <2>1. /\ WalkTyped' /\ listing'.kind = listing.kind /\ listing'.pc = "raised" /\ listing'.lost
          /\ listing'.page = listing.page /\ listing'.docs = listing.docs
      BY <1>3, EndTyped
    <2>2. PortalWalk'
      BY <1>1, <2>1, PagesStand DEF PortalWalk
    <2> QED
      BY <2>1, <2>2
  <1>4. CASE listing' = ListingDone /\ HtmlPageLinks(listing.page) = <<>>
    <2>1. /\ WalkTyped' /\ listing'.kind = listing.kind /\ listing'.pc = "done"
          /\ listing'.lost = listing.lost /\ listing'.page = listing.page
          /\ listing'.items = listing.items /\ listing'.docs = listing.docs
          /\ Listed' = Listed /\ Ahead' = Ahead
      BY <1>4, EndTyped
    <2>2. PortalWalk'
      BY <1>1, <1>4, <2>1, PagesStand DEF PortalWalk
    <2> QED
      BY <2>1, <2>2
  <1>5. CASE /\ HtmlPageLinks(listing.page) # <<>>
             /\ listing' = [listing EXCEPT !.pc = "docs", !.page = @ + 1,
                                           !.docs = HtmlPageLinks(listing.page)]
    <2> DEFINE links == HtmlPageLinks(listing.page)
    <2>1. /\ DOMAIN listing' = ListingDomain /\ listing'.kind = listing.kind
          /\ listing'.pc = "docs" /\ listing'.items = listing.items
          /\ listing'.docs = links /\ listing'.detail = listing.detail
          /\ listing'.page = listing.page + 1 /\ listing'.found = listing.found
          /\ listing'.lost = listing.lost /\ listing'.capped = listing.capped
      BY <1>5 DEF WalkTyped, ListingDomain
    <2>2. ListingList(links)
      BY <1>1, PagesSite
    <2>3. listing.page \in DOMAIN HtmlLinks /\ HtmlLinks[listing.page] = links /\ links # <<>>
      BY <1>5 DEF HtmlPageLinks
    <2> HIDE DEF links
    <2>4. WalkTyped'
      BY <2>1, <2>2 DEF WalkTyped, ListingTypeOK, ListingPcs
    <2>5. Listed' = Listed /\ Ahead' = {} /\ Ahead = {} /\ ToSet(listing.docs) = {}
      BY <1>1, <2>1, EmptyList DEF Listed, Ahead
    <2>6. ToSet(links) \subseteq LinksOn(DOMAIN HtmlLinks)
      BY <2>3 DEF LinksOn
    <2>7. listing.page \in PortalPages
      <3>1. ASSUME NEW q \in DOMAIN HtmlLinks, q \in 0 .. listing.page PROVE HtmlLinks[q] # <<>>
        <4>1. CASE q = listing.page
          BY <2>3, <4>1
        <4>2. CASE q # listing.page
          <5>1. q \in 0 .. listing.page - 1
            BY <1>1, <3>1, <4>2
          <5>2. q \in PortalPages /\ q \in 0 .. q
            BY <5>1 DEF PortalWalk
          <5> QED
            BY <3>1, <5>2 DEF PortalPages
        <4> QED
          BY <4>1, <4>2
      <3> QED
        BY <2>3, <3>1 DEF PortalPages
    <2>8. \A p \in 0 .. listing'.page - 1 : p \in PortalPages
      <3> TAKE p \in 0 .. listing'.page - 1
      <3>1. p = listing.page \/ p \in 0 .. listing.page - 1
        BY <1>1, <2>1
      <3> QED
        BY <2>7, <3>1 DEF PortalWalk
    <2>9. LinksOn(0 .. listing'.page - 1) = LinksOn(0 .. listing.page - 1) \cup ToSet(links)
      <3>1. 0 .. listing'.page - 1 = (0 .. listing.page - 1) \cup {listing.page}
        BY <1>1, <2>1
      <3>2. LinksOn((0 .. listing.page - 1) \cup {listing.page})
              = LinksOn(0 .. listing.page - 1) \cup ToSet(links)
        BY <2>3 DEF LinksOn
      <3> QED
        BY <3>1, <3>2
    <2>10. Listed' \cup (Ahead' \cap ListingFormats) \cup PortalListed(ToSet(listing'.docs))
             = PortalListed(LinksOn(0 .. listing'.page - 1))
      <3>1. Listed = PortalListed(LinksOn(0 .. listing.page - 1))
        BY <1>1, <2>5, PortalParts DEF PortalWalk
      <3>2. PortalListed(LinksOn(0 .. listing.page - 1) \cup ToSet(links))
              = PortalListed(LinksOn(0 .. listing.page - 1)) \cup PortalListed(ToSet(links))
        BY PortalParts
      <3> QED
        BY <2>1, <2>5, <2>9, <3>1, <3>2
    <2>11. PortalWalk'
      BY <1>1, <2>1, <2>6, <2>8, <2>10, PagesStand DEF PortalWalk
    <2> QED
      BY <2>1, <2>4, <2>11
  <1> QED
    BY <1>2, <1>3, <1>4, <1>5 DEF PortalPage

LEMMA PortalDetailKeeps ==
  ASSUME WalkTyped, PortalWalk, PortalDetail, UNCHANGED listingSite
  PROVE  listing'.kind = listing.kind /\ WalkTyped' /\ PortalWalk'
  <1> DEFINE l == Head(listing.docs)
  <1>1. /\ listing.kind = "portal" /\ listing.pc = "docs" /\ listing.docs # <<>>
        /\ listing.items = <<>> /\ ~listing.lost
        /\ listing' = ListingReads(PortalFiles[l]) \/ listing' = ListingRaised
    BY DEF PortalDetail, At, PortalWalk
  <1>2. CASE listing' = ListingRaised
    <2>1. /\ WalkTyped' /\ listing'.kind = listing.kind /\ listing'.pc = "raised" /\ listing'.lost
          /\ listing'.page = listing.page /\ listing'.docs = listing.docs
      BY <1>2, EndTyped
    <2>2. PortalWalk'
      BY <1>1, <2>1, PagesStand DEF PortalWalk
    <2> QED
      BY <2>1, <2>2
  <1>3. CASE listing' = ListingReads(PortalFiles[l])
    <2>1. l \in ToSet(listing.docs)
      BY <1>1, HeadAndTail DEF WalkTyped
    <2>2. ListingList(PortalFiles[l])
      BY <1>1, <2>1, PagesSite DEF PortalWalk
    <2>3. /\ WalkTyped' /\ listing'.kind = listing.kind /\ listing'.pc = "items"
          /\ listing'.items = PortalFiles[l] /\ listing'.page = listing.page
          /\ listing'.lost = listing.lost /\ listing'.found = listing.found
          /\ ToSet(listing.docs) = {l} \cup ToSet(listing'.docs)
      BY <1>1, <1>3, <2>2, ReadsTyped
    <2> HIDE DEF l
    <2>4. Listed' = Listed /\ Ahead = {} /\ Ahead' = ToSet(PortalFiles[l])
      BY <1>1, <2>3, EmptyList DEF Listed, Ahead
    <2>5. PortalListed(ToSet(listing.docs))
            = (ToSet(PortalFiles[l]) \cap ListingFormats) \cup PortalListed(ToSet(listing'.docs))
      <3>1. PortalListed({l} \cup ToSet(listing'.docs))
              = PortalListed({l}) \cup PortalListed(ToSet(listing'.docs))
        BY PortalParts
      <3> QED
        BY <2>3, <3>1, PortalOne
    <2>6. Listed' \cup (Ahead' \cap ListingFormats) \cup PortalListed(ToSet(listing'.docs))
            = PortalListed(LinksOn(0 .. listing.page - 1))
      BY <1>1, <2>4, <2>5 DEF PortalWalk
    <2>7. PortalWalk'
      BY <1>1, <2>3, <2>6, PagesStand DEF PortalWalk
    <2> QED
      BY <2>3, <2>7
  <1> QED
    BY <1>1, <1>2, <1>3

LEMMA PortalFileKeeps ==
  ASSUME WalkTyped, PortalWalk, PortalFile, UNCHANGED listingSite
  PROVE  listing'.kind = listing.kind /\ WalkTyped' /\ PortalWalk'
  <1> DEFINE file == Head(listing.items)
  <1>1. listing.kind = "portal" /\ listing.pc = "items" /\ ~listing.lost
    BY DEF PortalFile, At, PortalWalk
  <1>2. CASE listing.items = <<>>
    <2>1. listing' = [listing EXCEPT !.pc = "docs"]
      BY <1>2 DEF PortalFile
    <2>2. /\ DOMAIN listing' = ListingDomain /\ listing'.kind = listing.kind
          /\ listing'.pc = "docs" /\ listing'.items = <<>>
          /\ listing'.docs = listing.docs /\ listing'.detail = listing.detail
          /\ listing'.page = listing.page /\ listing'.found = listing.found
          /\ listing'.lost = listing.lost /\ listing'.capped = listing.capped
      BY <1>2, <2>1 DEF WalkTyped, ListingDomain
    <2>3. WalkTyped'
      BY <2>2, EmptyList DEF WalkTyped, ListingTypeOK, ListingPcs
    <2>4. Listed' = Listed /\ Ahead' = Ahead
      BY <1>2, <2>2 DEF Listed, Ahead
    <2>5. PortalWalk'
      BY <1>1, <2>2, <2>4, PagesStand DEF PortalWalk
    <2> QED
      BY <2>2, <2>3, <2>5
  <1>3. CASE listing.items # <<>>
    <2> DEFINE fs == IF file \in ListingFormats THEN <<file>> ELSE <<>>
    <2>1. listing' = ListingTook(fs)
      BY <1>3 DEF PortalFile, ListingSkip
    <2>2. ListingList(fs) /\ ToSet(fs) = {file} \cap ListingFormats
      BY OneList, EmptyList
    <2> HIDE DEF fs
    <2>3. /\ WalkTyped' /\ listing'.kind = listing.kind /\ listing'.pc = listing.pc
          /\ listing'.docs = listing.docs /\ listing'.page = listing.page
          /\ listing'.lost = listing.lost
          /\ Listed' = Listed \cup ToSet(fs) /\ Ahead = {file} \cup Ahead'
      BY <1>3, <2>1, <2>2, TookTyped
    <2>4. Listed' \cup (Ahead' \cap ListingFormats) = Listed \cup (Ahead \cap ListingFormats)
      BY <2>2, <2>3
    <2>5. PortalWalk'
      BY <1>1, <2>3, <2>4, PagesStand DEF PortalWalk
    <2> QED
      BY <2>3, <2>5
  <1> QED
    BY <1>2, <1>3

-----------------------------------------------------------------------------
(* Every step keeps to the walk of its connector.                          *)

LEMMA WalkInit ==
  ASSUME ListingInit PROVE WalkInv
  <1>1. PICK kind \in ListingKinds, detail \in BOOLEAN :
          /\ detail => kind \in {"html_next", "html_param"}
          /\ listingSite \in ListingSites[kind]
          /\ listing = [kind |-> kind, pc |-> "idle", detail |-> detail, docs |-> <<>>,
                        at |-> ListingNone, items |-> <<>>, seen |-> {}, page |-> 0,
                        found |-> <<>>, lost |-> FALSE, capped |-> FALSE]
    BY DEF ListingInit
  <1>2. /\ DOMAIN listing = ListingDomain /\ listing.kind = kind /\ listing.pc = "idle"
        /\ listing.detail = detail /\ listing.docs = <<>> /\ listing.items = <<>>
        /\ listing.seen = {} /\ listing.page = 0 /\ listing.found = <<>>
        /\ ~listing.lost /\ ~listing.capped /\ listing.lost \in BOOLEAN /\ listing.capped \in BOOLEAN
    BY <1>1 DEF ListingDomain
  <1>3. ListingSiteOf(listing.kind, listingSite)
    BY <1>1, <1>2, ListingAssumption
  <1>4. WalkTyped
    <2>1. Len(listing.found) \in Nat
      BY <1>2
    <2> QED
      BY <1>2, <1>3, <2>1, EmptyList DEF WalkTyped, ListingTypeOK, ListingPcs
  <1>5. Listed = {} /\ Ahead = {} /\ ToSet(listing.docs) = {}
    BY <1>2, EmptyList DEF Listed, Ahead
  <1>6. DocumentWalk
    BY <1>2, <1>5 DEF DocumentWalk
  <1>7. ASSUME listing.kind \in NestedKinds PROVE NestedWalk
    <2>1. ListingList(listingSite)
      BY <1>3, <1>7 DEF ListingSiteOf, NestedKinds
    <2>2. Len(listingSite) \in Nat /\ DOMAIN listingSite = 1 .. Len(listingSite)
      BY <2>1 DEF ListingList
    <2>3. Behind = ToSet(listingSite)
      BY <1>2, <2>2 DEF Behind, ToSet
    <2>4. Ahead \cup Nested(ToSet(listing.docs)) \cup Nested(Behind) = Nested(ToSet(listingSite))
      BY <1>5, <2>3, NestedParts
    <2>5. Listed \cup Passing(listing.kind, Ahead \cup Nested(ToSet(listing.docs)) \cup Nested(Behind))
            = Passing(listing.kind, Nested(ToSet(listingSite)))
      BY <1>5, <2>4
    <2>6. /\ \A list \in ToSet(listing.docs) : ListingList(list)
          /\ listing.page <= Len(listingSite)
      BY <1>2, <1>5, <2>2
    <2> QED
      BY <1>2, <2>5, <2>6 DEF NestedWalk
  <1>8. FoundOnce
    BY <1>2, <1>5 DEF FoundOnce, IsInjective
  <1>9. SitemapWalk
    BY <1>2, <1>5 DEF SitemapWalk, SitemapListed
  <1>10. HtmlWalk
    BY <1>2, <1>5 DEF HtmlWalk, HtmlRead
  <1>11. PortalWalk
    <2>1. 0 .. listing.page - 1 = {}
      BY <1>2
    <2>2. LinksOn({}) = {}
      BY DEF LinksOn
    <2> QED
      BY <1>2, <1>5, <2>1, <2>2, PortalParts DEF PortalWalk
  <1> QED
    BY <1>4, <1>6, <1>7, <1>8, <1>9, <1>10, <1>11 DEF WalkInv

LEMMA WalkNext ==
  ASSUME WalkInv, [ListingNext]_listingVars PROVE WalkInv'
  <1>1. CASE UNCHANGED listingVars
    <2>1. /\ listing' = listing /\ listingSite' = listingSite
      BY <1>1 DEF listingVars
    <2>2. WalkTyped' /\ Listed' = Listed /\ Ahead' = Ahead /\ Behind' = Behind
      BY <2>1 DEF WalkInv, WalkTyped, ListingTypeOK, Listed, Ahead, Behind
    <2>3. listing.kind \in DocumentKinds => DocumentWalk'
      BY <2>1, <2>2 DEF WalkInv, DocumentWalk
    <2>4. listing.kind \in NestedKinds => NestedWalk'
      BY <2>1, <2>2 DEF WalkInv, NestedWalk
    <2>5. listing.kind \in HtmlKinds \cup {"ckan_ids", "ckan_search"} => FoundOnce'
      BY <2>1, <2>2 DEF WalkInv, FoundOnce
    <2>6. listing.kind = "sitemap" => SitemapWalk'
      BY <2>1, <2>2, SitemapStands DEF WalkInv, SitemapWalk
    <2>7. listing.kind \in HtmlKinds => HtmlWalk'
      <3>1. HtmlRead' = HtmlRead
        BY <2>1, PagesStand DEF HtmlRead
      <3>2. HtmlOf(Ahead)' = HtmlOf(Ahead) /\ HtmlFiles(HtmlRead)' = HtmlFiles(HtmlRead)
        BY <2>1, <2>2, <3>1, PagesStand DEF HtmlOf, HtmlFiles, LinksOn
      <3> QED
        BY <2>1, <2>2, <3>1, <3>2, PagesStand DEF WalkInv, HtmlWalk
    <2>8. listing.kind = "portal" => PortalWalk'
      BY <2>1, <2>2, PagesStand DEF WalkInv, PortalWalk
    <2> QED
      BY <2>1, <2>2, <2>3, <2>4, <2>5, <2>6, <2>7, <2>8 DEF WalkInv
  <1>2. CASE ListingNext
    <2>0. UNCHANGED listingSite
      BY <1>2 DEF ListingNext
    <2>1. CASE DocumentGet \/ DocumentEntry
      <3>1. listing.kind \in DocumentKinds
        BY <2>1 DEF DocumentGet, DocumentEntry, At
      <3>2. listing'.kind = listing.kind /\ WalkTyped' /\ DocumentWalk'
        BY <2>0, <2>1, <3>1, DocumentGetKeeps, DocumentEntryKeeps DEF WalkInv
      <3> QED
        BY <3>1, <3>2 DEF WalkInv, DocumentKinds, NestedKinds, HtmlKinds
    <2>2. CASE \/ FileGlobs \/ FileGlob \/ FilePath \/ ArcServices \/ ArcService \/ ArcLayer
      <3>1. listing.kind \in {"file", "arcgis"}
        BY <2>2 DEF FileGlobs, FileGlob, FilePath, ArcServices, ArcService, ArcLayer, At
      <3>2. listing'.kind = listing.kind /\ WalkTyped' /\ NestedWalk'
        BY <2>0, <2>2, <3>1, FileKeeps, ArcKeeps DEF WalkInv, NestedKinds
      <3> QED
        BY <3>1, <3>2 DEF WalkInv, DocumentKinds, NestedKinds, HtmlKinds
    <2>3. CASE \/ CkanIds \/ CkanShow \/ CkanSearch \/ CkanPackage \/ CkanResource
      <3>1. listing.kind \in {"ckan_ids", "ckan_search"}
        BY <2>3 DEF CkanIds, CkanShow, CkanSearch, CkanPackage, CkanResource, At
      <3>2. listing'.kind = listing.kind /\ WalkTyped' /\ NestedWalk' /\ FoundOnce'
        BY <2>0, <2>3, <3>1, CkanKeeps DEF WalkInv, NestedKinds
      <3> QED
        BY <3>1, <3>2 DEF WalkInv, DocumentKinds, NestedKinds, HtmlKinds
    <2>4. CASE SitemapUrls \/ SitemapDoc \/ SitemapLoc \/ SitemapEnd
      <3>1. listing.kind = "sitemap"
        BY <2>4 DEF SitemapUrls, SitemapDoc, SitemapLoc, SitemapEnd, At
      <3>2. listing'.kind = listing.kind /\ WalkTyped' /\ SitemapWalk'
        BY <2>0, <2>4, <3>1, SitemapUrlsKeeps, SitemapDocKeeps, SitemapLocKeeps, SitemapEndKeeps
           DEF WalkInv
      <3> QED
        BY <3>1, <3>2 DEF WalkInv, DocumentKinds, NestedKinds, HtmlKinds
    <2>5. CASE HtmlIndex \/ HtmlFollow \/ HtmlNumbered \/ HtmlLink
      <3>1. listing.kind \in HtmlKinds
        BY <2>5 DEF HtmlIndex, HtmlFollow, HtmlNumbered, HtmlLink, At, HtmlKinds
      <3>2. listing'.kind = listing.kind /\ WalkTyped' /\ FoundOnce' /\ HtmlWalk'
        BY <2>0, <2>5, <3>1, HtmlIndexKeeps, HtmlFollowKeeps, HtmlNumberedKeeps, HtmlLinkKeeps
           DEF WalkInv
      <3> QED
        BY <3>1, <3>2 DEF WalkInv, DocumentKinds, NestedKinds, HtmlKinds
    <2>6. CASE PortalPage \/ PortalDetail \/ PortalFile
      <3>1. listing.kind = "portal"
        BY <2>6 DEF PortalPage, PortalDetail, PortalFile, At
      <3>2. listing'.kind = listing.kind /\ WalkTyped' /\ PortalWalk'
        BY <2>0, <2>6, <3>1, PortalPageKeeps, PortalDetailKeeps, PortalFileKeeps DEF WalkInv
      <3> QED
        BY <3>1, <3>2 DEF WalkInv, DocumentKinds, NestedKinds, HtmlKinds
    <2> QED
      BY <1>2, <2>1, <2>2, <2>3, <2>4, <2>5, <2>6 DEF ListingNext, ListingStep
  <1> QED
    BY <1>1, <1>2

LEMMA WalkAlways == ListingSpec => []WalkInv
  <1>1. ListingInit => WalkInv
    BY WalkInit
  <1>2. WalkInv /\ [ListingNext]_listingVars => WalkInv'
    BY WalkNext
  <1> QED
    BY <1>1, <1>2, PTL DEF ListingSpec

-----------------------------------------------------------------------------
(* What a walk that has ended has found.                                   *)

LEMMA DocumentHonest ==
  ASSUME WalkInv, listing.kind \in DocumentKinds
  PROVE  /\ listing.lost \/ Listed \subseteq ListingOffered
         /\ listing.pc = "done" /\ ~listing.capped => Listed = ListingOffered
  <1>1. ListingOffered = EntriesList(listing.kind, ToSet(listingSite))
    BY DEF ListingOffered, EntriesList, DocumentKinds
  <1>2. DocumentWalk
    BY DEF WalkInv
  <1>3. ASSUME listing.pc = "done", ~listing.capped PROVE Listed = ListingOffered
    <2>1. Ahead = {} /\ EntriesList(listing.kind, {}) = {}
      BY <1>2, <1>3, EmptyList DEF DocumentWalk, Ahead, EntriesList
    <2> QED
      BY <1>1, <1>2, <1>3, <2>1 DEF DocumentWalk
  <1>4. listing.lost \/ Listed \subseteq ListingOffered
    BY <1>1, <1>2 DEF DocumentWalk
  <1> QED
    BY <1>3, <1>4

LEMMA NestedHonest ==
  ASSUME WalkInv, listing.kind \in NestedKinds
  PROVE  /\ listing.lost \/ Listed \subseteq ListingOffered
         /\ listing.pc = "done" /\ ~listing.capped /\ (listing.lost => listing.kind \notin ListingLenient)
              => Listed = ListingOffered
  <1>1. ListingOffered = Passing(listing.kind, Nested(ToSet(listingSite)))
    BY DEF ListingOffered, Passing, Nested, NestedKinds
  <1>2. NestedWalk
    BY DEF WalkInv
  <1>3. ASSUME listing.pc = "done", ~listing.capped, listing.lost => listing.kind \notin ListingLenient
        PROVE  Listed = ListingOffered
    <2>1. ~listing.lost
      BY <1>2, <1>3 DEF NestedWalk, ListingLenient
    <2>2. Ahead = {} /\ ToSet(listing.docs) = {} /\ Behind = {}
      BY <1>2, <1>3, EmptyList DEF NestedWalk, Ahead
    <2>3. Passing(listing.kind, Ahead \cup Nested(ToSet(listing.docs)) \cup Nested(Behind)) = {}
      <3>1. Ahead \cup Nested(ToSet(listing.docs)) \cup Nested(Behind) = {}
        BY <2>2, NestedParts
      <3> QED
        BY <3>1, PassingParts
    <2> QED
      BY <1>1, <1>2, <2>1, <2>3 DEF NestedWalk
  <1>4. listing.lost \/ Listed \subseteq ListingOffered
    BY <1>1, <1>2 DEF NestedWalk
  <1> QED
    BY <1>3, <1>4

(* The sitemaps read are closed when none is left, so none that can be     *)
(* reached is missing.                                                     *)
LEMMA SitemapHonest ==
  ASSUME WalkInv, listing.kind = "sitemap"
  PROVE  /\ listing.lost \/ Listed \subseteq ListingOffered
         /\ listing.pc = "done" /\ ~listing.capped /\ ~listing.lost => Listed = ListingOffered
  <1>1. ListingOffered = SitemapListed(SitemapReached)
    BY DEF ListingOffered, SitemapListed
  <1>2. SitemapWalk
    BY DEF WalkInv
  <1>3. \A S, T : S \subseteq T => SitemapListed(S) \subseteq SitemapListed(T)
    BY DEF SitemapListed
  <1>4. ASSUME ~listing.lost PROVE Listed \subseteq ListingOffered
    <2>1. listing.seen \subseteq SitemapReached /\ Listed \subseteq SitemapListed(listing.seen)
      BY <1>2, <1>4 DEF SitemapWalk
    <2> QED
      BY <1>1, <1>3, <2>1
  <1>5. ASSUME listing.pc = "done", ~listing.capped, ~listing.lost PROVE Listed = ListingOffered
    <2>1. Ahead = {} /\ ToSet(listing.docs) = {}
      BY <1>2, <1>5, EmptyList DEF SitemapWalk, Ahead
    <2>2. /\ listing.seen \subseteq DOMAIN SitemapKids /\ listing.seen \subseteq SitemapReached
          /\ Listed = SitemapListed(listing.seen)
          /\ ToSet(SitemapRoots) \subseteq listing.seen
          /\ \A d \in listing.seen : ToSet(SitemapKids[d]) \subseteq listing.seen
      BY <1>2, <1>5, <2>1 DEF SitemapWalk
    <2>3. SitemapReached \subseteq listing.seen
      BY <2>2, SitemapReachedLeast DEF SitemapClosed
    <2>4. listing.seen = SitemapReached
      BY <2>2, <2>3
    <2> QED
      BY <1>1, <2>2, <2>4
  <1> QED
    BY <1>4, <1>5

LEMMA HtmlHonest ==
  ASSUME WalkInv, listing.kind \in HtmlKinds
  PROVE  /\ listing.lost \/ Listed \subseteq ListingOffered
         /\ listing.pc = "done" /\ ~listing.capped => Listed = ListingOffered
  <1>1. HtmlWalk /\ WalkTyped
    BY DEF WalkInv
  <1>2. \A L, M : L \subseteq M => HtmlOf(L) \subseteq HtmlOf(M)
    BY DEF HtmlOf
  <1>3. \A P : HtmlFiles(P) = HtmlOf(LinksOn(P))
    BY DEF HtmlFiles, HtmlOf
  <1>4. ASSUME listing.pc = "done", ~listing.capped PROVE Listed = HtmlFiles(HtmlRead)
    BY <1>1, <1>4, EmptyList, HtmlParts DEF HtmlWalk, Ahead
  <1>5. CASE listing.kind = "html_next"
    <2>1. ListingOffered = HtmlFiles(HtmlChain)
      BY <1>5 DEF ListingOffered
    <2>2. ASSUME ~listing.lost PROVE Listed \subseteq ListingOffered
      <3>1. CASE listing.pc = "idle"
        BY <1>1, <3>1 DEF HtmlWalk
      <3>2. CASE listing.pc \in {"docs", "items", "done"}
        <4>1. Listed \subseteq HtmlOf(LinksOn(HtmlRead)) /\ HtmlRead \subseteq HtmlChain
          BY <1>1, <1>3, <1>5, <3>2 DEF HtmlWalk
        <4>2. LinksOn(HtmlRead) \subseteq LinksOn(HtmlChain)
          BY <4>1 DEF LinksOn
        <4> QED
          BY <1>2, <1>3, <2>1, <4>1, <4>2
      <3> QED
        BY <1>1, <2>2, <3>1, <3>2 DEF HtmlWalk, WalkTyped, ListingTypeOK, ListingPcs
    <2>3. ASSUME listing.pc = "done", ~listing.capped PROVE Listed = ListingOffered
      <3>1. /\ HtmlRead \subseteq HtmlChain /\ 0 \in HtmlRead
            /\ \A p \in HtmlRead : HtmlNext[p] \in HtmlRead \cup {ListingNone}
        BY <1>1, <1>5, <2>3 DEF HtmlWalk
      <3>2. HtmlRead \subseteq DOMAIN HtmlLinks
        BY DEF HtmlRead
      <3>3. HtmlChain \subseteq HtmlRead
        BY <3>1, <3>2, ChainLeast
      <3>4. HtmlRead = HtmlChain
        BY <3>1, <3>3
      <3> QED
        BY <1>4, <2>1, <2>3, <3>4
    <2> QED
      BY <2>2, <2>3
  <1>6. CASE listing.kind = "html_param"
    <2>1. ListingOffered = HtmlFiles(HtmlNumberedPages)
      BY <1>6 DEF ListingOffered
    <2>2. /\ DOMAIN HtmlLinks \subseteq Nat
          /\ \A p \in DOMAIN HtmlLinks, q \in Nat : q <= p => q \in DOMAIN HtmlLinks
      BY <1>1, PagesSite DEF WalkInv
    <2>3. ASSUME listing.pc \in {"docs", "items", "done"}
          PROVE  LinksOn(HtmlRead) \subseteq LinksOn(HtmlNumberedPages)
      <3>1. /\ listing.at \in Nat /\ HtmlRead = {p \in DOMAIN HtmlLinks : p <= listing.at}
            /\ \A p \in 1 .. listing.at - 1 : HtmlPageLinks(p) # <<>>
        BY <1>1, <1>6, <2>3 DEF HtmlWalk
      <3>2. ASSUME NEW p \in HtmlRead, HtmlLinks[p] # <<>> PROVE p \in HtmlNumberedPages
        <4>1. p \in DOMAIN HtmlLinks /\ p \in Nat /\ p <= listing.at
          BY <2>2, <3>1
        <4>2. ASSUME NEW q \in DOMAIN HtmlLinks, q \in 1 .. p PROVE HtmlLinks[q] # <<>>
          <5>1. q = p \/ q \in 1 .. listing.at - 1
            BY <3>1, <4>1, <4>2
          <5> QED
            BY <3>1, <3>2, <4>2, <5>1 DEF HtmlPageLinks
        <4> QED
          BY <4>1, <4>2 DEF HtmlNumberedPages
      <3>3. ASSUME NEW p \in HtmlRead, HtmlLinks[p] = <<>> PROVE ToSet(HtmlLinks[p]) = {}
        BY <3>3, EmptyList
      <3> QED
        BY <3>2, <3>3 DEF LinksOn
    <2>4. ASSUME ~listing.lost PROVE Listed \subseteq ListingOffered
      <3>1. CASE listing.pc = "idle"
        BY <1>1, <3>1 DEF HtmlWalk
      <3>2. CASE listing.pc \in {"docs", "items", "done"}
        <4>1. Listed \subseteq HtmlOf(LinksOn(HtmlRead))
          BY <1>1, <1>3, <3>2 DEF HtmlWalk
        <4> QED
          BY <1>2, <1>3, <2>1, <2>3, <3>2, <4>1
      <3> QED
        BY <1>1, <2>4, <3>1, <3>2 DEF HtmlWalk, WalkTyped, ListingTypeOK, ListingPcs
    <2>5. ASSUME listing.pc = "done", ~listing.capped PROVE Listed = ListingOffered
      <3>1. /\ listing.at \in Nat \ {0} /\ HtmlRead = {p \in DOMAIN HtmlLinks : p <= listing.at}
            /\ HtmlPageLinks(listing.at) = <<>>
        BY <1>1, <1>6, <2>5 DEF HtmlWalk
      <3>2. ASSUME NEW p \in HtmlNumberedPages PROVE p \in HtmlRead
        <4>1. p \in DOMAIN HtmlLinks /\ p \in Nat
          BY <2>2 DEF HtmlNumberedPages
        <4>2. ASSUME p > listing.at PROVE FALSE
          <5>1. listing.at \in DOMAIN HtmlLinks /\ listing.at \in 1 .. p
            BY <2>2, <3>1, <4>1, <4>2
          <5> QED
            BY <3>1, <5>1 DEF HtmlNumberedPages, HtmlPageLinks
        <4> QED
          BY <3>1, <4>1, <4>2
      <3>3. LinksOn(HtmlNumberedPages) \subseteq LinksOn(HtmlRead)
        BY <3>2 DEF LinksOn
      <3>4. LinksOn(HtmlNumberedPages) = LinksOn(HtmlRead)
        BY <2>3, <2>5, <3>3
      <3> QED
        BY <1>3, <1>4, <2>1, <2>5, <3>4
    <2> QED
      BY <2>4, <2>5
  <1> QED
    BY <1>5, <1>6 DEF HtmlKinds

LEMMA PortalHonest ==
  ASSUME WalkInv, listing.kind = "portal"
  PROVE  /\ listing.lost \/ Listed \subseteq ListingOffered
         /\ listing.pc = "done" /\ ~listing.capped => Listed = ListingOffered
  <1>1. PortalWalk /\ WalkTyped /\ listing.page \in Nat
    BY DEF WalkInv, WalkTyped, ListingTypeOK
  <1>2. ListingOffered = PortalListed(LinksOn(PortalPages))
    BY DEF ListingOffered, PortalListed
  <1>3. LinksOn(0 .. listing.page - 1) \subseteq LinksOn(PortalPages)
    BY <1>1 DEF PortalWalk, LinksOn
  <1>4. \A L, M : L \subseteq M => PortalListed(L) \subseteq PortalListed(M)
    BY DEF PortalListed
  <1>5. ASSUME ~listing.lost PROVE Listed \subseteq ListingOffered
    <2>1. Listed \subseteq PortalListed(LinksOn(0 .. listing.page - 1))
      BY <1>1, <1>5 DEF PortalWalk
    <2> QED
      BY <1>2, <1>3, <1>4, <2>1
  <1>6. ASSUME listing.pc = "done", ~listing.capped PROVE Listed = ListingOffered
    <2>1. /\ HtmlPageLinks(listing.page) = <<>> /\ ~listing.lost
          /\ Listed = PortalListed(LinksOn(0 .. listing.page - 1))
      BY <1>1, <1>6, EmptyList, PortalParts DEF PortalWalk, Ahead
    <2>2. /\ DOMAIN HtmlLinks \subseteq Nat
          /\ \A p \in DOMAIN HtmlLinks, q \in Nat : q <= p => q \in DOMAIN HtmlLinks
      BY <1>1, PagesSite
    <2>3. ASSUME NEW p \in PortalPages PROVE p \in 0 .. listing.page - 1
      <3>1. p \in DOMAIN HtmlLinks /\ p \in Nat
        BY <2>2 DEF PortalPages
      <3>2. ASSUME p >= listing.page PROVE FALSE
        <4>1. listing.page \in DOMAIN HtmlLinks /\ listing.page \in 0 .. p
          BY <1>1, <2>2, <3>1, <3>2
        <4> QED
          BY <2>1, <4>1 DEF PortalPages, HtmlPageLinks
      <3> QED
        BY <1>1, <3>1, <3>2
    <2>4. LinksOn(PortalPages) \subseteq LinksOn(0 .. listing.page - 1)
      BY <2>3 DEF LinksOn
    <2>5. LinksOn(PortalPages) = LinksOn(0 .. listing.page - 1)
      BY <1>3, <2>4
    <2> QED
      BY <1>2, <2>1, <2>5
  <1> QED
    BY <1>5, <1>6

LEMMA WalkTells ==
  ASSUME WalkInv PROVE ListingTypeOK /\ ListingHonest
  <1>1. ListingTypeOK /\ listing.kind \in ListingKinds
    BY DEF WalkInv, WalkTyped, ListingTypeOK
  <1>2. /\ listing.lost \/ Listed \subseteq ListingOffered
        /\ listing.pc = "done" /\ ~listing.capped /\ (listing.lost => listing.kind \notin ListingLenient)
             => Listed = ListingOffered
    <2>1. CASE listing.kind \in DocumentKinds
      BY <2>1, DocumentHonest
    <2>2. CASE listing.kind \in NestedKinds
      BY <2>2, NestedHonest
    <2>3. CASE listing.kind = "sitemap"
      BY <2>3, SitemapHonest DEF ListingLenient
    <2>4. CASE listing.kind \in HtmlKinds
      BY <2>4, HtmlHonest
    <2>5. CASE listing.kind = "portal"
      BY <2>5, PortalHonest
    <2> QED
      BY <1>1, <2>1, <2>2, <2>3, <2>4, <2>5 DEF ListingKinds, NestedKinds, HtmlKinds
  <1>3. listing.kind \in HtmlKinds \cup {"ckan_ids", "ckan_search"} => IsInjective(listing.found)
    BY DEF WalkInv, FoundOnce
  <1> QED
    BY <1>1, <1>2, <1>3 DEF ListingHonest, Listed

(* A walk is what its variables are declared to be, whatever the site      *)
(* shows and whichever requests fail.                                      *)
THEOREM ListingTyped == ListingSpec => []ListingTypeOK
  <1>1. WalkInv => ListingTypeOK
    BY WalkTells
  <1> QED
    BY <1>1, WalkAlways, PTL

(* A discovery that ends without raising has listed all that its site      *)
(* offers and nothing else, unless it says why not: a declared cap, or a   *)
(* failed request that sitemap and ckan pass over; html and ckan list      *)
(* nothing twice.  For every site, filter and cap, and for sitemaps and    *)
(* next links that lead in circles (connectors/*.py, discover).            *)
THEOREM WalksHonest == ListingSpec => []ListingHonest
  <1>1. WalkInv => ListingHonest
    BY WalkTells
  <1> QED
    BY <1>1, WalkAlways, PTL
=============================================================================
