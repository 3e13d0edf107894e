--------------------------- MODULE PlanningSelection ---------------------------
(***************************************************************************)
(* The planning page: which record and version the user looks at, and the  *)
(* answers and effects that arrive after the user has moved on.            *)
(*                                                                         *)
(* Event handlers and promises change refs and queue state at once         *)
(* (`page'); a render shows what is queued by then (`screen'); its effects *)
(* run after it, when more may have happened (`ran').  A handler the user  *)
(* reaches is one of the screen's: it knows the record, the version and    *)
(* the data of that render, and asks the refs for the current ones.        *)
(*                                                                         *)
(* recordRef and record, versionRef and version, are set by the same       *)
(* statements: one field of `page' stands for both, and the same field of  *)
(* `screen' for what a callback closed over.  Object identity is equality  *)
(* here, as no two selections have one generation.                         *)
(*                                                                         *)
(* A definition named Wrong... is a plausible slip in the definition that  *)
(* follows it; no action uses it.                                          *)
(***************************************************************************)
EXTENDS Integers, Sequences, Functions

CONSTANTS
    Record,      \* planning records
    Version,     \* planning versions, each with one scan and one publication
    VersionsOf,  \* [Record -> Seq(Version)], newest first
    Published,   \* the versions whose publication is in the catalog
    Place,       \* map bounds the user searches for
    None,        \* null
    MaxActs,     \* bound: what the user does
    MaxCompares  \* bound: comparisons that are waited for at a time

ASSUME VersionsAssumption ==
    /\ VersionsOf \in [Record -> Seq(Version)]
    /\ \A r, s \in Record : Range(VersionsOf[r]) \cap Range(VersionsOf[s]) # {} => r = s
ASSUME NamesAssumption ==
    /\ Published \subseteq Version /\ Place \cap Version = {}
    /\ None \notin Record \cup Version \cup Place
ASSUME ActsAssumption == MaxActs \in Nat /\ MaxCompares \in Nat

VARIABLES
    page,         \* the refs and the queued state
    screen,       \* the page as of the last render
    ran,          \* the page as of the last effects
    details,      \* the selections whose record is being fetched
    extents,      \* the selections whose extent is being fetched
    comparisons,  \* the comparisons being waited for
    map,          \* the map: whether it has loaded, its layers and its camera
    acts,         \* what the user has done so far
    asked         \* history: the place asked for last, the latest comparison shown

vars == <<page, screen, ran, details, extents, comparisons, map, acts, asked>>

-----------------------------------------------------------------------------
(* frameRequest is 0 for a selection that does not move the map.           *)
Selection(Id) == [id : Id, generation : Nat, frameRequest : Nat]
NoSelection == [id |-> None, generation |-> 0, frameRequest |-> 0]

RecordSelection == Selection(Record) \cup {NoSelection}
VersionSelection == Selection(Version) \cup {NoSelection}

(* A bbox is named by what it shows: a version's extent or a place.  So is *)
(* the overlay of a raster, and a publication, by its version.             *)
Page == [record : RecordSelection, version : VersionSelection,
         serial : Nat, frameRequest : Nat,
         loaded : [owner : RecordSelection, value : Record \cup {None}],
         error : BOOLEAN, catalog : BOOLEAN,
         rasterId : Version \cup {None}, comparePubId : Version \cup {None},
         bbox : Version \cup Place \cup {None}]

NotLoaded == [owner |-> NoSelection, value |-> None]

BlankPage ==
    [record |-> NoSelection, version |-> NoSelection, serial |-> 0, frameRequest |-> 0,
     loaded |-> NotLoaded, error |-> FALSE, catalog |-> FALSE,
     rasterId |-> None, comparePubId |-> None, bbox |-> None]

MapState == [loaded : BOOLEAN, waiting : SUBSET {"layers", "raster"},
             main : Version \cup {None}, compare : Version \cup {None},
             raster : Version \cup {None}, camera : Version \cup Place \cup {None}]

(* The map's effects run when it is made: their callbacks wait for it.     *)
BlankMap == [loaded |-> FALSE, waiting |-> {"layers", "raster"}, main |-> None,
             compare |-> None, raster |-> None, camera |-> None]

Init ==
    /\ page = BlankPage /\ screen = BlankPage /\ ran = BlankPage
    /\ details = {} /\ extents = {} /\ comparisons = {}
    /\ map = BlankMap
    /\ acts = 0
    /\ asked = [place |-> None, compared |-> NoSelection]

-----------------------------------------------------------------------------
(* What a render makes of the page.                                        *)
IsLoaded(p) == p.record # NoSelection /\ p.loaded.owner = p.record
Versions(p) == IF IsLoaded(p) THEN VersionsOf[p.loaded.value] ELSE <<>>
PubId(p) == IF p.catalog /\ p.version.id \in Published THEN p.version.id ELSE None
Layers(p) == <<PubId(p), p.comparePubId>>

(* A publication has one source: none is added for the comparison when it  *)
(* is the one shown.                                                       *)
Overlay(p) == IF p.comparePubId = PubId(p) THEN None ELSE p.comparePubId
MapShows(p) == <<PubId(p), Overlay(p)>>

SelectRecord(p, r) ==
    IF p.record.id = r THEN p
    ELSE [p EXCEPT !.serial = @ + 1, !.frameRequest = @ + 1,
              !.record = [id |-> r, generation |-> p.serial + 1,
                          frameRequest |-> p.frameRequest + 1],
              !.version = NoSelection, !.loaded = NotLoaded, !.error = FALSE,
              !.rasterId = None, !.comparePubId = None, !.bbox = None]

BeginVersion(p, v, owner, frame) ==
    IF p.record # owner \/ p.version.id = v THEN p
    ELSE [p EXCEPT !.serial = @ + 1,
              !.frameRequest = IF frame THEN @ + 1 ELSE @,
              !.version = [id |-> v, generation |-> p.serial + 1,
                           frameRequest |-> IF frame THEN p.frameRequest + 1 ELSE 0],
              !.rasterId = None,
              !.bbox = IF frame THEN None ELSE @]

FocusBbox(p, b) == [p EXCEPT !.frameRequest = @ + 1, !.bbox = b]

-----------------------------------------------------------------------------
(* What the user does, on the screen there is.                             *)
Act ==
    /\ acts < MaxActs
    /\ acts' = acts + 1
    /\ UNCHANGED <<screen, ran, details, extents, map>>

(* Choosing another record or version is a new wish about the map.         *)
NewWish(moved) == asked' = [asked EXCEPT !.place = IF moved THEN None ELSE @]

PickRecord(r) ==
    /\ Act
    /\ page' = SelectRecord(page, r)
    /\ NewWish(page' # page)
    /\ UNCHANGED comparisons

(* A search hit may be a record, a point, or a record with its point.      *)
PickPlace(r, b) ==
    /\ Act
    /\ page' = FocusBbox(IF r = None THEN page ELSE SelectRecord(page, r), b)
    /\ asked' = [asked EXCEPT !.place = b]
    /\ UNCHANGED comparisons

PickVersion(v) ==
    /\ Act
    /\ v \in Range(Versions(screen))
    /\ page' = BeginVersion(page, v, screen.record, TRUE)
    /\ NewWish(page' # page)
    /\ UNCHANGED comparisons

ToggleRaster(on) ==
    /\ Act
    /\ IsLoaded(screen) /\ screen.version # NoSelection
    /\ page' = IF page.version # screen.version THEN page
               ELSE [page EXCEPT !.rasterId = IF on THEN screen.version.id ELSE None]
    /\ UNCHANGED <<comparisons, asked>>

(* Leaving the tab takes the panel away, not the comparison it waits for.  *)
Compare(from, to) ==
    /\ Act
    /\ {from, to} \subseteq Range(Versions(screen)) /\ from # to
    /\ \E n \in 1 .. MaxCompares :
           /\ \A c \in comparisons : c.n # n
           /\ comparisons' = comparisons \cup {[n |-> n, owner |-> screen.record, to |-> to]}
    /\ UNCHANGED <<page, asked>>

-----------------------------------------------------------------------------
(* The answers of the API.                                                 *)
Answer == UNCHANGED <<screen, ran, map, acts>>

WrongFail(p, owner) == IF p.record = owner THEN p ELSE [p EXCEPT !.error = TRUE]

Fail(p, owner) == IF p.record = owner THEN [p EXCEPT !.error = TRUE] ELSE p

Load(p, owner, r) ==
    LET q == [p EXCEPT !.loaded = [owner |-> owner, value |-> r]]
    IN  IF VersionsOf[r] = <<>> THEN q
        ELSE BeginVersion(q, Head(VersionsOf[r]), owner, p.frameRequest = owner.frameRequest)

WrongListens(s) == ran.record.id = s.id /\ page.record.id = s.id

Listens(s) == ran.record = s /\ page.record = s

(* The answer may be a failure or, which is one as well, another record's. *)
DetailAnswer(s, r) ==
    /\ s \in details
    /\ details' = details \ {s}
    /\ page' = IF ~ Listens(s) THEN page
               ELSE IF r = s.id THEN Load(page, s, r) ELSE Fail(page, s)
    /\ UNCHANGED <<extents, comparisons, asked>>
    /\ Answer

WrongFrames(s) == ran.version = s /\ page.version = s

Frames(s) == ran.version = s /\ page.version = s /\ page.frameRequest = s.frameRequest

ExtentAnswer(s, ok) ==
    /\ s \in extents
    /\ extents' = extents \ {s}
    /\ page' = IF Frames(s) THEN [page EXCEPT !.bbox = IF ok THEN s.id ELSE None] ELSE page
    /\ UNCHANGED <<details, comparisons, asked>>
    /\ Answer

Accepts(owner) == page.record = owner

(* The overlay is the publication of the comparison's later version.       *)
CompareAnswer(c, ok) ==
    /\ c \in comparisons
    /\ comparisons' = comparisons \ {c}
    /\ IF ok /\ Accepts(c.owner)
       THEN /\ page' = [page EXCEPT !.comparePubId = IF c.to \in Published THEN c.to ELSE None]
            /\ asked' = [asked EXCEPT !.compared = c.owner]
       ELSE UNCHANGED <<page, asked>>
    /\ UNCHANGED <<details, extents>>
    /\ Answer

CatalogAnswer ==
    /\ ~ page.catalog
    /\ page' = [page EXCEPT !.catalog = TRUE]
    /\ UNCHANGED <<details, extents, comparisons, asked>>
    /\ Answer

-----------------------------------------------------------------------------
(* React and the map.                                                      *)
Render ==
    /\ page # screen /\ screen = ran
    /\ screen' = page
    /\ UNCHANGED <<page, ran, details, extents, comparisons, map, acts, asked>>

(* Pending tiles can make isStyleLoaded false again after the first load.  *)
CanDraw(styleLoaded) == map.loaded \/ styleLoaded

Draw(m, parts, p) ==
    [m EXCEPT !.main = IF "layers" \in parts THEN PubId(p) ELSE @,
              !.compare = IF "layers" \in parts THEN Overlay(p) ELSE @,
              !.raster = IF "raster" \in parts THEN p.rasterId ELSE @]

(* A callback that still waits is dropped when what it would draw changes. *)
MapEffects(styleLoaded) ==
    LET changed == {x \in {"layers", "raster"} :
                       \/ x = "layers" /\ Layers(screen) # Layers(ran)
                       \/ x = "raster" /\ screen.rasterId # ran.rasterId}
        now == IF CanDraw(styleLoaded) THEN changed ELSE {}
    IN  [Draw(map, now, screen) EXCEPT
            !.waiting = (@ \ changed) \cup (changed \ now),
            !.camera = IF screen.bbox \notin {ran.bbox, None} THEN screen.bbox ELSE @]

WrongDue == IF screen.version = ran.version THEN {} ELSE {screen.version}

(* The extent whose request the version's effect starts.                   *)
Due == IF screen.version = ran.version THEN {}
       ELSE {s \in {screen.version} \ {NoSelection} : s.frameRequest = page.frameRequest}

Effects(styleLoaded) ==
    /\ screen # ran
    /\ ran' = screen
    /\ details' = details \cup ({screen.record} \ {ran.record})
    /\ extents' = extents \cup Due
    /\ map' = MapEffects(styleLoaded)
    /\ UNCHANGED <<page, screen, comparisons, acts, asked>>

MapLoad ==
    /\ ~ map.loaded
    /\ map' = [Draw(map, map.waiting, ran) EXCEPT !.loaded = TRUE, !.waiting = {}]
    /\ UNCHANGED <<page, screen, ran, details, extents, comparisons, acts, asked>>

-----------------------------------------------------------------------------
DetailArrives == \E s \in details : \E r \in Record \cup {None} : DetailAnswer(s, r)
ExtentArrives == \E s \in extents : \E ok \in BOOLEAN : ExtentAnswer(s, ok)
ComparisonArrives == \E c \in comparisons : \E ok \in BOOLEAN : CompareAnswer(c, ok)

Next ==
    \/ \E r \in Record : PickRecord(r)
    \/ \E r \in Record \cup {None} : \E b \in Place : PickPlace(r, b)
    \/ \E v \in Version : PickVersion(v)
    \/ \E on \in BOOLEAN : ToggleRaster(on)
    \/ \E from, to \in Version : Compare(from, to)
    \/ DetailArrives \/ ExtentArrives \/ ComparisonArrives \/ CatalogAnswer
    \/ Render
    \/ \E styleLoaded \in BOOLEAN : Effects(styleLoaded)
    \/ MapLoad

(* React renders and runs effects; a request is answered or fails.         *)
Fairness ==
    /\ WF_vars(DetailArrives) /\ WF_vars(ExtentArrives)
    /\ WF_vars(Render) /\ WF_vars(\E styleLoaded \in BOOLEAN : Effects(styleLoaded))

Spec == Init /\ [][Next]_vars /\ Fairness

-----------------------------------------------------------------------------
(* Every variable keeps its type.                                          *)
TypeOK ==
    /\ page \in Page /\ screen \in Page /\ ran \in Page
    /\ details \subseteq Selection(Record)
    /\ extents \subseteq Selection(Version)
    /\ comparisons \subseteq [n : 1 .. MaxCompares, owner : Selection(Record), to : Version]
    /\ map \in MapState
    /\ acts \in 0 .. MaxActs
    /\ asked \in [place : Place \cup {None}, compared : RecordSelection]

ShowsOne(p) ==
    /\ IsLoaded(p) => p.loaded.value = p.record.id /\ ~ p.error
    /\ p.version # NoSelection => p.version.id \in Range(Versions(p))
    /\ p.rasterId \in {None, p.version.id}
    /\ p.bbox \in Version => p.bbox = p.version.id
    /\ p.comparePubId # None => p.comparePubId \in Range(VersionsOf[p.record.id])

(* Whatever answers arrive late, the page never mixes two selections: the  *)
(* versions, the version, the scan, the map bounds, the comparison and the *)
(* error it shows are those of the record it shows.                        *)
ShowsOneSelection == ShowsOne(page) /\ ShowsOne(screen)

(* A place the user asked for last is where the map stays or goes: no      *)
(* extent that was requested, or only due, before it moves the map away.   *)
LastPlaceWins ==
    asked.place # None =>
        /\ page.bbox = asked.place
        /\ page = ran => map.camera = asked.place

(* Once it has loaded, the map shows the layers of the latest effects,     *)
(* whether or not its style counted as loaded when they ran.               *)
MapFollowsEffects ==
    map.loaded => /\ <<map.main, map.compare>> = MapShows(ran)
                  /\ map.raster = ran.rasterId

(* A comparison outlives a change of version, and only another record or a *)
(* comparison started for the record now shown replaces it: one started    *)
(* before the user left the record and came back does not.                 *)
ComparisonStands ==
    [][page'.comparePubId # page.comparePubId =>
          \/ page'.record # page.record /\ page'.comparePubId = None
          \/ \E c \in comparisons \ comparisons' : c.owner = page.record]_vars

Answered(r) ==
    /\ screen.record.id = r /\ page.record = screen.record
    /\ \/ screen.error
       \/ /\ IsLoaded(screen)
          /\ screen.version = NoSelection => VersionsOf[r] = <<>>

(* A record the user picked is shown with its versions, one of them        *)
(* selected, or with an error, unless the user picks another one: coming   *)
(* back to a record whose old answer is dropped asks for it again.         *)
EveryPickIsAnswered ==
    \A r \in Record : page.record.id = r ~> (page.record.id # r \/ Answered(r))
=============================================================================
