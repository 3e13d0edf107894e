------------------------ MODULE PlanningSelectionProofs ------------------------
(***************************************************************************)
(* Proofs about PlanningSelection, for any records, versions and places,   *)
(* and whatever the user does in whatever order the answers come.          *)
(***************************************************************************)
EXTENDS PlanningSelection, TLAPS

(* No two selections of a record have one generation.                      *)
Older(s, t) == s.generation < t.generation \/ s = t

(* Effects trail the renders, and renders the page.                        *)
Chain ==
    /\ Older(ran.record, screen.record) /\ Older(screen.record, page.record)
    /\ page.record.generation <= page.serial
    /\ \A s \in details : Older(s, ran.record)

Typed == TypeOK /\ Chain

-----------------------------------------------------------------------------
(* Operators of the page.                                                  *)

LEMMA VersionSeq ==
  ASSUME NEW r \in Record
  PROVE  /\ Range(VersionsOf[r]) \subseteq Version
         /\ VersionsOf[r] # <<>> => Head(VersionsOf[r]) \in Range(VersionsOf[r])
  <1>1. VersionsOf[r] \in Seq(Version)
    BY VersionsAssumption
  <1>2. Range(VersionsOf[r]) = {VersionsOf[r][i] : i \in 1 .. Len(VersionsOf[r])}
    BY <1>1 DEF Range
  <1>3. Range(VersionsOf[r]) \subseteq Version
    BY <1>1, <1>2
  <1>4. ASSUME VersionsOf[r] # <<>> PROVE Head(VersionsOf[r]) \in Range(VersionsOf[r])
    <2>1. Head(VersionsOf[r]) = VersionsOf[r][1] /\ 1 \in 1 .. Len(VersionsOf[r])
      BY <1>1, <1>4
    <2> QED
      BY <2>1, <1>2
  <1> QED
    BY <1>3, <1>4

LEMMA Nothing == NoSelection \in RecordSelection /\ NoSelection \in VersionSelection
  BY DEF RecordSelection, VersionSelection

LEMMA SelectionFields ==
  /\ \A s \in RecordSelection : s.generation \in Nat /\ s.frameRequest \in Nat /\ s.id \in Record \cup {None}
  /\ \A s \in VersionSelection : s.generation \in Nat /\ s.frameRequest \in Nat /\ s.id \in Version \cup {None}
  BY DEF RecordSelection, VersionSelection, Selection, NoSelection

LEMMA SelectRecordPage ==
  ASSUME NEW p \in Page, NEW r \in Record, p.record.id # r
  PROVE  /\ SelectRecord(p, r) \in Page
         /\ SelectRecord(p, r).serial = p.serial + 1
         /\ SelectRecord(p, r).frameRequest = p.frameRequest + 1
         /\ SelectRecord(p, r).record =
                [id |-> r, generation |-> p.serial + 1, frameRequest |-> p.frameRequest + 1]
         /\ SelectRecord(p, r).version = NoSelection
         /\ SelectRecord(p, r).loaded = NotLoaded
         /\ SelectRecord(p, r).error = FALSE
         /\ SelectRecord(p, r).rasterId = None
         /\ SelectRecord(p, r).comparePubId = None
         /\ SelectRecord(p, r).bbox = None
  <1> DEFINE s == [id |-> r, generation |-> p.serial + 1, frameRequest |-> p.frameRequest + 1]
  <1>1. s \in RecordSelection
    BY DEF RecordSelection, Selection, Page
  <1>2. NotLoaded \in [owner : RecordSelection, value : Record \cup {None}]
    BY Nothing DEF NotLoaded
  <1>3. SelectRecord(p, r) =
          [p EXCEPT !.serial = p.serial + 1, !.frameRequest = p.frameRequest + 1,
              !.record = s, !.version = NoSelection, !.loaded = NotLoaded, !.error = FALSE,
              !.rasterId = None, !.comparePubId = None, !.bbox = None]
    BY DEF SelectRecord
  <1> HIDE DEF s
  <1>4. SelectRecord(p, r) \in Page
    <2>1. p.serial + 1 \in Nat /\ p.frameRequest + 1 \in Nat /\ p.catalog \in BOOLEAN
      BY DEF Page
    <2>2. SelectRecord(p, r) =
            [record |-> s, version |-> NoSelection, serial |-> p.serial + 1,
             frameRequest |-> p.frameRequest + 1, loaded |-> NotLoaded, error |-> FALSE,
             catalog |-> p.catalog, rasterId |-> None, comparePubId |-> None, bbox |-> None]
      BY <1>3 DEF Page
    <2> QED
      BY <1>1, <1>2, <2>1, <2>2, Nothing DEF Page
  <1>5. /\ SelectRecord(p, r).serial = p.serial + 1
        /\ SelectRecord(p, r).frameRequest = p.frameRequest + 1
        /\ SelectRecord(p, r).record = s
        /\ SelectRecord(p, r).version = NoSelection
        /\ SelectRecord(p, r).loaded = NotLoaded
        /\ SelectRecord(p, r).error = FALSE
        /\ SelectRecord(p, r).rasterId = None
        /\ SelectRecord(p, r).comparePubId = None
        /\ SelectRecord(p, r).bbox = None
    BY <1>3 DEF Page
  <1> QED
    BY <1>4, <1>5 DEF s

LEMMA BeginVersionPage ==
  ASSUME NEW p \in Page, NEW v \in Version, NEW frame \in BOOLEAN,
         NEW owner \in RecordSelection, p.record = owner, p.version.id # v
  PROVE  /\ BeginVersion(p, v, owner, frame) \in Page
         /\ BeginVersion(p, v, owner, frame).serial = p.serial + 1
         /\ BeginVersion(p, v, owner, frame).frameRequest =
                IF frame THEN p.frameRequest + 1 ELSE p.frameRequest
         /\ BeginVersion(p, v, owner, frame).record = p.record
         /\ BeginVersion(p, v, owner, frame).version =
                [id |-> v, generation |-> p.serial + 1,
                 frameRequest |-> IF frame THEN p.frameRequest + 1 ELSE 0]
         /\ BeginVersion(p, v, owner, frame).loaded = p.loaded
         /\ BeginVersion(p, v, owner, frame).error = p.error
         /\ BeginVersion(p, v, owner, frame).rasterId = None
         /\ BeginVersion(p, v, owner, frame).comparePubId = p.comparePubId
         /\ BeginVersion(p, v, owner, frame).bbox = IF frame THEN None ELSE p.bbox
  <1> DEFINE s == [id |-> v, generation |-> p.serial + 1,
                   frameRequest |-> IF frame THEN p.frameRequest + 1 ELSE 0]
  <1> DEFINE q == BeginVersion(p, v, owner, frame)
  <1>1. s \in VersionSelection
    BY DEF VersionSelection, Selection, Page
  <1>3. q = [p EXCEPT !.serial = p.serial + 1,
                 !.frameRequest = IF frame THEN p.frameRequest + 1 ELSE p.frameRequest,
                 !.version = s, !.rasterId = None,
                 !.bbox = IF frame THEN None ELSE p.bbox]
    BY DEF BeginVersion
  <1> HIDE DEF s, q
  <1>4. q \in Page
    <2> DEFINE request == IF frame THEN p.frameRequest + 1 ELSE p.frameRequest
               box == IF frame THEN None ELSE p.bbox
    <2>1. p.serial + 1 \in Nat /\ request \in Nat /\ box \in Version \cup Place \cup {None}
      BY DEF Page
    <2>2. q = [record |-> p.record, version |-> s, serial |-> p.serial + 1,
               frameRequest |-> request, loaded |-> p.loaded, error |-> p.error,
               catalog |-> p.catalog, rasterId |-> None, comparePubId |-> p.comparePubId,
               bbox |-> box]
      BY <1>3 DEF Page
    <2> HIDE DEF request, box
    <2> QED
      BY <1>1, <2>1, <2>2 DEF Page
  <1>5. /\ q.serial = p.serial + 1
        /\ q.frameRequest = IF frame THEN p.frameRequest + 1 ELSE p.frameRequest
        /\ q.record = p.record /\ q.version = s /\ q.loaded = p.loaded /\ q.error = p.error
        /\ q.rasterId = None /\ q.comparePubId = p.comparePubId
        /\ q.bbox = IF frame THEN None ELSE p.bbox
    BY <1>3 DEF Page
  <1> QED
    BY <1>4, <1>5 DEF s, q

LEMMA FocusBboxPage ==
  ASSUME NEW p \in Page, NEW b \in Place
  PROVE  /\ FocusBbox(p, b) \in Page
         /\ FocusBbox(p, b).serial = p.serial
         /\ FocusBbox(p, b).frameRequest = p.frameRequest + 1
         /\ FocusBbox(p, b).record = p.record
         /\ FocusBbox(p, b).version = p.version
         /\ FocusBbox(p, b).loaded = p.loaded
         /\ FocusBbox(p, b).error = p.error
         /\ FocusBbox(p, b).rasterId = p.rasterId
         /\ FocusBbox(p, b).comparePubId = p.comparePubId
         /\ FocusBbox(p, b).bbox = b
  <1>1. FocusBbox(p, b) =
          [record |-> p.record, version |-> p.version, serial |-> p.serial,
           frameRequest |-> p.frameRequest + 1, loaded |-> p.loaded, error |-> p.error,
           catalog |-> p.catalog, rasterId |-> p.rasterId,
           comparePubId |-> p.comparePubId, bbox |-> b]
    <2> DEFINE request == p.frameRequest + 1
    <2>1. FocusBbox(p, b) = [p EXCEPT !.frameRequest = request, !.bbox = b]
      BY DEF FocusBbox
    <2> HIDE DEF request
    <2>2. FocusBbox(p, b) =
            [record |-> p.record, version |-> p.version, serial |-> p.serial,
             frameRequest |-> request, loaded |-> p.loaded, error |-> p.error,
             catalog |-> p.catalog, rasterId |-> p.rasterId,
             comparePubId |-> p.comparePubId, bbox |-> b]
      BY <2>1 DEF Page
    <2> QED
      BY <2>2 DEF request
  <1>2. FocusBbox(p, b) \in Page
    <2>1. p.frameRequest + 1 \in Nat /\ b \in Version \cup Place \cup {None}
      BY DEF Page
    <2> QED
      BY <1>1, <2>1 DEF Page
  <1> QED
    BY <1>1, <1>2

(* The page with one of its fields set.                                    *)
LEMMA SetField ==
  ASSUME NEW p \in Page
  PROVE  /\ \A x \in Version \cup {None} :
              [p EXCEPT !.rasterId = x] \in Page /\ [p EXCEPT !.comparePubId = x] \in Page
         /\ \A x \in Version \cup Place \cup {None} : [p EXCEPT !.bbox = x] \in Page
         /\ \A x \in [owner : RecordSelection, value : Record \cup {None}] :
              [p EXCEPT !.loaded = x] \in Page
         /\ [p EXCEPT !.error = TRUE] \in Page
         /\ [p EXCEPT !.catalog = TRUE] \in Page
  BY DEF Page

-----------------------------------------------------------------------------
(* Types.                                                                  *)

LEMMA InitTyped == Init => Typed
  <1> SUFFICES ASSUME Init PROVE Typed
    OBVIOUS
  <1>1. BlankPage \in Page
    <2>1. NotLoaded \in [owner : RecordSelection, value : Record \cup {None}]
      BY Nothing DEF NotLoaded
    <2> QED
      BY <2>1, Nothing DEF BlankPage, Page
  <1>2. BlankMap \in MapState
    BY DEF BlankMap, MapState
  <1>3. TypeOK
    BY <1>1, <1>2, Nothing, ActsAssumption DEF Init, TypeOK
  <1>4. Chain
    BY DEF Init, Chain, Older, BlankPage, NoSelection
  <1> QED
    BY <1>3, <1>4 DEF Typed

LEMMA OlderOrder ==
  /\ \A s, t, u \in RecordSelection : Older(s, t) /\ Older(t, u) => Older(s, u)
  /\ \A s, t \in RecordSelection : Older(s, t) /\ Older(t, s) => s = t
  BY SelectionFields DEF Older

(* What handlers and answers do to the record selection: they keep it, or  *)
(* they make a new one.                                                    *)
Follows(p, q) ==
    /\ q \in Page
    /\ \/ q.record = p.record /\ q.serial \in {p.serial, p.serial + 1}
       \/ q.record.generation = p.serial + 1 /\ q.serial = p.serial + 1

LEMMA SelectFollows ==
  ASSUME NEW p \in Page, NEW r \in Record
  PROVE  Follows(p, SelectRecord(p, r))
  <1>1. CASE p.record.id = r
    BY <1>1 DEF SelectRecord, Follows
  <1>2. CASE p.record.id # r
    <2>1. /\ SelectRecord(p, r) \in Page
          /\ SelectRecord(p, r).serial = p.serial + 1
          /\ SelectRecord(p, r).record =
                [id |-> r, generation |-> p.serial + 1, frameRequest |-> p.frameRequest + 1]
      BY <1>2, SelectRecordPage
    <2>2. SelectRecord(p, r).record.generation = p.serial + 1
      BY <2>1
    <2> QED
      BY <2>1, <2>2 DEF Follows
  <1> QED
    BY <1>1, <1>2

LEMMA BeginFollows ==
  ASSUME NEW p \in Page, NEW v \in Version, NEW frame \in BOOLEAN,
         NEW owner \in RecordSelection
  PROVE  /\ Follows(p, BeginVersion(p, v, owner, frame))
         /\ BeginVersion(p, v, owner, frame).record = p.record
  <1>1. CASE p.record # owner \/ p.version.id = v
    BY <1>1 DEF BeginVersion, Follows
  <1>2. CASE p.record = owner /\ p.version.id # v
    BY <1>2, BeginVersionPage, ZenonT(60) DEF Follows
  <1> QED
    BY <1>1, <1>2

LEMMA FocusFollows ==
  ASSUME NEW p \in Page, NEW b \in Place
  PROVE  /\ Follows(p, FocusBbox(p, b))
         /\ FocusBbox(p, b).record = p.record /\ FocusBbox(p, b).serial = p.serial
  BY FocusBboxPage DEF Follows

LEMMA LoadFollows ==
  ASSUME NEW p \in Page, NEW r \in Record, NEW owner \in RecordSelection
  PROVE  Follows(p, Load(p, owner, r))
  <1> DEFINE q == [p EXCEPT !.loaded = [owner |-> owner, value |-> r]]
             v == Head(VersionsOf[r])
             frame == p.frameRequest = owner.frameRequest
  <1>1. q \in Page
    BY SetField
  <1>2. q.record = p.record /\ q.serial = p.serial
    BY DEF Page
  <1>3. CASE VersionsOf[r] = <<>>
    <2>1. Load(p, owner, r) = q
      BY <1>3 DEF Load
    <2> QED
      BY <1>1, <1>2, <2>1 DEF Follows
  <1>4. CASE VersionsOf[r] # <<>>
    <2>1. Load(p, owner, r) = BeginVersion(q, v, owner, frame)
      BY <1>4 DEF Load
    <2>2. v \in Version
      BY <1>4, VersionSeq
    <2> HIDE DEF q, v, frame
    <2>3. Follows(q, BeginVersion(q, v, owner, frame))
      <3>1. frame \in BOOLEAN
        BY DEF frame
      <3> QED
        BY <1>1, <2>2, <3>1, BeginFollows
    <2> QED
      BY <1>2, <2>1, <2>3 DEF Follows
  <1> QED
    BY <1>3, <1>4

LEMMA SetFollows ==
  ASSUME NEW p \in Page
  PROVE  /\ Follows(p, p)
         /\ \A x \in Version \cup {None} :
              Follows(p, [p EXCEPT !.rasterId = x]) /\ Follows(p, [p EXCEPT !.comparePubId = x])
         /\ \A x \in Version \cup Place \cup {None} : Follows(p, [p EXCEPT !.bbox = x])
         /\ Follows(p, [p EXCEPT !.error = TRUE])
         /\ Follows(p, [p EXCEPT !.catalog = TRUE])
  BY SetField DEF Follows, Page

LEMMA Following ==
  ASSUME NEW p \in Page, NEW q \in Page, Follows(p, q), p.record.generation <= p.serial
  PROVE  Older(p.record, q.record) /\ q.record.generation <= q.serial
  <1>1. p.record.generation \in Nat /\ q.record.generation \in Nat /\ p.serial \in Nat
    BY SelectionFields DEF Page
  <1> QED
    BY <1>1 DEF Older, Follows

(* Every step of the page.                                                 *)
LEMMA PageStep ==
  ASSUME TypeOK, Next
  PROVE  Follows(page, page')
  <1> USE DEF TypeOK
  <1>1. ASSUME NEW r \in Record, PickRecord(r) PROVE Follows(page, page')
    BY <1>1, SelectFollows DEF PickRecord
  <1>2. ASSUME NEW r \in Record \cup {None}, NEW b \in Place, PickPlace(r, b)
        PROVE Follows(page, page')
    <2>1. CASE r = None
      BY <1>2, <2>1, FocusFollows DEF PickPlace
    <2>2. CASE r # None
      <3>1. Follows(page, SelectRecord(page, r))
        BY <2>2, SelectFollows
      <3>2. SelectRecord(page, r) \in Page
        BY <3>1 DEF Follows
      <3>3. page' = FocusBbox(SelectRecord(page, r), b)
        BY <1>2, <2>2 DEF PickPlace
      <3> QED
        BY <3>1, <3>2, <3>3, FocusFollows DEF Follows
    <2> QED
      BY <2>1, <2>2
  <1>3. ASSUME NEW v \in Version, PickVersion(v) PROVE Follows(page, page')
    <2>1. screen.record \in RecordSelection
      BY DEF Page
    <2> QED
      BY <1>3, <2>1, BeginFollows DEF PickVersion
  <1>4. ASSUME NEW on \in BOOLEAN, ToggleRaster(on) PROVE Follows(page, page')
    <2>1. screen.version.id \in Version \cup {None}
      BY SelectionFields DEF Page
    <2> QED
      BY <1>4, <2>1, SetFollows DEF ToggleRaster
  <1>5. ASSUME NEW s \in details, NEW r \in Record \cup {None}, DetailAnswer(s, r)
        PROVE Follows(page, page')
    <2>1. s \in RecordSelection /\ s.id \in Record
      BY DEF RecordSelection, Selection
    <2>2. CASE ~ Listens(s)
      BY <1>5, <2>2, SetFollows DEF DetailAnswer
    <2>3. CASE Listens(s) /\ r = s.id
      BY <1>5, <2>1, <2>3, LoadFollows DEF DetailAnswer
    <2>4. CASE Listens(s) /\ r # s.id
      BY <1>5, <2>4, SetFollows DEF DetailAnswer, Fail
    <2> QED
      BY <2>2, <2>3, <2>4
  <1>6. ASSUME NEW s \in extents, NEW ok \in BOOLEAN, ExtentAnswer(s, ok)
        PROVE Follows(page, page')
    <2> DEFINE box == IF ok THEN s.id ELSE None
    <2>1. box \in Version \cup Place \cup {None}
      BY DEF Selection
    <2>2. page' = page \/ page' = [page EXCEPT !.bbox = box]
      BY <1>6 DEF ExtentAnswer
    <2> HIDE DEF box
    <2> QED
      BY <2>1, <2>2, SetFollows
  <1>7. ASSUME NEW c \in comparisons, NEW ok \in BOOLEAN, CompareAnswer(c, ok)
        PROVE Follows(page, page')
    <2> DEFINE overlay == IF c.to \in Published THEN c.to ELSE None
    <2>1. overlay \in Version \cup {None}
      OBVIOUS
    <2>2. page' = page \/ page' = [page EXCEPT !.comparePubId = overlay]
      BY <1>7 DEF CompareAnswer
    <2> HIDE DEF overlay
    <2>3. Follows(page, page) /\ Follows(page, [page EXCEPT !.comparePubId = overlay])
      BY <2>1, SetFollows
    <2> QED
      BY <2>2, <2>3
  <1>8. CASE CatalogAnswer
    BY <1>8, SetFollows DEF CatalogAnswer
  <1>9. ASSUME page' = page PROVE Follows(page, page')
    BY <1>9, SetFollows
  <1> QED
    BY <1>1, <1>2, <1>3, <1>4, <1>5, <1>6, <1>7, <1>8, <1>9
    DEF Next, DetailArrives, ExtentArrives, ComparisonArrives, Compare, Render, Effects, MapLoad

LEMMA MapTypes ==
  ASSUME TypeOK
  PROVE  /\ \A styleLoaded \in BOOLEAN : MapEffects(styleLoaded) \in MapState
         /\ [Draw(map, map.waiting, ran) EXCEPT !.loaded = TRUE, !.waiting = {}] \in MapState
  <1>1. \A p \in Page : /\ PubId(p) \in Version \cup {None}
                        /\ Overlay(p) \in Version \cup {None}
                        /\ p.rasterId \in Version \cup {None}
                        /\ p.bbox \in Version \cup Place \cup {None}
    BY NamesAssumption DEF Page, PubId, Overlay
  <1>2. \A parts \in SUBSET {"layers", "raster"}, p \in Page : Draw(map, parts, p) \in MapState
    <2> SUFFICES ASSUME NEW parts \in SUBSET {"layers", "raster"}, NEW p \in Page
                 PROVE  Draw(map, parts, p) \in MapState
      OBVIOUS
    <2> DEFINE m == IF "layers" \in parts THEN PubId(p) ELSE map.main
               c == IF "layers" \in parts THEN Overlay(p) ELSE map.compare
               x == IF "raster" \in parts THEN p.rasterId ELSE map.raster
    <2>1. {m, c, x} \subseteq Version \cup {None}
      BY <1>1 DEF TypeOK, MapState
    <2>2. Draw(map, parts, p) = [map EXCEPT !.main = m, !.compare = c, !.raster = x]
      BY DEF Draw
    <2> HIDE DEF m, c, x
    <2> QED
      BY <2>1, <2>2 DEF TypeOK, MapState
  <1>3. ASSUME NEW styleLoaded \in BOOLEAN PROVE MapEffects(styleLoaded) \in MapState
    <2> DEFINE changed == {x \in {"layers", "raster"} :
                             \/ x = "layers" /\ Layers(screen) # Layers(ran)
                             \/ x = "raster" /\ screen.rasterId # ran.rasterId}
               now == IF CanDraw(styleLoaded) THEN changed ELSE {}
               m == Draw(map, now, screen)
               w == (m.waiting \ changed) \cup (changed \ now)
               k == IF screen.bbox \notin {ran.bbox, None} THEN screen.bbox ELSE m.camera
    <2>1. MapEffects(styleLoaded) = [m EXCEPT !.waiting = w, !.camera = k]
      BY DEF MapEffects
    <2>2. m \in MapState
      BY <1>2 DEF TypeOK
    <2>3. w \in SUBSET {"layers", "raster"} /\ k \in Version \cup Place \cup {None}
      BY <1>1, <2>2 DEF TypeOK, MapState
    <2> HIDE DEF m, w, k
    <2> QED
      BY <2>1, <2>2, <2>3 DEF MapState
  <1>4. [Draw(map, map.waiting, ran) EXCEPT !.loaded = TRUE, !.waiting = {}] \in MapState
    <2> DEFINE m == Draw(map, map.waiting, ran)
    <2>1. m \in MapState
      BY <1>2 DEF TypeOK, MapState
    <2> HIDE DEF m
    <2>2. [m EXCEPT !.loaded = TRUE, !.waiting = {}] \in MapState
      BY <2>1 DEF MapState
    <2> QED
      BY <2>2 DEF m
  <1> QED
    BY <1>3, <1>4

LEMMA NextTyped == ASSUME Typed, Next PROVE Typed'
  <1> USE DEF Typed
  <1>1. page' \in Page /\ Older(page.record, page'.record) /\ page'.record.generation <= page'.serial
    <2>1. Follows(page, page')
      BY PageStep
    <2>2. page \in Page /\ page' \in Page /\ page.record.generation <= page.serial
      BY <2>1 DEF TypeOK, Chain, Follows
    <2> QED
      BY <2>1, <2>2, Following
  <1>2. /\ page.record \in RecordSelection /\ page'.record \in RecordSelection
        /\ screen.record \in RecordSelection /\ ran.record \in RecordSelection
        /\ \A s \in details : s \in RecordSelection
    BY <1>1 DEF TypeOK, Page, RecordSelection
  <1>3. Older(screen.record, page'.record)
    BY <1>1, <1>2, OlderOrder DEF Chain
  <1>4. ASSUME UNCHANGED <<screen, ran, map>>, details' \subseteq details,
               extents' \subseteq extents, acts' \in 0 .. MaxActs,
               asked' \in [place : Place \cup {None}, compared : RecordSelection],
               comparisons' \subseteq [n : 1 .. MaxCompares, owner : Selection(Record), to : Version]
        PROVE  Typed'
    BY <1>1, <1>3, <1>4 DEF TypeOK, Chain
  <1>5. ASSUME NEW moved \in BOOLEAN, NewWish(moved)
        PROVE  asked' \in [place : Place \cup {None}, compared : RecordSelection]
    BY <1>5 DEF NewWish, TypeOK
  <1>6. ASSUME Act PROVE acts' \in 0 .. MaxActs
    BY <1>6, ActsAssumption DEF Act, TypeOK
  <1>7. ASSUME NEW r \in Record, PickRecord(r) PROVE Typed'
    <2>1. (page' # page) \in BOOLEAN
      OBVIOUS
    <2> QED
      BY <1>4, <1>5, <1>6, <1>7, <2>1 DEF PickRecord, Act, TypeOK
  <1>8. ASSUME NEW r \in Record \cup {None}, NEW b \in Place, PickPlace(r, b) PROVE Typed'
    <2>1. asked' \in [place : Place \cup {None}, compared : RecordSelection]
      BY <1>8 DEF PickPlace, TypeOK
    <2> QED
      BY <1>4, <1>6, <1>8, <2>1 DEF PickPlace, Act, TypeOK
  <1>9. ASSUME NEW v \in Version, PickVersion(v) PROVE Typed'
    <2>1. (page' # page) \in BOOLEAN
      OBVIOUS
    <2> QED
      BY <1>4, <1>5, <1>6, <1>9, <2>1 DEF PickVersion, Act, TypeOK
  <1>10. ASSUME NEW on \in BOOLEAN, ToggleRaster(on) PROVE Typed'
    BY <1>4, <1>6, <1>10 DEF ToggleRaster, Act, TypeOK
  <1>11. ASSUME NEW from \in Version, NEW to \in Version, Compare(from, to) PROVE Typed'
    <2>1. screen.record \in Selection(Record)
      <3>1. screen.record # NoSelection
        <4>1. Versions(screen) # <<>>
          BY <1>11 DEF Compare, Range
        <4> QED
          BY <4>1 DEF Versions, IsLoaded
      <3> QED
        BY <1>2, <3>1 DEF RecordSelection
    <2>2. PICK n \in 1 .. MaxCompares :
            comparisons' = comparisons \cup {[n |-> n, owner |-> screen.record, to |-> to]}
      BY <1>11 DEF Compare
    <2>3. comparisons' \subseteq [n : 1 .. MaxCompares, owner : Selection(Record), to : Version]
      BY <2>1, <2>2 DEF TypeOK
    <2> QED
      BY <1>4, <1>6, <1>11, <2>3 DEF Compare, Act, TypeOK
  <1>12. ASSUME NEW s \in details, NEW r \in Record \cup {None}, DetailAnswer(s, r) PROVE Typed'
    BY <1>4, <1>12 DEF DetailAnswer, Answer, TypeOK
  <1>13. ASSUME NEW s \in extents, NEW ok \in BOOLEAN, ExtentAnswer(s, ok) PROVE Typed'
    BY <1>4, <1>13 DEF ExtentAnswer, Answer, TypeOK
  <1>14. ASSUME NEW c \in comparisons, NEW ok \in BOOLEAN, CompareAnswer(c, ok) PROVE Typed'
    <2>1. c.owner \in RecordSelection
      BY DEF TypeOK, RecordSelection
    <2>2. asked' \in [place : Place \cup {None}, compared : RecordSelection]
      BY <1>14, <2>1 DEF CompareAnswer, TypeOK
    <2> QED
      BY <1>4, <1>14, <2>2 DEF CompareAnswer, Answer, TypeOK
  <1>15. CASE CatalogAnswer
    BY <1>4, <1>15 DEF CatalogAnswer, Answer, TypeOK
  <1>16. CASE Render
    <2>1. TypeOK'
      BY <1>16 DEF Render, TypeOK
    <2>2. Chain'
      BY <1>16 DEF Render, Chain, Older
    <2> QED
      BY <2>1, <2>2
  <1>17. ASSUME NEW styleLoaded \in BOOLEAN, Effects(styleLoaded) PROVE Typed'
    <2>1. details' \subseteq Selection(Record)
      <3>1. ASSUME screen.record = NoSelection PROVE ran.record = NoSelection
        BY <1>2, <3>1, SelectionFields DEF Chain, Older, NoSelection
      <3>2. details' = details \cup ({screen.record} \ {ran.record})
        BY <1>17 DEF Effects
      <3> QED
        BY <1>2, <3>1, <3>2 DEF TypeOK, RecordSelection
    <2>2. extents' \subseteq Selection(Version)
      <3>1. Due \subseteq Selection(Version)
        BY DEF Due, TypeOK, Page, VersionSelection
      <3> QED
        BY <1>17, <3>1 DEF Effects, TypeOK
    <2>3. map' \in MapState
      BY <1>17, MapTypes DEF Effects
    <2>4. TypeOK'
      BY <1>17, <2>1, <2>2, <2>3 DEF Effects, TypeOK
    <2>5. \A s \in details' : Older(s, screen.record)
      <3>1. \A s \in details : Older(s, screen.record)
        BY <1>2, OlderOrder DEF Chain
      <3>2. Older(screen.record, screen.record)
        BY DEF Older
      <3> QED
        BY <1>17, <3>1, <3>2 DEF Effects
    <2>6. Chain'
      BY <1>17, <2>5 DEF Effects, Chain, Older
    <2> QED
      BY <2>4, <2>6
  <1>18. CASE MapLoad
    <2>1. TypeOK'
      BY <1>18, MapTypes DEF MapLoad, TypeOK
    <2>2. Chain'
      BY <1>18 DEF MapLoad, Chain, Older
    <2> QED
      BY <2>1, <2>2
  <1> QED
    BY <1>7, <1>8, <1>9, <1>10, <1>11, <1>12, <1>13, <1>14, <1>15, <1>16, <1>17, <1>18
    DEF Next, DetailArrives, ExtentArrives, ComparisonArrives

LEMMA StutterTyped == ASSUME Typed, UNCHANGED vars PROVE Typed'
  BY DEF Typed, TypeOK, Chain, Older, vars

(* TypeOK always holds, and effects trail the renders that cause them.     *)
THEOREM TypeCorrect == Spec => []TypeOK
  <1>1. Typed /\ [Next]_vars => Typed'
    BY NextTyped, StutterTyped
  <1>2. Typed => TypeOK
    BY DEF Typed
  <1> QED
    BY InitTyped, <1>1, <1>2, PTL DEF Spec

-----------------------------------------------------------------------------
(* The page never mixes two selections.                                    *)

(* Until its answer arrives, a record has neither data nor an error.       *)
Awaited ==
    page.record \in details \/ page.record # ran.record => ~ IsLoaded(page) /\ ~ page.error

(* What the screen has of the page's record, the page still has.           *)
SameRecord == screen.record = page.record /\ IsLoaded(screen) => IsLoaded(page)

(* A comparison is between versions of the record it was started for.      *)
Owned == \A c \in comparisons : c.to \in Range(VersionsOf[c.owner.id])

Shown == Typed /\ Awaited /\ SameRecord /\ Owned /\ ShowsOneSelection

LEMMA SelectShows ==
  ASSUME NEW p \in Page, NEW r \in Record, ShowsOne(p)
  PROVE  ShowsOne(SelectRecord(p, r))
  <1>1. CASE p.record.id = r
    BY <1>1 DEF SelectRecord
  <1>2. CASE p.record.id # r
    <2> DEFINE q == SelectRecord(p, r)
    <2>1. /\ q.version = NoSelection /\ q.loaded.owner = NoSelection /\ q.record.generation # 0
          /\ q.rasterId = None /\ q.comparePubId = None /\ q.bbox = None
      <3>1. /\ q.record = [id |-> r, generation |-> p.serial + 1, frameRequest |-> p.frameRequest + 1]
            /\ q.version = NoSelection /\ q.loaded = NotLoaded
            /\ q.rasterId = None /\ q.comparePubId = None /\ q.bbox = None
        BY <1>2, SelectRecordPage
      <3>2. q.record.generation = p.serial + 1 /\ p.serial \in Nat
        BY <3>1 DEF Page
      <3> HIDE DEF q
      <3> QED
        BY <3>1, <3>2 DEF NotLoaded
    <2>2. ~ IsLoaded(q)
      BY <2>1 DEF IsLoaded, NoSelection
    <2>3. None \notin Version
      BY NamesAssumption
    <2> HIDE DEF q
    <2>4. ShowsOne(q)
      BY <2>1, <2>2, <2>3 DEF ShowsOne
    <2> QED
      BY <2>4 DEF q
  <1> QED
    BY <1>1, <1>2

LEMMA FocusShows ==
  ASSUME NEW p \in Page, NEW b \in Place, ShowsOne(p)
  PROVE  ShowsOne(FocusBbox(p, b))
  BY FocusBboxPage, NamesAssumption DEF ShowsOne, IsLoaded, Versions

LEMMA BeginShows ==
  ASSUME NEW p \in Page, NEW owner \in RecordSelection, NEW frame \in BOOLEAN, ShowsOne(p),
         NEW v \in Version, p.record = owner => v \in Range(Versions(p)),
         frame \/ p.bbox \notin Version
  PROVE  ShowsOne(BeginVersion(p, v, owner, frame))
  <1>1. CASE p.record # owner \/ p.version.id = v
    BY <1>1 DEF BeginVersion
  <1>2. CASE p.record = owner /\ p.version.id # v
    <2> DEFINE q == BeginVersion(p, v, owner, frame)
    <2>1. /\ q.record = p.record /\ q.loaded = p.loaded /\ q.error = p.error
          /\ q.version.id = v /\ q.rasterId = None /\ q.comparePubId = p.comparePubId
          /\ q.bbox = IF frame THEN None ELSE p.bbox
      <3>1. /\ q.record = p.record /\ q.loaded = p.loaded /\ q.error = p.error
            /\ q.version = [id |-> v, generation |-> p.serial + 1,
                            frameRequest |-> IF frame THEN p.frameRequest + 1 ELSE 0]
            /\ q.rasterId = None /\ q.comparePubId = p.comparePubId
            /\ q.bbox = IF frame THEN None ELSE p.bbox
        BY <1>2, BeginVersionPage
      <3> HIDE DEF q
      <3> QED
        BY <3>1
    <2>2. q.bbox \notin Version
      BY <2>1, NamesAssumption
    <2> HIDE DEF q
    <2>3. ShowsOne(q)
      BY <1>2, <2>1, <2>2 DEF ShowsOne, IsLoaded, Versions
    <2> QED
      BY <2>3 DEF q
  <1> QED
    BY <1>1, <1>2

LEMMA LoadShows ==
  ASSUME NEW p \in Page, NEW s \in Selection(Record), ShowsOne(p), p.record = s,
         ~ IsLoaded(p), ~ p.error
  PROVE  ShowsOne(Load(p, s, s.id))
  <1> DEFINE q == [p EXCEPT !.loaded = [owner |-> s, value |-> s.id]]
             v == Head(VersionsOf[s.id])
             frame == p.frameRequest = s.frameRequest
  <1>1. s \in RecordSelection /\ s.id \in Record /\ s # NoSelection
    BY NamesAssumption DEF RecordSelection, Selection, NoSelection
  <1>2. q \in Page
    BY <1>1, SetField
  <1>3. /\ q.record = s /\ q.loaded = [owner |-> s, value |-> s.id] /\ q.error = p.error
        /\ q.version = p.version /\ q.rasterId = p.rasterId
        /\ q.comparePubId = p.comparePubId /\ q.bbox = p.bbox
    BY DEF Page
  <1>4. p.version = NoSelection
    <2>1. Versions(p) = <<>>
      BY DEF Versions
    <2>2. Range(Versions(p)) = {}
      BY <2>1 DEF Range
    <2> QED
      BY <2>2 DEF ShowsOne
  <1>5. p.bbox \notin Version
    BY <1>4, NamesAssumption DEF ShowsOne, NoSelection
  <1> HIDE DEF q, v, frame
  <1>6. IsLoaded(q) /\ Versions(q) = VersionsOf[s.id]
    BY <1>1, <1>3 DEF IsLoaded, Versions
  <1>7. ShowsOne(q)
    BY <1>3, <1>4, <1>5, <1>6 DEF ShowsOne
  <1>8. CASE VersionsOf[s.id] = <<>>
    BY <1>7, <1>8 DEF Load, q
  <1>9. CASE VersionsOf[s.id] # <<>>
    <2>1. v \in Range(Versions(q)) /\ v \in Version
      BY <1>1, <1>6, <1>9, VersionSeq DEF v
    <2>2. ShowsOne(BeginVersion(q, v, s, frame))
      <3>1. frame \in BOOLEAN
        BY DEF frame
      <3> QED
        BY <1>1, <1>2, <1>3, <1>5, <1>7, <2>1, <3>1, BeginShows
    <2> QED
      BY <1>9, <2>2 DEF Load, q, v, frame
  <1> QED
    BY <1>8, <1>9

(* All but a record's answer leave what is loaded alone, or clear it.      *)
Calm(p, q) ==
    \/ q.record = p.record /\ q.loaded = p.loaded /\ q.error = p.error
    \/ q.record.generation = p.serial + 1 /\ ~ IsLoaded(q) /\ ~ q.error

LEMMA SelectCalm ==
  ASSUME NEW p \in Page, NEW r \in Record
  PROVE  Calm(p, SelectRecord(p, r))
  <1>1. CASE p.record.id = r
    BY <1>1 DEF SelectRecord, Calm
  <1>2. CASE p.record.id # r
    <2> DEFINE q == SelectRecord(p, r)
    <2>1. /\ q.record = [id |-> r, generation |-> p.serial + 1, frameRequest |-> p.frameRequest + 1]
          /\ q.loaded = NotLoaded /\ q.error = FALSE
      BY <1>2, SelectRecordPage
    <2>2. q.record.generation = p.serial + 1 /\ q.loaded.owner.generation = 0 /\ p.serial \in Nat
      BY <2>1 DEF NotLoaded, NoSelection, Page
    <2>3. ~ IsLoaded(q)
      BY <2>2 DEF IsLoaded
    <2> HIDE DEF q
    <2>4. Calm(p, q)
      BY <2>1, <2>2, <2>3 DEF Calm
    <2> QED
      BY <2>4 DEF q
  <1> QED
    BY <1>1, <1>2

LEMMA BeginCalm ==
  ASSUME NEW p \in Page, NEW v \in Version, NEW frame \in BOOLEAN, NEW owner \in RecordSelection
  PROVE  Calm(p, BeginVersion(p, v, owner, frame))
  <1>1. CASE p.record # owner \/ p.version.id = v
    BY <1>1 DEF BeginVersion, Calm
  <1>2. CASE p.record = owner /\ p.version.id # v
    <2>1. /\ BeginVersion(p, v, owner, frame).record = p.record
          /\ BeginVersion(p, v, owner, frame).loaded = p.loaded
          /\ BeginVersion(p, v, owner, frame).error = p.error
      BY <1>2, BeginVersionPage, ZenonT(60)
    <2> QED
      BY <2>1 DEF Calm
  <1> QED
    BY <1>1, <1>2

LEMMA FocusCalm ==
  ASSUME NEW p \in Page, NEW q \in Page, NEW b \in Place, Calm(p, q)
  PROVE  Calm(p, FocusBbox(q, b))
  BY FocusBboxPage DEF Calm, IsLoaded

LEMMA SetShows ==
  ASSUME NEW p \in Page, ShowsOne(p)
  PROVE  /\ \A x \in {None, p.version.id} :
              /\ ShowsOne([p EXCEPT !.rasterId = x]) /\ Calm(p, [p EXCEPT !.rasterId = x])
         /\ \A x \in {None, p.version.id} :
              /\ ShowsOne([p EXCEPT !.bbox = x]) /\ Calm(p, [p EXCEPT !.bbox = x])
         /\ \A x \in Range(VersionsOf[p.record.id]) \cup {None} :
              /\ ShowsOne([p EXCEPT !.comparePubId = x]) /\ Calm(p, [p EXCEPT !.comparePubId = x])
         /\ ShowsOne([p EXCEPT !.catalog = TRUE]) /\ Calm(p, [p EXCEPT !.catalog = TRUE])
         /\ ~ IsLoaded(p) => ShowsOne([p EXCEPT !.error = TRUE])
         /\ Calm(p, p)
  <1>0. None \notin Version
    BY NamesAssumption
  <1>1. ASSUME NEW x \in {None, p.version.id}
        PROVE ShowsOne([p EXCEPT !.rasterId = x]) /\ Calm(p, [p EXCEPT !.rasterId = x])
    <2> DEFINE q == [p EXCEPT !.rasterId = x]
    <2>1. /\ q.record = p.record /\ q.loaded = p.loaded /\ q.error = p.error
          /\ q.version = p.version /\ q.rasterId = x
          /\ q.comparePubId = p.comparePubId /\ q.bbox = p.bbox
      BY DEF Page
    <2> HIDE DEF q
    <2>2. ShowsOne(q) /\ Calm(p, q)
      BY <2>1 DEF ShowsOne, IsLoaded, Versions, Calm
    <2> QED
      BY <2>2 DEF q
  <1>2. ASSUME NEW x \in {None, p.version.id}
        PROVE ShowsOne([p EXCEPT !.bbox = x]) /\ Calm(p, [p EXCEPT !.bbox = x])
    <2> DEFINE q == [p EXCEPT !.bbox = x]
    <2>1. /\ q.record = p.record /\ q.loaded = p.loaded /\ q.error = p.error
          /\ q.version = p.version /\ q.rasterId = p.rasterId
          /\ q.comparePubId = p.comparePubId /\ q.bbox = x
      BY DEF Page
    <2> HIDE DEF q
    <2>2. ShowsOne(q) /\ Calm(p, q)
      BY <1>0, <2>1 DEF ShowsOne, IsLoaded, Versions, Calm
    <2> QED
      BY <2>2 DEF q
  <1>3. ASSUME NEW x \in Range(VersionsOf[p.record.id]) \cup {None}
        PROVE ShowsOne([p EXCEPT !.comparePubId = x]) /\ Calm(p, [p EXCEPT !.comparePubId = x])
    <2> DEFINE q == [p EXCEPT !.comparePubId = x]
    <2>1. /\ q.record = p.record /\ q.loaded = p.loaded /\ q.error = p.error
          /\ q.version = p.version /\ q.rasterId = p.rasterId
          /\ q.comparePubId = x /\ q.bbox = p.bbox
      BY DEF Page
    <2> HIDE DEF q
    <2>2. ShowsOne(q) /\ Calm(p, q)
      BY <2>1 DEF ShowsOne, IsLoaded, Versions, Calm
    <2> QED
      BY <2>2 DEF q
  <1>4. /\ ShowsOne([p EXCEPT !.catalog = TRUE]) /\ Calm(p, [p EXCEPT !.catalog = TRUE])
        /\ ~ IsLoaded(p) => ShowsOne([p EXCEPT !.error = TRUE])
    BY DEF Page, ShowsOne, IsLoaded, Versions, Calm
  <1> QED
    BY <1>1, <1>2, <1>3, <1>4 DEF Calm

LEMMA InitShown == Init => Shown
  <1> SUFFICES ASSUME Init PROVE Shown
    OBVIOUS
  <1>1. ~ IsLoaded(page) /\ page.error = FALSE /\ page = screen
    BY DEF Init, BlankPage, IsLoaded
  <1>2. None \notin Version
    BY NamesAssumption
  <1>3. ShowsOne(page)
    BY <1>1, <1>2 DEF ShowsOne, Init, BlankPage, IsLoaded
  <1> QED
    BY <1>1, <1>3, InitTyped DEF Shown, Awaited, SameRecord, Owned, ShowsOneSelection, Init

(* A comparison is started from the versions on the screen, and a version  *)
(* is picked among them.                                                   *)
LEMMA OnScreen ==
  ASSUME Shown
  PROVE  \A v \in Range(Versions(screen)) :
            /\ screen.record # NoSelection /\ v \in Range(VersionsOf[screen.record.id])
            /\ page.record = screen.record => v \in Range(Versions(page))
  <1> SUFFICES ASSUME NEW v \in Range(Versions(screen))
               PROVE  /\ screen.record # NoSelection /\ v \in Range(VersionsOf[screen.record.id])
                      /\ page.record = screen.record => v \in Range(Versions(page))
    OBVIOUS
  <1>1. IsLoaded(screen)
    BY DEF Versions, Range
  <1>2. screen.loaded.value = screen.record.id /\ Versions(screen) = VersionsOf[screen.record.id]
    BY <1>1 DEF Shown, ShowsOneSelection, ShowsOne, Versions
  <1>3. ASSUME page.record = screen.record PROVE Versions(page) = VersionsOf[screen.record.id]
    BY <1>1, <1>3 DEF Shown, SameRecord, ShowsOneSelection, ShowsOne, Versions
  <1> QED
    BY <1>1, <1>2, <1>3 DEF IsLoaded

LEMMA CalmStep ==
  ASSUME Shown, Next, UNCHANGED <<screen, ran>>, details' \subseteq details, Owned',
         Calm(page, page'), ShowsOne(page')
  PROVE  Shown'
  <1>1. Typed'
    BY NextTyped DEF Shown
  <1>2. Awaited'
    BY DEF Shown, Awaited, Calm, IsLoaded
  <1>3. SameRecord'
    <2>1. CASE page'.record = page.record /\ page'.loaded = page.loaded
      BY <2>1 DEF Shown, SameRecord, IsLoaded
    <2>2. CASE page'.record.generation = page.serial + 1
      <3>1. /\ page.serial \in Nat /\ screen.record.generation \in Nat
            /\ page.record.generation \in Nat
        BY SelectionFields DEF Shown, Typed, TypeOK, Page
      <3>2. screen.record.generation <= page.serial
        BY <3>1 DEF Shown, Typed, Chain, Older
      <3> QED
        BY <2>2, <3>1, <3>2 DEF SameRecord
    <2> QED
      BY <2>1, <2>2 DEF Calm
  <1> QED
    BY <1>1, <1>2, <1>3 DEF Shown, ShowsOneSelection

LEMMA NextShown == ASSUME Shown, Next PROVE Shown'
  <1>0. /\ page \in Page /\ screen \in Page /\ ran \in Page /\ ShowsOne(page)
        /\ details \subseteq Selection(Record) /\ extents \subseteq Selection(Version)
        /\ comparisons \subseteq [n : 1 .. MaxCompares, owner : Selection(Record), to : Version]
    BY DEF Shown, Typed, TypeOK, ShowsOneSelection
  <1>1. ASSUME comparisons' \subseteq comparisons PROVE Owned'
    BY <1>1 DEF Shown, Owned
  <1>2. ASSUME NEW r \in Record, PickRecord(r) PROVE Shown'
    <2>1. Calm(page, page') /\ ShowsOne(page')
      BY <1>0, <1>2, SelectShows, SelectCalm DEF PickRecord
    <2> QED
      BY <1>1, <1>2, <2>1, CalmStep DEF PickRecord, Act
  <1>3. ASSUME NEW r \in Record \cup {None}, NEW b \in Place, PickPlace(r, b) PROVE Shown'
    <2> DEFINE q == IF r = None THEN page ELSE SelectRecord(page, r)
    <2>1. q \in Page /\ ShowsOne(q) /\ Calm(page, q)
      <3>1. CASE r = None
        BY <1>0, <3>1 DEF Calm
      <3>2. CASE r # None
        BY <1>0, <3>2, SelectShows, SelectCalm, SelectFollows DEF Follows
      <3> QED
        BY <3>1, <3>2
    <2>2. page' = FocusBbox(q, b)
      BY <1>3 DEF PickPlace
    <2> HIDE DEF q
    <2>3. Calm(page, page') /\ ShowsOne(page')
      BY <1>0, <2>1, <2>2, FocusShows, FocusCalm
    <2> QED
      BY <1>1, <1>3, <2>3, CalmStep DEF PickPlace, Act
  <1>4. ASSUME NEW v \in Version, PickVersion(v) PROVE Shown'
    <2>1. page.record = screen.record => v \in Range(Versions(page))
      BY <1>4, OnScreen DEF PickVersion
    <2>2. screen.record \in RecordSelection
      BY <1>0 DEF Page
    <2>3. Calm(page, page') /\ ShowsOne(page')
      BY <1>0, <1>4, <2>1, <2>2, BeginShows, BeginCalm DEF PickVersion
    <2> QED
      BY <1>1, <1>4, <2>3, CalmStep DEF PickVersion, Act
  <1>5. ASSUME NEW on \in BOOLEAN, ToggleRaster(on) PROVE Shown'
    <2>1. Calm(page, page') /\ ShowsOne(page')
      BY <1>0, <1>5, SetShows DEF ToggleRaster
    <2> QED
      BY <1>1, <1>5, <2>1, CalmStep DEF ToggleRaster, Act
  <1>6. ASSUME NEW from \in Version, NEW to \in Version, Compare(from, to) PROVE Shown'
    <2>1. to \in Range(VersionsOf[screen.record.id])
      BY <1>6, OnScreen DEF Compare
    <2>2. PICK n \in 1 .. MaxCompares :
            comparisons' = comparisons \cup {[n |-> n, owner |-> screen.record, to |-> to]}
      BY <1>6 DEF Compare
    <2>3. Owned'
      BY <2>1, <2>2 DEF Shown, Owned
    <2>4. Calm(page, page') /\ ShowsOne(page')
      BY <1>0, <1>6, SetShows DEF Compare
    <2> QED
      BY <1>6, <2>3, <2>4, CalmStep DEF Compare, Act
  <1>7. ASSUME NEW s \in details, NEW r \in Record \cup {None}, DetailAnswer(s, r) PROVE Shown'
    <2>1. UNCHANGED <<screen, ran, comparisons>> /\ details' = details \ {s}
      BY <1>7 DEF DetailAnswer, Answer
    <2>2. CASE ~ Listens(s)
      <3>1. page' = page
        BY <1>7, <2>2 DEF DetailAnswer
      <3> QED
        BY <1>0, <1>1, <2>1, <3>1, SetShows, CalmStep
    <2>3. CASE Listens(s)
      <3>1. page.record = s /\ ran.record = s /\ ~ IsLoaded(page) /\ ~ page.error
        BY <2>3 DEF Listens, Shown, Awaited
      <3>2. s \in Selection(Record) /\ s \in RecordSelection
        BY <1>0 DEF RecordSelection
      <3>3. ShowsOne(page') /\ page'.record = s
        <4>1. CASE r = s.id
          <5>1. page' = Load(page, s, s.id)
            BY <1>7, <2>3, <4>1 DEF DetailAnswer
          <5>2. page'.record = s
            <6> DEFINE q == [page EXCEPT !.loaded = [owner |-> s, value |-> s.id]]
                       frame == page.frameRequest = s.frameRequest
            <6>1. s.id \in Record
              BY <3>2 DEF Selection
            <6>2. q \in Page /\ q.record = s
              BY <1>0, <3>1, <3>2, <6>1, SetField DEF Page
            <6>3. frame \in BOOLEAN
              OBVIOUS
            <6> HIDE DEF q, frame
            <6>4. \A v \in Version : BeginVersion(q, v, s, frame).record = s
              BY <3>2, <6>2, <6>3, BeginFollows
            <6>5. CASE VersionsOf[s.id] = <<>>
              BY <5>1, <6>2, <6>5 DEF Load, q
            <6>6. CASE VersionsOf[s.id] # <<>>
              <7>1. Head(VersionsOf[s.id]) \in Version
                BY <6>1, <6>6, VersionSeq
              <7>2. page' = BeginVersion(q, Head(VersionsOf[s.id]), s, frame)
                BY <5>1, <6>6 DEF Load, q, frame
              <7> QED
                BY <6>4, <7>1, <7>2
            <6> QED
              BY <6>5, <6>6
          <5> QED
            BY <1>0, <3>1, <3>2, <5>1, <5>2, LoadShows
        <4>2. CASE r # s.id
          <5>1. page' = [page EXCEPT !.error = TRUE]
            BY <1>7, <2>3, <3>1, <4>2 DEF DetailAnswer, Fail
          <5>2. page'.record = s
            BY <1>0, <3>1, <5>1 DEF Page
          <5> QED
            BY <1>0, <3>1, <5>1, <5>2, SetShows
        <4> QED
          BY <4>1, <4>2
      <3>4. Awaited'
        BY <2>1, <3>1, <3>3 DEF Awaited
      <3>5. SameRecord'
        BY <2>1, <3>1, <3>3 DEF SameRecord, Shown
      <3> QED
        BY <1>1, <2>1, <3>3, <3>4, <3>5, NextTyped DEF Shown, ShowsOneSelection
    <2> QED
      BY <2>2, <2>3
  <1>8. ASSUME NEW s \in extents, NEW ok \in BOOLEAN, ExtentAnswer(s, ok) PROVE Shown'
    <2>1. CASE Frames(s)
      <3>1. page' = [page EXCEPT !.bbox = IF ok THEN page.version.id ELSE None]
        BY <1>8, <2>1 DEF ExtentAnswer, Frames
      <3> QED
        BY <1>0, <1>1, <1>8, <3>1, SetShows, CalmStep DEF ExtentAnswer, Answer
    <2>2. CASE ~ Frames(s)
      BY <1>0, <1>1, <1>8, <2>2, SetShows, CalmStep DEF ExtentAnswer, Answer
    <2> QED
      BY <2>1, <2>2
  <1>9. ASSUME NEW c \in comparisons, NEW ok \in BOOLEAN, CompareAnswer(c, ok) PROVE Shown'
    <2>1. Calm(page, page') /\ ShowsOne(page')
      <3>1. CASE ok /\ Accepts(c.owner)
        <4>1. c.to \in Range(VersionsOf[page.record.id])
          BY <3>1 DEF Accepts, Shown, Owned
        <4>2. page' = [page EXCEPT !.comparePubId = IF c.to \in Published THEN c.to ELSE None]
          BY <1>9, <3>1 DEF CompareAnswer
        <4> QED
          BY <1>0, <4>1, <4>2, SetShows
      <3>2. CASE ~ (ok /\ Accepts(c.owner))
        BY <1>0, <1>9, <3>2, SetShows DEF CompareAnswer
      <3> QED
        BY <3>1, <3>2
    <2> QED
      BY <1>1, <1>9, <2>1, CalmStep DEF CompareAnswer, Answer
  <1>10. CASE CatalogAnswer
    <2>1. Calm(page, page') /\ ShowsOne(page')
      BY <1>0, <1>10, SetShows DEF CatalogAnswer
    <2> QED
      BY <1>1, <1>10, <2>1, CalmStep DEF CatalogAnswer, Answer
  <1>11. CASE Render
    <2>1. UNCHANGED <<page, ran, details, comparisons>> /\ screen' = page
      BY <1>11 DEF Render
    <2> QED
      BY <2>1, NextTyped
      DEF Shown, Awaited, SameRecord, Owned, ShowsOneSelection, ShowsOne, IsLoaded, Versions
  <1>12. ASSUME NEW styleLoaded \in BOOLEAN, Effects(styleLoaded) PROVE Shown'
    <2>1. /\ UNCHANGED <<page, screen, comparisons>> /\ ran' = screen
          /\ details' = details \cup ({screen.record} \ {ran.record})
      BY <1>12 DEF Effects
    <2>2. Awaited'
      <3>1. CASE page.record \in details \/ page.record # ran.record
        BY <2>1, <3>1 DEF Shown, Awaited, IsLoaded
      <3>2. CASE page.record = ran.record /\ page.record \notin details
        <4>1. screen.record = page.record
          BY <1>0, <3>2, OlderOrder DEF Shown, Typed, Chain, Page
        <4> QED
          BY <2>1, <3>2, <4>1 DEF Awaited
      <3> QED
        BY <3>1, <3>2
    <2> QED
      BY <1>1, <2>1, <2>2, NextTyped
      DEF Shown, SameRecord, ShowsOneSelection, ShowsOne, IsLoaded, Versions
  <1>13. CASE MapLoad
    BY <1>0, <1>1, <1>13, SetShows, CalmStep DEF MapLoad
  <1> QED
    BY <1>2, <1>3, <1>4, <1>5, <1>6, <1>7, <1>8, <1>9, <1>10, <1>11, <1>12, <1>13
    DEF Next, DetailArrives, ExtentArrives, ComparisonArrives

LEMMA StutterShown == ASSUME Shown, UNCHANGED vars PROVE Shown'
  BY StutterTyped
  DEF Shown, Awaited, SameRecord, Owned, ShowsOneSelection, ShowsOne, IsLoaded, Versions, vars

(* Whatever answers arrive late, versions, version, scan, bounds, error    *)
(* and comparison are those of the record that is shown.                   *)
THEOREM OneSelection == Spec => []ShowsOneSelection
  <1>1. Shown /\ [Next]_vars => Shown'
    BY NextShown, StutterShown
  <1>2. Shown => ShowsOneSelection
    BY DEF Shown
  <1> QED
    BY InitShown, <1>1, <1>2, PTL DEF Spec

-----------------------------------------------------------------------------
(* The map goes where the user asked last.                                 *)

FramesBounded ==
    /\ page.record.frameRequest <= page.frameRequest
    /\ page.version.frameRequest <= page.frameRequest

(* A place outdates the framing of what was selected before it.            *)
PlaceKept ==
    asked.place # None => /\ page.bbox = asked.place
                          /\ page.record.frameRequest # page.frameRequest
                          /\ page.version.frameRequest # page.frameRequest

CameraFollows == ran.bbox # None => map.camera = ran.bbox

Placed == Typed /\ FramesBounded /\ PlaceKept /\ CameraFollows

(* What a step may do to the framing when it is no new wish.               *)
KeepsFrames(p, q) ==
    /\ q.frameRequest = p.frameRequest /\ q.bbox = p.bbox
    /\ q.record = p.record
    /\ q.version = p.version \/ q.version.frameRequest = 0

LEMMA InitPlaced == Init => Placed
  BY InitTyped DEF Placed, FramesBounded, PlaceKept, CameraFollows, Init, BlankPage, BlankMap, NoSelection

LEMMA BeginFrames ==
  ASSUME NEW p \in Page, NEW v \in Version, NEW frame \in BOOLEAN, NEW owner \in RecordSelection,
         p.record.frameRequest <= p.frameRequest, p.version.frameRequest <= p.frameRequest
  PROVE  /\ BeginVersion(p, v, owner, frame).record.frameRequest
              <= BeginVersion(p, v, owner, frame).frameRequest
         /\ BeginVersion(p, v, owner, frame).version.frameRequest
              <= BeginVersion(p, v, owner, frame).frameRequest
         /\ ~ frame => KeepsFrames(p, BeginVersion(p, v, owner, frame))
  <1>0. p.frameRequest \in Nat /\ p.record.frameRequest \in Nat
    BY SelectionFields DEF Page
  <1>1. CASE p.record # owner \/ p.version.id = v
    BY <1>1 DEF BeginVersion, KeepsFrames
  <1>2. CASE p.record = owner /\ p.version.id # v
    <2> DEFINE q == BeginVersion(p, v, owner, frame)
    <2>1. /\ q.record = p.record
          /\ q.frameRequest = IF frame THEN p.frameRequest + 1 ELSE p.frameRequest
          /\ q.version = [id |-> v, generation |-> p.serial + 1,
                          frameRequest |-> IF frame THEN p.frameRequest + 1 ELSE 0]
          /\ q.bbox = IF frame THEN None ELSE p.bbox
      BY <1>2, BeginVersionPage
    <2> HIDE DEF q
    <2>2. q.version.frameRequest = IF frame THEN p.frameRequest + 1 ELSE 0
      BY <2>1
    <2>3. /\ q.record.frameRequest <= q.frameRequest /\ q.version.frameRequest <= q.frameRequest
          /\ ~ frame => KeepsFrames(p, q)
      BY <1>0, <2>1, <2>2 DEF KeepsFrames
    <2> QED
      BY <2>3 DEF q
  <1> QED
    BY <1>1, <1>2

LEMMA SelectFrames ==
  ASSUME NEW p \in Page, NEW r \in Record,
         p.record.frameRequest <= p.frameRequest, p.version.frameRequest <= p.frameRequest
  PROVE  /\ SelectRecord(p, r).record.frameRequest <= SelectRecord(p, r).frameRequest
         /\ SelectRecord(p, r).version.frameRequest <= SelectRecord(p, r).frameRequest
  <1>1. CASE p.record.id = r
    BY <1>1 DEF SelectRecord
  <1>2. CASE p.record.id # r
    <2> DEFINE q == SelectRecord(p, r)
    <2>1. /\ q.record = [id |-> r, generation |-> p.serial + 1, frameRequest |-> p.frameRequest + 1]
          /\ q.version = NoSelection /\ q.frameRequest = p.frameRequest + 1
      BY <1>2, SelectRecordPage
    <2> HIDE DEF q
    <2>2. /\ q.record.frameRequest = p.frameRequest + 1 /\ q.version.frameRequest = 0
          /\ p.frameRequest \in Nat
      BY <2>1 DEF NoSelection, Page
    <2>3. q.record.frameRequest <= q.frameRequest /\ q.version.frameRequest <= q.frameRequest
      BY <2>1, <2>2
    <2> QED
      BY <2>3 DEF q
  <1> QED
    BY <1>1, <1>2

(* Answers that are too late for the camera.                               *)
LEMMA KeepStep ==
  ASSUME Placed, Next, KeepsFrames(page, page'), UNCHANGED <<ran, map>>, asked'.place = asked.place
  PROVE  Placed'
  <1>1. Typed'
    BY NextTyped DEF Placed
  <1>2. /\ page.frameRequest \in Nat /\ page.record.frameRequest \in Nat
        /\ page'.record.frameRequest = page.record.frameRequest
        /\ page'.version.frameRequest \in {page.version.frameRequest, 0}
    BY SelectionFields DEF KeepsFrames, Placed, Typed, TypeOK, Page
  <1>3. FramesBounded' /\ PlaceKept'
    BY <1>2 DEF Placed, FramesBounded, PlaceKept, KeepsFrames
  <1> QED
    BY <1>1, <1>3 DEF Placed, CameraFollows

LEMMA DrawCamera ==
  ASSUME TypeOK
  PROVE  /\ \A styleLoaded \in BOOLEAN : MapEffects(styleLoaded).camera =
                IF screen.bbox \notin {ran.bbox, None} THEN screen.bbox ELSE map.camera
         /\ [Draw(map, map.waiting, ran) EXCEPT !.loaded = TRUE, !.waiting = {}].camera = map.camera
  BY DEF MapEffects, Draw, TypeOK, MapState

LEMMA NextPlaced == ASSUME Placed, Next PROVE Placed'
  <1>0. /\ page \in Page /\ screen \in Page
        /\ page.record.frameRequest <= page.frameRequest
        /\ page.version.frameRequest <= page.frameRequest
        /\ asked \in [place : Place \cup {None}, compared : RecordSelection]
    BY DEF Placed, Typed, TypeOK, FramesBounded
  <1>1. Typed'
    BY NextTyped DEF Placed
  <1>2. ASSUME NewWish(page' # page), UNCHANGED <<ran, map>>, FramesBounded' PROVE Placed'
    <2>1. CASE page' = page
      <3>1. asked'.place = asked.place
        BY <1>0, <1>2, <2>1 DEF NewWish
      <3> QED
        BY <1>1, <1>2, <2>1, <3>1 DEF Placed, PlaceKept, CameraFollows
    <2>2. CASE page' # page
      <3>1. asked'.place = None
        BY <1>0, <1>2, <2>2 DEF NewWish
      <3> QED
        BY <1>1, <1>2, <3>1 DEF Placed, PlaceKept, CameraFollows
    <2> QED
      BY <2>1, <2>2
  <1>3. ASSUME NEW r \in Record, PickRecord(r) PROVE Placed'
    <2>1. FramesBounded'
      BY <1>0, <1>3, SelectFrames DEF PickRecord, FramesBounded
    <2> QED
      BY <1>2, <1>3, <2>1 DEF PickRecord, Act
  <1>4. ASSUME NEW r \in Record \cup {None}, NEW b \in Place, PickPlace(r, b) PROVE Placed'
    <2> DEFINE q == IF r = None THEN page ELSE SelectRecord(page, r)
    <2>1. /\ q \in Page
          /\ q.record.frameRequest <= q.frameRequest /\ q.version.frameRequest <= q.frameRequest
      <3>1. CASE r = None
        BY <1>0, <3>1
      <3>2. CASE r # None
        BY <1>0, <3>2, SelectFrames, SelectFollows DEF Follows
      <3> QED
        BY <3>1, <3>2
    <2>2. page' = FocusBbox(q, b)
      BY <1>4 DEF PickPlace
    <2> HIDE DEF q
    <2>3. /\ page'.bbox = b /\ page'.frameRequest = q.frameRequest + 1
          /\ page'.record = q.record /\ page'.version = q.version
      BY <2>1, <2>2, FocusBboxPage
    <2>4. q.frameRequest \in Nat /\ q.record.frameRequest \in Nat /\ q.version.frameRequest \in Nat
      BY <2>1, SelectionFields DEF Page
    <2>5. asked'.place = b /\ UNCHANGED <<ran, map>>
      BY <1>0, <1>4 DEF PickPlace, Act
    <2>6. FramesBounded' /\ PlaceKept'
      BY <2>1, <2>3, <2>4, <2>5 DEF FramesBounded, PlaceKept
    <2> QED
      BY <1>1, <2>5, <2>6 DEF Placed, CameraFollows
  <1>5. ASSUME NEW v \in Version, PickVersion(v) PROVE Placed'
    <2>1. screen.record \in RecordSelection
      BY <1>0 DEF Page
    <2>2. FramesBounded'
      BY <1>0, <1>5, <2>1, BeginFrames DEF PickVersion, FramesBounded
    <2> QED
      BY <1>2, <1>5, <2>2 DEF PickVersion, Act
  <1>6. ASSUME NEW on \in BOOLEAN, ToggleRaster(on) PROVE Placed'
    <2>1. KeepsFrames(page, page')
      BY <1>0, <1>6 DEF ToggleRaster, KeepsFrames, Page
    <2> QED
      BY <1>6, <2>1, KeepStep DEF ToggleRaster, Act
  <1>7. ASSUME NEW from \in Version, NEW to \in Version, Compare(from, to) PROVE Placed'
    <2>1. KeepsFrames(page, page')
      BY <1>7 DEF Compare, KeepsFrames
    <2> QED
      BY <1>7, <2>1, KeepStep DEF Compare, Act
  <1>8. ASSUME NEW s \in details, NEW r \in Record \cup {None}, DetailAnswer(s, r) PROVE Placed'
    <2>1. UNCHANGED <<ran, map, asked>>
      BY <1>8 DEF DetailAnswer, Answer
    <2>2. CASE ~ Listens(s) \/ r # s.id
      <3>1. KeepsFrames(page, page')
        BY <1>0, <1>8, <2>2 DEF DetailAnswer, Fail, KeepsFrames, Page
      <3> QED
        BY <2>1, <3>1, KeepStep
    <2>3. CASE Listens(s) /\ r = s.id
      <3> DEFINE q == [page EXCEPT !.loaded = [owner |-> s, value |-> s.id]]
                 v == Head(VersionsOf[s.id])
                 frame == page.frameRequest = s.frameRequest
      <3>1. s = page.record /\ s \in RecordSelection /\ s.id \in Record
        BY <2>3 DEF Listens, Placed, Typed, TypeOK, RecordSelection, Selection
      <3>2. page' = Load(page, s, s.id)
        BY <1>8, <2>3 DEF DetailAnswer
      <3>3. q \in Page
        BY <1>0, <3>1, SetField
      <3>4. /\ q.frameRequest = page.frameRequest /\ q.record = page.record
            /\ q.version = page.version /\ q.bbox = page.bbox
        BY <1>0 DEF Page
      <3>5. frame \in BOOLEAN
        OBVIOUS
      <3>6. asked.place # None => ~ frame
        BY <3>1 DEF Placed, PlaceKept
      <3> HIDE DEF q, v, frame
      <3>7. CASE VersionsOf[s.id] = <<>>
        <4>1. page' = q
          BY <3>2, <3>7 DEF Load, q
        <4>2. KeepsFrames(page, page')
          BY <3>4, <4>1 DEF KeepsFrames
        <4> QED
          BY <2>1, <4>2, KeepStep
      <3>8. CASE VersionsOf[s.id] # <<>>
        <4>1. page' = BeginVersion(q, v, s, frame)
          BY <3>2, <3>8 DEF Load, q, v, frame
        <4>2. v \in Version
          BY <3>1, <3>8, VersionSeq DEF v
        <4>3. FramesBounded' /\ (~ frame => KeepsFrames(q, page'))
          BY <1>0, <3>1, <3>3, <3>4, <3>5, <4>1, <4>2, BeginFrames DEF FramesBounded
        <4>4. CASE frame
          BY <1>1, <2>1, <3>6, <4>3, <4>4 DEF Placed, PlaceKept, CameraFollows
        <4>5. CASE ~ frame
          <5>1. KeepsFrames(page, page')
            BY <3>4, <4>3, <4>5 DEF KeepsFrames
          <5> QED
            BY <2>1, <5>1, KeepStep
        <4> QED
          BY <4>4, <4>5
      <3> QED
        BY <3>7, <3>8
    <2> QED
      BY <2>2, <2>3
  <1>9. ASSUME NEW s \in extents, NEW ok \in BOOLEAN, ExtentAnswer(s, ok) PROVE Placed'
    <2>1. UNCHANGED <<ran, map, asked>>
      BY <1>9 DEF ExtentAnswer, Answer
    <2>2. CASE Frames(s)
      <3>1. asked.place = None
        BY <2>2 DEF Frames, Placed, PlaceKept
      <3>2. FramesBounded'
        BY <1>0, <1>9, <2>2 DEF ExtentAnswer, FramesBounded, Page
      <3> QED
        BY <1>1, <2>1, <3>1, <3>2 DEF Placed, PlaceKept, CameraFollows
    <2>3. CASE ~ Frames(s)
      <3>1. KeepsFrames(page, page')
        BY <1>9, <2>3 DEF ExtentAnswer, KeepsFrames
      <3> QED
        BY <2>1, <3>1, KeepStep
    <2> QED
      BY <2>2, <2>3
  <1>10. ASSUME NEW c \in comparisons, NEW ok \in BOOLEAN, CompareAnswer(c, ok) PROVE Placed'
    <2>1. KeepsFrames(page, page') /\ asked'.place = asked.place
      BY <1>0, <1>10 DEF CompareAnswer, KeepsFrames, Page
    <2> QED
      BY <1>10, <2>1, KeepStep DEF CompareAnswer, Answer
  <1>11. CASE CatalogAnswer
    <2>1. KeepsFrames(page, page')
      BY <1>0, <1>11 DEF CatalogAnswer, KeepsFrames, Page
    <2> QED
      BY <1>11, <2>1, KeepStep DEF CatalogAnswer, Answer
  <1>12. CASE Render
    BY <1>1, <1>12 DEF Render, Placed, FramesBounded, PlaceKept, CameraFollows
  <1>13. ASSUME NEW styleLoaded \in BOOLEAN, Effects(styleLoaded) PROVE Placed'
    <2>1. CameraFollows'
      BY <1>13, DrawCamera DEF Effects, CameraFollows, Placed, Typed
    <2> QED
      BY <1>1, <1>13, <2>1 DEF Effects, Placed, FramesBounded, PlaceKept
  <1>14. CASE MapLoad
    <2>1. CameraFollows'
      BY <1>14, DrawCamera DEF MapLoad, CameraFollows, Placed, Typed
    <2> QED
      BY <1>1, <1>14, <2>1 DEF MapLoad, Placed, FramesBounded, PlaceKept
  <1> QED
    BY <1>3, <1>4, <1>5, <1>6, <1>7, <1>8, <1>9, <1>10, <1>11, <1>12, <1>13, <1>14
    DEF Next, DetailArrives, ExtentArrives, ComparisonArrives

(* No extent, requested or due before the user asked for a place, moves    *)
(* the map away from it, nor keeps it from going there.                    *)
THEOREM PlaceStands == Spec => []LastPlaceWins
  <1>1. Placed /\ UNCHANGED vars => Placed'
    BY StutterTyped DEF Placed, FramesBounded, PlaceKept, CameraFollows, vars
  <1>2. Placed /\ [Next]_vars => Placed'
    BY <1>1, NextPlaced
  <1>3. Placed => LastPlaceWins
    BY NamesAssumption DEF Placed, PlaceKept, CameraFollows, LastPlaceWins
  <1> QED
    BY InitPlaced, <1>2, <1>3, PTL DEF Spec

-----------------------------------------------------------------------------
(* The map and the comparison.                                             *)

(* What does not wait for the map has been drawn.                          *)
Drawn ==
    /\ map.loaded => map.waiting = {}
    /\ "layers" \notin map.waiting => <<map.main, map.compare>> = MapShows(ran)
    /\ "raster" \notin map.waiting => map.raster = ran.rasterId

LEMMA DrawParts ==
  ASSUME TypeOK, NEW parts, NEW p
  PROVE  LET m == Draw(map, parts, p)
         IN  /\ m.loaded = map.loaded /\ m.waiting = map.waiting /\ m.camera = map.camera
             /\ m.main = IF "layers" \in parts THEN PubId(p) ELSE map.main
             /\ m.compare = IF "layers" \in parts THEN Overlay(p) ELSE map.compare
             /\ m.raster = IF "raster" \in parts THEN p.rasterId ELSE map.raster
             /\ DOMAIN m = DOMAIN map
  BY DEF Draw, TypeOK, MapState

LEMMA EffectsDraw ==
  ASSUME Typed, Drawn, NEW styleLoaded \in BOOLEAN, Effects(styleLoaded)
  PROVE  Drawn'
  <1> DEFINE changed == {x \in {"layers", "raster"} :
                           \/ x = "layers" /\ Layers(screen) # Layers(ran)
                           \/ x = "raster" /\ screen.rasterId # ran.rasterId}
             now == IF CanDraw(styleLoaded) THEN changed ELSE {}
             m == Draw(map, now, screen)
  <1>1. map' = [m EXCEPT !.waiting = (@ \ changed) \cup (changed \ now),
                         !.camera = IF screen.bbox \notin {ran.bbox, None} THEN screen.bbox ELSE @]
    BY DEF Effects, MapEffects
  <1>2. /\ m.loaded = map.loaded /\ m.waiting = map.waiting /\ DOMAIN m = DOMAIN map
        /\ m.main = IF "layers" \in now THEN PubId(screen) ELSE map.main
        /\ m.compare = IF "layers" \in now THEN Overlay(screen) ELSE map.compare
        /\ m.raster = IF "raster" \in now THEN screen.rasterId ELSE map.raster
    BY DrawParts DEF Typed
  <1>3. /\ now \subseteq changed /\ (map.loaded => now = changed)
        /\ "layers" \in changed <=> Layers(screen) # Layers(ran)
        /\ "raster" \in changed <=> screen.rasterId # ran.rasterId
    BY DEF CanDraw
  <1>4. /\ MapShows(screen) = <<PubId(screen), Overlay(screen)>>
        /\ Layers(screen) = Layers(ran) => MapShows(screen) = MapShows(ran)
    BY DEF Layers, MapShows, Overlay
  <1>5. DOMAIN map = {"loaded", "waiting", "main", "compare", "raster", "camera"}
    BY DEF Typed, TypeOK, MapState
  <1>6. ran' = screen /\ MapShows(ran)' = MapShows(screen)
    BY DEF Effects, MapShows, Overlay, PubId
  <1> HIDE DEF changed, now, m
  <1>7. /\ map'.loaded = map.loaded /\ map'.waiting = (map.waiting \ changed) \cup (changed \ now)
        /\ map'.main = m.main /\ map'.compare = m.compare /\ map'.raster = m.raster
    BY <1>1, <1>2, <1>5
  <1>8. map'.loaded => map'.waiting = {}
    BY <1>3, <1>7 DEF Drawn
  <1>9. "layers" \notin map'.waiting => <<map'.main, map'.compare>> = MapShows(screen)
    <2>1. CASE "layers" \in now
      BY <1>2, <1>4, <1>7, <2>1
    <2>2. CASE "layers" \notin now /\ "layers" \in changed
      BY <1>7, <2>2
    <2>3. CASE "layers" \notin changed
      <3>1. map'.main = map.main /\ map'.compare = map.compare
        BY <1>2, <1>3, <1>7, <2>3
      <3>2. MapShows(screen) = MapShows(ran)
        BY <1>3, <1>4, <2>3
      <3> QED
        BY <1>7, <2>3, <3>1, <3>2 DEF Drawn
    <2> QED
      BY <2>1, <2>2, <2>3
  <1>10. "raster" \notin map'.waiting => map'.raster = screen.rasterId
    BY <1>2, <1>3, <1>7 DEF Drawn
  <1> QED
    BY <1>6, <1>8, <1>9, <1>10 DEF Drawn

LEMMA LoadDraws ==
  ASSUME Typed, Drawn, MapLoad
  PROVE  Drawn'
  <1> DEFINE m == Draw(map, map.waiting, ran)
  <1>1. map' = [m EXCEPT !.loaded = TRUE, !.waiting = {}] /\ ran' = ran
    BY DEF MapLoad
  <1>2. /\ DOMAIN m = DOMAIN map
        /\ m.main = IF "layers" \in map.waiting THEN PubId(ran) ELSE map.main
        /\ m.compare = IF "layers" \in map.waiting THEN Overlay(ran) ELSE map.compare
        /\ m.raster = IF "raster" \in map.waiting THEN ran.rasterId ELSE map.raster
    BY DrawParts DEF Typed
  <1>3. DOMAIN map = {"loaded", "waiting", "main", "compare", "raster", "camera"}
    BY DEF Typed, TypeOK, MapState
  <1> HIDE DEF m
  <1>4. /\ map'.waiting = {} /\ map'.main = m.main /\ map'.compare = m.compare
        /\ map'.raster = m.raster
    BY <1>1, <1>2, <1>3
  <1>5. <<m.main, m.compare>> = MapShows(ran) /\ m.raster = ran.rasterId
    <2>1. CASE "layers" \in map.waiting
      BY <1>2, <2>1 DEF MapShows, Drawn
    <2>2. CASE "layers" \notin map.waiting
      BY <1>2, <2>2 DEF Drawn
    <2> QED
      BY <1>2, <2>1, <2>2 DEF Drawn
  <1>6. MapShows(ran)' = MapShows(ran)
    BY <1>1 DEF MapShows, Overlay, PubId
  <1> QED
    BY <1>1, <1>4, <1>5, <1>6 DEF Drawn

LEMMA OthersDraw ==
  ASSUME Drawn, UNCHANGED <<map, ran>>
  PROVE  Drawn'
  BY DEF Drawn, MapShows, Overlay, PubId

(* Once it has loaded, the map shows the layers of the latest effects,     *)
(* whatever isStyleLoaded said when they ran.                              *)
THEOREM MapIsCurrent == Spec => []MapFollowsEffects
  <1>1. Init => Drawn
    BY DEF Init, Drawn, BlankMap, BlankPage, MapShows, Overlay, PubId
  <1>2. ASSUME Typed, Drawn, [Next]_vars PROVE Drawn'
    <2>1. CASE UNCHANGED vars
      BY <1>2, <2>1, OthersDraw DEF vars
    <2>2. ASSUME NEW styleLoaded \in BOOLEAN, Effects(styleLoaded) PROVE Drawn'
      BY <1>2, <2>2, EffectsDraw
    <2>3. CASE MapLoad
      BY <1>2, <2>3, LoadDraws
    <2>4. CASE \/ \E r \in Record : PickRecord(r)
               \/ \E r \in Record \cup {None} : \E b \in Place : PickPlace(r, b)
               \/ \E v \in Version : PickVersion(v)
               \/ \E on \in BOOLEAN : ToggleRaster(on)
               \/ \E from, to \in Version : Compare(from, to)
      BY <1>2, <2>4, OthersDraw DEF PickRecord, PickPlace, PickVersion, ToggleRaster, Compare, Act
    <2>5. CASE DetailArrives \/ ExtentArrives \/ ComparisonArrives \/ CatalogAnswer \/ Render
      BY <1>2, <2>5, OthersDraw
      DEF DetailArrives, ExtentArrives, ComparisonArrives, DetailAnswer, ExtentAnswer,
          CompareAnswer, CatalogAnswer, Answer, Render
    <2> QED
      BY <1>2, <2>1, <2>2, <2>3, <2>4, <2>5 DEF Next
  <1>3. Drawn => MapFollowsEffects
    BY DEF Drawn, MapFollowsEffects
  <1>4. Typed /\ Drawn /\ [Next]_vars => Typed' /\ Drawn'
    BY <1>2, NextTyped, StutterTyped
  <1> QED
    BY InitTyped, <1>1, <1>3, <1>4, PTL DEF Spec

LEMMA OverlayKept ==
  ASSUME NEW p \in Page
  PROVE  /\ \A r \in Record :
              \/ SelectRecord(p, r) = p
              \/ /\ SelectRecord(p, r).record # p.record
                 /\ SelectRecord(p, r).comparePubId = None
         /\ \A v \in Version, owner \in RecordSelection, frame \in BOOLEAN :
              BeginVersion(p, v, owner, frame).comparePubId = p.comparePubId
         /\ \A r \in Record, owner \in RecordSelection :
              Load(p, owner, r).comparePubId = p.comparePubId
  <1>1. ASSUME NEW r \in Record
        PROVE  \/ SelectRecord(p, r) = p
               \/ /\ SelectRecord(p, r).record # p.record
                  /\ SelectRecord(p, r).comparePubId = None
    <2>1. CASE p.record.id = r
      BY <2>1 DEF SelectRecord
    <2>2. CASE p.record.id # r
      <3>1. /\ SelectRecord(p, r).comparePubId = None
            /\ SelectRecord(p, r).record =
                 [id |-> r, generation |-> p.serial + 1, frameRequest |-> p.frameRequest + 1]
        BY <2>2, SelectRecordPage
      <3>2. SelectRecord(p, r).record.id = r
        BY <3>1
      <3> QED
        BY <2>2, <3>1, <3>2
    <2> QED
      BY <2>1, <2>2
  <1>2. \A q \in Page, v \in Version, owner \in RecordSelection, frame \in BOOLEAN :
          BeginVersion(q, v, owner, frame).comparePubId = q.comparePubId
    BY DEF BeginVersion, Page
  <1>3. ASSUME NEW r \in Record, NEW owner \in RecordSelection
        PROVE  Load(p, owner, r).comparePubId = p.comparePubId
    <2> DEFINE q == [p EXCEPT !.loaded = [owner |-> owner, value |-> r]]
               v == Head(VersionsOf[r])
               frame == p.frameRequest = owner.frameRequest
    <2>1. q \in Page
      BY SetField
    <2>2. q.comparePubId = p.comparePubId /\ frame \in BOOLEAN
      BY DEF Page
    <2>3. Load(p, owner, r) = IF VersionsOf[r] = <<>> THEN q ELSE BeginVersion(q, v, owner, frame)
      BY DEF Load
    <2> HIDE DEF q, v, frame
    <2>4. VersionsOf[r] # <<>> => v \in Version
      BY VersionSeq DEF v
    <2> QED
      BY <1>2, <2>1, <2>2, <2>3, <2>4
  <1> QED
    BY <1>1, <1>2, <1>3

LEMMA StepStands ==
  ASSUME Typed, Next, page'.comparePubId # page.comparePubId
  PROVE  \/ page'.record # page.record /\ page'.comparePubId = None
         \/ \E c \in comparisons \ comparisons' : c.owner = page.record
  <1>0. page \in Page /\ screen \in Page /\ details \subseteq Selection(Record)
    BY DEF Typed, TypeOK
  <1>1. ASSUME NEW r \in Record, PickRecord(r)
        PROVE  page'.record # page.record /\ page'.comparePubId = None
    BY <1>0, <1>1, OverlayKept DEF PickRecord
  <1>2. ASSUME NEW r \in Record \cup {None}, NEW b \in Place, PickPlace(r, b)
        PROVE  page'.record # page.record /\ page'.comparePubId = None
    <2> DEFINE q == IF r = None THEN page ELSE SelectRecord(page, r)
    <2>1. page' = FocusBbox(q, b)
      BY <1>2 DEF PickPlace
    <2>2. /\ q \in Page
          /\ q = page \/ (q.record # page.record /\ q.comparePubId = None)
      <3>1. CASE r = None
        <4>1. q = page
          BY <3>1
        <4> HIDE DEF q
        <4> QED
          BY <1>0, <4>1
      <3>2. CASE r # None
        <4>1. r \in Record /\ q = SelectRecord(page, r)
          BY <3>2
        <4>2. Follows(page, SelectRecord(page, r))
          BY <1>0, <4>1, SelectFollows
        <4>3. \/ SelectRecord(page, r) = page
              \/ /\ SelectRecord(page, r).record # page.record
                 /\ SelectRecord(page, r).comparePubId = None
          BY <1>0, <4>1, OverlayKept
        <4> HIDE DEF q
        <4> QED
          BY <4>1, <4>2, <4>3 DEF Follows
      <3> QED
        BY <3>1, <3>2
    <2> HIDE DEF q
    <2>3. page'.comparePubId = q.comparePubId /\ page'.record = q.record
      BY <2>1, <2>2, FocusBboxPage
    <2> QED
      BY <2>2, <2>3
  <1>3. ASSUME NEW v \in Version, PickVersion(v) PROVE FALSE
    <2>1. screen.record \in RecordSelection
      BY <1>0 DEF Page
    <2> QED
      BY <1>0, <1>3, <2>1, OverlayKept DEF PickVersion
  <1>4. ASSUME NEW on \in BOOLEAN, ToggleRaster(on) PROVE FALSE
    BY <1>0, <1>4 DEF ToggleRaster, Page
  <1>5. ASSUME NEW s \in details, NEW r \in Record \cup {None}, DetailAnswer(s, r) PROVE FALSE
    <2>1. s \in RecordSelection /\ s.id \in Record
      BY <1>0 DEF RecordSelection, Selection
    <2>2. CASE Listens(s) /\ r = s.id
      BY <1>0, <1>5, <2>1, <2>2, OverlayKept DEF DetailAnswer
    <2>3. CASE ~ (Listens(s) /\ r = s.id)
      BY <1>0, <1>5, <2>3 DEF DetailAnswer, Fail, Page
    <2> QED
      BY <2>2, <2>3
  <1>6. ASSUME NEW s \in extents, NEW ok \in BOOLEAN, ExtentAnswer(s, ok) PROVE FALSE
    BY <1>0, <1>6 DEF ExtentAnswer, Page
  <1>7. ASSUME NEW c \in comparisons, NEW ok \in BOOLEAN, CompareAnswer(c, ok)
        PROVE  c \in comparisons \ comparisons' /\ c.owner = page.record
    BY <1>7 DEF CompareAnswer, Accepts
  <1>8. CASE CatalogAnswer
    BY <1>0, <1>8 DEF CatalogAnswer, Page
  <1>9. page' # page
    OBVIOUS
  <1> QED
    BY <1>1, <1>2, <1>3, <1>4, <1>5, <1>6, <1>7, <1>8, <1>9
    DEF Next, DetailArrives, ExtentArrives, ComparisonArrives, Compare, Render, Effects, MapLoad

(* A comparison that is shown is replaced by another record, or by one     *)
(* started since the record now shown was picked, and by nothing else.     *)
THEOREM ComparisonsStand == Spec => ComparisonStands
  <1> DEFINE Stands == page'.comparePubId # page.comparePubId =>
                         \/ page'.record # page.record /\ page'.comparePubId = None
                         \/ \E c \in comparisons \ comparisons' : c.owner = page.record
  <1>1. Typed /\ [Next]_vars => Typed'
    BY NextTyped, StutterTyped
  <1>2. Typed /\ [Next]_vars => [Stands]_vars
    BY StepStands
  <1>3. (Spec => []Typed) /\ (Spec => [][Stands]_vars)
    BY InitTyped, <1>1, <1>2, PTL DEF Spec
  <1> QED
    BY <1>3 DEF ComparisonStands
=============================================================================
