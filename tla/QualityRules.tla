--------------------------- MODULE QualityRules ---------------------------
(***************************************************************************)
(* The quality rules (openquyhoach_quality) as the import of a layer runs    *)
(* them: what they find in the rows of a file, where a finding is put, and   *)
(* the state it leaves the dataset in.  Shapes are opaque; the constants     *)
(* say what shapely says of them.  Rules that the import gives nothing to    *)
(* look at are left out: one checksum is passed twice (r_hash), provenance   *)
(* is always said to be there (r_orphan), a version is given no second code  *)
(* (r_code_mismatch); and the dates of a version are columns of type date,   *)
(* so that r_time_invalid finds those of rows only.                          *)
(***************************************************************************)
EXTENDS Integers, Sequences, FiniteSets

CONSTANTS
    QualityShape,       \* QualityShape[g]: the record of shape g
    QualityOverlaps,    \* pairs of polygons that share more of the first than is tolerated
    QualityCrossings,   \* pairs of lines that cross in one point
    QualityGaps,        \* sets of polygons whose union has a hole
    QualityBroken,      \* sets of polygons that cannot be united: the rule crashes
    QualityUndated,     \* attributes with a valid_from or valid_to that is no date
    QualityNone         \* no value

PointTypes == {"Point", "MultiPoint"}
LineTypes == {"LineString", "MultiLineString"}
PolygonTypes == {"Polygon", "MultiPolygon"}
ShapeTypes == PointTypes \cup LineTypes \cup PolygonTypes \cup {"GeometryCollection"}

ASSUME QualityAssumption ==
    /\ \A g \in DOMAIN QualityShape :
         QualityShape[g] \in [type : ShapeTypes, valid : BOOLEAN, empty : BOOLEAN,
                              within : BOOLEAN]
    /\ QualityNone \notin DOMAIN QualityShape
    /\ \A pair \in QualityOverlaps : \E g, h \in DOMAIN QualityShape :
         /\ pair = <<g, h>>
         /\ QualityShape[g].type \in PolygonTypes /\ QualityShape[h].type \in PolygonTypes

\* A finding: rule, severity, and the row it is about; 0 is the dataset, or the layer.
Finding(rule, severity, i) == [rule |-> rule, severity |-> severity, row |-> i]

Drawn(file, i) == file.rows[i].shape # QualityNone /\ ~QualityShape[file.rows[i].shape].empty

Rows(file) == DOMAIN file.rows

\* What a rule says of the rows that fail its test.
OnRows(rule, severity, rows) == {Finding(rule, severity, i) : i \in rows}

REmpty(file) == OnRows("GEOM-EMPTY", "error", {i \in Rows(file) : ~Drawn(file, i)})

RInvalid(file) == OnRows("GEOM-INVALID", "error",
    {i \in Rows(file) : Drawn(file, i) /\ ~QualityShape[file.rows[i].shape].valid})

\* An empty shape has a type, too.
HasShape(file, i) == file.rows[i].shape # QualityNone
TypeOf(file, i) == QualityShape[file.rows[i].shape].type

RCollection(file) == OnRows("GEOM-COLLECTION", "warning",
    {i \in Rows(file) : HasShape(file, i) /\ TypeOf(file, i) = "GeometryCollection"})

\* A type that is not one of the three simple ones matches no shape (str.title).
TypesOf(declared) ==
    CASE declared = "Point" -> PointTypes
      [] declared = "LineString" -> LineTypes
      [] declared = "Polygon" -> PolygonTypes
      [] OTHER -> {}

RTypeMismatch(file) == OnRows("GEOM-TYPE-MISMATCH", "error",
    {i \in Rows(file) : /\ file.declared # QualityNone
                        /\ HasShape(file, i) /\ TypeOf(file, i) \notin TypesOf(file.declared)})

RDuplicate(file) == OnRows("GEOM-DUPLICATE", "warning",
    {i \in Rows(file) :
       Drawn(file, i) /\ \E j \in 1..i - 1 : file.rows[j].shape = file.rows[i].shape})

RCrsMissing(file) == IF file.crs = "unknown" THEN {Finding("CRS-MISSING", "critical", 0)} ELSE {}

\* Only a layer that came in longitude and latitude, in EPSG:4326 or 4756, is compared
\* with the extent.
InDegrees(file) == file.crs \in {"canonical", "geographic"}

RBounds(file) == OnRows("CRS-BOUNDS", "warning",
    {i \in Rows(file) :
       InDegrees(file) /\ Drawn(file, i) /\ ~QualityShape[file.rows[i].shape].within})

\* Valid shapes of some types, as the topology rules take them.
ValidOf(file, types) ==
    {i \in Rows(file) : HasShape(file, i) /\ QualityShape[file.rows[i].shape].valid
                        /\ TypeOf(file, i) \in types}

\* Of a pair, the earlier row is named.
RPairs(file, rule, types, pairs) ==
    LET valid == ValidOf(file, types)
    IN  OnRows(rule, "warning",
            {i \in valid : \E j \in valid :
               i < j /\ <<file.rows[i].shape, file.rows[j].shape>> \in pairs})

RPolyOverlap(file) ==
    IF "overlaps" \in file.forbids
    THEN RPairs(file, "TOPO-POLY-OVERLAP", PolygonTypes, QualityOverlaps) ELSE {}

RLineCross(file) ==
    IF "crossings" \in file.forbids
    THEN RPairs(file, "TOPO-LINE-CROSS", LineTypes, QualityCrossings) ELSE {}

\* A rule that raises becomes a finding (run_rules).
RPolyGap(file) ==
    LET polys == ValidOf(file, PolygonTypes)
        shapes == {file.rows[i].shape : i \in polys}
    IN  IF "gaps" \notin file.forbids \/ Cardinality(polys) < 2 THEN {}
        ELSE IF shapes \in QualityBroken THEN {Finding("RULE-ERROR", "error", 0)}
        ELSE IF shapes \in QualityGaps THEN {Finding("TOPO-POLY-GAP", "info", 0)} ELSE {}

\* The attributes a descriptor requires.
RRequired(file) == OnRows("ATTR-REQUIRED", "error",
    {i \in Rows(file) : file.required /\ file.rows[i].props = QualityNone})

\* A date in the attributes of a row that cannot be read (r_time_invalid).
RTimeInvalid(file) == OnRows("TIME-INVALID", "error",
    {i \in Rows(file) : file.rows[i].props \in QualityUndated})

\* What is said of the dataset, and not of a row: a version ends before it begins, or
\* begins before it was approved,
RTimeOrder(file) ==
    {Finding("TIME-ORDER", IF flaw = "reversed" THEN "error" ELSE "warning", 0)
       : flaw \in file.flaws \cap {"reversed", "early"}}

\* an official layer has no authority,
RAuthority(file) ==
    IF "unattributed" \in file.flaws THEN {Finding("AUTH-MISSING", "error", 0)} ELSE {}

\* the group is not known.
RGroup(file) ==
    IF "ungrouped" \in file.flaws THEN {Finding("VN-GROUP-UNKNOWN", "info", 0)} ELSE {}

\* run_rules
Findings(file) ==
    REmpty(file) \cup RInvalid(file) \cup RCollection(file) \cup RTypeMismatch(file)
        \cup RDuplicate(file) \cup RCrsMissing(file) \cup RBounds(file) \cup RPolyOverlap(file)
        \cup RLineCross(file) \cup RPolyGap(file) \cup RRequired(file) \cup RTimeInvalid(file)
        \cup RTimeOrder(file) \cup RAuthority(file) \cup RGroup(file)

Wrong(findings) == \E f \in findings : f.severity \in {"error", "critical"}

\* What persist_findings says of the dataset.
PersistedState(findings) ==
    IF Wrong(findings) THEN "errors" ELSE IF findings # {} THEN "warnings" ELSE "clean"

\* What the import leaves it at: it looks for errors once more.
QualityState(findings) ==
    IF Wrong(findings) THEN "errors" ELSE PersistedState(findings)
=============================================================================
