----------------------------- MODULE GridSweep -----------------------------
(***************************************************************************)
(* discover() of sqhkt_grid and ekgis_grid (ingest/connectors/): a portal   *)
(* that only answers "which plans lie at this point" is asked point by      *)
(* point over a grid; then each plan that was found becomes an item.        *)
(* A lookup may fail in the ways the code tells apart.                      *)
(***************************************************************************)
EXTENDS Integers, FiniteSets

CONSTANTS
    GridPlans,      \* ids of plans
    GridCells,      \* the points of the grid, in the order they are asked
    GridName,       \* GridName[p]: the id of plan p as a file name takes it
    GridSites       \* what the portal may show

\* at[c]: the plans at point c; drawn: those whose record there has a geometry;
\* detail[p]: whether the detail record has one, a null one, or does not say.
ASSUME GridAssumption ==
    /\ GridCells \in Nat
    /\ DOMAIN GridName = GridPlans
    /\ GridSites \subseteq [at : [1..GridCells -> SUBSET GridPlans],
                            drawn : SUBSET GridPlans,
                            detail : [GridPlans -> {"drawn", "null", "silent"}]]

VARIABLES
    grid,       \* the sweep
    gridSite    \* what the portal shows

gridVars == <<grid, gridSite>>

GridOutcomes == {"rows", "refused", "error", "odd"}

\* plans: found and not yet listed; answers[c]: history, how the lookup at c went;
\* items: the items listed, by plan, kind of file, and record it was made of;
\* files: the boundaries in the temporary directory, by name.
GridTypeOK ==
    /\ grid.kind \in {"sqhkt", "ekgis"}
    /\ grid.detail \in BOOLEAN
    /\ grid.pc \in {"probe", "list", "done", "raised"}
    /\ grid.plans \subseteq GridPlans
    /\ grid.errors \in 0..GridCells
    /\ \E probed \in 0..GridCells : grid.answers \in [1..probed -> GridOutcomes]
    /\ grid.items \subseteq GridPlans \X {"boundary", "pdf"} \X {"sweep", "detail"}
    /\ DOMAIN grid.files \subseteq {GridName[p] : p \in GridPlans}
    /\ \A name \in DOMAIN grid.files : grid.files[name] \in grid.items

GridInit ==
    /\ gridSite \in GridSites
    /\ \E kind \in {"sqhkt", "ekgis"}, detail \in BOOLEAN :
         /\ detail => kind = "ekgis"
         /\ grid = [kind |-> kind, detail |-> detail, pc |-> "probe", plans |-> {},
                    errors |-> 0, answers |-> <<>>, items |-> {}, files |-> <<>>]

GridProbed == Cardinality(DOMAIN grid.answers)

\* The lookup at the next point: rows are kept, an error is counted by ekgis, a
\* status other than 200 is not; rows that are no objects raise.
GridProbe ==
    /\ grid.pc = "probe" /\ GridProbed < GridCells
    /\ \E how \in GridOutcomes :
         LET c == GridProbed + 1
             probed == [grid EXCEPT !.answers = [i \in 1..c |-> IF i = c THEN how ELSE @[i]]]
         IN  grid' = CASE how = "rows" -> [probed EXCEPT !.plans = @ \cup gridSite.at[c]]
                       [] how = "error" -> [probed EXCEPT !.errors = @ + 1]
                       [] how = "odd" -> [probed EXCEPT !.pc = "raised"]
                       [] OTHER -> probed
    /\ UNCHANGED gridSite

\* ekgis: nothing was found, and every lookup ended in an error.
GridFailed == grid.plans = {} /\ GridProbed > 0 /\ grid.errors = GridProbed

GridSwept ==
    /\ grid.pc = "probe" /\ GridProbed = GridCells
    /\ grid' = [grid EXCEPT !.pc = IF grid.kind = "ekgis" /\ GridFailed THEN "raised" ELSE "list"]
    /\ UNCHANGED gridSite

\* The boundary of plan p, if the record has one; the detail record is merged
\* over the one at the point.
GridBoundary(p, record) ==
    IF \/ p \in gridSite.drawn /\ (record = "detail" => gridSite.detail[p] # "null")
       \/ record = "detail" /\ gridSite.detail[p] = "drawn"
    THEN {<<p, "boundary", record>>} ELSE {}

\* Each boundary is written under the name of its plan, over what is there.
GridWritten(p, made) ==
    [name \in DOMAIN grid.files \cup {GridName[p] : i \in made} |->
       IF made # {} /\ name = GridName[p] THEN CHOOSE i \in made : TRUE ELSE grid.files[name]]

\* sqhkt lists a boundary, if there is one, and the PDF.  ekgis lists a boundary
\* or nothing; it asks for the detail record and goes on without when that fails.
GridList(p) ==
    /\ grid.pc = "list" /\ p \in grid.plans
    /\ \E record \in IF grid.detail THEN {"sweep", "detail"} ELSE {"sweep"} :
         LET made == GridBoundary(p, record)
         IN  grid' = [grid EXCEPT !.plans = @ \ {p},
                        !.items = @ \cup made
                                    \cup (IF grid.kind = "sqhkt" THEN {<<p, "pdf", record>>} ELSE {}),
                        !.files = GridWritten(p, made)]
    /\ UNCHANGED gridSite

GridEnd ==
    /\ grid.pc = "list" /\ grid.plans = {}
    /\ grid' = [grid EXCEPT !.pc = "done"]
    /\ UNCHANGED gridSite

GridNext == GridProbe \/ GridSwept \/ GridEnd \/ \E p \in GridPlans : GridList(p)

GridSpec == GridInit /\ [][GridNext]_gridVars

\* fetch() copies the file a boundary was written to, and goes to the portal for a PDF.
GridCopied(i) == grid.files[GridName[i[1]]]
GridFetched(i) == IF i[2] = "boundary" THEN GridCopied(i) ELSE i

GridFairness == WF_gridVars(GridNext)

-----------------------------------------------------------------------------
GridAnswered == {c \in DOMAIN grid.answers : grid.answers[c] = "rows"}

GridShown == UNION {gridSite.at[c] : c \in GridAnswered}

(* A sweep that ends lists the plans at the points that answered, each once  *)
(* and no other: a plan is left out only if no point it lies at answered, or *)
(* neither of its records that could be read has a geometry.  What is then   *)
(* fetched for an item is an item of the same kind of a plan with the same   *)
(* file name: its own, unless there is another such plan.  The sweep raises  *)
(* only when rows are no objects, or, for ekgis, when no lookup was answered *)
(* (sqhkt_grid.py:132-145, ekgis_grid.py:190-221, 254-295).                  *)
GridHonest ==
    /\ grid.pc = "done" =>
         /\ {i[1] : i \in grid.items} \subseteq GridShown
         /\ grid.kind = "sqhkt" => {i[1] : i \in grid.items} = GridShown
         /\ \A p \in GridShown \cap gridSite.drawn :
              p \in {i[1] : i \in grid.items} \/ (grid.detail /\ gridSite.detail[p] = "null")
         /\ \A i, j \in grid.items : i[1] = j[1] /\ i[2] = j[2] => i = j
         /\ \A i \in grid.items :
              LET f == GridFetched(i) IN
              f \in grid.items /\ f[2] = i[2] /\ GridName[f[1]] = GridName[i[1]]
    /\ grid.pc = "raised" =>
         \/ \E c \in DOMAIN grid.answers : grid.answers[c] = "odd"
         \/ grid.kind = "ekgis" /\ \A c \in DOMAIN grid.answers : grid.answers[c] = "error"

(* "a sweep that found nothing *because requests failed* is a failure, not   *)
(* an empty result" (ekgis_grid.py:215-216): ekgis ends without raising only *)
(* if some lookup was answered.                                              *)
GridFailureSurfaces ==
    grid.pc = "done" /\ grid.kind = "ekgis" /\ GridCells > 0 => GridAnswered # {}

(* "For every unique plan it emits: 1. a boundary item - a synthesised       *)
(* GeoJSON FeatureCollection carrying the verbatim API fields as feature     *)
(* properties" (sqhkt_grid.py:14-17): what is fetched for an item of a plan  *)
(* is the plan's own.                                                        *)
GridOwnBoundary ==
    grid.pc = "done" => \A i \in grid.items : GridFetched(i) = i
=============================================================================
