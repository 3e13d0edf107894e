-------------------------- MODULE LayerComparison --------------------------
(***************************************************************************)
(* Vector files become layers of features with what the quality rules say    *)
(* of them (_ingest_vector, ingest/pipeline.py), and two layers are compared *)
(* by requests and the CLI (services/compare.py).  An import is one          *)
(* transaction; a comparison looks for a stored change set, reads the layers *)
(* and stores one, each in a transaction of its own, and comparisons         *)
(* overlap: the one that stores second raises.  A layer that was committed   *)
(* does not change.                                                          *)
(***************************************************************************)
EXTENDS QualityRules

CONSTANTS
    LayerFiles,         \* files, with what their descriptors say of them
    LayerUnprojectable, \* shapes whose transformation raises
    Comparisons         \* calls of compute_changeset

\* keyed: the descriptor names a key field; declared: the type of the layer; required:
\* the descriptor requires attributes; forbids: what its topology forbids; flaws: what
\* is wrong with the dataset as such.  id: value of the key field; alt: of the first of
\* OBJECTID, id, code ... that has one; code: of the attribute mapped to `code'.
ASSUME LayerAssumption ==
    \A f \in LayerFiles :
        /\ DOMAIN f = {"crs", "keyed", "declared", "required", "forbids", "flaws", "rows"}
        /\ f.crs \in {"canonical", "geographic", "other", "unknown"}
        /\ f.forbids \subseteq {"overlaps", "crossings", "gaps"}
        /\ f.flaws \subseteq {"reversed", "early", "unattributed", "ungrouped"}
        /\ f.keyed \in BOOLEAN /\ f.required \in BOOLEAN
        /\ DOMAIN f.rows \subseteq Nat \ {0} /\ IsFiniteSet(DOMAIN f.rows)
        /\ \A i \in DOMAIN f.rows :
             LET row == f.rows[i] IN
             /\ DOMAIN row = {"id", "alt", "code", "shape", "class", "props"}
             /\ row.shape \in DOMAIN QualityShape \cup {QualityNone}
             /\ QualityNone # [shape |-> row.shape, class |-> row.class, props |-> row.props]

VARIABLES
    layers,         \* layers[s]: the features of layer s, or QualityNone
    quality,        \* quality[s]: quality_state and the observations of its dataset
    layerFile,      \* history: the file layer s was made of
    compareCalls,   \* where each call is
    changeSets      \* committed change sets with their entries

layerVars == <<layers, quality, layerFile, compareCalls, changeSets>>

Layers == {1, 2}
LayerPairs == {<<1, 2>>, <<2, 1>>}

CompareIdle == [pc |-> "idle", pair |-> QualityNone, old |-> {}, new |-> {}, got |-> QualityNone]

LayerInit ==
    /\ layers = [s \in Layers |-> QualityNone]
    /\ quality = [s \in Layers |-> [state |-> "unchecked", observations |-> {}]]
    /\ layerFile \in [Layers -> LayerFiles]
    /\ compareCalls = [c \in Comparisons |-> CompareIdle]
    /\ changeSets = {}

LayerTypeOK ==
    /\ \A s \in Layers : layers[s] = QualityNone \/
         \A f \in layers[s] : DOMAIN f = {"row", "key", "shape", "placed", "class", "props"}
    /\ \A s \in Layers : quality[s].state \in {"unchecked", "clean", "warnings", "errors"}
    /\ \A c \in Comparisons :
         /\ compareCalls[c].pc \in {"idle", "read", "store", "done", "raised"}
         /\ compareCalls[c].pair \in LayerPairs \cup {QualityNone}
    /\ \A cs \in changeSets : cs.pair \in LayerPairs /\ cs.unchanged \in Nat

-----------------------------------------------------------------------------
(* Import. *)

\* stable_external_id: the declared key wins.
LayerStableId(file, row) ==
    IF file.keyed /\ row.id # QualityNone THEN row.id ELSE row.alt

\* What a row is compared by: its stable id, its code, or the id of the feature, its own.
LayerKey(s, file, i) ==
    LET row == file.rows[i] IN
    IF LayerStableId(file, row) # QualityNone THEN <<LayerStableId(file, row)>>
    ELSE IF row.code # QualityNone THEN <<row.code>> ELSE <<QualityNone, s, i>>

\* A row without a shape, or with one that cannot be transformed, is not stored.
LayerDrawable(file, row) ==
    /\ row.shape # QualityNone
    /\ file.crs \in {"geographic", "other"} => row.shape \notin LayerUnprojectable

\* Where the shape of a feature lies in EPSG:4326; with no CRS its numbers are taken
\* as they are.
LayerPlaced(file) == IF file.crs = "unknown" THEN "guessed" ELSE "known"

LayerStored(file) == {i \in DOMAIN file.rows : LayerDrawable(file, file.rows[i])}

\* Mutant: rows are known to the rules by their stable id only, None for all without one.
LayerTargetNameless(file, i) ==
    LET id(j) == LayerStableId(file, file.rows[j])
        same == {j \in LayerStored(file) : id(j) = id(i)}
    IN  IF i = 0 \/ same = {} THEN 0 ELSE CHOOSE j \in same : \A k \in same : k <= j
\* The feature a finding about row i is put on, by what stands for the row in the rules:
\* the last feature of that name; 0, the dataset, if there is none.
LayerTarget(file, i) ==
    LET id(j) == LayerStableId(file, file.rows[j])
        same == {j \in LayerStored(file) : id(j) = id(i) /\ (id(i) = QualityNone => j = i)}
    IN  IF i = 0 \/ same = {} THEN 0 ELSE CHOOSE j \in same : \A k \in same : k <= j

LayerImport(s) ==
    /\ layers[s] = QualityNone
    /\ LET file == layerFile[s]
           findings == Findings(file)
       IN  /\ layers' = [layers EXCEPT ![s] =
                {[row |-> i, key |-> LayerKey(s, file, i), shape |-> file.rows[i].shape,
                  placed |-> LayerPlaced(file), class |-> file.rows[i].class,
                  props |-> file.rows[i].props] : i \in LayerStored(file)}]
           /\ quality' = [quality EXCEPT ![s] =
                [state |-> QualityState(findings),
                 observations |-> {[rule |-> f.rule, row |-> f.row,
                                    on |-> LayerTarget(file, f.row)] : f \in findings}]]
    /\ UNCHANGED <<layerFile, compareCalls, changeSets>>

-----------------------------------------------------------------------------
(* Comparison. *)

KeysOf(features) == {f.key : f \in features}
OfKey(features, k) == CHOOSE f \in features : f.key = k

\* One feature for each key: the one read last, in no particular order.
CompareViews(features) ==
    {V \in SUBSET features : KeysOf(V) = KeysOf(features)
                             /\ \A f, g \in V : f.key = g.key => f = g}

Entry(type, key, from, to) == [type |-> type, key |-> key, from |-> from, to |-> to]

CompareAdded(old, new) ==
    {Entry("added", f.key, QualityNone, f) : f \in {g \in new : g.key \notin KeysOf(old)}}

\* Mutant: only keys of the new layer are gone through.
CompareRemovedNever(old, new) == {}
CompareRemoved(old, new) ==
    {Entry("removed", f.key, f, QualityNone) : f \in {g \in old : g.key \notin KeysOf(new)}}

CompareChanged(old, new) ==
    UNION {LET of == OfKey(old, k)
               nf == OfKey(new, k)
           IN  {Entry(type, k, of, nf) : type \in
                  {t \in {"geometry", "classification", "properties"} :
                     \/ t = "geometry" /\ of.shape # nf.shape
                     \/ t = "classification" /\ of.class # nf.class
                     \/ t = "properties" /\ of.props # nf.props}}
           : k \in KeysOf(old) \cap KeysOf(new)}

\* diff_features
DiffFeatures(old, new) ==
    CompareAdded(old, new) \cup CompareRemoved(old, new) \cup CompareChanged(old, new)

CompareUnchanged(old, new) ==
    Cardinality({k \in KeysOf(old) \cap KeysOf(new) : \A e \in DiffFeatures(old, new) : e.key # k})

ChangeSetsOf(pair) == {cs \in changeSets : cs.pair = pair}

CompareStart(c, pair) ==
    /\ compareCalls[c].pc = "idle"
    /\ \A s \in Layers : layers[s] # QualityNone
    /\ compareCalls' = [compareCalls EXCEPT ![c] =
         IF ChangeSetsOf(pair) = {} THEN [CompareIdle EXCEPT !.pc = "read", !.pair = pair]
         ELSE [CompareIdle EXCEPT !.pc = "done", !.pair = pair,
                                  !.got = CHOOSE cs \in ChangeSetsOf(pair) : TRUE]]
    /\ UNCHANGED <<layers, quality, layerFile, changeSets>>

CompareRead(c) ==
    /\ compareCalls[c].pc = "read"
    /\ \E old \in CompareViews(layers[compareCalls[c].pair[1]]),
          new \in CompareViews(layers[compareCalls[c].pair[2]]) :
         compareCalls' = [compareCalls EXCEPT ![c].pc = "store", ![c].old = old, ![c].new = new]
    /\ UNCHANGED <<layers, quality, layerFile, changeSets>>

\* The unique index on the pair of layers.
PairTaken(pair) == ChangeSetsOf(pair) # {}

CompareStore(c) ==
    /\ compareCalls[c].pc = "store"
    /\ LET call == compareCalls[c]
           cs == [pair |-> call.pair, by |-> c, entries |-> DiffFeatures(call.old, call.new),
                  unchanged |-> CompareUnchanged(call.old, call.new)]
       IN  IF PairTaken(call.pair)
           THEN /\ compareCalls' = [compareCalls EXCEPT ![c] =
                       [CompareIdle EXCEPT !.pc = "raised", !.pair = call.pair]]
                /\ UNCHANGED changeSets
           ELSE /\ compareCalls' = [compareCalls EXCEPT ![c] =
                       [CompareIdle EXCEPT !.pc = "done", !.pair = call.pair, !.got = cs]]
                /\ changeSets' = changeSets \cup {cs}
    /\ UNCHANGED <<layers, quality, layerFile>>

LayerNext ==
    \/ \E s \in Layers : LayerImport(s)
    \/ \E c \in Comparisons :
         \/ \E pair \in LayerPairs : CompareStart(c, pair)
         \/ CompareRead(c) \/ CompareStore(c)

LayerSpec == LayerInit /\ [][LayerNext]_layerVars

-----------------------------------------------------------------------------
(* What the files themselves say, row by row. *)

\* What a source calls row i: the first name there is, the declared one before the others.
RowName(s, i) ==
    LET row == layerFile[s].rows[i]
        names == <<IF layerFile[s].keyed THEN row.id ELSE QualityNone, row.alt, row.code>>
        there == {n \in 1..3 : names[n] # QualityNone}
    IN  IF there = {} THEN <<QualityNone, s, i>>
        ELSE <<names[CHOOSE n \in there : \A m \in there : n <= m]>>

RowsNamed(s, k) ==
    {i \in DOMAIN layerFile[s].rows :
        RowName(s, i) = k /\ LayerDrawable(layerFile[s], layerFile[s].rows[i])}

RowNames == UNION {{RowName(s, i) : i \in DOMAIN layerFile[s].rows} : s \in Layers}

RowsDistinct(s) ==
    \A i, j \in DOMAIN layerFile[s].rows : RowName(s, i) = RowName(s, j) => i = j

RowValue(s, k) ==
    IF RowsNamed(s, k) = {} THEN QualityNone
    ELSE LET r == layerFile[s].rows[CHOOSE i \in RowsNamed(s, k) : TRUE]
         IN  [shape |-> r.shape, class |-> r.class, props |-> r.props]

\* What becomes of a value when the entries for its key are carried out.
CarryOut(entries, value) ==
    LET new(type) == CHOOSE e \in entries : e.type = type
        has(type) == \E e \in entries : e.type = type
        valueOf(f) == [shape |-> f.shape, class |-> f.class, props |-> f.props]
    IN  IF has("removed") THEN QualityNone
        ELSE IF has("added") THEN valueOf(new("added").to)
        ELSE IF value = QualityNone THEN QualityNone
        ELSE [shape |-> IF has("geometry") THEN new("geometry").to.shape ELSE value.shape,
              class |-> IF has("classification") THEN new("classification").to.class ELSE value.class,
              props |-> IF has("properties") THEN new("properties").to.props ELSE value.props]

(* A change set is the way from one file to the other: its entries, carried  *)
(* out on the drawable rows of the first, give those of the second, as long  *)
(* as no two rows of a file have one name; and however calls overlap, a pair *)
(* of layers has one change set, a call that returns has that one, and one   *)
(* that raises has found it stored by another since it looked                *)
(* (compare.py:92-121, 147-155, 177-185, models/changeset.py:19).            *)
ChangesetReplays ==
    /\ \A cs \in changeSets :
         (\A s \in Layers : RowsDistinct(s)) =>
           \A k \in RowNames :
             CarryOut({e \in cs.entries : e.key = k}, RowValue(cs.pair[1], k))
               = RowValue(cs.pair[2], k)
    /\ \A cs, other \in changeSets : cs.pair = other.pair => cs = other
    /\ \A c \in Comparisons :
         /\ compareCalls[c].pc = "done" => compareCalls[c].got \in ChangeSetsOf(compareCalls[c].pair)
         /\ compareCalls[c].pc = "raised" => ChangeSetsOf(compareCalls[c].pair) # {}

(* "Compute (or return cached) ChangeSet between two layers"                 *)
(* (compare.py:147): every call returns one, none raises.                    *)
ComparisonsReturn ==
    \A c \in Comparisons : compareCalls[c].pc # "raised"

(* What a dataset is called is what its file is like: the rows of a clean    *)
(* one have sound shapes that do not repeat or overlap, a dataset without    *)
(* errors has a known CRS, dates that can be read and the attributes that    *)
(* are required.  As long as the rows of a file have names of their own, an  *)
(* observation about a row is put on its feature, or on the dataset when the *)
(* row was not stored (persist.py:39-47, 70-81, pipeline.py:309-372,         *)
(* 426-427).                                                                 *)
QualityTold ==
    \A s \in Layers : layers[s] # QualityNone =>
      LET file == layerFile[s]
          rows == DOMAIN file.rows
          shape(i) == file.rows[i].shape
      IN  /\ quality[s].state = "clean" =>
               /\ \A i \in rows : shape(i) # QualityNone /\ QualityShape[shape(i)].valid
                                  /\ (InDegrees(file) => QualityShape[shape(i)].within)
               /\ \A i, j \in rows : i < j =>
                    /\ shape(i) # shape(j)
                    /\ "overlaps" \in file.forbids =>
                         <<shape(i), shape(j)>> \notin QualityOverlaps
               /\ file.flaws = {}
          /\ quality[s].state \in {"clean", "warnings"} =>
               /\ \A f \in layers[s] : f.placed = "known"
               /\ file.required => \A i \in rows : file.rows[i].props # QualityNone
               /\ \A i \in rows : file.rows[i].props \notin QualityUndated
          /\ \A o \in quality[s].observations : o.row # 0 /\ RowsDistinct(s) =>
               o.on = IF \E f \in layers[s] : f.row = o.row THEN o.row ELSE 0

(* "Features whose geometry can't be canonicalised (unidentified CRS,        *)
(* transform failure) are validated but not persisted - we never write       *)
(* geometry whose provenance is a guess" (pipeline.py:346-348).              *)
NothingGuessed ==
    \A s \in Layers : layers[s] # QualityNone => \A f \in layers[s] : f.placed # "guessed"
=============================================================================
