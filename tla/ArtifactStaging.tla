---------------------------- MODULE ArtifactStaging ----------------------------
(***************************************************************************)
(* stage_artifact and what it calls, in runs of different sources that     *)
(* share the tables: evidence is stored and entered, the planning record   *)
(* and version it belongs to are found or made, its parts are imported,    *)
(* and a vector dataset that says nothing new is dropped again.            *)
(*                                                                         *)
(* Each run is one READ COMMITTED transaction: it sees what is committed   *)
(* at the moment of each query, together with its own rows.  The object    *)
(* store is outside the transaction.  A row stands for its own identity:   *)
(* `at' is when the transaction of its run began, which is what now() puts *)
(* into created_at of every row of that run.                               *)
(*                                                                         *)
(* Provenance events, quality findings and review tasks that are entered   *)
(* with a row are left out: nothing here reads them.                       *)
(*                                                                         *)
(* A definition named Wrong... is a plausible slip in the definition that  *)
(* follows it; no action uses it.                                          *)
(***************************************************************************)
EXTENDS Naturals, Sequences, FiniteSets

CONSTANTS
    Run,         \* processes that run the pipeline
    Sha,         \* the files there are, by their sha256
    File,        \* [Sha -> [title, decision, parts]]: what a file's resolution and parsing yield
    NoDecision,  \* no decision number is known
    None,        \* nothing chosen yet
    Earlier,     \* [objects, db]: what earlier runs left behind, all of it at time 0
    MaxMishaps,  \* bound: imports that fail and runs that die
    MaxClock     \* bound: beginnings and ends of runs

Kind == {"vector", "raster", "document", "other"}

(* The parts of a file: itself, or the members of a zip; a part has layers *)
(* [name, content], content being its features in the order of the file,   *)
(* and no two of one name; a raster is one layer; the text of a document   *)
(* may name the plan it belongs to.                                        *)
ASSUME FileAssumption ==
    /\ DOMAIN File = Sha
    /\ \A f \in Sha : File[f].parts \in Seq({File[f].parts[n] : n \in DOMAIN File[f].parts})
    /\ \A f \in Sha : \A n \in DOMAIN File[f].parts :
         LET part == File[f].parts[n] IN
         /\ part.kind \in Kind
         /\ part.layers \in Seq({part.layers[i] : i \in DOMAIN part.layers})
         /\ part.layers = <<>> <=> part.kind \in {"document", "other"}
         /\ part.kind = "raster" => Len(part.layers) = 1
         /\ \A i, j \in DOMAIN part.layers : part.layers[i].name = part.layers[j].name => i = j
         /\ part.kind = "document" => part.hints = None \/ DOMAIN part.hints = {"title", "decision"}
ASSUME BoundAssumption == MaxMishaps \in Nat /\ MaxClock \in Nat
ASSUME RunAssumption == IsFiniteSet(Run)

VARIABLES
    objects,  \* the shas in the object store
    db,       \* committed tables
    run,      \* [Run -> the transaction it is in]
    clock,    \* beginnings and ends of runs so far
    commits,  \* history: [at, end] of the runs that committed
    emptied,  \* history: the datasets that runs which committed dropped
    mishaps   \* history: mishaps so far

vars == <<objects, db, run, clock, commits, emptied, mishaps>>

-----------------------------------------------------------------------------
(* Tables and runs.                                                        *)

NoRows == [artifacts |-> {}, records |-> {}, versions |-> {}, datasets |-> {}, documents |-> {}]

(* new are the rows of the run, gone the versions it deleted; sha, version *)
(* and part say where it is in staging a file, todo which datasets of the  *)
(* part are yet to be compared, loaded that the collection                 *)
(* version.datasets was read and found not empty: the session keeps it;    *)
(* reading that the text of a document has been read for its plan, target  *)
(* the version that names; history: dropped, the datasets it dropped.      *)
NoRun == [pc |-> "idle", at |-> 0, new |-> NoRows, gone |-> {},
          sha |-> None, record |-> None, version |-> None, part |-> 0, todo |-> <<>>, loaded |-> FALSE,
          reading |-> FALSE, target |-> None, dropped |-> {}]

Init ==
    /\ objects = Earlier.objects /\ db = Earlier.db
    /\ run = [r \in Run |-> NoRun]
    /\ clock = 0 /\ commits = {[at |-> 0, end |-> 0]} /\ emptied = {} /\ mishaps = 0

(* What a query of r sees.                                                 *)
Visible(r) ==
    [artifacts |-> db.artifacts \cup run[r].new.artifacts,
     records   |-> db.records \cup run[r].new.records,
     versions  |-> (db.versions \cup run[r].new.versions) \ run[r].gone,
     datasets  |-> db.datasets \cup run[r].new.datasets,
     documents |-> db.documents \cup run[r].new.documents]

(* Rows that hang on a version.                                            *)
On(rows, v) == {d \in rows.datasets \cup rows.documents : d.version = v}

(* The transaction of r, and no other, moves on.                           *)
Moves(r, t) == run' = [run EXCEPT ![r] = t]

Mishap == mishaps < MaxMishaps /\ mishaps' = mishaps + 1

-----------------------------------------------------------------------------
(* Runs.                                                                   *)

(* sync_source, ingest_path or ingest_url begins its transaction.          *)
Begin(r) ==
    /\ run[r].pc = "idle" /\ clock < MaxClock /\ clock' = clock + 1
    /\ Moves(r, [NoRun EXCEPT !.pc = "ready", !.at = clock'])
    /\ UNCHANGED <<objects, db, commits, emptied, mishaps>>

Commit(r) ==
    /\ run[r].pc = "ready" /\ clock < MaxClock /\ clock' = clock + 1
    /\ db' = Visible(r)
    /\ commits' = commits \cup {[at |-> run[r].at, end |-> clock']}
    /\ emptied' = emptied \cup run[r].dropped
    /\ Moves(r, NoRun)
    /\ UNCHANGED <<objects, mishaps>>

(* The process dies, or ingest_path and ingest_url raise.                  *)
RunDies(r) ==
    /\ run[r].pc # "idle" /\ Mishap
    /\ Moves(r, NoRun)
    /\ UNCHANGED <<objects, db, clock, commits, emptied>>

(* A foreign key refuses a flush: the session is of no use any more, and   *)
(* the run is rolled back as soon as it goes on.                           *)
Break(r) ==
    /\ Moves(r, NoRun)
    /\ UNCHANGED <<objects, db, clock, commits, emptied, mishaps>>

-----------------------------------------------------------------------------
(* stage_artifact.                                                         *)

(* Bytes that are known change nothing here (one row found), and bytes     *)
(* entered twice raise (one_or_none); new bytes are stored, then entered.  *)
Stage(r, f) ==
    /\ run[r].pc = "ready"
    /\ ~ \E a \in Visible(r).artifacts : a.sha = f
    /\ objects' = objects \cup {f}
    /\ Moves(r, [run[r] EXCEPT
         !.pc = "record", !.sha = f, !.part = 1, !.loaded = FALSE,
         !.reading = FALSE, !.target = None,
         !.new.artifacts = @ \cup {[at |-> run[r].at, sha |-> f, status |-> "downloaded"]}])
    /\ UNCHANGED <<db, clock, commits, emptied, mishaps>>

WrongStageFails(r) ==
    /\ run[r].pc \in {"record", "version", "part", "compare"} /\ Mishap
    /\ Moves(r, [run[r] EXCEPT !.pc = "ready", !.todo = <<>>,
                            !.new.artifacts = {a \in @ : a.sha # run[r].sha}])
    /\ UNCHANGED <<objects, db, clock, commits, emptied>>

WrongStageFailsCleans(r) ==
    /\ run[r].pc \in {"record", "version", "part", "compare"} /\ Mishap
    /\ objects' = objects \ {run[r].sha}
    /\ Moves(r, [run[r] EXCEPT !.pc = "ready", !.todo = <<>>,
                            !.new.artifacts = {a \in @ : a.sha # run[r].sha}])
    /\ UNCHANGED <<db, clock, commits, emptied>>

(* A handler raises, or a table holds duplicates (one_or_none); the crawl  *)
(* catches it and goes on with the rows made so far.                       *)
StageFails(r) ==
    /\ run[r].pc \in {"record", "version", "part", "compare"} /\ Mishap
    /\ Moves(r, [run[r] EXCEPT !.pc = "ready", !.todo = <<>>])
    /\ UNCHANGED <<objects, db, clock, commits, emptied>>

(* one_or_none, or make it: `found' are the rows that match, `row' is the  *)
(* one to insert in `table' if there is none.                              *)
GetOrCreate(r, found, row, table, field, next) ==
    /\ IF Cardinality(found) > 1
       THEN Moves(r, [run[r] EXCEPT !.pc = "ready"])
       ELSE Moves(r, [run[r] EXCEPT
              !.pc = next,
              !.new[table] = IF found = {} THEN @ \cup {row} ELSE @,
              ![field] = IF found = {} THEN row ELSE CHOOSE x \in found : TRUE])
    /\ UNCHANGED <<objects, db, clock, commits, emptied, mishaps>>

(* What is known of the plan: of the file, or by the text of the document. *)
Hints(r) ==
    IF run[r].reading THEN File[run[r].sha].parts[run[r].part].hints ELSE File[run[r].sha]

ResolveRecord(r) ==
    LET title == Hints(r).title IN
    /\ run[r].pc = "record"
    /\ GetOrCreate(r, {x \in Visible(r).records : x.title = title},
                   [at |-> run[r].at, sha |-> run[r].sha, title |-> title],
                   "records", "record", "version")

(* A version is found by its decision only: without one every file, and    *)
(* every document, makes its own.                                          *)
ResolveVersion(r) ==
    LET decision == Hints(r).decision IN
    /\ run[r].pc = "version"
    /\ GetOrCreate(r, {v \in Visible(r).versions : decision # NoDecision
                         /\ v.decision = decision /\ v.record = run[r].record},
                   [at |-> run[r].at, sha |-> run[r].sha, record |-> run[r].record,
                    decision |-> decision, part |-> IF run[r].reading THEN run[r].part ELSE 0],
                   "versions", IF run[r].reading THEN "target" ELSE "version", "part")

-----------------------------------------------------------------------------
(* dispatch_artifact, part by part.                                        *)

InPart(r, kind) ==
    /\ run[r].pc = "part" /\ run[r].part <= Len(File[run[r].sha].parts)
    /\ File[run[r].sha].parts[run[r].part].kind = kind

(* The row of a layer under a version.                                     *)
Imported(r, n, part) ==
    [at |-> run[r].at, sha |-> run[r].sha, part |-> run[r].part, version |-> run[r].version,
     kind |-> part.kind, name |-> part.layers[n].name, content |-> part.layers[n].content]

(* Inserting under v waits for a run that is deleting the version, and     *)
(* fails if it is deleted.                                                 *)
Insert(r, v, after) ==
    \/ /\ v \in Visible(r).versions
       /\ \A o \in Run \ {r} : v \notin run[o].gone
       /\ Moves(r, after)
       /\ UNCHANGED <<objects, db, clock, commits, emptied, mishaps>>
    \/ v \notin Visible(r).versions /\ Break(r)

(* A vector part becomes a dataset for each layer, to be compared next.    *)
ImportVector(r) ==
    LET part == File[run[r].sha].parts[run[r].part]
        rows == [n \in DOMAIN part.layers |-> Imported(r, n, part)] IN
    /\ InPart(r, "vector")
    /\ Insert(r, run[r].version,
              [run[r] EXCEPT !.pc = "compare", !.todo = rows,
                             !.new.datasets = @ \cup {rows[n] : n \in DOMAIN rows}])

(* A raster becomes one dataset, and is not compared with others.          *)
ImportRaster(r) ==
    /\ InPart(r, "raster")
    /\ Insert(r, run[r].version,
              [run[r] EXCEPT !.part = @ + 1,
                 !.new.datasets = @ \cup {Imported(r, 1, File[run[r].sha].parts[run[r].part])}])

(* The text of a document names a plan: its version is resolved anew.      *)
ReadDocument(r) ==
    /\ InPart(r, "document") /\ ~run[r].reading
    /\ File[run[r].sha].parts[run[r].part].hints # None
    /\ Moves(r, [run[r] EXCEPT !.pc = "record", !.reading = TRUE])
    /\ UNCHANGED <<objects, db, clock, commits, emptied, mishaps>>

ImportDocument(r) ==
    LET v == IF run[r].reading THEN run[r].target ELSE run[r].version IN
    /\ InPart(r, "document")
    /\ run[r].reading \/ File[run[r].sha].parts[run[r].part].hints = None
    /\ Insert(r, v,
              [run[r] EXCEPT !.part = @ + 1, !.reading = FALSE, !.target = None,
                 !.new.documents = @ \cup {[at |-> run[r].at, sha |-> run[r].sha,
                                            part |-> run[r].part, version |-> v]}])

(* A drawing, or what no handler takes.                                    *)
SkipPart(r) ==
    /\ InPart(r, "other")
    /\ Moves(r, [run[r] EXCEPT !.part = @ + 1])
    /\ UNCHANGED <<objects, db, clock, commits, emptied, mishaps>>

WrongFinish(r) ==
    /\ run[r].pc = "part" /\ run[r].part > Len(File[run[r].sha].parts)
    /\ Moves(r, [run[r] EXCEPT
         !.pc = "ready",
         !.new.artifacts = {[a EXCEPT !.status = IF a.sha = run[r].sha THEN "succeeded" ELSE @]
                                 : a \in @}])
    /\ UNCHANGED <<objects, db, clock, commits, emptied, mishaps>>

Finish(r) ==
    /\ run[r].pc = "part" /\ run[r].part > Len(File[run[r].sha].parts)
    /\ Moves(r, [run[r] EXCEPT
         !.pc = "ready",
         !.new.artifacts = {[a EXCEPT !.status = IF a.sha = run[r].sha THEN "imported" ELSE @]
                                 : a \in @}])
    /\ UNCHANGED <<objects, db, clock, commits, emptied, mishaps>>

-----------------------------------------------------------------------------
(* _dedupe_semantic.                                                       *)

(* The features of a dataset, in whatever order the file lists them.       *)
Digest(d) ==
    [x \in {d.content[n] : n \in DOMAIN d.content} |->
       Cardinality({n \in DOMAIN d.content : d.content[n] = x})]

SameLayer(d, e) == d.name = e.name /\ d.version.record = e.version.record

WrongPriors(rows, d) ==
    LET same == {e \in rows : SameLayer(d, e)} IN
    {e \in same : \A x \in same : x.at <= e.at}

WrongPriorsVersion(rows, d) ==
    LET same == {e \in rows : d.name = e.name /\ d.version = e.version /\ e # d} IN
    {e \in same : \A x \in same : x.at <= e.at}

(* The latest dataset of the same name and record; created_at may tie.     *)
Priors(rows, d) ==
    LET same == {e \in rows : SameLayer(d, e) /\ e # d} IN
    {e \in same : \A x \in same : x.at <= e.at}

Next1(r) == IF Len(run[r].todo) = 1 THEN "part" ELSE "compare"

(* The dataset says something new and stays.                               *)
Keep(r) ==
    LET d == Head(run[r].todo)
        priors == Priors(Visible(r).datasets, d) IN
    /\ run[r].pc = "compare" /\ run[r].todo # <<>>
    /\ priors = {} \/ \E e \in priors : Digest(e) # Digest(d)
    /\ Moves(r, [run[r] EXCEPT !.todo = Tail(@), !.pc = Next1(r),
                            !.part = IF Len(run[r].todo) = 1 THEN @ + 1 ELSE @])
    /\ UNCHANGED <<objects, db, clock, commits, emptied, mishaps>>

WrongDrop(r) ==
    LET d == Head(run[r].todo) IN
    /\ run[r].pc = "compare" /\ run[r].todo # <<>>
    /\ \E e \in Priors(Visible(r).datasets, d) : Digest(e) = Digest(d)
    /\ Moves(r, [run[r] EXCEPT
         !.pc = Next1(r), !.part = IF Len(run[r].todo) = 1 THEN @ + 1 ELSE @,
         !.todo = Tail(@),
         !.new.datasets = @ \ {d}, !.dropped = @ \cup {d}])
    /\ UNCHANGED <<objects, db, clock, commits, emptied, mishaps>>

(* It repeats the prior one and goes, and so does its version if nothing   *)
(* is left on it; version.datasets is read once and then remembered.       *)
Drop(r) ==
    LET d == Head(run[r].todo)
        rows == [Visible(r) EXCEPT !.datasets = @ \ {d}]
        left == On(rows, d.version) IN
    /\ run[r].pc = "compare" /\ run[r].todo # <<>>
    /\ \E e \in Priors(Visible(r).datasets, d) : Digest(e) = Digest(d)
    /\ Moves(r, [run[r] EXCEPT
         !.pc = IF left = {} /\ ~run[r].loaded THEN "delete" ELSE Next1(r),
         !.part = IF Len(run[r].todo) = 1 THEN @ + 1 ELSE @,
         !.todo = Tail(@),
         !.new.datasets = @ \ {d}, !.dropped = @ \cup {d},
         !.loaded = @ \/ left \cap rows.datasets # {}])
    /\ UNCHANGED <<objects, db, clock, commits, emptied, mishaps>>

(* The flush of the deletion waits for runs that inserted rows on the      *)
(* version or are deleting it too, and fails if rows hang on it then.      *)
DeleteVersion(r) ==
    LET v == run[r].version IN
    /\ run[r].pc = "delete"
    /\ \A o \in Run \ {r} : On(run[o].new, v) = {} /\ v \notin run[o].gone
    /\ \/ /\ On(Visible(r), v) = {}
          /\ Moves(r, [run[r] EXCEPT !.pc = IF run[r].todo = <<>> THEN "part" ELSE "compare",
                                  !.gone = @ \cup {v}])
          /\ UNCHANGED <<objects, db, clock, commits, emptied, mishaps>>
       \/ /\ On(Visible(r), v) # {}
          /\ Break(r)

-----------------------------------------------------------------------------
Next ==
    \E r \in Run :
      \/ Begin(r) \/ Commit(r) \/ RunDies(r) \/ StageFails(r)
      \/ \E f \in Sha : Stage(r, f)
      \/ ResolveRecord(r) \/ ResolveVersion(r)
      \/ ImportVector(r) \/ ImportRaster(r) \/ ReadDocument(r) \/ ImportDocument(r) \/ SkipPart(r)
      \/ Finish(r)
      \/ Keep(r) \/ Drop(r) \/ DeleteVersion(r)

Spec == Init /\ [][Next]_vars

-----------------------------------------------------------------------------
(* Properties                                                              *)

(* Types of the variables, and what a run in progress points at.           *)
TypeOK ==
    /\ objects \subseteq Sha /\ clock \in 0 .. MaxClock /\ mishaps \in 0 .. MaxMishaps
    /\ \A r \in Run :
         /\ run[r].pc \in {"idle", "ready", "record", "version", "part", "compare", "delete"}
         /\ run[r].pc = "compare" <=> run[r].todo # <<>> /\ run[r].pc # "delete"
         /\ \A n \in DOMAIN run[r].todo : run[r].todo[n] \in run[r].new.datasets
    /\ \A a \in db.artifacts : a.sha \in Sha /\ a.status \in {"downloaded", "imported"}

TitleOf(v) == v.record.title

(* "Every derived result references its source evidence": of each dataset  *)
(* and document there is the artifact it was made from, its stored bytes   *)
(* and its version, whatever failed, died or was dropped.                  *)
Traced(rows, stored) ==
    \A d \in rows.datasets \cup rows.documents :
      /\ \E a \in rows.artifacts : a.at = d.at /\ a.sha = d.sha
      /\ d.sha \in stored
      /\ d.version \in rows.versions /\ d.version.record \in rows.records

Traceable == Traced(db, objects)

(* Only the redundant copy is dropped: every layer of a file that counts   *)
(* as imported is in some dataset of that name of the file's record.       *)
Kept(rows) ==
    \A a \in rows.artifacts : a.status = "imported" =>
      \A n \in DOMAIN File[a.sha].parts :
        LET layers == File[a.sha].parts[n].layers IN
        \A i \in DOMAIN layers : \E d \in rows.datasets :
          /\ d.name = layers[i].name /\ Digest(d) = Digest(layers[i])
          /\ TitleOf(d.version) = File[a.sha].title

ContentKept == Kept(db)

(* What earlier runs left keeps these promises.                            *)
ASSUME EarlierAssumption ==
    LET rows == Earlier.db IN
    /\ Earlier.objects \subseteq Sha /\ DOMAIN rows = DOMAIN NoRows
    /\ \A a \in rows.artifacts : a.sha \in Sha /\ a.status \in {"downloaded", "imported"}
    /\ \A v \in rows.versions : v.record \in rows.records
    /\ \A x \in rows.artifacts \cup rows.versions \cup rows.datasets : x.at = 0
    /\ Traced(rows, Earlier.objects) /\ Kept(rows)

(* Re-rendered files mint no duplicates: a vector dataset of an imported   *)
(* file does not repeat the one before it in its record, provided that no  *)
(* run that overlapped with its own, nor its own, brought the layer too.   *)
End(d) == (CHOOSE c \in commits : c.at = d.at).end

NoRedundantCopies ==
    \A d \in db.datasets :
      LET others == {e \in db.datasets : SameLayer(d, e) /\ e # d}
          earlier == {e \in others : e.at < d.at}
          last == {e \in earlier : \A x \in earlier : x.at <= e.at}
          imported == [at |-> d.at, sha |-> d.sha, status |-> "imported"] \in db.artifacts
          apart == \A e \in others : End(e) < d.at \/ End(d) < e.at IN
      d.kind = "vector" /\ imported /\ apart /\ last # {}
        => \E e \in last : Digest(e) # Digest(d)

(* "The now-empty version is deleted too when nothing references it": what *)
(* lost a dataset to deduplication has something else on it, or is gone.   *)
NoVersionLeftEmpty ==
    \A d \in emptied : d.version \in db.versions => On(db, d.version) # {}

(* It is left with nothing on it in one case only: the run dropped several *)
(* layers of one part, as at the first of them it remembers the others.    *)
OfOnePart(x, y) ==
    x # y /\ x.version = y.version /\ x.at = y.at /\ x.sha = y.sha /\ x.part = y.part

LeftEmptyByLayersOnly ==
    \A d \in emptied : d.version \in db.versions /\ On(db, d.version) = {} =>
      \E x, y \in emptied : x.version = d.version /\ OfOnePart(x, y)

(* "Historical versions are preserved", "never deleted": no run removes a  *)
(* committed artifact, dataset, document or stored object, and none takes  *)
(* back that an artifact was imported; a version goes only when nothing    *)
(* hangs on it.                                                            *)
NothingRewritten ==
    [][/\ objects \subseteq objects'
       /\ db.artifacts \subseteq db'.artifacts /\ db.records \subseteq db'.records
       /\ db.datasets \subseteq db'.datasets /\ db.documents \subseteq db'.documents
       /\ \A v \in db.versions \ db'.versions : On(db, v) = {}]_vars

(* "Identical bytes are deduplicated -- one sha256, one artifact", whatever *)
(* runs overlapped.                                                        *)
OneShaOneArtifact ==
    \A a, b \in db.artifacts : a.sha = b.sha => a = b

(* "The new immutable artifact and its observation/change event stay --    *)
(* only the redundant derived copy is removed": dropping it never costs    *)
(* the run its transaction.                                                *)
DroppingIsHarmless ==
    [][\A r \in Run : run[r].pc # "idle" /\ run'[r].pc = "idle"
         => commits' # commits \/ mishaps' # mishaps]_vars
=============================================================================
