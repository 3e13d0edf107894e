----------------------------- MODULE StagingProofs -----------------------------
(***************************************************************************)
(* Proofs about ArtifactStaging, for any processes, files and bounds: what *)
(* is derived stays traceable to its evidence, what counts as imported is  *)
(* there, no committed evidence or result is taken back, and what repeats  *)
(* the import before it does not stay.                                     *)
(***************************************************************************)
EXTENDS ArtifactStaging, SequenceTheorems, TLAPS

Fields == {"pc", "at", "new", "gone", "sha", "record", "version", "part", "todo", "loaded",
           "reading", "target", "dropped"}
Tables == {"artifacts", "records", "versions", "datasets", "documents"}

(* Where a run may be while it stages a file.                              *)
Staging == {"record", "version", "part", "compare", "delete"}

(* The shape of a transaction.                                             *)
TxnTyped(t) ==
    /\ DOMAIN t = Fields /\ DOMAIN t.new = Tables
    /\ t.pc \in {"idle", "ready"} \cup Staging
    /\ \A a \in t.new.artifacts :
         a = [at |-> a.at, sha |-> a.sha, status |-> a.status]
         /\ a.sha \in Sha /\ a.status \in {"downloaded", "imported"}
    /\ t.pc \in Staging => t.sha \in Sha /\ t.part \in Nat \ {0}

(* The datasets yet to be compared are its own, each once.                 *)
TxnTodo(t) ==
    /\ t.todo \in Seq(t.new.datasets)
    /\ \A i, j \in DOMAIN t.todo : t.todo[i] = t.todo[j] => i = j
    /\ t.pc = "compare" <=> t.todo # <<>> /\ t.pc # "delete"

(* Its rows have their origin in it; what they point at is committed or    *)
(* its own, and stored.                                                    *)
TxnSourced(t, rows, stored) ==
    /\ t.pc \in Staging =>
         t.sha \in stored /\ \E a \in t.new.artifacts : a.at = t.at /\ a.sha = t.sha
    /\ t.pc = "version" => t.record \in rows.records \cup t.new.records
    /\ \A v \in t.new.versions : v.record \in rows.records \cup t.new.records
    /\ \A d \in t.new.datasets \cup t.new.documents :
         /\ d.version \in rows.versions \cup t.new.versions /\ d.sha \in stored
         /\ \E a \in t.new.artifacts : a.at = d.at /\ a.sha = d.sha

(* A dataset that holds layer i of part n of a file.                       *)
Holds(datasets, sha, n, i) ==
    \E d \in datasets : /\ d.name = File[sha].parts[n].layers[i].name
                        /\ Digest(d) = Digest(File[sha].parts[n].layers[i])
                        /\ TitleOf(d.version) = File[sha].title

HoldsPart(datasets, sha, n) ==
    n \in DOMAIN File[sha].parts =>
      \A i \in DOMAIN File[sha].parts[n].layers : Holds(datasets, sha, n, i)

(* The parts it is done with, and the one whose datasets it compares, are  *)
(* held; the version they hang on is one of the record of the file.        *)
TxnKeeps(t, rows) ==
    /\ \A a \in t.new.artifacts : a.status = "imported" =>
         \A n \in DOMAIN File[a.sha].parts : HoldsPart(rows.datasets \cup t.new.datasets, a.sha, n)
    /\ t.pc \in Staging => \A n \in DOMAIN File[t.sha].parts :
         n < t.part \/ (n = t.part /\ t.todo # <<>>) =>
           HoldsPart(rows.datasets \cup t.new.datasets, t.sha, n)
    /\ t.pc \in {"part", "compare", "delete"} \/ (t.pc \in Staging /\ t.reading) =>
         t.version.record.title = File[t.sha].title
    /\ t.pc = "version" /\ ~t.reading => t.record.title = File[t.sha].title

TxnOK(t, rows, stored) ==
    TxnTyped(t) /\ TxnTodo(t) /\ TxnSourced(t, rows, stored) /\ TxnKeeps(t, rows)

(* Nothing hangs on a version a run is deleting, in whatever transaction.  *)
Bare(v) == On(db, v) = {} /\ \A o \in Run : On(run[o].new, v) = {}

CommittedOK ==
    /\ DOMAIN db = Tables
    /\ \A a \in db.artifacts : a.sha \in Sha /\ a.status \in {"downloaded", "imported"}
    /\ \A v \in db.versions : v.record \in db.records
    /\ Traceable /\ ContentKept

Sound ==
    /\ objects \subseteq Sha /\ clock \in 0 .. MaxClock /\ mishaps \in 0 .. MaxMishaps
    /\ CommittedOK
    /\ DOMAIN run = Run /\ \A r \in Run : TxnOK(run[r], db, objects)
    /\ \A r \in Run : \A v \in run[r].gone : Bare(v)

-----------------------------------------------------------------------------
LEMMA NoRunOK == ASSUME NEW rows, NEW stored PROVE TxnOK(NoRun, rows, stored)
  <1>1. TxnTyped(NoRun)
    BY DEF TxnTyped, NoRun, NoRows, Fields, Tables, Staging
  <1>2. TxnTodo(NoRun)
    BY DEF TxnTodo, NoRun, NoRows
  <1>3. TxnSourced(NoRun, rows, stored) /\ TxnKeeps(NoRun, rows)
    BY DEF TxnSourced, TxnKeeps, NoRun, NoRows, Staging
  <1> QED
    BY <1>1, <1>2, <1>3 DEF TxnOK

LEMMA SoundInit == Init => Sound
  <1> SUFFICES ASSUME Init PROVE Sound
    OBVIOUS
  <1>1. CommittedOK
    <2>1. DOMAIN db = Tables
      BY EarlierAssumption DEF Init, NoRows, Tables
    <2> QED
      BY <2>1, EarlierAssumption DEF Init, CommittedOK, Traceable, ContentKept
  <1>2. objects \subseteq Sha /\ clock \in 0 .. MaxClock /\ mishaps \in 0 .. MaxMishaps
    BY EarlierAssumption, BoundAssumption DEF Init
  <1>3. DOMAIN run = Run /\ \A r \in Run : run[r] = NoRun
    BY DEF Init
  <1>4. \A r \in Run : TxnOK(run[r], db, objects)
    BY <1>3, NoRunOK
  <1>5. NoRun.gone = {}
    BY DEF NoRun
  <1> QED
    BY <1>1, <1>2, <1>3, <1>4, <1>5 DEF Sound

(* A step within one transaction keeps everything sound if it does in that *)
(* transaction, and if what it hangs on versions and deletes of them does  *)
(* not collide with the others.                                            *)
LEMMA OwnStep ==
  ASSUME Sound, NEW r \in Run, NEW t, Moves(r, t), UNCHANGED db,
         objects \subseteq objects', objects' \subseteq Sha,
         clock' \in 0 .. MaxClock, mishaps' \in 0 .. MaxMishaps,
         TxnOK(t, db, objects'),
         \A v \in t.gone : /\ On(db, v) = {} /\ On(t.new, v) = {}
                           /\ \A o \in Run \ {r} : On(run[o].new, v) = {},
         \A o \in Run \ {r} : \A v \in run[o].gone : On(t.new, v) = {}
  PROVE  Sound'
  <1>1. DOMAIN run' = Run /\ run'[r] = t /\ \A o \in Run \ {r} : run'[o] = run[o]
    BY DEF Moves, Sound
  <1>2. CommittedOK'
    BY DEF Sound, CommittedOK, Traceable, Traced, ContentKept, Kept
  <1>3. \A o \in Run : TxnOK(run[o], db, objects)' 
    <2> SUFFICES ASSUME NEW o \in Run PROVE TxnOK(run'[o], db, objects')
      OBVIOUS
    <2>1. CASE o = r
      BY <1>1, <2>1
    <2>2. CASE o # r
      <3>1. run'[o] = run[o] /\ TxnOK(run[o], db, objects)
        BY <1>1, <2>2 DEF Sound
      <3> QED
        BY <3>1 DEF TxnOK, TxnSourced
    <2> QED
      BY <2>1, <2>2
  <1>4. \A o \in Run : \A v \in run'[o].gone : Bare(v)'
    <2> SUFFICES ASSUME NEW o \in Run, NEW v \in run'[o].gone, NEW q \in Run
                 PROVE  On(db, v) = {} /\ On(run'[q].new, v) = {}
      BY DEF Bare, On
    <2>1. CASE o = r
      BY <1>1, <2>1
    <2>2. CASE o # r
      <3>1. v \in run[o].gone /\ Bare(v)
        BY <1>1, <2>2 DEF Sound
      <3> QED
        BY <1>1, <2>2, <3>1 DEF Bare
    <2> QED
      BY <2>1, <2>2
  <1> QED
    BY <1>1, <1>2, <1>3, <1>4 DEF Sound

(* A step that makes no rows that hang on versions and deletes none.       *)
LEMMA QuietStep ==
  ASSUME Sound, NEW r \in Run, NEW t, Moves(r, t), UNCHANGED db,
         objects \subseteq objects', objects' \subseteq Sha,
         clock' \in 0 .. MaxClock, mishaps' \in 0 .. MaxMishaps,
         TxnOK(t, db, objects'), t.gone \subseteq run[r].gone,
         t.new.datasets \subseteq run[r].new.datasets, t.new.documents \subseteq run[r].new.documents
  PROVE  Sound'
  <1>1. \A v : On(t.new, v) \subseteq On(run[r].new, v)
    BY DEF On
  <1>2. \A o \in Run : \A v \in run[o].gone : Bare(v)
    BY DEF Sound
  <1>3. \A v \in t.gone : /\ On(db, v) = {} /\ On(t.new, v) = {}
                          /\ \A o \in Run \ {r} : On(run[o].new, v) = {}
    BY <1>1, <1>2 DEF Bare
  <1>4. \A o \in Run \ {r} : \A v \in run[o].gone : On(t.new, v) = {}
    BY <1>1, <1>2 DEF Bare
  <1> QED
    BY <1>3, <1>4, OwnStep

LEMMA MishapType ==
  ASSUME Sound, Mishap PROVE mishaps' \in 0 .. MaxMishaps
  BY BoundAssumption DEF Sound, Mishap

-----------------------------------------------------------------------------
(* Runs begin and end.                                                     *)

LEMMA BeginSound == ASSUME Sound, NEW r \in Run, Begin(r) PROVE Sound'
  <1> DEFINE t == [NoRun EXCEPT !.pc = "ready", !.at = clock']
  <1>1. Moves(r, t) /\ clock' \in 0 .. MaxClock /\ UNCHANGED <<objects, db, mishaps>>
    BY BoundAssumption DEF Begin, Sound
  <1>2. /\ DOMAIN t = Fields /\ t.new = NoRows /\ t.pc = "ready" /\ t.todo = <<>> /\ t.gone = {}
    BY DEF NoRun, Fields
  <1> HIDE DEF t
  <1>3. TxnTyped(t) /\ TxnTodo(t)
    BY <1>2 DEF TxnTyped, TxnTodo, NoRows, Tables, Staging
  <1>4. TxnSourced(t, db, objects) /\ TxnKeeps(t, db)
    BY <1>2 DEF TxnSourced, TxnKeeps, NoRows, Staging
  <1>5. t.gone \subseteq run[r].gone /\ t.new.datasets \subseteq run[r].new.datasets
        /\ t.new.documents \subseteq run[r].new.documents
    BY <1>2 DEF NoRows
  <1> QED
    BY <1>1, <1>3, <1>4, <1>5, QuietStep DEF Sound, TxnOK

(* A run that ends without a commit, of its own accord or not.             *)
LEMMA EndSound ==
  ASSUME Sound, NEW r \in Run, Moves(r, NoRun), UNCHANGED <<objects, db>>,
         clock' \in 0 .. MaxClock, mishaps' \in 0 .. MaxMishaps
  PROVE  Sound'
  <1>1. NoRun.gone = {} /\ NoRun.new.datasets = {} /\ NoRun.new.documents = {}
    BY DEF NoRun, NoRows
  <1> QED
    BY <1>1, NoRunOK, QuietStep DEF Sound

LEMMA BreakSound == ASSUME Sound, NEW r \in Run, Break(r) PROVE Sound'
  BY EndSound DEF Break, Sound

LEMMA RunDiesSound == ASSUME Sound, NEW r \in Run, RunDies(r) PROVE Sound'
  BY EndSound, MishapType DEF RunDies, Sound

(* What a commit makes of the tables is sound: the versions it takes away  *)
(* are bare, and what it adds points at what it adds or what was there.    *)
LEMMA CommitTables ==
  ASSUME Sound, NEW r \in Run, Commit(r)
  PROVE  /\ CommittedOK'
         /\ db.artifacts \subseteq db'.artifacts /\ db.records \subseteq db'.records
         /\ db.datasets \subseteq db'.datasets /\ db.documents \subseteq db'.documents
         /\ db'.versions = (db.versions \cup run[r].new.versions) \ run[r].gone
  <1> DEFINE n == run[r].new
  <1>1. /\ db'.artifacts = db.artifacts \cup n.artifacts /\ db'.records = db.records \cup n.records
        /\ db'.versions = (db.versions \cup n.versions) \ run[r].gone
        /\ db'.datasets = db.datasets \cup n.datasets /\ db'.documents = db.documents \cup n.documents
        /\ DOMAIN db' = Tables /\ objects' = objects
    BY DEF Commit, Visible, Tables
  <1>2. TxnOK(run[r], db, objects) /\ CommittedOK /\ \A v \in run[r].gone : Bare(v)
    BY DEF Sound
  <1>3. \A d \in db'.datasets \cup db'.documents : d.version \notin run[r].gone
    BY <1>1, <1>2 DEF Bare, On
  <1>4. \A a \in db'.artifacts : a.sha \in Sha /\ a.status \in {"downloaded", "imported"}
    BY <1>1, <1>2 DEF CommittedOK, TxnOK, TxnTyped
  <1>5. \A v \in db'.versions : v.record \in db'.records
    BY <1>1, <1>2 DEF CommittedOK, TxnOK, TxnSourced
  <1>6. Traceable'
    <2> SUFFICES ASSUME NEW d \in db'.datasets \cup db'.documents
                 PROVE  /\ \E a \in db'.artifacts : a.at = d.at /\ a.sha = d.sha
                        /\ d.sha \in objects' /\ d.version \in db.versions \cup n.versions
      BY <1>1, <1>3, <1>5 DEF Traceable, Traced
    <2>1. CASE d \in db.datasets \cup db.documents
      BY <1>1, <1>2, <2>1 DEF CommittedOK, Traceable, Traced
    <2>2. CASE d \in n.datasets \cup n.documents
      BY <1>1, <1>2, <2>2 DEF TxnOK, TxnSourced
    <2> QED
      BY <1>1, <2>1, <2>2
  <1>7. ContentKept'
    <2> SUFFICES ASSUME NEW a \in db'.artifacts, a.status = "imported",
                        NEW m \in DOMAIN File[a.sha].parts,
                        NEW i \in DOMAIN File[a.sha].parts[m].layers
                 PROVE  Holds(db'.datasets, a.sha, m, i)
      BY DEF ContentKept, Kept, Holds
    <2>1. CASE a \in db.artifacts
      <3>1. Holds(db.datasets, a.sha, m, i)
        BY <1>2, <2>1 DEF CommittedOK, ContentKept, Kept, Holds
      <3> QED
        BY <1>1, <3>1 DEF Holds
    <2>2. CASE a \in n.artifacts
      BY <1>1, <1>2, <2>2 DEF TxnOK, TxnKeeps, HoldsPart
    <2> QED
      BY <1>1, <2>1, <2>2
  <1> QED
    BY <1>1, <1>4, <1>5, <1>6, <1>7 DEF CommittedOK

LEMMA CommitSound == ASSUME Sound, NEW r \in Run, Commit(r) PROVE Sound'
  <1>1. /\ DOMAIN run' = Run /\ run'[r] = NoRun /\ \A o \in Run \ {r} : run'[o] = run[o]
        /\ objects' = objects /\ clock' \in 0 .. MaxClock /\ mishaps' = mishaps
    BY BoundAssumption DEF Commit, Moves, Sound
  <1>2. CommittedOK'
    BY CommitTables
  <1>3. \A v : On(db', v) = On(db, v) \cup On(run[r].new, v)
    BY DEF On, Commit, Visible
  <1>4. \A o \in Run : TxnOK(run[o], db, objects)'
    <2> SUFFICES ASSUME NEW o \in Run PROVE TxnOK(run'[o], db', objects')
      OBVIOUS
    <2>1. CASE o = r
      BY <1>1, <2>1, NoRunOK
    <2>2. CASE o # r
      <3>1. run'[o] = run[o] /\ TxnOK(run[o], db, objects)
        BY <1>1, <2>2 DEF Sound
      <3>2. \A d \in run[o].new.datasets \cup run[o].new.documents : d.version \notin run[r].gone
        BY DEF Sound, Bare, On
      <3>3. TxnSourced(run[o], db', objects')
        BY <1>1, <3>1, <3>2, CommitTables DEF TxnOK, TxnSourced
      <3>4. \A sha, m : HoldsPart(db.datasets \cup run[o].new.datasets, sha, m)
                         => HoldsPart(db'.datasets \cup run[o].new.datasets, sha, m)
        BY CommitTables DEF HoldsPart, Holds
      <3>5. TxnKeeps(run[o], db')
        BY <3>1, <3>4 DEF TxnOK, TxnKeeps
      <3> QED
        BY <3>1, <3>3, <3>5 DEF TxnOK
    <2> QED
      BY <2>1, <2>2
  <1>5. \A o \in Run : \A v \in run'[o].gone : Bare(v)'
    <2> SUFFICES ASSUME NEW o \in Run, NEW v \in run'[o].gone, NEW q \in Run
                 PROVE  On(db', v) = {} /\ On(run'[q].new, v) = {}
      BY DEF Bare, On
    <2>1. NoRun.gone = {} /\ On(NoRun.new, v) = {}
      BY DEF NoRun, NoRows, On
    <2>2. v \in run[o].gone /\ Bare(v)
      BY <1>1, <2>1 DEF Sound
    <2> QED
      BY <1>1, <1>3, <2>1, <2>2 DEF Bare
  <1> QED
    BY <1>1, <1>2, <1>4, <1>5 DEF Sound

-----------------------------------------------------------------------------
(* Evidence is stored and entered, a handler fails, a file is finished.    *)

LEMMA PartNumbers ==
  ASSUME NEW f \in Sha
  PROVE  Len(File[f].parts) \in Nat /\ DOMAIN File[f].parts = 1 .. Len(File[f].parts)
  BY FileAssumption

LEMMA StageSound == ASSUME Sound, NEW r \in Run, NEW f \in Sha, Stage(r, f) PROVE Sound'
  <1> DEFINE o == run[r]
             row == [at |-> o.at, sha |-> f, status |-> "downloaded"]
             t == [o EXCEPT
               !.pc = "record", !.sha = f, !.part = 1, !.loaded = FALSE,
               !.reading = FALSE, !.target = None,
               !.new.artifacts = @ \cup {row}]
  <1>1. /\ Moves(r, t) /\ objects' = objects \cup {f} /\ UNCHANGED <<db, clock, mishaps>>
        /\ o.pc = "ready" /\ TxnOK(o, db, objects)
    BY DEF Stage, Sound
  <1>2. DOMAIN o = Fields /\ DOMAIN o.new = Tables
    BY <1>1 DEF TxnOK, TxnTyped
  <1>3. /\ DOMAIN t = Fields /\ DOMAIN t.new = Tables
        /\ t.pc = "record" /\ t.at = o.at /\ t.sha = f /\ t.part = 1 /\ t.reading = FALSE
        /\ t.todo = o.todo /\ t.gone = o.gone
        /\ t.new.artifacts = o.new.artifacts \cup {row} /\ t.new.records = o.new.records
        /\ t.new.versions = o.new.versions /\ t.new.datasets = o.new.datasets
        /\ t.new.documents = o.new.documents
    BY <1>2 DEF Fields, Tables
  <1>4. row = [at |-> row.at, sha |-> row.sha, status |-> row.status] /\ row.at = o.at
        /\ row.sha = f /\ row.status = "downloaded"
    OBVIOUS
  <1> HIDE DEF t, row
  <1>5. TxnTyped(t)
    BY <1>1, <1>3, <1>4 DEF TxnOK, TxnTyped, Staging
  <1>6. TxnTodo(t)
    BY <1>1, <1>3 DEF TxnOK, TxnTodo
  <1>7. TxnSourced(t, db, objects')
    BY <1>1, <1>3, <1>4 DEF TxnOK, TxnSourced
  <1>8. TxnKeeps(t, db)
    <2>1. t.todo = <<>>
      BY <1>1, <1>3 DEF TxnOK, TxnTodo
    <2>2. \A n \in DOMAIN File[t.sha].parts : ~(n < t.part)
      BY <1>3, PartNumbers
    <2> QED
      BY <1>1, <1>3, <1>4, <2>1, <2>2 DEF TxnOK, TxnKeeps
  <1> QED
    BY <1>1, <1>3, <1>5, <1>6, <1>7, <1>8, QuietStep DEF Sound, TxnOK

LEMMA StageFailsSound == ASSUME Sound, NEW r \in Run, StageFails(r) PROVE Sound'
  <1> DEFINE o == run[r]
             t == [o EXCEPT !.pc = "ready", !.todo = <<>>]
  <1>1. Moves(r, t) /\ UNCHANGED <<objects, db, clock>> /\ TxnOK(o, db, objects)
    BY DEF StageFails, Sound
  <1>2. DOMAIN o = Fields
    BY <1>1 DEF TxnOK, TxnTyped
  <1>3. DOMAIN t = Fields /\ t.pc = "ready" /\ t.todo = <<>> /\ t.gone = o.gone /\ t.new = o.new
    BY <1>2 DEF Fields
  <1> HIDE DEF t
  <1>4. TxnTyped(t) /\ TxnTodo(t)
    BY <1>1, <1>3, SMTT(30) DEF TxnOK, TxnTyped, TxnTodo, Staging
  <1>5. TxnSourced(t, db, objects) /\ TxnKeeps(t, db)
    BY <1>1, <1>3 DEF TxnOK, TxnSourced, TxnKeeps, Staging
  <1> QED
    BY <1>1, <1>3, <1>4, <1>5, MishapType, QuietStep DEF Sound, TxnOK, StageFails

LEMMA FinishSound == ASSUME Sound, NEW r \in Run, Finish(r) PROVE Sound'
  <1> DEFINE o == run[r]
             Mark(a) == [a EXCEPT !.status = IF a.sha = o.sha THEN "imported" ELSE a.status]
             marked == {Mark(a) : a \in o.new.artifacts}
             t == [o EXCEPT !.pc = "ready", !.new.artifacts = marked]
  <1>1. /\ Moves(r, t) /\ UNCHANGED <<objects, db, clock, mishaps>> /\ TxnOK(o, db, objects)
        /\ o.pc = "part" /\ o.part > Len(File[o.sha].parts)
    BY DEF Finish, Sound
  <1>2. DOMAIN o = Fields /\ DOMAIN o.new = Tables
    BY <1>1 DEF TxnOK, TxnTyped
  <1>3. /\ DOMAIN t = Fields /\ DOMAIN t.new = Tables /\ t.pc = "ready"
        /\ t.todo = o.todo /\ t.gone = o.gone
        /\ t.new.artifacts = marked /\ t.new.records = o.new.records
        /\ t.new.versions = o.new.versions /\ t.new.datasets = o.new.datasets
        /\ t.new.documents = o.new.documents
    BY <1>2 DEF Fields, Tables
  <1>4. \A a \in o.new.artifacts :
          /\ Mark(a) = [at |-> a.at, sha |-> a.sha, status |-> Mark(a).status]
          /\ Mark(a).at = a.at /\ Mark(a).sha = a.sha
          /\ Mark(a).status = IF a.sha = o.sha THEN "imported" ELSE a.status
    <2> SUFFICES ASSUME NEW a \in o.new.artifacts
                 PROVE  /\ Mark(a) = [at |-> a.at, sha |-> a.sha, status |-> Mark(a).status]
                        /\ Mark(a).at = a.at /\ Mark(a).sha = a.sha
                        /\ Mark(a).status = IF a.sha = o.sha THEN "imported" ELSE a.status
      OBVIOUS
    <2>1. a = [at |-> a.at, sha |-> a.sha, status |-> a.status]
      BY <1>1 DEF TxnOK, TxnTyped
    <2> QED
      BY <2>1
  <1> HIDE DEF t, Mark
  <1>5. TxnTyped(t)
    BY <1>1, <1>3, <1>4 DEF TxnOK, TxnTyped, Staging
  <1>6. TxnTodo(t) /\ o.todo = <<>>
    BY <1>1, <1>3 DEF TxnOK, TxnTodo
  <1>7. TxnSourced(t, db, objects)
    <2>1. \A a \in o.new.artifacts : Mark(a) \in marked
      OBVIOUS
    <2>2. \A d \in t.new.datasets \cup t.new.documents :
            \E a \in t.new.artifacts : a.at = d.at /\ a.sha = d.sha
      BY <1>1, <1>3, <1>4, <2>1 DEF TxnOK, TxnSourced
    <2> QED
      BY <1>1, <1>3, <2>2, SMTT(30) DEF TxnOK, TxnSourced, Staging
  <1>8. TxnKeeps(t, db)
    <2>1. \A n \in DOMAIN File[o.sha].parts : HoldsPart(db.datasets \cup o.new.datasets, o.sha, n)
      <3>1. o.sha \in Sha /\ o.part \in Nat \ {0}
        BY <1>1 DEF TxnOK, TxnTyped, Staging
      <3>2. \A n \in DOMAIN File[o.sha].parts : n < o.part
        BY <1>1, <3>1, PartNumbers
      <3> QED
        BY <1>1, <3>2 DEF TxnOK, TxnKeeps, Staging
    <2>2. ASSUME NEW a \in o.new.artifacts, Mark(a).status = "imported",
                 NEW n \in DOMAIN File[a.sha].parts
          PROVE  HoldsPart(db.datasets \cup o.new.datasets, a.sha, n)
      <3>1. CASE a.sha = o.sha
        BY <2>1, <2>2, <3>1
      <3>2. CASE a.sha # o.sha
        BY <1>1, <1>4, <2>2, <3>2 DEF TxnOK, TxnKeeps
      <3> QED
        BY <3>1, <3>2
    <2>3. ASSUME NEW b \in t.new.artifacts, b.status = "imported",
                 NEW n \in DOMAIN File[b.sha].parts
          PROVE  HoldsPart(db.datasets \cup o.new.datasets, b.sha, n)
      <3>1. PICK a \in o.new.artifacts : b = Mark(a)
        BY <1>3, <2>3
      <3>2. b.sha = a.sha
        BY <1>4, <3>1
      <3> QED
        BY <2>2, <2>3, <3>1, <3>2
    <2> QED
      BY <1>3, <2>3 DEF TxnKeeps, Staging
  <1> QED
    BY <1>1, <1>3, <1>5, <1>6, <1>7, <1>8, QuietStep DEF Sound, TxnOK

-----------------------------------------------------------------------------
(* The record and the version of a file are found or made.                 *)

LEMMA LookupFails ==
  ASSUME Sound, NEW r \in Run, run[r].pc \in {"record", "version"},
         Moves(r, [run[r] EXCEPT !.pc = "ready"]), UNCHANGED <<objects, db, clock, mishaps>>
  PROVE  Sound'
  <1> DEFINE o == run[r]
             t == [o EXCEPT !.pc = "ready"]
  <1>1. Moves(r, t) /\ TxnOK(o, db, objects)
    BY DEF Sound
  <1>2. DOMAIN o = Fields
    BY <1>1 DEF TxnOK, TxnTyped
  <1>3. DOMAIN t = Fields /\ t.pc = "ready" /\ t.todo = o.todo /\ t.gone = o.gone /\ t.new = o.new
    BY <1>2 DEF Fields
  <1> HIDE DEF t
  <1>4. TxnTyped(t) /\ TxnTodo(t)
    BY <1>1, <1>3, SMTT(30) DEF TxnOK, TxnTyped, TxnTodo, Staging
  <1>5. TxnSourced(t, db, objects) /\ TxnKeeps(t, db)
    BY <1>1, <1>3 DEF TxnOK, TxnSourced, TxnKeeps, Staging
  <1> QED
    BY <1>1, <1>3, <1>4, <1>5, QuietStep DEF Sound, TxnOK

LEMMA ResolveRecordSound == ASSUME Sound, NEW r \in Run, ResolveRecord(r) PROVE Sound'
  <1> DEFINE o == run[r]
             title == Hints(r).title
             found == {x \in Visible(r).records : x.title = title}
             row == [at |-> o.at, sha |-> o.sha, title |-> title]
             record == IF found = {} THEN row ELSE CHOOSE x \in found : TRUE
             t == [o EXCEPT !.pc = "version",
                            !.new.records = IF found = {} THEN @ \cup {row} ELSE @,
                            !.record = record]
  <1>1. /\ o.pc = "record" /\ TxnOK(o, db, objects) /\ UNCHANGED <<objects, db, clock, mishaps>>
        /\ Moves(r, [o EXCEPT !.pc = "ready"]) \/ Moves(r, t)
    BY DEF ResolveRecord, GetOrCreate, Sound
  <1>2. DOMAIN o = Fields /\ DOMAIN o.new = Tables
    BY <1>1 DEF TxnOK, TxnTyped
  <1>3. /\ DOMAIN t = Fields /\ DOMAIN t.new = Tables
        /\ t.pc = "version" /\ t.at = o.at /\ t.sha = o.sha /\ t.part = o.part
        /\ t.reading = o.reading /\ t.todo = o.todo /\ t.gone = o.gone
        /\ t.record = record /\ t.version = o.version
        /\ t.new.artifacts = o.new.artifacts
        /\ t.new.records = (IF found = {} THEN o.new.records \cup {row} ELSE o.new.records)
        /\ t.new.versions = o.new.versions /\ t.new.datasets = o.new.datasets
        /\ t.new.documents = o.new.documents
    BY <1>2 DEF Fields, Tables
  <1>4. record \in db.records \cup t.new.records /\ record.title = title
    <2>1. row.title = title
      OBVIOUS
    <2>2. found # {} => record \in found
      OBVIOUS
    <2>3. \A x \in found : x \in db.records \cup o.new.records /\ x.title = title
      BY DEF Visible
    <2> HIDE DEF found, row, t
    <2> QED
      BY <1>3, <2>1, <2>2, <2>3
  <1>5. ~o.reading => title = File[o.sha].title
    BY DEF Hints
  <1> HIDE DEF t, record, found, row, title
  <1>6. TxnTyped(t)
    BY <1>1, <1>3 DEF TxnOK, TxnTyped, Staging
  <1>7. TxnTodo(t)
    BY <1>1, <1>3 DEF TxnOK, TxnTodo
  <1>8. TxnSourced(t, db, objects)
    BY <1>1, <1>3, <1>4, SMTT(30) DEF TxnOK, TxnSourced, Staging
  <1>9. TxnKeeps(t, db)
    BY <1>1, <1>3, <1>4, <1>5 DEF TxnOK, TxnKeeps, Staging
  <1>10. CASE Moves(r, t)
    BY <1>1, <1>3, <1>6, <1>7, <1>8, <1>9, <1>10, QuietStep DEF Sound, TxnOK
  <1>11. CASE Moves(r, [o EXCEPT !.pc = "ready"])
    BY <1>1, <1>11, LookupFails
  <1> QED
    BY <1>1, <1>10, <1>11

LEMMA ResolveVersionSound == ASSUME Sound, NEW r \in Run, ResolveVersion(r) PROVE Sound'
  <1> DEFINE o == run[r]
             decision == Hints(r).decision
             found == {v \in Visible(r).versions : decision # NoDecision
                         /\ v.decision = decision /\ v.record = o.record}
             row == [at |-> o.at, sha |-> o.sha, record |-> o.record, decision |-> decision,
                     part |-> IF o.reading THEN o.part ELSE 0]
             version == IF found = {} THEN row ELSE CHOOSE x \in found : TRUE
             field == IF o.reading THEN "target" ELSE "version"
             t == [o EXCEPT !.pc = "part",
                            !.new.versions = IF found = {} THEN @ \cup {row} ELSE @,
                            ![field] = version]
  <1>1. /\ o.pc = "version" /\ TxnOK(o, db, objects) /\ UNCHANGED <<objects, db, clock, mishaps>>
        /\ Moves(r, [o EXCEPT !.pc = "ready"]) \/ Moves(r, t)
    BY DEF ResolveVersion, GetOrCreate, Sound
  <1>2. DOMAIN o = Fields /\ DOMAIN o.new = Tables
    BY <1>1 DEF TxnOK, TxnTyped
  <1>3. /\ DOMAIN t = Fields /\ DOMAIN t.new = Tables
        /\ t.pc = "part" /\ t.at = o.at /\ t.sha = o.sha /\ t.part = o.part
        /\ t.reading = o.reading /\ t.todo = o.todo /\ t.gone = o.gone
        /\ t.version = IF o.reading THEN o.version ELSE version
        /\ t.new.artifacts = o.new.artifacts /\ t.new.records = o.new.records
        /\ t.new.versions = (IF found = {} THEN o.new.versions \cup {row} ELSE o.new.versions)
        /\ t.new.datasets = o.new.datasets /\ t.new.documents = o.new.documents
    <2> HIDE DEF version, found, row
    <2>1. field \in {"target", "version"} /\ (field = "version" <=> ~o.reading)
      OBVIOUS
    <2> HIDE DEF field
    <2>2. CASE field = "version"
      BY <1>2, <2>1, <2>2 DEF Fields, Tables
    <2>3. CASE field = "target"
      BY <1>2, <2>1, <2>3 DEF Fields, Tables
    <2> QED
      BY <2>1, <2>2, <2>3
  <1>4. row.record = o.record /\ version.record = o.record
    <2>1. row.record = o.record
      OBVIOUS
    <2>2. found # {} => version \in found
      OBVIOUS
    <2>3. \A v \in found : v.record = o.record
      OBVIOUS
    <2> HIDE DEF found, row, t
    <2> QED
      BY <2>1, <2>2, <2>3
  <1> HIDE DEF t, version, found, row, decision, field
  <1>5. TxnTyped(t)
    BY <1>1, <1>3 DEF TxnOK, TxnTyped, Staging
  <1>6. TxnTodo(t)
    BY <1>1, <1>3 DEF TxnOK, TxnTodo
  <1>7. TxnSourced(t, db, objects)
    BY <1>1, <1>3, <1>4, SMTT(30) DEF TxnOK, TxnSourced, Staging
  <1>8. TxnKeeps(t, db)
    BY <1>1, <1>3, <1>4 DEF TxnOK, TxnKeeps, Staging
  <1>9. CASE Moves(r, t)
    BY <1>1, <1>3, <1>5, <1>6, <1>7, <1>8, <1>9, QuietStep DEF Sound, TxnOK
  <1>10. CASE Moves(r, [o EXCEPT !.pc = "ready"])
    BY <1>1, <1>10, LookupFails
  <1> QED
    BY <1>1, <1>9, <1>10

-----------------------------------------------------------------------------
(* The parts of a file.                                                    *)

(* A part without layers holds nothing that could be missing.              *)
LEMMA OnToNextPart ==
  ASSUME NEW f \in Sha, NEW m \in DOMAIN File[f].parts, NEW rows,
         \A n \in DOMAIN File[f].parts : n < m => HoldsPart(rows, f, n),
         HoldsPart(rows, f, m)
  PROVE  \A n \in DOMAIN File[f].parts : n < m + 1 => HoldsPart(rows, f, n)
  <1>1. \A n \in DOMAIN File[f].parts : n < m + 1 => n < m \/ n = m
    BY PartNumbers
  <1> QED
    BY <1>1

LEMMA LayersOfPart ==
  ASSUME NEW f \in Sha, NEW n \in DOMAIN File[f].parts
  PROVE  LET part == File[f].parts[n] IN
         /\ Len(part.layers) \in Nat /\ DOMAIN part.layers = 1 .. Len(part.layers)
         /\ part.kind = "vector" => Len(part.layers) # 0
         /\ part.kind = "raster" => Len(part.layers) = 1
         /\ part.kind \in {"document", "other"} => Len(part.layers) = 0
         /\ \A i, j \in DOMAIN part.layers : part.layers[i].name = part.layers[j].name => i = j
  <1> DEFINE part == File[f].parts[n]
             layers == part.layers
             S == {layers[i] : i \in DOMAIN layers}
  <1>1. /\ layers \in Seq(S)
        /\ layers = <<>> <=> part.kind \in {"document", "other"}
        /\ part.kind = "raster" => Len(layers) = 1
        /\ \A i, j \in DOMAIN layers : layers[i].name = layers[j].name => i = j
    BY FileAssumption
  <1> HIDE DEF layers, S
  <1>2. Len(layers) \in Nat /\ DOMAIN layers = 1 .. Len(layers) /\ (Len(layers) = 0 <=> layers = <<>>)
    BY <1>1
  <1> QED
    BY <1>1, <1>2 DEF layers

(* A part with no layer asks for no dataset.                               *)
LEMMA NothingToHold ==
  ASSUME NEW sha \in Sha, NEW n \in Nat, NEW datasets,
         File[sha].parts[n].kind \in {"document", "other"}
  PROVE  HoldsPart(datasets, sha, n)
  <1> SUFFICES ASSUME n \in DOMAIN File[sha].parts
               PROVE  DOMAIN File[sha].parts[n].layers = {}
    BY DEF HoldsPart
  <1> DEFINE part == File[sha].parts[n]
  <1>1. /\ Len(part.layers) \in Nat /\ DOMAIN part.layers = 1 .. Len(part.layers)
        /\ part.kind \in {"document", "other"} => Len(part.layers) = 0
    BY LayersOfPart
  <1> QED
    BY <1>1

LEMMA ReadDocumentSound == ASSUME Sound, NEW r \in Run, ReadDocument(r) PROVE Sound'
  <1> DEFINE o == run[r]
             t == [o EXCEPT !.pc = "record", !.reading = TRUE]
  <1>1. Moves(r, t) /\ UNCHANGED <<objects, db, clock, mishaps>> /\ TxnOK(o, db, objects) /\ o.pc = "part"
    BY DEF ReadDocument, InPart, Sound
  <1>2. DOMAIN o = Fields
    BY <1>1 DEF TxnOK, TxnTyped
  <1>3. /\ DOMAIN t = Fields /\ t.pc = "record" /\ t.todo = o.todo /\ t.gone = o.gone /\ t.new = o.new
        /\ t.at = o.at /\ t.sha = o.sha /\ t.part = o.part /\ t.version = o.version
    BY <1>2 DEF Fields
  <1> HIDE DEF t
  <1>4. TxnTyped(t) /\ TxnTodo(t)
    BY <1>1, <1>3, SMTT(30) DEF TxnOK, TxnTyped, TxnTodo, Staging
  <1>5. TxnSourced(t, db, objects) /\ TxnKeeps(t, db)
    BY <1>1, <1>3 DEF TxnOK, TxnSourced, TxnKeeps, Staging
  <1> QED
    BY <1>1, <1>3, <1>4, <1>5, QuietStep DEF Sound, TxnOK

(* A part that needs no row is done with.                                  *)
LEMMA SkipPartSound == ASSUME Sound, NEW r \in Run, SkipPart(r) PROVE Sound'
  <1> DEFINE o == run[r]
             t == [o EXCEPT !.part = @ + 1]
  <1>1. /\ Moves(r, t) /\ UNCHANGED <<objects, db, clock, mishaps>> /\ TxnOK(o, db, objects)
        /\ o.pc = "part" /\ o.sha \in Sha /\ o.part \in Nat \ {0}
        /\ o.part <= Len(File[o.sha].parts) /\ File[o.sha].parts[o.part].kind = "other"
    BY DEF SkipPart, InPart, Sound, TxnOK, TxnTyped, Staging
  <1>2. DOMAIN o = Fields
    BY <1>1 DEF TxnOK, TxnTyped
  <1>3. /\ DOMAIN t = Fields /\ t.pc = "part" /\ t.todo = o.todo /\ t.gone = o.gone /\ t.new = o.new
        /\ t.at = o.at /\ t.sha = o.sha /\ t.part = o.part + 1 /\ t.version = o.version
        /\ t.reading = o.reading
    BY <1>1, <1>2 DEF Fields
  <1> HIDE DEF t
  <1>4. TxnTyped(t) /\ TxnTodo(t)
    BY <1>1, <1>3, SMTT(30) DEF TxnOK, TxnTyped, TxnTodo, Staging
  <1>5. TxnSourced(t, db, objects)
    BY <1>1, <1>3, SMTT(30) DEF TxnOK, TxnSourced, Staging
  <1>6. TxnKeeps(t, db)
    <2> DEFINE rows == db.datasets \cup o.new.datasets
    <2>1. o.todo = <<>> /\ \A n \in DOMAIN File[o.sha].parts : n < o.part => HoldsPart(rows, o.sha, n)
      BY <1>1 DEF TxnOK, TxnTodo, TxnKeeps, Staging
    <2>2. HoldsPart(rows, o.sha, o.part)
      BY <1>1, NothingToHold
    <2>3. \A n \in DOMAIN File[o.sha].parts : n < t.part => HoldsPart(rows, o.sha, n)
      <3>1. o.part \in DOMAIN File[o.sha].parts
        BY <1>1, PartNumbers
      <3> QED
        BY <1>1, <1>3, <2>1, <2>2, <3>1, OnToNextPart
    <2> QED
      BY <1>1, <1>3, <2>1, <2>3 DEF TxnOK, TxnKeeps, Staging
  <1> QED
    BY <1>1, <1>3, <1>4, <1>5, <1>6, QuietStep DEF Sound, TxnOK

(* Rows inserted under a version that stands: no transaction is deleting   *)
(* it; otherwise the run breaks.                                           *)
LEMMA InsertStep ==
  ASSUME Sound, NEW r \in Run, NEW v, NEW t, Insert(r, v, t),
         v \in db.versions \cup run[r].new.versions => TxnOK(t, db, objects),
         t.gone = run[r].gone,
         \A d \in t.new.datasets \cup t.new.documents :
           d \in run[r].new.datasets \cup run[r].new.documents \/ d.version = v
  PROVE  Sound'
  <1>1. CASE Break(r)
    BY <1>1, BreakSound
  <1>2. CASE /\ v \in Visible(r).versions /\ \A q \in Run \ {r} : v \notin run[q].gone
             /\ Moves(r, t) /\ UNCHANGED <<objects, db, clock, commits, emptied, mishaps>>
    <2>1. v \in db.versions \cup run[r].new.versions /\ \A q \in Run : v \notin run[q].gone
      BY <1>2 DEF Visible
    <2>2. \A q \in Run : \A w \in run[q].gone : Bare(w) /\ w # v
      BY <2>1 DEF Sound
    <2>3. \A q \in Run : \A w \in run[q].gone : On(t.new, w) = {}
      BY <2>2 DEF Bare, On
    <2> QED
      BY <1>2, <2>1, <2>2, <2>3, OwnStep DEF Sound, Bare
  <1> QED
    BY <1>1, <1>2 DEF Insert

LEMMA SameContentSameDigest ==
  ASSUME NEW d, NEW e, d.content = e.content PROVE Digest(d) = Digest(e)
  BY DEF Digest

LEMMA ImportedFields ==
  ASSUME NEW r, NEW n, NEW part
  PROVE  LET d == Imported(r, n, part) IN
         /\ d.at = run[r].at /\ d.sha = run[r].sha /\ d.version = run[r].version
         /\ d.part = run[r].part /\ d.kind = part.kind
         /\ d.name = part.layers[n].name /\ d.content = part.layers[n].content
         /\ Digest(d) = Digest(part.layers[n])
  <1> DEFINE d == Imported(r, n, part)
  <1>1. /\ d.at = run[r].at /\ d.sha = run[r].sha /\ d.version = run[r].version
        /\ d.part = run[r].part /\ d.kind = part.kind
        /\ d.name = part.layers[n].name /\ d.content = part.layers[n].content
    BY DEF Imported
  <1> HIDE DEF d
  <1> QED
    BY <1>1, SameContentSameDigest DEF d

LEMMA ImportVectorSound == ASSUME Sound, NEW r \in Run, ImportVector(r) PROVE Sound'
  <1> DEFINE o == run[r]
             part == File[o.sha].parts[o.part]
             rows == [n \in DOMAIN part.layers |-> Imported(r, n, part)]
             added == {rows[n] : n \in DOMAIN rows}
             t == [o EXCEPT !.pc = "compare", !.todo = rows, !.new.datasets = @ \cup added]
  <1>1. /\ Insert(r, o.version, t) /\ TxnOK(o, db, objects)
        /\ o.pc = "part" /\ o.sha \in Sha /\ o.part \in Nat \ {0}
        /\ o.part <= Len(File[o.sha].parts) /\ part.kind = "vector"
    BY DEF ImportVector, InPart, Sound, TxnOK, TxnTyped, Staging
  <1>2. DOMAIN o = Fields /\ DOMAIN o.new = Tables
    BY <1>1 DEF TxnOK, TxnTyped
  <1>3. /\ DOMAIN t = Fields /\ DOMAIN t.new = Tables /\ t.pc = "compare" /\ t.todo = rows
        /\ t.gone = o.gone /\ t.at = o.at /\ t.sha = o.sha /\ t.part = o.part
        /\ t.version = o.version /\ t.reading = o.reading
        /\ t.new.artifacts = o.new.artifacts /\ t.new.records = o.new.records
        /\ t.new.versions = o.new.versions /\ t.new.datasets = o.new.datasets \cup added
        /\ t.new.documents = o.new.documents
    BY <1>2 DEF Fields, Tables
  <1>4. \A n \in DOMAIN part.layers :
          /\ rows[n].at = o.at /\ rows[n].sha = o.sha /\ rows[n].version = o.version
          /\ rows[n].name = part.layers[n].name /\ Digest(rows[n]) = Digest(part.layers[n])
          /\ rows[n] \in added
    <2> HIDE DEF part, t
    <2> TAKE n \in DOMAIN part.layers
    <2>1. rows[n] = Imported(r, n, part) /\ rows[n] \in added
      OBVIOUS
    <2> HIDE DEF rows, added
    <2> QED
      BY <2>1, ImportedFields
  <1>5. DOMAIN rows = DOMAIN part.layers
    OBVIOUS
  <1>6. \A d \in added : \E n \in DOMAIN part.layers : d = rows[n]
    OBVIOUS
  <1> HIDE DEF t, rows, added
  <1>7. o.part \in DOMAIN File[o.sha].parts
    BY <1>1, PartNumbers
  <1> DEFINE N == Len(part.layers)
  <1>8. /\ N \in Nat \ {0} /\ DOMAIN part.layers = 1 .. N
        /\ \A i, j \in DOMAIN part.layers : part.layers[i].name = part.layers[j].name => i = j
    BY <1>1, <1>7, LayersOfPart
  <1> HIDE DEF part, N
  <1>9. rows \in Seq(t.new.datasets) /\ rows # <<>>
    <2>1. rows = [n \in 1 .. N |-> rows[n]]
      BY <1>5, <1>8 DEF rows
    <2>2. \A n \in 1 .. N : rows[n] \in t.new.datasets
      BY <1>3, <1>4, <1>8
    <2>3. rows \in Seq(t.new.datasets)
      BY <1>8, <2>1, <2>2
    <2>4. 1 \in DOMAIN rows
      BY <1>5, <1>8
    <2> QED
      BY <2>3, <2>4
  <1>10. TxnTyped(t) /\ TxnTodo(t)
    <2>1. \A i, j \in DOMAIN rows : rows[i] = rows[j] => i = j
      BY <1>4, <1>5, <1>8
    <2> QED
      BY <1>1, <1>3, <1>9, <2>1, SMTT(30) DEF TxnOK, TxnTyped, TxnTodo, Staging
  <1>11. o.version \in db.versions \cup o.new.versions => TxnSourced(t, db, objects)
    BY <1>1, <1>3, <1>4, <1>6, SMTT(30) DEF TxnOK, TxnSourced, Staging
  <1>12. TxnKeeps(t, db)
    <2> DEFINE had == db.datasets \cup o.new.datasets
               have == db.datasets \cup t.new.datasets
    <2>1. \A f, n : HoldsPart(had, f, n) => HoldsPart(have, f, n)
      BY <1>3 DEF HoldsPart, Holds
    <2>2. HoldsPart(have, o.sha, o.part)
      <3>1. TitleOf(o.version) = File[o.sha].title
        BY <1>1 DEF TxnOK, TxnKeeps, TitleOf
      <3>2. \A i \in DOMAIN part.layers : rows[i] \in have
        BY <1>3, <1>4
      <3>3. \A i \in DOMAIN part.layers : Holds(have, o.sha, o.part, i)
        <4> HIDE DEF had, have, part
        <4> TAKE i \in DOMAIN part.layers
        <4>1. rows[i] \in have
          BY <3>2
        <4>2. /\ rows[i].name = part.layers[i].name
              /\ Digest(rows[i]) = Digest(part.layers[i]) /\ TitleOf(rows[i].version) = File[o.sha].title
          BY <1>4, <3>1
        <4> HIDE DEF rows
        <4> QED
          BY <4>1, <4>2 DEF Holds, part
      <3> QED
        BY <3>3 DEF HoldsPart, part
    <2>3. \A n \in DOMAIN File[o.sha].parts : n < o.part => HoldsPart(had, o.sha, n)
      BY <1>1 DEF TxnOK, TxnKeeps, Staging
    <2>4. \A a \in o.new.artifacts : a.status = "imported" =>
            \A n \in DOMAIN File[a.sha].parts : HoldsPart(had, a.sha, n)
      BY <1>1 DEF TxnOK, TxnKeeps
    <2>5. o.version.record.title = File[o.sha].title
      BY <1>1 DEF TxnOK, TxnKeeps
    <2> HIDE DEF had, have
    <2>6. /\ \A a \in t.new.artifacts : a.status = "imported" =>
               \A n \in DOMAIN File[a.sha].parts : HoldsPart(have, a.sha, n)
          /\ \A n \in DOMAIN File[t.sha].parts :
               n < t.part \/ n = t.part => HoldsPart(have, t.sha, n)
          /\ t.version.record.title = File[t.sha].title
      BY <1>3, <2>1, <2>2, <2>3, <2>4, <2>5
    <2> QED
      BY <1>3, <2>6 DEF TxnKeeps, have
  <1>13. \A d \in t.new.datasets \cup t.new.documents :
           d \in o.new.datasets \cup o.new.documents \/ d.version = o.version
    BY <1>3, <1>4, <1>6
  <1> QED
    BY <1>1, <1>3, <1>10, <1>11, <1>12, <1>13, InsertStep DEF TxnOK

(* One part on, with that part held and nothing lost.                      *)
LEMMA PartDone ==
  ASSUME NEW o, NEW t, TxnKeeps(o, db), o.pc = "part", o.sha \in Sha,
         o.part \in DOMAIN File[o.sha].parts,
         t.pc = "part", t.sha = o.sha, t.part = o.part + 1, t.todo = <<>>, t.version = o.version,
         t.new.artifacts = o.new.artifacts, o.new.datasets \subseteq t.new.datasets,
         HoldsPart(db.datasets \cup t.new.datasets, o.sha, o.part)
  PROVE  TxnKeeps(t, db)
  <1> DEFINE had == db.datasets \cup o.new.datasets
             have == db.datasets \cup t.new.datasets
  <1>1. \A f, n : HoldsPart(had, f, n) => HoldsPart(have, f, n)
    BY DEF HoldsPart, Holds
  <1>2. \A n \in DOMAIN File[o.sha].parts : n < o.part => HoldsPart(have, o.sha, n)
    BY <1>1 DEF TxnKeeps, Staging
  <1>3. \A n \in DOMAIN File[o.sha].parts : n < t.part => HoldsPart(have, o.sha, n)
    BY <1>2, OnToNextPart
  <1>4. \A a \in t.new.artifacts : a.status = "imported" =>
          \A n \in DOMAIN File[a.sha].parts : HoldsPart(have, a.sha, n)
    BY <1>1 DEF TxnKeeps
  <1>5. t.version.record.title = File[t.sha].title
    BY DEF TxnKeeps
  <1> HIDE DEF had
  <1> QED
    BY <1>3, <1>4, <1>5 DEF TxnKeeps

LEMMA ImportRasterSound == ASSUME Sound, NEW r \in Run, ImportRaster(r) PROVE Sound'
  <1> DEFINE o == run[r]
             part == File[o.sha].parts[o.part]
             row == Imported(r, 1, part)
             t == [o EXCEPT !.part = @ + 1, !.new.datasets = @ \cup {row}]
  <1>1. /\ Insert(r, o.version, t) /\ TxnOK(o, db, objects)
        /\ o.pc = "part" /\ o.sha \in Sha /\ o.part \in Nat \ {0}
        /\ o.part <= Len(File[o.sha].parts) /\ part.kind = "raster"
    BY DEF ImportRaster, InPart, Sound, TxnOK, TxnTyped, Staging
  <1>2. DOMAIN o = Fields /\ DOMAIN o.new = Tables
    BY <1>1 DEF TxnOK, TxnTyped
  <1>3. /\ DOMAIN t = Fields /\ DOMAIN t.new = Tables /\ t.pc = "part" /\ t.todo = o.todo
        /\ t.gone = o.gone /\ t.at = o.at /\ t.sha = o.sha /\ t.part = o.part + 1
        /\ t.version = o.version /\ t.reading = o.reading
        /\ t.new.artifacts = o.new.artifacts /\ t.new.records = o.new.records
        /\ t.new.versions = o.new.versions /\ t.new.datasets = o.new.datasets \cup {row}
        /\ t.new.documents = o.new.documents
    BY <1>1, <1>2 DEF Fields, Tables
  <1>4. /\ row.at = o.at /\ row.sha = o.sha /\ row.version = o.version
        /\ row.name = part.layers[1].name /\ Digest(row) = Digest(part.layers[1])
    <2> HIDE DEF part, t
    <2> QED
      BY ImportedFields
  <1>5. o.part \in DOMAIN File[o.sha].parts
    BY <1>1, PartNumbers
  <1>6. DOMAIN part.layers = {1}
    <2>1. DOMAIN part.layers = 1 .. Len(part.layers) /\ Len(part.layers) = 1
      BY <1>1, <1>5, LayersOfPart
    <2> HIDE DEF part
    <2> QED
      BY <2>1
  <1>7. o.todo = <<>> /\ TitleOf(o.version) = File[o.sha].title
    BY <1>1 DEF TxnOK, TxnTodo, TxnKeeps, TitleOf
  <1> HIDE DEF t, row, part
  <1>8. TxnTyped(t) /\ TxnTodo(t)
    BY <1>1, <1>3, <1>7, SMTT(30) DEF TxnOK, TxnTyped, TxnTodo, Staging
  <1>9. o.version \in db.versions \cup o.new.versions => TxnSourced(t, db, objects)
    BY <1>1, <1>3, <1>4, SMTT(30) DEF TxnOK, TxnSourced, Staging
  <1>10. HoldsPart(db.datasets \cup t.new.datasets, o.sha, o.part)
    BY <1>3, <1>4, <1>6, <1>7 DEF HoldsPart, Holds, part
  <1>11. TxnKeeps(t, db)
    BY <1>1, <1>3, <1>5, <1>7, <1>10, PartDone DEF TxnOK
  <1>12. \A d \in t.new.datasets \cup t.new.documents :
           d \in o.new.datasets \cup o.new.documents \/ d.version = o.version
    BY <1>3, <1>4
  <1>13. o.version \in db.versions \cup o.new.versions => TxnOK(t, db, objects)
    BY <1>8, <1>9, <1>11 DEF TxnOK
  <1> QED
    BY <1>1, <1>3, <1>12, <1>13, InsertStep

LEMMA ImportDocumentSound == ASSUME Sound, NEW r \in Run, ImportDocument(r) PROVE Sound'
  <1> DEFINE o == run[r]
             v == IF o.reading THEN o.target ELSE o.version
             row == [at |-> o.at, sha |-> o.sha, part |-> o.part, version |-> v]
             t == [o EXCEPT !.part = @ + 1, !.reading = FALSE, !.target = None,
                            !.new.documents = @ \cup {row}]
  <1>1. /\ Insert(r, v, t) /\ TxnOK(o, db, objects)
        /\ o.pc = "part" /\ o.sha \in Sha /\ o.part \in Nat \ {0}
        /\ o.part <= Len(File[o.sha].parts) /\ File[o.sha].parts[o.part].kind = "document"
    BY DEF ImportDocument, InPart, Sound, TxnOK, TxnTyped, Staging
  <1>2. DOMAIN o = Fields /\ DOMAIN o.new = Tables
    BY <1>1 DEF TxnOK, TxnTyped
  <1>3. /\ DOMAIN t = Fields /\ DOMAIN t.new = Tables /\ t.pc = "part" /\ t.todo = o.todo
        /\ t.gone = o.gone /\ t.at = o.at /\ t.sha = o.sha /\ t.part = o.part + 1
        /\ t.version = o.version /\ t.reading = FALSE
        /\ t.new.artifacts = o.new.artifacts /\ t.new.records = o.new.records
        /\ t.new.versions = o.new.versions /\ t.new.datasets = o.new.datasets
        /\ t.new.documents = o.new.documents \cup {row}
    BY <1>1, <1>2 DEF Fields, Tables
  <1>4. row.at = o.at /\ row.sha = o.sha /\ row.version = v
    OBVIOUS
  <1>5. o.part \in DOMAIN File[o.sha].parts
    BY <1>1, PartNumbers
  <1>6. o.todo = <<>>
    BY <1>1 DEF TxnOK, TxnTodo
  <1> HIDE DEF t, row, v
  <1>7. TxnTyped(t) /\ TxnTodo(t)
    BY <1>1, <1>3, <1>6, SMTT(30) DEF TxnOK, TxnTyped, TxnTodo, Staging
  <1>8. v \in db.versions \cup o.new.versions => TxnSourced(t, db, objects)
    BY <1>1, <1>3, <1>4, SMTT(30) DEF TxnOK, TxnSourced, Staging
  <1>9. HoldsPart(db.datasets \cup t.new.datasets, o.sha, o.part)
    BY <1>1, NothingToHold
  <1>10. TxnKeeps(t, db)
    BY <1>1, <1>3, <1>5, <1>6, <1>9, PartDone DEF TxnOK
  <1>11. \A d \in t.new.datasets \cup t.new.documents :
           d \in o.new.datasets \cup o.new.documents \/ d.version = v
    BY <1>3, <1>4
  <1> QED
    BY <1>1, <1>3, <1>7, <1>8, <1>10, <1>11, InsertStep DEF TxnOK

-----------------------------------------------------------------------------
(* Datasets are compared with those before them.                           *)

LEMMA TailOnce ==
  ASSUME NEW S, NEW s \in Seq(S), s # <<>>, \A i, j \in DOMAIN s : s[i] = s[j] => i = j
  PROVE  /\ Head(s) \in S /\ Tail(s) \in Seq(S \ {Head(s)})
         /\ \A i, j \in DOMAIN Tail(s) : Tail(s)[i] = Tail(s)[j] => i = j
         /\ Tail(s) = <<>> <=> Len(s) = 1
  <1> DEFINE n == Len(Tail(s))
  <1>1. /\ Head(s) \in S /\ Tail(s) \in Seq(S) /\ n = Len(s) - 1
        /\ \A i \in 1 .. n : Tail(s)[i] = s[i + 1]
    BY HeadTailProperties
  <1>2. Len(s) \in Nat /\ DOMAIN s = 1 .. Len(s) /\ n \in Nat /\ Tail(s) \in [1 .. n -> S]
    BY <1>1, LenProperties
  <1>3. Head(s) = s[1]
    OBVIOUS
  <1> HIDE DEF n
  <1>4. \A i \in 1 .. n : i + 1 \in DOMAIN s /\ i + 1 # 1 /\ 1 \in DOMAIN s
    BY <1>1, <1>2
  <1>5. \A i \in 1 .. n : Tail(s)[i] # Head(s)
    BY <1>1, <1>3, <1>4
  <1>6. Tail(s) \in [1 .. n -> S \ {Head(s)}]
    BY <1>2, <1>5
  <1>7. Tail(s) \in Seq(S \ {Head(s)})
    <2> DEFINE T == S \ {Head(s)}
    <2> HIDE DEF T
    <2>1. Tail(s) \in [1 .. n -> T]
      BY <1>6 DEF T
    <2>2. Seq(T) = UNION {[1 .. m -> T] : m \in Nat}
      BY SeqDef
    <2>3. Tail(s) \in Seq(T)
      BY <1>2, <2>1, <2>2, Zenon
    <2> QED
      BY <2>3 DEF T
  <1>8. \A i, j \in 1 .. n : Tail(s)[i] = Tail(s)[j] => i = j
    <2> SUFFICES ASSUME NEW i \in 1 .. n, NEW j \in 1 .. n, Tail(s)[i] = Tail(s)[j] PROVE i = j
      OBVIOUS
    <2>1. i \in Int /\ j \in Int
      OBVIOUS
    <2>2. s[i + 1] = s[j + 1]
      BY <1>1
    <2>3. i + 1 = j + 1
      BY <1>4, <2>2
    <2> QED
      BY <2>1, <2>3
  <1>9. Tail(s) = <<>> <=> n = 0
    BY <1>1 DEF n
  <1> QED
    BY <1>1, <1>2, <1>6, <1>7, <1>8, <1>9

(* One dataset compared, nothing lost.                                     *)
LEMMA Compared ==
  ASSUME NEW o, NEW t, TxnOK(o, db, objects), o.pc = "compare",
         DOMAIN t = Fields, DOMAIN t.new = Tables, t.todo = Tail(o.todo),
         t.pc = "delete" \/ t.pc = (IF Len(o.todo) = 1 THEN "part" ELSE "compare"),
         t.part = (IF Len(o.todo) = 1 THEN o.part + 1 ELSE o.part),
         t.at = o.at, t.sha = o.sha, t.version = o.version, t.reading = o.reading,
         t.new.artifacts = o.new.artifacts, t.new.records = o.new.records,
         t.new.versions = o.new.versions, t.new.documents = o.new.documents,
         t.new.datasets \subseteq o.new.datasets,
         o.new.datasets \ {Head(o.todo)} \subseteq t.new.datasets,
         \A f, n, i : Holds(db.datasets \cup o.new.datasets, f, n, i)
                     => Holds(db.datasets \cup t.new.datasets, f, n, i)
  PROVE  TxnOK(t, db, objects)
  <1> DEFINE had == db.datasets \cup o.new.datasets
             have == db.datasets \cup t.new.datasets
  <1>1. /\ o.todo \in Seq(o.new.datasets) /\ o.todo # <<>>
        /\ \A i, j \in DOMAIN o.todo : o.todo[i] = o.todo[j] => i = j
    BY DEF TxnOK, TxnTodo
  <1>2. /\ t.todo \in Seq(o.new.datasets \ {Head(o.todo)})
        /\ \A i, j \in DOMAIN t.todo : t.todo[i] = t.todo[j] => i = j
        /\ t.todo = <<>> <=> Len(o.todo) = 1
    <2> DEFINE S == o.new.datasets
               todo == o.todo
    <2>1. todo \in Seq(S) /\ todo # <<>> /\ \A i, j \in DOMAIN todo : todo[i] = todo[j] => i = j
      BY <1>1
    <2> HIDE DEF S, todo
    <2>2. /\ Tail(todo) \in Seq(S \ {Head(todo)})
          /\ \A i, j \in DOMAIN Tail(todo) : Tail(todo)[i] = Tail(todo)[j] => i = j
          /\ Tail(todo) = <<>> <=> Len(todo) = 1
      BY <2>1, TailOnce
    <2> QED
      BY <2>2 DEF S, todo
  <1>3. t.todo \in Seq(t.new.datasets)
    BY <1>2
  <1>4. TxnTodo(t)
    BY <1>2, <1>3 DEF TxnTodo
  <1>5. o.sha \in Sha /\ o.part \in Nat \ {0}
    BY DEF TxnOK, TxnTyped, Staging
  <1>6. TxnTyped(t)
    BY <1>5 DEF TxnOK, TxnTyped, Staging
  <1>7. TxnSourced(t, db, objects)
    BY DEF TxnOK, TxnSourced, Staging
  <1>8. \A f, n : HoldsPart(had, f, n) => HoldsPart(have, f, n)
    BY DEF HoldsPart
  <1>9. \A n \in DOMAIN File[o.sha].parts : n < o.part \/ n = o.part => HoldsPart(have, o.sha, n)
    BY <1>1, <1>8 DEF TxnOK, TxnKeeps, Staging
  <1>10. \A n \in DOMAIN File[o.sha].parts :
           n < t.part \/ (n = t.part /\ t.todo # <<>>) => n < o.part \/ n = o.part
    BY <1>2, <1>5, PartNumbers
  <1>11. \A a \in t.new.artifacts : a.status = "imported" =>
           \A n \in DOMAIN File[a.sha].parts : HoldsPart(have, a.sha, n)
    BY <1>8 DEF TxnOK, TxnKeeps
  <1>12. t.version.record.title = File[t.sha].title
    BY DEF TxnOK, TxnKeeps
  <1> HIDE DEF had
  <1>13. TxnKeeps(t, db)
    BY <1>9, <1>10, <1>11, <1>12 DEF TxnKeeps
  <1> QED
    BY <1>4, <1>6, <1>7, <1>13 DEF TxnOK

LEMMA KeepSound == ASSUME Sound, NEW r \in Run, Keep(r) PROVE Sound'
  <1> DEFINE o == run[r]
             t == [o EXCEPT !.todo = Tail(@), !.pc = Next1(r),
                            !.part = IF Len(o.todo) = 1 THEN @ + 1 ELSE @]
  <1>1. /\ Moves(r, t) /\ UNCHANGED <<objects, db, clock, mishaps>> /\ TxnOK(o, db, objects)
        /\ o.pc = "compare"
    BY DEF Keep, Sound
  <1>2. DOMAIN o = Fields /\ DOMAIN o.new = Tables
    BY <1>1 DEF TxnOK, TxnTyped
  <1>3. /\ DOMAIN t = Fields /\ t.todo = Tail(o.todo) /\ t.pc = Next1(r)
        /\ t.part = (IF Len(o.todo) = 1 THEN o.part + 1 ELSE o.part) /\ t.gone = o.gone
        /\ t.at = o.at /\ t.sha = o.sha /\ t.version = o.version /\ t.reading = o.reading
        /\ t.new = o.new
    BY <1>2 DEF Fields
  <1>4. t.pc = IF Len(o.todo) = 1 THEN "part" ELSE "compare"
    BY <1>3 DEF Next1
  <1> HIDE DEF t
  <1>5. TxnOK(t, db, objects)
    BY <1>1, <1>2, <1>3, <1>4, Compared
  <1> QED
    BY <1>1, <1>3, <1>5, QuietStep DEF Sound

LEMMA DropSound == ASSUME Sound, NEW r \in Run, Drop(r) PROVE Sound'
  <1> DEFINE o == run[r]
             d == Head(o.todo)
             rows == [Visible(r) EXCEPT !.datasets = @ \ {d}]
             left == On(rows, d.version)
             pc == IF left = {} /\ ~o.loaded THEN "delete" ELSE Next1(r)
             loaded == o.loaded \/ left \cap rows.datasets # {}
             t == [o EXCEPT
                    !.pc = pc,
                    !.part = IF Len(o.todo) = 1 THEN @ + 1 ELSE @,
                    !.todo = Tail(@),
                    !.new.datasets = @ \ {d}, !.dropped = @ \cup {d},
                    !.loaded = loaded]
  <1>1. /\ Moves(r, t) /\ UNCHANGED <<objects, db, clock, mishaps>> /\ TxnOK(o, db, objects)
        /\ o.pc = "compare" /\ \E e \in Priors(Visible(r).datasets, d) : Digest(e) = Digest(d)
    BY DEF Drop, Sound
  <1>2. DOMAIN o = Fields /\ DOMAIN o.new = Tables
    BY <1>1 DEF TxnOK, TxnTyped
  <1>3. pc = "delete" \/ pc = (IF Len(o.todo) = 1 THEN "part" ELSE "compare")
    BY DEF Next1
  <1> HIDE DEF pc, loaded, d
  <1>4. /\ DOMAIN t = Fields /\ DOMAIN t.new = Tables /\ t.todo = Tail(o.todo) /\ t.pc = pc
        /\ t.part = (IF Len(o.todo) = 1 THEN o.part + 1 ELSE o.part) /\ t.gone = o.gone
        /\ t.at = o.at /\ t.sha = o.sha /\ t.version = o.version /\ t.reading = o.reading
        /\ t.new.artifacts = o.new.artifacts /\ t.new.records = o.new.records
        /\ t.new.versions = o.new.versions /\ t.new.datasets = o.new.datasets \ {d}
        /\ t.new.documents = o.new.documents
    BY <1>2 DEF Fields, Tables
  <1> HIDE DEF t
  <1>5. \A f, n, i : Holds(db.datasets \cup o.new.datasets, f, n, i)
                    => Holds(db.datasets \cup t.new.datasets, f, n, i)
    <2>1. PICK e \in Priors(Visible(r).datasets, d) : Digest(e) = Digest(d)
      BY <1>1
    <2>2. /\ e \in db.datasets \cup o.new.datasets /\ e # d
          /\ e.name = d.name /\ TitleOf(e.version) = TitleOf(d.version)
      BY DEF Priors, SameLayer, Visible, TitleOf
    <2>3. e \in db.datasets \cup t.new.datasets
      BY <1>4, <2>2
    <2> QED
      BY <1>4, <2>1, <2>2, <2>3, ZenonT(60) DEF Holds
  <1>6. TxnOK(t, db, objects)
    BY <1>1, <1>3, <1>4, <1>5, Compared DEF d
  <1> QED
    BY <1>1, <1>4, <1>6, QuietStep DEF Sound

LEMMA DeleteVersionSound == ASSUME Sound, NEW r \in Run, DeleteVersion(r) PROVE Sound'
  <1> DEFINE o == run[r]
             v == o.version
             t == [o EXCEPT !.pc = IF o.todo = <<>> THEN "part" ELSE "compare", !.gone = @ \cup {v}]
  <1>1. CASE Break(r)
    BY <1>1, BreakSound
  <1>2. CASE On(Visible(r), v) = {} /\ Moves(r, t) /\ UNCHANGED <<objects, db, clock, mishaps>>
    <2>1. TxnOK(o, db, objects) /\ o.pc = "delete" /\ \A q \in Run \ {r} : On(run[q].new, v) = {}
      BY DEF DeleteVersion, Sound
    <2>2. DOMAIN o = Fields
      BY <2>1 DEF TxnOK, TxnTyped
    <2>3. /\ DOMAIN t = Fields /\ t.pc = (IF o.todo = <<>> THEN "part" ELSE "compare")
          /\ t.gone = o.gone \cup {v} /\ t.new = o.new /\ t.todo = o.todo /\ t.at = o.at
          /\ t.sha = o.sha /\ t.part = o.part /\ t.version = o.version /\ t.reading = o.reading
      BY <2>2 DEF Fields
    <2> HIDE DEF t
    <2>4. TxnTyped(t) /\ TxnTodo(t)
      BY <2>1, <2>3, SMTT(30) DEF TxnOK, TxnTyped, TxnTodo, Staging
    <2>5. TxnSourced(t, db, objects) /\ TxnKeeps(t, db)
      BY <2>1, <2>3 DEF TxnOK, TxnSourced, TxnKeeps, Staging
    <2>6. On(db, v) = {} /\ On(o.new, v) = {}
      BY <1>2 DEF On, Visible
    <2>7. \A q \in Run : \A w \in run[q].gone : Bare(w)
      BY DEF Sound
    <2>8. \A w \in t.gone : /\ On(db, w) = {} /\ On(t.new, w) = {}
                            /\ \A q \in Run \ {r} : On(run[q].new, w) = {}
      BY <2>1, <2>3, <2>6, <2>7 DEF Bare
    <2>9. \A q \in Run \ {r} : \A w \in run[q].gone : On(t.new, w) = {}
      BY <2>3, <2>7 DEF Bare
    <2> QED
      BY <1>2, <2>4, <2>5, <2>8, <2>9, OwnStep DEF Sound, TxnOK
  <1> QED
    BY <1>1, <1>2 DEF DeleteVersion

-----------------------------------------------------------------------------
LEMMA NextSound == Sound /\ [Next]_vars => Sound'
  <1> SUFFICES ASSUME Sound, [Next]_vars PROVE Sound'
    OBVIOUS
  <1>1. CASE UNCHANGED vars
    BY <1>1 DEF vars, Sound, CommittedOK, Traceable, ContentKept, Bare
  <1>2. ASSUME NEW r \in Run, Begin(r) \/ Commit(r) \/ RunDies(r) \/ StageFails(r)
        PROVE  Sound'
    BY <1>2, BeginSound, CommitSound, RunDiesSound, StageFailsSound
  <1>3. ASSUME NEW r \in Run, NEW f \in Sha, Stage(r, f) PROVE Sound'
    BY <1>3, StageSound
  <1>4. ASSUME NEW r \in Run, ResolveRecord(r) \/ ResolveVersion(r) PROVE Sound'
    BY <1>4, ResolveRecordSound, ResolveVersionSound
  <1>5. ASSUME NEW r \in Run, ImportVector(r) \/ ImportRaster(r) \/ ReadDocument(r)
                             \/ ImportDocument(r) \/ SkipPart(r) \/ Finish(r)
        PROVE  Sound'
    BY <1>5, ImportVectorSound, ImportRasterSound, ReadDocumentSound, ImportDocumentSound,
       SkipPartSound, FinishSound
  <1>6. ASSUME NEW r \in Run, Keep(r) \/ Drop(r) \/ DeleteVersion(r) PROVE Sound'
    BY <1>6, KeepSound, DropSound, DeleteVersionSound
  <1> QED
    BY <1>1, <1>2, <1>3, <1>4, <1>5, <1>6 DEF Next

(* Committed or in a transaction, what the runs entered has its sources and *)
(* keeps what the files brought: the invariant the theorems below rest on. *)
THEOREM StagingSound == Spec => []Sound
  BY SoundInit, NextSound, PTL DEF Spec

-----------------------------------------------------------------------------
(* Theorems.                                                               *)

(* Every variable keeps its type, and a run compares its own datasets.     *)
THEOREM StagingTypeCorrect == Spec => []TypeOK
  <1>1. Sound => TypeOK
    <2> SUFFICES ASSUME Sound PROVE TypeOK
      OBVIOUS
    <2>1. ASSUME NEW r \in Run
          PROVE  /\ run[r].pc \in {"idle", "ready", "record", "version", "part", "compare", "delete"}
                 /\ run[r].pc = "compare" <=> run[r].todo # <<>> /\ run[r].pc # "delete"
      BY DEF Sound, TxnOK, TxnTyped, TxnTodo, Staging
    <2>2. ASSUME NEW r \in Run, NEW n \in DOMAIN run[r].todo
          PROVE  run[r].todo[n] \in run[r].new.datasets
      <3>1. run[r].todo \in Seq(run[r].new.datasets)
        BY DEF Sound, TxnOK, TxnTodo
      <3> QED
        BY <3>1, LenProperties, ElementOfSeq
    <2> QED
      BY <2>1, <2>2 DEF Sound, CommittedOK, TypeOK
  <1> QED
    BY <1>1, StagingSound, PTL

(* Of every committed dataset and document there is the artifact, the      *)
(* stored bytes, the version and the record it came from.                  *)
THEOREM ResultsAreTraceable == Spec => []Traceable
  <1>1. Sound => Traceable
    BY DEF Sound, CommittedOK
  <1> QED
    BY <1>1, StagingSound, PTL

(* What a file that counts as imported brought is there, in a dataset of   *)
(* the file or in one that says the same.                                  *)
THEOREM ImportsAreKept == Spec => []ContentKept
  <1>1. Sound => ContentKept
    BY DEF Sound, CommittedOK
  <1> QED
    BY <1>1, StagingSound, PTL

(* No step takes back committed evidence or results, and a version goes    *)
(* only when nothing hangs on it.                                          *)
THEOREM HistoryStands == Spec => NothingRewritten
  <1> DEFINE Step ==
        /\ objects \subseteq objects'
        /\ db.artifacts \subseteq db'.artifacts /\ db.records \subseteq db'.records
        /\ db.datasets \subseteq db'.datasets /\ db.documents \subseteq db'.documents
        /\ \A v \in db.versions \ db'.versions : On(db, v) = {}
  <1>1. Sound /\ [Next]_vars => Step
    <2> SUFFICES ASSUME Sound, [Next]_vars PROVE Step
      OBVIOUS
    <2>1. ASSUME NEW r \in Run, Commit(r) PROVE Step
      <3>1. \A v \in run[r].gone : On(db, v) = {}
        BY DEF Sound, Bare
      <3> QED
        BY <2>1, <3>1, CommitTables DEF Commit
    <2>2. CASE UNCHANGED db /\ objects \subseteq objects'
      BY <2>2
    <2>3. ASSUME NEW r \in Run, NEW f \in Sha, Stage(r, f) PROVE UNCHANGED db /\ objects \subseteq objects'
      BY <2>3 DEF Stage
    <2>4. ASSUME NEW r \in Run, Begin(r) \/ RunDies(r) \/ StageFails(r) PROVE UNCHANGED <<db, objects>>
      BY <2>4 DEF Begin, RunDies, StageFails
    <2>5. ASSUME NEW r \in Run, ResolveRecord(r) \/ ResolveVersion(r) PROVE UNCHANGED <<db, objects>>
      BY <2>5 DEF ResolveRecord, ResolveVersion, GetOrCreate
    <2>6. ASSUME NEW r \in Run, ImportVector(r) \/ ImportRaster(r) \/ ReadDocument(r)
                               \/ ImportDocument(r) \/ SkipPart(r) \/ Finish(r)
          PROVE  UNCHANGED <<db, objects>>
      BY <2>6 DEF ImportVector, ImportRaster, ReadDocument, ImportDocument, SkipPart, Finish,
                  Insert, Break
    <2>7. ASSUME NEW r \in Run, Keep(r) \/ Drop(r) \/ DeleteVersion(r) PROVE UNCHANGED <<db, objects>>
      BY <2>7 DEF Keep, Drop, DeleteVersion, Break
    <2> QED
      BY <2>1, <2>2, <2>3, <2>4, <2>5, <2>6, <2>7 DEF Next, vars
  <1>2. Sound /\ [Next]_vars => [Step]_vars
    BY <1>1
  <1> QED
    BY <1>2, StagingSound, PTL DEF Spec, NothingRewritten

-----------------------------------------------------------------------------
(* What is dropped and what stays: the invariant.                          *)

(* The datasets a transaction is yet to compare, and those that are there  *)
(* to stay as far as it goes.                                              *)
Listed(t) == {t.todo[i] : i \in DOMAIN t.todo}
Staying(t) == db.datasets \cup (t.new.datasets \ Listed(t))

(* A transaction that was committed began when x was made.                 *)
Began(x) == \E c \in commits : c.at = x.at

(* A transaction began at a moment of its own, and so its rows.            *)
TxnTimed(t) ==
    /\ t.pc = "idle" => t.new = NoRows /\ t.dropped = {}
    /\ t.pc # "idle" => t.at \in Nat /\ t.at <= clock /\ ~Began(t)
    /\ \A x \in t.new.artifacts \cup t.new.versions \cup t.new.datasets : x.at = t.at
    /\ \A d \in t.dropped : d.version.at = t.at \/ Began(d.version)

(* A transaction stages a file once and goes through its parts in order;   *)
(* while it does, the file does not count as imported.                     *)
TxnInOrder(t) ==
    /\ \A a, b \in t.new.artifacts : a.sha = b.sha => a = b
    /\ \A d \in Listed(t) : d.sha = t.sha /\ d.version = t.version
    /\ \A d, e \in Listed(t) : d.name = e.name => d = e
    /\ t.pc \in Staging =>
         /\ \A a \in t.new.artifacts : a.sha = t.sha => a.status = "downloaded"
         /\ \A d \in t.new.datasets : d.sha = t.sha =>
              d.part \in Nat /\ (d.part < t.part \/ (d.part = t.part /\ t.todo # <<>>))

(* The datasets of a layer that were committed before d's run began.       *)
Past(d) == {e \in db.datasets : SameLayer(d, e) /\ End(e) < d.at}
Last(d) == {e \in Past(d) : \A x \in Past(d) : x.at <= e.at}

(* d says something new, unless another dataset of the layer came from its *)
(* own run or from one that overlapped with it.                            *)
Novel(d, t) ==
    \/ \E e \in Staying(t) : e # d /\ SameLayer(d, e) /\ e \notin Past(d)
    \/ Last(d) # {} => \E e \in Last(d) : Digest(e) # Digest(d)

ImportOf(d) == [at |-> d.at, sha |-> d.sha, status |-> "imported"]

(* What has been compared and stays is new, if its file is imported or     *)
(* still can be.                                                           *)
TxnNovel(t) ==
    \A d \in t.new.datasets \ Listed(t) :
      /\ d.kind = "vector"
      /\ ImportOf(d) \in t.new.artifacts \/ (t.pc \in Staging /\ d.sha = t.sha)
      => Novel(d, t)

(* What it dropped is its own, of files it staged and parts it has reached, *)
(* and not to be compared any more.                                        *)
TxnDropped(t) ==
    /\ \A d \in t.dropped : d.at = t.at /\ d \notin Listed(t) /\ \E a \in t.new.artifacts : a.sha = d.sha
    /\ t.pc \in Staging =>
         /\ \A d \in Listed(t) : d.part = t.part
         /\ \A d \in t.dropped : d.sha = t.sha =>
              d.part \in Nat /\ (d.part < t.part \/ (d.part = t.part /\ t.todo # <<>>))

(* Something is on a version that the transaction will not take away.      *)
Occupied(v, t) ==
    \E x \in Staying(t) \cup db.documents \cup t.new.documents : x.version = v

(* Several datasets of one part were dropped of it.                        *)
Several(v, dropped) == \E x, y \in dropped : x.version = v /\ OfOnePart(x, y)

(* One was dropped of it, and others of the part are yet to be compared.   *)
Pending(v, t) ==
    /\ t.todo # <<>> /\ v = t.version
    /\ \E d \in t.dropped : d.version = v /\ d.sha = t.sha /\ d.part = t.part

Covered(v, t) == Occupied(v, t) \/ Several(v, t.dropped) \/ Pending(v, t)

(* A version a dataset was dropped of is deleted, about to be, or has      *)
(* something else on it, unless several were; so has the one that the      *)
(* session remembers.                                                      *)
TxnLeft(t) ==
    /\ \A d \in t.dropped :
         d.version \in t.gone \/ (t.pc = "delete" /\ d.version = t.version) \/ Covered(d.version, t)
    /\ t.pc \in {"record", "version"} /\ ~t.reading => ~t.loaded
    /\ t.pc \in Staging /\ t.loaded => Covered(t.version, t)

TxnSettled(t) == TxnTimed(t) /\ TxnInOrder(t) /\ TxnNovel(t) /\ TxnDropped(t) /\ TxnLeft(t)

(* The moments of runs are numbered, each by one run.                      *)
Numbered ==
    /\ \A c \in commits : c.at \in Nat /\ c.end \in Nat /\ c.at <= c.end /\ c.end <= clock
    /\ \A c, k \in commits : c.at = k.at => c = k
    /\ \A x \in db.artifacts \cup db.versions \cup db.datasets : Began(x)
    /\ \A d \in emptied : Began(d.version)
    /\ \A r, o \in Run : run[r].pc # "idle" /\ run[o].pc # "idle" /\ run[r].at = run[o].at => r = o

Settled ==
    /\ Numbered /\ \A r \in Run : TxnSettled(run[r])
    /\ NoRedundantCopies /\ LeftEmptyByLayersOnly

-----------------------------------------------------------------------------
LEMMA NoRunSettled == TxnSettled(NoRun)
  <1>1. /\ NoRun.pc = "idle" /\ NoRun.new = NoRows /\ NoRun.dropped = {} /\ NoRun.todo = <<>>
        /\ NoRun.new.artifacts = {} /\ NoRun.new.versions = {} /\ NoRun.new.datasets = {}
        /\ NoRun.loaded = FALSE
    BY DEF NoRun, NoRows
  <1>2. Listed(NoRun) = {}
    BY <1>1 DEF Listed
  <1>3. TxnTimed(NoRun) /\ TxnInOrder(NoRun) /\ TxnNovel(NoRun) /\ TxnDropped(NoRun) /\ TxnLeft(NoRun)
    BY <1>1, <1>2 DEF TxnTimed, TxnInOrder, TxnNovel, TxnDropped, TxnLeft, Staging
  <1> QED
    BY <1>3 DEF TxnSettled

LEMMA SettledInit == Init => Settled
  <1> SUFFICES ASSUME Init PROVE Settled
    OBVIOUS
  <1>1. /\ db = Earlier.db /\ commits = {[at |-> 0, end |-> 0]} /\ emptied = {} /\ clock = 0
        /\ \A r \in Run : run[r] = NoRun
    BY DEF Init
  <1>2. \A x \in db.artifacts \cup db.versions \cup db.datasets : x.at = 0
    BY <1>1, EarlierAssumption
  <1>3. Numbered
    BY <1>1, <1>2 DEF Numbered, Began, NoRun
  <1>4. NoRedundantCopies
    BY <1>2 DEF NoRedundantCopies
  <1>5. LeftEmptyByLayersOnly
    BY <1>1 DEF LeftEmptyByLayersOnly
  <1> QED
    BY <1>1, <1>3, <1>4, <1>5, NoRunSettled DEF Settled

(* What is said of a transaction hangs on the tables and the moments only. *)
LEMMA StillSettled ==
  ASSUME NEW t, TxnSettled(t), UNCHANGED <<db, clock, commits>>
  PROVE  TxnSettled(t)'
  <1>1. \A x : End(x)' = End(x)
    BY DEF End
  <1>2. \A d : Past(d)' = Past(d)
    BY <1>1 DEF Past
  <1>3. \A d : Last(d)' = Last(d)
    BY <1>2 DEF Last
  <1>4. Staying(t)' = Staying(t) /\ Listed(t)' = Listed(t)
    BY DEF Staying, Listed
  <1>5. \A d : Novel(d, t)' <=> Novel(d, t)
    BY <1>2, <1>3, <1>4 DEF Novel
  <1>6. TxnNovel(t)'
    BY <1>4, <1>5 DEF TxnSettled, TxnNovel
  <1>7. TxnTimed(t)' /\ TxnInOrder(t)'
    BY <1>4 DEF TxnSettled, TxnTimed, TxnInOrder, Began
  <1>8. TxnLeft(t)'
    BY <1>4 DEF TxnSettled, TxnLeft, Covered, Occupied, Several, Pending, OfOnePart
  <1>9. TxnDropped(t)'
    BY <1>4 DEF TxnSettled, TxnDropped
  <1> QED
    BY <1>6, <1>7, <1>8, <1>9 DEF TxnSettled

(* A step within one transaction.                                          *)
LEMMA SettledStep ==
  ASSUME Sound, Settled, NEW r \in Run, NEW t, Moves(r, t), UNCHANGED <<db, clock, commits, emptied>>,
         t.pc # "idle" => run[r].pc # "idle" /\ t.at = run[r].at,
         TxnSettled(t)
  PROVE  Settled'
  <1>1. run'[r] = t /\ \A o \in Run \ {r} : run'[o] = run[o]
    BY DEF Moves, Sound
  <1>2. TxnSettled(run[r])'
    BY <1>1, StillSettled
  <1>3. ASSUME NEW o \in Run \ {r} PROVE TxnSettled(run[o])'
    BY <1>1, <1>3, StillSettled DEF Settled
  <1>4. Numbered'
    BY <1>1 DEF Settled, Numbered, Began
  <1>5. NoRedundantCopies' /\ LeftEmptyByLayersOnly'
    BY DEF Settled, NoRedundantCopies, LeftEmptyByLayersOnly, End
  <1> QED
    BY <1>2, <1>3, <1>4, <1>5 DEF Settled
-----------------------------------------------------------------------------
(* Runs begin and end.                                                     *)

LEMMA BeginSettled == ASSUME Sound, Settled, NEW r \in Run, Begin(r) PROVE Settled'
  <1>0. PICK t : t = [NoRun EXCEPT !.pc = "ready", !.at = clock']
    OBVIOUS
  <1>1. /\ Moves(r, t) /\ clock' = clock + 1 /\ clock \in Nat
        /\ UNCHANGED <<db, commits, emptied>>
    BY <1>0, BoundAssumption DEF Begin, Sound
  <1>2. /\ t.new = NoRows /\ t.pc = "ready" /\ t.at = clock' /\ t.todo = <<>> /\ t.dropped = {}
        /\ t.loaded = FALSE
    BY <1>0 DEF NoRun
  <1>3. run'[r] = t /\ \A o \in Run \ {r} : run'[o] = run[o]
    BY <1>1 DEF Moves, Sound
  <1>4. ASSUME NEW x, TxnInOrder(x), TxnNovel(x), TxnDropped(x), TxnLeft(x)
        PROVE  TxnInOrder(x)' /\ TxnNovel(x)' /\ TxnDropped(x)' /\ TxnLeft(x)'
    <2>1. \A e : End(e)' = End(e)
      BY <1>1 DEF End
    <2>2. \A d : Past(d)' = Past(d)
      BY <1>1, <2>1 DEF Past
    <2>3. \A d : Last(d)' = Last(d)
      BY <2>2 DEF Last
    <2>4. Staying(x)' = Staying(x) /\ Listed(x)' = Listed(x)
      BY <1>1 DEF Staying, Listed
    <2>5. \A d : Novel(d, x)' <=> Novel(d, x)
      BY <2>2, <2>3, <2>4 DEF Novel
    <2>6. TxnNovel(x)'
      BY <1>4, <2>4, <2>5 DEF TxnNovel
    <2>7. TxnInOrder(x)'
      BY <1>4, <2>4 DEF TxnInOrder
    <2>8. TxnLeft(x)'
      BY <1>1, <1>4, <2>4 DEF TxnLeft, Covered, Occupied, Several, Pending, OfOnePart
    <2>9. TxnDropped(x)'
      BY <1>4, <2>4 DEF TxnDropped
    <2> QED
      BY <2>6, <2>7, <2>8, <2>9
  <1>5. TxnSettled(t)'
    <2>1. Listed(t) = {} /\ t.new.artifacts = {} /\ t.new.datasets = {} /\ t.new.versions = {}
      BY <1>2 DEF Listed, NoRows
    <2>2. TxnInOrder(t) /\ TxnNovel(t) /\ TxnDropped(t) /\ TxnLeft(t)
      BY <1>2, <2>1 DEF TxnInOrder, TxnNovel, TxnDropped, TxnLeft, Staging
    <2>3. \A c \in commits : c.at < clock'
      BY <1>1 DEF Settled, Numbered
    <2>4. TxnTimed(t)'
      BY <1>1, <1>2, <2>1, <2>3 DEF TxnTimed, Began
    <2> QED
      BY <1>4, <2>2, <2>4 DEF TxnSettled
  <1>6. ASSUME NEW o \in Run \ {r} PROVE TxnSettled(run[o])'
    <2>1. TxnSettled(run[o]) /\ run'[o] = run[o]
      BY <1>3 DEF Settled
    <2> DEFINE x == run[o]
    <2>2. TxnInOrder(x) /\ TxnNovel(x) /\ TxnDropped(x) /\ TxnLeft(x) /\ TxnTimed(x)
      BY <2>1 DEF TxnSettled
    <2>3. PICK y : y = x
      OBVIOUS
    <2>4. TxnInOrder(y)' /\ TxnNovel(y)' /\ TxnDropped(y)' /\ TxnLeft(y)'
      BY <1>4, <2>2, <2>3
    <2>5. TxnTimed(y)'
      BY <1>1, <2>2, <2>3 DEF TxnTimed, Began
    <2> QED
      BY <2>1, <2>3, <2>4, <2>5 DEF TxnSettled
  <1>7. Numbered'
    <2>1. \A o \in Run \ {r} : run'[o].pc # "idle" => run'[o].at <= clock /\ run'[o].at \in Nat
      BY <1>3 DEF Settled, TxnSettled, TxnTimed
    <2>2. \A p, o \in Run : run'[p].pc # "idle" /\ run'[o].pc # "idle" /\ run'[p].at = run'[o].at => p = o
      BY <1>1, <1>2, <1>3, <2>1 DEF Settled, Numbered
    <2>3. \A c \in commits' : c.at \in Nat /\ c.end \in Nat /\ c.at <= c.end /\ c.end <= clock'
      BY <1>1 DEF Settled, Numbered
    <2> QED
      BY <1>1, <2>2, <2>3 DEF Settled, Numbered, Began
  <1>8. NoRedundantCopies' /\ LeftEmptyByLayersOnly'
    BY <1>1 DEF Settled, NoRedundantCopies, LeftEmptyByLayersOnly, End
  <1> QED
    BY <1>3, <1>5, <1>6, <1>7, <1>8 DEF Settled

LEMMA EndSettled ==
  ASSUME Sound, Settled, NEW r \in Run, Moves(r, NoRun), UNCHANGED <<db, clock, commits, emptied>>
  PROVE  Settled'
  <1>1. NoRun.pc = "idle"
    BY DEF NoRun
  <1> QED
    BY <1>1, NoRunSettled, SettledStep

LEMMA BreakSettled == ASSUME Sound, Settled, NEW r \in Run, Break(r) PROVE Settled'
  BY EndSettled DEF Break

LEMMA RunDiesSettled == ASSUME Sound, Settled, NEW r \in Run, RunDies(r) PROVE Settled'
  BY EndSettled DEF RunDies

(* A commit has an end of its own and leaves those before it as they were. *)
LEMMA CommitEnds ==
  ASSUME Sound, Settled, NEW r \in Run, Commit(r)
  PROVE  /\ clock \in Nat /\ clock' = clock + 1 /\ run[r].at \in Nat /\ run[r].at <= clock
         /\ \A c, k \in commits' : c.at = k.at => c = k
         /\ \A x : Began(x) => Began(x)' /\ End(x)' = End(x) /\ x.at # run[r].at
                               /\ x.at \in Nat /\ End(x) \in Nat /\ x.at <= End(x) /\ End(x) <= clock
         /\ \A x : x.at = run[r].at => Began(x)' /\ End(x)' = clock'
  <1> DEFINE own == [at |-> run[r].at, end |-> clock']
  <1>1. /\ run[r].pc = "ready" /\ clock' = clock + 1 /\ clock \in Nat
        /\ commits' = commits \cup {own}
    BY BoundAssumption DEF Commit, Sound
  <1>2. run[r].at \in Nat /\ run[r].at <= clock /\ ~Began(run[r])
    BY <1>1 DEF Settled, TxnSettled, TxnTimed
  <1>3. own.at = run[r].at /\ own.end = clock'
    OBVIOUS
  <1> HIDE DEF own
  <1>4. \A c, k \in commits' : c.at = k.at => c = k
    BY <1>1, <1>2, <1>3 DEF Settled, Numbered, Began
  <1>5. ASSUME NEW x, Began(x)
        PROVE  /\ Began(x)' /\ End(x)' = End(x) /\ x.at # run[r].at
               /\ x.at \in Nat /\ End(x) \in Nat /\ x.at <= End(x) /\ End(x) <= clock
    <2>1. PICK c \in commits : c.at = x.at
      BY <1>5 DEF Began
    <2>2. c \in commits' /\ \A k \in commits' : k.at = x.at => k = c
      BY <1>1, <1>4, <2>1
    <2>3. End(x) = c.end
      BY <1>1, <2>1, <2>2 DEF End
    <2>4. End(x)' = c.end
      BY <2>1, <2>2 DEF End
    <2> QED
      BY <1>2, <2>1, <2>2, <2>3, <2>4 DEF Began, Settled, Numbered
  <1>6. ASSUME NEW x, x.at = run[r].at PROVE Began(x)' /\ End(x)' = clock'
    <2>1. own \in commits' /\ \A k \in commits' : k.at = x.at => k = own
      BY <1>1, <1>3, <1>4, <1>6
    <2>2. End(x)' = own.end
      BY <1>3, <1>6, <2>1 DEF End
    <2> QED
      BY <1>3, <1>6, <2>1, <2>2 DEF Began
  <1> QED
    BY <1>1, <1>2, <1>4, <1>5, <1>6

(* What is in a transaction that is not the committing one is as settled   *)
(* as before: a dataset of a layer it has is one that overlapped with it.  *)
LEMMA OthersSettled ==
  ASSUME Sound, Settled, NEW r \in Run, Commit(r), NEW o \in Run, o # r
  PROVE  TxnSettled(run[o])'
  <1>1. /\ db'.artifacts = db.artifacts \cup run[r].new.artifacts
        /\ db'.datasets = db.datasets \cup run[r].new.datasets
        /\ db'.documents = db.documents \cup run[r].new.documents
        /\ run'[o] = run[o] /\ run[r].pc = "ready"
        /\ commits' = commits \cup {[at |-> run[r].at, end |-> clock']}
    BY DEF Commit, Visible, Moves, Sound
  <1>0. PICK t : t = run[o]
    OBVIOUS
  <1>2. TxnSettled(t)
    BY <1>0 DEF Settled
  <1>3. /\ clock \in Nat /\ clock' = clock + 1 /\ run[r].at \in Nat /\ run[r].at <= clock
        /\ \A x : Began(x) => Began(x)' /\ End(x)' = End(x) /\ x.at # run[r].at
                              /\ x.at \in Nat /\ End(x) \in Nat /\ x.at <= End(x) /\ End(x) <= clock
        /\ \A x : x.at = run[r].at => Began(x)' /\ End(x)' = clock'
    BY CommitEnds
  <1>4. /\ \A x \in db.datasets : Began(x)
        /\ \A x \in run[r].new.datasets : x.at = run[r].at
    BY DEF Settled, Numbered, TxnSettled, TxnTimed
  <1>5. Listed(t)' = Listed(t) /\ Staying(t) \subseteq Staying(t)'
    BY <1>1 DEF Listed, Staying
  <1>6. TxnTimed(t)'
    <2>1. t.pc # "idle" => t.at # run[r].at
      BY <1>0, <1>1 DEF Settled, Numbered
    <2>2. t.pc # "idle" => t.at \in Nat /\ t.at <= clock' /\ ~Began(t)'
      BY <1>1, <1>2, <1>3, <2>1 DEF TxnSettled, TxnTimed, Began
    <2> QED
      BY <1>2, <1>3, <2>2 DEF TxnSettled, TxnTimed
  <1>7. TxnInOrder(t)'
    BY <1>2, <1>5 DEF TxnSettled, TxnInOrder
  <1>8. TxnNovel(t)'
    <2> SUFFICES ASSUME NEW d \in t.new.datasets \ Listed(t), Novel(d, t) PROVE Novel(d, t)'
      BY <1>2, <1>5 DEF TxnSettled, TxnNovel
    <2>1. t.pc # "idle"
      BY <1>2 DEF TxnSettled, TxnTimed, NoRows
    <2>2. d.at = t.at /\ d.at \in Nat /\ d.at <= clock /\ d.at # run[r].at
      BY <1>0, <1>1, <1>2, <2>1 DEF TxnSettled, TxnTimed, Settled, Numbered
    <2>3. \A e \in db.datasets : e \in Past(d)' <=> e \in Past(d)
      BY <1>1, <1>3, <1>4 DEF Past
    <2>4. \A e \in run[r].new.datasets : e # d /\ e \notin Past(d)'
      <3>1. \A e \in run[r].new.datasets : e.at = run[r].at /\ End(e)' = clock'
        BY <1>3, <1>4
      <3>2. ~(clock' < d.at)
        BY <1>3, <2>2
      <3> QED
        BY <2>2, <3>1, <3>2 DEF Past
    <2>5. Past(d)' = Past(d)
      BY <1>1, <2>3, <2>4 DEF Past
    <2>6. Last(d)' = Last(d)
      BY <2>5 DEF Last
    <2> QED
      BY <1>5, <2>5, <2>6 DEF Novel
  <1>9. TxnLeft(t)'
    <2>1. \A v : Occupied(v, t) => Occupied(v, t)'
      BY <1>1, <1>5 DEF Occupied
    <2>2. \A v : Covered(v, t) => Covered(v, t)'
      BY <2>1 DEF Covered, Several, Pending, OfOnePart
    <2> QED
      BY <1>2, <2>2 DEF TxnSettled, TxnLeft
  <1>10. TxnDropped(t)'
    BY <1>2, <1>5 DEF TxnSettled, TxnDropped
  <1> QED
    BY <1>0, <1>1, <1>6, <1>7, <1>8, <1>9, <1>10 DEF TxnSettled

(* No commit brings a redundant copy.                                      *)
LEMMA CommitNovel ==
  ASSUME Sound, Settled, NEW r \in Run, Commit(r) PROVE NoRedundantCopies'
  <1> DEFINE n == run[r].new
  <1>1. /\ db'.artifacts = db.artifacts \cup n.artifacts
        /\ db'.datasets = db.datasets \cup n.datasets /\ run[r].pc = "ready"
    BY DEF Commit, Visible
  <1>2. /\ clock \in Nat /\ clock' = clock + 1 /\ run[r].at \in Nat /\ run[r].at <= clock
        /\ \A x : Began(x) => Began(x)' /\ End(x)' = End(x) /\ x.at # run[r].at
                              /\ x.at \in Nat /\ End(x) \in Nat /\ x.at <= End(x) /\ End(x) <= clock
        /\ \A x : x.at = run[r].at => Began(x)' /\ End(x)' = clock'
    BY CommitEnds
  <1>3. /\ \A x \in db.datasets \cup db.artifacts : Began(x)
        /\ \A x \in n.datasets \cup n.artifacts : x.at = run[r].at
    BY DEF Settled, Numbered, TxnSettled, TxnTimed
  <1> DEFINE others(d) == {e \in db.datasets : SameLayer(d, e) /\ e # d}
             others1(d) == {e \in db'.datasets : SameLayer(d, e) /\ e # d}
             earlier(d) == {e \in others(d) : e.at < d.at}
             earlier1(d) == {e \in others1(d) : e.at < d.at}
             newest(S) == {e \in S : \A x \in S : x.at <= e.at}
  <1>4. SUFFICES ASSUME NEW d \in db'.datasets, d.kind = "vector", ImportOf(d) \in db'.artifacts,
                        \A e \in others1(d) : End(e)' < d.at \/ End(d)' < e.at,
                        newest(earlier1(d)) # {}
                 PROVE  \E e \in newest(earlier1(d)) : Digest(e) # Digest(d)
    BY DEF NoRedundantCopies, ImportOf
  <1>5. ImportOf(d).at = d.at
    BY DEF ImportOf
  <1>6. CASE d \in db.datasets
    <2>1. Began(d) /\ d.at # run[r].at /\ d.at \in Nat /\ d.at <= clock /\ End(d)' = End(d)
          /\ End(d) \in Nat /\ d.at <= End(d)
      BY <1>2, <1>3, <1>6
    <2>2. ImportOf(d) \in db.artifacts
      BY <1>1, <1>3, <1>4, <1>5, <2>1
    <2>3. \A e \in others(d) : End(e) < d.at \/ End(d) < e.at
      BY <1>1, <1>2, <1>3, <1>4, <2>1
    <2>4. ASSUME NEW e \in n.datasets, e \in earlier1(d) PROVE FALSE
      <3>1. e \in others1(d) /\ e.at < d.at /\ e.at = run[r].at /\ End(e)' = clock'
        BY <1>2, <1>3, <2>4
      <3>2. clock' < d.at \/ End(d) < run[r].at
        BY <1>4, <2>1, <3>1
      <3> QED
        BY <1>2, <2>1, <3>1, <3>2
    <2>5. earlier1(d) = earlier(d)
      BY <1>1, <2>4
    <2> HIDE DEF earlier1
    <2> QED
      BY <1>4, <1>6, <2>2, <2>3, <2>5 DEF Settled, NoRedundantCopies, ImportOf
  <1>7. CASE d \in n.datasets
    <2>1. d.at = run[r].at /\ End(d)' = clock'
      BY <1>2, <1>3, <1>7
    <2>2. ImportOf(d) \in n.artifacts
      BY <1>1, <1>2, <1>3, <1>4, <1>5, <2>1
    <2>3. Listed(run[r]) = {}
      BY <1>1 DEF Listed, Sound, TxnOK, TxnTodo
    <2>4. Novel(d, run[r])
      BY <1>4, <1>7, <2>2, <2>3 DEF Settled, TxnSettled, TxnNovel
    <2>5. ASSUME NEW e \in others1(d)
          PROVE  e \in db.datasets /\ End(e) < d.at /\ End(e)' = End(e) /\ e.at \in Nat
                 /\ e.at <= End(e) /\ End(e) \in Nat
      <3>1. CASE e \in n.datasets
        <4>1. e.at = run[r].at /\ End(e)' = clock'
          BY <1>2, <1>3, <3>1
        <4> QED
          BY <1>2, <1>4, <2>1, <4>1
      <3>2. CASE e \in db.datasets
        <4>1. Began(e) /\ End(e)' = End(e) /\ e.at \in Nat /\ End(e) \in Nat /\ e.at <= End(e)
              /\ End(e) <= clock
          BY <1>2, <1>3, <3>2
        <4>2. End(e) < d.at \/ clock' < e.at
          BY <1>4, <2>1, <4>1
        <4> QED
          BY <1>2, <3>2, <4>1, <4>2
      <3> QED
        BY <1>1, <3>1, <3>2
    <2>6. earlier1(d) = Past(d)
      <3>1. \A e \in earlier1(d) : e \in Past(d)
        BY <2>5 DEF Past
      <3>2. ASSUME NEW e \in Past(d) PROVE e \in earlier1(d)
        <4>1. e \in db.datasets /\ SameLayer(d, e) /\ End(e) < d.at
          BY DEF Past
        <4>2. Began(e) /\ e.at # run[r].at /\ e.at \in Nat /\ End(e) \in Nat /\ e.at <= End(e)
          BY <1>2, <1>3, <4>1
        <4>3. e # d /\ e.at < d.at
          BY <1>2, <2>1, <4>1, <4>2
        <4> QED
          BY <1>1, <4>1, <4>3
      <3> HIDE DEF earlier1
      <3> QED
        BY <3>1, <3>2
    <2>7. newest(earlier1(d)) = Last(d)
      BY <2>6 DEF Last
    <2>8. ~ \E e \in Staying(run[r]) : e # d /\ SameLayer(d, e) /\ e \notin Past(d)
      <3> SUFFICES ASSUME NEW e \in Staying(run[r]), e # d, SameLayer(d, e) PROVE e \in Past(d)
        OBVIOUS
      <3>1. e \in others1(d)
        BY <1>1 DEF Staying
      <3> QED
        BY <2>5, <3>1 DEF Past
    <2> HIDE DEF newest, earlier1
    <2> QED
      BY <1>4, <2>4, <2>7, <2>8 DEF Novel
  <1> QED
    BY <1>1, <1>4, <1>6, <1>7

LEMMA CommitSettled == ASSUME Sound, Settled, NEW r \in Run, Commit(r) PROVE Settled'
  <1> DEFINE n == run[r].new
             gone == run[r].gone
             dropped == run[r].dropped
  <1>1. /\ db'.artifacts = db.artifacts \cup n.artifacts
        /\ db'.versions = (db.versions \cup n.versions) \ gone
        /\ db'.datasets = db.datasets \cup n.datasets /\ db'.documents = db.documents \cup n.documents
        /\ run'[r] = NoRun /\ (\A o \in Run \ {r} : run'[o] = run[o]) /\ run[r].pc = "ready"
        /\ emptied' = emptied \cup dropped
        /\ commits' = commits \cup {[at |-> run[r].at, end |-> clock']}
    BY DEF Commit, Visible, Moves, Sound
  <1>2. /\ clock \in Nat /\ clock' = clock + 1 /\ run[r].at \in Nat /\ run[r].at <= clock
        /\ \A c, k \in commits' : c.at = k.at => c = k
        /\ \A x : Began(x) => Began(x)' /\ x.at # run[r].at
        /\ \A x : x.at = run[r].at => Began(x)'
    BY CommitEnds
  <1>3. TxnSettled(run[r])
    BY DEF Settled
  <1>4. Numbered'
    <2>1. \A c \in commits' : c.at \in Nat /\ c.end \in Nat /\ c.at <= c.end /\ c.end <= clock'
      <3>1. \A c \in commits : c.at \in Nat /\ c.end \in Nat /\ c.at <= c.end /\ c.end <= clock'
        BY <1>2 DEF Settled, Numbered
      <3> QED
        BY <1>1, <1>2, <3>1
    <2>2. /\ \A x \in db'.artifacts \cup db'.versions \cup db'.datasets : Began(x)'
          /\ \A d \in emptied' : Began(d.version)'
      BY <1>1, <1>2, <1>3 DEF Settled, Numbered, TxnSettled, TxnTimed
    <2>3. NoRun.pc = "idle"
      BY DEF NoRun
    <2>4. \A p, o \in Run : run'[p].pc # "idle" /\ run'[o].pc # "idle" /\ run'[p].at = run'[o].at => p = o
      BY <1>1, <2>3 DEF Settled, Numbered
    <2> QED
      BY <1>2, <2>1, <2>2, <2>4 DEF Numbered
  <1>5. TxnSettled(run[r])'
    <2>1. TxnSettled(NoRun)'
      BY NoRunSettled, PTL
    <2> QED
      BY <1>1, <2>1
  <1>6. LeftEmptyByLayersOnly'
    <2> SUFFICES ASSUME NEW d \in emptied', d.version \in db'.versions, On(db', d.version) = {}
                 PROVE  Several(d.version, emptied')
      BY DEF LeftEmptyByLayersOnly, Several, OfOnePart
    <2>1. On(db, d.version) \subseteq On(db', d.version)
      BY <1>1 DEF On
    <2>2. CASE d \in emptied
      <3>1. d.version \in db.versions
        BY <1>1, <1>2, <1>3, <2>2 DEF Settled, Numbered, TxnSettled, TxnTimed
      <3>2. Several(d.version, emptied)
        BY <2>1, <2>2, <3>1 DEF Settled, LeftEmptyByLayersOnly, Several
      <3> QED
        BY <1>1, <3>2 DEF Several
    <2>3. CASE d \in dropped
      <3>1. run[r].todo = <<>>
        BY <1>1 DEF Sound, TxnOK, TxnTodo
      <3>2. Occupied(d.version, run[r]) \/ Several(d.version, dropped)
        BY <1>1, <1>3, <2>3, <3>1 DEF TxnSettled, TxnLeft, Covered, Pending
      <3>3. ~Occupied(d.version, run[r])
        BY <1>1 DEF Occupied, Staying, On
      <3> QED
        BY <1>1, <3>2, <3>3 DEF Several
    <2> QED
      BY <1>1, <2>2, <2>3
  <1> QED
    BY <1>4, <1>5, <1>6, OthersSettled, CommitNovel DEF Settled

-----------------------------------------------------------------------------
(* Steps within a transaction.                                             *)

LEMMA MoreStays ==
  ASSUME NEW o, NEW t, Staying(o) \subseteq Staying(t), o.new.documents \subseteq t.new.documents
  PROVE  /\ \A d : Novel(d, o) => Novel(d, t)
         /\ \A v : Occupied(v, o) => Occupied(v, t)
  BY DEF Novel, Occupied

(* A version stays covered as the transaction goes on.                     *)
LEMMA StaysCovered ==
  ASSUME NEW o, NEW t, Staying(o) \subseteq Staying(t), o.new.documents \subseteq t.new.documents,
         o.dropped \subseteq t.dropped,
         o.todo # <<>> => t.todo # <<>> /\ t.version = o.version /\ t.sha = o.sha /\ t.part = o.part
  PROVE  \A v : Covered(v, o) => Covered(v, t)
  <1> SUFFICES ASSUME NEW v, Covered(v, o) PROVE Covered(v, t)
    OBVIOUS
  <1>1. CASE Occupied(v, o)
    BY <1>1, MoreStays DEF Covered
  <1>2. CASE Several(v, o.dropped)
    BY <1>2 DEF Covered, Several
  <1>3. CASE Pending(v, o)
    BY <1>3 DEF Covered, Pending
  <1> QED
    BY <1>1, <1>2, <1>3 DEF Covered

(* A transaction stops staging a file with the rows it has.                *)
LEMMA StopSettled ==
  ASSUME Sound, Settled, NEW r \in Run, NEW t, run[r].pc \in Staging \ {"delete"},
         t.pc = "ready", t.todo = <<>>, t.at = run[r].at, t.new = run[r].new,
         t.gone = run[r].gone, t.dropped = run[r].dropped
  PROVE  TxnSettled(t)
  <1> DEFINE o == run[r]
  <1>1. TxnSettled(o) /\ o.pc # "idle"
    BY DEF Settled, Staging
  <1>2. Listed(t) = {} /\ Staying(o) \subseteq Staying(t)
    BY DEF Listed, Staying
  <1>3. TxnTimed(t) /\ TxnInOrder(t)
    BY <1>1, <1>2 DEF TxnSettled, TxnTimed, Began, TxnInOrder, Staging
  <1>4. TxnNovel(t)
    <2> SUFFICES ASSUME NEW d \in o.new.datasets, d.kind = "vector", ImportOf(d) \in o.new.artifacts
                 PROVE  Novel(d, t)
      BY DEF TxnNovel, Staging
    <2>1. d \notin Listed(o)
      <3>1. ImportOf(d).sha = d.sha /\ ImportOf(d).status = "imported"
        BY DEF ImportOf
      <3> QED
        BY <1>1, <3>1 DEF TxnSettled, TxnInOrder
    <2>2. Novel(d, o)
      BY <1>1, <2>1 DEF TxnSettled, TxnNovel
    <2> QED
      BY <1>2, <2>2, MoreStays
  <1>5. TxnLeft(t)
    <2>1. ASSUME NEW v, Pending(v, o) PROVE Occupied(v, t)
      <3>1. o.todo \in Seq(o.new.datasets) /\ o.todo # <<>> /\ v = o.version
        BY <2>1 DEF Sound, TxnOK, TxnTodo, Pending
      <3>2. o.todo[1] \in o.new.datasets /\ 1 \in DOMAIN o.todo
        BY <3>1
      <3>3. o.todo[1].version = o.version
        BY <1>1, <3>2 DEF TxnSettled, TxnInOrder, Listed
      <3>4. o.todo[1] \in Staying(t)
        BY <1>2, <3>2 DEF Staying
      <3> QED
        BY <3>1, <3>3, <3>4 DEF Occupied
    <2>2. \A v : Occupied(v, o) => Occupied(v, t)
      BY <1>2, MoreStays
    <2>3. \A v : Covered(v, o) => Covered(v, t)
      BY <2>1, <2>2 DEF Covered
    <2> QED
      BY <1>1, <2>3 DEF TxnSettled, TxnLeft, Staging
  <1>6. TxnDropped(t)
    BY <1>1, <1>2 DEF TxnSettled, TxnDropped, Staging
  <1> QED
    BY <1>3, <1>4, <1>5, <1>6 DEF TxnSettled

LEMMA StageFailsSettled == ASSUME Sound, Settled, NEW r \in Run, StageFails(r) PROVE Settled'
  <1> DEFINE o == run[r]
             t == [o EXCEPT !.pc = "ready", !.todo = <<>>]
  <1>1. /\ Moves(r, t) /\ UNCHANGED <<db, clock, commits, emptied>> /\ TxnOK(o, db, objects)
        /\ o.pc \in Staging \ {"delete"}
    BY DEF StageFails, Sound, Staging
  <1>2. /\ t.pc = "ready" /\ t.todo = <<>> /\ t.at = o.at /\ t.new = o.new /\ t.gone = o.gone
        /\ t.dropped = o.dropped
    BY <1>1 DEF TxnOK, TxnTyped, Fields
  <1> HIDE DEF t
  <1>3. o.pc # "idle" /\ TxnSettled(t)
    BY <1>1, <1>2, StopSettled DEF Staging
  <1> QED
    BY <1>1, <1>2, <1>3, SettledStep

LEMMA LookupFailsSettled ==
  ASSUME Sound, Settled, NEW r \in Run, run[r].pc \in {"record", "version"},
         Moves(r, [run[r] EXCEPT !.pc = "ready"]), UNCHANGED <<db, clock, commits, emptied>>
  PROVE  Settled'
  <1> DEFINE o == run[r]
             t == [o EXCEPT !.pc = "ready"]
  <1>1. Moves(r, t) /\ TxnOK(o, db, objects) /\ o.pc \in Staging \ {"delete"}
    BY DEF Sound, Staging
  <1>2. /\ t.pc = "ready" /\ t.todo = o.todo /\ t.at = o.at /\ t.new = o.new /\ t.gone = o.gone
        /\ t.dropped = o.dropped
    BY <1>1 DEF TxnOK, TxnTyped, Fields
  <1>3. o.todo = <<>>
    BY <1>1 DEF TxnOK, TxnTodo
  <1> HIDE DEF t
  <1>4. o.pc # "idle" /\ TxnSettled(t)
    BY <1>1, <1>2, <1>3, StopSettled DEF Staging
  <1> QED
    BY <1>1, <1>2, <1>4, SettledStep

(* A transaction goes on with a file, and what it adds is no vector.       *)
LEMMA GoOnSettled ==
  ASSUME Sound, Settled, NEW r \in Run, NEW t, NEW scans,
         run[r].pc \in Staging, t.pc \in Staging \ {"delete"},
         t.at = run[r].at, t.sha = run[r].sha, t.todo = run[r].todo, t.loaded = run[r].loaded,
         t.part = run[r].part \/ (t.part = run[r].part + 1 /\ t.todo = <<>>),
         t.version = run[r].version \/ (run[r].pc = "version" /\ ~run[r].reading),
         t.pc \in {"record", "version"} /\ ~t.reading => run[r].pc = "record" /\ ~run[r].reading,
         t.dropped = run[r].dropped, run[r].gone \subseteq t.gone,
         run[r].pc = "delete" => run[r].version \in t.gone,
         t.new.artifacts = run[r].new.artifacts,
         \A v \in t.new.versions \ run[r].new.versions : v.at = t.at,
         t.new.datasets = run[r].new.datasets \cup scans,
         \A d \in scans : /\ d.at = t.at /\ d.sha = t.sha /\ d.kind # "vector"
                          /\ d.part = run[r].part /\ t.part = run[r].part + 1,
         run[r].new.documents \subseteq t.new.documents
  PROVE  TxnSettled(t)
  <1> DEFINE o == run[r]
  <1>1. TxnSettled(o) /\ o.pc # "idle" /\ t.pc # "idle" /\ o.part \in Nat
    BY DEF Settled, Staging, Sound, TxnOK, TxnTyped
  <1>2. Listed(t) = Listed(o) /\ Staying(o) \subseteq Staying(t)
    BY DEF Listed, Staying
  <1>3. TxnTimed(t)
    BY <1>1 DEF TxnSettled, TxnTimed, Began
  <1>4. o.pc \in {"record", "version"} => o.todo = <<>> /\ Listed(o) = {}
    BY DEF Sound, TxnOK, TxnTodo, Listed
  <1>5. TxnInOrder(t)
    <2>1. \A d \in Listed(t) : d.sha = t.sha /\ d.version = t.version
      BY <1>1, <1>2, <1>4 DEF TxnSettled, TxnInOrder
    <2>2. ASSUME NEW d \in t.new.datasets, d.sha = t.sha
          PROVE  d.part \in Nat /\ (d.part < t.part \/ (d.part = t.part /\ t.todo # <<>>))
      <3>1. CASE d \in o.new.datasets
        <4>1. d.part \in Nat /\ (d.part < o.part \/ (d.part = o.part /\ o.todo # <<>>))
          BY <1>1, <2>2, <3>1 DEF TxnSettled, TxnInOrder
        <4> QED
          BY <1>1, <4>1
      <3>2. CASE d \in scans
        BY <1>1, <3>2
      <3> QED
        BY <2>2, <3>1, <3>2
    <2> QED
      BY <1>1, <1>2, <2>1, <2>2 DEF TxnSettled, TxnInOrder
  <1>6. TxnNovel(t)
    <2> SUFFICES ASSUME NEW d \in o.new.datasets \ Listed(o), d.kind = "vector",
                        ImportOf(d) \in o.new.artifacts \/ d.sha = o.sha
                 PROVE  Novel(d, t)
      BY <1>2 DEF TxnNovel
    <2>1. Novel(d, o)
      BY <1>1 DEF TxnSettled, TxnNovel
    <2> QED
      BY <1>2, <2>1, MoreStays
  <1>7. TxnLeft(t)
    <2>1. o.todo # <<>> => t.todo # <<>> /\ t.version = o.version /\ t.sha = o.sha /\ t.part = o.part
      BY <1>4
    <2>2. \A v : Covered(v, o) => Covered(v, t)
      BY <1>2, <2>1, StaysCovered
    <2>3. TxnLeft(o)
      BY <1>1 DEF TxnSettled
    <2>4. \A d \in t.dropped : d.version \in t.gone \/ Covered(d.version, t)
      BY <2>2, <2>3 DEF TxnLeft
    <2>5. t.loaded => Covered(t.version, t)
      BY <2>2, <2>3 DEF TxnLeft, Staging
    <2>6. t.pc \in {"record", "version"} /\ ~t.reading => ~t.loaded
      BY <2>3 DEF TxnLeft
    <2> QED
      BY <2>4, <2>5, <2>6 DEF TxnLeft
  <1>8. TxnDropped(t)
    <2>1. TxnDropped(o)
      BY <1>1 DEF TxnSettled
    <2>2. \A d \in Listed(t) : d.part = t.part
      BY <1>2, <2>1 DEF TxnDropped, Listed
    <2>3. ASSUME NEW d \in t.dropped, d.sha = t.sha
          PROVE  d.part \in Nat /\ (d.part < t.part \/ (d.part = t.part /\ t.todo # <<>>))
      <3>1. d.part \in Nat /\ (d.part < o.part \/ (d.part = o.part /\ o.todo # <<>>))
        BY <2>1, <2>3 DEF TxnDropped
      <3> QED
        BY <1>1, <3>1
    <2> QED
      BY <1>2, <2>1, <2>2, <2>3 DEF TxnDropped
  <1> QED
    BY <1>3, <1>5, <1>6, <1>7, <1>8 DEF TxnSettled

LEMMA GoOnPlain ==
  ASSUME Sound, Settled, NEW r \in Run, NEW t,
         run[r].pc \in Staging, t.pc \in Staging \ {"delete"},
         t.at = run[r].at, t.sha = run[r].sha, t.todo = run[r].todo, t.loaded = run[r].loaded,
         t.part = run[r].part \/ (t.part = run[r].part + 1 /\ t.todo = <<>>),
         t.version = run[r].version \/ (run[r].pc = "version" /\ ~run[r].reading),
         t.pc \in {"record", "version"} /\ ~t.reading => run[r].pc = "record" /\ ~run[r].reading,
         t.dropped = run[r].dropped, run[r].gone \subseteq t.gone,
         run[r].pc = "delete" => run[r].version \in t.gone,
         t.new.artifacts = run[r].new.artifacts,
         \A v \in t.new.versions \ run[r].new.versions : v.at = t.at,
         t.new.datasets = run[r].new.datasets,
         run[r].new.documents \subseteq t.new.documents
  PROVE  TxnSettled(t)
  <1>1. PICK scans : scans = {}
    OBVIOUS
  <1>2. t.new.datasets = run[r].new.datasets \cup scans
    BY <1>1
  <1>3. \A d \in scans : /\ d.at = t.at /\ d.sha = t.sha /\ d.kind # "vector"
                         /\ d.part = run[r].part /\ t.part = run[r].part + 1
    BY <1>1
  <1> QED
    BY <1>2, <1>3, GoOnSettled

(* A file that is new to the run: nothing in the transaction is of it.     *)
LEMMA StageSettled == ASSUME Sound, Settled, NEW r \in Run, NEW f \in Sha, Stage(r, f) PROVE Settled'
  <1> DEFINE o == run[r]
             row == [at |-> o.at, sha |-> f, status |-> "downloaded"]
             t == [o EXCEPT
               !.pc = "record", !.sha = f, !.part = 1, !.loaded = FALSE,
               !.reading = FALSE, !.target = None,
               !.new.artifacts = @ \cup {row}]
  <1>1. /\ Moves(r, t) /\ UNCHANGED <<db, clock, commits, emptied>> /\ TxnOK(o, db, objects)
        /\ o.pc = "ready" /\ ~ \E a \in Visible(r).artifacts : a.sha = f
    BY DEF Stage, Sound
  <1>2. DOMAIN o = Fields /\ DOMAIN o.new = Tables
    BY <1>1 DEF TxnOK, TxnTyped
  <1>3. /\ t.pc = "record" /\ t.at = o.at /\ t.sha = f /\ t.part = 1 /\ t.reading = FALSE
        /\ t.todo = o.todo /\ t.gone = o.gone /\ t.loaded = FALSE /\ t.dropped = o.dropped
        /\ t.new.artifacts = o.new.artifacts \cup {row}
        /\ t.new.versions = o.new.versions /\ t.new.datasets = o.new.datasets
        /\ t.new.documents = o.new.documents
    BY <1>2 DEF Fields, Tables
  <1>4. row.at = o.at /\ row.sha = f /\ row.status = "downloaded"
    OBVIOUS
  <1> HIDE DEF t, row
  <1>5. TxnSettled(o) /\ o.todo = <<>> /\ Listed(o) = {} /\ Listed(t) = {}
    BY <1>1, <1>3 DEF Settled, TxnOK, TxnTodo, Listed
  <1>6. /\ \A a \in o.new.artifacts : a.sha # f
        /\ \A d \in o.new.datasets : d.sha # f
    BY <1>1 DEF Visible, TxnOK, TxnSourced
  <1>7. Staying(o) \subseteq Staying(t)
    BY <1>3, <1>5 DEF Staying
  <1>8. TxnTimed(t)
    BY <1>1, <1>3, <1>4, <1>5 DEF TxnSettled, TxnTimed, Began
  <1>9. TxnInOrder(t)
    BY <1>3, <1>4, <1>5, <1>6 DEF TxnSettled, TxnInOrder
  <1>10. TxnNovel(t)
    <2> SUFFICES ASSUME NEW d \in o.new.datasets, d.kind = "vector",
                        ImportOf(d) \in o.new.artifacts \cup {row}
                 PROVE  Novel(d, t)
      BY <1>3, <1>6 DEF TxnNovel
    <2>1. ImportOf(d) \in o.new.artifacts
      BY <1>4 DEF ImportOf
    <2>2. Novel(d, o)
      BY <1>5, <2>1 DEF TxnSettled, TxnNovel
    <2> QED
      BY <1>3, <1>7, <2>2, MoreStays
  <1>11. TxnLeft(t)
    <2>1. \A v : Covered(v, o) => Covered(v, t)
      BY <1>3, <1>5, <1>7, StaysCovered
    <2> QED
      BY <1>1, <1>3, <1>5, <2>1 DEF TxnSettled, TxnLeft
  <1>12. TxnDropped(t)
    BY <1>3, <1>5, <1>6 DEF TxnSettled, TxnDropped
  <1> QED
    BY <1>1, <1>3, <1>8, <1>9, <1>10, <1>11, <1>12, SettledStep DEF TxnSettled

(* All datasets of the file have been compared, and it counts as imported. *)
LEMMA FinishSettled == ASSUME Sound, Settled, NEW r \in Run, Finish(r) PROVE Settled'
  <1> DEFINE o == run[r]
             Mark(a) == [a EXCEPT !.status = IF a.sha = o.sha THEN "imported" ELSE a.status]
             marked == {Mark(a) : a \in o.new.artifacts}
             t == [o EXCEPT !.pc = "ready", !.new.artifacts = marked]
  <1>1. /\ Moves(r, t) /\ UNCHANGED <<db, clock, commits, emptied>> /\ TxnOK(o, db, objects)
        /\ o.pc = "part"
    BY DEF Finish, Sound
  <1>2. DOMAIN o = Fields /\ DOMAIN o.new = Tables
    BY <1>1 DEF TxnOK, TxnTyped
  <1>3. /\ t.pc = "ready" /\ t.at = o.at /\ t.todo = o.todo /\ t.gone = o.gone
        /\ t.sha = o.sha /\ t.version = o.version
        /\ t.dropped = o.dropped /\ t.new.artifacts = marked
        /\ t.new.versions = o.new.versions /\ t.new.datasets = o.new.datasets
        /\ t.new.documents = o.new.documents
    BY <1>2 DEF Fields, Tables
  <1>4. \A a \in o.new.artifacts :
          /\ Mark(a).at = a.at /\ Mark(a).sha = a.sha
          /\ a.sha # o.sha => Mark(a) = a
    <2> SUFFICES ASSUME NEW a \in o.new.artifacts
                 PROVE  Mark(a).at = a.at /\ Mark(a).sha = a.sha /\ (a.sha # o.sha => Mark(a) = a)
      OBVIOUS
    <2>1. a = [at |-> a.at, sha |-> a.sha, status |-> a.status]
      BY <1>1 DEF TxnOK, TxnTyped
    <2> QED
      BY <2>1
  <1>5. /\ \A b \in marked : \E a \in o.new.artifacts : b = Mark(a)
        /\ \A a \in o.new.artifacts : Mark(a) \in marked
    OBVIOUS
  <1> HIDE DEF t, Mark, marked
  <1>6. TxnSettled(o) /\ o.todo = <<>> /\ Listed(o) = {} /\ Listed(t) = {}
    BY <1>1, <1>3 DEF Settled, TxnOK, TxnTodo, Listed
  <1>7. Staying(o) \subseteq Staying(t)
    BY <1>3, <1>6 DEF Staying
  <1>8. TxnTimed(t)
    <2>1. \A b \in marked : b.at = o.at
      BY <1>4, <1>5, <1>6 DEF TxnSettled, TxnTimed
    <2> QED
      BY <1>1, <1>3, <1>6, <2>1 DEF TxnSettled, TxnTimed, Began
  <1>9. TxnInOrder(t)
    <2>1. \A a, b \in marked : a.sha = b.sha => a = b
      BY <1>4, <1>5, <1>6 DEF TxnSettled, TxnInOrder
    <2> QED
      BY <1>3, <1>6, <2>1 DEF TxnSettled, TxnInOrder, Staging
  <1>10. TxnNovel(t)
    <2> SUFFICES ASSUME NEW d \in o.new.datasets, d.kind = "vector", ImportOf(d) \in marked
                 PROVE  Novel(d, t)
      BY <1>3 DEF TxnNovel, Staging
    <2>1. PICK a \in o.new.artifacts : ImportOf(d) = Mark(a)
      BY <1>5
    <2>2. a.sha = d.sha
      BY <1>4, <2>1 DEF ImportOf
    <2>3. ImportOf(d) \in o.new.artifacts \/ d.sha = o.sha
      BY <1>4, <2>1, <2>2
    <2>4. Novel(d, o)
      BY <1>1, <1>6, <2>3 DEF TxnSettled, TxnNovel, Staging
    <2> QED
      BY <1>3, <1>7, <2>4, MoreStays
  <1>11. TxnLeft(t)
    <2>1. \A v : Covered(v, o) => Covered(v, t)
      BY <1>3, <1>6, <1>7, StaysCovered
    <2> QED
      BY <1>1, <1>3, <1>6, <2>1 DEF TxnSettled, TxnLeft, Staging
  <1>12. TxnDropped(t)
    <2>1. \A d \in t.dropped : \E b \in t.new.artifacts : b.sha = d.sha
      BY <1>3, <1>4, <1>5, <1>6 DEF TxnSettled, TxnDropped
    <2> QED
      BY <1>3, <1>6, <2>1 DEF TxnSettled, TxnDropped, Staging
  <1> QED
    BY <1>1, <1>3, <1>8, <1>9, <1>10, <1>11, <1>12, SettledStep DEF TxnSettled

LEMMA ResolveRecordSettled ==
  ASSUME Sound, Settled, NEW r \in Run, ResolveRecord(r) PROVE Settled'
  <1> DEFINE o == run[r]
             title == Hints(r).title
             found == {x \in Visible(r).records : x.title = title}
             row == [at |-> o.at, sha |-> o.sha, title |-> title]
             record == IF found = {} THEN row ELSE CHOOSE x \in found : TRUE
             t == [o EXCEPT !.pc = "version",
                            !.new.records = IF found = {} THEN @ \cup {row} ELSE @,
                            !.record = record]
  <1>1. /\ o.pc = "record" /\ TxnOK(o, db, objects) /\ UNCHANGED <<db, clock, commits, emptied>>
        /\ Moves(r, [o EXCEPT !.pc = "ready"]) \/ Moves(r, t)
    BY DEF ResolveRecord, GetOrCreate, Sound
  <1>2. DOMAIN o = Fields /\ DOMAIN o.new = Tables
    BY <1>1 DEF TxnOK, TxnTyped
  <1>3. /\ t.pc = "version" /\ t.at = o.at /\ t.sha = o.sha /\ t.part = o.part
        /\ t.reading = o.reading /\ t.todo = o.todo /\ t.gone = o.gone
        /\ t.loaded = o.loaded /\ t.version = o.version /\ t.dropped = o.dropped
        /\ t.new.artifacts = o.new.artifacts
        /\ t.new.versions = o.new.versions /\ t.new.datasets = o.new.datasets
        /\ t.new.documents = o.new.documents
    BY <1>2 DEF Fields, Tables
  <1> HIDE DEF t, record, found, row, title
  <1>4. CASE Moves(r, t)
    <2>1. o.pc # "idle" /\ TxnSettled(t)
      <3>1. o.pc \in Staging /\ t.pc \in Staging \ {"delete"} /\ o.pc # "idle"
        BY <1>1, <1>3 DEF Staging
      <3> QED
        BY <1>1, <1>3, <3>1, GoOnPlain
    <2> QED
      BY <1>1, <1>3, <1>4, <2>1, SettledStep
  <1>5. CASE Moves(r, [o EXCEPT !.pc = "ready"])
    BY <1>1, <1>5, LookupFailsSettled
  <1> QED
    BY <1>1, <1>4, <1>5

LEMMA ResolveVersionSettled ==
  ASSUME Sound, Settled, NEW r \in Run, ResolveVersion(r) PROVE Settled'
  <1> DEFINE o == run[r]
             decision == Hints(r).decision
             found == {v \in Visible(r).versions : decision # NoDecision
                         /\ v.decision = decision /\ v.record = o.record}
             row == [at |-> o.at, sha |-> o.sha, record |-> o.record, decision |-> decision,
                     part |-> IF o.reading THEN o.part ELSE 0]
             version == IF found = {} THEN row ELSE CHOOSE x \in found : TRUE
             field == IF o.reading THEN "target" ELSE "version"
             t == [o EXCEPT !.pc = "part",
                            !.new.versions = IF found = {} THEN @ \cup {row} ELSE @,
                            ![field] = version]
  <1>1. /\ o.pc = "version" /\ TxnOK(o, db, objects) /\ UNCHANGED <<db, clock, commits, emptied>>
        /\ Moves(r, [o EXCEPT !.pc = "ready"]) \/ Moves(r, t)
    BY DEF ResolveVersion, GetOrCreate, Sound
  <1>2. DOMAIN o = Fields /\ DOMAIN o.new = Tables
    BY <1>1 DEF TxnOK, TxnTyped
  <1>3. row.at = o.at
    OBVIOUS
  <1>4. /\ t.pc = "part" /\ t.at = o.at /\ t.sha = o.sha /\ t.part = o.part
        /\ t.todo = o.todo /\ t.gone = o.gone /\ t.loaded = o.loaded /\ t.dropped = o.dropped
        /\ t.version = o.version \/ ~o.reading
        /\ t.new.artifacts = o.new.artifacts /\ t.new.versions \subseteq o.new.versions \cup {row}
        /\ t.new.datasets = o.new.datasets /\ t.new.documents = o.new.documents
    <2> HIDE DEF version, found, row
    <2>1. field \in {"target", "version"} /\ (field = "version" <=> ~o.reading)
      OBVIOUS
    <2> HIDE DEF field
    <2>2. CASE field = "version"
      BY <1>2, <2>1, <2>2 DEF Fields, Tables
    <2>3. CASE field = "target"
      BY <1>2, <2>1, <2>3 DEF Fields, Tables
    <2> QED
      BY <2>1, <2>2, <2>3
  <1> HIDE DEF t, version, found, row, decision, field
  <1>5. CASE Moves(r, t)
    <2>1. o.pc # "idle" /\ TxnSettled(t)
      <3>1. o.pc \in Staging /\ t.pc \in Staging \ {"delete"} /\ o.pc # "idle"
        BY <1>1, <1>4 DEF Staging
      <3>2. \A v \in t.new.versions \ o.new.versions : v.at = t.at
        BY <1>3, <1>4
      <3> QED
        BY <1>1, <1>4, <3>1, <3>2, GoOnPlain
    <2> QED
      BY <1>1, <1>4, <1>5, <2>1, SettledStep
  <1>6. CASE Moves(r, [o EXCEPT !.pc = "ready"])
    BY <1>1, <1>6, LookupFailsSettled
  <1> QED
    BY <1>1, <1>5, <1>6

LEMMA ReadDocumentSettled == ASSUME Sound, Settled, NEW r \in Run, ReadDocument(r) PROVE Settled'
  <1> DEFINE o == run[r]
             t == [o EXCEPT !.pc = "record", !.reading = TRUE]
  <1>1. /\ Moves(r, t) /\ UNCHANGED <<db, clock, commits, emptied>> /\ TxnOK(o, db, objects)
        /\ o.pc = "part"
    BY DEF ReadDocument, InPart, Sound
  <1>2. /\ t.pc = "record" /\ t.reading = TRUE /\ t.todo = o.todo /\ t.gone = o.gone
        /\ t.new = o.new /\ t.at = o.at /\ t.sha = o.sha /\ t.part = o.part
        /\ t.version = o.version /\ t.loaded = o.loaded /\ t.dropped = o.dropped
    BY <1>1 DEF TxnOK, TxnTyped, Fields
  <1> HIDE DEF t
  <1>3. o.pc \in Staging /\ t.pc \in Staging \ {"delete"} /\ o.pc # "idle"
    BY <1>1, <1>2 DEF Staging
  <1>4. TxnSettled(t)
    BY <1>1, <1>2, <1>3, GoOnPlain
  <1> QED
    BY <1>1, <1>2, <1>3, <1>4, SettledStep

LEMMA SkipPartSettled == ASSUME Sound, Settled, NEW r \in Run, SkipPart(r) PROVE Settled'
  <1> DEFINE o == run[r]
             t == [o EXCEPT !.part = @ + 1]
  <1>1. /\ Moves(r, t) /\ UNCHANGED <<db, clock, commits, emptied>> /\ TxnOK(o, db, objects)
        /\ o.pc = "part"
    BY DEF SkipPart, InPart, Sound
  <1>2. /\ t.pc = "part" /\ t.todo = o.todo /\ t.gone = o.gone /\ t.new = o.new
        /\ t.at = o.at /\ t.sha = o.sha /\ t.part = o.part + 1 /\ t.version = o.version
        /\ t.loaded = o.loaded /\ t.dropped = o.dropped
    BY <1>1 DEF TxnOK, TxnTyped, Fields
  <1>3. o.todo = <<>>
    BY <1>1 DEF TxnOK, TxnTodo
  <1> HIDE DEF t
  <1>4. o.pc \in Staging /\ t.pc \in Staging \ {"delete"} /\ o.pc # "idle"
    BY <1>1, <1>2 DEF Staging
  <1>5. TxnSettled(t)
    BY <1>1, <1>2, <1>3, <1>4, GoOnPlain
  <1> QED
    BY <1>1, <1>2, <1>4, <1>5, SettledStep

(* An insertion that goes through, or breaks the run.                      *)
LEMMA InsertSettled ==
  ASSUME Sound, Settled, NEW r \in Run, NEW v, NEW t, Insert(r, v, t), run[r].pc # "idle",
         t.at = run[r].at, TxnSettled(t)
  PROVE  Settled'
  <1>1. CASE Break(r)
    BY <1>1, BreakSettled
  <1>2. CASE Moves(r, t) /\ UNCHANGED <<objects, db, clock, commits, emptied, mishaps>>
    BY <1>2, SettledStep
  <1> QED
    BY <1>1, <1>2 DEF Insert

LEMMA ImportRasterSettled == ASSUME Sound, Settled, NEW r \in Run, ImportRaster(r) PROVE Settled'
  <1> DEFINE o == run[r]
             part == File[o.sha].parts[o.part]
             row == Imported(r, 1, part)
             t == [o EXCEPT !.part = @ + 1, !.new.datasets = @ \cup {row}]
  <1>1. /\ Insert(r, o.version, t) /\ TxnOK(o, db, objects) /\ o.pc = "part" /\ part.kind = "raster"
        /\ o.part \in Nat \ {0}
    BY DEF ImportRaster, InPart, Sound, TxnOK, TxnTyped, Staging
  <1>2. DOMAIN o = Fields /\ DOMAIN o.new = Tables
    BY <1>1 DEF TxnOK, TxnTyped
  <1>3. /\ t.pc = "part" /\ t.todo = o.todo /\ t.gone = o.gone
        /\ t.at = o.at /\ t.sha = o.sha /\ t.part = o.part + 1 /\ t.version = o.version
        /\ t.loaded = o.loaded /\ t.dropped = o.dropped
        /\ t.new.artifacts = o.new.artifacts /\ t.new.versions = o.new.versions
        /\ t.new.datasets = o.new.datasets \cup {row} /\ t.new.documents = o.new.documents
    BY <1>1, <1>2 DEF Fields, Tables
  <1>4. o.todo = <<>>
    BY <1>1 DEF TxnOK, TxnTodo
  <1> HIDE DEF part, t
  <1>5. row.at = o.at /\ row.sha = o.sha /\ row.kind # "vector" /\ row.part = o.part
    BY <1>1, ImportedFields
  <1> HIDE DEF row
  <1>6. o.pc \in Staging /\ t.pc \in Staging \ {"delete"} /\ o.pc # "idle"
    BY <1>1, <1>3 DEF Staging
  <1>7. TxnSettled(t)
    <2>1. PICK scans : scans = {row}
      OBVIOUS
    <2>2. /\ t.new.datasets = o.new.datasets \cup scans
          /\ \A d \in scans : /\ d.at = t.at /\ d.sha = t.sha /\ d.kind # "vector"
                              /\ d.part = o.part /\ t.part = o.part + 1
      BY <1>3, <1>5, <2>1
    <2> QED
      BY <1>1, <1>3, <1>4, <1>6, <2>2, GoOnSettled, ZenonT(60)
  <1> QED
    BY <1>1, <1>3, <1>6, <1>7, InsertSettled

LEMMA ImportDocumentSettled ==
  ASSUME Sound, Settled, NEW r \in Run, ImportDocument(r) PROVE Settled'
  <1> DEFINE o == run[r]
             v == IF o.reading THEN o.target ELSE o.version
             row == [at |-> o.at, sha |-> o.sha, part |-> o.part, version |-> v]
             t == [o EXCEPT !.part = @ + 1, !.reading = FALSE, !.target = None,
                            !.new.documents = @ \cup {row}]
  <1>1. Insert(r, v, t) /\ TxnOK(o, db, objects) /\ o.pc = "part" /\ o.part \in Nat \ {0}
    BY DEF ImportDocument, InPart, Sound, TxnOK, TxnTyped, Staging
  <1>2. DOMAIN o = Fields /\ DOMAIN o.new = Tables
    BY <1>1 DEF TxnOK, TxnTyped
  <1> HIDE DEF v, row
  <1>3. /\ t.pc = "part" /\ t.todo = o.todo /\ t.gone = o.gone
        /\ t.at = o.at /\ t.sha = o.sha /\ t.part = o.part + 1 /\ t.version = o.version
        /\ t.loaded = o.loaded /\ t.dropped = o.dropped
        /\ t.new.artifacts = o.new.artifacts /\ t.new.versions = o.new.versions
        /\ t.new.datasets = o.new.datasets /\ t.new.documents = o.new.documents \cup {row}
    BY <1>1, <1>2 DEF Fields, Tables
  <1>4. o.todo = <<>>
    BY <1>1 DEF TxnOK, TxnTodo
  <1> HIDE DEF t
  <1>5. o.pc \in Staging /\ t.pc \in Staging \ {"delete"} /\ o.pc # "idle"
    BY <1>1, <1>3 DEF Staging
  <1>6. TxnSettled(t)
    BY <1>1, <1>3, <1>4, <1>5, GoOnPlain
  <1> QED
    BY <1>1, <1>3, <1>5, <1>6, InsertSettled

LEMMA DeleteVersionSettled ==
  ASSUME Sound, Settled, NEW r \in Run, DeleteVersion(r) PROVE Settled'
  <1> DEFINE o == run[r]
             v == o.version
             t == [o EXCEPT !.pc = IF o.todo = <<>> THEN "part" ELSE "compare", !.gone = @ \cup {v}]
  <1>1. CASE Break(r)
    BY <1>1, BreakSettled
  <1>2. CASE Moves(r, t) /\ UNCHANGED <<db, clock, commits, emptied>>
    <2>1. TxnOK(o, db, objects) /\ o.pc = "delete"
      BY DEF DeleteVersion, Sound
    <2>2. /\ t.pc = (IF o.todo = <<>> THEN "part" ELSE "compare")
          /\ t.gone = o.gone \cup {v} /\ t.new = o.new /\ t.todo = o.todo /\ t.at = o.at
          /\ t.sha = o.sha /\ t.part = o.part /\ t.version = o.version
          /\ t.loaded = o.loaded /\ t.dropped = o.dropped
      BY <2>1 DEF TxnOK, TxnTyped, Fields
    <2> HIDE DEF t
    <2>3. o.pc \in Staging /\ t.pc \in {"part", "compare"} /\ o.pc # "idle"
          /\ t.pc \in Staging \ {"delete"}
      BY <2>1, <2>2 DEF Staging
    <2>4. TxnSettled(t)
      BY <2>1, <2>2, <2>3, GoOnPlain
    <2> QED
      BY <1>2, <2>2, <2>3, <2>4, SettledStep
  <1> QED
    BY <1>1, <1>2 DEF DeleteVersion

LEMMA ImportVectorSettled == ASSUME Sound, Settled, NEW r \in Run, ImportVector(r) PROVE Settled'
  <1> DEFINE o == run[r]
             part == File[o.sha].parts[o.part]
             rows == [n \in DOMAIN part.layers |-> Imported(r, n, part)]
             added == {rows[n] : n \in DOMAIN rows}
             t == [o EXCEPT !.pc = "compare", !.todo = rows, !.new.datasets = @ \cup added]
  <1>1. /\ Insert(r, o.version, t) /\ TxnOK(o, db, objects)
        /\ o.pc = "part" /\ o.sha \in Sha /\ o.part \in Nat \ {0}
        /\ o.part <= Len(File[o.sha].parts) /\ part.kind = "vector"
    BY DEF ImportVector, InPart, Sound, TxnOK, TxnTyped, Staging
  <1>2. DOMAIN o = Fields /\ DOMAIN o.new = Tables
    BY <1>1 DEF TxnOK, TxnTyped
  <1>3. /\ t.pc = "compare" /\ t.todo = rows /\ t.gone = o.gone /\ t.at = o.at /\ t.sha = o.sha
        /\ t.part = o.part /\ t.version = o.version /\ t.loaded = o.loaded
        /\ t.dropped = o.dropped /\ t.new.artifacts = o.new.artifacts
        /\ t.new.versions = o.new.versions /\ t.new.datasets = o.new.datasets \cup added
        /\ t.new.documents = o.new.documents
    BY <1>2 DEF Fields, Tables
  <1>4. \A n \in DOMAIN part.layers :
          /\ rows[n].at = o.at /\ rows[n].sha = o.sha /\ rows[n].version = o.version
          /\ rows[n].name = part.layers[n].name /\ rows[n].part = o.part
    <2> HIDE DEF part, t
    <2> TAKE n \in DOMAIN part.layers
    <2>1. rows[n] = Imported(r, n, part)
      OBVIOUS
    <2> HIDE DEF rows, added
    <2> QED
      BY <2>1, ImportedFields
  <1>5. DOMAIN rows = DOMAIN part.layers
    OBVIOUS
  <1>6. \A d \in added : \E n \in DOMAIN part.layers : d = rows[n]
    OBVIOUS
  <1> HIDE DEF t
  <1>7. Listed(t) = added
    <2> HIDE DEF rows
    <2> QED
      BY <1>3 DEF Listed
  <1> HIDE DEF added
  <1>8. o.part \in DOMAIN File[o.sha].parts
    BY <1>1, PartNumbers
  <1> DEFINE N == Len(part.layers)
  <1>9. /\ N \in Nat \ {0} /\ DOMAIN part.layers = 1 .. N
        /\ \A i, j \in DOMAIN part.layers : part.layers[i].name = part.layers[j].name => i = j
    BY <1>1, <1>8, LayersOfPart
  <1>11. rows = [n \in 1 .. N |-> rows[n]]
    BY <1>9
  <1> HIDE DEF rows, part, N
  <1>12. Len(rows) = N /\ rows # <<>>
    BY <1>9, <1>11
  <1>13. /\ TxnSettled(o) /\ o.todo = <<>> /\ Listed(o) = {} /\ o.pc # "idle"
         /\ o.pc \in Staging /\ t.pc \in Staging
    BY <1>1, <1>3 DEF Settled, TxnOK, TxnTodo, Listed, Staging
  <1>14. \A d \in o.new.datasets : d \notin added
    <2> SUFFICES ASSUME NEW d \in o.new.datasets, d \in added PROVE FALSE
      OBVIOUS
    <2>1. d.sha = o.sha /\ d.part = o.part
      BY <1>4, <1>6
    <2>2. d.part < o.part
      BY <1>13, <2>1 DEF TxnSettled, TxnInOrder
    <2> QED
      BY <1>1, <2>1, <2>2
  <1>15. Staying(o) \subseteq Staying(t)
    BY <1>3, <1>7, <1>14 DEF Staying
  <1>16. TxnTimed(t)
    BY <1>3, <1>4, <1>6, <1>13 DEF TxnSettled, TxnTimed, Began
  <1>17. TxnInOrder(t)
    <2>1. \A d \in added : d.sha = t.sha /\ d.version = t.version /\ d.part = t.part
      BY <1>3, <1>4, <1>6
    <2>2. \A d, e \in added : d.name = e.name => d = e
      BY <1>4, <1>6, <1>9
    <2>3. \A d \in t.new.datasets : d.sha = t.sha =>
            d.part \in Nat /\ (d.part < t.part \/ (d.part = t.part /\ t.todo # <<>>))
      BY <1>1, <1>3, <1>12, <1>13, <2>1 DEF TxnSettled, TxnInOrder
    <2> QED
      BY <1>3, <1>7, <1>13, <2>1, <2>2, <2>3 DEF TxnSettled, TxnInOrder
  <1>18. TxnNovel(t)
    <2> SUFFICES ASSUME NEW d \in t.new.datasets \ Listed(t), d.kind = "vector",
                        ImportOf(d) \in t.new.artifacts \/ d.sha = t.sha
                 PROVE  Novel(d, t)
      BY DEF TxnNovel
    <2>1. d \in o.new.datasets \ Listed(o)
      BY <1>3, <1>7, <1>13
    <2>2. Novel(d, o)
      BY <1>3, <1>13, <2>1 DEF TxnSettled, TxnNovel
    <2> QED
      BY <1>3, <1>15, <2>2, MoreStays
  <1>19. TxnLeft(t)
    <2>1. \A v : Covered(v, o) => Covered(v, t)
      BY <1>3, <1>13, <1>15, StaysCovered
    <2> QED
      BY <1>1, <1>3, <1>13, <2>1 DEF TxnSettled, TxnLeft
  <1>20. TxnDropped(t)
    <2>1. TxnDropped(o)
      BY <1>13 DEF TxnSettled
    <2>2. \A d \in added : d.sha = o.sha /\ d.part = o.part
      BY <1>4, <1>6
    <2>3. ASSUME NEW d \in o.dropped, d.sha = o.sha PROVE d.part \in Nat /\ d.part < o.part
      BY <1>13, <2>1, <2>3 DEF TxnDropped
    <2>4. \A d \in o.dropped : d \notin added
      BY <1>1, <2>2, <2>3
    <2> QED
      BY <1>3, <1>7, <2>1, <2>2, <2>3, <2>4 DEF TxnDropped
  <1> QED
    BY <1>1, <1>3, <1>13, <1>16, <1>17, <1>18, <1>19, <1>20, InsertSettled DEF TxnSettled

LEMMA NothingListed == ASSUME NEW t, t.todo = <<>> PROVE Listed(t) = {}
  BY DEF Listed

LEMMA ListedTail ==
  ASSUME NEW o, NEW t, TxnTodo(o), o.todo # <<>>, t.todo = Tail(o.todo)
  PROVE  /\ Head(o.todo) \in Listed(o) /\ Listed(t) = Listed(o) \ {Head(o.todo)}
         /\ t.todo = <<>> <=> Len(o.todo) = 1
  <1> DEFINE S == o.new.datasets
             s == o.todo
             n == Len(Tail(s))
  <1>1. s \in Seq(S) /\ \A i, j \in DOMAIN s : s[i] = s[j] => i = j
    BY DEF TxnTodo
  <1> HIDE DEF S
  <1>2. /\ Head(s) = s[1] /\ n = Len(s) - 1 /\ Len(s) \in Nat \ {0}
        /\ DOMAIN s = 1 .. Len(s) /\ DOMAIN Tail(s) = 1 .. n
        /\ \A i \in 1 .. n : Tail(s)[i] = s[i + 1]
    <2>1. Head(s) = s[1]
      BY <1>1
    <2>2. Len(s) \in Nat /\ DOMAIN s = 1 .. Len(s) /\ (Len(s) = 0 => s = <<>>)
      BY <1>1
    <2>3. /\ Tail(s) \in Seq(S) /\ n = Len(s) - 1 /\ \A i \in 1 .. n : Tail(s)[i] = s[i + 1]
      BY <1>1, HeadTailProperties
    <2> QED
      BY <2>1, <2>2, <2>3
  <1> HIDE DEF n, s
  <1>3. s # <<>>
    BY DEF s
  <1>4. s[1] \in Listed(o)
    BY <1>2 DEF Listed, s
  <1>5. ASSUME NEW x \in Listed(o), x # s[1] PROVE x \in Listed(t)
    <2>1. PICK i \in 1 .. Len(s) : x = s[i]
      BY <1>2 DEF Listed, s
    <2>2. i # 1 /\ i \in Int
      BY <1>5, <2>1
    <2>3. i - 1 \in 1 .. n /\ (i - 1) + 1 = i
      BY <1>2, <2>1, <2>2
    <2>4. Tail(s)[i - 1] = x
      BY <1>2, <2>1, <2>3
    <2> QED
      BY <1>2, <2>3, <2>4 DEF Listed, s
  <1>6. ASSUME NEW x \in Listed(t) PROVE x \in Listed(o) /\ x # s[1]
    <2>1. PICK i \in 1 .. n : x = Tail(s)[i]
      BY <1>2 DEF Listed, s
    <2>2. i + 1 \in 1 .. Len(s) /\ 1 \in 1 .. Len(s) /\ i + 1 # 1
      BY <1>2, <2>1
    <2>3. x = s[i + 1] /\ s[i + 1] # s[1]
      BY <1>1, <1>2, <2>1, <2>2
    <2> QED
      BY <1>2, <2>2, <2>3 DEF Listed, s
  <1>7. Tail(s) = <<>> <=> Len(s) = 1
    BY <1>1, <1>3, TailOnce
  <1> QED
    BY <1>2, <1>4, <1>5, <1>6, <1>7 DEF s

(* The comparison with the dataset before it, made among what was visible, *)
(* is one with the last that was committed before the run.                 *)
LEMMA KeptIsNovel ==
  ASSUME Sound, Settled, NEW r \in Run, NEW t, NEW d \in Listed(run[r]), run[r].pc = "compare",
         LET priors == Priors(Visible(r).datasets, d) IN
           priors = {} \/ \E e \in priors : Digest(e) # Digest(d),
         t.new = run[r].new, Listed(t) = Listed(run[r]) \ {d}
  PROVE  Novel(d, t)
  <1> DEFINE o == run[r]
             same == {e \in Visible(r).datasets : SameLayer(d, e) /\ e # d}
  <1>1. TxnSettled(o)
    BY DEF Settled
  <1> SUFFICES ASSUME \A e \in Staying(t) : e # d /\ SameLayer(d, e) => e \in Past(d)
               PROVE  Last(d) # {} => \E e \in Last(d) : Digest(e) # Digest(d)
    BY DEF Novel
  <1>2. ASSUME NEW e \in same PROVE e \in Past(d)
    <2>1. e \in db.datasets \cup o.new.datasets /\ e.name = d.name /\ e # d /\ SameLayer(d, e)
      BY DEF Visible, SameLayer
    <2>2. e \notin Listed(o)
      BY <1>1, <2>1 DEF TxnSettled, TxnInOrder
    <2> QED
      BY <2>1, <2>2 DEF Staying
  <1>3. ASSUME NEW e \in Past(d) PROVE e \in same
    <2>1. e \in db.datasets /\ SameLayer(d, e)
      BY DEF Past
    <2>2. d \in o.new.datasets
      BY ElementOfSeq DEF Sound, TxnOK, TxnTodo, Listed
    <2>3. Began(e) /\ ~Began(d)
      BY <1>1, <2>1, <2>2 DEF Settled, Numbered, TxnSettled, TxnTimed, Began
    <2> QED
      BY <2>1, <2>3 DEF Visible
  <1>4. same = Past(d)
    <2> HIDE DEF same
    <2>1. \A e : e \in same <=> e \in Past(d)
      BY <1>2, <1>3
    <2> QED
      BY <2>1
  <1>5. Priors(Visible(r).datasets, d) = Last(d)
    BY <1>4 DEF Priors, Last
  <1> QED
    BY <1>5

(* A dataset was compared: it stays, or it goes.                           *)
LEMMA ComparedInOrder ==
  ASSUME NEW o, NEW t, TxnTodo(o), TxnInOrder(o), o.pc = "compare", t.pc \in Staging,
         o.part \in Nat, t.todo = Tail(o.todo), t.sha = o.sha, t.version = o.version,
         t.part = (IF Len(o.todo) = 1 THEN o.part + 1 ELSE o.part),
         t.new.artifacts = o.new.artifacts, t.new.datasets \subseteq o.new.datasets
  PROVE  TxnInOrder(t)
  <1>1. o.todo # <<>> /\ o.pc \in Staging
    BY DEF TxnTodo, Staging
  <1>2. Listed(t) \subseteq Listed(o) /\ (t.todo = <<>> <=> Len(o.todo) = 1)
    BY <1>1, ListedTail
  <1>3. ASSUME NEW d \in t.new.datasets, d.sha = t.sha
        PROVE  d.part \in Nat /\ (d.part < t.part \/ (d.part = t.part /\ t.todo # <<>>))
    <2>1. d.part \in Nat /\ (d.part < o.part \/ d.part = o.part)
      BY <1>1, <1>3 DEF TxnInOrder
    <2> QED
      BY <1>2, <2>1
  <1> QED
    BY <1>1, <1>2, <1>3 DEF TxnInOrder

LEMMA ComparedDropped ==
  ASSUME NEW o, NEW t, TxnTodo(o), TxnInOrder(o), TxnDropped(o), o.pc = "compare", t.pc \in Staging,
         o.part \in Nat, t.todo = Tail(o.todo), t.sha = o.sha, t.at = o.at,
         t.part = (IF Len(o.todo) = 1 THEN o.part + 1 ELSE o.part),
         t.new.artifacts = o.new.artifacts,
         \A d \in t.dropped \ o.dropped :
           d = Head(o.todo) /\ d.at = o.at /\ \E a \in o.new.artifacts : a.sha = d.sha
  PROVE  TxnDropped(t)
  <1>1. o.todo # <<>> /\ o.pc \in Staging
    BY DEF TxnTodo, Staging
  <1>2. /\ Head(o.todo) \in Listed(o) /\ Listed(t) = Listed(o) \ {Head(o.todo)}
        /\ t.todo = <<>> <=> Len(o.todo) = 1
    BY <1>1, ListedTail
  <1>3. \A d \in Listed(o) : d.part = o.part
    BY <1>1 DEF TxnDropped
  <1>4. \A d \in t.dropped :
          d.at = t.at /\ d \notin Listed(t) /\ \E a \in t.new.artifacts : a.sha = d.sha
    BY <1>2 DEF TxnDropped
  <1>5. \A d \in Listed(t) : d.part = t.part
    <2>1. CASE t.todo = <<>>
      BY <2>1, NothingListed
    <2>2. CASE t.todo # <<>>
      BY <1>2, <1>3, <2>2
    <2> QED
      BY <2>1, <2>2
  <1>6. ASSUME NEW d \in t.dropped, d.sha = t.sha
        PROVE  d.part \in Nat /\ (d.part < t.part \/ (d.part = t.part /\ t.todo # <<>>))
    <2>1. d.part \in Nat /\ (d.part < o.part \/ d.part = o.part)
      BY <1>1, <1>2, <1>3, <1>6 DEF TxnDropped
    <2> QED
      BY <1>2, <2>1
  <1> QED
    BY <1>4, <1>5, <1>6 DEF TxnDropped

LEMMA KeepSettled == ASSUME Sound, Settled, NEW r \in Run, Keep(r) PROVE Settled'
  <1> DEFINE o == run[r]
             d == Head(o.todo)
             t == [o EXCEPT !.todo = Tail(@), !.pc = Next1(r),
                            !.part = IF Len(o.todo) = 1 THEN @ + 1 ELSE @]
  <1>1. /\ Moves(r, t) /\ UNCHANGED <<db, clock, commits, emptied>> /\ TxnOK(o, db, objects)
        /\ o.pc = "compare" /\ o.todo # <<>> /\ o.part \in Nat
        /\ LET priors == Priors(Visible(r).datasets, d) IN
             priors = {} \/ \E e \in priors : Digest(e) # Digest(d)
    BY DEF Keep, Sound, TxnOK, TxnTyped, Staging
  <1>2. DOMAIN o = Fields
    BY <1>1 DEF TxnOK, TxnTyped
  <1>3. /\ t.todo = Tail(o.todo) /\ t.pc = Next1(r)
        /\ t.part = (IF Len(o.todo) = 1 THEN o.part + 1 ELSE o.part) /\ t.gone = o.gone
        /\ t.at = o.at /\ t.sha = o.sha /\ t.version = o.version /\ t.new = o.new
        /\ t.loaded = o.loaded /\ t.dropped = o.dropped
    BY <1>2 DEF Fields
  <1>4. t.pc \in {"part", "compare"} /\ t.pc \in Staging /\ o.pc \in Staging /\ o.pc # "idle"
    BY <1>1, <1>3 DEF Next1, Staging
  <1> HIDE DEF t
  <1>5. TxnSettled(o)
    BY DEF Settled
  <1>6. /\ d \in Listed(o) /\ Listed(t) = Listed(o) \ {d}
        /\ t.todo = <<>> <=> Len(o.todo) = 1
    BY <1>1, <1>3, ListedTail DEF TxnOK
  <1> HIDE DEF d
  <1>7. Staying(o) \subseteq Staying(t)
    BY <1>3, <1>6 DEF Staying
  <1>8. TxnTimed(t)
    BY <1>3, <1>4, <1>5 DEF TxnSettled, TxnTimed, Began
  <1>9. TxnInOrder(t)
    BY <1>1, <1>3, <1>4, <1>5, ComparedInOrder DEF TxnSettled, TxnOK
  <1>10. TxnNovel(t)
    <2> SUFFICES ASSUME NEW e \in t.new.datasets \ Listed(t), e.kind = "vector",
                        ImportOf(e) \in t.new.artifacts \/ e.sha = t.sha
                 PROVE  Novel(e, t)
      BY DEF TxnNovel
    <2>1. CASE e = d
      BY <1>1, <1>3, <1>6, <2>1, KeptIsNovel
    <2>2. CASE e # d
      <3>1. Novel(e, o)
        BY <1>3, <1>4, <1>5, <1>6, <2>2 DEF TxnSettled, TxnNovel
      <3> QED
        BY <1>3, <1>7, <3>1, MoreStays
    <2> QED
      BY <2>1, <2>2
  <1>11. TxnLeft(t)
    <2>1. ASSUME NEW v, Pending(v, o) PROVE Occupied(v, t)
      <3>1. d.version = v
        BY <1>5, <1>6, <2>1 DEF TxnSettled, TxnInOrder, Pending
      <3>2. d \in o.new.datasets
        BY <1>1, <1>6, ElementOfSeq DEF TxnOK, TxnTodo, Listed
      <3> QED
        BY <1>3, <1>6, <3>1, <3>2 DEF Occupied, Staying
    <2>2. \A v : Occupied(v, o) => Occupied(v, t)
      BY <1>3, <1>7, MoreStays
    <2>3. \A v : Covered(v, o) => Covered(v, t)
      BY <1>3, <2>1, <2>2 DEF Covered
    <2> QED
      BY <1>1, <1>3, <1>4, <1>5, <2>3 DEF TxnSettled, TxnLeft
  <1>12. TxnDropped(t)
    BY <1>1, <1>3, <1>4, <1>5, ComparedDropped, SMTT(30) DEF TxnSettled, TxnOK
  <1> QED
    BY <1>1, <1>3, <1>4, <1>8, <1>9, <1>10, <1>11, <1>12, SettledStep DEF TxnSettled

LEMMA DropSettled == ASSUME Sound, Settled, NEW r \in Run, Drop(r) PROVE Settled'
  <1> DEFINE o == run[r]
             d == Head(o.todo)
             rows == [Visible(r) EXCEPT !.datasets = @ \ {d}]
             left == On(rows, d.version)
             pc == IF left = {} /\ ~o.loaded THEN "delete" ELSE Next1(r)
             loaded == o.loaded \/ left \cap rows.datasets # {}
             t == [o EXCEPT
                    !.pc = pc,
                    !.part = IF Len(o.todo) = 1 THEN @ + 1 ELSE @,
                    !.todo = Tail(@),
                    !.new.datasets = @ \ {d}, !.dropped = @ \cup {d},
                    !.loaded = loaded]
  <1>1. /\ Moves(r, t) /\ UNCHANGED <<db, clock, commits, emptied>> /\ TxnOK(o, db, objects)
        /\ o.pc = "compare" /\ o.todo # <<>> /\ o.part \in Nat
    BY DEF Drop, Sound, TxnOK, TxnTyped, Staging
  <1>2. DOMAIN o = Fields /\ DOMAIN o.new = Tables
    BY <1>1 DEF TxnOK, TxnTyped
  <1>3. pc \in {"delete", "part", "compare"} /\ (pc # "delete" => left # {} \/ o.loaded)
    BY DEF Next1
  <1>4. \A x \in left : /\ x.version = d.version
                        /\ x \in db.datasets \cup (o.new.datasets \ {d}) \cup db.documents
                                 \cup o.new.documents
    <2>1. /\ rows.datasets = (db.datasets \cup o.new.datasets) \ {d}
          /\ rows.documents = db.documents \cup o.new.documents
      BY DEF Visible
    <2> HIDE DEF rows
    <2> QED
      BY <2>1 DEF On
  <1>5. loaded => o.loaded \/ left # {}
    OBVIOUS
  <1> HIDE DEF pc, loaded, left, d
  <1>6. /\ t.todo = Tail(o.todo) /\ t.pc = pc
        /\ t.part = (IF Len(o.todo) = 1 THEN o.part + 1 ELSE o.part) /\ t.gone = o.gone
        /\ t.at = o.at /\ t.sha = o.sha /\ t.version = o.version
        /\ t.loaded = loaded /\ t.dropped = o.dropped \cup {d}
        /\ t.new.artifacts = o.new.artifacts /\ t.new.versions = o.new.versions
        /\ t.new.datasets = o.new.datasets \ {d} /\ t.new.documents = o.new.documents
    BY <1>2 DEF Fields, Tables
  <1> HIDE DEF t
  <1>7. TxnSettled(o) /\ t.pc \in Staging /\ o.pc \in Staging /\ o.pc # "idle" /\ t.pc # "idle"
    BY <1>1, <1>3, <1>6 DEF Settled, Staging
  <1>8. /\ d \in Listed(o) /\ Listed(t) = Listed(o) \ {d}
        /\ t.todo = <<>> <=> Len(o.todo) = 1
    BY <1>1, <1>6, ListedTail DEF TxnOK, d
  <1>9. Staying(o) \subseteq Staying(t)
    BY <1>6, <1>8 DEF Staying
  <1>10. d \in o.new.datasets
    BY <1>1, <1>8, ElementOfSeq DEF TxnOK, TxnTodo, Listed
  <1>11. TxnTimed(t)
    <2>1. d.version \in db.versions \cup o.new.versions
      BY <1>1, <1>10 DEF TxnOK, TxnSourced
    <2>2. d.version.at = o.at \/ Began(d.version)
      BY <1>7, <2>1 DEF TxnSettled, TxnTimed, Settled, Numbered
    <2> QED
      BY <1>6, <1>7, <2>2 DEF TxnSettled, TxnTimed, Began
  <1>12. TxnInOrder(t)
    <2>1. t.new.datasets \subseteq o.new.datasets
      BY <1>6
    <2> QED
      BY <1>1, <1>6, <1>7, <2>1, ComparedInOrder DEF TxnSettled, TxnOK
  <1>13. TxnNovel(t)
    <2> SUFFICES ASSUME NEW e \in t.new.datasets \ Listed(t), e.kind = "vector",
                        ImportOf(e) \in t.new.artifacts \/ e.sha = t.sha
                 PROVE  Novel(e, t)
      BY DEF TxnNovel
    <2>1. e \in o.new.datasets \ Listed(o)
      BY <1>6, <1>8
    <2>2. Novel(e, o)
      BY <1>6, <1>7, <2>1 DEF TxnSettled, TxnNovel
    <2> QED
      BY <1>6, <1>9, <2>2, MoreStays
  <1>14. d.version = o.version /\ d.sha = o.sha /\ d.at = o.at /\ d.part = o.part
    BY <1>7, <1>8, <1>10 DEF TxnSettled, TxnInOrder, TxnTimed, TxnDropped
  <1>15. TxnDropped(t)
    <2>1. \E a \in o.new.artifacts : a.sha = d.sha
      BY <1>1, <1>10 DEF TxnOK, TxnSourced
    <2>2. \A e \in t.dropped \ o.dropped :
            e = Head(o.todo) /\ e.at = o.at /\ \E a \in o.new.artifacts : a.sha = e.sha
      BY <1>6, <1>14, <2>1 DEF d
    <2> QED
      BY <1>1, <1>6, <1>7, <2>2, ComparedDropped, SMTT(30) DEF TxnSettled, TxnOK
  <1>16. \A v : Covered(v, o) => Covered(v, t)
    <2>1. ASSUME NEW v, Pending(v, o) PROVE Several(v, t.dropped)
      <3>1. v = o.version
        BY <2>1 DEF Pending
      <3>2. PICK e \in o.dropped : e.version = v /\ e.sha = o.sha /\ e.part = o.part
        BY <2>1 DEF Pending
      <3>3. e.at = o.at /\ e # d
        BY <1>7, <1>8, <3>2 DEF TxnSettled, TxnDropped
      <3> QED
        BY <1>6, <1>14, <3>1, <3>2, <3>3 DEF Several, OfOnePart
    <2>2. \A v : Occupied(v, o) => Occupied(v, t)
      BY <1>6, <1>9, MoreStays
    <2>3. \A v : Several(v, o.dropped) => Several(v, t.dropped)
      BY <1>6 DEF Several
    <2> QED
      BY <2>1, <2>2, <2>3 DEF Covered
  <1>17. o.loaded \/ left # {} => Covered(t.version, t)
    <2>1. CASE o.loaded
      BY <1>6, <1>7, <1>16, <2>1 DEF TxnSettled, TxnLeft
    <2>2. ASSUME NEW x \in left PROVE Covered(t.version, t)
      <3>1. x.version = t.version
        BY <1>4, <1>6, <1>14
      <3>2. CASE x \in Listed(t)
        <4>1. t.todo # <<>>
          BY <3>2 DEF Listed
        <4>2. t.part = o.part
          BY <1>6, <1>8, <4>1
        <4> QED
          BY <1>6, <1>14, <4>1, <4>2 DEF Covered, Pending
      <3>3. CASE x \notin Listed(t)
        BY <1>4, <1>6, <3>1, <3>3 DEF Covered, Occupied, Staying
      <3> QED
        BY <3>2, <3>3
    <2> QED
      BY <2>1, <2>2
  <1>18. TxnLeft(t)
    <2>1. \A e \in o.dropped : e.version \in t.gone \/ Covered(e.version, t)
      BY <1>1, <1>6, <1>7, <1>16 DEF TxnSettled, TxnLeft
    <2>2. d.version = t.version
      BY <1>6, <1>14
    <2>3. t.pc # "delete" => Covered(t.version, t)
      BY <1>3, <1>6, <1>17
    <2>4. t.loaded => Covered(t.version, t)
      BY <1>5, <1>6, <1>17
    <2>5. t.pc \notin {"record", "version"}
      BY <1>3, <1>6
    <2> QED
      BY <1>6, <2>1, <2>2, <2>3, <2>4, <2>5 DEF TxnLeft
  <1> QED
    BY <1>1, <1>6, <1>7, <1>11, <1>12, <1>13, <1>15, <1>18, SettledStep DEF TxnSettled

LEMMA NextSettled == Sound /\ Settled /\ [Next]_vars => Settled'
  <1> SUFFICES ASSUME Sound, Settled, [Next]_vars PROVE Settled'
    OBVIOUS
  <1>1. CASE UNCHANGED vars
    <2>1. UNCHANGED <<db, run, clock, commits, emptied>>
      BY <1>1 DEF vars
    <2>2. ASSUME NEW r \in Run PROVE TxnSettled(run[r])'
      BY <2>1, StillSettled DEF Settled
    <2>3. Numbered' /\ NoRedundantCopies' /\ LeftEmptyByLayersOnly'
      BY <2>1 DEF Settled, Numbered, Began, NoRedundantCopies, LeftEmptyByLayersOnly, End
    <2> QED
      BY <2>2, <2>3 DEF Settled
  <1>2. ASSUME NEW r \in Run, Begin(r) \/ Commit(r) \/ RunDies(r) \/ StageFails(r)
        PROVE  Settled'
    BY <1>2, BeginSettled, CommitSettled, RunDiesSettled, StageFailsSettled
  <1>3. ASSUME NEW r \in Run, NEW f \in Sha, Stage(r, f) PROVE Settled'
    BY <1>3, StageSettled
  <1>4. ASSUME NEW r \in Run, ResolveRecord(r) \/ ResolveVersion(r) PROVE Settled'
    BY <1>4, ResolveRecordSettled, ResolveVersionSettled
  <1>5. ASSUME NEW r \in Run, ImportVector(r) \/ ImportRaster(r) \/ ReadDocument(r)
                             \/ ImportDocument(r) \/ SkipPart(r) \/ Finish(r)
        PROVE  Settled'
    BY <1>5, ImportVectorSettled, ImportRasterSettled, ReadDocumentSettled, ImportDocumentSettled,
       SkipPartSettled, FinishSettled
  <1>6. ASSUME NEW r \in Run, Keep(r) \/ Drop(r) \/ DeleteVersion(r) PROVE Settled'
    BY <1>6, KeepSettled, DropSettled, DeleteVersionSettled
  <1> QED
    BY <1>1, <1>2, <1>3, <1>4, <1>5, <1>6 DEF Next

(* What has been compared is new, and what is left of a version has        *)
(* something on it: the invariant of the two theorems below.               *)
THEOREM StagingSettled == Spec => []Settled
  <1>1. Sound /\ Settled /\ [Next]_vars => (Sound /\ Settled)'
    BY NextSound, NextSettled
  <1> QED
    BY <1>1, SoundInit, SettledInit, PTL DEF Spec

(* A vector dataset of an imported file does not repeat the one before it  *)
(* in its record, unless the layer came once more in its own run or in one *)
(* that overlapped with it: "re-rendered files mint no duplicates"         *)
(* (pipeline.py:835-889).                                                  *)
THEOREM CopiesAreDropped == Spec => []NoRedundantCopies
  <1>1. Settled => NoRedundantCopies
    BY DEF Settled
  <1> QED
    BY <1>1, StagingSettled, PTL

(* A version that lost a dataset to deduplication and stays has something  *)
(* else on it, unless the run dropped several layers of one part of it: it *)
(* is there that the session's stale collection keeps an empty version     *)
(* (pipeline.py:887).                                                      *)
THEOREM VersionsAreDropped == Spec => []LeftEmptyByLayersOnly
  <1>1. Settled => LeftEmptyByLayersOnly
    BY DEF Settled
  <1> QED
    BY <1>1, StagingSettled, PTL
=============================================================================
