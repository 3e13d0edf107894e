--------------------------- MODULE MCArtifactStaging ---------------------------
(* Small instances of ArtifactStaging for TLC.                             *)
EXTENDS ArtifactStaging, TLC

CONSTANTS p, q, d1

\* The features of a layer, the same in another order, and after a change.
c1 == <<p, q>>
c1anew == <<q, p>>
c2 == <<p, q, q>>

Layer(name, content) == [name |-> name, content |-> content]
Vector(layers) == [kind |-> "vector", layers |-> layers]
Raster(layers) == [kind |-> "raster", layers |-> layers]
Other == [kind |-> "other", layers |-> <<>>]
Document(hints) == [kind |-> "document", layers |-> <<>>, hints |-> hints]

Undecided(parts) == [title |-> "t1", decision |-> NoDecision, parts |-> parts]
Decided(parts) == [title |-> "t1", decision |-> d1, parts |-> parts]

(* Earlier runs imported layers x1 and x2 from f0, and entered a version   *)
(* under the decision d1 for a file of no use, g0.                         *)
Record == [at |-> 0, sha |-> "f0", title |-> "t1"]
Version(f, decision) == [at |-> 0, sha |-> f, record |-> Record, decision |-> decision, part |-> 0]
Entered(files) == {[at |-> 0, sha |-> f, status |-> "imported"] : f \in files}
First(x) == [at |-> 0, sha |-> "f0", part |-> 1, version |-> Version("f0", NoDecision),
             kind |-> "vector", name |-> x, content |-> c1]

Imports == [objects |-> {"f0", "g0"},
            db |-> [NoRows EXCEPT !.artifacts = Entered({"f0", "g0"}), !.records = {Record},
                                  !.versions = {Version("f0", NoDecision), Version("g0", d1)},
                                  !.datasets = {First(x) : x \in {"x1", "x2"}}]]

Nothing == [objects |-> {}, db |-> NoRows]

(* Both rendered anew under d1, in a zip with a scan; x1 in a new state,   *)
(* in a zip with a file of no use; a document whose text names d1.         *)
Files == "f0" :> Undecided(<<Vector(<<Layer("x1", c1), Layer("x2", c1)>>)>>)
      @@ "g0" :> Decided(<<Other>>)
      @@ "f1" :> Decided(<<Vector(<<Layer("x1", c1anew), Layer("x2", c1)>>), Raster(<<Layer("x3", <<>>)>>)>>)
      @@ "f2" :> Undecided(<<Vector(<<Layer("x1", c2)>>), Other>>)
      @@ "f3" :> Undecided(<<Document([title |-> "t1", decision |-> d1])>>)

(* A zip of two shapefiles and the same zip packed anew.                   *)
Zips == "f1" :> Undecided(<<Vector(<<Layer("x1", c1)>>), Vector(<<Layer("x2", c1)>>)>>)
     @@ "f2" :> Undecided(<<Vector(<<Layer("x1", c1anew)>>), Vector(<<Layer("x2", c1)>>)>>)

(* Files of one part each that has two layers: as first seen, packed anew  *)
(* with the same features, and with one of them changed.                   *)
Layers == "f1" :> Undecided(<<Vector(<<Layer("x1", c1), Layer("x2", c1)>>)>>)
       @@ "f2" :> Undecided(<<Vector(<<Layer("x1", c1anew), Layer("x2", c1)>>)>>)
       @@ "f3" :> Undecided(<<Vector(<<Layer("x1", c2), Layer("x2", c1)>>)>>)

OneFile == "f1" :> Undecided(<<Vector(<<Layer("x1", c1)>>)>>)

Symmetric == Permutations(Run)
=============================================================================
