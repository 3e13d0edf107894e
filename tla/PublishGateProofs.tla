--------------------------- MODULE PublishGateProofs ---------------------------
(***************************************************************************)
(* Proofs about PublishGate, for any datasets, tiles and requests: what    *)
(* holds however requests overlap, what holds when they come one at a      *)
(* time, and which overlaps alone can separate an approval from the points *)
(* that were approved.                                                     *)
(***************************************************************************)
EXTENDS PublishGate, TLAPS

(* A publication that may not pass over reviews found everything reviewed. *)
GatePassed ==
    \A p \in Publisher : pub[p].pc # "idle" /\ ~pub[p].allow => pub[p].present \subseteq pub[p].passed

(* A request that has begun points at a dataset.                           *)
Pointed ==
    /\ \A e \in Editor : edit[e].pc = "write" => edit[e].dataset \in Dataset
    /\ \A r \in Reviewer : review[r].pc = "write" => review[r].dataset \in Dataset

Gated == TypeOK /\ Pointed /\ GatePassed

(* One request at a time.                                                  *)
Alone ==
    /\ \A p, q \in Publisher : pub[p].pc # "idle" /\ pub[q].pc # "idle" => p = q
    /\ \A e, f \in Editor : edit[e].pc # "idle" /\ edit[f].pc # "idle" => e = f
    /\ \A r, s \in Reviewer : review[r].pc # "idle" /\ review[s].pc # "idle" => r = s
    /\ \A p \in Publisher, e \in Editor : pub[p].pc = "idle" \/ edit[e].pc = "idle"
    /\ \A p \in Publisher, r \in Reviewer : pub[p].pc = "idle" \/ review[r].pc = "idle"
    /\ \A e \in Editor, r \in Reviewer : edit[e].pc = "idle" \/ review[r].pc = "idle"

(* Then what a request has read is still so.                               *)
EditFresh ==
    \A e \in Editor : edit[e].pc = "write" => job[edit[e].dataset].status # "approved"

ReviewFresh ==
    \A r \in Reviewer : review[r].pc = "write" =>
      /\ review[r].status = job[review[r].dataset].status
      /\ review[r].review = ds[review[r].dataset].review

PubFresh ==
    \A p \in Publisher : pub[p].pc # "idle" =>
      /\ pub[p].present = Present /\ pub[p].passed = {d \in Present : Reviewed(d)}
      /\ \A t \in Tile : pub[p].tiles[t] = None \/ pub[p].tiles[t] = Shown
      /\ pub[p].pc # "tiles" => /\ \A t \in Tile : pub[p].tiles[t] # None
                                /\ pub[p].manifest = ds
      /\ pub[p].pc \in {"merge", "flag"} => pub[p].copy = ds
      /\ pub[p].pc = "flag" => pub[p].loaded = ds

Undisturbed == orderly => Alone /\ EditFresh /\ ReviewFresh /\ PubFresh

Ordered == Gated /\ Undisturbed

-----------------------------------------------------------------------------
(* Types.                                                                  *)

LEMMA InitTypes ==
  /\ NoDataset \in DatasetRow /\ NoDatasets \in Rows /\ NoJob \in JobRow
  /\ NoPub \in PubState /\ NoEdit \in EditState /\ NoReview \in ReviewState
  <1>1. NoDataset \in DatasetRow /\ NoJob \in JobRow
    BY BoundAssumption DEF NoDataset, DatasetRow, NoJob, JobRow, ReviewStatus, GeorefStatus
  <1>2. NoDatasets \in Rows
    BY <1>1 DEF NoDatasets, Rows
  <1>3. NoPub \in PubState
    BY <1>2 DEF NoPub, PubState
  <1>4. NoEdit \in EditState /\ NoReview \in ReviewState
    BY DEF NoEdit, EditState, NoReview, ReviewState, ReviewStatus, GeorefStatus
  <1> QED
    BY <1>1, <1>2, <1>3, <1>4

LEMMA GatedInit == Init => Gated
  <1> SUFFICES ASSUME Init PROVE Gated
    OBVIOUS
  <1>1. TypeOK
    BY InitTypes, ModesAssumption DEF Init, TypeOK
  <1>2. Pointed /\ GatePassed
    BY DEF Init, NoPub, NoEdit, NoReview, Pointed, GatePassed
  <1> QED
    BY <1>1, <1>2 DEF Gated

LEMMA PresentType ==
  ASSUME TypeOK
  PROVE  /\ Present \in SUBSET Dataset /\ Shown \in SUBSET Dataset
         /\ {d \in Present : Reviewed(d)} \in SUBSET Dataset
  BY DEF Present, Shown

(* Gated: one step per action.                                             *)
LEMMA RequestKeepsGated ==
  ASSUME Gated, NEW d \in Dataset,
         \/ AddDataset(d) \/ CreateJob(d)
         \/ \E e \in Editor : EditRead(e, d)
         \/ \E r \in Reviewer, approve \in BOOLEAN : ReviewRead(r, d, approve)
  PROVE  Gated'
  <1> USE DEF Gated
  <1>1. CASE AddDataset(d)
    <2>1. ds' \in Rows
      BY <1>1 DEF AddDataset, TypeOK, Rows, DatasetRow
    <2> QED
      BY <1>1, <2>1 DEF AddDataset, TypeOK, Pointed, GatePassed
  <1>2. CASE CreateJob(d)
    <2>1. job' \in [Dataset -> JobRow]
      BY <1>2 DEF CreateJob, TypeOK, JobRow, GeorefStatus
    <2> QED
      BY <1>2, <2>1 DEF CreateJob, TypeOK, Pointed, GatePassed
  <1>3. ASSUME NEW e \in Editor, EditRead(e, d) PROVE Gated'
    <2>1. edit' = [edit EXCEPT ![e] = [pc |-> "write", dataset |-> d, status |-> job[d].status]]
          /\ UNCHANGED <<ds, job, pub, review, publications, orderly>>
          /\ met' \subseteq Dataset
      BY <1>3 DEF EditRead, TypeOK
    <2>2. [pc |-> "write", dataset |-> d, status |-> job[d].status] \in EditState
      BY DEF TypeOK, JobRow, EditState
    <2>3. TypeOK'
      BY <2>1, <2>2 DEF TypeOK
    <2>4. Pointed' /\ GatePassed'
      BY <2>1 DEF Pointed, GatePassed, TypeOK
    <2> QED
      BY <2>3, <2>4
  <1>4. ASSUME NEW r \in Reviewer, NEW approve \in BOOLEAN, ReviewRead(r, d, approve) PROVE Gated'
    <2> DEFINE v == [pc |-> "write", dataset |-> d, approve |-> approve,
                     status |-> job[d].status, review |-> ds[d].review]
    <2>1. /\ review' = [review EXCEPT ![r] = v] /\ UNCHANGED <<ds, job, pub, edit, publications, orderly>>
          /\ met' \subseteq Dataset
      BY <1>4 DEF ReviewRead, TypeOK
    <2>2. v \in ReviewState
      BY DEF TypeOK, JobRow, Rows, DatasetRow, ReviewState
    <2>3. TypeOK'
      BY <2>1, <2>2 DEF TypeOK
    <2>4. Pointed' /\ GatePassed'
      BY <2>1 DEF Pointed, GatePassed, TypeOK
    <2> QED
      BY <2>3, <2>4
  <1> QED
    BY <1>1, <1>2, <1>3, <1>4

LEMMA WriteKeepsGated ==
  ASSUME Gated, (\E e \in Editor : EditWrite(e)) \/ (\E r \in Reviewer : ReviewWrite(r))
  PROVE  Gated'
  <1> USE DEF Gated
  <1>1. ASSUME NEW e \in Editor, EditWrite(e) PROVE Gated'
    <2> DEFINE d == edit[e].dataset
    <2>1. d \in Dataset /\ job[d].gcps < MaxEdits
      BY <1>1 DEF EditWrite, Pointed
    <2>2. PICK status \in {"computed", "draft"} :
            job' = [job EXCEPT ![d].gcps = @ + 1,
                               ![d].status = IF status # edit[e].status THEN status ELSE @]
      BY <1>1 DEF EditWrite
    <2>3. job' \in [Dataset -> JobRow]
      BY <2>1, <2>2, BoundAssumption DEF TypeOK, JobRow, GeorefStatus
    <2>4. edit' = [edit EXCEPT ![e] = NoEdit] /\ UNCHANGED <<ds, pub, review, publications, orderly, met>>
      BY <1>1 DEF EditWrite
    <2>5. TypeOK'
      BY <2>3, <2>4, InitTypes DEF TypeOK
    <2>6. Pointed' /\ GatePassed'
      BY <2>4 DEF Pointed, GatePassed, TypeOK, NoEdit
    <2> QED
      BY <2>5, <2>6
  <1>2. ASSUME NEW r \in Reviewer, ReviewWrite(r) PROVE Gated'
    <2> DEFINE v == review[r]
               d == v.dataset
               verdict == Verdict(v.approve)
    <2>1. d \in Dataset /\ verdict \in ReviewStatus /\ verdict \in GeorefStatus
      BY <1>2 DEF ReviewWrite, Pointed, Verdict, ReviewStatus, GeorefStatus
    <2>2. /\ job' = [job EXCEPT ![d].status = IF verdict # v.status THEN verdict ELSE @,
                                ![d].vetted = IF v.approve THEN job[d].gcps ELSE @]
          /\ ds' = [ds EXCEPT ![d].review = IF verdict # v.review THEN verdict ELSE @]
          /\ review' = [review EXCEPT ![r] = NoReview]
          /\ UNCHANGED <<pub, edit, publications, orderly, met>>
      BY <1>2 DEF ReviewWrite
    <2>3. job' \in [Dataset -> JobRow]
      BY <2>1, <2>2 DEF TypeOK, JobRow
    <2>4. ds' \in Rows
      BY <2>1, <2>2 DEF TypeOK, Rows, DatasetRow
    <2>5. TypeOK'
      BY <2>2, <2>3, <2>4, InitTypes DEF TypeOK
    <2>6. Pointed' /\ GatePassed'
      BY <2>2 DEF Pointed, GatePassed, TypeOK, NoReview
    <2> QED
      BY <2>5, <2>6
  <1> QED
    BY <1>1, <1>2

PublishStep(p) ==
    \/ \E allow \in BOOLEAN : Gate(p, allow)
    \/ \E t \in Tile : BuildTile(p, t)
    \/ BuildManifest(p) \/ Collect(p) \/ Merge(p) \/ Flag(p) \/ PublishFails(p)

LEMMA PublishKeepsGated ==
  ASSUME Gated, NEW p \in Publisher, PublishStep(p)
  PROVE  Gated'
  <1> USE DEF Gated
  <1>1. ASSUME NEW allow \in BOOLEAN, Gate(p, allow) PROVE Gated'
    <2> DEFINE q == [NoPub EXCEPT !.pc = "tiles", !.allow = allow, !.present = Present,
                                  !.passed = {d \in Present : Reviewed(d)}]
    <2>1. pub' = [pub EXCEPT ![p] = q] /\ UNCHANGED <<ds, job, edit, review, publications, orderly, met>>
      BY <1>1 DEF Gate
    <2>2. q \in PubState
      BY InitTypes, PresentType DEF PubState
    <2>3. TypeOK'
      BY <2>1, <2>2 DEF TypeOK
    <2>4. ~allow => Present \subseteq {d \in Present : Reviewed(d)}
      BY <1>1 DEF Gate, Blocked
    <2>5. q.allow = allow /\ q.present = Present /\ q.passed = {d \in Present : Reviewed(d)}
      BY DEF NoPub
    <2>6. Pointed' /\ GatePassed'
      BY <2>1, <2>4, <2>5 DEF Pointed, GatePassed, TypeOK
    <2> QED
      BY <2>3, <2>6
  <1>2. ASSUME NEW t \in Tile, BuildTile(p, t) PROVE Gated'
    <2>1. /\ pub' = [pub EXCEPT ![p].tiles[t] = Shown] /\ pub[p].pc # "idle"
          /\ UNCHANGED <<ds, job, edit, review, publications, orderly, met>>
      BY <1>2 DEF BuildTile
    <2>2. pub' \in [Publisher -> PubState]
      BY <2>1, PresentType, ZenonT(60) DEF TypeOK, PubState
    <2>3. TypeOK'
      BY <2>1, <2>2 DEF TypeOK
    <2>4. Pointed' /\ GatePassed'
      BY <2>1 DEF Pointed, GatePassed, TypeOK, PubState
    <2> QED
      BY <2>3, <2>4
  <1>3. CASE BuildManifest(p)
    <2>1. /\ pub' = [pub EXCEPT ![p] = [@ EXCEPT !.pc = "collect", !.manifest = ds]] /\ pub[p].pc # "idle"
          /\ UNCHANGED <<ds, job, edit, review, publications, orderly, met>>
      BY <1>3 DEF BuildManifest
    <2>2. [pub[p] EXCEPT !.pc = "collect", !.manifest = ds] \in PubState
      BY DEF TypeOK, PubState
    <2>3. TypeOK'
      BY <2>1, <2>2 DEF TypeOK
    <2>4. Pointed' /\ GatePassed'
      BY <2>1 DEF Pointed, GatePassed, TypeOK, PubState
    <2> QED
      BY <2>3, <2>4
  <1>4. CASE Collect(p)
    <2>1. /\ pub' = [pub EXCEPT ![p] = [@ EXCEPT !.pc = "merge", !.copy = ds]] /\ pub[p].pc # "idle"
          /\ UNCHANGED <<ds, job, edit, review, publications, orderly>>
          /\ met' \subseteq Dataset
      BY <1>4 DEF Collect, TypeOK
    <2>2. [pub[p] EXCEPT !.pc = "merge", !.copy = ds] \in PubState
      BY DEF TypeOK, PubState
    <2>3. TypeOK'
      BY <2>1, <2>2 DEF TypeOK
    <2>4. Pointed' /\ GatePassed'
      BY <2>1 DEF Pointed, GatePassed, TypeOK, PubState
    <2> QED
      BY <2>3, <2>4
  <1>5. CASE Merge(p)
    <2>1. /\ pub' = [pub EXCEPT ![p] = [@ EXCEPT !.pc = "flag", !.loaded = ds]] /\ pub[p].pc # "idle"
          /\ UNCHANGED <<ds, job, edit, review, publications, orderly, met>>
      BY <1>5 DEF Merge
    <2>2. [pub[p] EXCEPT !.pc = "flag", !.loaded = ds] \in PubState
      BY DEF TypeOK, PubState
    <2>3. TypeOK'
      BY <2>1, <2>2 DEF TypeOK
    <2>4. Pointed' /\ GatePassed'
      BY <2>1 DEF Pointed, GatePassed, TypeOK, PubState
    <2> QED
      BY <2>3, <2>4
  <1>6. CASE Flag(p)
    <2> DEFINE q == pub[p]
    <2>1. /\ ds' = [d \in Dataset |-> IF q.copy[d].there
                                      THEN Flagged(ds[d], q.copy[d], q.loaded[d]) ELSE ds[d]]
          /\ pub' = [pub EXCEPT ![p] = NoPub] /\ publications' = publications + 1
          /\ UNCHANGED <<job, edit, review, orderly, met>>
      BY <1>6 DEF Flag
    <2>2. \A row, copy, loaded \in DatasetRow : Flagged(row, copy, loaded) \in DatasetRow
      BY DEF Flagged, DatasetRow
    <2>3. \A d \in Dataset : ds[d] \in DatasetRow /\ q.copy[d] \in DatasetRow /\ q.loaded[d] \in DatasetRow
      BY DEF TypeOK, PubState, Rows
    <2>4. ds' \in Rows
      BY <2>1, <2>2, <2>3 DEF Rows
    <2>5. TypeOK'
      BY <2>1, <2>4, InitTypes DEF TypeOK
    <2>6. Pointed' /\ GatePassed'
      BY <2>1 DEF Pointed, GatePassed, TypeOK, NoPub
    <2> QED
      BY <2>5, <2>6
  <1>7. CASE PublishFails(p)
    <2>1. pub' = [pub EXCEPT ![p] = NoPub] /\ UNCHANGED <<ds, job, edit, review, publications, orderly, met>>
      BY <1>7 DEF PublishFails
    <2> QED
      BY <2>1, InitTypes DEF TypeOK, Pointed, GatePassed, NoPub
  <1> QED
    BY <1>1, <1>2, <1>3, <1>4, <1>5, <1>6, <1>7 DEF PublishStep

LEMMA NextSteps ==
  ASSUME Next
  PROVE  \/ \E d \in Dataset :
              \/ AddDataset(d) \/ CreateJob(d)
              \/ \E e \in Editor : EditRead(e, d)
              \/ \E r \in Reviewer, approve \in BOOLEAN : ReviewRead(r, d, approve)
         \/ (\E e \in Editor : EditWrite(e)) \/ (\E r \in Reviewer : ReviewWrite(r))
         \/ \E p \in Publisher : PublishStep(p)
  BY DEF Next, PublishStep

LEMMA GatedNext == Gated /\ [Next]_vars => Gated'
  <1> SUFFICES ASSUME Gated, [Next]_vars PROVE Gated'
    OBVIOUS
  <1>1. CASE Next
    BY <1>1, NextSteps, RequestKeepsGated, WriteKeepsGated, PublishKeepsGated
  <1>2. CASE UNCHANGED vars
    BY <1>2 DEF vars, Gated, TypeOK, Pointed, GatePassed
  <1> QED
    BY <1>1, <1>2

LEMMA GatedAlways == Spec => []Gated
  BY GatedInit, GatedNext, PTL DEF Spec

(* Every variable keeps its type, whatever requests overlap.               *)
THEOREM TypeCorrect == Spec => []TypeOK
  <1>1. Gated => TypeOK
    BY DEF Gated
  <1> QED
    BY <1>1, GatedAlways, PTL

(* However requests overlap, a publication without allow_unreviewed makes  *)
(* public no dataset that check_publishable found and did not pass.        *)
THEOREM FlagsGated == Spec => FlagsOnlyGated
  <1>1. Gated /\ [Next]_vars =>
          [\A p \in Publisher : Flag(p) /\ ~pub[p].allow
             => NewlyPublished \cap pub[p].present \subseteq pub[p].passed]_vars
    BY DEF Gated, GatePassed, Flag
  <1> QED
    BY <1>1, GatedAlways, PTL DEF Spec, FlagsOnlyGated

-----------------------------------------------------------------------------
(* One request at a time.                                                  *)

AllIdle ==
    /\ \A p \in Publisher : pub[p].pc = "idle"
    /\ \A e \in Editor : edit[e].pc = "idle"
    /\ \A r \in Reviewer : review[r].pc = "idle"

(* Nothing but, at most, the publication p goes on.                        *)
OnlyPub(p) ==
    /\ \A q \in Publisher : q # p => pub[q].pc = "idle"
    /\ \A e \in Editor : edit[e].pc = "idle"
    /\ \A r \in Reviewer : review[r].pc = "idle"

PubReads(p) ==
    pub[p].pc # "idle" =>
      /\ pub[p].present = Present /\ pub[p].passed = {d \in Present : Reviewed(d)}
      /\ \A t \in Tile : pub[p].tiles[t] = None \/ pub[p].tiles[t] = Shown
      /\ pub[p].pc # "tiles" => /\ \A t \in Tile : pub[p].tiles[t] # None
                                /\ pub[p].manifest = ds
      /\ pub[p].pc \in {"merge", "flag"} => pub[p].copy = ds
      /\ pub[p].pc = "flag" => pub[p].loaded = ds

LEMMA IdleIsFine == AllIdle => Alone /\ EditFresh /\ ReviewFresh /\ PubFresh
  BY DEF AllIdle, Alone, EditFresh, ReviewFresh, PubFresh

LEMMA OnlyPubIsFine ==
  ASSUME NEW p \in Publisher, OnlyPub(p), PubReads(p)
  PROVE  Alone /\ EditFresh /\ ReviewFresh /\ PubFresh
  <1>1. Alone /\ EditFresh /\ ReviewFresh
    BY DEF OnlyPub, Alone, EditFresh, ReviewFresh
  <1>2. PubFresh
    <2> SUFFICES ASSUME NEW q \in Publisher PROVE PubReads(q)
      BY DEF PubFresh, PubReads
    <2> QED
      BY DEF OnlyPub, PubReads
  <1> QED
    BY <1>1, <1>2

LEMMA FreeIsIdle == orderly /\ Free => AllIdle
  BY DEF Free, AllIdle

LEMMA PublishingIsOnly ==
  ASSUME Alone, NEW p \in Publisher, pub[p].pc # "idle"
  PROVE  OnlyPub(p)
  BY DEF Alone, OnlyPub

LEMMA RequestInOrder ==
  ASSUME Ordered, orderly, NEW d \in Dataset,
         \/ AddDataset(d) \/ CreateJob(d)
         \/ \E e \in Editor : EditRead(e, d)
         \/ \E r \in Reviewer, approve \in BOOLEAN : ReviewRead(r, d, approve)
  PROVE  Undisturbed'
  <1> USE DEF Ordered, Gated
  <1>1. CASE AddDataset(d)
    <2>1. /\ ds' = [ds EXCEPT ![d].there = TRUE] /\ AllIdle
          /\ UNCHANGED <<job, pub, edit, review, publications, orderly>>
      BY <1>1, FreeIsIdle DEF AddDataset
    <2>2. AllIdle'
      BY <2>1 DEF AllIdle
    <2>3. \A x \in Dataset : ds'[x].review = ds[x].review
      BY <2>1 DEF TypeOK, Rows, DatasetRow
    <2> QED
      BY <2>2, IdleIsFine, PTL DEF Undisturbed
  <1>2. CASE CreateJob(d)
    <2>1. /\ job' = [job EXCEPT ![d].status = "draft"] /\ job[d].status = "none" /\ AllIdle
          /\ UNCHANGED <<ds, pub, edit, review, publications, orderly>>
      BY <1>2, FreeIsIdle DEF CreateJob
    <2>2. AllIdle'
      BY <2>1 DEF AllIdle
    <2> QED
      BY <2>2, IdleIsFine, PTL DEF Undisturbed
  <1>3. ASSUME NEW e \in Editor, EditRead(e, d) PROVE Undisturbed'
    <2>1. /\ edit' = [edit EXCEPT ![e] = [pc |-> "write", dataset |-> d, status |-> job[d].status]]
          /\ job[d].status # "approved" /\ AllIdle
          /\ UNCHANGED <<ds, job, pub, review, publications, orderly>>
      BY <1>3, FreeIsIdle DEF EditRead
    <2>2. Alone'
      BY <2>1 DEF AllIdle, Alone, TypeOK
    <2>3. EditFresh'
      BY <2>1 DEF AllIdle, EditFresh, TypeOK
    <2>4. ReviewFresh' /\ PubFresh'
      BY <2>1 DEF AllIdle, ReviewFresh, PubFresh
    <2> QED
      BY <2>1, <2>2, <2>3, <2>4 DEF Undisturbed
  <1>4. ASSUME NEW r \in Reviewer, NEW approve \in BOOLEAN, ReviewRead(r, d, approve)
        PROVE  Undisturbed'
    <2>1. /\ review' = [review EXCEPT ![r] = [pc |-> "write", dataset |-> d, approve |-> approve,
                                              status |-> job[d].status, review |-> ds[d].review]]
          /\ AllIdle /\ UNCHANGED <<ds, job, pub, edit, publications, orderly>>
      BY <1>4, FreeIsIdle DEF ReviewRead
    <2>2. Alone'
      BY <2>1 DEF AllIdle, Alone, TypeOK
    <2>3. ReviewFresh'
      BY <2>1 DEF AllIdle, ReviewFresh, TypeOK
    <2>4. EditFresh' /\ PubFresh'
      BY <2>1 DEF AllIdle, EditFresh, PubFresh
    <2> QED
      BY <2>1, <2>2, <2>3, <2>4 DEF Undisturbed
  <1> QED
    BY <1>1, <1>2, <1>3, <1>4

LEMMA WriteInOrder ==
  ASSUME Ordered, orderly, (\E e \in Editor : EditWrite(e)) \/ (\E r \in Reviewer : ReviewWrite(r))
  PROVE  Undisturbed'
  <1> USE DEF Ordered, Gated
  <1>1. ASSUME NEW e \in Editor, EditWrite(e) PROVE Undisturbed'
    <2> DEFINE d == edit[e].dataset
    <2>1. d \in Dataset /\ job[d].status # "approved" /\ edit[e].pc # "idle"
      BY <1>1 DEF EditWrite, Pointed, Undisturbed, EditFresh
    <2>2. /\ edit' = [edit EXCEPT ![e] = NoEdit]
          /\ UNCHANGED <<ds, pub, review, publications, orderly>>
          /\ \A x \in Dataset : x # d => job'[x] = job[x]
      BY <1>1, <2>1 DEF EditWrite, TypeOK
    <2>4. AllIdle'
      BY <2>1, <2>2 DEF Undisturbed, Alone, AllIdle, TypeOK, NoEdit
    <2> QED
      BY <2>4, IdleIsFine, PTL DEF Undisturbed
  <1>2. ASSUME NEW r \in Reviewer, ReviewWrite(r) PROVE Undisturbed'
    <2> DEFINE v == review[r]
               d == v.dataset
               verdict == Verdict(v.approve)
    <2>1. /\ d \in Dataset /\ v.status = job[d].status /\ v.review = ds[d].review
          /\ v.approve \in BOOLEAN /\ review[r].pc # "idle"
      BY <1>2 DEF ReviewWrite, Pointed, Undisturbed, ReviewFresh, TypeOK, ReviewState
    <2>2. /\ job' = [job EXCEPT ![d].status = IF verdict # v.status THEN verdict ELSE @,
                                ![d].vetted = IF v.approve THEN job[d].gcps ELSE @]
          /\ ds' = [ds EXCEPT ![d].review = IF verdict # v.review THEN verdict ELSE @]
          /\ review' = [review EXCEPT ![r] = NoReview]
          /\ UNCHANGED <<pub, edit, publications, orderly>>
      BY <1>2 DEF ReviewWrite
    <2>3. ds'[d].review = verdict
      BY <2>1, <2>2 DEF TypeOK, Rows, DatasetRow
    <2>4. job'[d].status = verdict /\ (v.approve => job'[d].gcps = job'[d].vetted)
      BY <2>1, <2>2 DEF TypeOK, JobRow
    <2>5. \A x \in Dataset : x # d => job'[x] = job[x] /\ ds'[x] = ds[x]
      BY <2>1, <2>2 DEF TypeOK, Rows
    <2>7. AllIdle'
      BY <2>1, <2>2 DEF Undisturbed, Alone, AllIdle, TypeOK, NoReview
    <2> QED
      BY <2>7, IdleIsFine, PTL DEF Undisturbed
  <1> QED
    BY <1>1, <1>2

(* The rows the last transaction leaves if it read what it merges into.    *)
LEMMA FlaggedRows ==
  ASSUME Gated, NEW p \in Publisher, Flag(p), pub[p].copy = ds, pub[p].loaded = ds
  PROVE  \A d \in Dataset : /\ ds'[d].review = ds[d].review
                            /\ ds'[d].published = (ds[d].there \/ ds[d].published)
  <1> SUFFICES ASSUME NEW d \in Dataset
               PROVE  /\ ds'[d].review = ds[d].review
                      /\ ds'[d].published = (ds[d].there \/ ds[d].published)
    OBVIOUS
  <1>1. ds[d] \in DatasetRow
    BY DEF Gated, TypeOK, Rows
  <1>2. ds'[d] = IF ds[d].there THEN Flagged(ds[d], ds[d], ds[d]) ELSE ds[d]
    BY DEF Flag
  <1>3. Flagged(ds[d], ds[d], ds[d]) = [ds[d] EXCEPT !.published = TRUE]
    BY <1>1 DEF Flagged, DatasetRow
  <1> QED
    BY <1>1, <1>2, <1>3 DEF DatasetRow

LEMMA PublishInOrder ==
  ASSUME Ordered, orderly, NEW p \in Publisher, PublishStep(p)
  PROVE  Undisturbed'
  <1> USE DEF Ordered, Gated
  <1>1. ASSUME NEW allow \in BOOLEAN, Gate(p, allow) PROVE Undisturbed'
    <2> DEFINE q == [NoPub EXCEPT !.pc = "tiles", !.allow = allow, !.present = Present,
                                  !.passed = {d \in Present : Reviewed(d)}]
    <2>1. /\ pub' = [pub EXCEPT ![p] = q] /\ AllIdle
          /\ UNCHANGED <<ds, job, edit, review, publications, orderly>>
      BY <1>1, FreeIsIdle DEF Gate
    <2>2. /\ q.pc = "tiles" /\ q.present = Present /\ q.passed = {d \in Present : Reviewed(d)}
          /\ \A t \in Tile : q.tiles[t] = None
      BY DEF NoPub
    <2>3. OnlyPub(p)'
      BY <2>1 DEF AllIdle, OnlyPub, TypeOK
    <2>4. pub'[p] = q
      BY <2>1 DEF TypeOK
    <2>5. PubReads(p)'
      BY <2>1, <2>2, <2>4 DEF PubReads, Present, Reviewed
    <2> QED
      BY <2>3, <2>5, OnlyPubIsFine, PTL DEF Undisturbed
  <1>2. ASSUME NEW t \in Tile, BuildTile(p, t) PROVE Undisturbed'
    <2>1. /\ pub' = [pub EXCEPT ![p].tiles[t] = Shown] /\ pub[p].pc = "tiles"
          /\ UNCHANGED <<ds, job, edit, review, publications, orderly>>
      BY <1>2 DEF BuildTile
    <2>2. OnlyPub(p) /\ PubReads(p)
      BY <2>1, PublishingIsOnly DEF Undisturbed, PubFresh, PubReads
    <2>3. OnlyPub(p)'
      BY <2>1, <2>2 DEF OnlyPub, TypeOK
    <2>4. /\ pub'[p].pc = "tiles" /\ pub'[p].present = pub[p].present
          /\ pub'[p].passed = pub[p].passed
          /\ \A u \in Tile : pub'[p].tiles[u] = IF u = t THEN Shown ELSE pub[p].tiles[u]
      BY <2>1 DEF TypeOK, PubState
    <2>5. PubReads(p)'
      BY <2>1, <2>2, <2>4 DEF PubReads, Present, Reviewed, Shown
    <2> QED
      BY <2>3, <2>5, OnlyPubIsFine, PTL DEF Undisturbed
  <1>3. CASE BuildManifest(p)
    <2>1. /\ pub' = [pub EXCEPT ![p] = [@ EXCEPT !.pc = "collect", !.manifest = ds]]
          /\ pub[p].pc = "tiles" /\ \A t \in Tile : pub[p].tiles[t] # None
          /\ UNCHANGED <<ds, job, edit, review, publications, orderly>>
      BY <1>3 DEF BuildManifest
    <2>2. OnlyPub(p) /\ PubReads(p)
      BY <2>1, PublishingIsOnly DEF Undisturbed, PubFresh, PubReads
    <2>3. OnlyPub(p)'
      BY <2>1, <2>2 DEF OnlyPub, TypeOK
    <2>4. /\ pub'[p].pc = "collect" /\ pub'[p].manifest = ds /\ pub'[p].present = pub[p].present
          /\ pub'[p].passed = pub[p].passed /\ pub'[p].tiles = pub[p].tiles
      BY <2>1 DEF TypeOK, PubState
    <2>5. PubReads(p)'
      BY <2>1, <2>2, <2>4 DEF PubReads, Present, Reviewed, Shown
    <2> QED
      BY <2>3, <2>5, OnlyPubIsFine, PTL DEF Undisturbed
  <1>4. CASE Collect(p)
    <2>1. /\ pub' = [pub EXCEPT ![p] = [@ EXCEPT !.pc = "merge", !.copy = ds]]
          /\ pub[p].pc = "collect" /\ UNCHANGED <<ds, job, edit, review, publications, orderly>>
      BY <1>4 DEF Collect
    <2>2. OnlyPub(p) /\ PubReads(p)
      BY <2>1, PublishingIsOnly DEF Undisturbed, PubFresh, PubReads
    <2>3. OnlyPub(p)'
      BY <2>1, <2>2 DEF OnlyPub, TypeOK
    <2>4. /\ pub'[p].pc = "merge" /\ pub'[p].copy = ds /\ pub'[p].present = pub[p].present
          /\ pub'[p].passed = pub[p].passed /\ pub'[p].tiles = pub[p].tiles
          /\ pub'[p].manifest = pub[p].manifest
      BY <2>1 DEF TypeOK, PubState
    <2>5. PubReads(p)'
      BY <2>1, <2>2, <2>4 DEF PubReads, Present, Reviewed, Shown
    <2> QED
      BY <2>3, <2>5, OnlyPubIsFine, PTL DEF Undisturbed
  <1>5. CASE Merge(p)
    <2>1. /\ pub' = [pub EXCEPT ![p] = [@ EXCEPT !.pc = "flag", !.loaded = ds]]
          /\ pub[p].pc = "merge" /\ UNCHANGED <<ds, job, edit, review, publications, orderly>>
      BY <1>5 DEF Merge
    <2>2. OnlyPub(p) /\ PubReads(p)
      BY <2>1, PublishingIsOnly DEF Undisturbed, PubFresh, PubReads
    <2>3. OnlyPub(p)'
      BY <2>1, <2>2 DEF OnlyPub, TypeOK
    <2>4. /\ pub'[p].pc = "flag" /\ pub'[p].loaded = ds /\ pub'[p].present = pub[p].present
          /\ pub'[p].passed = pub[p].passed /\ pub'[p].tiles = pub[p].tiles
          /\ pub'[p].manifest = pub[p].manifest /\ pub'[p].copy = pub[p].copy
      BY <2>1 DEF TypeOK, PubState
    <2>5. PubReads(p)'
      BY <2>1, <2>2, <2>4 DEF PubReads, Present, Reviewed, Shown
    <2> QED
      BY <2>3, <2>5, OnlyPubIsFine, PTL DEF Undisturbed
  <1>6. CASE Flag(p)
    <2>1. /\ pub' = [pub EXCEPT ![p] = NoPub] /\ pub[p].pc = "flag"
          /\ UNCHANGED <<job, edit, review, orderly>>
      BY <1>6 DEF Flag
    <2>2. OnlyPub(p) /\ PubReads(p)
      BY <2>1, PublishingIsOnly DEF Undisturbed, PubFresh, PubReads
    <2>3. AllIdle'
      BY <2>1, <2>2 DEF OnlyPub, AllIdle, TypeOK, NoPub
    <2>4. \A d \in Dataset : ds'[d].review = ds[d].review
      BY <1>6, <2>1, <2>2, FlaggedRows DEF PubReads
    <2> QED
      BY <2>3, IdleIsFine, PTL DEF Undisturbed
  <1>7. CASE PublishFails(p)
    <2>1. /\ pub' = [pub EXCEPT ![p] = NoPub] /\ pub[p].pc # "idle"
          /\ UNCHANGED <<ds, job, edit, review, publications, orderly>>
      BY <1>7 DEF PublishFails
    <2>2. AllIdle'
      BY <2>1, PublishingIsOnly DEF Undisturbed, OnlyPub, AllIdle, TypeOK, NoPub
    <2> QED
      BY <2>2, IdleIsFine, PTL DEF Undisturbed
  <1> QED
    BY <1>1, <1>2, <1>3, <1>4, <1>5, <1>6, <1>7 DEF PublishStep

LEMMA OrderlyStays == [Next]_vars => orderly' = orderly
  BY DEF Next, vars, AddDataset, CreateJob, EditRead, EditWrite, ReviewRead, ReviewWrite, Gate,
         BuildTile, BuildManifest, Collect, Merge, Flag, PublishFails

LEMMA OrderedInit == Init => Ordered
  <1> SUFFICES ASSUME Init PROVE Ordered
    OBVIOUS
  <1>1. AllIdle
    BY DEF Init, AllIdle, NoPub, NoEdit, NoReview
  <1> QED
    BY <1>1, GatedInit, IdleIsFine DEF Ordered, Undisturbed

LEMMA OrderedNext == Ordered /\ [Next]_vars => Ordered'
  <1> SUFFICES ASSUME Ordered, [Next]_vars PROVE Ordered'
    OBVIOUS
  <1>1. Gated'
    BY GatedNext DEF Ordered
  <1>2. CASE ~orderly
    BY <1>1, <1>2, OrderlyStays DEF Ordered, Undisturbed
  <1>3. CASE orderly /\ Next
    BY <1>1, <1>3, NextSteps, RequestInOrder, WriteInOrder, PublishInOrder DEF Ordered
  <1>4. CASE UNCHANGED vars
    BY <1>1, <1>4 DEF vars, Ordered, Undisturbed, Alone, EditFresh, ReviewFresh, PubFresh,
                      Present, Reviewed, Shown
  <1> QED
    BY <1>2, <1>3, <1>4

LEMMA OrderedAlways == Spec => []Ordered
  BY OrderedInit, OrderedNext, PTL DEF Spec

(* If nothing else goes on during a publication without allow_unreviewed,  *)
(* all that it makes public is official or approved.                       *)
THEOREM PublishedIsReviewed == Spec => OrderlyPublishesReviewed
  <1>1. Ordered /\ [Next]_vars =>
          [\A p \in Publisher : orderly /\ Flag(p) /\ ~pub[p].allow
             => \A d \in NewlyPublished : Reviewed(d)]_vars
    <2> SUFFICES ASSUME Ordered, NEW p \in Publisher, orderly, Flag(p), ~pub[p].allow,
                        NEW d \in NewlyPublished
                 PROVE  Reviewed(d)
      OBVIOUS
    <2>1. /\ pub[p].pc = "flag" /\ pub[p].present \subseteq pub[p].passed
          /\ pub[p].present = Present /\ pub[p].passed = {x \in Present : Reviewed(x)}
          /\ pub[p].copy = ds /\ pub[p].loaded = ds
      BY DEF Flag, Ordered, Gated, GatePassed, Undisturbed, PubFresh
    <2>2. d \in Present
      BY <2>1, FlaggedRows DEF NewlyPublished, Present, Ordered
    <2> QED
      BY <2>1, <2>2
  <1> QED
    BY <1>1, OrderedAlways, PTL DEF Spec, OrderlyPublishesReviewed

(* If nothing else goes on during a publication, its tiles, its manifest   *)
(* and what it makes public are about the same datasets.                   *)
THEOREM ArchivesAreWhole == Spec => ArchiveIsWhole
  <1>1. Ordered /\ [Next]_vars =>
          [\A p \in Publisher : orderly /\ Flag(p)
             => LET manifest == pub[p].manifest IN
                /\ \A t \in Tile : pub[p].tiles[t] = Listed(manifest) \ Raster
                /\ NewlyPublished \subseteq Listed(manifest)
                /\ \A d \in Listed(manifest) : ds'[d].published
                                              /\ manifest[d].review = ds'[d].review]_vars
    <2> SUFFICES ASSUME Ordered, NEW p \in Publisher, orderly, Flag(p)
                 PROVE  /\ \A t \in Tile : pub[p].tiles[t] = Listed(pub[p].manifest) \ Raster
                        /\ NewlyPublished \subseteq Listed(pub[p].manifest)
                        /\ \A d \in Listed(pub[p].manifest) :
                             ds'[d].published /\ pub[p].manifest[d].review = ds'[d].review
      OBVIOUS
    <2>1. /\ pub[p].pc = "flag" /\ pub[p].manifest = ds /\ pub[p].copy = ds /\ pub[p].loaded = ds
          /\ \A t \in Tile : pub[p].tiles[t] = Shown
      BY DEF Flag, Ordered, Undisturbed, PubFresh
    <2>2. Listed(ds) = Present /\ Shown = Present \ Raster
      BY DEF Listed, Present, Shown
    <2>3. \A d \in Dataset : /\ ds'[d].review = ds[d].review
                             /\ ds'[d].published = (ds[d].there \/ ds[d].published)
      BY <2>1, FlaggedRows DEF Ordered
    <2>4. \A t \in Tile : pub[p].tiles[t] = Listed(ds) \ Raster
      BY <2>1, <2>2
    <2>5. NewlyPublished \subseteq Listed(ds)
      BY <2>3 DEF NewlyPublished, Listed
    <2>6. \A d \in Listed(ds) : ds'[d].published /\ ds[d].review = ds'[d].review
      BY <2>3 DEF Listed
    <2> QED
      BY <2>1, <2>4, <2>5, <2>6
  <1> QED
    BY <1>1, OrderedAlways, PTL DEF Spec, ArchiveIsWhole

-----------------------------------------------------------------------------
(* Approvals, however requests overlap.                                    *)

(* Of a dataset whose reviews met nothing they are not to meet: what a     *)
(* review, an edit and the end of a publication have read is still so.     *)
ReviewHolds(d) ==
    \A r \in Reviewer : review[r].pc = "write" /\ review[r].dataset = d =>
      /\ review[r].status = job[d].status /\ review[r].review = ds[d].review
      /\ job[d].status # "none" /\ ~Editing(d) /\ ~Merging
      /\ \A o \in Reviewer : review[o].pc = "write" /\ review[o].dataset = d => o = r

EditHolds(d) == Editing(d) => job[d].status \notin {"none", "approved"}

MergeHolds(d) ==
    \A p \in Publisher :
      /\ pub[p].pc \in {"merge", "flag"} => pub[p].copy[d].review = ds[d].review
      /\ pub[p].pc = "flag" => pub[p].loaded[d].review = ds[d].review

Stands(d) ==
    ds[d].review = "approved" => job[d].status = "approved" /\ job[d].gcps = job[d].vetted

Firm(d) == Stands(d) /\ ReviewHolds(d) /\ EditHolds(d) /\ MergeHolds(d)

Approving == \A d \in Dataset \ met : Firm(d)

LEMMA ApprovingInit == Init => Approving
  <1> SUFFICES ASSUME Init, NEW d \in Dataset PROVE Firm(d)
    BY DEF Approving
  <1>1. ds[d].review # "approved"
    BY DEF Init, NoDatasets, NoDataset
  <1>2. AllIdle
    BY DEF Init, AllIdle, NoPub, NoEdit, NoReview
  <1>3. ReviewHolds(d) /\ EditHolds(d)
    BY <1>2 DEF AllIdle, ReviewHolds, EditHolds, Editing
  <1>4. MergeHolds(d)
    BY <1>2 DEF AllIdle, MergeHolds
  <1> QED
    BY <1>1, <1>3, <1>4 DEF Firm, Stands

(* What is firm hangs on its rows and on the requests about it.            *)
LEMMA StaysFirm ==
  ASSUME NEW d, Firm(d), ds'[d].review = ds[d].review, job'[d] = job[d],
         Editing(d)' => Editing(d),
         \A r \in Reviewer : \/ review'[r] = review[r]
                             \/ review'[r].pc # "write" \/ review'[r].dataset # d,
         Reviewing(d) /\ Merging' => Merging,
         MergeHolds(d)'
  PROVE  Firm(d)'
  <1>1. Stands(d)' /\ EditHolds(d)'
    BY DEF Firm, Stands, EditHolds
  <1>2. ReviewHolds(d)'
    <2> SUFFICES ASSUME NEW r \in Reviewer, review'[r].pc = "write", review'[r].dataset = d
                 PROVE  /\ review'[r].status = job'[d].status /\ review'[r].review = ds'[d].review
                        /\ job'[d].status # "none" /\ ~Editing(d)' /\ ~Merging'
                        /\ \A o \in Reviewer : review'[o].pc = "write" /\ review'[o].dataset = d
                                               => o = r
      BY DEF ReviewHolds
    <2>1. review'[r] = review[r] /\ Reviewing(d)
      BY DEF Reviewing
    <2>2. /\ review[r].status = job[d].status /\ review[r].review = ds[d].review
          /\ job[d].status # "none" /\ ~Editing(d) /\ ~Merging
          /\ \A o \in Reviewer : review[o].pc = "write" /\ review[o].dataset = d => o = r
      BY <2>1 DEF Firm, ReviewHolds
    <2> QED
      BY <2>1, <2>2
  <1> QED
    BY <1>1, <1>2 DEF Firm

LEMMA RequestKeepsFirm ==
  ASSUME Gated, Approving, NEW x \in Dataset,
         \/ AddDataset(x) \/ CreateJob(x)
         \/ \E e \in Editor : EditRead(e, x)
         \/ \E r \in Reviewer, approve \in BOOLEAN : ReviewRead(r, x, approve)
  PROVE  Approving'
  <1> USE DEF Gated
  <1> SUFFICES ASSUME NEW d \in Dataset, d \notin met' PROVE Firm(d)'
    BY DEF Approving
  <1>1. CASE AddDataset(x)
    <2>1. ds'[d].review = ds[d].review /\ UNCHANGED <<job, pub, edit, review, met>>
      BY <1>1 DEF AddDataset, TypeOK, Rows, DatasetRow
    <2>2. Firm(d) /\ MergeHolds(d)' /\ (Editing(d)' => Editing(d)) /\ (Merging' => Merging)
      BY <2>1 DEF Approving, Firm, MergeHolds, Editing, Merging
    <2> QED
      BY <2>1, <2>2, StaysFirm
  <1>2. CASE CreateJob(x)
    <2>1. /\ UNCHANGED <<ds, pub, edit, review, met>> /\ job[x].status = "none"
          /\ job' = [job EXCEPT ![x].status = "draft"]
      BY <1>2 DEF CreateJob
    <2>2. Firm(d) /\ MergeHolds(d)' /\ (Editing(d)' => Editing(d)) /\ (Merging' => Merging)
      BY <2>1 DEF Approving, Firm, MergeHolds, Editing, Merging
    <2>3. CASE d # x
      <3>1. job'[d] = job[d]
        BY <2>1, <2>3 DEF TypeOK
      <3> QED
        BY <2>1, <2>2, <3>1, StaysFirm
    <2>4. CASE d = x
      <3>1. Stands(d)'
        BY <2>1, <2>2, <2>4 DEF Firm, Stands
      <3>2. ~Editing(d)
        BY <2>1, <2>2, <2>4 DEF Firm, EditHolds
      <3>3. \A r \in Reviewer : ~(review[r].pc = "write" /\ review[r].dataset = d)
        BY <2>1, <2>2, <2>4 DEF Firm, ReviewHolds
      <3>4. EditHolds(d)' /\ ReviewHolds(d)'
        BY <2>1, <2>2, <3>2, <3>3 DEF EditHolds, ReviewHolds
      <3> QED
        BY <2>2, <3>1, <3>4 DEF Firm
    <2> QED
      BY <2>3, <2>4
  <1>3. ASSUME NEW e \in Editor, EditRead(e, x) PROVE Firm(d)'
    <2>1. /\ edit' = [edit EXCEPT ![e] = [pc |-> "write", dataset |-> x, status |-> job[x].status]]
          /\ job[x].status \notin {"none", "approved"}
          /\ met' = met \cup {y \in {x} : Reviewing(y)} /\ UNCHANGED <<ds, job, pub, review>>
      BY <1>3 DEF EditRead
    <2>2. Firm(d) /\ MergeHolds(d)' /\ Stands(d)' /\ (Merging' => Merging)
      BY <2>1 DEF Approving, Firm, Stands, MergeHolds, Merging
    <2>3. CASE d # x
      <3>1. Editing(d)' => Editing(d)
        BY <2>1, <2>3 DEF Editing, TypeOK
      <3> QED
        BY <2>1, <2>2, <3>1, StaysFirm
    <2>4. CASE d = x
      <3>1. EditHolds(d)'
        BY <2>1, <2>4 DEF EditHolds
      <3>2. ~Reviewing(d)
        BY <2>1, <2>4
      <3>3. ReviewHolds(d)'
        BY <2>1, <3>2 DEF ReviewHolds, Reviewing
      <3> QED
        BY <2>2, <3>1, <3>3 DEF Firm
    <2> QED
      BY <2>3, <2>4
  <1>4. ASSUME NEW r \in Reviewer, NEW approve \in BOOLEAN, ReviewRead(r, x, approve) PROVE Firm(d)'
    <2> DEFINE v == [pc |-> "write", dataset |-> x, approve |-> approve,
                     status |-> job[x].status, review |-> ds[x].review]
    <2>1. /\ review' = [review EXCEPT ![r] = v] /\ job[x].status # "none"
          /\ met' = met \cup {y \in {x} : Reviewing(y) \/ Editing(y) \/ Merging}
          /\ UNCHANGED <<ds, job, pub, edit>>
      BY <1>4 DEF ReviewRead
    <2>2. review'[r] = v /\ \A o \in Reviewer : o # r => review'[o] = review[o]
      BY <2>1 DEF TypeOK
    <2>3. /\ Firm(d) /\ MergeHolds(d)' /\ Stands(d)' /\ EditHolds(d)'
          /\ (Merging' => Merging) /\ (Editing(d)' => Editing(d))
      BY <2>1 DEF Approving, Firm, Stands, EditHolds, MergeHolds, Merging, Editing
    <2>4. CASE d # x
      <3>1. review'[r].dataset # d
        BY <2>2, <2>4
      <3> QED
        BY <2>1, <2>2, <2>3, <3>1, StaysFirm
    <2>5. CASE d = x
      <3>1. ~Reviewing(d) /\ ~Editing(d) /\ ~Merging
        BY <2>1, <2>5
      <3>2. \A o \in Reviewer : review'[o].pc = "write" /\ review'[o].dataset = d => o = r
        BY <2>2, <3>1 DEF Reviewing
      <3>3. v.status = job'[d].status /\ v.review = ds'[d].review /\ job'[d].status # "none"
        BY <2>1, <2>5
      <3>4. ReviewHolds(d)'
        BY <2>2, <2>3, <3>1, <3>2, <3>3 DEF ReviewHolds
      <3> QED
        BY <2>3, <3>4 DEF Firm
    <2> QED
      BY <2>4, <2>5
  <1> QED
    BY <1>1, <1>2, <1>3, <1>4

LEMMA EditKeepsFirm ==
  ASSUME Gated, Approving, NEW e \in Editor, EditWrite(e)
  PROVE  Approving'
  <1> USE DEF Gated
  <1> DEFINE x == edit[e].dataset
  <1> SUFFICES ASSUME NEW d \in Dataset, d \notin met' PROVE Firm(d)'
    BY DEF Approving
  <1>1. x \in Dataset /\ edit[e].pc = "write"
    BY DEF EditWrite, Pointed
  <1>2. PICK status \in {"computed", "draft"} :
          job' = [job EXCEPT ![x].gcps = @ + 1,
                             ![x].status = IF status # edit[e].status THEN status ELSE @]
    BY DEF EditWrite
  <1>3. edit' = [edit EXCEPT ![e] = NoEdit] /\ UNCHANGED <<ds, pub, review, met>>
    BY DEF EditWrite
  <1>4. Firm(d) /\ MergeHolds(d)' /\ (Editing(d)' => Editing(d)) /\ (Merging' => Merging)
    BY <1>3 DEF Approving, Firm, MergeHolds, Editing, Merging, TypeOK, NoEdit
  <1>5. CASE d # x
    <2>1. job'[d] = job[d]
      BY <1>2, <1>5 DEF TypeOK
    <2> QED
      BY <1>3, <1>4, <2>1, StaysFirm
  <1>6. CASE d = x
    <2>1. Editing(d)
      BY <1>1, <1>6 DEF Editing
    <2>2. job[d].status \notin {"none", "approved"} /\ ~Reviewing(d) /\ ds[d].review # "approved"
      BY <1>4, <2>1 DEF Firm, EditHolds, ReviewHolds, Reviewing, Stands
    <2>3. job'[d].status \in {status, job[d].status}
      BY <1>1, <1>2, <1>6 DEF TypeOK, JobRow
    <2>4. job'[d].status \notin {"none", "approved"}
      BY <2>2, <2>3
    <2>5. Stands(d)' /\ EditHolds(d)' /\ ReviewHolds(d)'
      BY <1>3, <2>2, <2>4 DEF Stands, EditHolds, ReviewHolds, Reviewing
    <2> QED
      BY <1>4, <2>5 DEF Firm
  <1> QED
    BY <1>5, <1>6

LEMMA ReviewKeepsFirm ==
  ASSUME Gated, Approving, NEW r \in Reviewer, ReviewWrite(r)
  PROVE  Approving'
  <1> USE DEF Gated
  <1> DEFINE v == review[r]
             x == v.dataset
             verdict == Verdict(v.approve)
  <1> SUFFICES ASSUME NEW d \in Dataset, d \notin met' PROVE Firm(d)'
    BY DEF Approving
  <1>1. x \in Dataset /\ v.pc = "write" /\ v.approve \in BOOLEAN
    BY DEF ReviewWrite, Pointed, TypeOK, ReviewState
  <1>2. /\ job' = [job EXCEPT ![x].status = IF verdict # v.status THEN verdict ELSE @,
                              ![x].vetted = IF v.approve THEN job[x].gcps ELSE @]
        /\ ds' = [ds EXCEPT ![x].review = IF verdict # v.review THEN verdict ELSE @]
        /\ review' = [review EXCEPT ![r] = NoReview]
        /\ UNCHANGED <<pub, edit, met>>
    BY DEF ReviewWrite
  <1>3. Firm(d) /\ (Editing(d)' => Editing(d)) /\ (Merging' => Merging)
    BY <1>2 DEF Approving, Editing, Merging
  <1>4. review'[r].pc = "idle" /\ \A o \in Reviewer : o # r => review'[o] = review[o]
    BY <1>2 DEF TypeOK, NoReview
  <1>5. CASE d # x
    <2>1. ds'[d] = ds[d] /\ job'[d] = job[d]
      BY <1>2, <1>5 DEF TypeOK, Rows
    <2>2. MergeHolds(d)'
      BY <1>2, <1>3, <2>1 DEF Firm, MergeHolds
    <2> QED
      BY <1>3, <1>4, <2>1, <2>2, StaysFirm
  <1>6. CASE d = x
    <2>1. /\ v.status = job[d].status /\ v.review = ds[d].review /\ ~Editing(d) /\ ~Merging
          /\ \A o \in Reviewer : review[o].pc = "write" /\ review[o].dataset = d => o = r
      BY <1>1, <1>3, <1>6 DEF Firm, ReviewHolds
    <2>2. ds'[d].review = verdict
      BY <1>2, <1>6, <2>1 DEF TypeOK, Rows, DatasetRow
    <2>3. job'[d].status = verdict /\ (v.approve => job'[d].gcps = job'[d].vetted)
      BY <1>2, <1>6, <2>1 DEF TypeOK, JobRow
    <2>4. Stands(d)'
      BY <1>1, <2>2, <2>3 DEF Stands, Verdict
    <2>5. EditHolds(d)'
      BY <1>3, <2>1 DEF EditHolds
    <2>6. MergeHolds(d)'
      BY <1>2, <2>1 DEF MergeHolds, Merging
    <2>7. ReviewHolds(d)'
      BY <1>4, <2>1 DEF ReviewHolds
    <2> QED
      BY <2>4, <2>5, <2>6, <2>7 DEF Firm
  <1> QED
    BY <1>5, <1>6

LEMMA PublishKeepsFirm ==
  ASSUME Gated, Approving, NEW p \in Publisher, PublishStep(p)
  PROVE  Approving'
  <1> USE DEF Gated
  <1> SUFFICES ASSUME NEW d \in Dataset, d \notin met' PROVE Firm(d)'
    BY DEF Approving
  <1>1. ASSUME NEW q, pub' = [pub EXCEPT ![p] = q], q.pc \notin {"merge", "flag"},
               ds'[d].review = ds[d].review, UNCHANGED <<job, edit, review, met>>
        PROVE  Firm(d)'
    <2>1. Firm(d) /\ MergeHolds(d)' /\ (Editing(d)' => Editing(d)) /\ (Merging' => Merging)
      BY <1>1 DEF Approving, Firm, MergeHolds, Editing, Merging, TypeOK
    <2> QED
      BY <1>1, <2>1, StaysFirm
  <1>2. ASSUME NEW allow \in BOOLEAN, Gate(p, allow) PROVE Firm(d)'
    BY <1>1, <1>2 DEF Gate, NoPub
  <1>3. ASSUME NEW t \in Tile, BuildTile(p, t) PROVE Firm(d)'
    <2> DEFINE q == [pub[p] EXCEPT !.tiles[t] = Shown]
    <2>1. pub' = [pub EXCEPT ![p] = q] /\ UNCHANGED <<ds, job, edit, review, met>>
      BY <1>3 DEF BuildTile
    <2>2. q.pc = "tiles"
      BY <1>3 DEF BuildTile, TypeOK, PubState
    <2> QED
      BY <1>1, <2>1, <2>2
  <1>4. CASE BuildManifest(p)
    <2> DEFINE q == [pub[p] EXCEPT !.pc = "collect", !.manifest = ds]
    <2>1. pub' = [pub EXCEPT ![p] = q] /\ UNCHANGED <<ds, job, edit, review, met>>
      BY <1>4 DEF BuildManifest
    <2>2. q.pc = "collect"
      BY DEF TypeOK, PubState
    <2> QED
      BY <1>1, <2>1, <2>2
  <1>5. CASE Collect(p)
    <2>1. /\ pub' = [pub EXCEPT ![p] = [@ EXCEPT !.pc = "merge", !.copy = ds]]
          /\ met' = met \cup {y \in Dataset : Reviewing(y)} /\ UNCHANGED <<ds, job, edit, review>>
      BY <1>5 DEF Collect
    <2>2. ~Reviewing(d) /\ Firm(d) /\ (Editing(d)' => Editing(d))
      BY <2>1 DEF Approving, Editing
    <2>3. pub'[p].pc = "merge" /\ pub'[p].copy = ds /\ \A o \in Publisher : o # p => pub'[o] = pub[o]
      BY <2>1 DEF TypeOK, PubState
    <2>4. MergeHolds(d)'
      BY <2>1, <2>2, <2>3 DEF Firm, MergeHolds
    <2> QED
      BY <2>1, <2>2, <2>4, StaysFirm
  <1>6. CASE Merge(p)
    <2>1. /\ pub' = [pub EXCEPT ![p] = [@ EXCEPT !.pc = "flag", !.loaded = ds]]
          /\ pub[p].pc = "merge" /\ UNCHANGED <<ds, job, edit, review, met>>
      BY <1>6 DEF Merge
    <2>2. Firm(d) /\ (Editing(d)' => Editing(d)) /\ Merging
      BY <2>1 DEF Approving, Editing, Merging
    <2>3. /\ pub'[p].pc = "flag" /\ pub'[p].copy = pub[p].copy /\ pub'[p].loaded = ds
          /\ \A o \in Publisher : o # p => pub'[o] = pub[o]
      BY <2>1 DEF TypeOK, PubState
    <2>4. MergeHolds(d)'
      BY <2>1, <2>2, <2>3 DEF Firm, MergeHolds
    <2> QED
      BY <2>1, <2>2, <2>4, StaysFirm
  <1>7. CASE Flag(p)
    <2>1. /\ pub[p].pc = "flag" /\ pub' = [pub EXCEPT ![p] = NoPub]
          /\ ds' = [x \in Dataset |-> IF pub[p].copy[x].there
                                      THEN Flagged(ds[x], pub[p].copy[x], pub[p].loaded[x])
                                      ELSE ds[x]]
          /\ UNCHANGED <<job, edit, review, met>>
      BY <1>7 DEF Flag
    <2>2. pub[p].copy[d].review = ds[d].review /\ pub[p].loaded[d].review = ds[d].review
      BY <2>1 DEF Approving, Firm, MergeHolds
    <2>3. ds[d] \in DatasetRow
      BY DEF TypeOK, Rows
    <2>4. Flagged(ds[d], pub[p].copy[d], pub[p].loaded[d]).review = ds[d].review
      BY <2>2, <2>3 DEF Flagged, DatasetRow
    <2>5. ds'[d].review = ds[d].review
      BY <2>1, <2>4
    <2> QED
      BY <1>1, <2>1, <2>5 DEF NoPub
  <1>8. CASE PublishFails(p)
    BY <1>1, <1>8 DEF PublishFails, NoPub
  <1> QED
    BY <1>2, <1>3, <1>4, <1>5, <1>6, <1>7, <1>8 DEF PublishStep

LEMMA ApprovingNext == Gated /\ Approving /\ [Next]_vars => Approving'
  <1> SUFFICES ASSUME Gated, Approving, [Next]_vars PROVE Approving'
    OBVIOUS
  <1>1. CASE Next
    BY <1>1, NextSteps, RequestKeepsFirm, EditKeepsFirm, ReviewKeepsFirm, PublishKeepsFirm
  <1>2. CASE UNCHANGED vars
    BY <1>2 DEF vars, Approving, Firm, Stands, ReviewHolds, EditHolds, MergeHolds, Editing, Merging
  <1> QED
    BY <1>1, <1>2

(* However requests overlap: an approved dataset has an approved job with  *)
(* the control points that were approved, unless a review of it overlapped *)
(* with an edit of its points, with another review of it, or with the last *)
(* transaction of a publication.                                           *)
THEOREM ApprovalsStand == Spec => []ApprovalStands
  <1>1. Approving => ApprovalStands
    BY DEF Approving, Firm, Stands, ApprovalStands
  <1> QED
    BY <1>1, ApprovingInit, ApprovingNext, GatedAlways, PTL DEF Spec
=============================================================================
