------------------------------ MODULE PublishGate ------------------------------
(***************************************************************************)
(* Publication of one planning version, the georeferencing jobs and the    *)
(* reviews its datasets wait for, and imports that add datasets to it.     *)
(*                                                                         *)
(* publish_version runs through several transactions: the gate, one query  *)
(* for every tile, the manifest, the stored archive, and at last the rows  *)
(* that make it public.  Every request is its own READ COMMITTED session;  *)
(* what a session writes at its end are the columns whose value it changed *)
(* since it loaded the row.                                                *)
(*                                                                         *)
(* A definition named Wrong... is a plausible slip in the definition that  *)
(* follows it; no action uses it.                                          *)
(***************************************************************************)
EXTENDS Naturals

CONSTANTS
    Dataset,    \* the datasets the version may come to have
    Official,   \* those of an official derivation level
    Raster,     \* those that are images; the others are vector layers
    Drawn,      \* bound: those somebody draws control points for
    Publisher, Editor, Reviewer,  \* requests and worker jobs that may run at a time
    Tile,       \* the tiles of an archive
    None,       \* nothing read
    Modes,      \* which values of `orderly' to look at
    MaxEdits,   \* bound: revisions of control points
    MaxPubs     \* bound: publications

ASSUME DatasetAssumption ==
    /\ Official \subseteq Dataset /\ Raster \subseteq Dataset /\ Drawn \subseteq Dataset
    /\ None \notin Dataset
ASSUME ModesAssumption == Modes \subseteq BOOLEAN
ASSUME BoundAssumption == MaxEdits \in Nat /\ MaxPubs \in Nat

VARIABLES
    ds,       \* [Dataset -> its row]
    job,      \* [Dataset -> the row of its georeferencing job]
    pub,      \* [Publisher -> publish_version in progress]
    edit,     \* [Editor -> update_gcps in progress]
    review,   \* [Reviewer -> review_job in progress]
    publications,  \* how many there are
    orderly,  \* one import, edit, review and publication at a time?
    met       \* history: datasets a review of which overlapped with what it is not to meet

vars == <<ds, job, pub, edit, review, publications, orderly, met>>

-----------------------------------------------------------------------------
ReviewStatus == {"pending", "approved", "rejected"}
GeorefStatus == {"none", "draft", "computed", "approved", "rejected"}

(* gcps is the revision of the control points, vetted the one a reviewer   *)
(* last approved (history).                                                *)
DatasetRow == [there : BOOLEAN, review : ReviewStatus, published : BOOLEAN]
JobRow == [status : GeorefStatus, gcps : 0 .. MaxEdits, vetted : 0 .. MaxEdits]

NoDataset == [there |-> FALSE, review |-> "pending", published |-> FALSE]
NoJob == [status |-> "none", gcps |-> 0, vetted |-> 0]

Rows == [Dataset -> DatasetRow]
NoDatasets == [d \in Dataset |-> NoDataset]

(* Requests in progress.  present and passed are the datasets the gate     *)
(* found and let through, tiles what each tile shows, manifest, copy and   *)
(* loaded the rows as they were read for the manifest, in the last         *)
(* transaction, and to merge into.                                         *)
PubState == [pc : {"idle", "tiles", "collect", "merge", "flag"}, allow : BOOLEAN,
             present : SUBSET Dataset, passed : SUBSET Dataset,
             tiles : [Tile -> (SUBSET Dataset) \cup {None}],
             manifest : Rows, copy : Rows, loaded : Rows]
EditState == [pc : {"idle", "write"}, dataset : Dataset \cup {None}, status : GeorefStatus]
ReviewState == [pc : {"idle", "write"}, dataset : Dataset \cup {None}, approve : BOOLEAN,
                status : GeorefStatus, review : ReviewStatus]

NoPub == [pc |-> "idle", allow |-> FALSE, present |-> {}, passed |-> {},
          tiles |-> [t \in Tile |-> None],
          manifest |-> NoDatasets, copy |-> NoDatasets, loaded |-> NoDatasets]
NoEdit == [pc |-> "idle", dataset |-> None, status |-> "none"]
NoReview == [pc |-> "idle", dataset |-> None, approve |-> FALSE,
             status |-> "none", review |-> "pending"]

Init ==
    /\ ds = NoDatasets
    /\ job = [d \in Dataset |-> NoJob]
    /\ pub = [p \in Publisher |-> NoPub]
    /\ edit = [e \in Editor |-> NoEdit]
    /\ review = [r \in Reviewer |-> NoReview]
    /\ publications = 0
    /\ orderly \in Modes /\ met = {}

Present == {d \in Dataset : ds[d].there}
Reviewed(d) == d \in Official \/ ds[d].review = "approved"

(* May another request begin now?                                          *)
Free == orderly => /\ \A p \in Publisher : pub[p].pc = "idle"
                   /\ \A e \in Editor : edit[e].pc = "idle"
                   /\ \A r \in Reviewer : review[r].pc = "idle"

Reviewing(d) == \E r \in Reviewer : review[r].pc = "write" /\ review[r].dataset = d
Editing(d) == \E e \in Editor : edit[e].pc = "write" /\ edit[e].dataset = d
Merging == \E p \in Publisher : pub[p].pc \in {"merge", "flag"}

-----------------------------------------------------------------------------
(* Imports, jobs and reviews.                                              *)

(* A run of the pipeline commits a dataset of this version.                *)
AddDataset(d) ==
    /\ ~ds[d].there /\ Free
    /\ ds' = [ds EXCEPT ![d].there = TRUE]
    /\ UNCHANGED <<job, pub, edit, review, publications, orderly, met>>

CreateJob(d) ==
    /\ ds[d].there /\ d \in Drawn /\ job[d].status = "none" /\ Free
    /\ job' = [job EXCEPT ![d].status = "draft"]
    /\ UNCHANGED <<ds, pub, edit, review, publications, orderly, met>>

WrongEditRead(e, d) ==
    /\ edit[e].pc = "idle" /\ job[d].status # "none" /\ Free
    /\ edit' = [edit EXCEPT ![e] = [pc |-> "write", dataset |-> d, status |-> job[d].status]]
    /\ met' = met \cup {x \in {d} : Reviewing(x)}
    /\ UNCHANGED <<ds, job, pub, review, publications, orderly>>

(* update_gcps loads the job, and refuses an approved one.                 *)
EditRead(e, d) ==
    /\ edit[e].pc = "idle" /\ job[d].status \notin {"none", "approved"} /\ Free
    /\ edit' = [edit EXCEPT ![e] = [pc |-> "write", dataset |-> d, status |-> job[d].status]]
    /\ met' = met \cup {x \in {d} : Reviewing(x)}
    /\ UNCHANGED <<ds, job, pub, review, publications, orderly>>

(* The new points fit a transform, or do not.                              *)
EditWrite(e) ==
    LET d == edit[e].dataset IN
    /\ edit[e].pc = "write" /\ job[d].gcps < MaxEdits
    /\ \E status \in {"computed", "draft"} :
         job' = [job EXCEPT ![d].gcps = @ + 1,
                            ![d].status = IF status # edit[e].status THEN status ELSE @]
    /\ edit' = [edit EXCEPT ![e] = NoEdit]
    /\ UNCHANGED <<ds, pub, review, publications, orderly, met>>

(* review_job loads the job and its dataset, whatever their state,         *)
ReviewRead(r, d, approve) ==
    /\ review[r].pc = "idle" /\ job[d].status # "none" /\ Free
    /\ review' = [review EXCEPT ![r] = [pc |-> "write", dataset |-> d, approve |-> approve,
                                        status |-> job[d].status, review |-> ds[d].review]]
    /\ met' = met \cup {x \in {d} : Reviewing(x) \/ Editing(x) \/ Merging}
    /\ UNCHANGED <<ds, job, pub, edit, publications, orderly>>

Verdict(approve) == IF approve THEN "approved" ELSE "rejected"

WrongReviewWrite(r) ==
    LET v == review[r]
        d == v.dataset IN
    /\ v.pc = "write"
    /\ job' = [job EXCEPT ![d].status = Verdict(v.approve)]
    /\ ds' = [ds EXCEPT ![d].review = IF v.approve THEN "approved" ELSE "draft"]
    /\ review' = [review EXCEPT ![r] = NoReview]
    /\ UNCHANGED <<pub, edit, publications, orderly, met>>

(* and gives both the verdict.                                             *)
ReviewWrite(r) ==
    LET v == review[r]
        d == v.dataset
        verdict == Verdict(v.approve) IN
    /\ v.pc = "write"
    /\ job' = [job EXCEPT ![d].status = IF verdict # v.status THEN verdict ELSE @,
                          ![d].vetted = IF v.approve THEN job[d].gcps ELSE @]
    /\ ds' = [ds EXCEPT ![d].review = IF verdict # v.review THEN verdict ELSE @]
    /\ review' = [review EXCEPT ![r] = NoReview]
    /\ UNCHANGED <<pub, edit, publications, orderly, met>>

-----------------------------------------------------------------------------
(* publish_version.                                                        *)

WrongBlocked == {d \in Present \ Raster : ~Reviewed(d)}

(* The datasets check_publishable objects to.                              *)
Blocked == {d \in Present : ~Reviewed(d)}

(* The gate lets the version through, or the request ends here.            *)
Gate(p, allow) ==
    /\ pub[p].pc = "idle" /\ publications < MaxPubs /\ Free
    /\ allow \/ Blocked = {}
    /\ pub' = [pub EXCEPT ![p] = [NoPub EXCEPT
                 !.pc = "tiles", !.allow = allow, !.present = Present,
                 !.passed = {d \in Present : Reviewed(d)}]]
    /\ UNCHANGED <<ds, job, edit, review, publications, orderly, met>>

WrongShown == {d \in Present \ Raster : ds[d].published}

(* What a tile shows: the vector datasets, published or not.               *)
Shown == Present \ Raster

BuildTile(p, t) ==
    /\ pub[p].pc = "tiles" /\ pub[p].tiles[t] = None
    /\ pub' = [pub EXCEPT ![p].tiles[t] = Shown]
    /\ UNCHANGED <<ds, job, edit, review, publications, orderly, met>>

(* build_manifest, and the archive goes to the object store.               *)
BuildManifest(p) ==
    /\ pub[p].pc = "tiles" /\ \A t \in Tile : pub[p].tiles[t] # None
    /\ pub' = [pub EXCEPT ![p] = [@ EXCEPT !.pc = "collect", !.manifest = ds]]
    /\ UNCHANGED <<ds, job, edit, review, publications, orderly, met>>

(* The last transaction reads the datasets in a session of their own,      *)
Collect(p) ==
    /\ pub[p].pc = "collect"
    /\ pub' = [pub EXCEPT ![p] = [@ EXCEPT !.pc = "merge", !.copy = ds]]
    /\ met' = met \cup {d \in Dataset : Reviewing(d)}
    /\ UNCHANGED <<ds, job, edit, review, publications, orderly>>

(* loads them again to merge these copies into,                            *)
Merge(p) ==
    /\ pub[p].pc = "merge"
    /\ pub' = [pub EXCEPT ![p] = [@ EXCEPT !.pc = "flag", !.loaded = ds]]
    /\ UNCHANGED <<ds, job, edit, review, publications, orderly, met>>

Flagged(row, copy, loaded) ==
    [row EXCEPT !.published = TRUE,
                !.review = IF copy.review # loaded.review THEN copy.review ELSE @]

(* and commits the publication and what the copies changed.                *)
Flag(p) ==
    LET q == pub[p] IN
    /\ q.pc = "flag"
    /\ ds' = [d \in Dataset |-> IF q.copy[d].there
                                THEN Flagged(ds[d], q.copy[d], q.loaded[d]) ELSE ds[d]]
    /\ publications' = publications + 1
    /\ pub' = [pub EXCEPT ![p] = NoPub]
    /\ UNCHANGED <<job, edit, review, orderly, met>>

(* The worker or the request dies, or the object store refuses.            *)
PublishFails(p) ==
    /\ pub[p].pc # "idle"
    /\ pub' = [pub EXCEPT ![p] = NoPub]
    /\ UNCHANGED <<ds, job, edit, review, publications, orderly, met>>

-----------------------------------------------------------------------------
Next ==
    \/ \E d \in Dataset :
         \/ AddDataset(d) \/ CreateJob(d)
         \/ \E e \in Editor : EditRead(e, d)
         \/ \E r \in Reviewer, approve \in BOOLEAN : ReviewRead(r, d, approve)
    \/ \E e \in Editor : EditWrite(e)
    \/ \E r \in Reviewer : ReviewWrite(r)
    \/ \E p \in Publisher :
         \/ \E allow \in BOOLEAN : Gate(p, allow)
         \/ \E t \in Tile : BuildTile(p, t)
         \/ BuildManifest(p) \/ Collect(p) \/ Merge(p) \/ Flag(p) \/ PublishFails(p)

Spec == Init /\ [][Next]_vars

-----------------------------------------------------------------------------
(* Properties                                                              *)

(* Types of the rows and of the requests in progress.                      *)
TypeOK ==
    /\ ds \in Rows /\ job \in [Dataset -> JobRow]
    /\ pub \in [Publisher -> PubState] /\ edit \in [Editor -> EditState]
    /\ review \in [Reviewer -> ReviewState]
    /\ publications \in Nat /\ orderly \in BOOLEAN /\ met \subseteq Dataset

NewlyPublished == {d \in Dataset : ~ds[d].published /\ ds'[d].published}

(* Without allow_unreviewed a publication makes public no dataset that its *)
(* gate saw unreviewed: "review gate + publish flag apply to every dataset *)
(* type".                                                                  *)
FlagsOnlyGated ==
    [][\A p \in Publisher : Flag(p) /\ ~pub[p].allow
         => NewlyPublished \cap pub[p].present \subseteq pub[p].passed]_vars

(* "Publication refuses unreviewed derived content unless allow_unreviewed *)
(* is passed": what becomes public is official or approved then.           *)
PublishesReviewed ==
    [][\A p \in Publisher : Flag(p) /\ ~pub[p].allow
         => \A d \in NewlyPublished : Reviewed(d)]_vars

(* The same if nothing else goes on during a publication.                  *)
OrderlyPublishesReviewed ==
    [][\A p \in Publisher : orderly /\ Flag(p) /\ ~pub[p].allow
         => \A d \in NewlyPublished : Reviewed(d)]_vars

Listed(rows) == {d \in Dataset : rows[d].there}

(* If nothing else goes on during a publication, its tiles show the vector *)
(* datasets its manifest lists, the manifest lists what is made public and *)
(* tells the review status it had.                                         *)
ArchiveIsWhole ==
    [][\A p \in Publisher : orderly /\ Flag(p)
         => LET manifest == pub[p].manifest IN
            /\ \A t \in Tile : pub[p].tiles[t] = Listed(manifest) \ Raster
            /\ NewlyPublished \subseteq Listed(manifest)
            /\ \A d \in Listed(manifest) : ds'[d].published
                                          /\ manifest[d].review = ds'[d].review]_vars

(* A dataset that counts as approved has a job that is, with the very      *)
(* control points the reviewer saw, however the requests about others and  *)
(* the publications interleave; unless a review of its own overlapped with *)
(* an edit, another review or the last transaction of a publication.       *)
ApprovalStands ==
    \A d \in Dataset \ met : ds[d].review = "approved"
      => job[d].status = "approved" /\ job[d].gcps = job[d].vetted

(* "job already approved -- create a new revision": no points are saved on *)
(* an approved job.                                                        *)
ApprovedPointsStay ==
    [][\A d \in Dataset : job[d].status = "approved" => job'[d].gcps = job[d].gcps]_vars
=============================================================================
