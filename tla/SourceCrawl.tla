------------------------------ MODULE SourceCrawl ------------------------------
(***************************************************************************)
(* One source: the observation cycle of sync_source against a site that    *)
(* changes at any moment, with everything the cycle writes.                *)
(*                                                                         *)
(* A run is one database transaction.  `store' is what is committed; a run *)
(* works on its own copy, run.txn, which becomes the store when it commits *)
(* and is gone when it raises or its process dies.  Runs of one source do  *)
(* not overlap (module CrawlScheduler shows why).                          *)
(*                                                                         *)
(* The site shows each resource as a page: its URL (as canonicalize_url    *)
(* leaves it), the metadata listed with it, and its bytes; a body stands   *)
(* for bytes and for their sha256 alike.                                   *)
(*                                                                         *)
(* A definition named Wrong... is a plausible slip in the definition that  *)
(* follows it; no action uses it.                                          *)
(***************************************************************************)
EXTENDS Naturals, FiniteSets

CONSTANTS
    Key,         \* resource keys the source may ever offer
    Url, Meta, Body,
    Page,        \* the pages the site may show, [url, meta, body]
    Absent,      \* not a page: the resource is not listed
    Nothing,     \* no URL, no metadata, no body, no validator
    EtagOf,      \* [Body -> ETag the server sends with it, or Nothing]
    NoLimit,     \* limit=None
    Limit,       \* the values of `limit' runs are started with
    FailCap,     \* consecutive_failures is counted up to here
    MaxMishaps,  \* bound: requests refused, failed or passed over, and runs that die
    MaxChanges   \* bound: changes of the site

ASSUME PageAssumption ==
    /\ Page \subseteq [url : Url, meta : Meta, body : Body] /\ Absent \notin Page
    /\ Nothing \notin Url \cup Meta \cup Body
ASSUME LimitAssumption == NoLimit \notin Nat /\ Limit \subseteq Nat \cup {NoLimit}
ASSUME BoundAssumption ==
    FailCap \in Nat \ {0, 1, 2} /\ MaxMishaps \in Nat /\ MaxChanges \in Nat
ASSUME KeyAssumption == IsFiniteSet(Key)
ASSUME EtagAssumption == \A b \in Body : b \in DOMAIN EtagOf

VARIABLES
    site,     \* what the upstream site shows: [Key -> Page or Absent]
    store,    \* committed tables
    run,      \* the run in progress
    quiet,    \* history: since the start of the last full run that succeeded the site
              \* has not changed and no run has passed anything over
    changes,  \* history: changes of the site so far
    mishaps   \* history: mishaps so far

vars == <<site, store, run, quiet, changes, mishaps>>

-----------------------------------------------------------------------------
(* Tables and runs.                                                        *)

(* A row of source_resources.                                              *)
Resource == [status : {"none", "active", "disappeared"},
             url : Url \cup {Nothing}, meta : Meta \cup {Nothing},
             body : Body \cup {Nothing}, etag : {EtagOf[b] : b \in Body} \cup {Nothing}]

NoResource == [status |-> "none", url |-> Nothing, meta |-> Nothing,
               body |-> Nothing, etag |-> Nothing]

(* What source_change_events and source_observations say of a resource: its*)
(* last added/disappeared/reappeared event, where its last url_changed,    *)
(* metadata_changed and checksum_changed event led to (or, before the      *)
(* first, what was first seen).                                            *)
Journal == [life : {"none", "added", "disappeared", "reappeared"},
            url : Url \cup {Nothing}, meta : Meta \cup {Nothing}, body : Body \cup {Nothing}]

NoJournal == [life |-> "none", url |-> Nothing, meta |-> Nothing, body |-> Nothing]

Health == {"unknown", "blocked", "failing", "degraded", "needs_review", "changed", "unchanged"}

Store == [res : [Key -> Resource], log : [Key -> Journal],
          artifact : [Body -> {"none", "downloaded", "imported"}],
          fails : 0 .. FailCap, health : Health]

(* fatal is why the cycle was left early, seen the keys of the items kept; *)
(* history: calm, the site has not changed since the run began; shown,     *)
(* what it has shown of each resource since then; over, the resources that *)
(* the discovery passed over.                                              *)
Run == [pc : {"idle", "gate", "discover", "fetch", "finish"},
        limit : Limit \cup {NoLimit}, download : BOOLEAN,
        seen : SUBSET Key, todo : SUBSET Key, fatal : {"no", "blocked", "failed"},
        errors : BOOLEAN, downloaded : BOOLEAN, changed : BOOLEAN,
        calm : BOOLEAN, shown : [Key -> SUBSET (Page \cup {Absent})], over : SUBSET Key,
        txn : Store]

EmptyStore == [res |-> [k \in Key |-> NoResource], log |-> [k \in Key |-> NoJournal],
               artifact |-> [b \in Body |-> "none"], fails |-> 0, health |-> "unknown"]

NoRun == [pc |-> "idle", limit |-> NoLimit, download |-> TRUE, seen |-> {}, todo |-> {},
          fatal |-> "no", errors |-> FALSE, downloaded |-> FALSE, changed |-> FALSE,
          calm |-> FALSE, shown |-> [k \in Key |-> {}], over |-> {}, txn |-> EmptyStore]

Init ==
    /\ site \in [Key -> Page \cup {Absent}]
    /\ store = EmptyStore
    /\ run = NoRun
    /\ quiet = FALSE /\ changes = 0 /\ mishaps = 0

-----------------------------------------------------------------------------
(* The site, and what goes wrong.                                          *)

SiteChanges ==
    /\ changes < MaxChanges /\ changes' = changes + 1
    /\ \E k \in Key, p \in Page \cup {Absent} : p # site[k] /\ site' = [site EXCEPT ![k] = p]
    /\ quiet' = FALSE
    /\ run' = IF run.pc = "idle" THEN run
              ELSE [run EXCEPT !.calm = FALSE,
                               !.shown = [k \in Key |-> @[k] \cup {site'[k]}]]
    /\ UNCHANGED <<store, mishaps>>

Mishap == mishaps < MaxMishaps /\ mishaps' = mishaps + 1

(* The process dies, PostgreSQL is gone, or the session is broken by a     *)
(* failed flush: nothing of the run is left.                               *)
RunDies ==
    /\ run.pc # "idle" /\ Mishap
    /\ run' = NoRun
    /\ UNCHANGED <<site, store, quiet, changes>>

-----------------------------------------------------------------------------
(* The cycle up to discovery.                                              *)

(* sync_source once it holds the claim; `sources discover' and dry runs do *)
(* not download.                                                           *)
Start(limit, download) ==
    /\ run.pc = "idle"
    /\ run' = [NoRun EXCEPT !.pc = "gate", !.limit = limit, !.download = download,
                            !.calm = TRUE, !.shown = [k \in Key |-> {site[k]}],
                            !.txn = store]
    /\ UNCHANGED <<site, store, quiet, changes, mishaps>>

(* robots.txt of the source's own URL lets the crawler in, or does not.    *)
GatePass ==
    /\ run.pc = "gate"
    /\ run' = [run EXCEPT !.pc = "discover"]
    /\ UNCHANGED <<site, store, quiet, changes, mishaps>>

GateBlocked ==
    /\ run.pc = "gate" /\ Mishap
    /\ run' = [run EXCEPT !.pc = "finish", !.fatal = "blocked", !.errors = TRUE]
    /\ UNCHANGED <<site, store, quiet, changes>>

(* What a discovery of many requests sees: of each resource what the site  *)
(* showed at some moment since the run began.                              *)
Walks == {L \in [Key -> Page \cup {Absent}] : \A k \in Key : L[k] \in run.shown[k]}

(* The resources it lists: it may pass some over, where a connector skips  *)
(* a request that failed (sitemap, CKAN, the grids), or where the pages of *)
(* a listing shift under the walk.                                         *)
Listed(L, over) == {k \in Key : L[k] # Absent} \ over

PassOver(over) == IF over = {} THEN UNCHANGED mishaps ELSE Mishap

(* The items that are used: all that is listed, or as many as limit asks   *)
(* for; a limit of 0 cuts nothing off.                                     *)
Kept(limit, S) ==
    IF limit # NoLimit /\ limit > 0 /\ limit < Cardinality(S)
    THEN {T \in SUBSET S : Cardinality(T) = limit}
    ELSE {S}

(* What a discovered page does to its resource, to the journal, and        *)
(* whether it counts as a change.                                          *)
WrongFound(row, page) ==
    [row EXCEPT !.status = IF @ = "disappeared" THEN "reappeared" ELSE "active",
                !.url = page.url, !.meta = page.meta]

WrongFoundStale(row, page) == [row EXCEPT !.status = "active", !.url = page.url]

Found(row, page) == [row EXCEPT !.status = "active", !.url = page.url, !.meta = page.meta]

WrongNoted(log, row, page) ==
    [log EXCEPT !.life = IF row.status = "none" THEN "added" ELSE @,
                !.url = page.url, !.meta = page.meta]

Noted(log, row, page) ==
    [log EXCEPT !.life = CASE row.status = "none" -> "added"
                           [] row.status = "disappeared" -> "reappeared"
                           [] OTHER -> @,
                !.url = IF row.url # page.url THEN page.url ELSE @,
                !.meta = IF row.meta # page.meta THEN page.meta ELSE @]

WrongIsChange(row, page) == row.status = "none" \/ row.meta # page.meta

IsChange(row, page) == row.status # "active" \/ row.url # page.url \/ row.meta # page.meta

(* The transaction after the items of S have been entered.                 *)
Entered(txn, L, S) ==
    [txn EXCEPT !.res = [k \in Key |-> IF k \in S THEN Found(@[k], L[k]) ELSE @[k]],
                !.log = [k \in Key |-> IF k \in S THEN Noted(@[k], txn.res[k], L[k]) ELSE @[k]]]

Discover ==
    /\ run.pc = "discover"
    /\ \E L \in Walks, over \in SUBSET Key : \E S \in Kept(run.limit, Listed(L, over)) :
         /\ PassOver(over)
         /\ run' = [run EXCEPT
              !.pc = IF run.download THEN "fetch" ELSE "finish", !.seen = S, !.todo = S,
              !.changed = \E k \in S : IsChange(run.txn.res[k], L[k]),
              !.over = over, !.txn = Entered(@, L, S)]
    /\ UNCHANGED <<site, store, quiet, changes>>

(* connector.discover raises, perhaps after some items, of which none is   *)
(* used; or an item raises, and those before it stay entered.              *)
DiscoverFails ==
    /\ run.pc = "discover" /\ Mishap
    /\ \E L \in Walks : \E S \in SUBSET Listed(L, {}) :
         run' = [run EXCEPT !.pc = "finish", !.fatal = "failed", !.seen = S,
                            !.txn = Entered(@, L, S)]
    /\ UNCHANGED <<site, store, quiet, changes>>

-----------------------------------------------------------------------------
(* _fetch_one, on the items one after the other.                           *)

(* The server answers 304 to the validator of the last body it sent.       *)
Matches(k) ==
    LET etag == run.txn.res[k].etag IN
    site[k] # Absent /\ etag # Nothing /\ EtagOf[site[k].body] = etag

(* A 404, or a refusal by robots.txt, an error of the server or the net.   *)
FetchError(k) ==
    /\ run.pc = "fetch" /\ k \in run.todo
    /\ IF site[k] = Absent THEN UNCHANGED mishaps ELSE Mishap
    /\ run' = [run EXCEPT !.todo = @ \ {k}, !.errors = TRUE]
    /\ UNCHANGED <<site, store, quiet, changes>>

NotModified(k) ==
    /\ run.pc = "fetch" /\ k \in run.todo /\ Matches(k)
    /\ run' = [run EXCEPT !.todo = @ \ {k}]
    /\ UNCHANGED <<site, store, quiet, changes, mishaps>>

Downloaded(row, b) ==
    [row EXCEPT !.body = b, !.etag = IF EtagOf[b] # Nothing THEN EtagOf[b] ELSE @]

(* 200: stage_artifact skips bytes it has a row for, whatever became of    *)
(* their import, and otherwise stores, dispatches and marks them imported. *)
Download(k) ==
    /\ run.pc = "fetch" /\ k \in run.todo /\ site[k] # Absent /\ ~Matches(k)
    /\ LET b == site[k].body
           row == run.txn.res[k]
           txn == [run.txn EXCEPT
             !.artifact[b] = IF @ = "none" THEN "imported" ELSE @,
             !.res[k] = Downloaded(@, b),
             !.log[k].body = IF row.body # b THEN b ELSE @] IN
       run' = [run EXCEPT !.todo = @ \ {k}, !.downloaded = TRUE, !.txn = txn,
                          !.changed = @ \/ row.body \notin {Nothing, b}]
    /\ UNCHANGED <<site, store, quiet, changes, mishaps>>

WrongStageFails(k) ==
    /\ run.pc = "fetch" /\ k \in run.todo /\ site[k] # Absent /\ ~Matches(k)
    /\ run.txn.artifact[site[k].body] = "none" /\ Mishap
    /\ run' = [run EXCEPT !.todo = @ \ {k}, !.errors = TRUE,
                          !.txn.res[k] = Downloaded(@, site[k].body)]
    /\ UNCHANGED <<site, store, quiet, changes>>

WrongStageFailsEtag(k) ==
    /\ run.pc = "fetch" /\ k \in run.todo /\ site[k] # Absent /\ ~Matches(k)
    /\ run.txn.artifact[site[k].body] = "none" /\ Mishap
    /\ run' = [run EXCEPT !.todo = @ \ {k}, !.errors = TRUE,
                          !.txn.res[k].etag = EtagOf[site[k].body]]
    /\ UNCHANGED <<site, store, quiet, changes>>

(* Staging raises: before the artifact's row is flushed (the object store  *)
(* refuses it), or after, while a handler parses it; _fetch_one catches it *)
(* and the run goes on, with the row in its transaction.                   *)
StageFails(k) ==
    /\ run.pc = "fetch" /\ k \in run.todo /\ site[k] # Absent /\ ~Matches(k)
    /\ run.txn.artifact[site[k].body] = "none" /\ Mishap
    /\ \E left \in {"none", "downloaded"} :
         run' = [run EXCEPT !.todo = @ \ {k}, !.errors = TRUE,
                            !.txn.artifact[site[k].body] = left]
    /\ UNCHANGED <<site, store, quiet, changes>>

-----------------------------------------------------------------------------
(* The end of the cycle.                                                   *)

WrongFull == run.fatal = "no"

Full == run.limit = NoLimit /\ run.fatal = "no"

(* _mark_disappeared                                                       *)
Missing == {k \in Key : Full /\ run.txn.res[k].status = "active" /\ k \notin run.seen}

(* discovered_count is 0 unless discovery kept an item.                    *)
RunStatus ==
    CASE run.fatal = "failed" -> "failed"
      [] run.fatal # "failed" /\ run.errors /\ ~run.downloaded /\ run.seen = {} -> "failed"
      [] run.fatal # "failed" /\ run.errors /\ (run.downloaded \/ run.seen # {}) -> "partial"
      [] OTHER -> "succeeded"

FailsAfter == IF RunStatus # "failed" THEN 0
              ELSE IF run.txn.fails < FailCap THEN run.txn.fails + 1 ELSE FailCap

(* _health_after; review: a review task is pending on the source.          *)
HealthAfter(review) ==
    CASE run.fatal = "blocked" -> "blocked"
      [] run.fatal # "blocked" /\ RunStatus = "failed" ->
           IF FailsAfter >= 3 THEN "failing" ELSE "degraded"
      [] OTHER -> IF run.errors THEN "degraded"
                  ELSE IF review THEN "needs_review"
                  ELSE IF run.changed \/ Missing # {} THEN "changed" ELSE "unchanged"

(* _mark_disappeared, _finish and COMMIT.                                  *)
Commit ==
    /\ run.pc = "finish" \/ (run.pc = "fetch" /\ run.todo = {})
    /\ \E review \in BOOLEAN :
         store' = [run.txn EXCEPT
           !.res = [k \in Key |-> IF k \in Missing
                                  THEN [@[k] EXCEPT !.status = "disappeared"] ELSE @[k]],
           !.log = [k \in Key |-> IF k \in Missing
                                  THEN [@[k] EXCEPT !.life = "disappeared"] ELSE @[k]],
           !.fails = FailsAfter, !.health = HealthAfter(review)]
    /\ quiet' = (/\ run.over = {}
                 /\ IF Full /\ run.download /\ RunStatus = "succeeded" THEN run.calm ELSE quiet)
    /\ run' = NoRun
    /\ UNCHANGED <<site, changes, mishaps>>

-----------------------------------------------------------------------------
RunStep ==
    \/ GatePass \/ GateBlocked \/ Discover \/ DiscoverFails \/ Commit
    \/ \E k \in Key : FetchError(k) \/ NotModified(k) \/ Download(k) \/ StageFails(k)

Next ==
    \/ SiteChanges \/ RunDies \/ RunStep
    \/ \E limit \in Limit, download \in BOOLEAN : Start(limit, download)

Spec == Init /\ [][Next]_vars

(* A started run goes on.  The scheduler starts runs with no limit that    *)
(* download, again and again, whatever else operators start in between.    *)
Fairness == WF_vars(RunStep) /\ SF_vars(Start(NoLimit, TRUE))

FairSpec == Spec /\ Fairness

-----------------------------------------------------------------------------
(* Properties                                                              *)

(* Types of every variable.                                                *)
TypeOK ==
    /\ site \in [Key -> Page \cup {Absent}]
    /\ store \in Store /\ run \in Run
    /\ quiet \in BOOLEAN /\ changes \in 0 .. MaxChanges /\ mishaps \in 0 .. MaxMishaps

(* The journal of change events explains the inventory: what a reader of   *)
(* the events takes a resource to be is what its row says.                 *)
JournalExplains ==
    \A k \in Key :
      LET row == store.res[k]
          log == store.log[k] IN
      /\ row.status = "none" <=> log.life = "none"
      /\ row.status = "disappeared" <=> log.life = "disappeared"
      /\ row.url = log.url /\ row.meta = log.meta /\ row.body = log.body

(* A resource is marked disappeared only if the site did not show it at    *)
(* some moment of that run, or the discovery passed it over: never because *)
(* a run was limited, refused, or ended by an error.                       *)
DisappearsOnlyIfAbsent ==
    [][\A k \in Key : store.res[k].status = "active" /\ store'.res[k].status = "disappeared"
                        => Absent \in run.shown[k] \/ k \in run.over]_vars

(* "Resources not rediscovered on a *complete* run are marked disappeared":*)
(* those the site showed throughout the run are not.                       *)
DisappearsOnlyIfGone ==
    [][\A k \in Key : store.res[k].status = "active" /\ store'.res[k].status = "disappeared"
                        => Absent \in run.shown[k]]_vars

(* "`sources discover` never mutates": a run that does not download leaves *)
(* every row and every event as it was.                                    *)
DiscoverNeverMutates ==
    [][Commit /\ ~run.download => store'.res = store.res /\ store'.log = store.log]_vars

(* 304 is taken only for the bytes the inventory holds, unless these came  *)
(* without a validator: then the one that is sent is of earlier bytes, to  *)
(* which the site may have gone back.                                      *)
NotModifiedMeansHeld ==
    [][\A k \in Key : NotModified(k) =>
         LET held == run.txn.res[k].body IN
         held = site[k].body \/ (held \in Body /\ EtagOf[held] = Nothing)]_vars

(* Without the exception: a 304 tells that the inventory is up to date.    *)
NotModifiedMeansCurrent ==
    [][\A k \in Key : NotModified(k) => run.txn.res[k].body = site[k].body]_vars

(* Replay is idempotent: while the site stays as the last full run found   *)
(* it, a run of any kind without an error that passes nothing over finds   *)
(* no change and writes none.                                              *)
ReplayFindsNothing ==
    [][Commit /\ quiet /\ run.calm /\ ~run.errors /\ run.fatal = "no" /\ run.over = {}
         => store'.res = store.res /\ store'.log = store.log
            /\ store'.health # "changed"]_vars

(* Health says `changed' after a run exactly when it left a resource added,*)
(* gone, back, moved, described anew, or with other bytes than before.     *)
Differs(old, new) ==
    \/ old.status # new.status \/ old.url # new.url \/ old.meta # new.meta
    \/ old.body # Nothing /\ old.body # new.body

HealthTellsChange ==
    [][/\ Commit /\ store'.health = "changed"
            => \E k \in Key : Differs(store.res[k], store'.res[k])
       /\ Commit /\ store'.health = "unchanged"
            => \A k \in Key : ~Differs(store.res[k], store'.res[k])]_vars

(* The inventory of the committed tables is a ResourceInventory.           *)
Inventory == INSTANCE ResourceInventory WITH
    NoBody <- Nothing,
    status <- [k \in Key |-> store.res[k].status],
    content <- [k \in Key |-> store.res[k].body],
    evidence <- {b \in Body : store.artifact[b] # "none"}

IsInventory == Inventory!Spec

(* Once the site stops changing and nothing more goes wrong, the inventory *)
(* becomes what the site shows and stays so.                               *)
InSync ==
    \A k \in Key :
      LET row == store.res[k] IN
      IF site[k] = Absent THEN row.status # "active"
      ELSE row.status = "active" /\ [url |-> row.url, meta |-> row.meta, body |-> row.body] = site[k]

Converges == <>[]InSync

(* "resumable -- a failed run can be retried; completed stages are         *)
(* skipped": what a resource is recorded to contain has been imported.     *)
RecordedIsImported ==
    \A k \in Key : LET b == store.res[k].body IN b # Nothing => store.artifact[b] = "imported"
=============================================================================
