--------------------------- MODULE SourceCrawlProofs ---------------------------
(***************************************************************************)
(* Proofs about SourceCrawl, for any resources, pages, limits and bounds:  *)
(* the journal explains the inventory, nothing disappears for want of      *)
(* looking, the committed tables are a ResourceInventory, a 304 is taken   *)
(* for bytes that are held, health tells whether rows changed, and a run   *)
(* over a site that stands finds nothing.                                  *)
(***************************************************************************)
EXTENDS SourceCrawl, TLAPS

(* The rows and the events of a store tell the same.                       *)
Explained(s) ==
    \A k \in Key :
      /\ s.res[k].status = "none" <=> s.log[k].life = "none"
      /\ s.res[k].status = "disappeared" <=> s.log[k].life = "disappeared"
      /\ s.res[k].url = s.log[k].url /\ s.res[k].meta = s.log[k].meta
      /\ s.res[k].body = s.log[k].body

(* What a resource is said to contain has an artifact.                     *)
Held(s) == \A k \in Key : s.res[k].body # Nothing => s.artifact[s.res[k].body] # "none"

Journaled == TypeOK /\ Explained(store) /\ Explained(run.txn) /\ Held(store) /\ Held(run.txn)

(* A run has touched the resources it has seen, and has lost nothing.      *)
TouchesSeen ==
    run.pc # "idle" =>
      /\ \A k \in Key : k \notin run.seen => run.txn.res[k] = store.res[k]
      /\ \A k \in run.seen :
           /\ run.txn.res[k].status = "active"
           /\ store.res[k].body # Nothing => run.txn.res[k].body # Nothing
      /\ \A b \in Body : store.artifact[b] # "none" => run.txn.artifact[b] # "none"
      /\ run.todo \subseteq run.seen
      /\ run.pc \in {"gate", "discover"} => run.seen = {} /\ run.fatal = "no"

(* What the site shows is among what it has shown since the run began, and *)
(* nothing else is while it stands; what a run that may mark resources     *)
(* disappeared has not seen was absent at some moment, or passed over.     *)
Shown ==
    run.pc # "idle" =>
      /\ \A k \in Key : site[k] \in run.shown[k]
      /\ run.calm => \A k \in Key : run.shown[k] = {site[k]}
      /\ run.pc \in {"fetch", "finish"} /\ Full
           => \A k \in Key \ run.seen : Absent \in run.shown[k] \/ k \in run.over

Observed == Journaled /\ TouchesSeen /\ Shown

-----------------------------------------------------------------------------
(* Types.                                                                  *)

LEMMA EmptyTypes ==
  /\ EmptyStore \in Store /\ NoRun \in Run
  /\ Explained(EmptyStore) /\ Held(EmptyStore)
  <1>1. NoResource \in Resource /\ NoJournal \in Journal
    BY DEF NoResource, Resource, NoJournal, Journal
  <1>2. EmptyStore \in Store
    BY <1>1, BoundAssumption DEF EmptyStore, Store, Health
  <1>3. NoRun \in Run
    BY <1>2 DEF NoRun, Run
  <1>4. Explained(EmptyStore) /\ Held(EmptyStore)
    BY DEF Explained, Held, EmptyStore, NoResource, NoJournal
  <1> QED
    BY <1>2, <1>3, <1>4

LEMMA ObservedInit == Init => Observed
  <1> SUFFICES ASSUME Init PROVE Observed
    OBVIOUS
  <1>1. TypeOK
    <2>1. 0 \in 0 .. MaxChanges /\ 0 \in 0 .. MaxMishaps
      BY BoundAssumption
    <2> QED
      BY <2>1, EmptyTypes DEF Init, TypeOK
  <1>2. run.txn = EmptyStore /\ run.pc = "idle"
    BY DEF Init, NoRun
  <1>3. Journaled
    BY <1>1, <1>2, EmptyTypes DEF Journaled, Init
  <1> QED
    BY <1>2, <1>3 DEF Observed, TouchesSeen, Shown

(* The fields of a run that take part in the invariant.                    *)
LEMMA RunFields ==
  ASSUME TypeOK
  PROVE  /\ run.txn \in Store /\ run.seen \subseteq Key /\ run.todo \subseteq Key
         /\ run.shown \in [Key -> SUBSET (Page \cup {Absent})]
  BY DEF TypeOK, Run

LEMMA PageFields ==
  ASSUME TypeOK, NEW k \in Key, site[k] # Absent
  PROVE  site[k] \in Page /\ site[k].url \in Url /\ site[k].meta \in Meta /\ site[k].body \in Body
  BY PageAssumption DEF TypeOK

(* A step that leaves the tables alone, its own and the committed ones.    *)
LEMMA KeepsTables ==
  ASSUME Journaled, run' \in Run, run'.txn = run.txn, UNCHANGED <<store, site>>,
         quiet' \in BOOLEAN, changes' \in 0 .. MaxChanges, mishaps' \in 0 .. MaxMishaps
  PROVE  Journaled'
  BY DEF Journaled, TypeOK, Explained, Held

LEMMA MishapType ==
  ASSUME TypeOK, Mishap PROVE mishaps' \in 0 .. MaxMishaps
  BY BoundAssumption DEF TypeOK, Mishap

-----------------------------------------------------------------------------
(* The steps of a run that change no table.                                *)

LEMMA GateObserved ==
  ASSUME Observed, GatePass \/ GateBlocked
  PROVE  Observed'
  <1> USE DEF Observed
  <1>1. run'.txn = run.txn /\ UNCHANGED <<site, store>> /\ run.pc = "gate" /\ run' \in Run
        /\ run'.seen = run.seen /\ run'.todo = run.todo /\ run'.shown = run.shown
        /\ run'.limit = run.limit /\ run'.calm = run.calm
        /\ \/ run'.pc = "discover" /\ run'.fatal = run.fatal
           \/ run'.pc = "finish" /\ run'.fatal = "blocked"
    <2>1. run \in Run /\ UNCHANGED <<site, store>> /\ run.pc = "gate"
      BY DEF GatePass, GateBlocked, Journaled, TypeOK
    <2>2. CASE run' = [run EXCEPT !.pc = "discover"]
      BY <2>1, <2>2 DEF Run
    <2>3. CASE run' = [run EXCEPT !.pc = "finish", !.fatal = "blocked", !.errors = TRUE]
      BY <2>1, <2>3 DEF Run
    <2> QED
      BY <2>2, <2>3 DEF GatePass, GateBlocked
  <1>2. mishaps' \in 0 .. MaxMishaps
    BY MishapType DEF GatePass, GateBlocked, Journaled, TypeOK
  <1>3. Journaled'
    BY <1>1, <1>2, KeepsTables DEF GatePass, GateBlocked, Journaled, TypeOK
  <1>4. TouchesSeen'
    BY <1>1 DEF TouchesSeen
  <1>5. Shown'
    BY <1>1 DEF Shown, Full
  <1> QED
    BY <1>3, <1>4, <1>5

LEMMA SkipObserved ==
  ASSUME Observed, NEW k \in Key, FetchError(k) \/ NotModified(k)
  PROVE  Observed'
  <1> USE DEF Observed
  <1>1. run'.txn = run.txn /\ UNCHANGED <<site, store>> /\ run.pc = "fetch" /\ run' \in Run
        /\ run'.seen = run.seen /\ run'.todo \subseteq run.todo /\ run'.shown = run.shown
        /\ run'.pc = "fetch" /\ run'.fatal = run.fatal /\ run'.limit = run.limit
        /\ run'.calm = run.calm /\ run'.over = run.over
    <2>1. run \in Run /\ UNCHANGED <<site, store>> /\ run.pc = "fetch"
      BY DEF FetchError, NotModified, Journaled, TypeOK
    <2>2. CASE run' = [run EXCEPT !.todo = @ \ {k}]
      BY <2>1, <2>2 DEF Run
    <2>3. CASE run' = [run EXCEPT !.todo = @ \ {k}, !.errors = TRUE]
      BY <2>1, <2>3 DEF Run
    <2> QED
      BY <2>2, <2>3 DEF FetchError, NotModified
  <1>2. mishaps' \in 0 .. MaxMishaps
    BY MishapType DEF FetchError, NotModified, Journaled, TypeOK
  <1>3. Journaled'
    BY <1>1, <1>2, KeepsTables DEF FetchError, NotModified, Journaled, TypeOK
  <1>4. TouchesSeen'
    BY <1>1 DEF TouchesSeen
  <1>5. Shown'
    BY <1>1 DEF Shown, Full
  <1> QED
    BY <1>3, <1>4, <1>5

LEMMA SiteChangesObserved ==
  ASSUME Observed, SiteChanges
  PROVE  Observed'
  <1> USE DEF Observed
  <1>1. site' \in [Key -> Page \cup {Absent}]
    BY DEF SiteChanges, Journaled, TypeOK
  <1> DEFINE shown == [k \in Key |-> run.shown[k] \cup {site'[k]}]
  <1>2. shown \in [Key -> SUBSET (Page \cup {Absent})]
    BY <1>1, RunFields DEF Journaled
  <1> HIDE DEF shown
  <1>3. run' \in Run /\ run'.txn = run.txn /\ run'.pc = run.pc /\ run'.seen = run.seen
        /\ run'.todo = run.todo /\ run'.fatal = run.fatal /\ run'.limit = run.limit
        /\ run'.over = run.over /\ (run.pc # "idle" => ~run'.calm /\ run'.shown = shown)
    <2>1. CASE run.pc = "idle"
      BY <2>1 DEF SiteChanges, Journaled, TypeOK
    <2>2. CASE run.pc # "idle"
      <3>1. run' = [run EXCEPT !.calm = FALSE, !.shown = shown]
        BY <2>2 DEF SiteChanges, shown
      <3> QED
        BY <1>2, <2>2, <3>1 DEF Journaled, TypeOK, Run
    <2> QED
      BY <2>1, <2>2
  <1>4. Journaled'
    <2>1. changes' \in 0 .. MaxChanges
      BY BoundAssumption DEF SiteChanges, Journaled, TypeOK
    <2>2. TypeOK'
      BY <1>1, <1>3, <2>1 DEF SiteChanges, Journaled, TypeOK
    <2>3. Explained(store)' /\ Explained(run.txn)'
      BY <1>3 DEF SiteChanges, Journaled, Explained
    <2>4. Held(store)' /\ Held(run.txn)'
      BY <1>3 DEF SiteChanges, Journaled, Held
    <2> QED
      BY <2>2, <2>3, <2>4 DEF Journaled
  <1>5. TouchesSeen'
    BY <1>3 DEF TouchesSeen, SiteChanges
  <1>6. Shown'
    BY <1>3 DEF Shown, Full, shown
  <1> QED
    BY <1>4, <1>5, <1>6

LEMMA StartObserved ==
  ASSUME Observed, NEW limit \in Limit, NEW download \in BOOLEAN, Start(limit, download)
  PROVE  Observed'
  <1> USE DEF Observed
  <1>1. run'.txn = store /\ UNCHANGED <<site, store>> /\ run'.pc = "gate"
        /\ run'.seen = {} /\ run'.todo = {} /\ run'.shown = [k \in Key |-> {site[k]}]
        /\ run'.fatal = "no"
    BY DEF Start, NoRun
  <1>2. run' \in Run
    <2> DEFINE shown == [k \in Key |-> {site[k]}]
    <2>1. NoRun \in Run /\ store \in Store /\ shown \in [Key -> SUBSET (Page \cup {Absent})]
      BY EmptyTypes DEF Journaled, TypeOK
    <2>2. run' = [NoRun EXCEPT !.pc = "gate", !.limit = limit, !.download = download,
                               !.calm = TRUE, !.shown = shown, !.txn = store]
      BY DEF Start
    <2> HIDE DEF shown
    <2> QED
      BY <2>1, <2>2 DEF Run
  <1>3. Journaled'
    <2>1. TypeOK'
      BY <1>1, <1>2 DEF Start, Journaled, TypeOK
    <2>2. Explained(store)' /\ Explained(run.txn)'
      BY <1>1 DEF Journaled, Explained
    <2>3. Held(store)' /\ Held(run.txn)'
      BY <1>1 DEF Journaled, Held
    <2> QED
      BY <2>1, <2>2, <2>3 DEF Journaled
  <1>4. TouchesSeen'
    BY <1>1 DEF TouchesSeen
  <1>5. Shown'
    BY <1>1 DEF Shown
  <1> QED
    BY <1>3, <1>4, <1>5

LEMMA RunDiesObserved ==
  ASSUME Observed, RunDies
  PROVE  Observed'
  <1> USE DEF Observed
  <1>1. run' = NoRun /\ run'.txn = EmptyStore /\ run'.pc = "idle" /\ UNCHANGED <<site, store, quiet, changes>>
    BY DEF RunDies, NoRun
  <1>2. Journaled'
    <2>1. TypeOK'
      BY <1>1, EmptyTypes, MishapType DEF RunDies, Journaled, TypeOK
    <2>2. Explained(store)' /\ Explained(run.txn)'
      BY <1>1, EmptyTypes DEF Journaled, Explained
    <2>3. Held(store)' /\ Held(run.txn)'
      BY <1>1, EmptyTypes DEF Journaled, Held
    <2> QED
      BY <2>1, <2>2, <2>3 DEF Journaled
  <1> QED
    BY <1>1, <1>2 DEF TouchesSeen, Shown

-----------------------------------------------------------------------------
(* The steps of a run that change its tables.                              *)

LEMMA FoundAndNoted ==
  ASSUME TypeOK, NEW row \in Resource, NEW log \in Journal, NEW page \in Page
  PROVE  Found(row, page) \in Resource /\ Noted(log, row, page) \in Journal
  <1>1. page.url \in Url /\ page.meta \in Meta
    BY PageAssumption
  <1>2. Found(row, page) \in Resource
    BY <1>1 DEF Found, Resource
  <1> DEFINE life == CASE row.status = "none" -> "added"
                       [] row.status = "disappeared" -> "reappeared"
                       [] OTHER -> log.life
             url == IF row.url # page.url THEN page.url ELSE log.url
             meta == IF row.meta # page.meta THEN page.meta ELSE log.meta
  <1>3. life \in {"none", "added", "disappeared", "reappeared"}
    BY DEF Journal, Resource
  <1>4. url \in Url \cup {Nothing} /\ meta \in Meta \cup {Nothing}
    BY <1>1 DEF Journal
  <1>5. Noted(log, row, page) = [log EXCEPT !.life = life, !.url = url, !.meta = meta]
    BY DEF Noted, Journal
  <1> HIDE DEF life, url, meta
  <1>6. Noted(log, row, page) \in Journal
    BY <1>3, <1>4, <1>5 DEF Journal
  <1> QED
    BY <1>2, <1>6

(* A page that is found leaves row and events of one mind.                 *)
LEMMA NotedExplains ==
  ASSUME TypeOK, NEW row \in Resource, NEW log \in Journal, NEW page \in Page,
         row.status = "none" <=> log.life = "none",
         row.status = "disappeared" <=> log.life = "disappeared",
         row.url = log.url, row.meta = log.meta, row.body = log.body
  PROVE  LET r == Found(row, page)
             l == Noted(log, row, page)
         IN  /\ r.status = "active" /\ l.life \notin {"none", "disappeared"}
             /\ r.url = l.url /\ r.meta = l.meta /\ r.body = l.body /\ r.body = row.body
  <1>1. /\ Found(row, page).status = "active" /\ Found(row, page).url = page.url
        /\ Found(row, page).meta = page.meta /\ Found(row, page).body = row.body
    BY DEF Found, Resource
  <1>2. /\ Noted(log, row, page).url = page.url /\ Noted(log, row, page).meta = page.meta
        /\ Noted(log, row, page).body = log.body
    BY DEF Noted, Journal
  <1>3. Noted(log, row, page).life \notin {"none", "disappeared"}
    BY DEF Noted, Journal, Resource
  <1> QED
    BY <1>1, <1>2, <1>3

(* The transaction after some listed items have been entered.              *)
LEMMA EnteredRows ==
  ASSUME TypeOK, NEW t \in Store, NEW L \in Walks, NEW S \in SUBSET Listed(L, {})
  PROVE  /\ S \subseteq Key /\ \A k \in S : L[k] \in Page
         /\ Entered(t, L, S) \in Store /\ Entered(t, L, S).artifact = t.artifact
         /\ \A k \in Key :
              /\ Entered(t, L, S).res[k] = IF k \in S THEN Found(t.res[k], L[k]) ELSE t.res[k]
              /\ Entered(t, L, S).log[k] = IF k \in S THEN Noted(t.log[k], t.res[k], L[k])
                                                      ELSE t.log[k]
              /\ Entered(t, L, S).res[k].body = t.res[k].body
              /\ Entered(t, L, S).res[k].etag = t.res[k].etag
         /\ \A k \in S : Entered(t, L, S).res[k].status = "active"
  <1> DEFINE res == [k \in Key |-> IF k \in S THEN Found(t.res[k], L[k]) ELSE t.res[k]]
             log == [k \in Key |-> IF k \in S THEN Noted(t.log[k], t.res[k], L[k]) ELSE t.log[k]]
             e == Entered(t, L, S)
  <1>1. S \subseteq Key
    BY DEF Listed
  <1>2. \A k \in S : L[k] \in Page
    <2> TAKE k \in S
    <2>1. k \in Key /\ L[k] # Absent /\ L[k] \in run.shown[k]
      BY DEF Listed, Walks
    <2> QED
      BY <2>1, RunFields
  <1>3. DOMAIN t = {"res", "log", "artifact", "fails", "health"} /\ t.res \in [Key -> Resource]
        /\ t.log \in [Key -> Journal]
    BY DEF Store
  <1>4. e = [t EXCEPT !.res = res, !.log = log]
    BY <1>3 DEF Entered
  <1>5. res \in [Key -> Resource] /\ log \in [Key -> Journal]
    BY <1>1, <1>2, <1>3, FoundAndNoted
  <1> HIDE DEF e
  <1>6. e \in Store /\ e.res = res /\ e.log = log /\ e.artifact = t.artifact
    <2> HIDE DEF res, log
    <2> QED
      BY <1>4, <1>5 DEF Store
  <1>7. \A k \in Key : /\ e.res[k] = IF k \in S THEN Found(t.res[k], L[k]) ELSE t.res[k]
                       /\ e.log[k] = IF k \in S THEN Noted(t.log[k], t.res[k], L[k]) ELSE t.log[k]
    BY <1>6
  <1>8. \A k \in Key : /\ e.res[k].body = t.res[k].body /\ e.res[k].etag = t.res[k].etag
                       /\ k \in S => e.res[k].status = "active"
    <2> HIDE DEF res, log
    <2> TAKE k \in Key
    <2>1. t.res[k] \in Resource
      BY <1>3
    <2>2. /\ Found(t.res[k], L[k]).body = t.res[k].body /\ Found(t.res[k], L[k]).etag = t.res[k].etag
          /\ Found(t.res[k], L[k]).status = "active"
      BY <2>1 DEF Found, Resource
    <2> QED
      BY <1>7, <2>2
  <1> QED
    BY <1>1, <1>2, <1>6, <1>7, <1>8 DEF e

LEMMA EnteredJournaled ==
  ASSUME TypeOK, NEW t \in Store, NEW L \in Walks, NEW S \in SUBSET Listed(L, {}),
         Explained(t), Held(t)
  PROVE  Explained(Entered(t, L, S)) /\ Held(Entered(t, L, S))
  <1> DEFINE e == Entered(t, L, S)
  <1>1. /\ S \subseteq Key /\ \A k \in S : L[k] \in Page
        /\ e.artifact = t.artifact
        /\ \A k \in Key :
             /\ e.res[k] = IF k \in S THEN Found(t.res[k], L[k]) ELSE t.res[k]
             /\ e.log[k] = IF k \in S THEN Noted(t.log[k], t.res[k], L[k]) ELSE t.log[k]
             /\ e.res[k].body = t.res[k].body
    BY EnteredRows
  <1> HIDE DEF e
  <1>2. Explained(e)
    <2> USE DEF Explained
    <2> TAKE k \in Key
    <2>1. t.res[k] \in Resource /\ t.log[k] \in Journal
      BY DEF Store
    <2>2. CASE k \in S
      <3>1. e.res[k] = Found(t.res[k], L[k]) /\ e.log[k] = Noted(t.log[k], t.res[k], L[k])
        BY <1>1, <2>2
      <3> QED
        BY <1>1, <2>1, <2>2, <3>1, NotedExplains
    <2>3. CASE k \notin S
      BY <1>1, <2>3
    <2> QED
      BY <2>2, <2>3
  <1>3. Held(e)
    BY <1>1 DEF Held
  <1> QED
    BY <1>2, <1>3 DEF e

(* A discovery enters items it lists, all of them when the run is full; one*)
(* that fails may have entered some.                                       *)
LEMMA DiscoverySteps ==
  ASSUME Observed, Discover \/ DiscoverFails
  PROVE  /\ run.pc = "discover" /\ UNCHANGED <<site, store, quiet, changes>>
         /\ mishaps' \in 0 .. MaxMishaps
         /\ \E L \in Walks : \E S \in SUBSET Listed(L, {}) :
              /\ run' \in Run /\ run'.txn = Entered(run.txn, L, S) /\ run'.seen = S
              /\ run'.limit = run.limit /\ run'.calm = run.calm /\ run'.shown = run.shown
              /\ \/ run'.pc = "finish" /\ run'.fatal = "failed" /\ run'.todo = run.todo
                    /\ run'.over = run.over /\ run'.changed = run.changed
                 \/ /\ Discover /\ run'.pc \in {"fetch", "finish"} /\ run'.todo = S
                    /\ run'.fatal = run.fatal /\ run'.errors = run.errors
                    /\ run'.download = run.download
                    /\ run'.pc = (IF run.download THEN "fetch" ELSE "finish")
                    /\ run'.changed = (\E k \in S : IsChange(run.txn.res[k], L[k]))
                    /\ run'.over \subseteq Key /\ (run.limit = NoLimit => S = Listed(L, run'.over))
  <1>1. run \in Run /\ run.txn \in Store /\ TypeOK
    BY RunFields DEF Observed, Journaled, TypeOK
  <1>2. DOMAIN run = {"pc", "limit", "download", "seen", "todo", "fatal", "errors", "downloaded",
                      "changed", "calm", "shown", "over", "txn"}
    BY <1>1 DEF Run
  <1>3. CASE Discover
    <2>1. PICK L \in Walks, over \in SUBSET Key : \E S \in Kept(run.limit, Listed(L, over)) :
            /\ PassOver(over)
            /\ run' = [run EXCEPT
                 !.pc = IF run.download THEN "fetch" ELSE "finish", !.seen = S, !.todo = S,
                 !.changed = \E k \in S : IsChange(run.txn.res[k], L[k]),
                 !.over = over, !.txn = Entered(@, L, S)]
      BY <1>3 DEF Discover
    <2>2. PICK S \in Kept(run.limit, Listed(L, over)) :
            /\ PassOver(over)
            /\ run' = [run EXCEPT
                 !.pc = IF run.download THEN "fetch" ELSE "finish", !.seen = S, !.todo = S,
                 !.changed = \E k \in S : IsChange(run.txn.res[k], L[k]),
                 !.over = over, !.txn = Entered(@, L, S)]
      BY <2>1
    <2>3. S \in SUBSET Listed(L, over) /\ (run.limit = NoLimit => S = Listed(L, over))
      BY DEF Kept
    <2>4. S \in SUBSET Listed(L, {}) /\ S \subseteq Key
      BY <2>3 DEF Listed
    <2> DEFINE txn == Entered(run.txn, L, S)
               changed == \E k \in S : IsChange(run.txn.res[k], L[k])
               pc == IF run.download THEN "fetch" ELSE "finish"
    <2>5. txn \in Store
      BY <1>1, <2>4, EnteredRows
    <2>6. changed \in BOOLEAN /\ pc \in {"fetch", "finish"}
      OBVIOUS
    <2>7. run' = [run EXCEPT !.pc = pc, !.seen = S, !.todo = S, !.changed = changed,
                             !.over = over, !.txn = txn]
      BY <1>2, <2>2
    <2> HIDE DEF txn, changed, pc
    <2>8. /\ run'.pc = pc /\ run'.seen = S /\ run'.todo = S /\ run'.changed = changed
          /\ run'.over = over /\ run'.txn = txn /\ run'.limit = run.limit /\ run'.calm = run.calm
          /\ run'.shown = run.shown /\ run'.fatal = run.fatal /\ run'.errors = run.errors
          /\ run'.download = run.download
      BY <1>2, <2>7
    <2>9. run' \in Run
      BY <1>1, <2>4, <2>5, <2>6, <2>7 DEF Run
    <2>10. mishaps' \in 0 .. MaxMishaps
      BY <1>1, <2>2, MishapType DEF PassOver, TypeOK
    <2>11. run.pc = "discover" /\ UNCHANGED <<site, store, quiet, changes>>
      BY <1>3 DEF Discover
    <2> QED
      BY <1>3, <2>3, <2>4, <2>6, <2>8, <2>9, <2>10, <2>11 DEF txn, changed, pc
  <1>4. CASE DiscoverFails
    <2>1. PICK L \in Walks : \E S \in SUBSET Listed(L, {}) :
            run' = [run EXCEPT !.pc = "finish", !.fatal = "failed", !.seen = S,
                               !.txn = Entered(@, L, S)]
      BY <1>4 DEF DiscoverFails
    <2>2. PICK S \in SUBSET Listed(L, {}) :
            run' = [run EXCEPT !.pc = "finish", !.fatal = "failed", !.seen = S,
                               !.txn = Entered(@, L, S)]
      BY <2>1
    <2> DEFINE txn == Entered(run.txn, L, S)
    <2>3. S \subseteq Key /\ txn \in Store
      BY <1>1, EnteredRows
    <2>4. run' = [run EXCEPT !.pc = "finish", !.fatal = "failed", !.seen = S, !.txn = txn]
      BY <1>2, <2>2
    <2> HIDE DEF txn
    <2>5. /\ run'.pc = "finish" /\ run'.fatal = "failed" /\ run'.seen = S /\ run'.txn = txn
          /\ run'.todo = run.todo /\ run'.over = run.over /\ run'.changed = run.changed
          /\ run'.limit = run.limit /\ run'.calm = run.calm /\ run'.shown = run.shown
      BY <1>2, <2>4
    <2>6. run' \in Run
      BY <1>1, <2>3, <2>4 DEF Run
    <2>7. run.pc = "discover" /\ UNCHANGED <<site, store, quiet, changes>>
      BY <1>4 DEF DiscoverFails
    <2>8. mishaps' \in 0 .. MaxMishaps
      BY <1>1, <1>4, MishapType DEF DiscoverFails
    <2> QED
      BY <2>5, <2>6, <2>7, <2>8 DEF txn
  <1> QED
    BY <1>3, <1>4

LEMMA DiscoverObserved ==
  ASSUME Observed, Discover \/ DiscoverFails
  PROVE  Observed'
  <1> USE DEF Observed
  <1>1. /\ run.pc = "discover" /\ UNCHANGED <<site, store, quiet, changes>>
        /\ mishaps' \in 0 .. MaxMishaps
    BY DiscoverySteps
  <1>2. PICK L \in Walks : \E S \in SUBSET Listed(L, {}) :
          /\ run' \in Run /\ run'.txn = Entered(run.txn, L, S) /\ run'.seen = S
          /\ run'.limit = run.limit /\ run'.calm = run.calm /\ run'.shown = run.shown
          /\ \/ run'.pc = "finish" /\ run'.fatal = "failed" /\ run'.todo = run.todo
             \/ /\ run'.pc \in {"fetch", "finish"} /\ run'.todo = S
                /\ (run.limit = NoLimit => S = Listed(L, run'.over))
    BY DiscoverySteps
  <1>3. PICK S \in SUBSET Listed(L, {}) :
          /\ run' \in Run /\ run'.txn = Entered(run.txn, L, S) /\ run'.seen = S
          /\ run'.limit = run.limit /\ run'.calm = run.calm /\ run'.shown = run.shown
          /\ \/ run'.pc = "finish" /\ run'.fatal = "failed" /\ run'.todo = run.todo
             \/ /\ run'.pc \in {"fetch", "finish"} /\ run'.todo = S
                /\ (run.limit = NoLimit => S = Listed(L, run'.over))
    BY <1>2
  <1> DEFINE t == run.txn
             e == run'.txn
  <1>4. TypeOK /\ t \in Store /\ run \in Run
    BY RunFields DEF Journaled, TypeOK
  <1>5. /\ S \subseteq Key /\ e.artifact = t.artifact /\ e \in Store
        /\ \A k \in Key : /\ k \notin S => e.res[k] = t.res[k]
                          /\ e.res[k].body = t.res[k].body
        /\ \A k \in S : e.res[k].status = "active"
    BY <1>3, <1>4, EnteredRows
  <1>6. Explained(e) /\ Held(e)
    BY <1>3, <1>4, EnteredJournaled DEF Journaled
  <1> HIDE DEF e
  <1>7. Journaled'
    <2>1. TypeOK'
      BY <1>1, <1>3, <1>4 DEF TypeOK
    <2>2. Explained(store)' /\ Held(store)'
      BY <1>1 DEF Journaled, Explained, Held
    <2>3. Explained(run.txn)' /\ Held(run.txn)'
      BY <1>6 DEF e, Explained, Held
    <2> QED
      BY <2>1, <2>2, <2>3 DEF Journaled
  <1>8. TouchesSeen'
    <2>1. run.seen = {} /\ run.todo = {}
      BY <1>1 DEF TouchesSeen
    <2>2. /\ \A k \in Key : k \notin S => e.res[k] = store.res[k]
          /\ \A k \in S : store.res[k].body # Nothing => e.res[k].body # Nothing
          /\ \A b \in Body : store.artifact[b] # "none" => e.artifact[b] # "none"
      BY <1>1, <1>5, <2>1 DEF TouchesSeen
    <2> QED
      BY <1>1, <1>3, <1>5, <2>1, <2>2 DEF TouchesSeen, e
  <1>9. Shown'
    <2>1. ASSUME Full', NEW k \in Key \ S
          PROVE  Absent \in run'.shown[k] \/ k \in run'.over
      <3>1. S = Listed(L, run'.over)
        BY <1>3, <2>1 DEF Full
      <3>2. L[k] = Absent \/ k \in run'.over
        BY <2>1, <3>1 DEF Listed
      <3> QED
        BY <1>3, <2>1, <3>2 DEF Walks
    <2> QED
      BY <1>1, <1>3, <2>1 DEF Shown
  <1> QED
    BY <1>7, <1>8, <1>9

LEMMA DownloadObserved ==
  ASSUME Observed, NEW k \in Key, Download(k)
  PROVE  Observed'
  <1> USE DEF Observed
  <1> DEFINE t == run.txn
             b == site[k].body
             row == Downloaded(t.res[k], b)
             res == [t.res EXCEPT ![k] = row]
             note == [t.log[k] EXCEPT !.body = IF t.res[k].body # b THEN b ELSE @]
             log == [t.log EXCEPT ![k] = note]
             artifact == [t.artifact EXCEPT ![b] = IF @ = "none" THEN "imported" ELSE @]
             txn == [t EXCEPT !.artifact = artifact, !.res = res, !.log = log]
             changed == run.changed \/ t.res[k].body \notin {Nothing, b}
  <1>1. TypeOK /\ t \in Store /\ run \in Run /\ run.pc = "fetch" /\ k \in run.todo
        /\ site[k] # Absent /\ UNCHANGED <<site, store, quiet, changes, mishaps>>
    BY RunFields DEF Journaled, TypeOK, Download
  <1>2. b \in Body
    BY <1>1, PageFields
  <1>3. row \in Resource /\ row.body = b /\ row.status = t.res[k].status /\ row.url = t.res[k].url
        /\ row.meta = t.res[k].meta
    <2>1. t.res[k] \in Resource
      BY <1>1 DEF Store
    <2>2. EtagOf[b] \in {EtagOf[c] : c \in Body}
      BY <1>2
    <2> DEFINE etag == IF EtagOf[b] # Nothing THEN EtagOf[b] ELSE t.res[k].etag
    <2>3. etag \in {EtagOf[c] : c \in Body} \cup {Nothing}
      BY <2>1, <2>2 DEF Resource
    <2>4. row = [t.res[k] EXCEPT !.body = b, !.etag = etag]
      BY <2>1 DEF Downloaded, Resource
    <2> HIDE DEF etag, row
    <2> QED
      BY <1>2, <2>1, <2>3, <2>4 DEF Resource
  <1>4. t.log[k] \in Journal /\ t.res[k] \in Resource
    BY <1>1 DEF Store
  <1>5. note \in Journal /\ note.life = t.log[k].life /\ note.url = t.log[k].url
        /\ note.meta = t.log[k].meta /\ note.body = b
    BY <1>2, <1>4 DEF Journal, Journaled, Explained
  <1> HIDE DEF row, note
  <1>6. artifact \in [Body -> {"none", "downloaded", "imported"}] /\ artifact[b] # "none"
        /\ \A c \in Body : t.artifact[c] # "none" => artifact[c] # "none"
    BY <1>1, <1>2 DEF Store
  <1>7. res \in [Key -> Resource] /\ log \in [Key -> Journal]
    BY <1>1, <1>3, <1>5 DEF Store
  <1>8. txn \in Store /\ txn.res = res /\ txn.log = log /\ txn.artifact = artifact
    BY <1>1, <1>6, <1>7 DEF Store
  <1>9. run' = [run EXCEPT !.todo = run.todo \ {k}, !.downloaded = TRUE, !.changed = changed, !.txn = txn]
    <2> DEFINE real == [t EXCEPT !.artifact[b] = IF @ = "none" THEN "imported" ELSE @,
                                 !.res[k] = Downloaded(@, b),
                                 !.log[k].body = IF t.res[k].body # b THEN b ELSE @]
    <2>1. run' = [run EXCEPT !.todo = @ \ {k}, !.downloaded = TRUE, !.txn = real,
                             !.changed = @ \/ t.res[k].body \notin {Nothing, b}]
      BY DEF Download
    <2>2. DOMAIN t = {"res", "log", "artifact", "fails", "health"} /\ DOMAIN t.res = Key
          /\ DOMAIN t.log = Key /\ DOMAIN t.artifact = Body
      BY <1>1 DEF Store
    <2>3. real = txn
      BY <2>2 DEF row, note
    <2> HIDE DEF real, txn
    <2> QED
      BY <2>1, <2>3
  <1> changed \in BOOLEAN
    BY <1>1 DEF Run
  <1>10. res[k] = row /\ log[k] = note /\ \A j \in Key : j # k => res[j] = t.res[j] /\ log[j] = t.log[j]
    BY <1>1 DEF Store
  <1> HIDE DEF txn, res, log, artifact, changed
  <1>11. run' \in Run /\ run'.txn = txn /\ run'.seen = run.seen /\ run'.todo \subseteq run.todo
        /\ run'.shown = run.shown /\ run'.over = run.over /\ run'.calm = run.calm
        /\ run'.limit = run.limit /\ run'.fatal = run.fatal /\ run'.pc = "fetch"
    BY <1>1, <1>8, <1>9 DEF Run
  <1>12. Explained(txn)
    BY <1>3, <1>5, <1>8, <1>10 DEF Journaled, Explained
  <1>13. Held(txn)
    <2> USE DEF Held
    <2> TAKE j \in Key
    <2>1. t.res[j] \in Resource
      BY <1>1 DEF Store
    <2>2. t.res[j].body # Nothing => t.res[j].body \in Body
      BY <2>1 DEF Resource
    <2> QED
      BY <1>3, <1>6, <1>8, <1>10, <2>2 DEF Journaled, Held
  <1>14. Journaled'
    <2>1. TypeOK'
      BY <1>1, <1>11 DEF TypeOK
    <2>2. Explained(store)' /\ Held(store)'
      BY <1>1 DEF Journaled, Explained, Held
    <2>3. Explained(run.txn)' /\ Held(run.txn)'
      BY <1>11, <1>12, <1>13 DEF Explained, Held
    <2> QED
      BY <2>1, <2>2, <2>3 DEF Journaled
  <1>15. TouchesSeen'
    <2>1. k \in run.seen /\ b # Nothing
      BY <1>1, <1>2, PageAssumption DEF TouchesSeen
    <2>2. \A j \in Key : j \notin run.seen => txn.res[j] = store.res[j]
      BY <1>1, <1>8, <1>10, <2>1 DEF TouchesSeen
    <2>3. \A j \in run.seen : txn.res[j].status = "active"
                             /\ (store.res[j].body # Nothing => txn.res[j].body # Nothing)
      BY <1>1, <1>3, <1>8, <1>10, <2>1, RunFields DEF TouchesSeen
    <2>4. \A c \in Body : store.artifact[c] # "none" => txn.artifact[c] # "none"
      BY <1>1, <1>6, <1>8 DEF TouchesSeen
    <2> QED
      BY <1>1, <1>11, <2>2, <2>3, <2>4 DEF TouchesSeen
  <1>16. Shown'
    BY <1>1, <1>11 DEF Shown, Full
  <1> QED
    BY <1>14, <1>15, <1>16

LEMMA StageFailsObserved ==
  ASSUME Observed, NEW k \in Key, StageFails(k)
  PROVE  Observed'
  <1> USE DEF Observed
  <1>0. PICK left \in {"none", "downloaded"} :
        run' = [run EXCEPT !.todo = @ \ {k}, !.errors = TRUE, !.txn.artifact[site[k].body] = left]
    BY DEF StageFails
  <1> DEFINE t == run.txn
             b == site[k].body
             artifact == [t.artifact EXCEPT ![b] = left]
             txn == [t EXCEPT !.artifact = artifact]
  <1>1. TypeOK /\ t \in Store /\ run \in Run /\ run.pc = "fetch" /\ k \in run.todo
        /\ site[k] # Absent /\ t.artifact[b] = "none" /\ UNCHANGED <<site, store, quiet, changes>>
    BY RunFields DEF Journaled, TypeOK, StageFails
  <1>2. b \in Body
    BY <1>1, PageFields
  <1>3. artifact \in [Body -> {"none", "downloaded", "imported"}]
        /\ \A c \in Body : t.artifact[c] # "none" => artifact[c] # "none"
    BY <1>1, <1>2 DEF Store
  <1>4. txn \in Store /\ txn.res = t.res /\ txn.log = t.log /\ txn.artifact = artifact
    BY <1>1, <1>3 DEF Store
  <1>5. run' = [run EXCEPT !.todo = run.todo \ {k}, !.errors = TRUE, !.txn = txn]
    <2>1. DOMAIN run = {"pc", "limit", "download", "seen", "todo", "fatal", "errors", "downloaded",
                        "changed", "calm", "shown", "over", "txn"}
      BY <1>1 DEF Run
    <2>2. DOMAIN t = {"res", "log", "artifact", "fails", "health"}
      BY <1>1 DEF Store
    <2> QED
      BY <1>0, <2>1, <2>2
  <1> HIDE DEF txn, artifact
  <1>6. run' \in Run /\ run'.txn = txn /\ run'.seen = run.seen /\ run'.todo \subseteq run.todo
        /\ run'.shown = run.shown /\ run'.over = run.over /\ run'.calm = run.calm
        /\ run'.limit = run.limit /\ run'.fatal = run.fatal /\ run'.pc = "fetch"
    BY <1>1, <1>4, <1>5 DEF Run
  <1>7. Explained(txn)
    BY <1>4 DEF Journaled, Explained
  <1>8. Held(txn)
    <2> USE DEF Held
    <2> TAKE j \in Key
    <2>1. t.res[j] \in Resource
      BY <1>1 DEF Store
    <2>2. t.res[j].body # Nothing => t.res[j].body \in Body
      BY <2>1 DEF Resource
    <2> QED
      BY <1>3, <1>4, <2>2 DEF Journaled, Held
  <1>9. mishaps' \in 0 .. MaxMishaps
    BY <1>1, MishapType DEF StageFails
  <1>10. Journaled'
    <2>1. TypeOK'
      BY <1>1, <1>6, <1>9 DEF TypeOK
    <2>2. Explained(store)' /\ Held(store)'
      BY <1>1 DEF Journaled, Explained, Held
    <2>3. Explained(run.txn)' /\ Held(run.txn)'
      BY <1>6, <1>7, <1>8 DEF Explained, Held
    <2> QED
      BY <2>1, <2>2, <2>3 DEF Journaled
  <1>11. TouchesSeen'
    BY <1>1, <1>3, <1>4, <1>6 DEF TouchesSeen
  <1>12. Shown'
    BY <1>1, <1>6 DEF Shown, Full
  <1> QED
    BY <1>10, <1>11, <1>12

-----------------------------------------------------------------------------
(* The commit.                                                             *)

(* What a commit leaves in the tables.                                     *)
LEMMA Committed ==
  ASSUME Observed, Commit
  PROVE  /\ store' \in Store /\ run' = NoRun /\ store'.artifact = run.txn.artifact
         /\ \A k \in Key \ Missing : /\ store'.res[k] = run.txn.res[k]
                                     /\ store'.log[k] = run.txn.log[k]
         /\ \A k \in Missing :
              /\ store'.res[k] = [run.txn.res[k] EXCEPT !.status = "disappeared"]
              /\ store'.log[k] = [run.txn.log[k] EXCEPT !.life = "disappeared"]
  <1> DEFINE t == run.txn
             res == [k \in Key |-> IF k \in Missing
                                  THEN [t.res[k] EXCEPT !.status = "disappeared"] ELSE t.res[k]]
             log == [k \in Key |-> IF k \in Missing
                                  THEN [t.log[k] EXCEPT !.life = "disappeared"] ELSE t.log[k]]
  <1>1. t \in Store /\ Missing \subseteq Key
    BY RunFields DEF Observed, Journaled, Missing
  <1>2. PICK review \in BOOLEAN :
        store' = [t EXCEPT !.res = res, !.log = log, !.fails = FailsAfter,
                           !.health = HealthAfter(review)]
    BY DEF Commit
  <1>3. \A k \in Key : t.res[k] \in Resource /\ t.log[k] \in Journal
    BY <1>1 DEF Store
  <1>4. res \in [Key -> Resource] /\ log \in [Key -> Journal]
    <2>1. \A k \in Key : [t.res[k] EXCEPT !.status = "disappeared"] \in Resource
      BY <1>3 DEF Resource
    <2>2. \A k \in Key : [t.log[k] EXCEPT !.life = "disappeared"] \in Journal
      BY <1>3 DEF Journal
    <2> HIDE DEF t
    <2> QED
      BY <1>3, <2>1, <2>2
  <1>5. FailsAfter \in 0 .. FailCap
    <2>1. t.fails \in 0 .. FailCap
      BY <1>1 DEF Store
    <2> QED
      BY <2>1, BoundAssumption DEF FailsAfter
  <1>6. HealthAfter(review) \in Health
    BY DEF HealthAfter, Health
  <1> HIDE DEF res, log
  <1>7. store' \in Store /\ store'.res = res /\ store'.log = log /\ store'.artifact = t.artifact
    BY <1>1, <1>2, <1>4, <1>5, <1>6 DEF Store
  <1>8. run' = NoRun
    BY DEF Commit
  <1> QED
    BY <1>1, <1>7, <1>8 DEF res, log

(* Row by row: what a commit writes over a row of its transaction.         *)
LEMMA CommittedRow ==
  ASSUME Observed, Commit, NEW k \in Key
  PROVE  /\ run.txn.res[k] \in Resource /\ run.txn.log[k] \in Journal
         /\ store'.res[k].status = IF k \in Missing THEN "disappeared" ELSE run.txn.res[k].status
         /\ store'.log[k].life = IF k \in Missing THEN "disappeared" ELSE run.txn.log[k].life
         /\ store'.res[k].url = run.txn.res[k].url /\ store'.log[k].url = run.txn.log[k].url
         /\ store'.res[k].meta = run.txn.res[k].meta /\ store'.log[k].meta = run.txn.log[k].meta
         /\ store'.res[k].body = run.txn.res[k].body /\ store'.log[k].body = run.txn.log[k].body
  <1>1. run.txn.res[k] \in Resource /\ run.txn.log[k] \in Journal
    BY RunFields DEF Observed, Journaled, Store
  <1>2. CASE k \in Missing
    <2>1. /\ store'.res[k] = [run.txn.res[k] EXCEPT !.status = "disappeared"]
          /\ store'.log[k] = [run.txn.log[k] EXCEPT !.life = "disappeared"]
      BY <1>2, Committed
    <2> DEFINE row == run.txn.res[k]
               log == run.txn.log[k]
    <2>2. row \in Resource /\ log \in Journal
      BY <1>1
    <2>3. /\ store'.res[k] = [row EXCEPT !.status = "disappeared"]
          /\ store'.log[k] = [log EXCEPT !.life = "disappeared"]
      BY <2>1
    <2> HIDE DEF row, log
    <2>4. /\ store'.res[k].status = "disappeared" /\ store'.res[k].url = row.url
          /\ store'.res[k].meta = row.meta /\ store'.res[k].body = row.body
      BY <2>2, <2>3 DEF Resource
    <2>5. /\ store'.log[k].life = "disappeared" /\ store'.log[k].url = log.url
          /\ store'.log[k].meta = log.meta /\ store'.log[k].body = log.body
      BY <2>2, <2>3 DEF Journal
    <2> QED
      BY <1>1, <1>2, <2>4, <2>5 DEF row, log
  <1>3. CASE k \notin Missing
    BY <1>1, <1>3, Committed
  <1> QED
    BY <1>1, <1>2, <1>3

LEMMA CommitObserved ==
  ASSUME Observed, Commit
  PROVE  Observed'
  <1>1. run' = NoRun /\ store' \in Store /\ UNCHANGED <<site, changes, mishaps>>
    BY Committed DEF Commit
  <1>2. quiet' \in BOOLEAN
    <2>1. quiet \in BOOLEAN /\ run.calm \in BOOLEAN
      BY DEF Observed, Journaled, TypeOK, Run
    <2> QED
      BY <2>1 DEF Commit
  <1>3. TypeOK'
    BY <1>1, <1>2, EmptyTypes DEF Observed, Journaled, TypeOK
  <1>4. Explained(store)'
    <2> SUFFICES ASSUME NEW k \in Key
                 PROVE  /\ store'.res[k].status = "none" <=> store'.log[k].life = "none"
                        /\ store'.res[k].status = "disappeared" <=> store'.log[k].life = "disappeared"
                        /\ store'.res[k].url = store'.log[k].url
                        /\ store'.res[k].meta = store'.log[k].meta
                        /\ store'.res[k].body = store'.log[k].body
      BY DEF Explained
    <2> QED
      BY CommittedRow DEF Observed, Journaled, Explained
  <1>5. Held(store)'
    BY Committed, CommittedRow DEF Observed, Journaled, Held
  <1>6. run'.txn = EmptyStore /\ run'.pc = "idle"
    BY <1>1 DEF NoRun
  <1>7. Explained(run.txn)' /\ Held(run.txn)'
    BY <1>6, EmptyTypes DEF Explained, Held
  <1> QED
    BY <1>3, <1>4, <1>5, <1>6, <1>7 DEF Observed, Journaled, TouchesSeen, Shown

LEMMA NextObserved == Observed /\ [Next]_vars => Observed'
  <1> SUFFICES ASSUME Observed, [Next]_vars PROVE Observed'
    OBVIOUS
  <1>1. CASE UNCHANGED vars
    BY <1>1 DEF vars, Observed, Journaled, TypeOK, Explained, Held, TouchesSeen, Shown, Full
  <1>2. CASE SiteChanges
    BY <1>2, SiteChangesObserved
  <1>3. CASE RunDies
    BY <1>3, RunDiesObserved
  <1>4. CASE GatePass \/ GateBlocked
    BY <1>4, GateObserved
  <1>5. CASE Discover \/ DiscoverFails
    BY <1>5, DiscoverObserved
  <1>6. CASE Commit
    BY <1>6, CommitObserved
  <1>7. ASSUME NEW k \in Key, FetchError(k) \/ NotModified(k) \/ Download(k) \/ StageFails(k)
        PROVE  Observed'
    BY <1>7, SkipObserved, DownloadObserved, StageFailsObserved
  <1>8. ASSUME NEW limit \in Limit, NEW download \in BOOLEAN, Start(limit, download)
        PROVE  Observed'
    BY <1>8, StartObserved
  <1> QED
    BY <1>1, <1>2, <1>3, <1>4, <1>5, <1>6, <1>7, <1>8 DEF Next, RunStep

(* In every state the work of a run and the committed inventory agree as   *)
(* Observed says: the invariant the theorems below rest on.                *)
THEOREM ObservedAlways == Spec => []Observed
  <1> QED
    BY ObservedInit, NextObserved, PTL DEF Spec

-----------------------------------------------------------------------------
(* Theorems.                                                               *)

(* Every variable of the cycle keeps its type.                             *)
THEOREM CrawlTypeCorrect == Spec => []TypeOK
  <1>1. Observed => TypeOK
    BY DEF Observed, Journaled
  <1> QED
    BY <1>1, ObservedAlways, PTL

(* The change events committed so far tell of every resource exactly what  *)
(* its committed row says.                                                 *)
THEOREM EventsExplainRows == Spec => []JournalExplains
  <1>1. Observed => JournalExplains
    BY DEF Observed, Journaled, Explained, JournalExplains
  <1> QED
    BY <1>1, ObservedAlways, PTL

(* Only a commit writes the tables.                                        *)
LEMMA OnlyCommitWrites ==
  ASSUME [Next]_vars PROVE Commit \/ UNCHANGED store
  BY DEF Next, RunStep, vars, SiteChanges, RunDies, GatePass, GateBlocked, Discover, DiscoverFails,
         FetchError, NotModified, Download, StageFails, Start

(* No resource is marked disappeared that the site showed throughout the   *)
(* run, unless the discovery passed it over: neither a limit, nor a        *)
(* refusal, nor an error at any moment of the cycle empties the inventory. *)
THEOREM DisappearsOnlyUnseen == Spec => DisappearsOnlyIfAbsent
  <1> DEFINE Step == \A k \in Key :
               store.res[k].status = "active" /\ store'.res[k].status = "disappeared"
                 => Absent \in run.shown[k] \/ k \in run.over
  <1>1. Observed /\ [Next]_vars => Step
    <2> SUFFICES ASSUME Observed, [Next]_vars, NEW k \in Key,
                        store.res[k].status = "active", store'.res[k].status = "disappeared"
                 PROVE  Absent \in run.shown[k] \/ k \in run.over
      OBVIOUS
    <2>1. Commit
      BY OnlyCommitWrites
    <2>2. run.pc \in {"fetch", "finish"}
      BY <2>1 DEF Commit
    <2>3. CASE k \in Missing
      BY <2>2, <2>3 DEF Missing, Observed, Shown
    <2>4. CASE k \notin Missing
      <3>1. run.txn.res[k].status = "disappeared"
        BY <2>1, <2>4, CommittedRow
      <3> QED
        BY <2>2, <3>1 DEF Observed, TouchesSeen
    <2> QED
      BY <2>3, <2>4
  <1>2. Observed /\ [Next]_vars => [Step]_vars
    BY <1>1
  <1> QED
    BY <1>2, ObservedAlways, PTL DEF Spec, DisappearsOnlyIfAbsent

-----------------------------------------------------------------------------
(* The committed tables are a ResourceInventory.                           *)

LEMMA InventoryInit == Init => Inventory!Init
  BY DEF Init, Inventory!Init, EmptyStore, NoResource

LEMMA ObservationIsStep ==
  ASSUME NEW listed \in SUBSET Key, NEW whole \in BOOLEAN, NEW got \in [Key -> Body \cup {Nothing}],
         Inventory!Observe(listed, whole, got)
  PROVE  Inventory!Next
  BY Zenon DEF Inventory!Next

(* A commit is one observation: of what the run has seen, of the whole     *)
(* source if it was full, with what it holds of each resource.             *)
LEMMA CommitObserves ==
  ASSUME Observed, Commit
  PROVE  Inventory!Next
  <1> DEFINE got == [k \in Key |-> run.txn.res[k].body]
             status == [k \in Key |-> store.res[k].status]
             content == [k \in Key |-> store.res[k].body]
             evidence == {b \in Body : store.artifact[b] # "none"}
  <1>1. run.pc \in {"fetch", "finish"} /\ run.seen \in SUBSET Key
    BY RunFields DEF Commit, Observed, Journaled
  <1>2. Full \in BOOLEAN
    BY DEF Full
  <1>3. got \in [Key -> Body \cup {Nothing}]
    BY CommittedRow DEF Resource
  <1>4. \A k \in Key : store'.res[k].status =
          IF k \in run.seen THEN "active"
          ELSE IF Full /\ store.res[k].status = "active" THEN "disappeared" ELSE store.res[k].status
    BY <1>1, CommittedRow DEF Observed, TouchesSeen, Missing
  <1>5. \A k \in Key : store'.res[k].body =
          IF k \in run.seen /\ got[k] # Nothing THEN got[k] ELSE store.res[k].body
    BY <1>1, CommittedRow DEF Observed, TouchesSeen
  <1>6. evidence \subseteq evidence' /\ evidence' \subseteq Body
    BY <1>1, Committed DEF Observed, TouchesSeen
  <1>7. \A k \in run.seen : got[k] # Nothing => got[k] \in evidence'
    BY <1>1, <1>3, Committed DEF Observed, Journaled, Held
  <1> HIDE DEF got
  <1>8. PICK listed \in SUBSET Key, whole \in BOOLEAN, held \in [Key -> Body \cup {Nothing}] :
          listed = run.seen /\ (whole <=> Full) /\ held = got
    BY <1>1, <1>2, <1>3
  <1>9. Inventory!Observe(listed, whole, held)
    BY <1>4, <1>5, <1>6, <1>7, <1>8 DEF Inventory!Observe
  <1> QED
    BY <1>9, ObservationIsStep

(* Every behaviour of the cycle, crashes, refusals, partial failures and   *)
(* all, is one of the inventory.                                           *)
THEOREM CrawlImplementsInventory == Spec => IsInventory
  <1>1. Observed /\ [Next]_vars => [Inventory!Next]_(Inventory!vars)
    <2> SUFFICES ASSUME Observed, [Next]_vars PROVE [Inventory!Next]_(Inventory!vars)
      OBVIOUS
    <2>1. CASE Commit
      BY <2>1, CommitObserves
    <2>2. CASE UNCHANGED store
      BY <2>2 DEF Inventory!vars
    <2> QED
      BY <2>1, <2>2, OnlyCommitWrites
  <1> QED
    BY <1>1, InventoryInit, ObservedAlways, PTL DEF Spec, IsInventory, Inventory!Spec

-----------------------------------------------------------------------------
(* What a step does to the rows of its transaction and to run.changed.     *)

LEMMA DownloadRows ==
  ASSUME Observed, NEW k \in Key, Download(k)
  PROVE  /\ UNCHANGED store /\ run.pc = "fetch" /\ run'.pc = "fetch"
         /\ k \in run.todo /\ run'.todo = run.todo \ {k} /\ site[k].body \in Body
         /\ run'.changed = (run.changed \/ run.txn.res[k].body \notin {Nothing, site[k].body})
         /\ run'.txn.res = [run.txn.res EXCEPT ![k] = Downloaded(@, site[k].body)]
  <1>1. run \in Run /\ run.txn \in Store /\ site[k] # Absent /\ TypeOK
    BY RunFields DEF Observed, Journaled, TypeOK, Download
  <1>2. DOMAIN run = {"pc", "limit", "download", "seen", "todo", "fatal", "errors", "downloaded",
                      "changed", "calm", "shown", "over", "txn"}
    BY <1>1 DEF Run
  <1>3. DOMAIN run.txn = {"res", "log", "artifact", "fails", "health"}
    BY <1>1 DEF Store
  <1> DEFINE b == site[k].body
             row == run.txn.res[k]
             txn == [run.txn EXCEPT
               !.artifact[b] = IF @ = "none" THEN "imported" ELSE @,
               !.res[k] = Downloaded(@, b),
               !.log[k].body = IF row.body # b THEN b ELSE @]
  <1>4. run' = [run EXCEPT !.todo = @ \ {k}, !.downloaded = TRUE, !.txn = txn,
                           !.changed = @ \/ row.body \notin {Nothing, b}]
    BY DEF Download
  <1>5. txn.res = [run.txn.res EXCEPT ![k] = Downloaded(@, b)]
    BY <1>3
  <1> HIDE DEF txn
  <1>6. /\ run'.todo = run.todo \ {k} /\ run'.txn = txn /\ run'.pc = run.pc
        /\ run'.changed = (run.changed \/ row.body \notin {Nothing, b})
    BY <1>2, <1>4
  <1> QED
    BY <1>1, <1>5, <1>6, PageFields DEF Download

LEMMA OtherRows ==
  ASSUME Observed,
         \/ SiteChanges \/ GatePass \/ GateBlocked
         \/ \E k \in Key : FetchError(k) \/ NotModified(k) \/ StageFails(k)
  PROVE  /\ UNCHANGED store /\ run'.txn.res = run.txn.res /\ run'.changed = run.changed
         /\ (run.fatal = "failed" => run'.fatal = "failed")
         /\ run'.todo \subseteq run.todo /\ (run'.pc = "idle" <=> run.pc = "idle")
  <1>1. run \in Run /\ run.txn \in Store
    BY RunFields DEF Observed, Journaled, TypeOK
  <1>2. DOMAIN run = {"pc", "limit", "download", "seen", "todo", "fatal", "errors", "downloaded",
                      "changed", "calm", "shown", "over", "txn"}
    BY <1>1 DEF Run
  <1>3. DOMAIN run.txn = {"res", "log", "artifact", "fails", "health"}
    BY <1>1 DEF Store
  <1>4. CASE SiteChanges
    BY <1>2, <1>4 DEF SiteChanges
  <1>5. CASE GatePass \/ GateBlocked
    BY <1>2, <1>5 DEF GatePass, GateBlocked, Observed, TouchesSeen
  <1>6. ASSUME NEW k \in Key, FetchError(k) \/ NotModified(k)
        PROVE  /\ UNCHANGED store /\ run'.txn.res = run.txn.res /\ run'.changed = run.changed
               /\ run'.fatal = run.fatal /\ run'.todo \subseteq run.todo /\ run'.pc = run.pc
    BY <1>2, <1>6 DEF FetchError, NotModified
  <1>7. ASSUME NEW k \in Key, StageFails(k)
        PROVE  /\ UNCHANGED store /\ run'.txn.res = run.txn.res /\ run'.changed = run.changed
               /\ run'.fatal = run.fatal /\ run'.todo \subseteq run.todo /\ run'.pc = run.pc
    <2>1. PICK left \in {"none", "downloaded"} :
            run' = [run EXCEPT !.todo = @ \ {k}, !.errors = TRUE,
                               !.txn = [run.txn EXCEPT !.artifact[site[k].body] = left]]
      BY <1>2, <1>3, <1>7 DEF StageFails
    <2> DEFINE txn == [run.txn EXCEPT !.artifact[site[k].body] = left]
    <2>2. txn.res = run.txn.res
      BY <1>3
    <2> HIDE DEF txn
    <2>3. run' = [run EXCEPT !.todo = @ \ {k}, !.errors = TRUE, !.txn = txn]
      BY <2>1 DEF txn
    <2> QED
      BY <1>2, <1>7, <2>2, <2>3 DEF StageFails
  <1> QED
    BY <1>4, <1>5, <1>6, <1>7

-----------------------------------------------------------------------------
(* Validators.                                                             *)

(* Bodies that come with a validator come with different ones.             *)
Tagged == \A b, c \in Body : EtagOf[b] # Nothing /\ EtagOf[b] = EtagOf[c] => b = c

(* A row without a body has no validator; one whose body came with a       *)
(* validator has that one; one whose body came without may have any.       *)
Validated(s) ==
    \A k \in Key : /\ s.res[k].body = Nothing => s.res[k].etag = Nothing
                   /\ s.res[k].body \in Body /\ EtagOf[s.res[k].body] # Nothing
                        => s.res[k].etag = EtagOf[s.res[k].body]

Validators == Validated(store) /\ Validated(run.txn)

LEMMA ValidatorsNext ==
  ASSUME Observed, Validators, [Next]_vars
  PROVE  Validators'
  <1> USE DEF Validators, Validated
  <1>0. \A k \in Key : run.txn.res[k] \in Resource
    BY RunFields DEF Observed, Journaled, Store
  <1>1. CASE UNCHANGED vars
    BY <1>1 DEF vars
  <1>2. CASE \/ SiteChanges \/ GatePass \/ GateBlocked
             \/ \E k \in Key : FetchError(k) \/ NotModified(k) \/ StageFails(k)
    BY <1>2, OtherRows
  <1>3. CASE RunDies
    BY <1>3, PageAssumption DEF RunDies, NoRun, EmptyStore, NoResource
  <1>4. ASSUME NEW limit \in Limit, NEW download \in BOOLEAN, Start(limit, download)
        PROVE  Validators'
    BY <1>4 DEF Start, NoRun
  <1>5. CASE Discover \/ DiscoverFails
    <2>1. \A k \in Key : run'.txn.res[k].etag = run.txn.res[k].etag
                         /\ run'.txn.res[k].body = run.txn.res[k].body
      <3>1. PICK L \in Walks : \E S \in SUBSET Listed(L, {}) : run'.txn = Entered(run.txn, L, S)
        BY <1>5, DiscoverySteps
      <3>2. PICK S \in SUBSET Listed(L, {}) : run'.txn = Entered(run.txn, L, S)
        BY <3>1
      <3> QED
        BY <3>2, EnteredRows, RunFields DEF Observed, Journaled
    <2> QED
      BY <1>5, <2>1, DiscoverySteps
  <1>6. ASSUME NEW k \in Key, Download(k)
        PROVE  Validators'
    <2> DEFINE b == site[k].body
               row == Downloaded(run.txn.res[k], b)
    <2>1. b \in Body /\ run'.txn.res = [run.txn.res EXCEPT ![k] = row] /\ UNCHANGED store
      BY <1>6, DownloadRows
    <2>2. row.body = b /\ b # Nothing /\ (EtagOf[b] # Nothing => row.etag = EtagOf[b])
      BY <1>0, <2>1, PageAssumption DEF Downloaded, Resource
    <2> HIDE DEF row, b
    <2>3. \A j \in Key : run'.txn.res[j] = IF j = k THEN row ELSE run.txn.res[j]
      BY <2>1, RunFields DEF Observed, Journaled, Store
    <2> QED
      BY <2>1, <2>2, <2>3
  <1>7. CASE Commit
    <2>1. \A k \in Key : store'.res[k].etag = run.txn.res[k].etag
                         /\ store'.res[k].body = run.txn.res[k].body
      <3> TAKE k \in Key
      <3>1. CASE k \in Missing
        <4>1. store'.res[k] = [run.txn.res[k] EXCEPT !.status = "disappeared"]
          BY <1>7, <3>1, Committed
        <4> QED
          BY <1>0, <4>1 DEF Resource
      <3>2. CASE k \notin Missing
        BY <1>7, <3>2, Committed
      <3> QED
        BY <3>1, <3>2
    <2>2. run'.txn = EmptyStore
      BY <1>7 DEF Commit, NoRun
    <2>3. Validated(run.txn)'
      BY <2>2, PageAssumption DEF EmptyStore, NoResource
    <2>4. Validated(store)'
      BY <2>1
    <2> QED
      BY <2>3, <2>4
  <1> QED
    BY <1>1, <1>2, <1>3, <1>4, <1>5, <1>6, <1>7 DEF Next, RunStep

(* Where different bodies have different validators, those of them that    *)
(* have one, a 304 is taken for the bytes the inventory holds, or else in  *)
(* place of a body that came without a validator: the one case in which    *)
(* the row's validator is of earlier bytes.                                *)
THEOREM NotModifiedIsHeld == Tagged => (Spec => NotModifiedMeansHeld)
  <1> SUFFICES ASSUME Tagged PROVE Spec => NotModifiedMeansHeld
    OBVIOUS
  <1>1. Init => Validators
    <2>1. NoResource.body = Nothing /\ NoResource.etag = Nothing /\ Nothing \notin Body
      BY PageAssumption DEF NoResource
    <2> QED
      BY <2>1 DEF Init, NoRun, EmptyStore, Validators, Validated
  <1>2. Observed /\ Validators /\ [Next]_vars => Validators'
    BY ValidatorsNext
  <1> DEFINE Step ==
        \A k \in Key : NotModified(k) =>
          LET held == run.txn.res[k].body IN
          held = site[k].body \/ (held \in Body /\ EtagOf[held] = Nothing)
  <1>3. Observed /\ Validators => [Step]_vars
    <2> SUFFICES ASSUME Observed, Validators, NEW k \in Key, NotModified(k),
                        ~(run.txn.res[k].body \in Body /\ EtagOf[run.txn.res[k].body] = Nothing)
                 PROVE  run.txn.res[k].body = site[k].body
      OBVIOUS
    <2>1. site[k].body \in Body
      BY PageFields DEF NotModified, Matches, Observed, Journaled
    <2>2. run.txn.res[k].body \in Body \cup {Nothing}
      BY RunFields DEF Observed, Journaled, Store, Resource
    <2>3. /\ run.txn.res[k].etag # Nothing /\ EtagOf[site[k].body] = run.txn.res[k].etag
      BY DEF NotModified, Matches
    <2>4. run.txn.res[k].body \in Body /\ run.txn.res[k].etag = EtagOf[run.txn.res[k].body]
      <3>1. /\ run.txn.res[k].body = Nothing => run.txn.res[k].etag = Nothing
            /\ run.txn.res[k].body \in Body /\ EtagOf[run.txn.res[k].body] # Nothing
                 => run.txn.res[k].etag = EtagOf[run.txn.res[k].body]
        BY DEF Validators, Validated
      <3>2. run.txn.res[k].body \in Body
        BY <2>2, <2>3, <3>1
      <3>3. EtagOf[run.txn.res[k].body] # Nothing
        BY <3>2
      <3> QED
        BY <3>1, <3>2, <3>3
    <2> QED
      BY <2>1, <2>3, <2>4 DEF Tagged
  <1> QED
    BY <1>1, <1>2, <1>3, ObservedAlways, PTL DEF Spec, NotModifiedMeansHeld

-----------------------------------------------------------------------------
(* Health.                                                                 *)

(* Unless a fatal error has cut its discovery short, run.changed says      *)
(* whether the run has left a row that differs from the committed one;     *)
(* what it is yet to fetch has the body it had.                            *)
Telling ==
    run.pc # "idle" /\ run.fatal # "failed" =>
      /\ run.changed <=> \E k \in Key : Differs(store.res[k], run.txn.res[k])
      /\ \A k \in run.todo : run.txn.res[k].body = store.res[k].body

LEMMA FoundDiffers ==
  ASSUME NEW row \in Resource, NEW page \in Page
  PROVE  /\ Differs(row, Found(row, page)) <=> IsChange(row, page)
         /\ Found(row, page).body = row.body
  BY DEF Found, Resource, Differs, IsChange

LEMMA TellingDiscover == ASSUME Observed, Discover \/ DiscoverFails PROVE Telling'
  <1>1. run.pc = "discover" /\ UNCHANGED store
    BY DiscoverySteps
  <1>2. PICK L \in Walks : \E S \in SUBSET Listed(L, {}) :
          /\ run'.txn = Entered(run.txn, L, S)
          /\ \/ run'.fatal = "failed"
             \/ run'.todo = S /\ run'.changed = (\E k \in S : IsChange(run.txn.res[k], L[k]))
    BY DiscoverySteps
  <1>3. PICK S \in SUBSET Listed(L, {}) :
          /\ run'.txn = Entered(run.txn, L, S)
          /\ \/ run'.fatal = "failed"
             \/ run'.todo = S /\ run'.changed = (\E k \in S : IsChange(run.txn.res[k], L[k]))
    BY <1>2
  <1>4. \A k \in Key : run.txn.res[k] \in Resource /\ run.txn.res[k] = store.res[k]
    BY <1>1, RunFields DEF Observed, Journaled, Store, TouchesSeen
  <1>5. /\ S \subseteq Key /\ \A k \in S : L[k] \in Page
        /\ \A k \in Key : run'.txn.res[k] = IF k \in S THEN Found(run.txn.res[k], L[k])
                                                       ELSE run.txn.res[k]
    BY <1>3, EnteredRows, RunFields DEF Observed, Journaled
  <1>6. \A k \in S : /\ Differs(store.res[k], run'.txn.res[k]) <=> IsChange(run.txn.res[k], L[k])
                     /\ run'.txn.res[k].body = store.res[k].body
    BY <1>4, <1>5, FoundDiffers
  <1>7. \A k \in Key \ S : ~Differs(store.res[k], run'.txn.res[k])
    BY <1>4, <1>5 DEF Differs
  <1> QED
    BY <1>1, <1>3, <1>5, <1>6, <1>7 DEF Telling

LEMMA FatalStays ==
  ASSUME Observed, NEW k \in Key, Download(k)
  PROVE  run'.fatal = run.fatal
  <1>1. DOMAIN run = {"pc", "limit", "download", "seen", "todo", "fatal", "errors", "downloaded",
                      "changed", "calm", "shown", "over", "txn"}
    BY DEF Observed, Journaled, TypeOK, Run
  <1> QED
    BY <1>1 DEF Download

LEMMA TellingDownload ==
  ASSUME Observed, Telling, NEW k \in Key, Download(k)
  PROVE  Telling'
  <1> SUFFICES ASSUME run.fatal # "failed" PROVE Telling'
    <2>1. run'.fatal = run.fatal
      BY FatalStays
    <2> QED
      BY <2>1 DEF Telling
  <1> DEFINE old == store.res[k]
             row == run.txn.res[k]
             new == run'.txn.res[k]
             b == site[k].body
  <1>1. /\ UNCHANGED store /\ run.pc = "fetch" /\ k \in run.todo /\ run'.todo = run.todo \ {k}
        /\ b \in Body /\ run'.changed = (run.changed \/ row.body \notin {Nothing, b})
        /\ run'.txn.res = [run.txn.res EXCEPT ![k] = Downloaded(@, b)]
    BY DownloadRows
  <1>2. run.txn.res \in [Key -> Resource]
    BY RunFields DEF Observed, Journaled, Store
  <1>3. new = Downloaded(row, b) /\ \A j \in Key \ {k} : run'.txn.res[j] = run.txn.res[j]
    BY <1>1, <1>2
  <1>4. new.status = row.status /\ new.url = row.url /\ new.meta = row.meta /\ new.body = b
    BY <1>2, <1>3 DEF Downloaded, Resource
  <1>5. row.body = old.body
    BY <1>1 DEF Telling
  <1>6. Differs(old, new) <=> Differs(old, row) \/ row.body \notin {Nothing, b}
    BY <1>4, <1>5 DEF Differs
  <1>7. run.changed <=> \E j \in Key : Differs(store.res[j], run.txn.res[j])
    BY <1>1 DEF Telling
  <1> HIDE DEF old, row, new
  <1>8. run'.changed <=> \E j \in Key : Differs(store.res[j], run'.txn.res[j])
    BY <1>1, <1>3, <1>6, <1>7 DEF old, row, new
  <1>9. \A j \in run'.todo : run'.txn.res[j].body = store.res[j].body
    BY <1>1, <1>3, RunFields DEF Telling, Observed, Journaled
  <1> QED
    BY <1>1, <1>8, <1>9 DEF Telling

LEMMA TellingNext ==
  ASSUME Observed, Telling, [Next]_vars
  PROVE  Telling'
  <1>1. CASE UNCHANGED vars
    BY <1>1 DEF vars, Telling, Differs
  <1>2. CASE \/ SiteChanges \/ GatePass \/ GateBlocked
             \/ \E k \in Key : FetchError(k) \/ NotModified(k) \/ StageFails(k)
    <2>1. /\ UNCHANGED store /\ run'.txn.res = run.txn.res /\ run'.changed = run.changed
          /\ (run.fatal = "failed" => run'.fatal = "failed")
          /\ run'.todo \subseteq run.todo /\ (run'.pc = "idle" <=> run.pc = "idle")
      BY <1>2, OtherRows
    <2>2. CASE run.pc = "idle" \/ run.fatal = "failed"
      BY <2>1, <2>2 DEF Telling
    <2>3. CASE run.pc # "idle" /\ run.fatal # "failed"
      <3>1. \A k \in Key : Differs(store.res[k], run.txn.res[k])
                          <=> Differs(store'.res[k], run'.txn.res[k])
        BY <2>1
      <3>2. run.changed <=> \E k \in Key : Differs(store.res[k], run.txn.res[k])
        BY <2>3 DEF Telling
      <3>3. run'.changed <=> \E k \in Key : Differs(store'.res[k], run'.txn.res[k])
        BY <2>1, <3>1, <3>2
      <3>4. \A k \in run'.todo : run'.txn.res[k].body = store'.res[k].body
        BY <2>1, <2>3 DEF Telling
      <3> QED
        BY <3>3, <3>4 DEF Telling
    <2> QED
      BY <2>2, <2>3
  <1>3. CASE RunDies \/ Commit
    <2>1. run' = NoRun
      BY <1>3 DEF RunDies, Commit
    <2>2. run'.pc = "idle"
      BY <2>1 DEF NoRun
    <2> QED
      BY <2>2 DEF Telling
  <1>4. ASSUME NEW limit \in Limit, NEW download \in BOOLEAN, Start(limit, download)
        PROVE  Telling'
    BY <1>4 DEF Start, NoRun, Telling, Differs
  <1> QED
    BY <1>1, <1>2, <1>3, <1>4, TellingDiscover, TellingDownload DEF Next, RunStep

(* A commit leaves a row that differs exactly when the run has, or when it *)
(* marks one disappeared.                                                  *)
LEMMA CommitDiffers ==
  ASSUME Observed, Telling, Commit, run.fatal # "failed"
  PROVE  run.changed \/ Missing # {} <=> \E k \in Key : Differs(store.res[k], store'.res[k])
  <1>1. run.pc \in {"fetch", "finish"}
    BY DEF Commit
  <1>2. \A k \in Missing : Differs(store.res[k], store'.res[k])
    <2> TAKE k \in Missing
    <2>1. k \in Key /\ k \notin run.seen /\ run.txn.res[k].status = "active"
      BY DEF Missing
    <2>2. store.res[k].status = "active"
      BY <1>1, <2>1 DEF Observed, TouchesSeen
    <2>3. store'.res[k].status = "disappeared"
      BY <2>1, CommittedRow
    <2> QED
      BY <2>2, <2>3 DEF Differs
  <1>3. \A k \in Key \ Missing : store'.res[k] = run.txn.res[k]
    BY Committed
  <1>4. \A k \in Missing : ~Differs(store.res[k], run.txn.res[k])
    BY <1>1 DEF Missing, Observed, TouchesSeen, Differs
  <1>5. Missing \subseteq Key
    BY DEF Missing
  <1> QED
    BY <1>1, <1>2, <1>3, <1>4, <1>5 DEF Telling

LEMMA CommittedHealth ==
  ASSUME Observed, Commit
  PROVE  /\ store'.health = "changed" => run.changed \/ Missing # {}
         /\ store'.health = "unchanged" => ~(run.changed \/ Missing # {})
         /\ run.fatal = "failed" => store'.health \notin {"changed", "unchanged"}
  <1>1. run.txn \in Store
    BY RunFields DEF Observed, Journaled
  <1>2. DOMAIN run.txn = {"res", "log", "artifact", "fails", "health"}
    BY <1>1 DEF Store
  <1> DEFINE res == [k \in Key |-> IF k \in Missing
                                   THEN [run.txn.res[k] EXCEPT !.status = "disappeared"]
                                   ELSE run.txn.res[k]]
             log == [k \in Key |-> IF k \in Missing
                                   THEN [run.txn.log[k] EXCEPT !.life = "disappeared"]
                                   ELSE run.txn.log[k]]
  <1>3. PICK review \in BOOLEAN :
          store' = [run.txn EXCEPT !.res = res, !.log = log, !.fails = FailsAfter,
                                   !.health = HealthAfter(review)]
    BY DEF Commit
  <1> HIDE DEF res, log
  <1>4. store'.health = HealthAfter(review)
    BY <1>2, <1>3
  <1> DEFINE different == run.changed \/ Missing # {}
  <1>5. HealthAfter(review) \in {"blocked", "failing", "degraded", "needs_review"}
        \/ HealthAfter(review) = IF different THEN "changed" ELSE "unchanged"
    BY DEF HealthAfter
  <1> HIDE DEF different
  <1>6. /\ HealthAfter(review) = "changed" => different
        /\ HealthAfter(review) = "unchanged" => ~different
    BY <1>5
  <1>7. run.fatal = "failed" => HealthAfter(review) \in {"failing", "degraded"}
    <2>1. run.fatal = "failed" => RunStatus = "failed"
      BY DEF RunStatus
    <2> QED
      BY <2>1 DEF HealthAfter
  <1> QED
    BY <1>4, <1>6, <1>7 DEF different

(* The health a run leaves says `changed' only when a row differs, and     *)
(* `unchanged' only when none does, over any history of the site.          *)
THEOREM HealthIsTold == Spec => HealthTellsChange
  <1>1. Init => Telling
    BY DEF Init, NoRun, Telling
  <1>2. Observed /\ Telling /\ [Next]_vars => Telling'
    BY TellingNext
  <1> DEFINE Step ==
        /\ Commit /\ store'.health = "changed"
             => \E k \in Key : Differs(store.res[k], store'.res[k])
        /\ Commit /\ store'.health = "unchanged"
             => \A k \in Key : ~Differs(store.res[k], store'.res[k])
  <1>3. Observed /\ Telling => [Step]_vars
    BY CommitDiffers, CommittedHealth
  <1> QED
    BY <1>1, <1>2, <1>3, ObservedAlways, PTL DEF Spec, HealthTellsChange
-----------------------------------------------------------------------------
(* Replay.                                                                 *)

(* A row says of k what the site shows, and the next fetch finds nothing   *)
(* behind it: the server answers 304, or sends the same bytes untagged.    *)
Mirrors(k, row) ==
    IF site[k] = Absent THEN row.status # "active"
    ELSE row.status = "active" /\ row.url = site[k].url /\ row.meta = site[k].meta

Current(k, row) ==
    site[k] # Absent =>
      IF EtagOf[site[k].body] = Nothing THEN row.body = site[k].body
      ELSE row.etag = EtagOf[site[k].body]

Offered == {k \in Key : site[k] # Absent}

(* A complete run that passes nothing over, and during which the site      *)
(* stands, has the site's picture, but for the bytes it has yet to fetch.  *)
Pictured ==
    /\ run.pc = "finish" /\ run.download => run.fatal # "no"
    /\ run.pc \in {"fetch", "finish"} /\ run.calm /\ Full /\ run.over = {} =>
         /\ run.seen = Offered
         /\ \A k \in Offered : /\ Mirrors(k, run.txn.res[k])
                               /\ k \notin run.todo /\ ~run.errors => Current(k, run.txn.res[k])

(* While the site stands as such a run has left it, the tables are its     *)
(* picture, and a run leaves its transaction as it found the tables.       *)
Replaying ==
    quiet =>
      /\ \A k \in Key : Mirrors(k, store.res[k]) /\ Current(k, store.res[k])
      /\ run.pc # "idle" =>
           /\ run.calm /\ ~run.changed
           /\ run.txn.res = store.res /\ run.txn.log = store.log

LEMMA RunDomains ==
  ASSUME Observed
  PROVE  /\ DOMAIN run = {"pc", "limit", "download", "seen", "todo", "fatal", "errors", "downloaded",
                          "changed", "calm", "shown", "over", "txn"}
         /\ DOMAIN run.txn = {"res", "log", "artifact", "fails", "health"}
         /\ run.txn.res \in [Key -> Resource] /\ run.txn.log \in [Key -> Journal]
         /\ store.res \in [Key -> Resource] /\ store.log \in [Key -> Journal]
  <1>1. run \in Run /\ run.txn \in Store /\ store \in Store
    BY RunFields DEF Observed, Journaled, TypeOK
  <1> QED
    BY <1>1 DEF Run, Store

(* The steps that write no row: what they leave of the run.                *)
LEMMA RowlessSteps ==
  ASSUME Observed,
         \/ GatePass \/ GateBlocked
         \/ \E k \in Key : FetchError(k) \/ StageFails(k)
  PROVE  /\ UNCHANGED <<site, store, quiet>> /\ run.pc # "idle"
         /\ run'.txn.res = run.txn.res /\ run'.txn.log = run.txn.log
         /\ run'.changed = run.changed /\ run'.calm = run.calm /\ run'.seen = run.seen
         /\ run'.limit = run.limit /\ run'.download = run.download /\ run'.over = run.over
         /\ \/ run'.pc = "discover"
            \/ run'.pc = "finish" /\ run'.fatal # "no"
            \/ run.pc = "fetch" /\ run'.pc = "fetch" /\ run'.fatal = run.fatal /\ run'.errors
  <1>1. CASE GatePass \/ GateBlocked
    BY <1>1, RunDomains DEF GatePass, GateBlocked
  <1>2. ASSUME NEW k \in Key, FetchError(k)
        PROVE  /\ UNCHANGED <<site, store, quiet>> /\ run.pc = "fetch"
               /\ run' = [run EXCEPT !.todo = @ \ {k}, !.errors = TRUE]
    BY <1>2 DEF FetchError
  <1>3. ASSUME NEW k \in Key, StageFails(k)
        PROVE  /\ UNCHANGED <<site, store, quiet>> /\ run.pc = "fetch"
               /\ run'.txn.res = run.txn.res /\ run'.txn.log = run.txn.log
               /\ run'.changed = run.changed /\ run'.calm = run.calm /\ run'.seen = run.seen
               /\ run'.limit = run.limit /\ run'.download = run.download /\ run'.over = run.over
               /\ run'.pc = run.pc /\ run'.fatal = run.fatal /\ run'.errors
    <2>1. PICK left \in {"none", "downloaded"} :
            run' = [run EXCEPT !.todo = @ \ {k}, !.errors = TRUE,
                               !.txn = [run.txn EXCEPT !.artifact[site[k].body] = left]]
      BY <1>3, RunDomains DEF StageFails
    <2> DEFINE txn == [run.txn EXCEPT !.artifact[site[k].body] = left]
    <2>2. txn.res = run.txn.res /\ txn.log = run.txn.log
      BY RunDomains
    <2> HIDE DEF txn
    <2>3. run' = [run EXCEPT !.todo = @ \ {k}, !.errors = TRUE, !.txn = txn]
      BY <2>1 DEF txn
    <2> QED
      BY <1>3, <2>2, <2>3, RunDomains DEF StageFails
  <1>4. ASSUME NEW k \in Key, FetchError(k)
        PROVE  /\ UNCHANGED <<site, store, quiet>> /\ run.pc = "fetch"
               /\ run'.txn.res = run.txn.res /\ run'.txn.log = run.txn.log
               /\ run'.changed = run.changed /\ run'.calm = run.calm /\ run'.seen = run.seen
               /\ run'.limit = run.limit /\ run'.download = run.download /\ run'.over = run.over
               /\ run'.pc = run.pc /\ run'.fatal = run.fatal /\ run'.errors
    BY <1>2, <1>4, RunDomains
  <1> QED
    BY <1>1, <1>3, <1>4

LEMMA RowlessReplays ==
  ASSUME Observed, Pictured, Replaying,
         \/ GatePass \/ GateBlocked
         \/ \E k \in Key : FetchError(k) \/ StageFails(k)
  PROVE  Pictured' /\ Replaying'
  <1>1. /\ UNCHANGED <<site, store, quiet>> /\ run.pc # "idle"
        /\ run'.txn.res = run.txn.res /\ run'.txn.log = run.txn.log
        /\ run'.changed = run.changed /\ run'.calm = run.calm /\ run'.seen = run.seen
        /\ run'.limit = run.limit /\ run'.download = run.download /\ run'.over = run.over
        /\ \/ run'.pc = "discover"
           \/ run'.pc = "finish" /\ run'.fatal # "no"
           \/ run.pc = "fetch" /\ run'.pc = "fetch" /\ run'.fatal = run.fatal /\ run'.errors
    BY RowlessSteps
  <1>2. Pictured'
    BY <1>1 DEF Pictured, Full, Offered, Mirrors
  <1>3. Replaying'
    BY <1>1 DEF Replaying, Mirrors, Current
  <1> QED
    BY <1>2, <1>3

(* A 304 is what the site answers to a row that is current.                *)
LEMMA NotModifiedReplays ==
  ASSUME Observed, Pictured, Replaying, NEW k \in Key, NotModified(k)
  PROVE  Pictured' /\ Replaying'
  <1>1. /\ run' = [run EXCEPT !.todo = @ \ {k}] /\ UNCHANGED <<site, store, quiet>>
        /\ run.pc = "fetch" /\ Matches(k)
    BY DEF NotModified
  <1>2. /\ run'.todo = run.todo \ {k} /\ run'.txn = run.txn /\ run'.pc = "fetch"
        /\ run'.changed = run.changed /\ run'.calm = run.calm /\ run'.seen = run.seen
        /\ run'.limit = run.limit /\ run'.errors = run.errors /\ run'.fatal = run.fatal
        /\ run'.over = run.over
    BY <1>1, RunDomains
  <1>3. Current(k, run.txn.res[k])
    BY <1>1 DEF Matches, Current
  <1>4. Pictured'
    BY <1>1, <1>2, <1>3 DEF Pictured, Full, Offered, Mirrors, Current
  <1>5. Replaying'
    BY <1>1, <1>2 DEF Replaying, Mirrors, Current
  <1> QED
    BY <1>4, <1>5

(* What a discovery finds on a row that mirrors the page.                  *)
LEMMA FoundAgain ==
  ASSUME NEW k \in Key, site[k] # Absent, NEW row \in Resource, NEW log \in Journal
  PROVE  /\ Mirrors(k, Found(row, site[k])) /\ Found(row, site[k]).etag = row.etag
         /\ Found(row, site[k]).body = row.body
         /\ Mirrors(k, row) => /\ Found(row, site[k]) = row /\ Noted(log, row, site[k]) = log
                               /\ ~IsChange(row, site[k])
  <1> DEFINE page == site[k]
  <1>2. Mirrors(k, Found(row, page)) /\ Found(row, page).etag = row.etag
        /\ Found(row, page).body = row.body
    BY DEF Found, Resource, Mirrors
  <1>3. ASSUME Mirrors(k, row)
        PROVE  Found(row, page) = row /\ Noted(log, row, page) = log /\ ~IsChange(row, page)
    <2>1. row.status = "active" /\ row.url = page.url /\ row.meta = page.meta
      BY <1>3 DEF Mirrors
    <2>2. Found(row, page) = [row EXCEPT !.status = row.status, !.url = row.url, !.meta = row.meta]
      BY <2>1 DEF Found
    <2>3. Found(row, page) = row
      BY <2>2 DEF Resource
    <2>4. Noted(log, row, page) = [log EXCEPT !.life = log.life, !.url = log.url, !.meta = log.meta]
      BY <2>1 DEF Noted, Journal
    <2>5. Noted(log, row, page) = log
      BY <2>4 DEF Journal
    <2> QED
      BY <2>1, <2>3, <2>5 DEF IsChange
  <1> QED
    BY <1>2, <1>3

LEMMA DiscoverReplays ==
  ASSUME Observed, Replaying, Discover \/ DiscoverFails
  PROVE  Pictured' /\ Replaying'
  <1> DEFINE t == run.txn
  <1>1. /\ run.pc = "discover" /\ UNCHANGED <<site, store, quiet>>
    BY DiscoverySteps
  <1>2. PICK L \in Walks : \E S \in SUBSET Listed(L, {}) :
          /\ run'.txn = Entered(t, L, S) /\ run'.seen = S
          /\ run'.limit = run.limit /\ run'.calm = run.calm
          /\ \/ run'.pc = "finish" /\ run'.fatal = "failed" /\ run'.changed = run.changed
             \/ /\ run'.todo = S /\ run'.download = run.download
                /\ run'.pc = (IF run.download THEN "fetch" ELSE "finish")
                /\ run'.changed = (\E k \in S : IsChange(t.res[k], L[k]))
                /\ (run.limit = NoLimit => S = Listed(L, run'.over))
    BY DiscoverySteps
  <1>3. PICK S \in SUBSET Listed(L, {}) :
          /\ run'.txn = Entered(t, L, S) /\ run'.seen = S
          /\ run'.limit = run.limit /\ run'.calm = run.calm
          /\ \/ run'.pc = "finish" /\ run'.fatal = "failed" /\ run'.changed = run.changed
             \/ /\ run'.todo = S /\ run'.download = run.download
                /\ run'.pc = (IF run.download THEN "fetch" ELSE "finish")
                /\ run'.changed = (\E k \in S : IsChange(t.res[k], L[k]))
                /\ (run.limit = NoLimit => S = Listed(L, run'.over))
    BY <1>2
  <1>4. TypeOK /\ t \in Store
    BY RunFields DEF Observed, Journaled
  <1>5. \A k \in Key : t.res[k] \in Resource /\ t.log[k] \in Journal
    BY RunDomains
  <1>6. /\ S \subseteq Key /\ run'.txn \in Store
        /\ \A k \in Key :
             /\ run'.txn.res[k] = IF k \in S THEN Found(t.res[k], L[k]) ELSE t.res[k]
             /\ run'.txn.log[k] = IF k \in S THEN Noted(t.log[k], t.res[k], L[k]) ELSE t.log[k]
    BY <1>3, <1>4, EnteredRows
  <1>7. ASSUME run.calm
        PROVE  /\ \A k \in Key : L[k] = site[k]
               /\ S \subseteq Offered /\ Listed(L, {}) = Offered
    <2>1. \A k \in Key : L[k] = site[k]
      BY <1>1, <1>7 DEF Walks, Observed, Shown
    <2>2. Listed(L, {}) = Offered
      BY <2>1 DEF Listed, Offered
    <2> QED
      BY <2>1, <2>2
  <1>8. Pictured'
    <2>1. CASE run'.fatal = "failed"
      BY <2>1 DEF Pictured, Full
    <2>2. CASE run'.fatal # "failed"
      <3>1. /\ run'.todo = S /\ run'.download = run.download
            /\ run'.pc = (IF run.download THEN "fetch" ELSE "finish")
            /\ (run.limit = NoLimit => S = Listed(L, run'.over))
        BY <1>3, <2>2
      <3>2. ASSUME run.calm, Full', run'.over = {}
            PROVE  S = Offered /\ \A k \in S : Mirrors(k, run'.txn.res[k])
        <4>1. S = Offered
          BY <1>3, <1>7, <3>1, <3>2 DEF Full
        <4>2. ASSUME NEW k \in S PROVE Mirrors(k, run'.txn.res[k])
          <5>1. k \in Key /\ site[k] # Absent /\ run'.txn.res[k] = Found(t.res[k], site[k])
            BY <1>6, <1>7, <3>2, <4>1 DEF Offered
          <5> QED
            BY <1>5, <5>1, FoundAgain
        <4> QED
          BY <4>1, <4>2
      <3> QED
        BY <1>1, <1>3, <3>1, <3>2 DEF Pictured, Offered, Mirrors
    <2> QED
      BY <2>1, <2>2
  <1>9. ASSUME quiet
        PROVE  run'.calm /\ ~run'.changed /\ run'.txn.res = store.res /\ run'.txn.log = store.log
    <2>1. /\ run.calm /\ ~run.changed /\ t.res = store.res /\ t.log = store.log
          /\ \A k \in Key : Mirrors(k, t.res[k])
      BY <1>1, <1>9 DEF Replaying
    <2>2. \A k \in S : /\ Found(t.res[k], L[k]) = t.res[k] /\ ~IsChange(t.res[k], L[k])
                       /\ Noted(t.log[k], t.res[k], L[k]) = t.log[k]
      <3> TAKE k \in S
      <3>1. k \in Key /\ site[k] # Absent /\ L[k] = site[k]
        BY <1>7, <2>1 DEF Offered
      <3> QED
        BY <1>5, <2>1, <3>1, FoundAgain
    <2>3. \A k \in Key : run'.txn.res[k] = t.res[k] /\ run'.txn.log[k] = t.log[k]
      BY <1>6, <2>2
    <2>4. run'.txn.res = t.res /\ run'.txn.log = t.log
      <3>1. run'.txn.res \in [Key -> Resource] /\ run'.txn.log \in [Key -> Journal]
        BY <1>6 DEF Store
      <3> QED
        BY <2>3, <3>1, RunDomains
    <2>5. ~run'.changed
      BY <1>3, <2>1, <2>2
    <2> QED
      BY <1>3, <2>1, <2>4, <2>5
  <1>10. Replaying'
    BY <1>1, <1>9 DEF Replaying, Mirrors, Current
  <1> QED
    BY <1>8, <1>10

(* The bytes of a row that is current are downloaded only where no         *)
(* validator is sent, and are then what the row has.                       *)
LEMMA DownloadReplays ==
  ASSUME Observed, Pictured, Replaying, NEW k \in Key, Download(k)
  PROVE  Pictured' /\ Replaying'
  <1> DEFINE b == site[k].body
             row == run.txn.res[k]
             new == Downloaded(row, b)
             log == [run.txn.log EXCEPT ![k].body = IF row.body # b THEN b ELSE @]
             txn == [run.txn EXCEPT
               !.artifact[b] = IF @ = "none" THEN "imported" ELSE @,
               !.res[k] = Downloaded(@, b),
               !.log[k].body = IF row.body # b THEN b ELSE @]
  <1>1. /\ run' = [run EXCEPT !.todo = @ \ {k}, !.downloaded = TRUE, !.txn = txn,
                              !.changed = @ \/ row.body \notin {Nothing, b}]
        /\ UNCHANGED <<site, store, quiet>> /\ run.pc = "fetch" /\ ~Matches(k) /\ site[k] # Absent
    BY DEF Download
  <1>2. txn.res = [run.txn.res EXCEPT ![k] = new] /\ txn.log = log
    BY RunDomains
  <1> HIDE DEF txn
  <1>3. /\ run'.todo = run.todo \ {k} /\ run'.txn = txn /\ run'.pc = "fetch"
        /\ run'.calm = run.calm /\ run'.seen = run.seen /\ run'.limit = run.limit
        /\ run'.errors = run.errors /\ run'.fatal = run.fatal /\ run'.over = run.over
        /\ run'.changed = (run.changed \/ row.body \notin {Nothing, b})
    BY <1>1, RunDomains
  <1>4. row \in Resource /\ run.txn.res \in [Key -> Resource]
    BY RunDomains
  <1>5. /\ new.status = row.status /\ new.url = row.url /\ new.meta = row.meta /\ new.body = b
        /\ new.etag = IF EtagOf[b] # Nothing THEN EtagOf[b] ELSE row.etag
    BY <1>4 DEF Downloaded, Resource
  <1>6. Pictured'
    <2>1. run'.txn.res[k] = new /\ \A j \in Key \ {k} : run'.txn.res[j] = run.txn.res[j]
      BY <1>2, <1>3, <1>4
    <2>2. Current(k, new) /\ (Mirrors(k, row) => Mirrors(k, new))
      BY <1>5 DEF Current, Mirrors
    <2> HIDE DEF new, row, b
    <2>3. ASSUME run.calm, Full, run.over = {}, NEW j \in Offered
          PROVE  /\ Mirrors(j, run'.txn.res[j])
                 /\ j \notin run'.todo /\ ~run.errors => Current(j, run'.txn.res[j])
      <3>1. /\ Mirrors(j, run.txn.res[j])
            /\ j \notin run.todo /\ ~run.errors => Current(j, run.txn.res[j])
        BY <1>1, <2>3 DEF Pictured
      <3> QED
        BY <1>3, <2>1, <2>2, <3>1 DEF row, Offered
    <2> QED
      BY <1>1, <1>3, <2>3 DEF Pictured, Full, Offered, Mirrors, Current
  <1>7. ASSUME quiet
        PROVE  ~run'.changed /\ run'.txn.res = store.res /\ run'.txn.log = store.log
    <2>1. /\ ~run.changed /\ run.txn.res = store.res /\ run.txn.log = store.log
          /\ Current(k, row)
      BY <1>1, <1>7 DEF Replaying
    <2>2. EtagOf[b] = Nothing /\ row.body = b
      BY <1>1, <2>1 DEF Current, Matches
    <2>3. new = row
      BY <1>4, <2>2 DEF Downloaded, Resource
    <2>4. log = run.txn.log
      <3>1. log = [run.txn.log EXCEPT ![k] = [run.txn.log[k] EXCEPT !.body = run.txn.log[k].body]]
        BY <2>2, RunDomains
      <3>2. [run.txn.log[k] EXCEPT !.body = run.txn.log[k].body] = run.txn.log[k]
        BY RunDomains DEF Journal
      <3> QED
        BY <3>1, <3>2, RunDomains
    <2> HIDE DEF new
    <2>5. run'.txn.res = run.txn.res
      BY <1>2, <1>3, <1>4, <2>3
    <2> QED
      BY <1>2, <1>3, <2>1, <2>2, <2>4, <2>5
  <1>8. Replaying'
    BY <1>1, <1>3, <1>7 DEF Replaying, Mirrors, Current
  <1> QED
    BY <1>6, <1>8

(* A commit while the site stands: it writes what it found.                *)
LEMMA CommitReplays ==
  ASSUME Observed, Pictured, Replaying, Commit
  PROVE  /\ quiet /\ run.over = {} => /\ Missing = {} /\ ~run.changed
                                      /\ store'.res = store.res /\ store'.log = store.log
         /\ Pictured' /\ Replaying'
  <1>1. /\ run.pc \in {"fetch", "finish"}
        /\ run.pc = "fetch" => run.todo = {}
        /\ quiet' => /\ run.over = {}
                     /\ IF Full /\ run.download /\ RunStatus = "succeeded" THEN run.calm ELSE quiet
        /\ run' = NoRun /\ UNCHANGED site
    BY DEF Commit
  <1>2. run'.pc = "idle"
    BY <1>1 DEF NoRun
  <1>3. store'.res \in [Key -> Resource] /\ store'.log \in [Key -> Journal]
    BY Committed DEF Store
  <1>4. ASSUME quiet, run.over = {}
        PROVE  /\ Missing = {} /\ ~run.changed
               /\ store'.res = store.res /\ store'.log = store.log
    <2>1. /\ run.calm /\ ~run.changed /\ run.txn.res = store.res /\ run.txn.log = store.log
          /\ \A k \in Key : Mirrors(k, run.txn.res[k])
      BY <1>1, <1>4 DEF Replaying
    <2>2. Missing = {}
      <3> SUFFICES ASSUME NEW k \in Missing PROVE FALSE
        OBVIOUS
      <3>1. k \in Key /\ Full /\ k \notin run.seen /\ run.txn.res[k].status = "active"
        BY DEF Missing
      <3>2. run.seen = Offered
        BY <1>1, <1>4, <2>1, <3>1 DEF Pictured
      <3> QED
        BY <2>1, <3>1, <3>2 DEF Mirrors, Offered
    <2>3. \A k \in Key : store'.res[k] = store.res[k] /\ store'.log[k] = store.log[k]
      BY <2>1, <2>2, Committed
    <2>4. store'.res = store.res
      BY <1>3, <2>3, RunDomains
    <2>5. store'.log = store.log
      BY <1>3, <2>3, RunDomains
    <2> QED
      BY <2>1, <2>2, <2>4, <2>5
  <1>5. ASSUME ~quiet, quiet', NEW k \in Key
        PROVE  Mirrors(k, store'.res[k]) /\ Current(k, store'.res[k])
    <2>1. Full /\ run.download /\ RunStatus = "succeeded" /\ run.calm /\ run.over = {}
      BY <1>1, <1>5
    <2>2. run.fatal = "no" /\ run.pc = "fetch" /\ run.todo = {}
      BY <1>1, <2>1 DEF Pictured, Full
    <2>3. ~run.errors
      BY <2>1, <2>2 DEF RunStatus, Observed, Journaled, TypeOK, Run
    <2>4. /\ run.seen = Offered
          /\ k \in Offered => Mirrors(k, run.txn.res[k]) /\ Current(k, run.txn.res[k])
      BY <2>1, <2>2, <2>3 DEF Pictured
    <2>5. CASE k \in Offered
      <3>1. store'.res[k] = run.txn.res[k]
        BY <2>4, <2>5, Committed DEF Missing
      <3> QED
        BY <2>4, <2>5, <3>1
    <2>6. CASE k \notin Offered
      <3>1. store'.res[k].status = IF k \in Missing THEN "disappeared" ELSE run.txn.res[k].status
        BY CommittedRow
      <3>2. k \in Missing <=> run.txn.res[k].status = "active"
        BY <2>1, <2>4, <2>6 DEF Missing
      <3>3. store'.res[k].status # "active"
        BY <3>1, <3>2
      <3> QED
        BY <2>6, <3>3 DEF Mirrors, Current, Offered
    <2> QED
      BY <2>5, <2>6
  <1>6. ASSUME quiet'
        PROVE  \A k \in Key : Mirrors(k, store'.res[k]) /\ Current(k, store'.res[k])
    <2>1. CASE quiet
      BY <1>1, <1>4, <1>6, <2>1 DEF Replaying
    <2> QED
      BY <1>5, <1>6, <2>1
  <1>7. Pictured'
    BY <1>2 DEF Pictured
  <1>8. Replaying'
    BY <1>1, <1>2, <1>6 DEF Replaying, Mirrors, Current
  <1> QED
    BY <1>4, <1>7, <1>8

LEMMA ReplayingNext ==
  ASSUME Observed, Pictured, Replaying, [Next]_vars
  PROVE  Pictured' /\ Replaying'
  <1>1. CASE UNCHANGED vars
    BY <1>1 DEF vars, Pictured, Replaying, Full, Offered, Mirrors, Current
  <1>2. CASE SiteChanges
    <2>1. /\ ~quiet' /\ run'.pc = run.pc /\ run'.download = run.download
          /\ run'.fatal = run.fatal /\ (run.pc # "idle" => ~run'.calm)
      BY <1>2, RunDomains DEF SiteChanges
    <2> QED
      BY <2>1 DEF Pictured, Replaying
  <1>3. CASE RunDies
    BY <1>3 DEF RunDies, NoRun, Pictured, Replaying, Mirrors, Current
  <1>4. ASSUME NEW limit \in Limit, NEW download \in BOOLEAN, Start(limit, download)
        PROVE  Pictured' /\ Replaying'
    <2>1. /\ run'.pc = "gate" /\ run'.calm /\ ~run'.changed /\ run'.txn = store
          /\ UNCHANGED <<site, store, quiet>>
      BY <1>4 DEF Start, NoRun
    <2> QED
      BY <2>1 DEF Pictured, Replaying, Mirrors, Current
  <1> QED
    BY <1>1, <1>2, <1>3, <1>4, RowlessReplays, NotModifiedReplays, DiscoverReplays,
       DownloadReplays, CommitReplays DEF Next, RunStep

(* While the site stands as the last complete run found it, a run of any   *)
(* kind that passes nothing over writes no row and no event and does not   *)
(* call the source changed, with validators or without, for any number of  *)
(* resources and runs.                                                     *)
THEOREM ReplaysFindNothing == Spec => ReplayFindsNothing
  <1>1. Init => Pictured /\ Replaying
    BY DEF Init, NoRun, Pictured, Replaying
  <1>2. Observed /\ Pictured /\ Replaying /\ [Next]_vars => Pictured' /\ Replaying'
    BY ReplayingNext
  <1> DEFINE Step ==
        Commit /\ quiet /\ run.calm /\ ~run.errors /\ run.fatal = "no" /\ run.over = {}
          => store'.res = store.res /\ store'.log = store.log /\ store'.health # "changed"
  <1>3. Observed /\ Pictured /\ Replaying => [Step]_vars
    BY CommitReplays, CommittedHealth
  <1> QED
    BY <1>1, <1>2, <1>3, ObservedAlways, PTL DEF Spec, ReplayFindsNothing
=============================================================================
