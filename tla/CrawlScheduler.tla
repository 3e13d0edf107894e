---------------------------- MODULE CrawlScheduler ----------------------------
(***************************************************************************)
(* How recurring crawls are started: the scheduler's tick, the Redis job   *)
(* list, the workers that run sync_source, and operators who run it from   *)
(* the command line, all meeting on the source_crawl_state table.          *)
(*                                                                         *)
(* The table is under PostgreSQL's READ COMMITTED: a transaction reads     *)
(* what others have committed, its first UPDATE or INSERT of a row takes   *)
(* the row's lock until it ends, and a writer that finds the lock taken    *)
(* waits.  `db' is the committed table; `owner' is who holds each row.     *)
(* A whole run of sync_source is one such transaction.                     *)
(*                                                                         *)
(* Times are kept as what is left of them: `ttl' until locked_until, `due' *)
(* until next_check_at, 0 once passed (or NULL).  Elapse moves them all.   *)
(*                                                                         *)
(* A definition named Wrong... is a plausible slip in the definition that  *)
(* follows it; no action uses it.  The README says which property sees it. *)
(***************************************************************************)
EXTENDS Integers, Sequences, FiniteSets

CONSTANTS
    Source,      \* registered, enabled sources
    Host,        \* URL hosts
    HostOf,      \* [Source -> Host]: host of base_url
    Cap,         \* [Source -> Nat]: rate_limit.concurrent_requests
    Priority,    \* [Source -> Nat]: the order of due_sources (priority, id)
    Ticker,      \* what calls scheduler_tick: scheduler_loop, or a timer
    Worker,      \* what runs RedisQueue.worker_loop
    Manual,      \* processes that call sync_source directly (CLI, ingest job)
    Nobody,      \* no process, no source
    TickLimit,   \* sources one tick may enqueue
    EnqueueTTL,  \* ENQUEUE_TTL_S in clock steps
    OkDelay,     \* what next_check_at may give after a run that did not fail
    FailDelay,   \* and after one that failed
    MaxDelay,    \* bound of both
    FailCap,     \* consecutive_failures is counted up to here
    MaxQueue,    \* bound: jobs waiting in Redis
    MaxMishaps,  \* bound: processes that die or raise in one behaviour
    Prompt       \* TRUE: no reservation expires before its job is finished

Runner == Worker \cup Manual
Process == Ticker \cup Runner
Daemon == Ticker \cup Worker

ASSUME HostAssumption == HostOf \in [Source -> Host] /\ Cap \in [Source -> Nat]
ASSUME PriorityAssumption ==
    /\ Priority \in [Source -> Nat]
    /\ \A r, s \in Source : Priority[r] = Priority[s] => r = s
ASSUME ProcessAssumption ==
    /\ Ticker \cap Runner = {} /\ Worker \cap Manual = {}
    /\ Nobody \notin Process \cup Source
ASSUME NumberAssumption ==
    /\ TickLimit \in Nat /\ EnqueueTTL \in Nat \ {0} /\ FailCap \in Nat \ {0}
    /\ MaxQueue \in Nat /\ MaxMishaps \in Nat /\ MaxDelay \in Nat
    /\ OkDelay \subseteq 1 .. MaxDelay /\ FailDelay \subseteq 1 .. MaxDelay
ASSUME PromptAssumption == Prompt \in BOOLEAN
ASSUME SourceAssumption == IsFiniteSet(Source)

VARIABLES
    db,      \* committed source_crawl_state rows
    owner,   \* the process whose open transaction holds each row's lock
    queue,   \* job list, the source keys of waiting sync_source jobs
    tick,    \* local state of every scheduler_tick call
    run,     \* local state of every sync_source call
    up,      \* which of the tickers and workers have a process
    streak,  \* history: failed runs of the source committed since the last success
    mishaps  \* history: how many processes have died or raised

vars == <<db, owner, queue, tick, run, up, streak, mishaps>>

-----------------------------------------------------------------------------
(* Rows, local states.                                                     *)

Row == [exists : BOOLEAN, token : {"none", "enqueue", "run"},
        ttl : 0 .. EnqueueTTL, due : 0 .. MaxDelay, fails : 0 .. FailCap]

NoRow == [exists |-> FALSE, token |-> "none", ttl |-> 0, due |-> 0, fails |-> 0]

(* lease is what is left of ENQUEUE_TTL_S since the tick took its `now';   *)
(* found is whether the row of the source in hand was there when SELECTed. *)
TickState == [pc : {"idle", "load", "plan", "lock", "enqueue"},
              due : SUBSET Source, load : [Host -> Nat], chosen : SUBSET Source,
              found : BOOLEAN, lease : 0 .. EnqueueTTL]

NoTick == [pc |-> "idle", due |-> {}, load |-> [h \in Host |-> 0],
           chosen |-> {}, found |-> FALSE, lease |-> 0]

RunState == [pc : {"idle", "popped", "claiming", "running"},
             src : Source \cup {Nobody}, found : BOOLEAN, fails : 0 .. FailCap]

NoRun == [pc |-> "idle", src |-> Nobody, found |-> FALSE, fails |-> 0]

(* A lock that is live: locked_until > now.                                *)
Live(s) == db[s].ttl > 0

LiveOn(h) == {s \in Source : HostOf[s] = h /\ Live(s)}

(* The order of due_sources: the first of a set of sources by priority.    *)
IsFirst(s, S) == s \in S /\ \A r \in S : Priority[s] <= Priority[r]

WrongRelease(p) == UNCHANGED owner

(* A transaction of p ends: every row it held is free.                     *)
Release(p) == owner' = [s \in Source |-> IF owner[s] = p THEN Nobody ELSE owner[s]]

Count(n) == IF n < FailCap THEN n + 1 ELSE n

Init ==
    /\ db = [s \in Source |-> NoRow]
    /\ owner = [s \in Source |-> Nobody]
    /\ queue = <<>>
    /\ tick = [t \in Ticker |-> NoTick]
    /\ run = [p \in Runner |-> NoRun]
    /\ up = [d \in Daemon |-> TRUE]
    /\ streak = [s \in Source |-> 0]
    /\ mishaps = 0

-----------------------------------------------------------------------------
(* scheduler_tick                                                          *)

WrongDueSourcesLocked == {s \in Source : db[s].due = 0}
WrongDueSourcesLost == {s \in Source : db[s].due = 0 /\ db[s].token = "none"}

(* due_sources: one read of the sources whose check is due and which hold  *)
(* no live lock.                                                           *)
DueSources == {s \in Source : db[s].due = 0 /\ ~Live(s)}

TickStart(t) ==
    /\ tick[t].pc = "idle" /\ up[t]
    /\ tick' = [tick EXCEPT ![t] = [NoTick EXCEPT !.pc = "load", !.due = DueSources,
                                                  !.lease = EnqueueTTL]]
    /\ UNCHANGED <<db, owner, queue, run, up, streak, mishaps>>

(* The reserving transaction opens with _host_load, a count of live locks. *)
TickLoad(t) ==
    /\ tick[t].pc = "load"
    /\ tick' = [tick EXCEPT ![t] = [@ EXCEPT !.pc = "plan",
                                             !.load = [h \in Host |-> Cardinality(LiveOn(h))]]]
    /\ UNCHANGED <<db, owner, queue, run, up, streak, mishaps>>

(* The loop over the due sources: it stops at the limit...                 *)
More(t) == tick[t].due # {} /\ Cardinality(tick[t].chosen) < TickLimit

WrongAtCap(t, s) == tick[t].load[HostOf[s]] > Cap[s]

AtCap(t, s) == tick[t].load[HostOf[s]] >= Cap[s]

(* ... leaves out a source whose host is at its cap ...                    *)
TickSkip(t) ==
    /\ tick[t].pc = "plan" /\ More(t)
    /\ \E s \in Source :
       /\ IsFirst(s, tick[t].due)
       /\ AtCap(t, s)
       /\ tick' = [tick EXCEPT ![t].due = @ \ {s}]
    /\ UNCHANGED <<db, owner, queue, run, up, streak, mishaps>>

(* ... and SELECTs the state row of any other,                             *)
TickSelect(t) ==
    /\ tick[t].pc = "plan" /\ More(t)
    /\ \E s \in Source :
       /\ IsFirst(s, tick[t].due)
       /\ ~AtCap(t, s)
       /\ tick' = [tick EXCEPT ![t] = [@ EXCEPT !.pc = "lock", !.found = db[s].exists]]
    /\ UNCHANGED <<db, owner, queue, run, up, streak, mishaps>>

(* which it then stamps (or inserts): the write waits for the row's lock.  *)
Chose(t, s) ==
    [tick[t] EXCEPT !.pc = "plan", !.due = @ \ {s}, !.chosen = @ \cup {s},
                    !.load = [tick[t].load EXCEPT ![HostOf[s]] = @ + 1]]

TickReserve(t) ==
    /\ tick[t].pc = "lock"
    /\ \E s \in Source :
       /\ IsFirst(s, tick[t].due)
       /\ owner[s] = Nobody
       /\ tick[t].found \/ ~db[s].exists
       /\ owner' = [owner EXCEPT ![s] = t]
       /\ tick' = [tick EXCEPT ![t] = Chose(t, s)]
    /\ UNCHANGED <<db, queue, run, up, streak, mishaps>>

(* An INSERT that waited for another INSERT of the same row: the unique    *)
(* source_id refuses it, the transaction rolls back and scheduler_tick     *)
(* raises.  Nothing in scheduler_loop catches that, so the loop ends.      *)
TickConflict(t) ==
    /\ tick[t].pc = "lock"
    /\ \E s \in Source :
       IsFirst(s, tick[t].due) /\ owner[s] = Nobody /\ ~tick[t].found /\ db[s].exists
    /\ Release(t)
    /\ tick' = [tick EXCEPT ![t] = NoTick]
    /\ up' = [up EXCEPT ![t] = FALSE]
    /\ UNCHANGED <<db, queue, run, streak, mishaps>>

(* The reservations become visible together.  locked_until counts from the *)
(* tick's start.                                                           *)
TickCommit(t) ==
    /\ tick[t].pc = "plan" /\ ~More(t)
    /\ db' = [s \in Source |->
                IF s \in tick[t].chosen
                THEN [db[s] EXCEPT !.exists = TRUE, !.token = "enqueue", !.ttl = tick[t].lease]
                ELSE db[s]]
    /\ Release(t)
    /\ tick' = [tick EXCEPT ![t] = IF @.chosen = {} THEN NoTick
                                   ELSE [NoTick EXCEPT !.pc = "enqueue", !.chosen = tick[t].chosen]]
    /\ UNCHANGED <<queue, run, up, streak, mishaps>>

WrongTickEnqueue(t) ==
    /\ tick[t].pc = "enqueue"
    /\ Len(queue) < MaxQueue
    /\ \E s \in Source :
       /\ IsFirst(s, tick[t].chosen)
       /\ queue' = Append(queue, HostOf[s])
       /\ tick' = [tick EXCEPT ![t] = IF tick[t].chosen = {s} THEN NoTick
                                      ELSE [tick[t] EXCEPT !.chosen = tick[t].chosen \ {s}]]
    /\ UNCHANGED <<db, owner, run, up, streak, mishaps>>

(* Then one RPUSH per chosen source, with its source_key.                  *)
TickEnqueue(t) ==
    /\ tick[t].pc = "enqueue"
    /\ Len(queue) < MaxQueue
    /\ \E s \in Source :
       /\ IsFirst(s, tick[t].chosen)
       /\ queue' = Append(queue, s)
       /\ tick' = [tick EXCEPT ![t] = IF tick[t].chosen = {s} THEN NoTick
                                      ELSE [tick[t] EXCEPT !.chosen = tick[t].chosen \ {s}]]
    /\ UNCHANGED <<db, owner, run, up, streak, mishaps>>

(* The ticking process dies, or raises because Redis or PostgreSQL is      *)
(* gone: an open transaction rolls back, jobs not yet pushed are never     *)
(* pushed, and the loop has ended.                                         *)
TickDies(t) ==
    /\ up[t] /\ mishaps < MaxMishaps
    /\ Release(t)
    /\ tick' = [tick EXCEPT ![t] = NoTick]
    /\ up' = [up EXCEPT ![t] = FALSE]
    /\ mishaps' = mishaps + 1
    /\ UNCHANGED <<db, queue, run, streak>>

-----------------------------------------------------------------------------
(* sync_source                                                             *)

(* worker_loop: BLPOP removes the job before the handler starts.           *)
RunPop(p) ==
    /\ p \in Worker /\ run[p].pc = "idle" /\ up[p] /\ queue # <<>>
    /\ queue' = Tail(queue)
    /\ run' = [run EXCEPT ![p] = [NoRun EXCEPT !.pc = "popped", !.src = Head(queue)]]
    /\ UNCHANGED <<db, owner, tick, up, streak, mishaps>>

(* `sources sync' on the command line.                                     *)
RunByHand(p, s) ==
    /\ p \in Manual /\ run[p].pc = "idle"
    /\ run' = [run EXCEPT ![p] = [NoRun EXCEPT !.pc = "popped", !.src = s]]
    /\ UNCHANGED <<db, owner, queue, tick, up, streak, mishaps>>

(* claim_source refuses a live lock that is not a reservation.             *)
Refused(row) == row.ttl > 0 /\ row.token # "enqueue"

(* The state row is read and the claim judged by what is committed; the    *)
(* object in memory keeps the failure count it was read with.              *)
RunRead(p) ==
    /\ run[p].pc = "popped"
    /\ LET row == db[run[p].src] IN
       run' = [run EXCEPT ![p] = IF Refused(row) THEN NoRun
                                 ELSE [@ EXCEPT !.pc = "claiming", !.found = row.exists,
                                                !.fails = row.fails]]
    /\ UNCHANGED <<db, owner, queue, tick, up, streak, mishaps>>

WrongRunClaim(p) ==
    /\ run[p].pc = "claiming"
    /\ run' = [run EXCEPT ![p].pc = "running"]
    /\ UNCHANGED <<db, owner, queue, tick, up, streak, mishaps>>

(* The claim's flush: token and locked_until are written, not committed.   *)
RunClaim(p) ==
    /\ run[p].pc = "claiming"
    /\ LET s == run[p].src IN
       /\ owner[s] = Nobody
       /\ run[p].found \/ ~db[s].exists
       /\ owner' = [owner EXCEPT ![s] = p]
    /\ run' = [run EXCEPT ![p].pc = "running"]
    /\ UNCHANGED <<db, queue, tick, up, streak, mishaps>>

(* Two first runs of one source: the later INSERT fails on source_id.      *)
RunConflict(p) ==
    /\ run[p].pc = "claiming"
    /\ LET s == run[p].src IN owner[s] = Nobody /\ ~run[p].found /\ db[s].exists
    /\ run' = [run EXCEPT ![p] = NoRun]
    /\ UNCHANGED <<db, owner, queue, tick, up, streak, mishaps>>

WrongFailsAfter(failed, loaded, stored) == IF failed THEN Count(loaded) ELSE stored

(* What the final UPDATE does to the failure counter: the ORM writes only  *)
(* attributes that differ from what was loaded, so a reset to the loaded   *)
(* value 0 writes nothing.                                                 *)
FailsAfter(failed, loaded, stored) ==
    IF failed THEN Count(loaded) ELSE IF loaded = 0 THEN stored ELSE 0

(* _finish and COMMIT: outcome, next check and released lock at once.      *)
RunCommit(p) ==
    /\ run[p].pc = "running"
    /\ \E failed \in BOOLEAN :
       \E delay \in IF failed THEN FailDelay ELSE OkDelay :
         LET s == run[p].src IN
         /\ db' = [db EXCEPT ![s] =
                     [exists |-> TRUE, token |-> "none", ttl |-> 0, due |-> delay,
                      fails |-> FailsAfter(failed, run[p].fails, @.fails)]]
         /\ streak' = [streak EXCEPT ![s] = IF failed THEN Count(streak[s]) ELSE 0]
    /\ Release(p)
    /\ run' = [run EXCEPT ![p] = NoRun]
    /\ UNCHANGED <<queue, tick, up, mishaps>>

(* The run raises: PostgreSQL rolls back, and worker_loop puts the job     *)
(* into the :failed list, from which nothing takes it, and goes on.        *)
RunDies(p) ==
    /\ run[p].pc # "idle" /\ mishaps < MaxMishaps
    /\ Release(p)
    /\ run' = [run EXCEPT ![p] = NoRun]
    /\ mishaps' = mishaps + 1
    /\ UNCHANGED <<db, queue, tick, up, streak>>

(* The worker ends: killed, or by Redis failing in BLPOP or in the push to *)
(* :failed, which are outside the loop's try.                              *)
WorkerDies(p) ==
    /\ p \in Worker /\ up[p] /\ mishaps < MaxMishaps
    /\ Release(p)
    /\ run' = [run EXCEPT ![p] = NoRun]
    /\ up' = [up EXCEPT ![p] = FALSE]
    /\ mishaps' = mishaps + 1
    /\ UNCHANGED <<db, queue, tick, streak>>

(* Somebody starts a process again: the timer's next `scheduler tick', a   *)
(* supervisor of the loop or the worker.  None is part of the repository.  *)
Restart(d) ==
    /\ ~up[d]
    /\ up' = [up EXCEPT ![d] = TRUE]
    /\ UNCHANGED <<db, owner, queue, tick, run, streak, mishaps>>

-----------------------------------------------------------------------------
(* Time                                                                    *)

InQueue(s) == \E i \in 1 .. Len(queue) : queue[i] = s

(* A job for s reserved by a tick is still to be pushed, popped or done.   *)
Outstanding(s) ==
    \/ InQueue(s)
    \/ \E t \in Ticker : tick[t].pc = "enqueue" /\ s \in tick[t].chosen
    \/ \E p \in Worker : run[p].pc # "idle" /\ run[p].src = s

(* What Prompt rules out: the clock passing the end of a lease in use.     *)
InTime ==
    /\ \A s \in Source : Outstanding(s) => db[s].ttl # 1
    /\ \A t \in Ticker : tick[t].pc \in {"load", "plan", "lock"} => tick[t].lease > 1

Less(n) == IF n > 0 THEN n - 1 ELSE 0

Elapse ==
    /\ Prompt => InTime
    /\ db' = [s \in Source |-> [db[s] EXCEPT !.ttl = Less(@), !.due = Less(@)]]
    /\ tick' = [t \in Ticker |-> [tick[t] EXCEPT !.lease = Less(@)]]
    /\ UNCHANGED <<owner, queue, run, up, streak, mishaps>>

-----------------------------------------------------------------------------
TickStep(t) ==
    \/ TickStart(t) \/ TickLoad(t) \/ TickSkip(t) \/ TickSelect(t) \/ TickReserve(t)
    \/ TickConflict(t) \/ TickCommit(t) \/ TickEnqueue(t)

RunStep(p) == RunPop(p) \/ RunRead(p) \/ RunClaim(p) \/ RunConflict(p) \/ RunCommit(p)

Next ==
    \/ \E t \in Ticker : TickStep(t) \/ TickDies(t)
    \/ \E p \in Runner : RunStep(p) \/ RunDies(p) \/ WorkerDies(p)
    \/ \E d \in Daemon : Restart(d)
    \/ \E p \in Manual, s \in Source : RunByHand(p, s)
    \/ Elapse

Spec == Init /\ [][Next]_vars

(* While they have a process, scheduler_loop goes on ticking and           *)
(* worker_loop goes on popping, and PostgreSQL grants a row lock in the    *)
(* order it was asked for, so a writer that waits gets its turn (SF).      *)
(* Nothing makes an operator start a run, or start again what has ended.   *)
Fairness ==
    /\ WF_vars(Elapse)
    /\ \A t \in Ticker : WF_vars(TickStep(t)) /\ SF_vars(TickReserve(t) \/ TickConflict(t))
    /\ \A p \in Runner : WF_vars(RunStep(p)) /\ SF_vars(RunClaim(p) \/ RunConflict(p))

FairSpec == Spec /\ Fairness

-----------------------------------------------------------------------------
(* Properties                                                              *)

(* Types of every variable.                                                *)
TypeOK ==
    /\ db \in [Source -> Row]
    /\ owner \in [Source -> Process \cup {Nobody}]
    /\ queue \in Seq(Source)
    /\ tick \in [Ticker -> TickState]
    /\ run \in [Runner -> RunState]
    /\ up \in [Daemon -> BOOLEAN]
    /\ streak \in [Source -> 0 .. FailCap]
    /\ mishaps \in 0 .. MaxMishaps

Running(p, s) == run[p].pc = "running" /\ run[p].src = s

(* No two runs ever work on one source at once, however they were started: *)
(* the promise of claim_source ("two runs never process one source         *)
(* concurrently").                                                         *)
OneRunPerSource ==
    \A s \in Source : \A p, q \in Runner : Running(p, s) /\ Running(q, s) => p = q

HostCaps(h) == {Cap[s] : s \in {r \in Source : HostOf[r] = h}}

(* The sources of one host that a worker is crawling at this moment.       *)
CrawledOn(h) == {s \in Source : HostOf[s] = h /\ \E p \in Worker : Running(p, s)}

(* Scheduled runs on one host never exceed the largest cap of its sources: *)
(* "per-host concurrency ... capped" of scheduler.py and crawler-operations*)
HostRunsWithinCap ==
    \A h \in Host : CrawledOn(h) # {} =>
        \E c \in HostCaps(h) : Cardinality(CrawledOn(h)) <= c

(* The weaker guarantee that holds at any speed: reservations that are     *)
(* still live never exceed the largest cap of the host.                    *)
LiveReservationsWithinCap ==
    \A h \in Host : LiveOn(h) # {} =>
        \E c \in HostCaps(h) : Cardinality(LiveOn(h)) <= c

(* The places a scheduled job of s can be in.                              *)
JobSites(s) ==
    {<<"queue", i>> : i \in {j \in 1 .. Len(queue) : queue[j] = s}}
      \cup {<<"tick", t>> : t \in {u \in Ticker : tick[u].pc = "enqueue" /\ s \in tick[u].chosen}}
      \cup {<<"run", p>> : p \in {q \in Worker : run[q].pc # "idle" /\ run[q].src = s}}

(* A source never has two scheduled jobs alive ("a second tick won't       *)
(* double-enqueue").                                                       *)
OneJobPerSource == \A s \in Source : Cardinality(JobSites(s)) <= 1

(* A tick reserves a source only if at the moment of the commit, not just  *)
(* when due_sources was read, it is due and carries no live lock.          *)
ReservesOnlyEligible ==
    [][\A t \in Ticker : TickCommit(t) =>
         \A s \in tick[t].chosen : db[s].due = 0 /\ ~Live(s)]_vars

(* consecutive_failures is the number of failed runs since the last run    *)
(* that did not fail, in the order the runs committed; health `failing'    *)
(* and the backoff are computed from it.                                   *)
FailureCounterExact == \A s \in Source : db[s].fails = streak[s]

(* Two runs of one source are past claim_source's check at once: the only  *)
(* way in which the counter goes wrong, as the later of the two adds to,   *)
(* or resets, a count that the earlier has changed.                        *)
RunsMeet ==
    \E s \in Source : \E p, q \in Runner :
      /\ p # q
      /\ \A r \in {p, q} : run[r].pc \in {"claiming", "running"} /\ run[r].src = s

(* "Returns the lock token; raises ConflictError when already claimed": no  *)
(* run passes claim_source's check on a source that another run is crawling.*)
ExclusiveClaim ==
    [][\A q \in Runner :
         RunRead(q) /\ run'[q].pc = "claiming" =>
           \A p \in Runner : ~Running(p, run[q].src)]_vars

(* What an operator must provide: whatever ended is started again.         *)
KeptUp(D) == \A d \in D : []<>up[d]

(* Where that is so, every source that is due is eventually crawled,       *)
(* whatever died on the way: a lost job's reservation expires and the      *)
(* source is enqueued again.                                               *)
DueEventuallyRuns ==
    KeptUp(Daemon) => \A s \in Source : db[s].due = 0 ~> \E p \in Runner : Running(p, s)

(* Without it, a scheduler_loop that raised once leaves every source       *)
(* unchecked from then on.                                                 *)
DueEventuallyRunsAlone ==
    \A s \in Source : db[s].due = 0 ~> \E p \in Runner : Running(p, s)

(* Every tick comes to its end: waiting for row locks never closes a       *)
(* cycle.  (Some worker empties the job list, whose length is bounded here.)*)
TickEnds == KeptUp(Worker) => \A t \in Ticker : tick[t].pc # "idle" ~> tick[t].pc = "idle"
=============================================================================
