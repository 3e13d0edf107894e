------------------------- MODULE CrawlSchedulerProofs -------------------------
(***************************************************************************)
(* Proofs about CrawlScheduler, for any sources, hosts, caps, tickers and  *)
(* runners: one run per source whatever the schedulers do, and what one    *)
(* scheduler guarantees about hosts, jobs and failures.                    *)
(***************************************************************************)
EXTENDS CrawlScheduler, FiniteSetTheorems, TLAPS

(* A run that has a job has a source, and one that has passed its claim    *)
(* holds the lock of that source's row until it ends.                      *)
RunHoldsRow ==
    \A p \in Runner :
      /\ run[p].pc # "idle" => run[p].src \in Source
      /\ run[p].pc = "running" => owner[run[p].src] = p

Safe == TypeOK /\ RunHoldsRow

-----------------------------------------------------------------------------
(* The helpers.                                                            *)

LEMMA CountType == \A n \in 0 .. FailCap : Count(n) \in 0 .. FailCap
  BY NumberAssumption DEF Count

LEMMA LessType == \A N \in Nat : \A n \in 0 .. N : Less(n) \in 0 .. N
  BY DEF Less

(* The hosts' loads are numbers because the sources are finitely many.     *)
LEMMA LiveOnFinite ==
  ASSUME NEW h
  PROVE  IsFiniteSet(LiveOn(h)) /\ Cardinality(LiveOn(h)) \in Nat
  <1>1. LiveOn(h) \in SUBSET Source
    BY DEF LiveOn
  <1>2. IsFiniteSet(LiveOn(h))
    BY <1>1, SourceAssumption, FS_Subset
  <1> QED
    BY <1>2, FS_CardinalityType

LEMMA InitTypes == NoRow \in Row /\ NoTick \in TickState /\ NoRun \in RunState
  BY NumberAssumption DEF NoRow, Row, NoTick, TickState, NoRun, RunState

LEMMA ReleaseType ==
  ASSUME NEW p, Release(p), TypeOK
  PROVE  owner' \in [Source -> Process \cup {Nobody}]
  BY DEF Release, TypeOK

-----------------------------------------------------------------------------
(* TypeOK: one lemma for the ticks, one for the runs, one for the clock.   *)

LEMMA TickType ==
  ASSUME NEW t \in Ticker, TypeOK, TickStep(t) \/ TickDies(t)
  PROVE  TypeOK'
  <1>1. CASE TickStart(t)
    <2>1. DueSources \in SUBSET Source /\ EnqueueTTL \in 0 .. EnqueueTTL
      BY NumberAssumption DEF DueSources
    <2>2. [NoTick EXCEPT !.pc = "load", !.due = DueSources, !.lease = EnqueueTTL] \in TickState
      BY <2>1 DEF NoTick, TickState
    <2> QED
      BY <1>1, <2>2 DEF TickStart, TypeOK
  <1>2. CASE TickLoad(t)
    <2>1. [h \in Host |-> Cardinality(LiveOn(h))] \in [Host -> Nat]
      BY LiveOnFinite
    <2>2. [tick[t] EXCEPT !.pc = "plan", !.load = [h \in Host |-> Cardinality(LiveOn(h))]]
            \in TickState
      BY <2>1 DEF TypeOK, TickState
    <2>3. tick' \in [Ticker -> TickState]
      BY <1>2, <2>2 DEF TickLoad, TypeOK
    <2> QED
      BY <1>2, <2>3 DEF TickLoad, TypeOK
  <1>3. CASE TickSkip(t)
    <2>1. PICK s \in Source : tick' = [tick EXCEPT ![t].due = @ \ {s}]
      BY <1>3 DEF TickSkip
    <2>2. tick' \in [Ticker -> TickState]
      BY <2>1, ZenonT(60) DEF TypeOK, TickState
    <2> QED
      BY <1>3, <2>2 DEF TickSkip, TypeOK
  <1>4. CASE TickSelect(t)
    <2>1. PICK s \in Source :
            tick' = [tick EXCEPT ![t] = [@ EXCEPT !.pc = "lock", !.found = db[s].exists]]
      BY <1>4 DEF TickSelect
    <2>2. db[s].exists \in BOOLEAN
      BY DEF TypeOK, Row
    <2>3. [tick[t] EXCEPT !.pc = "lock", !.found = db[s].exists] \in TickState
      BY <2>2 DEF TypeOK, TickState
    <2>4. tick' \in [Ticker -> TickState]
      BY <2>1, <2>3 DEF TypeOK
    <2> QED
      BY <1>4, <2>4 DEF TickSelect, TypeOK
  <1>5. CASE TickReserve(t)
    <2>1. PICK s \in Source : /\ owner' = [owner EXCEPT ![s] = t]
                              /\ tick' = [tick EXCEPT ![t] = Chose(t, s)]
      BY <1>5 DEF TickReserve
    <2>2. HostOf[s] \in Host /\ tick[t] \in TickState
      BY HostAssumption DEF TypeOK
    <2> DEFINE after == [tick[t].load EXCEPT ![HostOf[s]] = @ + 1]
    <2>3. after \in [Host -> Nat]
      BY <2>2 DEF TickState
    <2> HIDE DEF after
    <2>4. [tick[t] EXCEPT !.pc = "plan", !.due = @ \ {s}, !.chosen = @ \cup {s},
                          !.load = after] \in TickState
      BY <2>2, <2>3 DEF TickState
    <2>7. Chose(t, s) \in TickState
      BY <2>4 DEF after, Chose
    <2>5. tick' \in [Ticker -> TickState]
      BY <2>1, <2>7 DEF TypeOK
    <2>6. owner' \in [Source -> Process \cup {Nobody}]
      BY <2>1 DEF TypeOK, Process
    <2> QED
      BY <1>5, <2>5, <2>6 DEF TickReserve, TypeOK
  <1>6. CASE TickConflict(t)
    <2>1. /\ Release(t) /\ tick' = [tick EXCEPT ![t] = NoTick]
          /\ up' \in [Daemon -> BOOLEAN]
      BY <1>6 DEF TickConflict, TypeOK
    <2> QED
      BY <1>6, <2>1, ReleaseType, InitTypes DEF TickConflict, TypeOK
  <1>7. CASE TickCommit(t)
    <2>1. db' \in [Source -> Row]
      <3>1. tick[t].lease \in 0 .. EnqueueTTL
        BY DEF TypeOK, TickState
      <3>2. \A s \in Source :
              [db[s] EXCEPT !.exists = TRUE, !.token = "enqueue", !.ttl = tick[t].lease] \in Row
        BY <3>1 DEF TypeOK, Row
      <3> QED
        BY <1>7, <3>2 DEF TickCommit, TypeOK
    <2>2. [NoTick EXCEPT !.pc = "enqueue", !.chosen = tick[t].chosen] \in TickState
      <3>1. tick[t].chosen \in SUBSET Source
        BY DEF TypeOK, TickState
      <3> QED
        BY <3>1, InitTypes DEF NoTick, TickState
    <2>3. tick' \in [Ticker -> TickState]
      BY <1>7, <2>2, InitTypes DEF TickCommit, TypeOK
    <2>4. Release(t)
      BY <1>7 DEF TickCommit
    <2> QED
      BY <1>7, <2>1, <2>3, <2>4, ReleaseType DEF TickCommit, TypeOK
  <1>8. CASE TickEnqueue(t)
    <2>1. PICK s \in Source :
            /\ queue' = Append(queue, s)
            /\ tick' = [tick EXCEPT ![t] = IF tick[t].chosen = {s} THEN NoTick
                                           ELSE [tick[t] EXCEPT !.chosen = tick[t].chosen \ {s}]]
      BY <1>8 DEF TickEnqueue
    <2>2. [tick[t] EXCEPT !.chosen = tick[t].chosen \ {s}] \in TickState
      BY DEF TypeOK, TickState
    <2>3. tick' \in [Ticker -> TickState]
      BY <2>1, <2>2, InitTypes DEF TypeOK
    <2>4. queue' \in Seq(Source)
      BY <2>1 DEF TypeOK
    <2> QED
      BY <1>8, <2>3, <2>4 DEF TickEnqueue, TypeOK
  <1>9. CASE TickDies(t)
    <2>0. /\ Release(t) /\ mishaps < MaxMishaps /\ mishaps' = mishaps + 1
          /\ up' = [up EXCEPT ![t] = FALSE]
      BY <1>9, Zenon DEF TickDies
    <2>1. mishaps' \in 0 .. MaxMishaps
      BY <2>0, NumberAssumption DEF TypeOK
    <2>4. up' \in [Daemon -> BOOLEAN]
      BY <2>0 DEF TypeOK
    <2>2. owner' \in [Source -> Process \cup {Nobody}] /\ tick' \in [Ticker -> TickState]
      BY <1>9, <2>0, ReleaseType, InitTypes DEF TickDies, TypeOK
    <2>3. UNCHANGED <<db, queue, run, streak>>
      BY <1>9 DEF TickDies
    <2> QED
      BY <2>1, <2>2, <2>3, <2>4 DEF TypeOK
  <1> QED
    BY <1>1, <1>2, <1>3, <1>4, <1>5, <1>6, <1>7, <1>8, <1>9 DEF TickStep

LEMMA RunType ==
  ASSUME NEW p \in Runner, Safe,
         RunStep(p) \/ RunDies(p) \/ WorkerDies(p) \/ \E s \in Source : RunByHand(p, s)
  PROVE  TypeOK'
  <1> USE DEF Safe
  <1>1. CASE RunPop(p)
    <2>1. Head(queue) \in Source /\ Tail(queue) \in Seq(Source)
      BY <1>1 DEF RunPop, TypeOK
    <2>2. [NoRun EXCEPT !.pc = "popped", !.src = Head(queue)] \in RunState
      BY <2>1, InitTypes DEF RunState
    <2> QED
      BY <1>1, <2>1, <2>2 DEF RunPop, TypeOK
  <1>2. CASE RunRead(p)
    <2>1. run[p].src \in Source
      BY <1>2 DEF RunRead, RunHoldsRow
    <2>2. db[run[p].src] \in Row
      BY <2>1 DEF TypeOK
    <2> QED
      BY <1>2, <2>2, InitTypes, ZenonT(60) DEF RunRead, TypeOK, RunState, Row
  <1>3. CASE RunClaim(p)
    <2>1. owner' \in [Source -> Process \cup {Nobody}]
      BY <1>3 DEF RunClaim, TypeOK, Process
    <2>2. [run[p] EXCEPT !.pc = "running"] \in RunState
      BY DEF TypeOK, RunState
    <2>3. run' \in [Runner -> RunState]
      BY <1>3, <2>2 DEF RunClaim, TypeOK
    <2> QED
      BY <1>3, <2>1, <2>3 DEF RunClaim, TypeOK
  <1>4. CASE RunConflict(p)
    BY <1>4, InitTypes DEF RunConflict, TypeOK
  <1>5. CASE RunCommit(p)
    <2>1. run[p].src \in Source /\ run[p].fails \in 0 .. FailCap
      BY <1>5 DEF RunCommit, RunHoldsRow, TypeOK, RunState
    <2>2. PICK failed \in BOOLEAN : \E delay \in IF failed THEN FailDelay ELSE OkDelay :
            /\ db' = [db EXCEPT ![run[p].src] =
                     [exists |-> TRUE, token |-> "none", ttl |-> 0, due |-> delay,
                      fails |-> FailsAfter(failed, run[p].fails, @.fails)]]
            /\ streak' = [streak EXCEPT ![run[p].src] = IF failed THEN Count(streak[run[p].src]) ELSE 0]
      BY <1>5 DEF RunCommit
    <2>3. FailsAfter(failed, run[p].fails, db[run[p].src].fails) \in 0 .. FailCap
      <3>1. db[run[p].src].fails \in 0 .. FailCap
        BY <2>1 DEF TypeOK, Row
      <3>2. 0 \in 0 .. FailCap /\ Count(run[p].fails) \in 0 .. FailCap
        BY <2>1, CountType, NumberAssumption
      <3> QED
        BY <3>1, <3>2 DEF FailsAfter
    <2>4. db' \in [Source -> Row]
      <3>1. PICK delay \in 0 .. MaxDelay :
              db' = [db EXCEPT ![run[p].src] =
                     [exists |-> TRUE, token |-> "none", ttl |-> 0, due |-> delay,
                      fails |-> FailsAfter(failed, run[p].fails, @.fails)]]
        <4>1. (IF failed THEN FailDelay ELSE OkDelay) \subseteq 0 .. MaxDelay
          BY NumberAssumption
        <4> QED
          BY <2>2, <4>1
      <3> QED
        BY <2>1, <2>3, <3>1, NumberAssumption DEF TypeOK, Row
    <2>5. streak' \in [Source -> 0 .. FailCap]
      <3>0. streak[run[p].src] \in 0 .. FailCap
        BY <2>1 DEF TypeOK
      <3>1. 0 \in 0 .. FailCap /\ Count(streak[run[p].src]) \in 0 .. FailCap
        BY <3>0, CountType, NumberAssumption
      <3>2. streak' = [streak EXCEPT ![run[p].src] =
                         IF failed THEN Count(streak[run[p].src]) ELSE 0]
        BY <2>2
      <3> QED
        BY <2>1, <3>1, <3>2 DEF TypeOK
    <2>6. Release(p)
      BY <1>5 DEF RunCommit
    <2> QED
      BY <1>5, <2>4, <2>5, <2>6, ReleaseType, InitTypes DEF RunCommit, TypeOK
  <1>6. CASE RunDies(p) \/ WorkerDies(p)
    <2>0. /\ Release(p) /\ mishaps < MaxMishaps /\ mishaps' = mishaps + 1
          /\ up' = up \/ up' = [up EXCEPT ![p] = FALSE]
      BY <1>6, Zenon DEF RunDies, WorkerDies
    <2>1. mishaps' \in 0 .. MaxMishaps
      BY <2>0, NumberAssumption DEF TypeOK
    <2>4. up' \in [Daemon -> BOOLEAN]
      BY <2>0 DEF TypeOK
    <2>2. owner' \in [Source -> Process \cup {Nobody}] /\ run' \in [Runner -> RunState]
      BY <1>6, <2>0, ReleaseType, InitTypes DEF RunDies, WorkerDies, TypeOK
    <2>3. UNCHANGED <<db, queue, tick, streak>>
      BY <1>6 DEF RunDies, WorkerDies
    <2> QED
      BY <2>1, <2>2, <2>3, <2>4 DEF TypeOK
  <1>7. CASE \E s \in Source : RunByHand(p, s)
    <2>1. PICK s \in Source : RunByHand(p, s)
      BY <1>7
    <2>2. [NoRun EXCEPT !.pc = "popped", !.src = s] \in RunState
      BY InitTypes DEF RunState
    <2> QED
      BY <2>1, <2>2 DEF RunByHand, TypeOK
  <1> QED
    BY <1>1, <1>2, <1>3, <1>4, <1>5, <1>6, <1>7 DEF RunStep

LEMMA ElapseType == TypeOK /\ Elapse => TypeOK'
  <1> SUFFICES ASSUME TypeOK, Elapse PROVE TypeOK'
    OBVIOUS
  <1>1. db' \in [Source -> Row]
    BY LessType, NumberAssumption, ZenonT(60) DEF Elapse, TypeOK, Row
  <1>2. tick' \in [Ticker -> TickState]
    BY LessType, NumberAssumption, ZenonT(60) DEF Elapse, TypeOK, TickState
  <1> QED
    BY <1>1, <1>2 DEF Elapse, TypeOK

-----------------------------------------------------------------------------
(* RunHoldsRow: a tick only takes rows that are free and only releases its *)
(* own, and so does every other run.                                       *)

LEMMA TickKeepsRunRows ==
  ASSUME NEW t \in Ticker, Safe, TickStep(t) \/ TickDies(t)
  PROVE  RunHoldsRow'
  <1>1. run' = run
    BY DEF TickStep, TickDies, TickStart, TickLoad, TickSkip, TickSelect, TickReserve,
           TickConflict, TickCommit, TickEnqueue
  <1>2. \A s \in Source : owner[s] \in Runner => owner'[s] = owner[s]
    <2>1. t \notin Runner /\ Nobody \notin Runner
      BY ProcessAssumption DEF Process
    <2>2. \/ owner' = owner
          \/ Release(t)
          \/ \E s \in Source : owner[s] = Nobody /\ owner' = [owner EXCEPT ![s] = t]
      BY DEF TickStep, TickDies, TickStart, TickLoad, TickSkip, TickSelect, TickReserve,
             TickConflict, TickCommit, TickEnqueue
    <2> QED
      BY <2>1, <2>2 DEF Release, Safe, TypeOK
  <1> QED
    BY <1>1, <1>2 DEF RunHoldsRow, Safe

LEMMA RunKeepsRunRows ==
  ASSUME NEW p \in Runner, Safe,
         RunStep(p) \/ RunDies(p) \/ WorkerDies(p) \/ \E s \in Source : RunByHand(p, s)
  PROVE  RunHoldsRow'
  <1> SUFFICES ASSUME NEW q \in Runner
               PROVE  /\ run'[q].pc # "idle" => run'[q].src \in Source
                      /\ run'[q].pc = "running" => owner'[run'[q].src] = q
    BY DEF RunHoldsRow
  <1>0. /\ run[q].pc # "idle" => run[q].src \in Source
        /\ run[q].pc = "running" => owner[run[q].src] = q
        /\ p # Nobody /\ q # Nobody
        /\ run \in [Runner -> RunState] /\ owner \in [Source -> Process \cup {Nobody}]
    BY ProcessAssumption DEF Safe, RunHoldsRow, Process, TypeOK
  <1>1. CASE RunPop(p)
    <2>1. Head(queue) \in Source
      BY <1>1 DEF RunPop, Safe, TypeOK
    <2> QED
      BY <1>0, <1>1, <2>1 DEF RunPop, NoRun
  <1>2. CASE RunRead(p)
    BY <1>0, <1>2 DEF RunRead, NoRun, RunState
  <1>3. CASE RunClaim(p)
    <2>1. owner[run[p].src] = Nobody /\ run[p].pc = "claiming"
      BY <1>3 DEF RunClaim
    <2>2. owner' = [owner EXCEPT ![run[p].src] = p] /\ run' = [run EXCEPT ![p].pc = "running"]
      BY <1>3 DEF RunClaim
    <2>3. CASE q = p
      BY <1>0, <2>1, <2>2, <2>3 DEF RunState
    <2>4. CASE q # p
      BY <1>0, <2>1, <2>2, <2>4
    <2> QED
      BY <2>3, <2>4
  <1>4. CASE RunConflict(p)
    BY <1>0, <1>4 DEF RunConflict, NoRun
  <1>5. CASE RunCommit(p) \/ RunDies(p) \/ WorkerDies(p)
    <2>1. run' = [run EXCEPT ![p] = NoRun] /\ Release(p)
      BY <1>5 DEF RunCommit, RunDies, WorkerDies
    <2> QED
      BY <1>0, <2>1 DEF Release, NoRun
  <1>6. CASE \E s \in Source : RunByHand(p, s)
    BY <1>0, <1>6 DEF RunByHand, NoRun
  <1> QED
    BY <1>1, <1>2, <1>3, <1>4, <1>5, <1>6 DEF RunStep

-----------------------------------------------------------------------------
(* The inductive invariant.                                                *)

LEMMA SafeInit == Init => Safe
  <1> SUFFICES ASSUME Init PROVE Safe
    OBVIOUS
  <1>1. TypeOK
    BY InitTypes, NumberAssumption DEF Init, TypeOK
  <1>2. RunHoldsRow
    BY DEF Init, RunHoldsRow, NoRun
  <1> QED
    BY <1>1, <1>2 DEF Safe

LEMMA SafeNext == Safe /\ [Next]_vars => Safe'
  <1> SUFFICES ASSUME Safe, [Next]_vars PROVE Safe'
    OBVIOUS
  <1>1. CASE \E t \in Ticker : TickStep(t) \/ TickDies(t)
    BY <1>1, TickType, TickKeepsRunRows DEF Safe
  <1>2. CASE \E p \in Runner :
               RunStep(p) \/ RunDies(p) \/ WorkerDies(p) \/ \E s \in Source : RunByHand(p, s)
    BY <1>2, RunType, RunKeepsRunRows DEF Safe
  <1>3. CASE Elapse
    <2>1. RunHoldsRow'
      BY <1>3 DEF Elapse, Safe, RunHoldsRow
    <2> QED
      BY <1>3, <2>1, ElapseType DEF Safe
  <1>4. CASE UNCHANGED vars
    BY <1>4 DEF vars, Safe, TypeOK, RunHoldsRow
  <1>5. CASE \E d \in Daemon : Restart(d)
    BY <1>5 DEF Restart, Safe, TypeOK, RunHoldsRow
  <1> QED
    BY <1>1, <1>2, <1>3, <1>4, <1>5 DEF Next, Runner

LEMMA SafeAlways == Spec => []Safe
  BY SafeInit, SafeNext, PTL DEF Spec

(* The types of every variable hold in every state.                        *)
THEOREM TypeCorrect == Spec => []TypeOK
  BY SafeAlways, PTL DEF Safe

(* No two runs of sync_source work on one source at once, whether a worker *)
(* or an operator started them and whatever expires or dies meanwhile: the *)
(* row lock that a run takes when it claims is what excludes the other.    *)
THEOREM RunExclusion == Spec => []OneRunPerSource
  <1>1. Safe => OneRunPerSource
    BY DEF Safe, RunHoldsRow, OneRunPerSource, Running
  <1> QED
    BY <1>1, SafeAlways, PTL

-----------------------------------------------------------------------------
(***************************************************************************)
(* What one scheduler guarantees about hosts and jobs (Ticker has one      *)
(* element).  The caps of live reservations need nothing more; what is     *)
(* said of the runs themselves needs that no reservation expires before    *)
(* its job is done (Prompt) and that nobody runs a source by hand.         *)
(***************************************************************************)

OneTicker == \A t, u \in Ticker : t = u

Planning(t) == tick[t].pc \in {"load", "plan", "lock"}

ChosenOn(t, h) == {s \in tick[t].chosen : HostOf[s] = h}

(* The tick's load is never below the live reservations plus those it is   *)
(* about to commit, and where it has chosen a source it is within a cap.   *)
LoadCounts ==
    \A t \in Ticker, h \in Host : tick[t].pc \in {"plan", "lock"} =>
      /\ Cardinality(LiveOn(h) \cup ChosenOn(t, h)) <= tick[t].load[h]
      /\ ChosenOn(t, h) # {} => \E c \in HostCaps(h) : tick[t].load[h] <= c

(* The source being locked was below its cap when it was SELECTed.         *)
LockedBelowCap ==
    \A t \in Ticker : /\ tick[t].pc = "load" => tick[t].chosen = {}
                      /\ tick[t].pc = "lock" =>
                           \A s \in Source : IsFirst(s, tick[t].due) => ~AtCap(t, s)

CapInv == Safe /\ LoadCounts /\ LockedBelowCap /\ LiveReservationsWithinCap

(* What a tick has read or chosen is still due and unreserved.             *)
PlanIsFresh ==
    \A t \in Ticker : Planning(t) =>
      /\ tick[t].lease > 0
      /\ \A s \in tick[t].due \cup tick[t].chosen : s \in DueSources

(* A source whose job is somewhere has a live reservation.                 *)
JobsReserved == \A s \in Source : Outstanding(s) => Live(s)

(* The job of a source is in one place: one entry of the queue, a tick     *)
(* that is still to push it, or one worker.                                *)
JobsOnce ==
    /\ \A i, j \in 1 .. Len(queue) : queue[i] = queue[j] => i = j
    /\ \A i \in 1 .. Len(queue), t \in Ticker :
         tick[t].pc = "enqueue" => queue[i] \notin tick[t].chosen
    /\ \A i \in 1 .. Len(queue), p \in Worker : run[p].pc # "idle" => queue[i] # run[p].src
    /\ \A t \in Ticker, p \in Worker :
         tick[t].pc = "enqueue" /\ run[p].pc # "idle" => run[p].src \notin tick[t].chosen
    /\ \A p, q \in Worker :
         run[p].pc # "idle" /\ run[q].pc # "idle" /\ run[p].src = run[q].src => p = q

(* A row whose lock a run holds is the row of the source it is crawling.   *)
OwnerRuns == \A s \in Source : owner[s] \in Runner => Running(owner[s], s)

JobInv == Safe /\ PlanIsFresh /\ JobsReserved /\ JobsOnce /\ OwnerRuns

-----------------------------------------------------------------------------
(* Counting.                                                               *)

LEMMA SmallerCount ==
  ASSUME NEW S, NEW T, S \subseteq T, IsFiniteSet(T)
  PROVE  /\ IsFiniteSet(S) /\ Cardinality(S) \in Nat /\ Cardinality(T) \in Nat
         /\ Cardinality(S) <= Cardinality(T)
  BY FS_Subset, FS_CardinalityType

LEMMA OneMore ==
  ASSUME NEW S, NEW x, IsFiniteSet(S)
  PROVE  /\ IsFiniteSet(S \cup {x}) /\ Cardinality(S \cup {x}) \in Nat
         /\ Cardinality(S \cup {x}) <= Cardinality(S) + 1
  <1>1. /\ IsFiniteSet(S \cup {x})
        /\ Cardinality(S \cup {x}) = Cardinality(S) \/ Cardinality(S \cup {x}) = Cardinality(S) + 1
    BY FS_AddElement
  <1>2. Cardinality(S \cup {x}) \in Nat /\ Cardinality(S) \in Nat
    BY <1>1, FS_CardinalityType
  <1> QED
    BY <1>1, <1>2

LEMMA PlannedFinite ==
  ASSUME NEW t \in Ticker, NEW h, TypeOK
  PROVE  /\ LiveOn(h) \in SUBSET Source /\ ChosenOn(t, h) \in SUBSET Source
         /\ IsFiniteSet(LiveOn(h) \cup ChosenOn(t, h))
         /\ Cardinality(LiveOn(h) \cup ChosenOn(t, h)) \in Nat
  <1>1. LiveOn(h) \in SUBSET Source /\ ChosenOn(t, h) \in SUBSET Source
    BY DEF LiveOn, ChosenOn, TypeOK, TickState
  <1> QED
    BY <1>1, SourceAssumption, FS_Subset, FS_CardinalityType

LEMMA CapsAreNumbers == \A h : HostCaps(h) \subseteq Nat
  BY HostAssumption DEF HostCaps

LEMMA OneFirst ==
  ASSUME NEW S \in SUBSET Source, NEW r \in Source, NEW s \in Source,
         IsFirst(r, S), IsFirst(s, S)
  PROVE  r = s
  <1>1. Priority[r] \in Nat /\ Priority[s] \in Nat
    BY PriorityAssumption
  <1>2. Priority[r] <= Priority[s] /\ Priority[s] <= Priority[r]
    BY DEF IsFirst
  <1> QED
    BY <1>1, <1>2, PriorityAssumption

-----------------------------------------------------------------------------
(* CapInv: every step leaves fewer live reservations, or is the tick's.    *)

LEMMA FewerLive ==
  ASSUME LiveReservationsWithinCap, NEW h \in Host, LiveOn(h)' \subseteq LiveOn(h),
         LiveOn(h)' # {}
  PROVE  \E c \in HostCaps(h) : Cardinality(LiveOn(h)') <= c
  <1>1. PICK c \in HostCaps(h) : Cardinality(LiveOn(h)) <= c
    BY DEF LiveReservationsWithinCap
  <1>2. Cardinality(LiveOn(h)') \in Nat /\ Cardinality(LiveOn(h)) \in Nat
        /\ Cardinality(LiveOn(h)') <= Cardinality(LiveOn(h))
    BY LiveOnFinite, SmallerCount
  <1>3. c \in Nat
    BY CapsAreNumbers
  <1> QED
    BY <1>1, <1>2, <1>3

(* A step of a run, or of the clock.                                       *)
LEMMA OtherStepsKeepCaps ==
  ASSUME CapInv,
         \A s \in Source : db'[s].ttl > 0 => db[s].ttl > 0,
         \A t \in Ticker : /\ tick'[t].pc = tick[t].pc /\ tick'[t].due = tick[t].due
                           /\ tick'[t].chosen = tick[t].chosen /\ tick'[t].load = tick[t].load
  PROVE  LoadCounts' /\ LockedBelowCap' /\ LiveReservationsWithinCap'
  <1>1. \A h : LiveOn(h)' \subseteq LiveOn(h)
    BY DEF LiveOn, Live
  <1>2. LiveReservationsWithinCap'
    <2> SUFFICES ASSUME NEW h \in Host, LiveOn(h)' # {}
                 PROVE  \E c \in HostCaps(h) : Cardinality(LiveOn(h)') <= c
      BY DEF LiveReservationsWithinCap, HostCaps
    <2> QED
      BY <1>1, FewerLive DEF CapInv
  <1>3. LoadCounts'
    <2> SUFFICES ASSUME NEW t \in Ticker, NEW h \in Host, tick'[t].pc \in {"plan", "lock"}
                 PROVE  /\ Cardinality((LiveOn(h) \cup ChosenOn(t, h))') <= tick'[t].load[h]
                        /\ ChosenOn(t, h)' # {} => \E c \in HostCaps(h) : tick'[t].load[h] <= c
      BY DEF LoadCounts, HostCaps
    <2>1. ChosenOn(t, h)' = ChosenOn(t, h)
      BY DEF ChosenOn
    <2>2. (LiveOn(h) \cup ChosenOn(t, h))' \subseteq LiveOn(h) \cup ChosenOn(t, h)
      BY <1>1, <2>1
    <2>3. Cardinality((LiveOn(h) \cup ChosenOn(t, h))') <= Cardinality(LiveOn(h) \cup ChosenOn(t, h))
          /\ Cardinality((LiveOn(h) \cup ChosenOn(t, h))') \in Nat
          /\ Cardinality(LiveOn(h) \cup ChosenOn(t, h)) \in Nat
      BY <2>2, PlannedFinite, SmallerCount DEF CapInv, Safe
    <2>4. tick[t].load[h] \in Nat
      BY DEF CapInv, Safe, TypeOK, TickState
    <2>5. /\ Cardinality(LiveOn(h) \cup ChosenOn(t, h)) <= tick[t].load[h]
          /\ ChosenOn(t, h) # {} => \E c \in HostCaps(h) : tick[t].load[h] <= c
      BY DEF CapInv, LoadCounts
    <2>6. tick'[t].load[h] = tick[t].load[h]
      OBVIOUS
    <2> QED
      BY <2>1, <2>3, <2>4, <2>5, <2>6
  <1>4. LockedBelowCap'
    BY DEF CapInv, LockedBelowCap, AtCap
  <1> QED
    BY <1>2, <1>3, <1>4

LEMMA TickKeepsCaps ==
  ASSUME NEW t \in Ticker, OneTicker, CapInv, TickStep(t) \/ TickDies(t)
  PROVE  LoadCounts' /\ LockedBelowCap' /\ LiveReservationsWithinCap'
  <1>0. TypeOK /\ tick \in [Ticker -> TickState] /\ tick[t] \in TickState
    BY DEF CapInv, Safe, TypeOK
  <1>1. ASSUME db' = db PROVE (\A h : LiveOn(h)' = LiveOn(h)) /\ LiveReservationsWithinCap'
    BY <1>1 DEF LiveOn, Live, CapInv, LiveReservationsWithinCap, HostCaps
  <1>2. CASE TickStart(t)
    <2>1. tick'[t].pc = "load" /\ tick'[t].chosen = {} /\ db' = db
      BY <1>0, <1>2 DEF TickStart, NoTick
    <2> QED
      BY <1>1, <2>1 DEF LoadCounts, LockedBelowCap, OneTicker
  <1>3. CASE TickLoad(t)
    <2>1. /\ tick'[t].pc = "plan" /\ tick'[t].chosen = {} /\ db' = db
          /\ tick'[t].load = [h \in Host |-> Cardinality(LiveOn(h))]
      BY <1>0, <1>3 DEF TickLoad, TickState, CapInv, LockedBelowCap
    <2>2. \A h \in Host : ChosenOn(t, h)' = {} /\ (LiveOn(h) \cup ChosenOn(t, h))' = LiveOn(h)
      BY <1>1, <2>1 DEF ChosenOn
    <2>3. \A h \in Host : Cardinality((LiveOn(h) \cup ChosenOn(t, h))') <= tick'[t].load[h]
      BY <2>1, <2>2, LiveOnFinite
    <2> QED
      BY <1>1, <2>1, <2>2, <2>3 DEF LoadCounts, LockedBelowCap, OneTicker
  <1>4. CASE TickSkip(t) \/ TickSelect(t)
    <2>1. /\ db' = db /\ tick[t].pc = "plan" /\ tick'[t].load = tick[t].load
          /\ tick'[t].chosen = tick[t].chosen /\ tick'[t].pc \in {"plan", "lock"}
      <3>1. CASE TickSkip(t)
        BY <1>0, <3>1 DEF TickSkip, TickState
      <3>2. CASE TickSelect(t)
        BY <1>0, <3>2 DEF TickSelect, TickState
      <3> QED
        BY <1>4, <3>1, <3>2
    <2>2. \A h \in Host : /\ ChosenOn(t, h)' = ChosenOn(t, h)
                          /\ (LiveOn(h) \cup ChosenOn(t, h))' = LiveOn(h) \cup ChosenOn(t, h)
      BY <1>1, <2>1 DEF ChosenOn
    <2>3. LoadCounts'
      BY <2>1, <2>2 DEF LoadCounts, CapInv, OneTicker, HostCaps
    <2>4. tick'[t].pc = "lock" => \A s \in Source : IsFirst(s, tick'[t].due) => ~AtCap(t, s)'
      <3>1. CASE TickSkip(t)
        BY <1>0, <3>1 DEF TickSkip, TickState
      <3>2. CASE TickSelect(t)
        <4>1. PICK r \in Source : IsFirst(r, tick[t].due) /\ ~AtCap(t, r)
          BY <3>2 DEF TickSelect
        <4>2. tick'[t].due = tick[t].due /\ tick[t].due \in SUBSET Source
          BY <1>0, <3>2 DEF TickSelect, TickState
        <4> QED
          BY <2>1, <4>1, <4>2, OneFirst DEF AtCap
      <3> QED
        BY <1>4, <3>1, <3>2
    <2> QED
      BY <1>1, <2>1, <2>3, <2>4 DEF LockedBelowCap, OneTicker
  <1>5. CASE TickReserve(t)
    <2>1. PICK s \in Source : IsFirst(s, tick[t].due) /\ tick' = [tick EXCEPT ![t] = Chose(t, s)]
      BY <1>5 DEF TickReserve
    <2>2. db' = db /\ tick[t].pc = "lock"
      BY <1>5 DEF TickReserve
    <2>3. /\ tick'[t].pc = "plan" /\ tick'[t].chosen = tick[t].chosen \cup {s}
          /\ tick'[t].load = [tick[t].load EXCEPT ![HostOf[s]] = @ + 1]
      BY <1>0, <2>1 DEF Chose, TickState
    <2>4. HostOf[s] \in Host /\ Cap[s] \in Nat /\ tick[t].load \in [Host -> Nat]
      BY <1>0, HostAssumption DEF TickState
    <2>5. tick[t].load[HostOf[s]] < Cap[s] /\ Cap[s] \in HostCaps(HostOf[s])
      <3>1. ~AtCap(t, s)
        BY <2>1, <2>2 DEF CapInv, LockedBelowCap
      <3> QED
        BY <2>4, <3>1 DEF AtCap, HostCaps
    <2>6. ASSUME NEW h \in Host, h # HostOf[s]
          PROVE  /\ Cardinality((LiveOn(h) \cup ChosenOn(t, h))') <= tick'[t].load[h]
                 /\ ChosenOn(t, h)' # {} => \E c \in HostCaps(h) : tick'[t].load[h] <= c
      <3>1. ChosenOn(t, h)' = ChosenOn(t, h)
        BY <2>3, <2>6 DEF ChosenOn
      <3>2. (LiveOn(h) \cup ChosenOn(t, h))' = LiveOn(h) \cup ChosenOn(t, h)
        BY <1>1, <2>2, <3>1
      <3>3. tick'[t].load[h] = tick[t].load[h]
        BY <2>3, <2>4, <2>6
      <3> QED
        BY <2>2, <3>1, <3>2, <3>3 DEF CapInv, LoadCounts
    <2>7. ASSUME NEW h \in Host, h = HostOf[s]
          PROVE  /\ Cardinality((LiveOn(h) \cup ChosenOn(t, h))') <= tick'[t].load[h]
                 /\ ChosenOn(t, h)' # {} => \E c \in HostCaps(h) : tick'[t].load[h] <= c
      <3>1. ChosenOn(t, h)' = ChosenOn(t, h) \cup {s}
        BY <2>3, <2>7 DEF ChosenOn
      <3>2. (LiveOn(h) \cup ChosenOn(t, h))' = (LiveOn(h) \cup ChosenOn(t, h)) \cup {s}
        BY <1>1, <2>2, <3>1
      <3>3. tick'[t].load[h] = tick[t].load[h] + 1 /\ tick[t].load[h] \in Nat
        BY <2>3, <2>4, <2>7
      <3>4. /\ Cardinality((LiveOn(h) \cup ChosenOn(t, h)) \cup {s}) \in Nat
            /\ Cardinality((LiveOn(h) \cup ChosenOn(t, h)) \cup {s})
                 <= Cardinality(LiveOn(h) \cup ChosenOn(t, h)) + 1
            /\ Cardinality(LiveOn(h) \cup ChosenOn(t, h)) \in Nat
        BY <1>0, PlannedFinite, OneMore
      <3>5. Cardinality(LiveOn(h) \cup ChosenOn(t, h)) <= tick[t].load[h]
        BY <2>2 DEF CapInv, LoadCounts
      <3>8. Cardinality((LiveOn(h) \cup ChosenOn(t, h)) \cup {s}) <= tick[t].load[h] + 1
        BY <3>3, <3>4, <3>5
      <3>6. Cardinality((LiveOn(h) \cup ChosenOn(t, h))') <= tick'[t].load[h]
        BY <3>2, <3>3, <3>8
      <3>7. tick'[t].load[h] <= Cap[s]
        BY <2>4, <2>5, <2>7, <3>3
      <3> QED
        BY <2>5, <2>7, <3>6, <3>7
    <2>8. LoadCounts'
      BY <2>6, <2>7 DEF LoadCounts, OneTicker, HostCaps
    <2> QED
      BY <1>1, <2>2, <2>3, <2>8 DEF LockedBelowCap, OneTicker
  <1>6. CASE TickConflict(t) \/ TickDies(t)
    <2>1. db' = db /\ tick'[t].pc = "idle"
      BY <1>0, <1>6 DEF TickConflict, TickDies, NoTick
    <2> QED
      BY <1>1, <2>1 DEF LoadCounts, LockedBelowCap, OneTicker
  <1>7. CASE TickCommit(t)
    <2>1. tick'[t].pc \in {"idle", "enqueue"} /\ tick[t].pc = "plan"
      BY <1>0, <1>7 DEF TickCommit, NoTick
    <2>2. \A h : LiveOn(h)' \subseteq LiveOn(h) \cup ChosenOn(t, h)
      BY <1>0, <1>7 DEF TickCommit, LiveOn, Live, ChosenOn, TypeOK, Row
    <2>3. LiveReservationsWithinCap'
      <3> SUFFICES ASSUME NEW h \in Host, LiveOn(h)' # {}
                   PROVE  \E c \in HostCaps(h) : Cardinality(LiveOn(h)') <= c
        BY DEF LiveReservationsWithinCap, HostCaps
      <3>1. CASE ChosenOn(t, h) = {}
        BY <2>2, <3>1, FewerLive DEF CapInv
      <3>2. CASE ChosenOn(t, h) # {}
        <4>1. PICK c \in HostCaps(h) : tick[t].load[h] <= c
          BY <2>1, <3>2 DEF CapInv, LoadCounts
        <4>2. /\ Cardinality(LiveOn(h)') <= Cardinality(LiveOn(h) \cup ChosenOn(t, h))
              /\ Cardinality(LiveOn(h)') \in Nat
              /\ Cardinality(LiveOn(h) \cup ChosenOn(t, h)) \in Nat
          BY <1>0, <2>2, PlannedFinite, SmallerCount
        <4>3. Cardinality(LiveOn(h) \cup ChosenOn(t, h)) <= tick[t].load[h]
          BY <2>1 DEF CapInv, LoadCounts
        <4>4. c \in Nat /\ tick[t].load[h] \in Nat
          BY <1>0, CapsAreNumbers DEF TickState
        <4> QED
          BY <4>1, <4>2, <4>3, <4>4
      <3> QED
        BY <3>1, <3>2
    <2> QED
      BY <2>1, <2>3 DEF LoadCounts, LockedBelowCap, OneTicker
  <1>8. CASE TickEnqueue(t)
    <2>1. db' = db /\ tick'[t].pc \in {"idle", "enqueue"}
      BY <1>0, <1>8 DEF TickEnqueue, NoTick, TickState
    <2> QED
      BY <1>1, <2>1 DEF LoadCounts, LockedBelowCap, OneTicker
  <1> QED
    BY <1>2, <1>3, <1>4, <1>5, <1>6, <1>7, <1>8 DEF TickStep

(* A commit of a run touches its own row, which is then free and not due.  *)
LEMMA RunCommitRow ==
  ASSUME NEW p \in Runner, TypeOK, RunCommit(p)
  PROVE  /\ \A s \in Source : s # run[p].src => db'[s] = db[s]
         /\ run[p].src \in Source => db'[run[p].src].ttl = 0 /\ db'[run[p].src].due > 0
  <1>1. PICK f \in BOOLEAN : \E d \in IF f THEN FailDelay ELSE OkDelay :
          db' = [db EXCEPT ![run[p].src] =
                   [exists |-> TRUE, token |-> "none", ttl |-> 0, due |-> d,
                    fails |-> FailsAfter(f, run[p].fails, @.fails)]]
    BY DEF RunCommit
  <1>2. (IF f THEN FailDelay ELSE OkDelay) \subseteq Nat \ {0}
    BY NumberAssumption
  <1>3. PICK d \in Nat \ {0} :
          db' = [db EXCEPT ![run[p].src] =
                   [exists |-> TRUE, token |-> "none", ttl |-> 0, due |-> d,
                    fails |-> FailsAfter(f, run[p].fails, @.fails)]]
    BY <1>1, <1>2
  <1> QED
    BY <1>3 DEF TypeOK

LEMMA CapInvInit == Init => CapInv
  <1> SUFFICES ASSUME Init PROVE CapInv
    OBVIOUS
  <1>1. \A h : LiveOn(h) = {}
    BY DEF Init, LiveOn, Live, NoRow
  <1> QED
    BY <1>1, SafeInit
    DEF Init, CapInv, LoadCounts, LockedBelowCap, LiveReservationsWithinCap, NoTick

LEMMA CapInvNext == OneTicker /\ CapInv /\ [Next]_vars => CapInv'
  <1> SUFFICES ASSUME OneTicker, CapInv, [Next]_vars PROVE CapInv'
    OBVIOUS
  <1>1. Safe' /\ TypeOK
    BY SafeNext DEF CapInv, Safe
  <1>2. CASE \E t \in Ticker : TickStep(t) \/ TickDies(t)
    BY <1>1, <1>2, TickKeepsCaps DEF CapInv
  <1>3. CASE ~ \E t \in Ticker : TickStep(t) \/ TickDies(t)
    <2>1. \A s \in Source : db'[s].ttl > 0 => db[s].ttl > 0
      <3>1. CASE \E p \in Runner : RunCommit(p)
        <4>1. PICK p \in Runner : RunCommit(p)
          BY <3>1
        <4>2. /\ \A s \in Source : s # run[p].src => db'[s] = db[s]
              /\ run[p].src \in Source => db'[run[p].src].ttl = 0
          BY <1>1, <4>1, RunCommitRow
        <4> QED
          BY <4>2
      <3>2. CASE Elapse
        <4>0. \A s \in Source : db[s] \in Row
          BY <1>1 DEF TypeOK
        <4>1. \A s \in Source : db[s].ttl \in Nat
          BY <4>0, NumberAssumption DEF Row
        <4>3. \A s \in Source : db'[s].ttl = Less(db[s].ttl)
          BY <4>0, <3>2 DEF Elapse, Row
        <4>2. \A n \in Nat : Less(n) > 0 => n > 0
          BY DEF Less
        <4> QED
          BY <4>1, <4>2, <4>3
      <3>3. CASE db' = db
        BY <3>3
      <3> QED
        BY <1>3, <3>1, <3>2, <3>3
        DEF Next, RunStep, RunPop, RunRead, RunClaim, RunConflict, RunDies, WorkerDies,
            RunByHand, Restart, vars
    <2>2. tick' = tick \/ tick' = [t \in Ticker |-> [tick[t] EXCEPT !.lease = Less(@)]]
      BY <1>3 DEF Next, RunStep, RunPop, RunRead, RunClaim, RunConflict, RunCommit, RunDies,
                  WorkerDies, RunByHand, Restart, Elapse, vars
    <2>3. \A t \in Ticker : /\ tick'[t].pc = tick[t].pc /\ tick'[t].due = tick[t].due
                            /\ tick'[t].chosen = tick[t].chosen /\ tick'[t].load = tick[t].load
      BY <1>1, <2>2 DEF TypeOK, TickState
    <2> QED
      BY <1>1, <2>1, <2>3, OtherStepsKeepCaps DEF CapInv
  <1> QED
    BY <1>2, <1>3

(* With one scheduler the live reservations on a host never exceed the     *)
(* largest cap of its sources, at any speed and whatever dies.             *)
THEOREM ReservationsCapped == OneTicker => (Spec => []LiveReservationsWithinCap)
  <1> SUFFICES ASSUME OneTicker PROVE Spec => []LiveReservationsWithinCap
    OBVIOUS
  <1>1. CapInv /\ [Next]_vars => CapInv'
    BY CapInvNext
  <1>2. CapInv => LiveReservationsWithinCap
    BY DEF CapInv
  <1> QED
    BY <1>1, <1>2, CapInvInit, PTL DEF Spec

-----------------------------------------------------------------------------
(* JobInv: one scheduler, leases long enough, no runs by hand.             *)

Orderly == OneTicker /\ Prompt /\ Manual = {}

LEMMA TickOwnsNoRunRow ==
  ASSUME NEW t \in Ticker, Safe, OwnerRuns, TickStep(t) \/ TickDies(t)
  PROVE  run' = run /\ OwnerRuns'
  <1>1. run' = run
    BY DEF TickStep, TickDies, TickStart, TickLoad, TickSkip, TickSelect, TickReserve,
           TickConflict, TickCommit, TickEnqueue
  <1>2. t \notin Runner /\ Nobody \notin Runner
    BY ProcessAssumption DEF Process
  <1>3. \/ owner' = owner
        \/ Release(t)
        \/ \E s \in Source : owner[s] = Nobody /\ owner' = [owner EXCEPT ![s] = t]
    BY DEF TickStep, TickDies, TickStart, TickLoad, TickSkip, TickSelect, TickReserve,
           TickConflict, TickCommit, TickEnqueue
  <1>4. \A s \in Source : owner'[s] \in Runner => owner'[s] = owner[s]
    BY <1>2, <1>3 DEF Release, Safe, TypeOK
  <1> QED
    BY <1>1, <1>4 DEF OwnerRuns, Running

(* A step of the tick that neither commits nor pushes leaves every job     *)
(* where it is (or, if it dies, loses what it had not pushed).             *)
LEMMA QuietTickKeepsJobs ==
  ASSUME NEW t \in Ticker, OneTicker, JobInv,
         db' = db, queue' = queue, run' = run, tick'[t].pc # "enqueue"
  PROVE  JobsReserved' /\ JobsOnce'
  <1>1. \A s \in Source : Outstanding(s)' => Outstanding(s)
    BY DEF Outstanding, InQueue, OneTicker
  <1>2. JobsReserved'
    BY <1>1 DEF JobInv, JobsReserved, Live
  <1>3. JobsOnce'
    BY DEF JobInv, JobsOnce, OneTicker
  <1> QED
    BY <1>2, <1>3

LEMMA TickKeepsJobs ==
  ASSUME NEW t \in Ticker, Orderly, JobInv, TickStep(t) \/ TickDies(t)
  PROVE  PlanIsFresh' /\ JobsReserved' /\ JobsOnce'
  <1>0. /\ TypeOK /\ tick \in [Ticker -> TickState] /\ tick[t] \in TickState
        /\ OneTicker /\ run' = run
    BY TickOwnsNoRunRow DEF JobInv, Safe, TypeOK, Orderly
  <1>1. db' = db => DueSources' = DueSources
    BY DEF DueSources, Live
  <1>2. CASE TickStart(t)
    <2>1. /\ db' = db /\ queue' = queue /\ tick'[t].pc = "load"
          /\ tick'[t].due = DueSources /\ tick'[t].chosen = {} /\ tick'[t].lease = EnqueueTTL
      BY <1>0, <1>2 DEF TickStart, NoTick
    <2>2. PlanIsFresh'
      BY <1>0, <1>1, <2>1, NumberAssumption DEF PlanIsFresh, OneTicker
    <2> QED
      BY <1>0, <2>1, <2>2, QuietTickKeepsJobs
  <1>3. CASE TickLoad(t)
    <2>1. /\ db' = db /\ queue' = queue /\ tick'[t].pc = "plan" /\ tick[t].pc = "load"
          /\ tick'[t].due = tick[t].due /\ tick'[t].chosen = tick[t].chosen
          /\ tick'[t].lease = tick[t].lease
      BY <1>0, <1>3 DEF TickLoad, TickState
    <2>2. PlanIsFresh'
      BY <1>0, <1>1, <2>1 DEF PlanIsFresh, OneTicker, Planning, JobInv
    <2> QED
      BY <1>0, <2>1, <2>2, QuietTickKeepsJobs
  <1>4. CASE TickSkip(t)
    <2>1. /\ db' = db /\ queue' = queue /\ tick'[t].pc = "plan" /\ tick[t].pc = "plan"
          /\ tick'[t].due \subseteq tick[t].due /\ tick'[t].chosen = tick[t].chosen
          /\ tick'[t].lease = tick[t].lease
      BY <1>0, <1>4 DEF TickSkip, TickState
    <2>2. PlanIsFresh'
      BY <1>0, <1>1, <2>1 DEF PlanIsFresh, OneTicker, Planning, JobInv
    <2> QED
      BY <1>0, <2>1, <2>2, QuietTickKeepsJobs
  <1>5. CASE TickSelect(t)
    <2>1. /\ db' = db /\ queue' = queue /\ tick'[t].pc = "lock" /\ tick[t].pc = "plan"
          /\ tick'[t].due = tick[t].due /\ tick'[t].chosen = tick[t].chosen
          /\ tick'[t].lease = tick[t].lease
      BY <1>0, <1>5 DEF TickSelect, TickState
    <2>2. PlanIsFresh'
      BY <1>0, <1>1, <2>1 DEF PlanIsFresh, OneTicker, Planning, JobInv
    <2> QED
      BY <1>0, <2>1, <2>2, QuietTickKeepsJobs
  <1>6. CASE TickReserve(t)
    <2>1. PICK s \in Source : IsFirst(s, tick[t].due) /\ tick' = [tick EXCEPT ![t] = Chose(t, s)]
      BY <1>6 DEF TickReserve
    <2>2. db' = db /\ queue' = queue /\ tick[t].pc = "lock"
      BY <1>6 DEF TickReserve
    <2>3. /\ tick'[t].pc = "plan" /\ tick'[t].lease = tick[t].lease
          /\ tick'[t].due \cup tick'[t].chosen = tick[t].due \cup tick[t].chosen
      BY <1>0, <2>1 DEF Chose, TickState, IsFirst
    <2>4. PlanIsFresh'
      BY <1>0, <1>1, <2>2, <2>3 DEF PlanIsFresh, OneTicker, Planning, JobInv
    <2> QED
      BY <1>0, <2>2, <2>3, <2>4, QuietTickKeepsJobs
  <1>7. CASE TickConflict(t) \/ TickDies(t)
    <2>1. db' = db /\ queue' = queue /\ tick'[t].pc = "idle"
      BY <1>0, <1>7 DEF TickConflict, TickDies, NoTick
    <2>2. PlanIsFresh'
      BY <1>0, <2>1 DEF PlanIsFresh, OneTicker, Planning
    <2> QED
      BY <1>0, <2>1, <2>2, QuietTickKeepsJobs
  <1>8. CASE TickCommit(t)
    <2>1. /\ tick[t].pc = "plan" /\ tick'[t].pc \in {"idle", "enqueue"} /\ queue' = queue
          /\ tick'[t].pc = "enqueue" => tick'[t].chosen = tick[t].chosen
      BY <1>0, <1>8 DEF TickCommit, NoTick
    <2>2. PlanIsFresh'
      BY <1>0, <2>1 DEF PlanIsFresh, OneTicker, Planning
    <2>3. \A s \in tick[t].chosen : s \in Source /\ ~Live(s) /\ ~Outstanding(s)
      BY <1>0, <2>1 DEF JobInv, PlanIsFresh, Planning, JobsReserved, DueSources, TickState
    <2>4. \A s \in Source : Outstanding(s)' => Outstanding(s) \/ s \in tick[t].chosen
      BY <1>0, <2>1 DEF Outstanding, InQueue, OneTicker
    <2>5. \A s \in Source : db'[s].ttl = IF s \in tick[t].chosen THEN tick[t].lease ELSE db[s].ttl
      BY <1>0, <1>8 DEF TickCommit, TypeOK, Row
    <2>6. tick[t].lease > 0
      BY <2>1 DEF JobInv, PlanIsFresh, Planning
    <2>7. JobsReserved'
      BY <2>4, <2>5, <2>6 DEF JobInv, JobsReserved, Live
    <2>8. JobsOnce'
      <3>1. \A i \in 1 .. Len(queue) : queue[i] \notin tick[t].chosen
        BY <2>3 DEF Outstanding, InQueue
      <3>2. \A p \in Worker : run[p].pc # "idle" => run[p].src \notin tick[t].chosen
        BY <2>3 DEF Outstanding
      <3> QED
        BY <1>0, <2>1, <3>1, <3>2 DEF JobInv, JobsOnce, OneTicker
    <2> QED
      BY <2>2, <2>7, <2>8
  <1>9. CASE TickEnqueue(t)
    <2>1. PICK s \in Source :
            /\ IsFirst(s, tick[t].chosen)
            /\ queue' = Append(queue, s)
            /\ tick' = [tick EXCEPT ![t] = IF tick[t].chosen = {s} THEN NoTick
                                           ELSE [tick[t] EXCEPT !.chosen = tick[t].chosen \ {s}]]
      BY <1>9 DEF TickEnqueue
    <2>2. db' = db /\ tick[t].pc = "enqueue" /\ s \in tick[t].chosen
      BY <1>9, <2>1 DEF TickEnqueue, IsFirst
    <2>3. /\ tick'[t].pc \in {"idle", "enqueue"}
          /\ tick'[t].pc = "enqueue" => tick'[t].chosen = tick[t].chosen \ {s}
      BY <1>0, <2>1, <2>2 DEF NoTick, TickState
    <2>4. /\ Len(queue') = Len(queue) + 1 /\ Len(queue) \in Nat
          /\ \A i \in 1 .. Len(queue) : queue'[i] = queue[i]
          /\ queue'[Len(queue) + 1] = s
      BY <1>0, <2>1 DEF TypeOK
    <2>5. \A i \in 1 .. Len(queue') : i \in 1 .. Len(queue) \/ i = Len(queue) + 1
      BY <2>4
    <2>6. PlanIsFresh'
      BY <1>0, <2>3 DEF PlanIsFresh, OneTicker, Planning
    <2>7. JobsReserved'
      <3>1. \A r \in Source : Outstanding(r)' => Outstanding(r)
        BY <1>0, <2>2, <2>3, <2>4, <2>5 DEF Outstanding, InQueue, OneTicker
      <3> QED
        BY <2>2, <3>1 DEF JobInv, JobsReserved, Live
    <2>8. JobsOnce'
      <3>1. \A i \in 1 .. Len(queue) : queue[i] # s
        BY <2>2 DEF JobInv, JobsOnce
      <3>2. \A p \in Worker : run[p].pc # "idle" => run[p].src # s
        BY <2>2 DEF JobInv, JobsOnce
      <3>3. \A i, j \in 1 .. Len(queue') : queue'[i] = queue'[j] => i = j
        BY <2>4, <2>5, <3>1 DEF JobInv, JobsOnce
      <3>4. \A i \in 1 .. Len(queue'), u \in Ticker :
              tick'[u].pc = "enqueue" => queue'[i] \notin tick'[u].chosen
        BY <1>0, <2>2, <2>3, <2>4, <2>5 DEF JobInv, JobsOnce, OneTicker
      <3>5. \A i \in 1 .. Len(queue'), p \in Worker : run'[p].pc # "idle" => queue'[i] # run'[p].src
        BY <1>0, <2>4, <2>5, <3>2 DEF JobInv, JobsOnce
      <3>6. \A u \in Ticker, p \in Worker :
              tick'[u].pc = "enqueue" /\ run'[p].pc # "idle" => run'[p].src \notin tick'[u].chosen
        BY <1>0, <2>2, <2>3 DEF JobInv, JobsOnce, OneTicker
      <3> QED
        BY <1>0, <3>3, <3>4, <3>5, <3>6 DEF JobInv, JobsOnce
    <2> QED
      BY <2>6, <2>7, <2>8
  <1> QED
    BY <1>2, <1>3, <1>4, <1>5, <1>6, <1>7, <1>8, <1>9 DEF TickStep

(* A run that ends, or moves on without its queue, leaves the other jobs   *)
(* where they are.                                                         *)
LEMMA QuietRunKeepsJobs ==
  ASSUME NEW p \in Worker, JobInv, db' = db, queue' = queue, tick' = tick,
         run'[p].pc # "idle" => run[p].pc # "idle" /\ run'[p].src = run[p].src,
         \A q \in Runner \ {p} : run'[q] = run[q]
  PROVE  PlanIsFresh' /\ JobsReserved' /\ JobsOnce'
  <1>1. PlanIsFresh'
    BY DEF JobInv, PlanIsFresh, Planning, DueSources, Live
  <1>2. \A q \in Worker : run'[q].pc # "idle" => run[q].pc # "idle" /\ run'[q].src = run[q].src
    BY DEF Runner
  <1>3. \A s \in Source : Outstanding(s)' => Outstanding(s)
    BY <1>2 DEF Outstanding, InQueue
  <1>4. JobsReserved'
    BY <1>3 DEF JobInv, JobsReserved, Live
  <1>5. JobsOnce'
    BY <1>2 DEF JobInv, JobsOnce
  <1> QED
    BY <1>1, <1>4, <1>5

LEMMA RunKeepsJobs ==
  ASSUME NEW p \in Worker, JobInv, RunStep(p) \/ RunDies(p) \/ WorkerDies(p)
  PROVE  PlanIsFresh' /\ JobsReserved' /\ JobsOnce'
  <1>0. /\ TypeOK /\ p \in Runner /\ run \in [Runner -> RunState] /\ queue \in Seq(Source)
        /\ Worker \subseteq Runner
    BY DEF JobInv, Safe, TypeOK, Runner
  <1>1. CASE RunPop(p)
    <2>1. /\ db' = db /\ tick' = tick /\ queue # <<>> /\ queue' = Tail(queue)
          /\ run[p].pc = "idle" /\ run'[p].pc = "popped" /\ run'[p].src = Head(queue)
          /\ \A q \in Runner \ {p} : run'[q] = run[q]
      BY <1>0, <1>1 DEF RunPop, NoRun
    <2>2. /\ Len(queue) \in Nat /\ Len(queue) > 0 /\ Len(queue') = Len(queue) - 1
          /\ Head(queue) = queue[1] /\ queue[1] \in Source
          /\ \A i \in 1 .. Len(queue') : queue'[i] = queue[i + 1]
      BY <1>0, <2>1
    <2>3. \A i \in 1 .. Len(queue') : i + 1 \in 1 .. Len(queue) /\ i + 1 # 1
      BY <2>2
    <2>4. 1 \in 1 .. Len(queue)
      BY <2>2
    <2>5. PlanIsFresh'
      BY <2>1 DEF JobInv, PlanIsFresh, Planning, DueSources, Live
    <2>6. JobsReserved'
      <3>1. \A s \in Source : Outstanding(s)' => Outstanding(s)
        BY <1>0, <2>1, <2>2, <2>3, <2>4 DEF Outstanding, InQueue
      <3> QED
        BY <2>1, <3>1 DEF JobInv, JobsReserved, Live
    <2>7. JobsOnce'
      <3>1. \A i, j \in 1 .. Len(queue') : queue'[i] = queue'[j] => i = j
        <4> SUFFICES ASSUME NEW i \in 1 .. Len(queue'), NEW j \in 1 .. Len(queue'),
                            queue'[i] = queue'[j]
                     PROVE  i = j
          OBVIOUS
        <4>1. i + 1 = j + 1
          BY <2>2, <2>3 DEF JobInv, JobsOnce
        <4> QED
          BY <2>2, <4>1
      <3>2. \A i \in 1 .. Len(queue'), u \in Ticker :
              tick'[u].pc = "enqueue" => queue'[i] \notin tick'[u].chosen
        BY <2>1, <2>2, <2>3 DEF JobInv, JobsOnce
      <3>3. \A i \in 1 .. Len(queue'), q \in Worker : run'[q].pc # "idle" => queue'[i] # run'[q].src
        <4> SUFFICES ASSUME NEW i \in 1 .. Len(queue'), NEW q \in Worker, run'[q].pc # "idle"
                     PROVE  queue[i + 1] # run'[q].src
          BY <2>2
        <4>1. CASE q = p
          BY <2>1, <2>2, <2>3, <2>4, <4>1 DEF JobInv, JobsOnce
        <4>2. CASE q # p
          BY <1>0, <2>1, <2>3, <4>2 DEF JobInv, JobsOnce
        <4> QED
          BY <4>1, <4>2
      <3>4. \A u \in Ticker, q \in Worker :
              tick'[u].pc = "enqueue" /\ run'[q].pc # "idle" => run'[q].src \notin tick'[u].chosen
        BY <1>0, <2>1, <2>2, <2>4 DEF JobInv, JobsOnce
      <3>5. \A q, r \in Worker :
              run'[q].pc # "idle" /\ run'[r].pc # "idle" /\ run'[q].src = run'[r].src => q = r
        BY <1>0, <2>1, <2>2, <2>4 DEF JobInv, JobsOnce
      <3> QED
        BY <3>1, <3>2, <3>3, <3>4, <3>5 DEF JobsOnce
    <2> QED
      BY <2>5, <2>6, <2>7
  <1>2. CASE RunRead(p) \/ RunClaim(p) \/ RunConflict(p) \/ RunDies(p) \/ WorkerDies(p)
    <2>1. db' = db /\ queue' = queue /\ tick' = tick
      BY <1>2 DEF RunRead, RunClaim, RunConflict, RunDies, WorkerDies
    <2>2. \A q \in Runner \ {p} : run'[q] = run[q]
      BY <1>0, <1>2 DEF RunRead, RunClaim, RunConflict, RunDies, WorkerDies
    <2>3. run'[p].pc # "idle" => run[p].pc # "idle" /\ run'[p].src = run[p].src
      <3>1. CASE RunRead(p)
        BY <1>0, <3>1 DEF RunRead, NoRun, RunState
      <3>2. CASE RunClaim(p)
        BY <1>0, <3>2 DEF RunClaim, RunState
      <3>3. CASE RunConflict(p) \/ RunDies(p) \/ WorkerDies(p)
        BY <1>0, <3>3 DEF RunConflict, RunDies, WorkerDies, NoRun
      <3> QED
        BY <1>2, <3>1, <3>2, <3>3
    <2> QED
      BY <2>1, <2>2, <2>3, QuietRunKeepsJobs
  <1>3. CASE RunCommit(p)
    <2>1. /\ queue' = queue /\ tick' = tick /\ run' = [run EXCEPT ![p] = NoRun]
          /\ run[p].pc = "running"
      BY <1>3 DEF RunCommit
    <2>2. run[p].src \in Source /\ \A s \in Source : s # run[p].src => db'[s] = db[s]
      BY <1>0, <1>3, <2>1, RunCommitRow DEF JobInv, Safe, RunHoldsRow
    <2>3. Outstanding(run[p].src) /\ Live(run[p].src)
      BY <2>1, <2>2 DEF Outstanding, JobInv, JobsReserved
    <2>4. /\ run'[p].pc = "idle"
          /\ \A q \in Worker \ {p} : run'[q] = run[q]
      BY <1>0, <2>1 DEF NoRun
    <2>5. PlanIsFresh'
      <3>1. \A s \in DueSources : s \in DueSources'
        BY <2>2, <2>3 DEF DueSources, Live
      <3> QED
        BY <2>1, <3>1 DEF JobInv, PlanIsFresh, Planning
    <2>6. \A s \in Source : Outstanding(s)' => Outstanding(s) /\ s # run[p].src
      <3> SUFFICES ASSUME NEW s \in Source, Outstanding(s)'
                   PROVE  Outstanding(s) /\ s # run[p].src
        OBVIOUS
      <3>1. \/ \E i \in 1 .. Len(queue) : queue[i] = s
            \/ \E u \in Ticker : tick[u].pc = "enqueue" /\ s \in tick[u].chosen
            \/ \E q \in Worker \ {p} : run[q].pc # "idle" /\ run[q].src = s
        BY <2>1, <2>4 DEF Outstanding, InQueue
      <3>2. Outstanding(s)
        BY <3>1 DEF Outstanding, InQueue
      <3>3. s # run[p].src
        BY <2>1, <3>1 DEF JobInv, JobsOnce
      <3> QED
        BY <3>2, <3>3
    <2>7. JobsReserved'
      BY <2>2, <2>6 DEF JobInv, JobsReserved, Live
    <2>8. JobsOnce'
      BY <2>1, <2>4 DEF JobInv, JobsOnce
    <2> QED
      BY <2>5, <2>7, <2>8
  <1> QED
    BY <1>1, <1>2, <1>3 DEF RunStep

LEMMA RunOwnsItsRow ==
  ASSUME NEW p \in Runner, Safe, OwnerRuns, RunStep(p) \/ RunDies(p) \/ WorkerDies(p)
  PROVE  OwnerRuns'
  <1>0. /\ run \in [Runner -> RunState] /\ owner \in [Source -> Process \cup {Nobody}]
        /\ Nobody \notin Runner
    BY ProcessAssumption DEF Safe, TypeOK, Process
  <1>1. CASE RunPop(p) \/ RunRead(p) \/ RunConflict(p)
    <2>1. owner' = owner /\ run[p].pc # "running" /\ \A q \in Runner \ {p} : run'[q] = run[q]
      BY <1>0, <1>1 DEF RunPop, RunRead, RunConflict
    <2> QED
      BY <2>1 DEF OwnerRuns, Running
  <1>2. CASE RunClaim(p)
    <2>1. /\ owner' = [owner EXCEPT ![run[p].src] = p]
          /\ run' = [run EXCEPT ![p].pc = "running"]
          /\ run[p].pc = "claiming"
      BY <1>2 DEF RunClaim
    <2>2. /\ \A q \in Runner \ {p} : run'[q] = run[q]
          /\ run'[p].pc = "running" /\ run'[p].src = run[p].src
      BY <1>0, <2>1 DEF RunState
    <2>3. \A s \in Source : s # run[p].src => owner'[s] = owner[s] /\ owner[s] # p
      BY <1>0, <2>1 DEF OwnerRuns, Running
    <2>4. \A s \in Source : s = run[p].src => owner'[s] = p
      BY <1>0, <2>1
    <2> QED
      BY <2>2, <2>3, <2>4 DEF OwnerRuns, Running
  <1>3. CASE RunCommit(p) \/ RunDies(p) \/ WorkerDies(p)
    <2>1. Release(p) /\ run' = [run EXCEPT ![p] = NoRun]
      BY <1>3 DEF RunCommit, RunDies, WorkerDies
    <2>2. \A s \in Source : owner'[s] \in Runner => owner'[s] = owner[s] /\ owner[s] # p
      BY <1>0, <2>1 DEF Release
    <2> QED
      BY <1>0, <2>1, <2>2 DEF OwnerRuns, Running
  <1> QED
    BY <1>1, <1>2, <1>3 DEF RunStep

LEMMA ElapseKeepsJobs ==
  ASSUME Prompt, JobInv, Elapse
  PROVE  PlanIsFresh' /\ JobsReserved' /\ JobsOnce' /\ OwnerRuns'
  <1>1. TypeOK /\ InTime /\ queue' = queue /\ run' = run /\ owner' = owner
    BY DEF JobInv, Safe, Elapse
  <1>2. /\ \A s \in Source : db[s] \in Row
        /\ \A t \in Ticker : tick[t] \in TickState
    BY <1>1 DEF TypeOK
  <1>3. \A s \in Source : db'[s].ttl = Less(db[s].ttl) /\ db'[s].due = Less(db[s].due)
    BY <1>2 DEF Elapse, Row
  <1>4. \A t \in Ticker : /\ tick'[t].pc = tick[t].pc /\ tick'[t].due = tick[t].due
                          /\ tick'[t].chosen = tick[t].chosen
                          /\ tick'[t].lease = Less(tick[t].lease)
    BY <1>2 DEF Elapse, TickState
  <1>5. \A s \in Source : db[s].ttl \in Nat
    BY <1>2, NumberAssumption DEF Row
  <1>6. \A n \in Nat : (n > 1 => Less(n) > 0) /\ (n > 0 /\ n # 1 => Less(n) > 0)
                       /\ (~(n > 0) => ~(Less(n) > 0))
    BY DEF Less
  <1>7. Less(0) = 0
    BY DEF Less
  <1>8. DueSources \subseteq DueSources'
    BY <1>3, <1>5, <1>6, <1>7 DEF DueSources, Live
  <1>9. \A t \in Ticker : tick[t].lease \in Nat
    BY <1>2, NumberAssumption DEF TickState
  <1>10. PlanIsFresh'
    <2> SUFFICES ASSUME NEW t \in Ticker, Planning(t)'
                 PROVE  /\ tick'[t].lease > 0
                        /\ \A s \in tick'[t].due \cup tick'[t].chosen : s \in DueSources'
      BY DEF PlanIsFresh
    <2>1. Planning(t)
      BY <1>4 DEF Planning
    <2>2. tick[t].lease > 1
      BY <1>1, <2>1 DEF InTime, Planning
    <2> QED
      BY <1>4, <1>6, <1>8, <1>9, <2>1, <2>2 DEF JobInv, PlanIsFresh
  <1>11. \A s \in Source : Outstanding(s)' => Outstanding(s)
    BY <1>1, <1>4 DEF Outstanding, InQueue
  <1>12. JobsReserved'
    BY <1>1, <1>3, <1>5, <1>6, <1>11 DEF JobInv, JobsReserved, Live, InTime
  <1>13. JobsOnce'
    BY <1>1, <1>4 DEF JobInv, JobsOnce
  <1>14. OwnerRuns'
    BY <1>1 DEF JobInv, OwnerRuns, Running
  <1> QED
    BY <1>10, <1>12, <1>13, <1>14

LEMMA JobInvInit == Init => JobInv
  <1> SUFFICES ASSUME Init PROVE JobInv
    OBVIOUS
  <1>1. JobsOnce /\ JobsReserved
    BY DEF Init, JobsOnce, JobsReserved, Outstanding, InQueue, NoTick, NoRun, Runner
  <1>2. PlanIsFresh
    BY DEF Init, PlanIsFresh, Planning, NoTick
  <1>3. OwnerRuns
    BY ProcessAssumption DEF Init, OwnerRuns, Process
  <1> QED
    BY <1>1, <1>2, <1>3, SafeInit DEF JobInv

LEMMA JobInvNext == Orderly /\ JobInv /\ [Next]_vars => JobInv'
  <1> SUFFICES ASSUME Orderly, JobInv, [Next]_vars PROVE JobInv'
    OBVIOUS
  <1>1. Safe' /\ Safe /\ OwnerRuns /\ Prompt /\ Runner = Worker /\ Manual = {}
    BY SafeNext DEF JobInv, Orderly, Runner
  <1>2. CASE \E t \in Ticker : TickStep(t) \/ TickDies(t)
    BY <1>1, <1>2, TickKeepsJobs, TickOwnsNoRunRow DEF JobInv
  <1>3. CASE \E p \in Runner : RunStep(p) \/ RunDies(p) \/ WorkerDies(p)
    BY <1>1, <1>3, RunKeepsJobs, RunOwnsItsRow DEF JobInv
  <1>4. CASE Elapse
    BY <1>1, <1>4, ElapseKeepsJobs DEF JobInv
  <1>5. CASE UNCHANGED vars \/ \E d \in Daemon : Restart(d)
    <2>1. UNCHANGED <<db, owner, queue, tick, run>>
      BY <1>5 DEF vars, Restart
    <2> QED
      BY <1>1, <2>1 DEF JobInv, PlanIsFresh, Planning, JobsReserved, JobsOnce, OwnerRuns,
                        Running, DueSources, Live, Outstanding, InQueue
  <1> QED
    BY <1>1, <1>2, <1>3, <1>4, <1>5 DEF Next

-----------------------------------------------------------------------------
(* What follows.                                                           *)

(* A source that a worker is crawling has a live reservation, so the cap   *)
(* on reservations is a cap on runs: scheduled runs on a host never exceed *)
(* the largest cap of its sources, for any fleet of workers.               *)
THEOREM RunsCapped == Orderly => (Spec => []HostRunsWithinCap)
  <1> SUFFICES ASSUME Orderly PROVE Spec => []HostRunsWithinCap
    OBVIOUS
  <1>1. JobInv /\ LiveReservationsWithinCap => HostRunsWithinCap
    <2> SUFFICES ASSUME JobInv, LiveReservationsWithinCap, NEW h \in Host, CrawledOn(h) # {}
                 PROVE  \E c \in HostCaps(h) : Cardinality(CrawledOn(h)) <= c
      BY DEF HostRunsWithinCap
    <2>1. CrawledOn(h) \subseteq LiveOn(h)
      BY DEF CrawledOn, LiveOn, Running, JobInv, JobsReserved, Outstanding
    <2>2. PICK c \in HostCaps(h) : Cardinality(LiveOn(h)) <= c
      BY <2>1 DEF LiveReservationsWithinCap
    <2>3. /\ Cardinality(CrawledOn(h)) <= Cardinality(LiveOn(h))
          /\ Cardinality(CrawledOn(h)) \in Nat /\ Cardinality(LiveOn(h)) \in Nat
      BY <2>1, LiveOnFinite, SmallerCount
    <2>4. c \in Nat
      BY CapsAreNumbers
    <2> QED
      BY <2>2, <2>3, <2>4
  <1>2. JobInv /\ [Next]_vars => JobInv'
    BY JobInvNext
  <1>3. Spec => []LiveReservationsWithinCap
    BY ReservationsCapped DEF Orderly
  <1> QED
    BY <1>1, <1>2, <1>3, JobInvInit, PTL DEF Spec

(* A source's scheduled job is never in two places: no tick enqueues a     *)
(* source that is queued or being crawled.                                 *)
THEOREM JobsUnique == Orderly => (Spec => []OneJobPerSource)
  <1> SUFFICES ASSUME Orderly PROVE Spec => []OneJobPerSource
    OBVIOUS
  <1>1. JobInv => OneJobPerSource
    <2> SUFFICES ASSUME JobInv, NEW s \in Source PROVE Cardinality(JobSites(s)) <= 1
      BY DEF OneJobPerSource
    <2>1. \A x, y \in JobSites(s) : x = y
      <3> SUFFICES ASSUME NEW x \in JobSites(s), NEW y \in JobSites(s) PROVE x = y
        OBVIOUS
      <3> DEFINE InQ(z) == \E i \in 1 .. Len(queue) : queue[i] = s /\ z = <<"queue", i>>
                 InT(z) == \E t \in Ticker :
                             tick[t].pc = "enqueue" /\ s \in tick[t].chosen /\ z = <<"tick", t>>
                 InR(z) == \E p \in Worker :
                             run[p].pc # "idle" /\ run[p].src = s /\ z = <<"run", p>>
      <3>1. (InQ(x) \/ InT(x) \/ InR(x)) /\ (InQ(y) \/ InT(y) \/ InR(y))
        BY DEF JobSites
      <3>2. InQ(x) /\ InQ(y) => x = y
        BY DEF JobInv, JobsOnce
      <3>3. InT(x) /\ InT(y) => x = y
        BY DEF Orderly, OneTicker
      <3>4. InR(x) /\ InR(y) => x = y
        BY DEF JobInv, JobsOnce
      <3>5. \A z, w : /\ ~(InQ(z) /\ InT(w)) /\ ~(InQ(z) /\ InR(w)) /\ ~(InT(z) /\ InR(w))
        BY DEF JobInv, JobsOnce
      <3> QED
        BY <3>1, <3>2, <3>3, <3>4, <3>5
    <2>2. JobSites(s) = {} \/ \E x : JobSites(s) = {x}
      BY <2>1
    <2>3. CASE JobSites(s) = {}
      <3>1. Cardinality({}) = 0
        BY FS_EmptySet
      <3> QED
        BY <2>3, <3>1
    <2>4. CASE \E x : JobSites(s) = {x}
      <3>1. PICK x : JobSites(s) = {x}
        BY <2>4
      <3>2. Cardinality({x}) = 1
        BY FS_Singleton
      <3> QED
        BY <3>1, <3>2
    <2> QED
      BY <2>2, <2>3, <2>4
  <1>2. JobInv /\ [Next]_vars => JobInv'
    BY JobInvNext
  <1> QED
    BY <1>1, <1>2, JobInvInit, PTL DEF Spec

(* What due_sources said when it was read is still so when the tick        *)
(* commits: a reserved source is due and was not reserved.                 *)
THEOREM ReservationsEligible == Orderly => (Spec => ReservesOnlyEligible)
  <1> SUFFICES ASSUME Orderly PROVE Spec => ReservesOnlyEligible
    OBVIOUS
  <1>1. JobInv =>
          [\A t \in Ticker : TickCommit(t) =>
             \A s \in tick[t].chosen : db[s].due = 0 /\ ~Live(s)]_vars
    BY DEF JobInv, PlanIsFresh, Planning, TickCommit, DueSources
  <1>2. JobInv /\ [Next]_vars => JobInv'
    BY JobInvNext
  <1> QED
    BY <1>1, <1>2, JobInvInit, PTL DEF Spec, ReservesOnlyEligible

-----------------------------------------------------------------------------
(* The failure counter.  A run writes a count it computed from the row as  *)
(* it was when the claim read it.  Where no two runs of a source meet, no  *)
(* other run commits in between, so that row is still the committed one.   *)

CountIsFresh ==
    \A p \in Runner : run[p].pc \in {"claiming", "running"} =>
      run[p].fails = db[run[p].src].fails

CountInv == CountIsFresh /\ FailureCounterExact

(* Only the commit of a run writes a failure counter or ends a streak.     *)
LEMMA WhoCounts ==
  ASSUME TypeOK, [Next]_vars, ~ \E p \in Runner : RunCommit(p)
  PROVE  streak' = streak /\ \A s \in Source : db'[s].fails = db[s].fails
  <1>1. \A s \in Source : db[s] \in Row
    BY DEF TypeOK
  <1>2. CASE \E t \in Ticker : TickCommit(t)
    <2>1. PICK t \in Ticker : TickCommit(t)
      BY <1>2
    <2>2. /\ streak' = streak
          /\ db' = [s \in Source |->
                      IF s \in tick[t].chosen
                      THEN [db[s] EXCEPT !.exists = TRUE, !.token = "enqueue",
                                         !.ttl = tick[t].lease]
                      ELSE db[s]]
      BY <2>1 DEF TickCommit
    <2>3. \A s \in Source : db'[s].fails = db[s].fails
      BY <1>1, <2>2 DEF Row
    <2> QED
      BY <2>2, <2>3
  <1>3. CASE Elapse
    BY <1>1, <1>3 DEF Elapse, Row
  <1>4. CASE db' = db /\ streak' = streak
    BY <1>4
  <1> QED
    BY <1>2, <1>3, <1>4
    DEF Next, TickStep, TickDies, TickStart, TickLoad, TickSkip, TickSelect, TickReserve,
        TickConflict, TickEnqueue, RunStep, RunPop, RunRead, RunClaim, RunConflict, RunDies,
        WorkerDies, RunByHand, Restart, vars

(* A run past its check keeps the count it read; one that passes it takes  *)
(* the committed count.                                                    *)
LEMMA WhoReads ==
  ASSUME TypeOK, [Next]_vars, NEW q \in Runner, run'[q].pc \in {"claiming", "running"}
  PROVE  \/ /\ run[q].pc \in {"claiming", "running"}
            /\ run'[q].fails = run[q].fails /\ run'[q].src = run[q].src
         \/ /\ db' = db /\ run'[q].src = run[q].src
            /\ run'[q].fails = db[run[q].src].fails
  <1>0. run \in [Runner -> RunState] /\ run[q] \in RunState
    BY DEF TypeOK
  <1>1. ASSUME NEW p \in Runner, RunStep(p) \/ RunDies(p) \/ WorkerDies(p), p # q
        PROVE  run'[q] = run[q]
    BY <1>0, <1>1 DEF RunStep, RunPop, RunRead, RunClaim, RunConflict, RunCommit, RunDies,
                      WorkerDies
  <1>2. CASE RunRead(q)
    BY <1>0, <1>2 DEF RunRead, NoRun, RunState
  <1>3. CASE RunClaim(q)
    BY <1>0, <1>3 DEF RunClaim, RunState
  <1>4. ~(RunPop(q) \/ RunConflict(q) \/ RunCommit(q) \/ RunDies(q) \/ WorkerDies(q))
    <2>1. RunPop(q) => run'[q].pc = "popped"
      BY <1>0 DEF RunPop, NoRun
    <2>2. RunConflict(q) \/ RunCommit(q) \/ RunDies(q) \/ WorkerDies(q) => run' = [run EXCEPT ![q] = NoRun]
      BY DEF RunConflict, RunCommit, RunDies, WorkerDies
    <2>3. run' = [run EXCEPT ![q] = NoRun] => run'[q].pc = "idle"
      BY <1>0 DEF NoRun
    <2> QED
      BY <2>1, <2>2, <2>3
  <1>5. ASSUME NEW p \in Manual, NEW s \in Source, RunByHand(p, s) PROVE run'[q] = run[q]
    BY <1>0, <1>5 DEF RunByHand, NoRun, Runner
  <1>6. \/ \E t \in Ticker : TickStep(t) \/ TickDies(t)
        \/ (\E d \in Daemon : Restart(d)) \/ Elapse \/ UNCHANGED vars
        => run' = run
    BY DEF TickStep, TickDies, TickStart, TickLoad, TickSkip, TickSelect, TickReserve,
           TickConflict, TickCommit, TickEnqueue, Restart, Elapse, vars
  <1>7. CASE run'[q] = run[q]
    BY <1>7
  <1> QED
    BY <1>1, <1>2, <1>3, <1>4, <1>5, <1>6, <1>7 DEF Next, RunStep

LEMMA CommitCounts ==
  ASSUME NEW p \in Runner, Safe, ~RunsMeet, CountInv, RunCommit(p)
  PROVE  CountInv'
  <1> DEFINE s == run[p].src
  <1>0. /\ TypeOK /\ s \in Source /\ run[p].pc = "running"
        /\ run[p].fails = db[s].fails /\ db[s].fails = streak[s]
        /\ db[s].fails \in 0 .. FailCap
    BY DEF CountInv, Safe, RunHoldsRow, CountIsFresh, FailureCounterExact, RunCommit,
           TypeOK, Row
  <1>1. PICK f \in BOOLEAN : \E d \in IF f THEN FailDelay ELSE OkDelay :
          /\ db' = [db EXCEPT ![s] =
                      [exists |-> TRUE, token |-> "none", ttl |-> 0, due |-> d,
                       fails |-> FailsAfter(f, run[p].fails, @.fails)]]
          /\ streak' = [streak EXCEPT ![s] = IF f THEN Count(streak[s]) ELSE 0]
    BY DEF RunCommit
  <1>2. /\ \A r \in Source \ {s} : db'[r] = db[r] /\ streak'[r] = streak[r]
        /\ db'[s].fails = FailsAfter(f, db[s].fails, db[s].fails)
        /\ streak'[s] = IF f THEN Count(streak[s]) ELSE 0
    BY <1>0, <1>1 DEF TypeOK
  <1>3. FailureCounterExact'
    BY <1>0, <1>2 DEF CountInv, FailureCounterExact, FailsAfter
  <1>4. run' = [run EXCEPT ![p] = NoRun]
    BY DEF RunCommit
  <1>5. \A q \in Runner \ {p} :
          run[q].pc \in {"claiming", "running"} => run[q].src \in Source \ {s}
    BY <1>0 DEF RunsMeet, Safe, RunHoldsRow
  <1>6. run'[p].pc = "idle" /\ \A q \in Runner \ {p} : run'[q] = run[q]
    BY <1>0, <1>4 DEF TypeOK, NoRun
  <1>7. CountIsFresh'
    BY <1>2, <1>5, <1>6 DEF CountIsFresh, CountInv
  <1> QED
    BY <1>3, <1>7 DEF CountInv

LEMMA CountInvNext == Safe /\ ~RunsMeet /\ CountInv /\ [Next]_vars => CountInv'
  <1> SUFFICES ASSUME Safe, ~RunsMeet, CountInv, [Next]_vars PROVE CountInv'
    OBVIOUS
  <1>1. TypeOK /\ Safe'
    BY SafeNext DEF Safe
  <1>2. CASE \E p \in Runner : RunCommit(p)
    BY <1>2, CommitCounts
  <1>3. CASE ~ \E p \in Runner : RunCommit(p)
    <2>1. streak' = streak /\ \A s \in Source : db'[s].fails = db[s].fails
      BY <1>1, <1>3, WhoCounts
    <2>2. FailureCounterExact'
      BY <2>1 DEF CountInv, FailureCounterExact
    <2>3. CountIsFresh'
      <3> SUFFICES ASSUME NEW p \in Runner, run'[p].pc \in {"claiming", "running"}
                   PROVE  run'[p].fails = db'[run'[p].src].fails
        BY DEF CountIsFresh
      <3>1. run'[p].src \in Source
        BY <1>1 DEF Safe, RunHoldsRow
      <3> QED
        BY <1>1, <2>1, <3>1, WhoReads DEF CountInv, CountIsFresh
    <2> QED
      BY <2>2, <2>3 DEF CountInv
  <1> QED
    BY <1>2, <1>3

(* For any number of schedulers, workers and operators, and reservations   *)
(* that expire at any time: until two runs of a source are past            *)
(* claim_source's check at once, consecutive_failures is the number of     *)
(* failed runs since the last one that did not fail.                       *)
THEOREM CountsKept == Spec => ([]~RunsMeet => []FailureCounterExact)
  <1>1. Init => CountInv
    BY DEF Init, CountInv, CountIsFresh, FailureCounterExact, NoRun, NoRow
  <1>2. Safe /\ ~RunsMeet /\ CountInv /\ [Next]_vars => CountInv'
    BY CountInvNext
  <1>3. CountInv => FailureCounterExact
    BY DEF CountInv
  <1> QED
    BY <1>1, <1>2, <1>3, SafeAlways, PTL DEF Spec
=============================================================================
