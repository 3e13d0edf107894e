----------------------------- MODULE HttpFetch -----------------------------
(***************************************************************************)
(* fetch_url of ingest/http_client.py: one process fetches files of one     *)
(* host into one directory, one call after the other.  A call makes up to   *)
(* FetchAttempts attempts; an attempt waits for its turn at the host, opens *)
(* a temporary file, follows redirects and streams the answer into it.      *)
(* The server is free: any answer may come to any request.                  *)
(***************************************************************************)
EXTENDS Integers

CONSTANTS
    FetchBodies,        \* what a server may deliver
    FetchSize,          \* FetchSize[b]: the chunks of body b
    FetchLimit,         \* max_bytes, in chunks
    FetchAttempts,      \* stop_after_attempt
    FetchRedirects,     \* _MAX_REDIRECTS
    FetchMaxDelay,      \* the longest delay a descriptor or a robots.txt asks for
    FetchMaxCalls,      \* bound: calls the model makes
    FetchNone           \* no body, no file

ASSUME FetchAssumption ==
    /\ FetchSize \in [FetchBodies -> Nat]
    /\ FetchLimit \in Nat
    /\ FetchAttempts \in Nat \ {0}
    /\ FetchRedirects \in Nat
    /\ FetchMaxDelay \in Nat
    /\ FetchMaxCalls \in Nat
    /\ FetchNone \notin FetchBodies
    /\ FetchNone \notin [of : SUBSET FetchBodies, chunks : Nat]

VARIABLES
    fetch,          \* the call in progress
    fetchDir,       \* dest_dir: fetchDir[f] is what file f holds
    fetchGiven,     \* history: the body file f was handed over as
    fetchSince,     \* time since _last_hit[host]; FetchMaxDelay: never, or long ago
    fetchQuiet      \* history: time since an attempt under a delay went to the host

fetchVars == <<fetch, fetchDir, fetchGiven, fetchSince, fetchQuiet>>

\* A temporary file is named by the call and the attempt that make it.
FetchFiles == (1..FetchMaxCalls) \X (1..FetchAttempts)

\* Contents of a file: which bodies its chunks are from, and how many they are.
FetchContents == [of : SUBSET FetchBodies, chunks : Nat]
FetchEmpty == [of |-> {}, chunks |-> 0]

FetchDelays == 0..FetchMaxDelay

\* away: the last redirect led to another host.
FetchStates ==
    [pc : {"idle", "turn", "get", "stream", "backoff"},
     call : 0..FetchMaxCalls, attempt : 0..FetchAttempts,
     hop : 0..FetchRedirects, away : BOOLEAN, delay : FetchDelays, wait : FetchDelays,
     expects : FetchBodies \cup {FetchNone},
     body : FetchBodies \cup {FetchNone}, total : 0..FetchLimit]

FetchTypeOK ==
    /\ fetch \in FetchStates
    /\ fetchDir \in [FetchFiles -> FetchContents \cup {FetchNone}]
    /\ fetchGiven \in [FetchFiles -> FetchBodies \cup {FetchNone}]
    /\ fetchSince \in FetchDelays
    /\ fetchQuiet \in FetchDelays

FetchInit ==
    /\ fetch = [pc |-> "idle", call |-> 0, attempt |-> 0, hop |-> 0, away |-> FALSE,
                delay |-> 0, wait |-> 0, expects |-> FetchNone,
                body |-> FetchNone, total |-> 0]
    /\ fetchDir = [f \in FetchFiles |-> FetchNone]
    /\ fetchGiven = [f \in FetchFiles |-> FetchNone]
    /\ fetchSince = FetchMaxDelay
    /\ fetchQuiet = FetchMaxDelay

FetchFile == <<fetch.call, fetch.attempt>>

\* The call is over.
FetchOver == [fetch EXCEPT !.pc = "idle", !.attempt = 0, !.hop = 0, !.away = FALSE,
                           !.delay = 0, !.wait = 0, !.expects = FetchNone, !.body = FetchNone, !.total = 0]

\* What the fetch() of a connector passes on: the delay of its source, a checksum.
FetchCalls == [delay : FetchDelays, expects : FetchBodies \cup {FetchNone}]

FetchStart ==
    /\ fetch.pc = "idle"
    /\ fetch.call < FetchMaxCalls
    /\ \E c \in FetchCalls :
         fetch' = [fetch EXCEPT !.pc = "turn", !.call = @ + 1, !.attempt = 1, !.delay = c.delay,
                                !.expects = c.expects]
    /\ UNCHANGED <<fetchDir, fetchGiven, fetchSince, fetchQuiet>>

\* check_url_allowed, asked again before every attempt.
FetchRefused ==
    /\ fetch.pc = "turn"
    /\ fetch' = FetchOver
    /\ UNCHANGED <<fetchDir, fetchGiven, fetchSince, fetchQuiet>>

\* What _respect_delay leaves in _last_hit: no delay, no record.
FetchStamp(wait) == IF wait > 0 THEN 0 ELSE fetchSince

\* The larger of the two delays is waited for, then the file is opened.
FetchTurn ==
    /\ fetch.pc = "turn"
    /\ \E declared \in FetchDelays :
         LET wait == IF declared > fetch.delay THEN declared ELSE fetch.delay
         IN  /\ wait > 0 => fetchSince >= wait
             /\ fetchSince' = FetchStamp(wait)
             /\ fetchQuiet' = IF wait > 0 THEN 0 ELSE fetchQuiet
             /\ fetch' = [fetch EXCEPT !.pc = "get", !.wait = wait]
    /\ fetchDir' = [fetchDir EXCEPT ![FetchFile] = FetchEmpty]
    /\ UNCHANGED fetchGiven

\* Mutant: the file of a failed attempt stays.
FetchUnlinkForgotten == fetchDir
\* The handler of every exception removes the file of the attempt.
FetchUnlink == [fetchDir EXCEPT ![FetchFile] = FetchNone]

FetchRaise ==
    /\ fetchDir' = FetchUnlink
    /\ fetch' = FetchOver

\* Refused by the guard at a hop, refused by the server, or cut off.
FetchFails ==
    /\ fetch.pc \in {"get", "stream"}
    /\ FetchRaise
    /\ UNCHANGED <<fetchGiven, fetchSince, fetchQuiet>>

\* A Location that the guard accepts, of this host or another: the next request goes
\* there at once.
FetchRedirected ==
    /\ fetch.pc = "get"
    /\ IF fetch.hop < FetchRedirects
       THEN /\ \E away \in BOOLEAN : fetch' = [fetch EXCEPT !.hop = @ + 1, !.away = away]
            /\ UNCHANGED fetchDir
       ELSE FetchRaise
    /\ UNCHANGED <<fetchGiven, fetchSince, fetchQuiet>>

\* 304, asked for or not: the call returns before the file is touched, and leaves it empty.
FetchNotModified ==
    /\ fetch.pc = "get"
    /\ fetch' = FetchOver
    /\ UNCHANGED <<fetchDir, fetchGiven, fetchSince, fetchQuiet>>

\* 429 or 5xx: RetryableFetch.
FetchBusy ==
    /\ fetch.pc = "get"
    /\ IF fetch.attempt < FetchAttempts
       THEN /\ fetchDir' = FetchUnlink
            /\ fetch' = [fetch EXCEPT !.pc = "backoff"]
       ELSE FetchRaise
    /\ UNCHANGED <<fetchGiven, fetchSince, fetchQuiet>>

\* Mutant: attempts are not counted.
FetchNextAttemptUncounted == [fetch EXCEPT !.pc = "turn", !.hop = 0, !.away = FALSE]
FetchNextAttempt == [fetch EXCEPT !.pc = "turn", !.attempt = @ + 1, !.hop = 0, !.away = FALSE]

FetchRetry ==
    /\ fetch.pc = "backoff"
    /\ fetch' = FetchNextAttempt
    /\ UNCHANGED <<fetchDir, fetchGiven, fetchSince, fetchQuiet>>

\* A 2xx answer begins; a Content-Length that is sent tells its size.
FetchAnswer ==
    /\ fetch.pc = "get"
    /\ \E b \in FetchBodies, sized \in BOOLEAN :
         IF sized /\ FetchSize[b] > FetchLimit
         THEN FetchRaise
         ELSE fetch' = [fetch EXCEPT !.pc = "stream", !.body = b] /\ UNCHANGED fetchDir
    /\ UNCHANGED <<fetchGiven, fetchSince, fetchQuiet>>

\* Mutant: the limit is looked at before the chunk is counted.
FetchTooMuchLate == fetch.total > FetchLimit
FetchTooMuch == fetch.total + 1 > FetchLimit

FetchChunk ==
    /\ fetch.pc = "stream"
    /\ fetch.total < FetchSize[fetch.body]
    /\ IF FetchTooMuch
       THEN FetchRaise
       ELSE /\ fetchDir' = [fetchDir EXCEPT ![FetchFile] =
                              [of |-> @.of \cup {fetch.body}, chunks |-> @.chunks + 1]]
            /\ fetch' = [fetch EXCEPT !.total = @ + 1]
    /\ UNCHANGED <<fetchGiven, fetchSince, fetchQuiet>>

\* What the fetch() of a connector makes of an answer: the crawl is given the file.
FetchHandOver == [fetchGiven EXCEPT ![FetchFile] = fetch.body]

\* The whole body is there: its checksum is compared and the file handed over.
FetchDone ==
    /\ fetch.pc = "stream"
    /\ fetch.total = FetchSize[fetch.body]
    /\ IF fetch.expects \notin {FetchNone, fetch.body}
       THEN FetchRaise /\ UNCHANGED fetchGiven
       ELSE /\ fetchGiven' = FetchHandOver
            /\ fetch' = FetchOver
            /\ UNCHANGED fetchDir
    /\ UNCHANGED <<fetchSince, fetchQuiet>>

FetchElapse ==
    /\ fetchSince < FetchMaxDelay \/ fetchQuiet < FetchMaxDelay
    /\ fetchSince' = IF fetchSince < FetchMaxDelay THEN fetchSince + 1 ELSE fetchSince
    /\ fetchQuiet' = IF fetchQuiet < FetchMaxDelay THEN fetchQuiet + 1 ELSE fetchQuiet
    /\ UNCHANGED <<fetch, fetchDir, fetchGiven>>

FetchStep ==
    \/ FetchRefused \/ FetchTurn \/ FetchFails \/ FetchRedirected \/ FetchNotModified \/ FetchBusy
    \/ FetchRetry \/ FetchAnswer \/ FetchChunk \/ FetchDone

FetchNext == FetchStart \/ FetchStep \/ FetchElapse

FetchSpec == FetchInit /\ [][FetchNext]_fetchVars

\* The client goes on (httpx times out a request that is not answered), and time passes.
FetchFairness == WF_fetchVars(FetchStep) /\ WF_fetchVars(FetchElapse)

-----------------------------------------------------------------------------
FetchGivesWhole ==
    \A f \in FetchFiles : fetchGiven[f] # FetchNone =>
        /\ fetchDir[f] # FetchNone
        /\ fetchDir[f].of \subseteq {fetchGiven[f]}
        /\ fetchDir[f].chunks = FetchSize[fetchGiven[f]]
        /\ fetchDir[f].chunks <= FetchLimit

FetchLeavesNoPart ==
    \A f \in FetchFiles : fetchDir[f] \notin {FetchNone, FetchEmpty} =>
        \/ fetchGiven[f] # FetchNone
        \/ f = FetchFile /\ fetch.pc = "stream"

(* The directory a crawl fetches into holds whole answers only: a file that  *)
(* was handed over is one body, not cut and not mixed with what an attempt   *)
(* or a hop before it received, within the limit, and stays so whatever      *)
(* later calls do; nothing else is left of calls that failed at any point    *)
(* but empty files (http_client.py:125-203).                                 *)
FetchDirectory == FetchGivesWhole /\ FetchLeavesNoPart

(* The first request of an attempt under a delay, retries included, goes out *)
(* no sooner than its delay after the last such request to the host, what-   *)
(* ever delays robots.txt has asked for in between (http_client.py:57-65,    *)
(* 111-115).  Where a redirect leads is another matter: FetchSpaced.         *)
FetchWaitsItsTurn ==
    fetch.pc = "turn" /\ fetch'.pc = "get" /\ fetch'.wait > 0 => fetchQuiet >= fetch'.wait

FetchPolite == [][FetchWaitsItsTurn]_fetchVars

\* A request to the host: the first of an attempt, or a redirect that stays there.
FetchAsks ==
    fetch'.pc = "get" /\ ~fetch'.away /\ (fetch.pc = "turn" \/ fetch'.hop > fetch.hop)

(* "per-host crawl delay (descriptor + robots.txt crawl-delay, larger wins)" *)
(* (http_client.py:10): no request under a delay goes to the host before it  *)
(* has passed.                                                               *)
FetchSpaced == [][FetchAsks /\ fetch'.wait > 0 => fetchQuiet >= fetch'.wait]_fetchVars

(* A call ends, whatever the server answers: hops, attempts and chunks are   *)
(* all counted (http_client.py:83-88, 137, 164).                             *)
FetchEnds == fetch.pc # "idle" ~> fetch.pc = "idle"
=============================================================================
