---------------------------- MODULE RobotsRules ----------------------------
(***************************************************************************)
(* core/robots.py for one origin: the rules of its robots.txt are loaded   *)
(* when a crawl asks for them and kept for RobotsTTL in the process.        *)
(* Entries of different origins do not touch each other.  Time is relative: *)
(* RobotsElapse is the only clock.                                          *)
(***************************************************************************)
EXTENDS Integers

CONSTANTS
    RobotsTTL,      \* _TTL, in ticks
    RobotsTries     \* how often a load asks before it gives up

ASSUME RobotsAssumption ==
    /\ RobotsTTL \in Nat \ {0}
    /\ RobotsTries \in Nat \ {0}

\* What the origin does with GET /robots.txt: a file that permits the
\* crawler or forbids it, 404 or another 4xx, 401 or 403 or 5xx, no answer.
RobotsAnswers == {"permits", "forbids", "missing", "refused", "silent"}

\* The rules an answer amounts to (_load_parser, its status handling).
RobotsParsed(answer) == answer \in {"permits", "missing"}

VARIABLES
    robotsSite,     \* what the origin answers now
    robotsCache,    \* [left, permits]: the entry of _cache; left = 0: expired or none
    robotsCall,     \* the call in progress
    robotsSpan      \* history: how long ago the origin last answered the opposite

robotsVars == <<robotsSite, robotsCache, robotsCall, robotsSpan>>

RobotsIdle == [pc |-> "idle", try |-> 0, since |-> 0, permits |-> FALSE]

RobotsTypeOK ==
    /\ robotsSite \in RobotsAnswers
    /\ robotsCache \in [left : 0..RobotsTTL, permits : BOOLEAN]
    /\ robotsCall \in [pc : {"idle", "get", "told"}, try : 0..RobotsTries,
                       since : 0..RobotsTTL, permits : BOOLEAN]
    /\ robotsSpan \in 0..RobotsTTL + 1

RobotsInit ==
    /\ robotsSite \in RobotsAnswers
    /\ robotsCache = [left |-> 0, permits |-> FALSE]
    /\ robotsCall = RobotsIdle
    /\ robotsSpan = RobotsTTL + 1

RobotsTold(permits) == [RobotsIdle EXCEPT !.pc = "told", !.permits = permits]

\* Mutant: an entry that permits is used after it has expired.
RobotsFreshForever == robotsCache.left > 0 \/ robotsCache.permits

\* Whether the cached entry still counts.
RobotsFresh == robotsCache.left > 0

\* robots_allowed or crawl_delay: a fresh entry is the answer.
RobotsAskCached ==
    /\ robotsCall.pc = "idle"
    /\ RobotsFresh
    /\ robotsCall' = RobotsTold(robotsCache.permits)
    /\ UNCHANGED <<robotsSite, robotsCache, robotsSpan>>

\* Otherwise the file is fetched; `now' was read before that.
RobotsAskLoads ==
    /\ robotsCall.pc = "idle"
    /\ ~RobotsFresh
    /\ robotsCall' = [RobotsIdle EXCEPT !.pc = "get", !.try = 1]
    /\ UNCHANGED <<robotsSite, robotsCache, robotsSpan>>

\* The entry made of a load: it runs from when the load began.
RobotsEntry(permits) == [left |-> RobotsTTL - robotsCall.since, permits |-> permits]

RobotsKeep(permits) ==
    /\ robotsCache' = RobotsEntry(permits)
    /\ robotsCall' = RobotsTold(permits)

RobotsGet ==
    /\ robotsCall.pc = "get"
    /\ IF robotsSite = "silent" /\ robotsCall.try < RobotsTries
       THEN /\ robotsCall' = [robotsCall EXCEPT !.try = @ + 1]
            /\ UNCHANGED robotsCache
       ELSE RobotsKeep(RobotsParsed(robotsSite))
    /\ UNCHANGED <<robotsSite, robotsSpan>>

RobotsReturn ==
    /\ robotsCall.pc = "told"
    /\ robotsCall' = RobotsIdle
    /\ UNCHANGED <<robotsSite, robotsCache, robotsSpan>>

\* The answer is used as soon as it is known.
RobotsElapse ==
    /\ robotsCall.pc # "told"
    /\ robotsCache' = [robotsCache EXCEPT !.left = IF @ = 0 THEN 0 ELSE @ - 1]
    /\ robotsCall' = IF robotsCall.pc = "get" /\ robotsCall.since < RobotsTTL
                     THEN [robotsCall EXCEPT !.since = @ + 1] ELSE robotsCall
    /\ robotsSpan' = IF robotsSpan > RobotsTTL THEN robotsSpan ELSE robotsSpan + 1
    /\ UNCHANGED robotsSite

RobotsSiteChanges ==
    /\ \E answer \in RobotsAnswers \ {robotsSite} :
         /\ robotsSite' = answer
         /\ robotsSpan' = IF RobotsParsed(answer) = RobotsParsed(robotsSite)
                          THEN robotsSpan ELSE 0
    /\ UNCHANGED <<robotsCache, robotsCall>>

RobotsStep == RobotsAskCached \/ RobotsAskLoads \/ RobotsGet \/ RobotsReturn

RobotsNext == RobotsStep \/ RobotsElapse \/ RobotsSiteChanges

RobotsSpec == RobotsInit /\ [][RobotsNext]_robotsVars

-----------------------------------------------------------------------------
(* A crawl that is told to go, or to stay away, is told what the origin has  *)
(* answered within the last RobotsTTL: a permission does not outlive a ban   *)
(* that was put up longer ago (robots.py:49-53, 90), and an outage or a ban  *)
(* that is over stops no crawl for longer than that (robots.py:76-77, 89).   *)
RobotsHonoured ==
    [][robotsCall.pc # "told" /\ robotsCall'.pc = "told" =>
         \/ robotsCall'.permits = RobotsParsed(robotsSite)
         \/ robotsSpan < RobotsTTL]_robotsVars

=============================================================================
