--------------------------- MODULE FeaturePaging ---------------------------
(***************************************************************************)
(* fetch() of the connectors that ask a feature service for the rows of a   *)
(* layer (ingest/connectors/): arcgis_rest by offset, by OBJECTID or at     *)
(* once, ogc_api_features by next links, ogc_wfs at once.  Each request is  *)
(* a step and may fail; between them the service may change its rows.       *)
(***************************************************************************)
EXTENDS Integers, Sequences, FiniteSets

CONSTANTS
    PagingIds,      \* OBJECTIDs
    PagingTables,   \* what the layer may hold: rows in the order of the service
    PagingPage,     \* resultRecordCount, limit
    PagingCaps,     \* how many rows a service gives at once
    PagingMax,      \* max_features
    PagingChanges   \* bound: changes of the layer during a call

ASSUME PagingAssumption ==
    /\ PagingIds \subseteq Nat
    /\ PagingTables \subseteq Seq(PagingIds)
    /\ \A t \in PagingTables : \A i, j \in DOMAIN t : t[i] = t[j] => i = j
    /\ PagingPage \in Nat \ {0}
    /\ PagingCaps \subseteq Nat \ {0}
    /\ PagingMax \in Nat \ {0}
    /\ PagingChanges \in Nat

VARIABLES
    paging,         \* the call
    pagingRows,     \* the layer
    pagingServer,   \* what the service takes: resultOffset, resultRecordCount, orderByFields
    pagingStayed,   \* history: the rows that have been there since the call began
    pagingChanges   \* history: how often the layer has changed

pagingVars == <<paging, pagingRows, pagingServer, pagingStayed, pagingChanges>>

PagingKinds == {"offset", "oid", "once", "oaf", "wfs"}

\* got[id]: how often a row is in the file; last: rows up to it were asked for;
\* expected: the length of a full batch, 0 when not learned yet.
PagingCalls ==
    [kind : PagingKinds, pc : {"count", "page", "done", "raised"}, offset : Nat,
     last : Nat \cup {-1}, order : BOOLEAN, count : BOOLEAN, expected : Nat,
     got : [PagingIds -> Nat], truncated : BOOLEAN]

PagingServers == [cap : PagingCaps, offsets : BOOLEAN, counts : BOOLEAN, orders : BOOLEAN]

PagingTypeOK ==
    /\ paging \in PagingCalls
    /\ pagingRows \in Seq(PagingIds)
    /\ pagingServer \in PagingServers
    /\ pagingStayed \subseteq PagingIds
    /\ pagingChanges \in 0..PagingChanges

PagingHeld == {pagingRows[i] : i \in DOMAIN pagingRows}

PagingInit ==
    /\ pagingRows \in PagingTables
    /\ pagingServer \in PagingServers
    /\ pagingStayed = PagingHeld
    /\ pagingChanges = 0
    /\ \E kind \in PagingKinds :
         paging = [kind |-> kind, offset |-> 0, last |-> -1, order |-> TRUE, count |-> TRUE,
                   pc |-> IF kind \in {"oaf", "wfs"} THEN "page" ELSE "count",
                   expected |-> PagingPage, got |-> [id \in PagingIds |-> 0],
                   truncated |-> FALSE]

PagingRuns == paging.pc \in {"count", "page"}

\* The layer without its i-th row.
PagingWithout(i) ==
    [j \in 1..Len(pagingRows) - 1 |-> IF j < i THEN pagingRows[j] ELSE pagingRows[j + 1]]

\* A row is deleted, or inserted at the end.
PagingChange(id) ==
    /\ PagingRuns
    /\ pagingChanges < PagingChanges
    /\ pagingChanges' = pagingChanges + 1
    /\ \/ \E i \in DOMAIN pagingRows :
             pagingRows[i] = id /\ pagingRows' = PagingWithout(i)
       \/ id \notin PagingHeld /\ pagingRows' = Append(pagingRows, id)
    /\ pagingStayed' = pagingStayed \ {id}
    /\ UNCHANGED <<paging, pagingServer>>

-----------------------------------------------------------------------------
PagingLesser(m, n) == IF m < n THEN m ELSE n

\* The n rows after the first `from' of them, as far as there are that many.
PagingSlice(from, n) ==
    SubSeq(pagingRows, from + 1, PagingLesser(from + n, Len(pagingRows)))

PagingIn(batch) == {batch[i] : i \in DOMAIN batch}

\* What the file holds once rows S are in it, too.
PagingTook(S) == [id \in PagingIds |-> paging.got[id] + (IF id \in S THEN 1 ELSE 0)]

PagingRaised == [paging EXCEPT !.pc = "raised"]

PagingStep == UNCHANGED <<pagingRows, pagingServer, pagingStayed, pagingChanges>>

\* A request that fails ends the call, but the one for the count does not matter.
PagingFails ==
    /\ paging.pc = "page"
    /\ paging' = PagingRaised
    /\ PagingStep

PagingCountRows ==
    /\ paging.pc = "count"
    /\ paging' = [paging EXCEPT !.pc = "page"]
    /\ PagingStep

PagingAt(kind) == paging.pc = "page" /\ paging.kind = kind

\* _offset_pages
PagingOffset ==
    /\ PagingAt("offset") /\ pagingServer.offsets
    /\ LET batch == PagingSlice(paging.offset, PagingLesser(PagingPage, pagingServer.cap))
       IN  paging' = [paging EXCEPT !.got = PagingTook(PagingIn(batch)),
                        !.pc = IF Len(batch) < PagingPage THEN "done" ELSE "page",
                        !.offset = @ + PagingPage]
    /\ PagingStep

\* "Pagination is not supported": by OBJECTID instead, if the layer has one.
PagingFallsBack ==
    /\ PagingAt("offset") /\ ~pagingServer.offsets
    /\ paging' = [paging EXCEPT !.kind = "oid"]
    /\ PagingStep

\* _oid_pages drops what the service does not take.
PagingUncounted ==
    /\ PagingAt("oid") /\ paging.count /\ ~pagingServer.counts
    /\ paging' = [paging EXCEPT !.count = FALSE, !.expected = 0]
    /\ PagingStep

PagingUnordered ==
    /\ PagingAt("oid") /\ paging.order /\ ~pagingServer.orders
    /\ paging' = [paging EXCEPT !.order = FALSE]
    /\ PagingStep

PagingRest == {id \in PagingHeld : id > paging.last}

PagingFull == IF paging.count THEN PagingLesser(PagingPage, pagingServer.cap)
              ELSE pagingServer.cap

\* What a service may answer: all of the rest, or a full batch of it, the least
\* ones when it was asked to sort.
PagingBatches ==
    {B \in SUBSET PagingRest :
        /\ \/ B = PagingRest /\ Cardinality(B) <= PagingFull
           \/ Cardinality(B) = PagingFull
        /\ paging.order => \A b \in B, r \in PagingRest \ B : b < r}

\* Mutant: a service that does not count is still thought to fill the page.
PagingExpectPage(n) == PagingPage
\* The length of a full batch is learned from the first one.
PagingExpect(n) == IF paging.expected # 0 THEN paging.expected
                   ELSE IF n = 0 THEN 1 ELSE n

PagingOid ==
    /\ PagingAt("oid")
    /\ paging.count => pagingServer.counts
    /\ paging.order => pagingServer.orders
    /\ \E B \in PagingBatches :
         LET n == Cardinality(B)
             next == [paging EXCEPT !.got = PagingTook(B), !.expected = PagingExpect(n)]
         IN  IF B = {} \/ n < PagingExpect(n) THEN paging' = [next EXCEPT !.pc = "done"]
             ELSE \E top \in B :
                    /\ \A b \in B : b <= top
                    /\ paging' = [next EXCEPT !.last = top]
    /\ PagingStep

\* No pagination and no OBJECTID, or WFS: one request.
PagingOnce ==
    /\ PagingAt("once") \/ PagingAt("wfs")
    /\ LET n == IF paging.kind = "wfs" THEN PagingLesser(PagingMax, pagingServer.cap)
                ELSE pagingServer.cap
       IN  paging' = [paging EXCEPT !.pc = "done", !.got = PagingTook(PagingIn(PagingSlice(0, n)))]
    /\ PagingStep

\* The file is cut to max_features, and says so when it is.
PagingNextLink ==
    /\ PagingAt("oaf")
    /\ LET batch == PagingSlice(paging.offset, PagingLesser(PagingPage, pagingServer.cap))
           total == paging.offset + Len(batch)
           kept == SubSeq(batch, 1, PagingLesser(Len(batch), PagingMax - paging.offset))
           more == total < Len(pagingRows)
       IN  paging' = [paging EXCEPT !.got = PagingTook(PagingIn(kept)), !.offset = total,
                        !.truncated = total > PagingMax,
                        !.pc = IF ~more \/ Len(batch) < PagingPage \/ total >= PagingMax
                               THEN "done" ELSE "page"]
    /\ PagingStep

PagingCallStep ==
    \/ PagingCountRows \/ PagingOffset \/ PagingFallsBack \/ PagingUncounted
    \/ PagingUnordered \/ PagingOid \/ PagingOnce \/ PagingNextLink

PagingNext ==
    \/ PagingCallStep \/ PagingFails
    \/ \E id \in PagingIds : PagingChange(id)

PagingSpec == PagingInit /\ [][PagingNext]_pagingVars

\* A call goes on: requests are answered, or time out.
PagingFairness == WF_pagingVars(PagingCallStep)

-----------------------------------------------------------------------------
\* The service gives full batches, and nothing moves while offsets are counted.
PagingSound ==
    /\ paging.kind \in {"offset", "oaf"} =>
         pagingChanges = 0 /\ pagingServer.cap >= PagingPage
    /\ paging.kind = "oid" =>
         paging.order /\ (paging.count => pagingServer.cap >= PagingPage)
    /\ paging.kind = "once" => Len(pagingRows) <= pagingServer.cap
    /\ paging.kind \in {"oaf", "wfs"} => Len(pagingRows) <= PagingMax
    /\ paging.kind = "wfs" => Len(pagingRows) <= pagingServer.cap

(* A file that was fetched holds each row that was there all the time        *)
(* exactly once, and no row twice: however the rows fall into pages, with    *)
(* the parameters the service refuses left out, and by OBJECTID even while   *)
(* rows come and go (arcgis_rest.py:154-160, 209-213).  A file marked        *)
(* `truncated' lacks a row (ogc_api.py:102).                                 *)
PagedExact ==
    paging.pc = "done" =>
        /\ PagingSound => /\ \A id \in pagingStayed : paging.got[id] = 1
                          /\ \A id \in PagingIds : paging.got[id] <= 1
        /\ paging.truncated /\ pagingChanges = 0 =>
             \E id \in pagingStayed : paging.got[id] = 0

(* A fetch ends: pages run out, also while the layer still changes.          *)
PagesEnd == <>(paging.pc \in {"done", "raised"})
=============================================================================
