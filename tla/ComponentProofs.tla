--------------------------- MODULE ComponentProofs ---------------------------
(***************************************************************************)
(* Proofs about the components that share no state: each for its own       *)
(* specification, and at the end for all of them side by side.             *)
(***************************************************************************)
EXTENDS MCComponents, TileProofs, ListingProofs, FiniteSetTheorems, SequenceTheorems, WellFoundedInduction, TLAPS

-----------------------------------------------------------------------------
(* Numbers.                                                                 *)

LEMMA MinIsLeast ==
  ASSUME NEW T \in SUBSET Nat, T # {}
  PROVE  Min(T) \in T /\ \A y \in T : Min(T) <= y
  BY LeastNumber DEF Min

-----------------------------------------------------------------------------
(* HttpFetch: what a directory gets, and the delay between requests.       *)

(* A call in progress is one of the calls, its attempt one of the attempts.  *)
FetchNumbered ==
    /\ fetch.pc # "idle" => fetch.call \in 1..FetchMaxCalls /\ fetch.attempt \in 1..FetchAttempts
    /\ fetch.pc = "backoff" => fetch.attempt < FetchAttempts

(* Nothing was handed over under the name of a file that is still to come.   *)
FetchFresh ==
    \A f \in FetchFiles :
        f[1] > fetch.call \/ (f[1] = fetch.call /\ fetch.pc # "idle" /\ f[2] >= fetch.attempt)
          => fetchGiven[f] = FetchNone

(* The file of the attempt holds what the attempt has received, no more.     *)
FetchReceived ==
    /\ fetch.pc = "get" => fetchDir[FetchFile] = FetchEmpty /\ fetch.total = 0
    /\ fetch.pc \in {"idle", "turn", "backoff"} => fetch.total = 0
    /\ fetch.pc = "stream" =>
         /\ fetch.body \in FetchBodies
         /\ fetch.total <= FetchSize[fetch.body]
         /\ fetchDir[FetchFile] # FetchNone
         /\ fetchDir[FetchFile].of \subseteq {fetch.body}
         /\ fetchDir[FetchFile].chunks = fetch.total

FetchInv ==
    /\ FetchTypeOK /\ FetchNumbered /\ FetchFresh /\ FetchReceived /\ FetchDirectory

-----------------------------------------------------------------------------
LEMMA FetchInitInv == FetchInit => FetchInv
  <1> SUFFICES ASSUME FetchInit PROVE FetchInv
    OBVIOUS
  <1>1. FetchTypeOK
    BY FetchAssumption DEF FetchInit, FetchTypeOK, FetchStates, FetchDelays
  <1>2. FetchNumbered /\ FetchReceived
    BY DEF FetchInit, FetchNumbered, FetchReceived
  <1>3. FetchFresh /\ FetchDirectory
    BY DEF FetchInit, FetchFresh, FetchDirectory, FetchGivesWhole, FetchLeavesNoPart
  <1> QED
    BY <1>1, <1>2, <1>3 DEF FetchInv

(* The file of a call in progress is one of the files.                       *)
LEMMA FetchFileExists ==
  ASSUME FetchNumbered, fetch.pc # "idle"
  PROVE  FetchFile \in FetchFiles /\ FetchFile[1] = fetch.call /\ FetchFile[2] = fetch.attempt
  BY DEF FetchNumbered, FetchFile, FetchFiles

(* An empty file is a file.                                                  *)
LEMMA FetchEmptyContents == FetchEmpty \in FetchContents /\ FetchEmpty # FetchNone
  BY FetchAssumption DEF FetchEmpty, FetchContents

(* A call that is over, whether it raised or not, leaves the state in order   *)
(* when what its file is left with is in order.                              *)
LEMMA FetchOverInv ==
  ASSUME FetchInv, fetch.pc # "idle", fetch' = FetchOver,
         \/ fetchDir' = FetchUnlink
         \/ fetchDir' = fetchDir /\ fetch.pc \in {"turn", "get"},
         UNCHANGED fetchGiven, fetchSince' \in FetchDelays, fetchQuiet' \in FetchDelays
  PROVE  FetchInv'
  <1> USE DEF FetchInv
  <1>1. fetch' = [fetch EXCEPT !.pc = "idle", !.attempt = 0, !.hop = 0, !.away = FALSE,
                       !.delay = 0, !.wait = 0, !.expects = FetchNone, !.body = FetchNone,
                       !.total = 0]
    BY DEF FetchOver
  <1>2. fetchDir' \in [FetchFiles -> FetchContents \cup {FetchNone}]
    BY DEF FetchUnlink, FetchTypeOK
  <1> 0 \in 0..FetchAttempts /\ 0 \in 0..FetchRedirects /\ 0 \in FetchDelays /\ 0 \in 0..FetchLimit
    BY FetchAssumption DEF FetchDelays
  <1>3. FetchTypeOK'
    <2>1. fetch' \in FetchStates
      BY <1>1, ZenonT(60) DEF FetchTypeOK, FetchStates
    <2> QED
      BY <1>2, <2>1 DEF FetchTypeOK
  <1>4. fetch'.pc = "idle" /\ fetch'.call = fetch.call /\ fetch'.total = 0
    BY <1>1 DEF FetchTypeOK, FetchStates
  <1>5. FetchNumbered' /\ FetchReceived'
    BY <1>4 DEF FetchNumbered, FetchReceived
  <1>6. FetchFresh'
    BY <1>4 DEF FetchFresh
  <1>7. FetchFile \in FetchFiles /\ fetchGiven[FetchFile] = FetchNone
    <2>1. fetch.attempt \in Nat
      BY DEF FetchTypeOK, FetchStates
    <2> QED
      BY <2>1, FetchFileExists DEF FetchFresh
  <1>8. \A f \in FetchFiles : f # FetchFile => fetchDir'[f] = fetchDir[f]
    BY DEF FetchUnlink, FetchTypeOK
  <1>9. fetchDir'[FetchFile] \in {FetchNone, FetchEmpty}
    <2>1. CASE fetchDir' = FetchUnlink
      BY <1>7, <2>1 DEF FetchUnlink, FetchTypeOK
    <2>2. CASE fetchDir' = fetchDir /\ fetch.pc \in {"turn", "get"}
      BY <1>7, <2>2 DEF FetchDirectory, FetchLeavesNoPart
    <2> QED
      BY <2>1, <2>2
  <1>10. FetchGivesWhole'
    BY <1>7, <1>8 DEF FetchDirectory, FetchGivesWhole
  <1>11. FetchLeavesNoPart'
    BY <1>8, <1>9 DEF FetchDirectory, FetchLeavesNoPart
  <1> QED
    BY <1>3, <1>5, <1>6, <1>10, <1>11 DEF FetchDirectory

(* A step that leaves the files alone and stays in a call.                   *)
LEMMA FetchSameFiles ==
  ASSUME FetchInv, fetch' \in FetchStates, UNCHANGED <<fetchDir, fetchGiven>>,
         FetchNumbered', FetchFresh', FetchReceived',
         fetch.pc = "stream" => fetch'.pc = "stream" /\ fetch'.call = fetch.call
                                  /\ fetch'.attempt = fetch.attempt,
         fetchSince' \in FetchDelays, fetchQuiet' \in FetchDelays
  PROVE  FetchInv'
  <1> USE DEF FetchInv
  <1>1. FetchTypeOK'
    BY DEF FetchTypeOK
  <1>2. FetchGivesWhole'
    BY DEF FetchDirectory, FetchGivesWhole
  <1>3. FetchLeavesNoPart'
    BY DEF FetchDirectory, FetchLeavesNoPart, FetchFile
  <1> QED
    BY <1>1, <1>2, <1>3 DEF FetchDirectory

LEMMA FetchStartInv ==
  ASSUME FetchInv, FetchStart
  PROVE  FetchInv'
  <1> USE DEF FetchInv
  <1> PICK c \in FetchCalls :
        fetch' = [fetch EXCEPT !.pc = "turn", !.call = @ + 1, !.attempt = 1, !.delay = c.delay,
                               !.expects = c.expects]
    BY DEF FetchStart
  <1>1. fetch' \in FetchStates
    <2>1. fetch.call + 1 \in 0..FetchMaxCalls /\ 1 \in 0..FetchAttempts
      BY FetchAssumption DEF FetchStart, FetchTypeOK, FetchStates
    <2>2. c.delay \in FetchDelays /\ c.expects \in FetchBodies \cup {FetchNone}
      BY DEF FetchCalls
    <2> QED
      BY <2>1, <2>2 DEF FetchTypeOK, FetchStates
  <1>2. /\ fetch.pc = "idle" /\ fetch'.pc = "turn" /\ fetch'.call = fetch.call + 1
        /\ fetch'.attempt = 1 /\ fetch.call \in Nat /\ fetch'.total = fetch.total
        /\ fetch.call < FetchMaxCalls
    BY FetchAssumption DEF FetchStart, FetchTypeOK, FetchStates
  <1>3. FetchNumbered'
    BY <1>2, FetchAssumption DEF FetchNumbered
  <1>4. FetchFresh'
    BY <1>2 DEF FetchFresh, FetchStart, FetchFiles
  <1>5. FetchReceived'
    BY <1>2 DEF FetchReceived
  <1> QED
    BY <1>1, <1>2, <1>3, <1>4, <1>5, FetchSameFiles DEF FetchStart, FetchTypeOK

LEMMA FetchTurnInv ==
  ASSUME FetchInv, FetchTurn
  PROVE  FetchInv'
  <1> USE DEF FetchInv
  <1> PICK declared \in FetchDelays :
        LET wait == IF declared > fetch.delay THEN declared ELSE fetch.delay
        IN  /\ wait > 0 => fetchSince >= wait
            /\ fetchSince' = FetchStamp(wait)
            /\ fetchQuiet' = IF wait > 0 THEN 0 ELSE fetchQuiet
            /\ fetch' = [fetch EXCEPT !.pc = "get", !.wait = wait]
    BY DEF FetchTurn
  <1> DEFINE wait == IF declared > fetch.delay THEN declared ELSE fetch.delay
  <1> wait \in FetchDelays /\ 0 \in FetchDelays
    BY FetchAssumption DEF FetchTypeOK, FetchStates, FetchDelays
  <1> HIDE DEF wait
  <1> /\ fetchSince' = FetchStamp(wait) /\ fetchQuiet' = IF wait > 0 THEN 0 ELSE fetchQuiet
      /\ fetch' = [fetch EXCEPT !.pc = "get", !.wait = wait]
    BY DEF wait
  <1>1. fetch.pc = "turn" /\ FetchFile \in FetchFiles
    BY FetchFileExists DEF FetchTurn
  <1>2. fetchDir' = [fetchDir EXCEPT ![FetchFile] = FetchEmpty] /\ UNCHANGED fetchGiven
    BY DEF FetchTurn
  <1>3. FetchTypeOK'
    <2>1. fetch' \in FetchStates
      BY DEF FetchTypeOK, FetchStates
    <2>2. fetchSince' \in FetchDelays /\ fetchQuiet' \in FetchDelays
      BY DEF FetchTypeOK, FetchStamp
    <2> QED
      BY <1>2, <2>1, <2>2, FetchEmptyContents DEF FetchTypeOK
  <1>4. fetch'.pc = "get" /\ fetch'.call = fetch.call /\ fetch'.attempt = fetch.attempt
        /\ fetch'.total = fetch.total /\ fetch.call \in Nat /\ fetch.attempt \in Nat
    BY DEF FetchTypeOK, FetchStates
  <1>5. FetchFile' = FetchFile
    BY <1>4 DEF FetchFile
  <1>6. fetchDir'[FetchFile] = FetchEmpty /\ \A f \in FetchFiles : f # FetchFile => fetchDir'[f] = fetchDir[f]
    BY <1>1, <1>2 DEF FetchTypeOK
  <1>7. FetchNumbered' /\ FetchFresh'
    BY <1>1, <1>2, <1>4 DEF FetchNumbered, FetchFresh
  <1>8. FetchReceived'
    BY <1>1, <1>4, <1>5, <1>6 DEF FetchReceived
  <1>9. fetchGiven[FetchFile] = FetchNone
    BY <1>1, <1>4, FetchFileExists DEF FetchFresh
  <1>10. FetchGivesWhole'
    BY <1>2, <1>6, <1>9 DEF FetchDirectory, FetchGivesWhole
  <1>11. FetchLeavesNoPart'
    BY <1>1, <1>2, <1>5, <1>6 DEF FetchDirectory, FetchLeavesNoPart
  <1> QED
    BY <1>3, <1>7, <1>8, <1>10, <1>11 DEF FetchDirectory

LEMMA FetchRaiseInv ==
  ASSUME FetchInv, fetch.pc # "idle", FetchRaise,
         UNCHANGED <<fetchGiven, fetchSince, fetchQuiet>>
  PROVE  FetchInv'
  BY FetchOverInv DEF FetchRaise, FetchInv, FetchTypeOK

LEMMA FetchRedirectedInv ==
  ASSUME FetchInv, FetchRedirected
  PROVE  FetchInv'
  <1> USE DEF FetchInv
  <1>1. CASE fetch.hop < FetchRedirects
    <2> PICK away \in BOOLEAN : fetch' = [fetch EXCEPT !.hop = @ + 1, !.away = away]
      BY <1>1 DEF FetchRedirected
    <2>1. fetch.pc = "get" /\ UNCHANGED <<fetchDir, fetchGiven>>
      BY <1>1 DEF FetchRedirected
    <2>a. fetch.hop + 1 \in 0..FetchRedirects
      BY <1>1, FetchAssumption DEF FetchTypeOK, FetchStates
    <2>2. fetch' \in FetchStates
      BY <2>a DEF FetchTypeOK, FetchStates
    <2>3. /\ fetch'.pc = "get" /\ fetch'.call = fetch.call /\ fetch'.attempt = fetch.attempt
          /\ fetch'.total = fetch.total
      BY <2>1 DEF FetchTypeOK, FetchStates
    <2>4. FetchNumbered' /\ FetchFresh' /\ FetchReceived'
      BY <2>1, <2>3 DEF FetchNumbered, FetchFresh, FetchReceived, FetchFile
    <2> QED
      BY <2>1, <2>2, <2>3, <2>4, FetchSameFiles DEF FetchRedirected, FetchTypeOK
  <1>2. CASE ~(fetch.hop < FetchRedirects)
    BY <1>2, FetchRaiseInv DEF FetchRedirected
  <1> QED
    BY <1>1, <1>2

LEMMA FetchBusyInv ==
  ASSUME FetchInv, FetchBusy
  PROVE  FetchInv'
  <1> USE DEF FetchInv
  <1>1. CASE fetch.attempt < FetchAttempts
    <2>1. fetch' = [fetch EXCEPT !.pc = "backoff"] /\ fetch.pc = "get" /\ UNCHANGED fetchGiven
          /\ fetchDir' = FetchUnlink
      BY <1>1 DEF FetchBusy
    <2>2. FetchFile \in FetchFiles
      BY <2>1, FetchFileExists
    <2>3. FetchTypeOK'
      BY <2>1 DEF FetchBusy, FetchTypeOK, FetchStates, FetchUnlink
    <2>4. /\ fetch'.pc = "backoff" /\ fetch'.call = fetch.call /\ fetch'.attempt = fetch.attempt
          /\ fetch'.total = fetch.total /\ fetch.call \in Nat /\ fetch.attempt \in Nat
      BY <2>1 DEF FetchTypeOK, FetchStates
    <2>5. FetchNumbered' /\ FetchFresh' /\ FetchReceived'
      BY <1>1, <2>1, <2>4 DEF FetchNumbered, FetchFresh, FetchReceived
    <2>6. fetchDir'[FetchFile] = FetchNone /\ \A f \in FetchFiles : f # FetchFile => fetchDir'[f] = fetchDir[f]
      BY <2>1, <2>2 DEF FetchTypeOK, FetchUnlink
    <2>7. fetchGiven[FetchFile] = FetchNone
      BY <2>1, <2>2, <2>4, FetchFileExists DEF FetchFresh
    <2>8. FetchGivesWhole'
      BY <2>1, <2>6, <2>7 DEF FetchDirectory, FetchGivesWhole
    <2>9. FetchLeavesNoPart'
      BY <2>1, <2>6 DEF FetchDirectory, FetchLeavesNoPart
    <2> QED
      BY <2>3, <2>5, <2>8, <2>9 DEF FetchDirectory
  <1>2. CASE ~(fetch.attempt < FetchAttempts)
    BY <1>2, FetchRaiseInv DEF FetchBusy
  <1> QED
    BY <1>1, <1>2

LEMMA FetchRetryInv ==
  ASSUME FetchInv, FetchRetry
  PROVE  FetchInv'
  <1> USE DEF FetchInv
  <1>1. fetch' = [fetch EXCEPT !.pc = "turn", !.attempt = @ + 1, !.hop = 0, !.away = FALSE]
        /\ fetch.pc = "backoff" /\ fetch.attempt < FetchAttempts
    BY DEF FetchRetry, FetchNextAttempt, FetchNumbered
  <1>2. fetch' \in FetchStates
    <2>1. fetch.attempt + 1 \in 0..FetchAttempts /\ 0 \in 0..FetchRedirects
      BY <1>1, FetchAssumption DEF FetchTypeOK, FetchStates
    <2> QED
      BY <1>1, <2>1 DEF FetchTypeOK, FetchStates
  <1>3. /\ fetch'.pc = "turn" /\ fetch'.call = fetch.call /\ fetch'.attempt = fetch.attempt + 1
        /\ fetch'.total = fetch.total /\ fetch.call \in Nat /\ fetch.attempt \in Nat
    BY <1>1 DEF FetchTypeOK, FetchStates
  <1>4. FetchNumbered' /\ FetchReceived'
    BY <1>1, <1>3, FetchAssumption DEF FetchNumbered, FetchReceived
  <1>5. FetchFresh'
    BY <1>1, <1>3 DEF FetchFresh, FetchRetry, FetchFiles
  <1> QED
    BY <1>1, <1>2, <1>4, <1>5, FetchSameFiles DEF FetchRetry, FetchTypeOK

LEMMA FetchAnswerInv ==
  ASSUME FetchInv, FetchAnswer
  PROVE  FetchInv'
  <1> USE DEF FetchInv
  <1> PICK b \in FetchBodies, sized \in BOOLEAN :
         IF sized /\ FetchSize[b] > FetchLimit
         THEN FetchRaise
         ELSE fetch' = [fetch EXCEPT !.pc = "stream", !.body = b] /\ UNCHANGED fetchDir
    BY DEF FetchAnswer
  <1>1. CASE sized /\ FetchSize[b] > FetchLimit
    BY <1>1, FetchRaiseInv DEF FetchAnswer
  <1>2. CASE ~(sized /\ FetchSize[b] > FetchLimit)
    <2>1. fetch' = [fetch EXCEPT !.pc = "stream", !.body = b] /\ fetch.pc = "get"
          /\ UNCHANGED <<fetchDir, fetchGiven>>
      BY <1>2 DEF FetchAnswer
    <2>2. fetch' \in FetchStates
      BY <2>1 DEF FetchTypeOK, FetchStates
    <2>3. /\ fetch'.pc = "stream" /\ fetch'.call = fetch.call /\ fetch'.attempt = fetch.attempt
          /\ fetch'.total = fetch.total /\ fetch'.body = b
      BY <2>1 DEF FetchTypeOK, FetchStates
    <2>4. FetchNumbered' /\ FetchFresh'
      BY <2>1, <2>3 DEF FetchNumbered, FetchFresh
    <2>5. FetchReceived'
      <3>1. fetchDir'[FetchFile'] = FetchEmpty /\ fetch'.total = 0
        BY <2>1, <2>3 DEF FetchReceived, FetchFile
      <3>2. 0 <= FetchSize[b]
        BY FetchAssumption
      <3> QED
        BY <2>3, <3>1, <3>2, FetchEmptyContents DEF FetchReceived, FetchEmpty
    <2> QED
      BY <2>1, <2>2, <2>3, <2>4, <2>5, FetchSameFiles DEF FetchAnswer, FetchTypeOK
  <1> QED
    BY <1>1, <1>2

LEMMA FetchChunkInv ==
  ASSUME FetchInv, FetchChunk
  PROVE  FetchInv'
  <1> USE DEF FetchInv
  <1>1. CASE FetchTooMuch
    BY <1>1, FetchRaiseInv DEF FetchChunk
  <1>2. CASE ~FetchTooMuch
    <2>1. /\ fetchDir' = [fetchDir EXCEPT ![FetchFile] =
                            [of |-> @.of \cup {fetch.body}, chunks |-> @.chunks + 1]]
          /\ fetch' = [fetch EXCEPT !.total = @ + 1] /\ fetch.pc = "stream" /\ UNCHANGED fetchGiven
          /\ fetch.total < FetchSize[fetch.body]
      BY <1>2 DEF FetchChunk
    <2>2. FetchFile \in FetchFiles
      BY <2>1, FetchFileExists
    <2> DEFINE old == fetchDir[FetchFile]
               new == [of |-> old.of \cup {fetch.body}, chunks |-> old.chunks + 1]
    <2>3. old \in FetchContents /\ fetch.body \in FetchBodies /\ old.of \subseteq {fetch.body}
          /\ old.chunks = fetch.total
      BY <2>1, <2>2 DEF FetchReceived, FetchTypeOK
    <2>4. new \in FetchContents /\ new # FetchNone
      BY <2>3, FetchAssumption DEF FetchContents
    <2>5. fetchDir'[FetchFile] = new /\ \A f \in FetchFiles : f # FetchFile => fetchDir'[f] = fetchDir[f]
      BY <2>1, <2>2 DEF FetchTypeOK
    <2>6. fetch' \in FetchStates
      BY <1>2, <2>1, FetchAssumption DEF FetchTypeOK, FetchStates, FetchTooMuch
    <2>7. fetchDir' \in [FetchFiles -> FetchContents \cup {FetchNone}]
      BY <2>1, <2>4 DEF FetchTypeOK
    <2>8. FetchTypeOK'
      BY <2>1, <2>6, <2>7 DEF FetchTypeOK, FetchChunk
    <2>9. /\ fetch'.pc = "stream" /\ fetch'.call = fetch.call /\ fetch'.attempt = fetch.attempt
          /\ fetch'.total = fetch.total + 1 /\ fetch'.body = fetch.body
          /\ fetch.total \in Nat /\ fetch.call \in Nat /\ fetch.attempt \in Nat
      BY <2>1, FetchAssumption DEF FetchTypeOK, FetchStates
    <2>10. FetchFile' = FetchFile
      BY <2>9 DEF FetchFile
    <2>11. FetchNumbered' /\ FetchFresh'
      BY <2>1, <2>9 DEF FetchNumbered, FetchFresh
    <2>12. FetchReceived'
      <3>1. fetch'.total <= FetchSize[fetch.body]
        BY <2>1, <2>3, <2>9, FetchAssumption
      <3>2. new.of \subseteq {fetch.body} /\ new.chunks = fetch'.total
        BY <2>3, <2>9
      <3> QED
        BY <2>3, <2>4, <2>5, <2>9, <2>10, <3>1, <3>2 DEF FetchReceived
    <2>13. fetchGiven[FetchFile] = FetchNone
      BY <2>1, <2>2, <2>9, FetchFileExists DEF FetchFresh
    <2>14. FetchGivesWhole'
      BY <2>1, <2>5, <2>13 DEF FetchDirectory, FetchGivesWhole
    <2>15. FetchLeavesNoPart'
      BY <2>1, <2>5, <2>9, <2>10 DEF FetchDirectory, FetchLeavesNoPart
    <2> QED
      BY <2>8, <2>11, <2>12, <2>14, <2>15 DEF FetchDirectory
  <1> QED
    BY <1>1, <1>2

LEMMA FetchDoneInv ==
  ASSUME FetchInv, FetchDone
  PROVE  FetchInv'
  <1> USE DEF FetchInv
  <1>1. CASE fetch.expects \notin {FetchNone, fetch.body}
    BY <1>1, FetchRaiseInv DEF FetchDone
  <1>2. CASE fetch.expects \in {FetchNone, fetch.body}
    <2>1. /\ fetchGiven' = [fetchGiven EXCEPT ![FetchFile] = fetch.body] /\ UNCHANGED fetchDir
          /\ fetch' = FetchOver /\ fetch.pc = "stream" /\ fetch.total = FetchSize[fetch.body]
      BY <1>2 DEF FetchDone, FetchHandOver
    <2>2. FetchFile \in FetchFiles /\ FetchFile[1] = fetch.call
      BY <2>1, FetchFileExists
    <2>3. fetch.body \in FetchBodies
      BY <2>1 DEF FetchReceived
    <2>4. fetch' \in FetchStates
      <3> 0 \in 0..FetchAttempts /\ 0 \in 0..FetchRedirects /\ 0 \in FetchDelays /\ 0 \in 0..FetchLimit
        BY FetchAssumption DEF FetchDelays
      <3> QED
        BY <2>1 DEF FetchOver, FetchTypeOK, FetchStates
    <2>5. FetchTypeOK'
      BY <2>1, <2>3, <2>4 DEF FetchDone, FetchTypeOK
    <2>6. fetch'.pc = "idle" /\ fetch'.call = fetch.call /\ fetch.call \in Nat /\ fetch'.total = 0
      BY <2>1 DEF FetchOver, FetchTypeOK, FetchStates
    <2>7. FetchNumbered' /\ FetchReceived'
      BY <2>6 DEF FetchNumbered, FetchReceived
    <2>8. fetchGiven'[FetchFile] = fetch.body
          /\ \A f \in FetchFiles : f # FetchFile => fetchGiven'[f] = fetchGiven[f]
      BY <2>1, <2>2 DEF FetchTypeOK
    <2>9. FetchFresh'
      BY <2>2, <2>6, <2>8 DEF FetchFresh
    <2>10. fetch.body # FetchNone
      BY <2>3, FetchAssumption
    <2>11. FetchGivesWhole'
      <3>1. FetchSize[fetch.body] <= FetchLimit
        BY <2>1 DEF FetchTypeOK, FetchStates
      <3> QED
        BY <2>1, <2>8, <3>1 DEF FetchDirectory, FetchGivesWhole, FetchReceived
    <2>12. FetchLeavesNoPart'
      BY <2>1, <2>8, <2>10 DEF FetchDirectory, FetchLeavesNoPart
    <2> QED
      BY <2>5, <2>7, <2>9, <2>11, <2>12 DEF FetchDirectory
  <1> QED
    BY <1>1, <1>2

LEMMA FetchElapseInv ==
  ASSUME FetchInv, FetchElapse
  PROVE  FetchInv'
  <1>1. fetchSince' \in FetchDelays /\ fetchQuiet' \in FetchDelays
    BY FetchAssumption DEF FetchInv, FetchTypeOK, FetchDelays, FetchElapse
  <1> QED
    BY <1>1 DEF FetchInv, FetchElapse, FetchTypeOK, FetchNumbered, FetchFresh, FetchReceived,
                FetchFile, FetchDirectory, FetchGivesWhole, FetchLeavesNoPart

LEMMA FetchNextInv ==
  ASSUME FetchInv, [FetchNext]_fetchVars
  PROVE  FetchInv'
  <1>1. CASE FetchFails
    BY <1>1, FetchRaiseInv DEF FetchFails
  <1>2. CASE FetchNotModified
    BY <1>2, FetchOverInv DEF FetchNotModified, FetchInv, FetchTypeOK
  <1>3. CASE UNCHANGED fetchVars
    BY <1>3 DEF fetchVars, FetchInv, FetchTypeOK, FetchNumbered, FetchFresh, FetchReceived,
                FetchFile, FetchDirectory, FetchGivesWhole, FetchLeavesNoPart
  <1>4. CASE FetchRefused
    BY <1>4, FetchOverInv DEF FetchRefused, FetchInv, FetchTypeOK
  <1> QED
    BY <1>1, <1>2, <1>3, <1>4, FetchStartInv, FetchTurnInv, FetchRedirectedInv, FetchBusyInv,
       FetchRetryInv, FetchAnswerInv, FetchChunkInv, FetchDoneInv, FetchElapseInv
       DEF FetchNext, FetchStep

LEMMA FetchInvariant == FetchSpec => []FetchInv
  BY FetchInitInv, FetchNextInv, PTL DEF FetchSpec

(* Every variable of HttpFetch keeps its type: the bytes counted never pass  *)
(* the limit, the attempts never their number (http_client.py:83-88, 164).   *)
THEOREM FetchTypeCorrect == FetchSpec => []FetchTypeOK
  BY FetchInvariant, PTL DEF FetchInv

(* The directory a crawl fetches into holds whole answers only, whatever the *)
(* server does and wherever an attempt breaks off (http_client.py:125-203).  *)
THEOREM FetchedIsWhole == FetchSpec => []FetchDirectory
  BY FetchInvariant, PTL DEF FetchInv

-----------------------------------------------------------------------------
(* Politeness.                                                               *)

(* A call that waits for nothing leaves no record and needs none: the stamp  *)
(* in _last_hit is as old as the last visit under a delay.                   *)
FetchStampTrue == fetchSince = fetchQuiet

LEMMA FetchStampStep ==
  ASSUME FetchTypeOK, FetchStampTrue, [FetchNext]_fetchVars
  PROVE  FetchStampTrue' /\ FetchWaitsItsTurn
  <1>1. CASE FetchTurn
    <2> PICK declared \in FetchDelays :
          LET wait == IF declared > fetch.delay THEN declared ELSE fetch.delay
          IN  /\ wait > 0 => fetchSince >= wait
              /\ fetchSince' = FetchStamp(wait)
              /\ fetchQuiet' = IF wait > 0 THEN 0 ELSE fetchQuiet
              /\ fetch' = [fetch EXCEPT !.pc = "get", !.wait = wait]
      BY <1>1 DEF FetchTurn
    <2> DEFINE wait == IF declared > fetch.delay THEN declared ELSE fetch.delay
    <2>1. /\ wait > 0 => fetchSince >= wait
          /\ fetchSince' = FetchStamp(wait)
          /\ fetchQuiet' = IF wait > 0 THEN 0 ELSE fetchQuiet
          /\ fetch' = [fetch EXCEPT !.pc = "get", !.wait = wait]
      OBVIOUS
    <2> HIDE DEF wait
    <2>2. fetch'.wait = wait
      BY <2>1 DEF FetchTypeOK, FetchStates
    <2>3. FetchStampTrue'
      BY <2>1 DEF FetchStampTrue, FetchStamp
    <2>4. FetchWaitsItsTurn
      BY <2>1, <2>2 DEF FetchStampTrue, FetchWaitsItsTurn
    <2> QED
      BY <2>3, <2>4
  <1>2. CASE FetchElapse
    BY <1>2 DEF FetchElapse, FetchStampTrue, FetchWaitsItsTurn
  <1>5. CASE FetchRefused
    <2>1. fetch'.pc = "idle" /\ UNCHANGED <<fetchSince, fetchQuiet>>
      BY <1>5 DEF FetchRefused, FetchOver, FetchTypeOK, FetchStates
    <2> QED
      BY <2>1 DEF FetchStampTrue, FetchWaitsItsTurn
  <1>3. CASE FetchStart \/ FetchFails \/ FetchRedirected \/ FetchNotModified \/ FetchBusy
             \/ FetchRetry \/ FetchAnswer \/ FetchChunk \/ FetchDone
    <2>1. fetch.pc # "turn" /\ UNCHANGED <<fetchSince, fetchQuiet>>
      BY <1>3 DEF FetchStart, FetchFails, FetchRedirected, FetchNotModified, FetchBusy,
                  FetchRetry, FetchAnswer, FetchChunk, FetchDone
    <2> QED
      BY <2>1 DEF FetchStampTrue, FetchWaitsItsTurn
  <1>4. CASE UNCHANGED fetchVars
    BY <1>4 DEF fetchVars, FetchStampTrue, FetchWaitsItsTurn
  <1> QED
    BY <1>1, <1>2, <1>3, <1>4, <1>5 DEF FetchNext, FetchStep

(* The first request of an attempt under a delay goes out no sooner than its *)
(* delay after the last such request (http_client.py:57-65, 111-115).        *)
THEOREM FetchesPolitely == FetchSpec => FetchPolite
  <1>1. FetchInit => FetchStampTrue
    BY DEF FetchInit, FetchStampTrue
  <1>2. FetchTypeOK /\ FetchStampTrue /\ [FetchNext]_fetchVars
          => FetchStampTrue' /\ [FetchWaitsItsTurn]_fetchVars
    BY FetchStampStep
  <1> QED
    BY <1>1, <1>2, FetchTypeCorrect, PTL DEF FetchSpec, FetchPolite

-----------------------------------------------------------------------------
(* The cache of robots.txt.                                                  *)

(* An entry that counts is what the origin says, or said until a moment from *)
(* which the entry does not outlast RobotsTTL.                               *)
RobotsEntryTrue ==
    robotsCache.left > 0 =>
      \/ robotsCache.permits = RobotsParsed(robotsSite)
      \/ robotsSpan + robotsCache.left <= RobotsTTL

RobotsInv == RobotsTypeOK /\ RobotsEntryTrue

LEMMA RobotsInitInv == RobotsInit => RobotsInv
  BY RobotsAssumption DEF RobotsInit, RobotsInv, RobotsTypeOK, RobotsEntryTrue, RobotsIdle

LEMMA RobotsParsedType ==
  ASSUME NEW answer PROVE RobotsParsed(answer) \in BOOLEAN
  BY DEF RobotsParsed

(* What a call is told at a step that tells it something.                    *)
RobotsTells ==
    robotsCall.pc # "told" /\ robotsCall'.pc = "told" =>
      \/ robotsCall'.permits = RobotsParsed(robotsSite)
      \/ robotsSpan < RobotsTTL

LEMMA RobotsAskInv ==
  ASSUME RobotsInv, RobotsAskCached \/ RobotsAskLoads \/ RobotsReturn
  PROVE  RobotsInv' /\ RobotsTells
  <1> USE DEF RobotsInv
  <1>1. UNCHANGED <<robotsSite, robotsCache, robotsSpan>>
    BY DEF RobotsAskCached, RobotsAskLoads, RobotsReturn
  <1>2. RobotsEntryTrue'
    BY <1>1 DEF RobotsEntryTrue
  <1>3. CASE RobotsAskCached
    <2>1. robotsCall' = [pc |-> "told", try |-> 0, since |-> 0, permits |-> robotsCache.permits]
          /\ robotsCache.left > 0
      BY <1>3 DEF RobotsAskCached, RobotsTold, RobotsIdle, RobotsFresh
    <2>2. RobotsTypeOK'
      BY <1>1, <2>1, RobotsAssumption DEF RobotsTypeOK
    <2>3. RobotsTells
      BY <2>1, RobotsAssumption DEF RobotsTells, RobotsEntryTrue, RobotsTypeOK
    <2> QED
      BY <1>2, <2>2, <2>3
  <1>4. CASE RobotsAskLoads
    <2>1. robotsCall' = [pc |-> "get", try |-> 1, since |-> 0, permits |-> FALSE]
      BY <1>4 DEF RobotsAskLoads, RobotsIdle
    <2> QED
      BY <1>1, <1>2, <2>1, RobotsAssumption DEF RobotsTypeOK, RobotsTells
  <1>5. CASE RobotsReturn
    <2>1. robotsCall' = [pc |-> "idle", try |-> 0, since |-> 0, permits |-> FALSE]
      BY <1>5 DEF RobotsReturn, RobotsIdle
    <2> QED
      BY <1>1, <1>2, <2>1, RobotsAssumption DEF RobotsTypeOK, RobotsTells
  <1> QED
    BY <1>3, <1>4, <1>5

LEMMA RobotsGetInv ==
  ASSUME RobotsInv, RobotsGet
  PROVE  RobotsInv' /\ RobotsTells
  <1> USE DEF RobotsInv
  <1>1. UNCHANGED <<robotsSite, robotsSpan>> /\ robotsCall.pc = "get"
    BY DEF RobotsGet
  <1>2. CASE robotsSite = "silent" /\ robotsCall.try < RobotsTries
    <2>1. robotsCall' = [robotsCall EXCEPT !.try = @ + 1] /\ UNCHANGED robotsCache
      BY <1>2 DEF RobotsGet
    <2>2. robotsCall.try + 1 \in 0..RobotsTries
      BY <1>2, RobotsAssumption DEF RobotsTypeOK
    <2>3. RobotsTypeOK'
      BY <1>1, <2>1, <2>2 DEF RobotsTypeOK
    <2> QED
      BY <1>1, <2>1, <2>3 DEF RobotsTypeOK, RobotsEntryTrue, RobotsTells
  <1>3. CASE ~(robotsSite = "silent" /\ robotsCall.try < RobotsTries)
    <2> DEFINE permits == RobotsParsed(robotsSite)
    <2>1. /\ robotsCache' = [left |-> RobotsTTL - robotsCall.since, permits |-> permits]
          /\ robotsCall' = [pc |-> "told", try |-> 0, since |-> 0, permits |-> permits]
      BY <1>3 DEF RobotsGet, RobotsKeep, RobotsEntry, RobotsTold, RobotsIdle
    <2>2. permits \in BOOLEAN
      BY RobotsParsedType
    <2>3. RobotsTTL - robotsCall.since \in 0..RobotsTTL
      BY RobotsAssumption DEF RobotsTypeOK
    <2> HIDE DEF permits
    <2>4. RobotsTypeOK'
      BY <1>1, <2>1, <2>2, <2>3, RobotsAssumption DEF RobotsTypeOK
    <2>5. RobotsEntryTrue' /\ RobotsTells
      BY <1>1, <2>1 DEF RobotsEntryTrue, RobotsTells, permits
    <2> QED
      BY <2>4, <2>5
  <1> QED
    BY <1>2, <1>3

LEMMA RobotsElapseInv ==
  ASSUME RobotsInv, RobotsElapse
  PROVE  RobotsInv' /\ RobotsTells
  <1> USE DEF RobotsInv
  <1>1. /\ robotsCache.left \in 0..RobotsTTL /\ robotsSpan \in 0..RobotsTTL + 1
        /\ RobotsTTL \in Nat
    BY RobotsAssumption DEF RobotsTypeOK
  <1>2. /\ robotsCache'.left = (IF robotsCache.left = 0 THEN 0 ELSE robotsCache.left - 1)
        /\ robotsCache'.permits = robotsCache.permits
        /\ robotsSpan' = (IF robotsSpan > RobotsTTL THEN robotsSpan ELSE robotsSpan + 1)
        /\ UNCHANGED robotsSite
    BY DEF RobotsElapse, RobotsTypeOK
  <1>3. RobotsTypeOK'
    <2>1. robotsCache' \in [left : 0..RobotsTTL, permits : BOOLEAN]
      BY <1>1 DEF RobotsElapse, RobotsTypeOK
    <2>2. robotsSpan' \in 0..RobotsTTL + 1
      BY <1>1, <1>2
    <2>3. robotsCall' \in [pc : {"idle", "get", "told"}, try : 0..RobotsTries,
                           since : 0..RobotsTTL, permits : BOOLEAN]
      BY <1>1 DEF RobotsElapse, RobotsTypeOK
    <2> QED
      BY <1>2, <2>1, <2>2, <2>3 DEF RobotsTypeOK
  <1>4. RobotsEntryTrue'
    BY <1>1, <1>2 DEF RobotsEntryTrue
  <1>5. RobotsTells
    BY DEF RobotsElapse, RobotsTells, RobotsTypeOK
  <1> QED
    BY <1>3, <1>4, <1>5

LEMMA RobotsSiteChangesInv ==
  ASSUME RobotsInv, RobotsSiteChanges
  PROVE  RobotsInv' /\ RobotsTells
  <1> USE DEF RobotsInv
  <1> PICK answer \in RobotsAnswers \ {robotsSite} :
        /\ robotsSite' = answer
        /\ robotsSpan' = IF RobotsParsed(answer) = RobotsParsed(robotsSite)
                         THEN robotsSpan ELSE 0
    BY DEF RobotsSiteChanges
  <1>1. UNCHANGED <<robotsCache, robotsCall>>
    BY DEF RobotsSiteChanges
  <1>2. robotsSpan' \in 0..RobotsTTL + 1 /\ robotsSite' \in RobotsAnswers
    BY RobotsAssumption DEF RobotsTypeOK
  <1>3. RobotsTypeOK'
    BY <1>1, <1>2 DEF RobotsTypeOK
  <1>4. RobotsEntryTrue'
    <2>1. CASE RobotsParsed(answer) = RobotsParsed(robotsSite)
      BY <1>1, <2>1 DEF RobotsEntryTrue
    <2>2. CASE RobotsParsed(answer) # RobotsParsed(robotsSite)
      <3>1. robotsSpan' = 0 /\ robotsCache'.left <= RobotsTTL
        BY <1>1, <2>2, RobotsAssumption DEF RobotsTypeOK
      <3>2. robotsSpan' + robotsCache'.left <= RobotsTTL
        BY <1>1, <3>1, RobotsAssumption DEF RobotsTypeOK
      <3> QED
        BY <3>2 DEF RobotsEntryTrue
    <2> QED
      BY <2>1, <2>2
  <1> QED
    BY <1>1, <1>3, <1>4 DEF RobotsTells

LEMMA RobotsNextInv ==
  ASSUME RobotsInv, [RobotsNext]_robotsVars
  PROVE  RobotsInv' /\ RobotsTells
  <1>1. CASE UNCHANGED robotsVars
    BY <1>1 DEF robotsVars, RobotsInv, RobotsTypeOK, RobotsEntryTrue, RobotsTells
  <1> QED
    BY <1>1, RobotsAskInv, RobotsGetInv, RobotsElapseInv, RobotsSiteChangesInv
       DEF RobotsNext, RobotsStep

(* What a crawl is told of an origin is what the origin has answered within  *)
(* the last RobotsTTL, whatever it answers and however long a load takes      *)
(* (robots.py:49-53, 90).                                                    *)
THEOREM RobotsAreHonoured == RobotsSpec => RobotsHonoured
  <1>1. RobotsInv /\ [RobotsNext]_robotsVars
          => RobotsInv' /\ [robotsCall.pc # "told" /\ robotsCall'.pc = "told" =>
                              \/ robotsCall'.permits = RobotsParsed(robotsSite)
                              \/ robotsSpan < RobotsTTL]_robotsVars
    BY RobotsNextInv DEF RobotsTells
  <1> QED
    BY <1>1, RobotsInitInv, PTL DEF RobotsSpec, RobotsHonoured

-----------------------------------------------------------------------------
(* SourceRegistry: RegistryHeals, and its types.                           *)

RegistryAuthors == (DOMAIN RegistryTask) \X {d.authority : d \in RegistryDescriptors}

RegistryRowSet ==
    [authority : RegistryAuthors \cup {RegistryNone}, enabled : BOOLEAN,
     descriptor : RegistryDescriptors]

RegistryRowOrNone == RegistryRowSet \cup {RegistryNone}

RegistryJob ==
    [pc : {"idle", "read", "name", "write", "open", "done", "failed"}, todo : SUBSET RegistryKeys,
     loaded : RegistryRowOrNone, data : RegistryDescriptors \cup {RegistryNone},
     authority : RegistryAuthors \cup {RegistryNone}, rows : [RegistryKeys -> RegistryRowOrNone],
     authorities : SUBSET RegistryAuthors, quiet : BOOLEAN]

(* The row of k as a job in state `job' sees it.                           *)
RowSeen(job, k) == IF job.rows[k] # RegistryNone THEN job.rows[k] ELSE sourceRows[k]

(* What a job has written and what it is about to write names authorities  *)
(* that are there or that it is adding, and a row once there stays.        *)
InHand(job) ==
    /\ \A k \in RegistryKeys :
         job.rows[k] # RegistryNone =>
           job.rows[k].authority \in authorityRows \cup job.authorities \cup {RegistryNone}
    /\ job.pc \in {"name", "write"} =>
         /\ job.todo # {} /\ job.data \in RegistryDescriptors
         /\ job.loaded # RegistryNone => RowSeen(job, Min(job.todo)) # RegistryNone
    /\ job.pc = "write" =>
         /\ job.authority \in authorityRows \cup job.authorities \cup {RegistryNone}
         /\ AuthorityName(job.authority) = job.data.authority

(* A job nothing has met: what is behind it matches its file, what is      *)
(* ahead has a file, and what it read for the next write is still so.      *)
Faithful(j, job) ==
    /\ \A k \in job.todo : registryFiles[k] # RegistryNone
    /\ \A k \in RegistryKeys \ job.todo :
         registryFiles[k] # RegistryNone /\ RegistryTask[j] \in {0, k} =>
           RegistryMatches(RowSeen(job, k), registryFiles[k])
    /\ job.pc \in {"name", "write"} =>
         /\ job.data = registryFiles[Min(job.todo)]
         /\ job.loaded = RowSeen(job, Min(job.todo))

RegistryTypes ==
    /\ registryFiles \in [RegistryKeys -> RegistryDescriptors \cup {RegistryNone}]
    /\ sourceRows \in [RegistryKeys -> RegistryRowOrNone]
    /\ authorityRows \in SUBSET RegistryAuthors
    /\ registryJobs \in [RegistryJobIds -> RegistryJob]

AuthoritiesThere ==
    /\ \A k \in RegistryKeys :
         sourceRows[k] # RegistryNone =>
           sourceRows[k].authority \in authorityRows \cup {RegistryNone}
    /\ \A j \in RegistryJobIds : InHand(Job(j))

QuietIsFaithful ==
    \A j \in RegistryJobIds : RegistryBusy(j) /\ Job(j).quiet =>
      /\ \A i \in RegistryJobIds \ {j} : ~RegistryBusy(i)
      /\ Faithful(j, Job(j))

RegistryInv == RegistryTypes /\ AuthoritiesThere /\ QuietIsFaithful

LEMMA NoneIsNoRow ==
  /\ RegistryNone \notin RegistryRowSet /\ RegistryNone \notin RegistryDescriptors
  /\ RegistryNone \notin RegistryAuthors
  <1>1. RegistryNone \notin RegistryRowSet /\ RegistryNone \notin RegistryDescriptors
    BY RegistryAssumption DEF RegistryRowSet, RegistryAuthors
  <1>2. RegistryNone \notin RegistryAuthors
    BY RegistryAssumption DEF RegistryAuthors
  <1> QED
    BY <1>1, <1>2

LEMMA KeyInHand ==
  ASSUME NEW T \in SUBSET RegistryKeys, T # {}
  PROVE  Min(T) \in T /\ Min(T) \in RegistryKeys
  BY RegistryAssumption, MinIsLeast

LEMMA QuietCleared ==
  ASSUME NEW job \in RegistryJob
  PROVE  LET out == [job EXCEPT !.quiet = FALSE]
         IN  out \in RegistryJob /\ out.pc = job.pc /\ out.quiet = FALSE
  BY DEF RegistryJob

(* What RegistryGoes does to each job.                                     *)
LEMMA WhereJobsGo ==
  ASSUME registryJobs \in [RegistryJobIds -> RegistryJob], QuietIsFaithful,
         NEW j \in RegistryJobIds, NEW next \in RegistryJob, RegistryGoes(j, next),
         NEW i \in RegistryJobIds
  PROVE  LET job == IF i = j THEN next ELSE Job(i)
         IN  /\ registryJobs'[i] \in RegistryJob
             /\ \/ registryJobs'[i] = job
                \/ registryJobs'[i] = [job EXCEPT !.quiet = FALSE]
             /\ registryJobs'[i].quiet => job.quiet
             /\ RegistryBusy(i)' /\ registryJobs'[i].quiet =>
                  \A h \in RegistryJobIds \ {i} : ~RegistryBusy(h)'
  <1> DEFINE met == next.pc \in RegistryTx /\ \E h \in RegistryJobIds \ {j} : RegistryBusy(h)
             To(h) == IF h = j THEN next ELSE Job(h)
             Out(h) == IF met /\ To(h).pc \in RegistryTx THEN [To(h) EXCEPT !.quiet = FALSE]
                       ELSE To(h)
  <1>1. registryJobs' = [h \in RegistryJobIds |-> Out(h)]
    BY DEF RegistryGoes
  <1> DEFINE cleared(h) == [To(h) EXCEPT !.quiet = FALSE]
  <1>2a. \A h \in RegistryJobIds : To(h) \in RegistryJob
    BY DEF Job
  <1>2b. \A h \in RegistryJobIds :
           cleared(h) \in RegistryJob /\ cleared(h).pc = To(h).pc /\ cleared(h).quiet = FALSE
    <2> HIDE DEF To
    <2> QED
      BY <1>2a, QuietCleared
  <1>2c. \A h \in RegistryJobIds :
           registryJobs'[h] = IF met /\ To(h).pc \in RegistryTx THEN cleared(h) ELSE To(h)
    <2> HIDE DEF To, met, cleared
    <2> QED
      BY <1>1 DEF cleared
  <1> HIDE DEF cleared, Out, To, met
  <1>2. \A h \in RegistryJobIds : /\ registryJobs'[h] \in RegistryJob /\ registryJobs'[h].pc = To(h).pc
                                  /\ registryJobs'[h].quiet => To(h).quiet
                                  /\ registryJobs'[h].quiet => ~ (met /\ To(h).pc \in RegistryTx)
    BY <1>2a, <1>2b, <1>2c
  <1>3. RegistryBusy(i)' /\ registryJobs'[i].quiet => \A h \in RegistryJobIds \ {i} : ~RegistryBusy(h)'
    <2> SUFFICES ASSUME RegistryBusy(i)', registryJobs'[i].quiet,
                        NEW h \in RegistryJobIds \ {i}, RegistryBusy(h)'
                 PROVE  FALSE
      OBVIOUS
    <2>1. To(i).pc \in RegistryTx /\ To(h).pc \in RegistryTx
      BY <1>2 DEF RegistryBusy, Job
    <2>2. ~met /\ To(i).quiet
      BY <1>2, <2>1
    <2>3. i # j /\ h # j
      BY <2>1, <2>2 DEF RegistryBusy, met, To
    <2> QED
      BY <2>1, <2>2, <2>3 DEF RegistryBusy, QuietIsFaithful, To
  <1> QED
    BY <1>2, <1>2c, <1>3 DEF To, cleared

LEMMA OnlyQuietDiffers ==
  ASSUME NEW job \in RegistryJob, NEW out, out = job \/ out = [job EXCEPT !.quiet = FALSE]
  PROVE  /\ out.pc = job.pc /\ out.todo = job.todo /\ out.loaded = job.loaded
         /\ out.data = job.data /\ out.authority = job.authority
         /\ out.rows = job.rows /\ out.authorities = job.authorities
  BY DEF RegistryJob

(* A step that leaves files and rows alone.                                *)
LEMMA GoingOnKeeps ==
  ASSUME RegistryInv, NEW j \in RegistryJobIds, NEW next \in RegistryJob,
         RegistryGoesOn(j, next), InHand(next),
         next.pc \in RegistryTx /\ next.quiet => Faithful(j, next)
  PROVE  RegistryInv'
  <1>1. RegistryGoes(j, next) /\ UNCHANGED <<registryFiles, sourceRows, authorityRows>>
    BY DEF RegistryGoesOn
  <1> DEFINE To(i) == IF i = j THEN next ELSE Job(i)
  <1>2. \A i \in RegistryJobIds :
          /\ registryJobs'[i] \in RegistryJob
          /\ registryJobs'[i] = To(i) \/ registryJobs'[i] = [To(i) EXCEPT !.quiet = FALSE]
          /\ registryJobs'[i].quiet => To(i).quiet
          /\ RegistryBusy(i)' /\ registryJobs'[i].quiet =>
               \A h \in RegistryJobIds \ {i} : ~RegistryBusy(h)'
    BY <1>1, WhereJobsGo DEF RegistryInv, RegistryTypes
  <1>3. \A i \in RegistryJobIds : To(i) \in RegistryJob
    BY DEF RegistryInv, RegistryTypes, Job
  <1>4. \A i \in RegistryJobIds :
          /\ Job(i)'.pc = To(i).pc /\ Job(i)'.todo = To(i).todo /\ Job(i)'.loaded = To(i).loaded
          /\ Job(i)'.data = To(i).data /\ Job(i)'.authority = To(i).authority
          /\ Job(i)'.rows = To(i).rows /\ Job(i)'.authorities = To(i).authorities
    <2> TAKE i \in RegistryJobIds
    <2>1. To(i) \in RegistryJob
          /\ (registryJobs'[i] = To(i) \/ registryJobs'[i] = [To(i) EXCEPT !.quiet = FALSE])
      BY <1>2, <1>3
    <2> HIDE DEF To
    <2> QED
      BY <2>1, OnlyQuietDiffers DEF Job
  <1>5. RegistryTypes'
    <2>1. registryJobs' = [i \in RegistryJobIds |-> registryJobs'[i]]
      BY <1>1 DEF RegistryGoes
    <2>2. registryJobs' \in [RegistryJobIds -> RegistryJob]
      BY <1>2, <2>1
    <2> QED
      BY <1>1, <2>2 DEF RegistryInv, RegistryTypes
  <1>6. AuthoritiesThere'
    <2>1. \A i \in RegistryJobIds : InHand(To(i))
      BY DEF RegistryInv, AuthoritiesThere
    <2>2. \A i \in RegistryJobIds : InHand(Job(i))'
      BY <1>1, <1>4, <2>1 DEF InHand, RowSeen
    <2> QED
      BY <1>1, <2>2 DEF RegistryInv, AuthoritiesThere
  <1>7. QuietIsFaithful'
    <2> SUFFICES ASSUME NEW i \in RegistryJobIds, RegistryBusy(i)', Job(i)'.quiet
                 PROVE  Faithful(i, Job(i))'
      BY <1>2 DEF QuietIsFaithful, Job
    <2>1. To(i).pc \in RegistryTx /\ To(i).quiet
      BY <1>2, <1>4 DEF RegistryBusy, Job
    <2>2. Faithful(i, To(i))
      BY <2>1 DEF RegistryInv, QuietIsFaithful, RegistryBusy
    <2> QED
      BY <1>1, <1>4, <2>2 DEF Faithful, RowSeen
  <1> QED
    BY <1>5, <1>6, <1>7 DEF RegistryInv

LEMMA RolledBackIsFine ==
  /\ RegistryIdle \in RegistryJob /\ RegistryRolledBack \in RegistryJob
  /\ InHand(RegistryIdle) /\ InHand(RegistryRolledBack)
  /\ RegistryIdle.pc \notin RegistryTx /\ RegistryRolledBack.pc \notin RegistryTx
  BY DEF RegistryIdle, RegistryRolledBack, RegistryJob, RegistryRowOrNone, InHand, RegistryTx

LEMMA FailingKeeps ==
  ASSUME RegistryInv, NEW j \in RegistryJobIds, RegistryFail(j)
  PROVE  RegistryInv'
  BY RolledBackIsFine, GoingOnKeeps DEF RegistryFail, RegistryGoesOn

LEMMA StartKeeps ==
  ASSUME RegistryInv, NEW j \in RegistryJobIds, RegistryStart(j)
  PROVE  RegistryInv'
  <1>0. Job(j) \in RegistryJob /\ RegistryTask[j] \in RegistryKeys \cup {0}
    BY RegistryAssumption DEF RegistryInv, RegistryTypes, Job, RegistryJobIds
  <1>1. CASE RegistryTask[j] = 0
    <2> DEFINE next == [Job(j) EXCEPT !.pc = "read",
                          !.todo = {k \in RegistryKeys : registryFiles[k] # RegistryNone}]
    <2>1. RegistryGoesOn(j, next) /\ next \in RegistryJob
      BY <1>0, <1>1 DEF RegistryStart, RegistryJob
    <2>2. /\ next.pc = "read" /\ next.rows = Job(j).rows /\ next.authorities = Job(j).authorities
          /\ next.todo = {k \in RegistryKeys : registryFiles[k] # RegistryNone}
      BY <1>0 DEF RegistryJob
    <2>3. InHand(next) /\ Faithful(j, next)
      BY <2>2 DEF RegistryInv, AuthoritiesThere, InHand, Faithful
    <2> QED
      BY <2>1, <2>3, GoingOnKeeps
  <1>2. CASE RegistryTask[j] # 0 /\ RegistryCrawlable(RegistryTask[j])
    <2> DEFINE next == [Job(j) EXCEPT !.pc = "read", !.todo = {RegistryTask[j]}]
    <2>1. RegistryGoesOn(j, next) /\ next \in RegistryJob
      BY <1>0, <1>2 DEF RegistryStart, RegistryJob
    <2>2. /\ next.pc = "read" /\ next.rows = Job(j).rows /\ next.authorities = Job(j).authorities
          /\ next.todo = {RegistryTask[j]}
      BY <1>0 DEF RegistryJob
    <2>3. InHand(next) /\ Faithful(j, next)
      BY <1>2, <2>2
      DEF RegistryInv, AuthoritiesThere, InHand, Faithful, RegistryCrawlable, RegistryConfigured
    <2> QED
      BY <2>1, <2>3, GoingOnKeeps
  <1>3. CASE RegistryFail(j)
    BY <1>3, FailingKeeps
  <1> QED
    BY <1>1, <1>2, <1>3 DEF RegistryStart

LEMMA ReadKeeps ==
  ASSUME RegistryInv, NEW j \in RegistryJobIds, RegistryRead(j)
  PROVE  RegistryInv'
  <1> DEFINE k == RegistryKey(j)
             d == registryFiles[k]
  <1>0. /\ Job(j) \in RegistryJob /\ Job(j).pc = "read" /\ k \in Job(j).todo /\ k \in RegistryKeys
        /\ k = Min(Job(j).todo) /\ j \in DOMAIN RegistryTask
        /\ d \in RegistryDescriptors \cup {RegistryNone}
    BY KeyInHand DEF RegistryInv, RegistryTypes, Job, RegistryRead, RegistryKey, RegistryJob,
                     RegistryJobIds
  <1>1. CASE d = RegistryNone
    <2>1. RegistryFail(j) \/ RegistryGoesOn(j, [Job(j) EXCEPT !.pc = "open", !.todo = {}])
      BY <1>1 DEF RegistryRead
    <2> DEFINE next == [Job(j) EXCEPT !.pc = "open", !.todo = {}]
    <2>2. next \in RegistryJob
      BY <1>0 DEF RegistryJob
    <2>3. /\ next.pc = "open" /\ next.rows = Job(j).rows /\ next.authorities = Job(j).authorities
          /\ next.quiet = Job(j).quiet
      BY <1>0 DEF RegistryJob
    <2>4. InHand(next)
      BY <2>3 DEF RegistryInv, AuthoritiesThere, InHand
    <2>5. ~next.quiet
      BY <1>0, <1>1, <2>3
      DEF RegistryInv, QuietIsFaithful, Faithful, RegistryBusy, RegistryTx
    <2> QED
      BY <2>1, <2>2, <2>4, <2>5, FailingKeeps, GoingOnKeeps
  <1>2. CASE d # RegistryNone /\ ~RegistryFail(j)
    <2> DEFINE next == [Job(j) EXCEPT !.pc = "name", !.data = d, !.loaded = RegistryRow(j, k)]
    <2>1. RegistryGoesOn(j, next)
      BY <1>2 DEF RegistryRead
    <2>2. d \in RegistryDescriptors
      BY <1>0, <1>2
    <2>4. RegistryRow(j, k) \in RegistryRowOrNone
      BY <1>0 DEF RegistryRow, RegistryInv, RegistryTypes, RegistryJob
    <2>5. next \in RegistryJob
      BY <1>0, <2>2, <2>4 DEF RegistryJob
    <2>6. /\ next.pc = "name" /\ next.rows = Job(j).rows /\ next.todo = Job(j).todo
          /\ next.authorities = Job(j).authorities /\ next.data = d
          /\ next.loaded = RegistryRow(j, k) /\ next.quiet = Job(j).quiet
      BY <1>0 DEF RegistryJob
    <2>7. RowSeen(next, k) = RegistryRow(j, k) /\ \A h \in RegistryKeys : RowSeen(next, h) = RowSeen(Job(j), h)
      BY <2>6 DEF RowSeen, RegistryRow
    <2>8. InHand(next)
      BY <1>0, <2>2, <2>6, <2>7 DEF RegistryInv, AuthoritiesThere, InHand
    <2>9. ASSUME next.quiet PROVE Faithful(j, next)
      <3> HIDE DEF next, k, d
      <3>1. Faithful(j, Job(j))
        BY <1>0, <2>6, <2>9 DEF RegistryInv, QuietIsFaithful, RegistryBusy, RegistryTx
      <3>2. next.data = registryFiles[k] /\ next.loaded = RowSeen(next, k) /\ k = Min(next.todo)
        BY <1>0, <2>6, <2>7 DEF d
      <3> QED
        BY <2>6, <2>7, <3>1, <3>2 DEF Faithful
    <2> HIDE DEF next
    <2> QED
      BY <2>1, <2>5, <2>8, <2>9, GoingOnKeeps
  <1> QED
    BY <1>1, <1>2, FailingKeeps

LEMMA NameKeeps ==
  ASSUME RegistryInv, NEW j \in RegistryJobIds, RegistryName(j)
  PROVE  RegistryInv'
  <1> DEFINE job == Job(j)
             name == job.data.authority
             named == RegistryNamed(j, name)
             a == IF named = {} THEN <<j, name>> ELSE CHOOSE n \in named : TRUE
             none == [job EXCEPT !.pc = "write", !.authority = RegistryNone]
             next == [job EXCEPT !.pc = "write", !.authority = a,
                        !.authorities = @ \cup ({a} \ authorityRows)]
  <1>0. /\ job \in RegistryJob /\ job.pc = "name" /\ InHand(job) /\ j \in DOMAIN RegistryTask
        /\ job.data \in RegistryDescriptors
    BY DEF RegistryInv, RegistryTypes, AuthoritiesThere, InHand, Job, RegistryName, RegistryJobIds
  <1>1. job.quiet => Faithful(j, job)
    BY <1>0 DEF RegistryInv, QuietIsFaithful, RegistryBusy, RegistryTx
  <1>2. CASE name = RegistryNone
    <2>1. RegistryGoesOn(j, none)
      BY <1>2 DEF RegistryName
    <2>2. none \in RegistryJob
      BY <1>0 DEF RegistryJob
    <2>3. /\ none.pc = "write" /\ none.rows = job.rows /\ none.todo = job.todo
          /\ none.authorities = job.authorities /\ none.data = job.data
          /\ none.authority = RegistryNone /\ none.loaded = job.loaded
          /\ none.quiet = job.quiet
      BY <1>0 DEF RegistryJob
    <2> HIDE DEF none, job
    <2>4. \A k : RowSeen(none, k) = RowSeen(job, k)
      BY <2>3 DEF RowSeen
    <2>5. InHand(none)
      BY <1>0, <1>2, <2>3, <2>4 DEF InHand, AuthorityName
    <2>6. none.quiet => Faithful(j, none)
      BY <1>0, <1>1, <2>3, <2>4 DEF Faithful
    <2> QED
      BY <2>1, <2>2, <2>5, <2>6, GoingOnKeeps
  <1>3. CASE name # RegistryNone /\ ~RegistryFail(j)
    <2>1. RegistryGoesOn(j, next)
      BY <1>3 DEF RegistryName
    <2>2. <<j, name>> \in RegistryAuthors
      BY <1>0 DEF RegistryAuthors
    <2>3. a \in RegistryAuthors /\ a[2] = name
      <3>1. CASE named = {}
        BY <2>2, <3>1
      <3>2. CASE named # {}
        <4>1. a \in named
          BY <3>2
        <4> QED
          BY <1>0, <4>1 DEF RegistryNamed, RegistryInv, RegistryTypes, RegistryJob
      <3> QED
        BY <3>1, <3>2
    <2>4. AuthorityName(a) = name
      BY <2>3, NoneIsNoRow DEF AuthorityName
    <2>5. next \in RegistryJob
      BY <1>0, <2>3 DEF RegistryJob
    <2>6. /\ next.pc = "write" /\ next.rows = job.rows /\ next.todo = job.todo
          /\ next.authorities = job.authorities \cup ({a} \ authorityRows)
          /\ next.data = job.data /\ next.authority = a /\ next.loaded = job.loaded
          /\ next.quiet = job.quiet
      BY <1>0 DEF RegistryJob
    <2> HIDE DEF next, a, job
    <2>7. \A k : RowSeen(next, k) = RowSeen(job, k)
      BY <2>6 DEF RowSeen
    <2>8. InHand(next)
      BY <1>0, <2>4, <2>6, <2>7 DEF InHand
    <2>9. next.quiet => Faithful(j, next)
      BY <1>0, <1>1, <2>6, <2>7 DEF Faithful
    <2> QED
      BY <2>1, <2>5, <2>8, <2>9, GoingOnKeeps
  <1> QED
    BY <1>2, <1>3, FailingKeeps

(* An UPDATE of the columns that differ gives a row, and the row wanted if *)
(* what is there is what was read.                                         *)
LEMMA UpdatedRow ==
  ASSUME NEW wanted \in RegistryRowSet, NEW read \in RegistryRowSet, NEW row \in RegistryRowSet,
         NEW out, out = [c \in DOMAIN row |-> IF wanted[c] # read[c] THEN wanted[c] ELSE row[c]]
  PROVE  /\ out \in RegistryRowSet
         /\ out.authority \in {wanted.authority, row.authority}
         /\ row = read => out = wanted
  <1>1. DOMAIN row = {"authority", "enabled", "descriptor"}
    BY DEF RegistryRowSet
  <1>2. /\ out.authority = IF wanted.authority # read.authority THEN wanted.authority ELSE row.authority
        /\ out.enabled = IF wanted.enabled # read.enabled THEN wanted.enabled ELSE row.enabled
        /\ out.descriptor =
             IF wanted.descriptor # read.descriptor THEN wanted.descriptor ELSE row.descriptor
    BY <1>1
  <1>3. out = [authority |-> out.authority, enabled |-> out.enabled, descriptor |-> out.descriptor]
    BY <1>1
  <1>4. wanted = [authority |-> wanted.authority, enabled |-> wanted.enabled,
                  descriptor |-> wanted.descriptor]
    BY DEF RegistryRowSet
  <1>5. /\ wanted.authority \in RegistryAuthors \cup {RegistryNone}
        /\ row.authority \in RegistryAuthors \cup {RegistryNone}
        /\ wanted.enabled \in BOOLEAN /\ row.enabled \in BOOLEAN
        /\ wanted.descriptor \in RegistryDescriptors /\ row.descriptor \in RegistryDescriptors
    BY DEF RegistryRowSet
  <1> HIDE DEF RegistryRowSet
  <1>6. out \in RegistryRowSet
    BY <1>2, <1>3, <1>5 DEF RegistryRowSet
  <1>7. ASSUME row = read PROVE out = wanted
    BY <1>2, <1>3, <1>4, <1>7
  <1> QED
    BY <1>2, <1>6, <1>7

LEMMA WriteKeeps ==
  ASSUME RegistryInv, NEW j \in RegistryJobIds, RegistryWrite(j)
  PROVE  RegistryInv'
  <1> DEFINE job == Job(j)
             k == RegistryKey(j)
             wanted == RegistryColumns(j)
             inserts == job.loaded = RegistryNone
             same == ~inserts /\ wanted = job.loaded
             row == IF inserts THEN wanted ELSE RegistryUpdated(j, RegistryRow(j, k))
             rows == IF same THEN job.rows ELSE [job.rows EXCEPT ![k] = row]
             to == IF RegistryTask[j] = 0 THEN "read" ELSE "open"
             next == [job EXCEPT !.todo = @ \ {k}, !.rows = rows, !.pc = to]
  <1>0. /\ job \in RegistryJob /\ job.pc = "write" /\ InHand(job)
        /\ k \in job.todo /\ k \in RegistryKeys /\ k = Min(job.todo)
        /\ job.data \in RegistryDescriptors /\ job.data.enabled \in BOOLEAN
        /\ job.authority \in authorityRows \cup job.authorities \cup {RegistryNone}
        /\ job.authority \in RegistryAuthors \cup {RegistryNone}
        /\ AuthorityName(job.authority) = job.data.authority
        /\ sourceRows[k] \in RegistryRowOrNone /\ job.rows[k] \in RegistryRowOrNone
    <2>1. job \in RegistryJob /\ job.pc = "write" /\ InHand(job) /\ authorityRows \in SUBSET RegistryAuthors
      BY DEF RegistryInv, RegistryTypes, AuthoritiesThere, Job, RegistryWrite
    <2>2. job.todo # {} /\ job.todo \in SUBSET RegistryKeys /\ job.authorities \in SUBSET RegistryAuthors
          /\ job.data \in RegistryDescriptors
          /\ job.authority \in authorityRows \cup job.authorities \cup {RegistryNone}
          /\ AuthorityName(job.authority) = job.data.authority
      BY <2>1 DEF InHand, RegistryJob
    <2>3. k \in job.todo /\ k \in RegistryKeys /\ k = Min(job.todo)
      BY <2>2, KeyInHand DEF RegistryKey
    <2>4. sourceRows[k] \in RegistryRowOrNone /\ job.rows[k] \in RegistryRowOrNone
      BY <2>1, <2>3 DEF RegistryInv, RegistryTypes, RegistryJob
    <2> QED
      BY <2>1, <2>2, <2>3, <2>4, RegistryAssumption
  <1>1. RegistryFail(j) \/ RegistryGoesOn(j, next)
    BY DEF RegistryWrite, RegistryColumns
  <1>2. wanted \in RegistryRowSet /\ wanted.authority = job.authority
        /\ wanted.enabled = job.data.enabled /\ wanted.descriptor = job.data
    BY <1>0 DEF RegistryColumns, RegistryRowSet
  <1>3. ~inserts => /\ job.loaded \in RegistryRowSet
                    /\ RegistryRow(j, k) = RowSeen(job, k) /\ RowSeen(job, k) \in RegistryRowSet
    BY <1>0 DEF InHand, RegistryJob, RegistryRowOrNone, RegistryRow, RowSeen
  <1>4. ~inserts =>
          /\ row \in RegistryRowSet /\ row.authority \in {wanted.authority, RowSeen(job, k).authority}
          /\ RowSeen(job, k) = job.loaded => row = wanted
    BY <1>2, <1>3, UpdatedRow DEF RegistryUpdated
  <1>5. row \in RegistryRowSet
        /\ row.authority \in authorityRows \cup job.authorities \cup {RegistryNone}
    <2>1. CASE inserts
      BY <1>0, <1>2, <2>1
    <2>2. CASE ~inserts
      <3>1. RowSeen(job, k).authority \in authorityRows \cup job.authorities \cup {RegistryNone}
        BY <1>0, <1>3, <2>2, NoneIsNoRow DEF RowSeen, InHand, RegistryInv, AuthoritiesThere
      <3> QED
        BY <1>0, <1>2, <1>4, <2>2, <3>1
    <2> QED
      BY <2>1, <2>2
  <1>6. row # RegistryNone
    BY <1>5, NoneIsNoRow
  <1>7. rows \in [RegistryKeys -> RegistryRowOrNone] /\ to \in {"read", "open"}
    BY <1>0, <1>5 DEF RegistryJob, RegistryRowOrNone
  <1>8. next \in RegistryJob
    BY <1>0, <1>7 DEF RegistryJob
  <1>9. /\ next.pc = to /\ next.rows = rows /\ next.todo = job.todo \ {k}
        /\ next.authorities = job.authorities /\ next.quiet = job.quiet
    BY <1>0 DEF RegistryJob
  <1> HIDE DEF job, k, wanted, row, next, to
  <1>10. /\ \A h \in RegistryKeys : h # k => rows[h] = job.rows[h]
         /\ ~same => rows[k] = row
         /\ same => rows[k] = job.rows[k]
    BY <1>0 DEF RegistryJob
  <1>11. InHand(next)
    BY <1>0, <1>5, <1>7, <1>9, <1>10 DEF InHand
  <1>12. ASSUME next.quiet PROVE Faithful(j, next)
    <2>1. Faithful(j, job)
      BY <1>0, <1>9, <1>12 DEF RegistryInv, QuietIsFaithful, RegistryBusy, RegistryTx, job
    <2>2. job.data = registryFiles[k] /\ job.loaded = RowSeen(job, k)
      BY <1>0, <2>1 DEF Faithful
    <2>3. RowSeen(next, k) = wanted
      <3>1. CASE same
        BY <1>9, <1>10, <2>2, <3>1 DEF RowSeen
      <3>2. CASE ~same
        <4>1. row = wanted
          BY <1>4, <2>2 DEF row
        <4> QED
          BY <1>6, <1>9, <1>10, <3>2, <4>1 DEF RowSeen
      <3> QED
        BY <3>1, <3>2
    <2>4. RegistryMatches(RowSeen(next, k), registryFiles[k])
      BY <1>0, <1>2, <2>2, <2>3, NoneIsNoRow DEF RegistryMatches
    <2>5. \A h \in RegistryKeys : h # k => RowSeen(next, h) = RowSeen(job, h)
      BY <1>9, <1>10 DEF RowSeen
    <2> QED
      BY <1>7, <1>9, <2>1, <2>4, <2>5 DEF Faithful
  <1> QED
    BY <1>1, <1>8, <1>11, <1>12, FailingKeeps, GoingOnKeeps

LEMMA EditKeeps ==
  ASSUME RegistryInv, NEW k \in RegistryKeys,
         NEW d \in RegistryDescriptors \cup {RegistryNone}, RegistryEdit(k, d)
  PROVE  RegistryInv'
  <1>1. /\ registryJobs' = [j \in RegistryJobIds |->
              IF RegistryBusy(j) THEN [Job(j) EXCEPT !.quiet = FALSE] ELSE Job(j)]
        /\ registryFiles' = [registryFiles EXCEPT ![k] = d]
        /\ UNCHANGED <<sourceRows, authorityRows>>
    BY DEF RegistryEdit
  <1>2. \A j \in RegistryJobIds : Job(j) \in RegistryJob
    BY DEF RegistryInv, RegistryTypes, Job
  <1>3. \A j \in RegistryJobIds :
          /\ registryJobs'[j] \in RegistryJob
          /\ registryJobs'[j] = Job(j) \/ registryJobs'[j] = [Job(j) EXCEPT !.quiet = FALSE]
          /\ RegistryBusy(j) => ~registryJobs'[j].quiet
    BY <1>1, <1>2 DEF RegistryJob
  <1>4. RegistryTypes'
    BY <1>1, <1>3 DEF RegistryInv, RegistryTypes
  <1>5. \A j \in RegistryJobIds :
          /\ Job(j)'.pc = Job(j).pc /\ Job(j)'.todo = Job(j).todo /\ Job(j)'.loaded = Job(j).loaded
          /\ Job(j)'.data = Job(j).data /\ Job(j)'.authority = Job(j).authority
          /\ Job(j)'.rows = Job(j).rows /\ Job(j)'.authorities = Job(j).authorities
    <2> TAKE j \in RegistryJobIds
    <2> QED
      BY <1>2, <1>3, OnlyQuietDiffers DEF Job
  <1>6. AuthoritiesThere'
    BY <1>1, <1>5 DEF RegistryInv, AuthoritiesThere, InHand, RowSeen
  <1>7. QuietIsFaithful'
    BY <1>3, <1>5 DEF QuietIsFaithful, RegistryBusy, Job
  <1> QED
    BY <1>4, <1>6, <1>7 DEF RegistryInv

LEMMA CommitKeeps ==
  ASSUME RegistryInv, NEW j \in RegistryJobIds, RegistryCommit(j)
  PROVE  RegistryInv'
  <1> DEFINE job == Job(j)
             next == [RegistryIdle EXCEPT !.pc = "done", !.quiet = job.quiet]
             To(i) == IF i = j THEN next ELSE Job(i)
  <1>1. /\ sourceRows' = [k \in RegistryKeys |-> RegistryRow(j, k)]
        /\ authorityRows' = authorityRows \cup job.authorities
        /\ RegistryGoes(j, next) /\ registryFiles' = registryFiles
        /\ RegistryBusy(j)
    BY DEF RegistryCommit, RegistryBusy, RegistryTx
  <1>2. \A i \in RegistryJobIds : Job(i) \in RegistryJob
    BY DEF RegistryInv, RegistryTypes, Job
  <1>3. /\ next \in RegistryJob /\ next.pc = "done"
        /\ \A k \in RegistryKeys : next.rows[k] = RegistryNone
    BY <1>2, RolledBackIsFine DEF RegistryIdle, RegistryJob
  <1>4. \A i \in RegistryJobIds :
          /\ registryJobs'[i] \in RegistryJob
          /\ registryJobs'[i] = To(i) \/ registryJobs'[i] = [To(i) EXCEPT !.quiet = FALSE]
          /\ registryJobs'[i].quiet => To(i).quiet
    BY <1>1, <1>3, WhereJobsGo DEF RegistryInv, RegistryTypes
  <1>5. \A i \in RegistryJobIds :
          /\ Job(i)'.pc = To(i).pc /\ Job(i)'.todo = To(i).todo /\ Job(i)'.loaded = To(i).loaded
          /\ Job(i)'.data = To(i).data /\ Job(i)'.authority = To(i).authority
          /\ Job(i)'.rows = To(i).rows /\ Job(i)'.authorities = To(i).authorities
    <2> TAKE i \in RegistryJobIds
    <2>1. To(i) \in RegistryJob
      BY <1>2, <1>3
    <2> HIDE DEF To
    <2> QED
      BY <1>4, <2>1, OnlyQuietDiffers DEF Job
  <1>6. \A k \in RegistryKeys :
          /\ sourceRows'[k] = RegistryRow(j, k) /\ RegistryRow(j, k) \in RegistryRowOrNone
          /\ sourceRows[k] # RegistryNone => sourceRows'[k] # RegistryNone
    BY <1>1, <1>2 DEF RegistryRow, RegistryInv, RegistryTypes, RegistryJob
  <1>7. RegistryTypes'
    <2>1. registryJobs' \in [RegistryJobIds -> RegistryJob]
      <3>1. registryJobs' = [i \in RegistryJobIds |-> registryJobs'[i]]
        BY <1>1 DEF RegistryGoes
      <3> QED
        BY <1>4, <3>1
    <2>2. sourceRows' \in [RegistryKeys -> RegistryRowOrNone]
      BY <1>1, <1>6
    <2>3. authorityRows' \in SUBSET RegistryAuthors
      BY <1>1, <1>2 DEF RegistryInv, RegistryTypes, RegistryJob
    <2> QED
      BY <1>1, <2>1, <2>2, <2>3 DEF RegistryInv, RegistryTypes
  <1>8. AuthoritiesThere'
    <2>1. \A k \in RegistryKeys : sourceRows'[k] # RegistryNone =>
            sourceRows'[k].authority \in authorityRows' \cup {RegistryNone}
      BY <1>1, <1>6 DEF RegistryInv, AuthoritiesThere, InHand, RegistryRow
    <2>2. ASSUME NEW i \in RegistryJobIds PROVE InHand(Job(i))'
      <3>1. CASE i = j
        BY <1>3, <1>5, <3>1 DEF InHand
      <3>2. CASE i # j
        <4>1. /\ \A k \in RegistryKeys : Job(i).rows[k] # RegistryNone =>
                   Job(i).rows[k].authority \in authorityRows \cup Job(i).authorities \cup {RegistryNone}
              /\ Job(i).pc \in {"name", "write"} =>
                   /\ Job(i).todo # {} /\ Job(i).data \in RegistryDescriptors
                   /\ Job(i).loaded # RegistryNone => RowSeen(Job(i), Min(Job(i).todo)) # RegistryNone
              /\ Job(i).pc = "write" =>
                   /\ Job(i).authority \in authorityRows \cup Job(i).authorities \cup {RegistryNone}
                   /\ AuthorityName(Job(i).authority) = Job(i).data.authority
          BY DEF RegistryInv, AuthoritiesThere, InHand
        <4>2. /\ Job(i)'.pc = Job(i).pc /\ Job(i)'.todo = Job(i).todo
              /\ Job(i)'.loaded = Job(i).loaded /\ Job(i)'.data = Job(i).data
              /\ Job(i)'.authority = Job(i).authority /\ Job(i)'.rows = Job(i).rows
              /\ Job(i)'.authorities = Job(i).authorities
          BY <1>5, <3>2
        <4>3. Job(i).todo # {} => Min(Job(i).todo) \in RegistryKeys
          BY <1>2, KeyInHand DEF RegistryJob
        <4> QED
          BY <1>1, <1>6, <4>1, <4>2, <4>3 DEF InHand, RowSeen
      <3> QED
        BY <3>1, <3>2
    <2> QED
      BY <2>1, <2>2 DEF AuthoritiesThere
  <1>9. QuietIsFaithful'
    <2> SUFFICES ASSUME NEW i \in RegistryJobIds, RegistryBusy(i)', Job(i)'.quiet PROVE FALSE
      BY DEF QuietIsFaithful
    <2>1. i # j /\ RegistryBusy(i) /\ Job(i).quiet
      BY <1>3, <1>4, <1>5 DEF RegistryBusy, RegistryTx, Job
    <2> QED
      BY <1>1, <2>1 DEF RegistryInv, QuietIsFaithful
  <1> QED
    BY <1>7, <1>8, <1>9 DEF RegistryInv

LEMMA RegistryInvInit == RegistryInit => RegistryInv
  <1> SUFFICES ASSUME RegistryInit PROVE RegistryInv
    OBVIOUS
  <1>1. \A j \in RegistryJobIds : Job(j) = RegistryIdle
    BY DEF RegistryInit, Job
  <1>2. RegistryTypes
    BY RolledBackIsFine DEF RegistryInit, RegistryTypes, RegistryRowOrNone
  <1>3. AuthoritiesThere
    BY <1>1, RolledBackIsFine DEF RegistryInit, AuthoritiesThere
  <1>4. QuietIsFaithful
    BY <1>1, RolledBackIsFine DEF QuietIsFaithful, RegistryBusy
  <1> QED
    BY <1>2, <1>3, <1>4 DEF RegistryInv

LEMMA RegistryInvNext == RegistryInv /\ [RegistryNext]_registryVars => RegistryInv'
  <1> SUFFICES ASSUME RegistryInv, [RegistryNext]_registryVars PROVE RegistryInv'
    OBVIOUS
  <1>1. CASE \E k \in RegistryKeys, d \in RegistryDescriptors \cup {RegistryNone} : RegistryEdit(k, d)
    BY <1>1, EditKeeps
  <1>2. CASE \E j \in RegistryJobIds :
               \/ RegistryStart(j) \/ RegistryRead(j) \/ RegistryName(j) \/ RegistryWrite(j)
               \/ RegistryCommit(j) \/ RegistryAbort(j)
    BY <1>2, StartKeeps, ReadKeeps, NameKeeps, WriteKeeps, CommitKeeps, FailingKeeps DEF RegistryAbort
  <1>3. CASE UNCHANGED registryVars
    BY <1>3 DEF registryVars, RegistryInv, RegistryTypes, AuthoritiesThere, InHand, RowSeen,
                QuietIsFaithful, RegistryBusy, Faithful, Job
  <1> QED
    BY <1>1, <1>2, <1>3 DEF RegistryNext

(* A job is done by its commit and by nothing else.                        *)
LEMMA OnlyCommitIsDone ==
  ASSUME RegistryInv, RegistryNext, NEW j \in RegistryJobIds,
         Job(j).pc # "done", registryJobs'[j].pc = "done"
  PROVE  RegistryCommit(j)
  <1>1. \A i \in RegistryJobIds : Job(i) \in RegistryJob
    BY DEF RegistryInv, RegistryTypes, Job
  <1>2. ASSUME NEW i \in RegistryJobIds, NEW next \in RegistryJob, RegistryGoes(i, next),
               next.pc # "done"
        PROVE  FALSE
    <2>1. LET job == IF j = i THEN next ELSE Job(j)
          IN  registryJobs'[j] = job \/ registryJobs'[j] = [job EXCEPT !.quiet = FALSE]
      BY <1>2, WhereJobsGo DEF RegistryInv, RegistryTypes
    <2> QED
      BY <1>1, <1>2, <2>1 DEF RegistryJob
  <1>3. ASSUME NEW i \in RegistryJobIds, NEW next, RegistryGoes(i, next), next.pc # "done"
        PROVE  FALSE
    BY <1>1, <1>3 DEF RegistryGoes, RegistryJob, Job
  <1>4. \A i \in RegistryJobIds : ~RegistryFail(i)
    BY <1>3, RolledBackIsFine DEF RegistryFail, RegistryRolledBack, RegistryIdle
  <1>5. ~ \E k \in RegistryKeys, d \in RegistryDescriptors \cup {RegistryNone} : RegistryEdit(k, d)
    BY <1>1 DEF RegistryEdit, RegistryJob
  <1>6. ASSUME NEW i \in RegistryJobIds, NEW next, RegistryGoesOn(i, next)
        PROVE  next.pc = "done"
    BY <1>3, <1>6 DEF RegistryGoesOn
  <1>7. ASSUME NEW i \in RegistryJobIds, RegistryStart(i) PROVE FALSE
    <2> DEFINE all == [Job(i) EXCEPT !.pc = "read",
                         !.todo = {k \in RegistryKeys : registryFiles[k] # RegistryNone}]
               one == [Job(i) EXCEPT !.pc = "read", !.todo = {RegistryTask[i]}]
    <2>1. all.pc = "read" /\ one.pc = "read"
      BY <1>1 DEF RegistryJob
    <2>2. RegistryGoesOn(i, all) \/ RegistryGoesOn(i, one)
      BY <1>4, <1>7 DEF RegistryStart
    <2> HIDE DEF all, one
    <2> QED
      BY <1>6, <2>1, <2>2
  <1>8. ASSUME NEW i \in RegistryJobIds, RegistryRead(i) PROVE FALSE
    <2> DEFINE k == RegistryKey(i)
               d == registryFiles[k]
               open == [Job(i) EXCEPT !.pc = "open", !.todo = {}]
               found == [Job(i) EXCEPT !.pc = "name", !.data = d, !.loaded = RegistryRow(i, k)]
    <2>1. open.pc = "open" /\ found.pc = "name"
      BY <1>1 DEF RegistryJob
    <2>2. RegistryGoesOn(i, open) \/ RegistryGoesOn(i, found)
      BY <1>4, <1>8 DEF RegistryRead
    <2> HIDE DEF open, found
    <2> QED
      BY <1>6, <2>1, <2>2
  <1>9. ASSUME NEW i \in RegistryJobIds, RegistryWrite(i) PROVE FALSE
    <2> DEFINE k == RegistryKey(i)
               inserts == Job(i).loaded = RegistryNone
               same == ~inserts /\ RegistryColumns(i) = Job(i).loaded
               row == IF inserts THEN RegistryColumns(i) ELSE RegistryUpdated(i, RegistryRow(i, k))
               rows == IF same THEN Job(i).rows ELSE [Job(i).rows EXCEPT ![k] = row]
               to == IF RegistryTask[i] = 0 THEN "read" ELSE "open"
               next == [Job(i) EXCEPT !.todo = @ \ {k}, !.rows = rows, !.pc = to]
    <2>1. next.pc \in {"read", "open"}
      BY <1>1 DEF RegistryJob
    <2>2. RegistryGoesOn(i, next)
      BY <1>4, <1>9 DEF RegistryWrite, RegistryColumns
    <2> HIDE DEF next
    <2> QED
      BY <1>6, <2>1, <2>2
  <1>11. ASSUME NEW i \in RegistryJobIds, RegistryName(i) PROVE FALSE
    <2> DEFINE name == Job(i).data.authority
               named == RegistryNamed(i, name)
               a == IF named = {} THEN <<i, name>> ELSE CHOOSE n \in named : TRUE
               none == [Job(i) EXCEPT !.pc = "write", !.authority = RegistryNone]
               write == [Job(i) EXCEPT !.pc = "write", !.authority = a,
                           !.authorities = @ \cup ({a} \ authorityRows)]
    <2>1. none.pc = "write" /\ write.pc = "write"
      BY <1>1 DEF RegistryJob
    <2>2. RegistryGoesOn(i, none) \/ RegistryGoesOn(i, write)
      BY <1>4, <1>11 DEF RegistryName
    <2> HIDE DEF none, write
    <2> QED
      BY <1>6, <2>1, <2>2
  <1>10. \A i \in RegistryJobIds : RegistryCommit(i) => i = j
    <2> SUFFICES ASSUME NEW i \in RegistryJobIds, RegistryCommit(i), i # j PROVE FALSE
      OBVIOUS
    <2> QED
      BY <1>1 DEF RegistryCommit, RegistryGoes, RegistryJob, Job
  <1> QED
    BY <1>4, <1>5, <1>7, <1>8, <1>9, <1>10, <1>11 DEF RegistryNext, RegistryAbort

(* Committed rows are whole, and name authorities that are there.          *)
THEOREM RegistryTyped == RegistrySpec => []RegistryTypeOK
  <1>1. RegistryInv => RegistryTypeOK
    BY DEF RegistryInv, RegistryTypes, AuthoritiesThere, RegistryTypeOK, RegistryRowOrNone,
           RegistryRowSet, RegistryAuthors, RegistryJob, RegistryJobIds, RegistryTx, Job
  <1> QED
    BY <1>1, RegistryInvInit, RegistryInvNext, PTL DEF RegistrySpec

(* A job that no other job and no edit met leaves the rows of its keys as  *)
(* the files say, whatever lost updates, edits and crashes came before it; *)
(* nothing is said of jobs that overlap.                                   *)
THEOREM RegistryHealed == RegistrySpec => RegistryHeals
  <1>1. RegistryInv /\ [RegistryNext]_registryVars =>
          [\A j \in RegistryJobIds :
             Job(j).pc # "done" /\ registryJobs'[j].pc = "done" /\ Job(j).quiet =>
               \A k \in RegistryKeys :
                 registryFiles[k] # RegistryNone /\ RegistryTask[j] \in {0, k} =>
                   RegistryMatches(sourceRows'[k], registryFiles[k])]_registryVars
    <2> SUFFICES ASSUME RegistryInv, RegistryNext, NEW j \in RegistryJobIds,
                        Job(j).pc # "done", registryJobs'[j].pc = "done", Job(j).quiet,
                        NEW k \in RegistryKeys, registryFiles[k] # RegistryNone,
                        RegistryTask[j] \in {0, k}
                 PROVE  RegistryMatches(sourceRows'[k], registryFiles[k])
      OBVIOUS
    <2>1. RegistryCommit(j)
      BY OnlyCommitIsDone
    <2>2. Faithful(j, Job(j)) /\ Job(j).todo = {}
      BY <2>1 DEF RegistryInv, QuietIsFaithful, RegistryCommit, RegistryBusy, RegistryTx
    <2>3. sourceRows'[k] = RowSeen(Job(j), k)
      BY <2>1 DEF RegistryCommit, RegistryRow, RowSeen
    <2> QED
      BY <2>2, <2>3 DEF Faithful
  <1> QED
    BY <1>1, RegistryInvInit, RegistryInvNext, PTL DEF RegistrySpec, RegistryHeals

-----------------------------------------------------------------------------
(* LayerComparison and QualityRules: ChangesetReplays, QualityTold.        *)

FeatureMade(s, i) ==
    LET file == layerFile[s]
    IN  [row |-> i, key |-> LayerKey(s, file, i), shape |-> file.rows[i].shape,
         placed |-> LayerPlaced(file), class |-> file.rows[i].class, props |-> file.rows[i].props]

LayerMade(s) == {FeatureMade(s, i) : i \in LayerStored(layerFile[s])}

QualityMade(s) ==
    LET file == layerFile[s]
    IN  [state |-> QualityState(Findings(file)),
         observations |-> {[rule |-> f.rule, row |-> f.row, on |-> LayerTarget(file, f.row)]
                             : f \in Findings(file)}]

(* A layer that is there is what the import makes of its file.             *)
LayersMade ==
    /\ layerFile \in [Layers -> LayerFiles]
    /\ layers = [s \in Layers |-> layers[s]] /\ quality = [s \in Layers |-> quality[s]]
    /\ \A s \in Layers : layers[s] # QualityNone =>
         layers[s] = LayerMade(s) /\ quality[s] = QualityMade(s)
    /\ \A s \in Layers : quality[s].state \in {"unchecked", "clean", "warnings", "errors"}

IsCall(call) == DOMAIN call = {"pc", "pair", "old", "new", "got"}

(* A call that has read its layers has views of them, one that is done has *)
(* a change set that is stored.                                            *)
CallsMade ==
    /\ compareCalls = [c \in Comparisons |-> compareCalls[c]]
    /\ \A c \in Comparisons :
         LET call == compareCalls[c] IN
         /\ IsCall(call)
         /\ call.pc \in {"idle", "read", "store", "done", "raised"}
         /\ call.pair \in LayerPairs \cup {QualityNone}
         /\ call.pc \in {"read", "store"} =>
              call.pair \in LayerPairs /\ \A s \in Layers : layers[s] # QualityNone
         /\ call.pc = "store" => /\ call.old \in CompareViews(LayerMade(call.pair[1]))
                                 /\ call.new \in CompareViews(LayerMade(call.pair[2]))
         /\ call.pc = "done" => call.got \in ChangeSetsOf(call.pair)
         /\ call.pc = "raised" => ChangeSetsOf(call.pair) # {}

(* A stored change set is the difference of views of its layers, and the   *)
(* only one of its pair.                                                   *)
ChangeSetsMade ==
    /\ \A cs \in changeSets :
         /\ cs.pair \in LayerPairs
         /\ \E old \in CompareViews(LayerMade(cs.pair[1])), new \in CompareViews(LayerMade(cs.pair[2])) :
              cs.entries = DiffFeatures(old, new) /\ cs.unchanged = CompareUnchanged(old, new)
    /\ \A cs, other \in changeSets : cs.pair = other.pair => cs = other

LayerInv == LayersMade /\ CallsMade /\ ChangeSetsMade

LEMMA LayerInvInit == LayerInit => LayerInv
  <1> SUFFICES ASSUME LayerInit PROVE LayerInv
    OBVIOUS
  <1>1. LayersMade
    BY DEF LayerInit, LayersMade
  <1>2. CallsMade
    BY DEF LayerInit, CallsMade, CompareIdle, IsCall
  <1>3. ChangeSetsMade
    BY DEF LayerInit, ChangeSetsMade
  <1> QED
    BY <1>1, <1>2, <1>3 DEF LayerInv

LEMMA ImportKeeps ==
  ASSUME LayerInv, NEW s \in Layers, LayerImport(s)
  PROVE  LayerInv'
  <1>1. UNCHANGED <<layerFile, compareCalls, changeSets>> /\ layers[s] = QualityNone
    BY DEF LayerImport
  <1>2. layers' = [layers EXCEPT ![s] = LayerMade(s)] /\ quality' = [quality EXCEPT ![s] = QualityMade(s)]
    BY DEF LayerImport, LayerMade, FeatureMade, QualityMade
  <1>3. \A r \in Layers : LayerMade(r)' = LayerMade(r) /\ QualityMade(r)' = QualityMade(r)
    BY <1>1 DEF LayerMade, FeatureMade, QualityMade
  <1>4. \A r \in Layers \ {s} : layers'[r] = layers[r] /\ quality'[r] = quality[r]
    BY <1>2 DEF LayerInv, LayersMade
  <1>5. layers'[s] = LayerMade(s) /\ quality'[s] = QualityMade(s)
    BY <1>2 DEF LayerInv, LayersMade
  <1>a. QualityMade(s).state \in {"unchecked", "clean", "warnings", "errors"}
    BY DEF QualityMade, QualityState, PersistedState
  <1>6. LayersMade'
    <2>1. layers' = [r \in Layers |-> layers'[r]] /\ quality' = [r \in Layers |-> quality'[r]]
      BY <1>2 DEF LayerInv, LayersMade
    <2> QED
      BY <1>1, <1>3, <1>4, <1>5, <1>a, <2>1 DEF LayerInv, LayersMade
  <1>7. \A c \in Comparisons : compareCalls[c].pc \notin {"read", "store"}
    BY <1>1 DEF LayerInv, CallsMade
  <1>8. CallsMade'
    BY <1>1, <1>7 DEF LayerInv, CallsMade, ChangeSetsOf
  <1>9. ChangeSetsMade'
    <2>1. \A cs \in changeSets : cs.pair[1] \in Layers /\ cs.pair[2] \in Layers
      BY DEF LayerInv, ChangeSetsMade, LayerPairs, Layers
    <2> QED
      BY <1>1, <1>3, <2>1 DEF LayerInv, ChangeSetsMade
  <1> QED
    BY <1>6, <1>8, <1>9 DEF LayerInv

(* What a step of a call needs to show.                                    *)
LEMMA CallKeeps ==
  ASSUME LayerInv, NEW c \in Comparisons, NEW next, IsCall(next),
         compareCalls' = [compareCalls EXCEPT ![c] = next],
         UNCHANGED <<layers, quality, layerFile>>,
         next.pc \in {"idle", "read", "store", "done", "raised"},
         next.pair \in LayerPairs \cup {QualityNone},
         next.pc \in {"read", "store"} =>
           next.pair \in LayerPairs /\ \A s \in Layers : layers[s] # QualityNone,
         next.pc = "store" => /\ next.old \in CompareViews(LayerMade(next.pair[1]))
                              /\ next.new \in CompareViews(LayerMade(next.pair[2])),
         next.pc = "done" => next.got \in changeSets' /\ next.got.pair = next.pair,
         next.pc = "raised" => \E cs \in changeSets' : cs.pair = next.pair,
         changeSets \subseteq changeSets', ChangeSetsMade'
  PROVE  LayerInv'
  <1>1. \A s : LayerMade(s)' = LayerMade(s) /\ QualityMade(s)' = QualityMade(s)
    BY DEF LayerMade, FeatureMade, QualityMade
  <1>2. LayersMade'
    BY <1>1 DEF LayerInv, LayersMade
  <1>3. /\ compareCalls' = [d \in Comparisons |-> compareCalls'[d]]
        /\ compareCalls'[c] = next /\ \A d \in Comparisons \ {c} : compareCalls'[d] = compareCalls[d]
    BY DEF LayerInv, CallsMade
  <1>5. CallsMade'
    <2> SUFFICES ASSUME NEW d \in Comparisons
                 PROVE  LET call == compareCalls'[d] IN
                        /\ IsCall(call)
                        /\ call.pc \in {"idle", "read", "store", "done", "raised"}
                        /\ call.pair \in LayerPairs \cup {QualityNone}
                        /\ call.pc \in {"read", "store"} =>
                             call.pair \in LayerPairs /\ \A s \in Layers : layers'[s] # QualityNone
                        /\ call.pc = "store" =>
                             /\ call.old \in CompareViews(LayerMade(call.pair[1]))
                             /\ call.new \in CompareViews(LayerMade(call.pair[2]))
                        /\ call.pc = "done" => call.got \in changeSets' /\ call.got.pair = call.pair
                        /\ call.pc = "raised" => \E cs \in changeSets' : cs.pair = call.pair
      BY <1>1, <1>3 DEF CallsMade, ChangeSetsOf
    <2>1. CASE d = c
      BY <1>3, <2>1
    <2>2. CASE d # c
      BY <1>3, <2>2 DEF LayerInv, CallsMade, ChangeSetsOf
    <2> QED
      BY <2>1, <2>2
  <1> QED
    BY <1>2, <1>5 DEF LayerInv

LEMMA ComparisonKeeps ==
  ASSUME LayerInv, NEW c \in Comparisons,
         (\E pair \in LayerPairs : CompareStart(c, pair)) \/ CompareRead(c) \/ CompareStore(c)
  PROVE  LayerInv'
  <1>1. \A s : LayerMade(s)' = LayerMade(s)
    BY DEF CompareStart, CompareRead, CompareStore, LayerMade, FeatureMade
  <1>2. changeSets' = changeSets => ChangeSetsMade'
    BY <1>1 DEF LayerInv, ChangeSetsMade
  <1>3. ASSUME NEW pair \in LayerPairs, CompareStart(c, pair) PROVE LayerInv'
    <2> DEFINE next == IF ChangeSetsOf(pair) = {} THEN [CompareIdle EXCEPT !.pc = "read", !.pair = pair]
                       ELSE [CompareIdle EXCEPT !.pc = "done", !.pair = pair,
                                                !.got = CHOOSE cs \in ChangeSetsOf(pair) : TRUE]
    <2>1. /\ compareCalls' = [compareCalls EXCEPT ![c] = next]
          /\ UNCHANGED <<layers, quality, layerFile, changeSets>>
          /\ \A s \in Layers : layers[s] # QualityNone
      BY <1>3 DEF CompareStart
    <2>2. CASE ChangeSetsOf(pair) = {}
      <3>1. IsCall(next) /\ next.pc = "read" /\ next.pair = pair
        BY <2>2 DEF CompareIdle, IsCall
      <3> HIDE DEF next
      <3> QED
        BY <1>2, <2>1, <3>1, CallKeeps
    <2>3. CASE ChangeSetsOf(pair) # {}
      <3>1. IsCall(next) /\ next.pc = "done" /\ next.pair = pair
            /\ next.got \in changeSets /\ next.got.pair = pair
        BY <2>3 DEF CompareIdle, IsCall, ChangeSetsOf
      <3> HIDE DEF next
      <3> QED
        BY <1>2, <2>1, <3>1, CallKeeps
    <2> QED
      BY <2>2, <2>3
  <1>4. ASSUME CompareRead(c) PROVE LayerInv'
    <2> DEFINE call == compareCalls[c]
    <2>1. PICK old \in CompareViews(layers[call.pair[1]]), new \in CompareViews(layers[call.pair[2]]) :
            compareCalls' = [compareCalls EXCEPT ![c].pc = "store", ![c].old = old, ![c].new = new]
      BY <1>4 DEF CompareRead
    <2>2. /\ call.pc = "read" /\ UNCHANGED <<layers, quality, layerFile, changeSets>>
          /\ IsCall(call) /\ call.pair \in LayerPairs /\ \A s \in Layers : layers[s] # QualityNone
      BY <1>4 DEF CompareRead, LayerInv, CallsMade
    <2> DEFINE next == [call EXCEPT !.pc = "store", !.old = old, !.new = new]
    <2>3. compareCalls' = [compareCalls EXCEPT ![c] = next]
      BY <2>1 DEF LayerInv, CallsMade
    <2>4. /\ IsCall(next) /\ next.pc = "store" /\ next.pair = call.pair
          /\ next.old = old /\ next.new = new
      BY <2>2 DEF IsCall
    <2>5. layers[call.pair[1]] = LayerMade(call.pair[1]) /\ layers[call.pair[2]] = LayerMade(call.pair[2])
      BY <2>2 DEF LayerInv, LayersMade, LayerPairs, Layers
    <2> HIDE DEF next
    <2> QED
      BY <1>2, <2>1, <2>2, <2>3, <2>4, <2>5, CallKeeps
  <1>5. ASSUME CompareStore(c) PROVE LayerInv'
    <2> DEFINE call == compareCalls[c]
               cs == [pair |-> call.pair, by |-> c, entries |-> DiffFeatures(call.old, call.new),
                      unchanged |-> CompareUnchanged(call.old, call.new)]
               lost == [CompareIdle EXCEPT !.pc = "raised", !.pair = call.pair]
               next == [CompareIdle EXCEPT !.pc = "done", !.pair = call.pair, !.got = cs]
    <2>1. /\ call.pc = "store" /\ UNCHANGED <<layers, quality, layerFile>>
          /\ call.pair \in LayerPairs
          /\ call.old \in CompareViews(LayerMade(call.pair[1]))
          /\ call.new \in CompareViews(LayerMade(call.pair[2]))
      BY <1>5 DEF CompareStore, LayerInv, CallsMade
    <2>2. CASE PairTaken(call.pair)
      <3>1. compareCalls' = [compareCalls EXCEPT ![c] = lost] /\ changeSets' = changeSets
        BY <1>5, <2>2 DEF CompareStore
      <3>2. IsCall(lost) /\ lost.pc = "raised" /\ lost.pair = call.pair
        BY DEF CompareIdle, IsCall
      <3>3. \E other \in changeSets' : other.pair = lost.pair
        BY <2>2, <3>1, <3>2 DEF PairTaken, ChangeSetsOf
      <3> HIDE DEF lost
      <3> QED
        BY <1>2, <2>1, <3>1, <3>2, <3>3, CallKeeps
    <2>3. CASE ~PairTaken(call.pair)
      <3>1. compareCalls' = [compareCalls EXCEPT ![c] = next] /\ changeSets' = changeSets \cup {cs}
        BY <1>5, <2>3 DEF CompareStore
      <3>2. IsCall(next) /\ next.pc = "done" /\ next.pair = call.pair /\ next.got = cs
        BY DEF CompareIdle, IsCall
      <3>3. /\ cs.pair = call.pair /\ cs.entries = DiffFeatures(call.old, call.new)
            /\ cs.unchanged = CompareUnchanged(call.old, call.new)
        OBVIOUS
      <3> HIDE DEF next, cs
      <3>4. ChangeSetsMade'
        BY <1>1, <2>1, <2>3, <3>1, <3>3 DEF LayerInv, ChangeSetsMade, PairTaken, ChangeSetsOf
      <3>5. cs \in changeSets' /\ cs.pair = call.pair
        BY <3>1, <3>3
      <3> QED
        BY <2>1, <3>1, <3>2, <3>4, <3>5, CallKeeps
    <2> QED
      BY <2>2, <2>3
  <1> QED
    BY <1>3, <1>4, <1>5

LEMMA LayerInvNext == LayerInv /\ [LayerNext]_layerVars => LayerInv'
  <1> SUFFICES ASSUME LayerInv, [LayerNext]_layerVars PROVE LayerInv'
    OBVIOUS
  <1>1. CASE UNCHANGED layerVars
    <2>1. UNCHANGED layers /\ UNCHANGED quality /\ UNCHANGED layerFile /\ UNCHANGED compareCalls
          /\ UNCHANGED changeSets
      BY <1>1 DEF layerVars
    <2>2. \A s : LayerMade(s)' = LayerMade(s) /\ QualityMade(s)' = QualityMade(s)
      BY <2>1 DEF LayerMade, FeatureMade, QualityMade
    <2>3. LayersMade'
      BY <2>1, <2>2 DEF LayerInv, LayersMade
    <2>4. CallsMade'
      BY <2>1, <2>2 DEF LayerInv, CallsMade, ChangeSetsOf
    <2>5. ChangeSetsMade'
      BY <2>1, <2>2 DEF LayerInv, ChangeSetsMade
    <2> QED
      BY <2>3, <2>4, <2>5 DEF LayerInv
  <1> QED
    BY <1>1, ImportKeeps, ComparisonKeeps DEF LayerNext
(* What a source calls a row is the key the import gives its feature.      *)
LEMMA KeyIsName ==
  ASSUME NEW s, NEW i
  PROVE  RowName(s, i) = LayerKey(s, layerFile[s], i)
  <1> DEFINE file == layerFile[s]
             row == file.rows[i]
             names == <<IF file.keyed THEN row.id ELSE QualityNone, row.alt, row.code>>
             there == {n \in 1..3 : names[n] # QualityNone}
             first == CHOOSE n \in there : \A m \in there : n <= m
  <1>1. RowName(s, i) = IF there = {} THEN <<QualityNone, s, i>> ELSE <<names[first]>>
    BY DEF RowName
  <1>2. \A n : n \in there <=> (n = 1 \/ n = 2 \/ n = 3) /\ names[n] # QualityNone
    OBVIOUS
  <1>3. /\ names[1] = IF file.keyed THEN row.id ELSE QualityNone
        /\ names[2] = row.alt /\ names[3] = row.code
    OBVIOUS
  <1>4. \A n \in there : (\A m \in there : n <= m) => first = n
    <2> SUFFICES ASSUME NEW n \in there, \A m \in there : n <= m PROVE first = n
      OBVIOUS
    <2>1. first \in there /\ \A m \in there : first <= m
      OBVIOUS
    <2> HIDE DEF names, there, first
    <2>2. n \in Int /\ first \in Int
      BY <1>2, <2>1
    <2>3. n <= first /\ first <= n
      BY <2>1
    <2> QED
      BY <2>2, <2>3
  <1>5. LayerKey(s, file, i) =
          IF names[1] # QualityNone THEN <<names[1]>>
          ELSE IF names[2] # QualityNone THEN <<names[2]>>
          ELSE IF names[3] # QualityNone THEN <<names[3]>> ELSE <<QualityNone, s, i>>
    BY <1>3 DEF LayerKey, LayerStableId
  <1> HIDE DEF names, there, first
  <1>6. CASE names[1] # QualityNone
    BY <1>1, <1>2, <1>4, <1>5, <1>6
  <1>7. CASE names[1] = QualityNone /\ names[2] # QualityNone
    <2>1. 2 \in there /\ \A m \in there : 2 <= m
      BY <1>2, <1>7
    <2> QED
      BY <1>1, <1>4, <1>5, <1>7, <2>1
  <1>8. CASE names[1] = QualityNone /\ names[2] = QualityNone /\ names[3] # QualityNone
    <2>1. 3 \in there /\ \A m \in there : 3 <= m
      BY <1>2, <1>8
    <2> QED
      BY <1>1, <1>4, <1>5, <1>8, <2>1
  <1>9. CASE names[1] = QualityNone /\ names[2] = QualityNone /\ names[3] = QualityNone
    <2>1. there = {}
      BY <1>2, <1>9
    <2> QED
      BY <1>1, <1>5, <1>9, <2>1
  <1> QED
    BY <1>6, <1>7, <1>8, <1>9

LEMMA StoredAreRows == \A f : LayerStored(f) \subseteq DOMAIN f.rows
  BY DEF LayerStored

(* When rows have names of their own, features have keys of their own, and *)
(* a view leaves nothing out.                                              *)
LEMMA KeysAreOwn ==
  ASSUME NEW s, RowsDistinct(s), NEW f \in LayerMade(s), NEW g \in LayerMade(s), f.key = g.key
  PROVE  f = g
  <1>1. PICK i \in LayerStored(layerFile[s]), j \in LayerStored(layerFile[s]) :
          f = FeatureMade(s, i) /\ g = FeatureMade(s, j)
    BY DEF LayerMade
  <1>2. f.key = RowName(s, i) /\ g.key = RowName(s, j)
    BY <1>1, KeyIsName DEF FeatureMade
  <1> QED
    BY <1>1, <1>2, StoredAreRows DEF RowsDistinct

LEMMA ViewsAreWhole ==
  ASSUME NEW s, RowsDistinct(s), NEW V \in CompareViews(LayerMade(s))
  PROVE  V = LayerMade(s)
  BY KeysAreOwn DEF CompareViews, KeysOf

ValueOf(f) == [shape |-> f.shape, class |-> f.class, props |-> f.props]

(* What a file says under a name is the value of the feature with that key. *)
LEMMA ValueOfKey ==
  ASSUME LayersMade, NEW s \in Layers, RowsDistinct(s), NEW k
  PROVE  /\ k \notin KeysOf(LayerMade(s)) => RowValue(s, k) = QualityNone
         /\ k \in KeysOf(LayerMade(s)) =>
              /\ OfKey(LayerMade(s), k) \in LayerMade(s)
              /\ OfKey(LayerMade(s), k).key = k
              /\ RowValue(s, k) = ValueOf(OfKey(LayerMade(s), k))
              /\ RowValue(s, k) # QualityNone
  <1> DEFINE file == layerFile[s]
             f == OfKey(LayerMade(s), k)
             one == CHOOSE i \in RowsNamed(s, k) : TRUE
  <1>1. \A i : i \in RowsNamed(s, k) <=> i \in LayerStored(file) /\ FeatureMade(s, i).key = k
    BY KeyIsName DEF RowsNamed, LayerStored, FeatureMade
  <1>2. CASE k \notin KeysOf(LayerMade(s))
    <2>1. RowsNamed(s, k) = {}
      BY <1>1, <1>2 DEF KeysOf, LayerMade
    <2> QED
      BY <1>2, <2>1 DEF RowValue
  <1>3. CASE k \in KeysOf(LayerMade(s))
    <2>1. f \in LayerMade(s) /\ f.key = k
      BY <1>3 DEF OfKey, KeysOf
    <2>2. RowsNamed(s, k) # {}
      BY <1>1, <2>1 DEF LayerMade
    <2>3. one \in RowsNamed(s, k)
      BY <2>2
    <2>4. FeatureMade(s, one) \in LayerMade(s) /\ FeatureMade(s, one).key = k
      BY <1>1, <2>3 DEF LayerMade
    <2>5. f = FeatureMade(s, one)
      BY <2>1, <2>4, KeysAreOwn
    <2>6. RowValue(s, k) = [shape |-> file.rows[one].shape, class |-> file.rows[one].class,
                            props |-> file.rows[one].props]
      BY <2>2 DEF RowValue
    <2>7. ValueOf(f) = RowValue(s, k)
      BY <2>5, <2>6 DEF ValueOf, FeatureMade
    <2>8. file \in LayerFiles /\ one \in DOMAIN file.rows
      BY <1>1, <2>3, StoredAreRows DEF LayersMade
    <2>9. RowValue(s, k) # QualityNone
      BY <2>6, <2>8, LayerAssumption
    <2> QED
      BY <1>3, <2>1, <2>7, <2>9
  <1> QED
    BY <1>2, <1>3

(* e is an entry for k in a difference where k is of old and nf.           *)
IsEntryOf(e, old, new, k, of, nf) ==
    \/ k \in KeysOf(new) \ KeysOf(old) /\ e = Entry("added", k, QualityNone, nf)
    \/ k \in KeysOf(old) \ KeysOf(new) /\ e = Entry("removed", k, of, QualityNone)
    \/ /\ k \in KeysOf(old) \cap KeysOf(new)
       /\ \/ of.shape # nf.shape /\ e = Entry("geometry", k, of, nf)
          \/ of.class # nf.class /\ e = Entry("classification", k, of, nf)
          \/ of.props # nf.props /\ e = Entry("properties", k, of, nf)

(* The entries of a difference, when each key has one feature.             *)
LEMMA EntriesOfKey ==
  ASSUME NEW old, NEW new, NEW k, NEW of, NEW nf, NEW e,
         of = OfKey(old, k), nf = OfKey(new, k),
         \A f, g \in old : f.key = g.key => f = g,
         \A f, g \in new : f.key = g.key => f = g,
         k \in KeysOf(old) => of \in old /\ of.key = k,
         k \in KeysOf(new) => nf \in new /\ nf.key = k
  PROVE  (e \in DiffFeatures(old, new) /\ e.key = k) <=> IsEntryOf(e, old, new, k, of, nf)
  <1>1. (e \in CompareAdded(old, new) /\ e.key = k) <=>
          k \in KeysOf(new) \ KeysOf(old) /\ e = Entry("added", k, QualityNone, nf)
    BY DEF CompareAdded, KeysOf, Entry
  <1>2. (e \in CompareRemoved(old, new) /\ e.key = k) <=>
          k \in KeysOf(old) \ KeysOf(new) /\ e = Entry("removed", k, of, QualityNone)
    BY DEF CompareRemoved, KeysOf, Entry
  <1>3. (e \in CompareChanged(old, new) /\ e.key = k) <=>
          /\ k \in KeysOf(old) \cap KeysOf(new)
          /\ \E t \in {"geometry", "classification", "properties"} :
               /\ \/ t = "geometry" /\ of.shape # nf.shape
                  \/ t = "classification" /\ of.class # nf.class
                  \/ t = "properties" /\ of.props # nf.props
               /\ e = Entry(t, k, of, nf)
    BY DEF CompareChanged, Entry
  <1> QED
    BY <1>1, <1>2, <1>3 DEF DiffFeatures, IsEntryOf

(* What entries make of a value: nothing, if they remove it or there is    *)
(* nothing to change,                                                      *)
LEMMA CarryNothing ==
  ASSUME NEW E, NEW value,
         (E = {} /\ value = QualityNone) \/ \E e \in E : e.type = "removed"
  PROVE  CarryOut(E, value) = QualityNone
  BY DEF CarryOut

(* the feature that is added,                                              *)
LEMMA CarryAdded ==
  ASSUME NEW E, NEW value, NEW f, E # {}, \A e \in E : e.type = "added" /\ e.to = f
  PROVE  CarryOut(E, value) = ValueOf(f)
  <1>1. ~(\E e \in E : e.type = "removed") /\ \E e \in E : e.type = "added"
    OBVIOUS
  <1>2. (CHOOSE e \in E : e.type = "added").to = f
    BY <1>1
  <1> QED
    BY <1>1, <1>2 DEF CarryOut, ValueOf

(* and the value of the new feature, if what differs is replaced.          *)
LEMMA CarryChanged ==
  ASSUME NEW E, NEW of, NEW nf, ValueOf(of) # QualityNone,
         \A e \in E : e.type \in {"geometry", "classification", "properties"} /\ e.to = nf,
         (\E e \in E : e.type = "geometry") <=> of.shape # nf.shape,
         (\E e \in E : e.type = "classification") <=> of.class # nf.class,
         (\E e \in E : e.type = "properties") <=> of.props # nf.props
  PROVE  CarryOut(E, ValueOf(of)) = ValueOf(nf)
  <1> DEFINE value == ValueOf(of)
  <1>1. ~(\E e \in E : e.type = "removed") /\ ~(\E e \in E : e.type = "added")
    OBVIOUS
  <1>2. /\ (\E e \in E : e.type = "geometry") =>
              (CHOOSE e \in E : e.type = "geometry").to = nf
        /\ (\E e \in E : e.type = "classification") =>
              (CHOOSE e \in E : e.type = "classification").to = nf
        /\ (\E e \in E : e.type = "properties") =>
              (CHOOSE e \in E : e.type = "properties").to = nf
    OBVIOUS
  <1>3. value.shape = of.shape /\ value.class = of.class /\ value.props = of.props
    BY DEF ValueOf
  <1>4. CarryOut(E, value) =
          [shape |-> IF \E e \in E : e.type = "geometry"
                     THEN (CHOOSE e \in E : e.type = "geometry").to.shape ELSE value.shape,
           class |-> IF \E e \in E : e.type = "classification"
                     THEN (CHOOSE e \in E : e.type = "classification").to.class ELSE value.class,
           props |-> IF \E e \in E : e.type = "properties"
                     THEN (CHOOSE e \in E : e.type = "properties").to.props ELSE value.props]
    BY <1>1 DEF CarryOut
  <1> HIDE DEF value
  <1>5. CarryOut(E, value) = [shape |-> nf.shape, class |-> nf.class, props |-> nf.props]
    BY <1>2, <1>3, <1>4
  <1> QED
    BY <1>5 DEF value, ValueOf

(* The entries for a key carry the value of one file over to the other.    *)
LEMMA EntriesCarryOver ==
  ASSUME LayersMade, NEW p \in Layers, NEW q \in Layers, RowsDistinct(p), RowsDistinct(q), NEW k
  PROVE  CarryOut({e \in DiffFeatures(LayerMade(p), LayerMade(q)) : e.key = k}, RowValue(p, k))
           = RowValue(q, k)
  <1>0. PICK old, new : old = LayerMade(p) /\ new = LayerMade(q)
    OBVIOUS
  <1>a. PICK E : E = {e \in DiffFeatures(old, new) : e.key = k}
    OBVIOUS
  <1>b. PICK of, nf : of = OfKey(old, k) /\ nf = OfKey(new, k)
    OBVIOUS
  <1>1. /\ \A f, g \in old : f.key = g.key => f = g
        /\ \A f, g \in new : f.key = g.key => f = g
    BY <1>0, KeysAreOwn
  <1>2. /\ k \notin KeysOf(old) => RowValue(p, k) = QualityNone
        /\ k \in KeysOf(old) =>
             of \in old /\ of.key = k /\ RowValue(p, k) = ValueOf(of) /\ RowValue(p, k) # QualityNone
    BY <1>0, <1>b, ValueOfKey
  <1>3. /\ k \notin KeysOf(new) => RowValue(q, k) = QualityNone
        /\ k \in KeysOf(new) => nf \in new /\ nf.key = k /\ RowValue(q, k) = ValueOf(nf)
    BY <1>0, <1>b, ValueOfKey
  <1>4. \A e : e \in E <=>
           \/ k \in KeysOf(new) \ KeysOf(old) /\ e = Entry("added", k, QualityNone, nf)
           \/ k \in KeysOf(old) \ KeysOf(new) /\ e = Entry("removed", k, of, QualityNone)
           \/ /\ k \in KeysOf(old) \cap KeysOf(new)
              /\ \/ of.shape # nf.shape /\ e = Entry("geometry", k, of, nf)
                 \/ of.class # nf.class /\ e = Entry("classification", k, of, nf)
                 \/ of.props # nf.props /\ e = Entry("properties", k, of, nf)
    <2> SUFFICES ASSUME NEW e
                 PROVE  e \in E <=>
           \/ k \in KeysOf(new) \ KeysOf(old) /\ e = Entry("added", k, QualityNone, nf)
           \/ k \in KeysOf(old) \ KeysOf(new) /\ e = Entry("removed", k, of, QualityNone)
           \/ /\ k \in KeysOf(old) \cap KeysOf(new)
              /\ \/ of.shape # nf.shape /\ e = Entry("geometry", k, of, nf)
                 \/ of.class # nf.class /\ e = Entry("classification", k, of, nf)
                 \/ of.props # nf.props /\ e = Entry("properties", k, of, nf)
      OBVIOUS
    <2>1. e \in E <=> e \in DiffFeatures(old, new) /\ e.key = k
      BY <1>a
    <2>2. /\ k \in KeysOf(old) => of \in old /\ of.key = k
          /\ k \in KeysOf(new) => nf \in new /\ nf.key = k
      BY <1>2, <1>3
    <2>3. (e \in DiffFeatures(old, new) /\ e.key = k) <=> IsEntryOf(e, old, new, k, of, nf)
      BY ONLY <1>1, <1>b, <2>2, EntriesOfKey
    <2> QED
      BY ONLY <2>1, <2>3 DEF IsEntryOf
  <1>5. \A type, from, to : /\ Entry(type, k, from, to).type = type
                            /\ Entry(type, k, from, to).to = to
    BY DEF Entry
  <1>6. CarryOut(E, RowValue(p, k)) = RowValue(q, k)
    <2>1. CASE k \notin KeysOf(old) /\ k \notin KeysOf(new)
      BY <1>2, <1>3, <1>4, <2>1, CarryNothing
    <2>2. CASE k \in KeysOf(old) \ KeysOf(new)
      <3>1. Entry("removed", k, of, QualityNone) \in E
        BY <1>4, <2>2
      <3> QED
        BY <1>3, <1>5, <2>2, <3>1, CarryNothing
    <2>3. CASE k \in KeysOf(new) \ KeysOf(old)
      <3>1. \A e : e \in E <=> e = Entry("added", k, QualityNone, nf)
        BY <1>4, <2>3
      <3>2. E # {} /\ \A e \in E : e.type = "added" /\ e.to = nf
        BY <1>5, <3>1
      <3> QED
        BY <1>3, <2>3, <3>2, CarryAdded
    <2>4. CASE k \in KeysOf(old) \cap KeysOf(new)
      <3>1. \A e \in E :
              \/ of.shape # nf.shape /\ e = Entry("geometry", k, of, nf)
              \/ of.class # nf.class /\ e = Entry("classification", k, of, nf)
              \/ of.props # nf.props /\ e = Entry("properties", k, of, nf)
        BY <1>4, <2>4
      <3>2. \A e \in E : e.type \in {"geometry", "classification", "properties"} /\ e.to = nf
        BY <1>5, <3>1
      <3>3. /\ of.shape # nf.shape => Entry("geometry", k, of, nf) \in E
            /\ of.class # nf.class => Entry("classification", k, of, nf) \in E
            /\ of.props # nf.props => Entry("properties", k, of, nf) \in E
        BY <1>4, <2>4
      <3>4. (\E e \in E : e.type = "geometry") <=> of.shape # nf.shape
        BY <1>5, <3>1, <3>3
      <3>5. (\E e \in E : e.type = "classification") <=> of.class # nf.class
        BY <1>5, <3>1, <3>3
      <3>6. (\E e \in E : e.type = "properties") <=> of.props # nf.props
        BY <1>5, <3>1, <3>3
      <3>7. CarryOut(E, ValueOf(of)) = ValueOf(nf)
        BY <1>2, <2>4, <3>2, <3>4, <3>5, <3>6, CarryChanged
      <3> QED
        BY <1>2, <1>3, <2>4, <3>7
    <2> QED
      BY <2>1, <2>2, <2>3, <2>4
  <1> QED
    BY <1>6, <1>a, <1>0

LEMMA LayerInvReplays == LayerInv => ChangesetReplays
  <1> SUFFICES ASSUME LayerInv PROVE ChangesetReplays
    OBVIOUS
  <1>1. ASSUME NEW cs \in changeSets, \A s \in Layers : RowsDistinct(s), NEW k \in RowNames
        PROVE  CarryOut({e \in cs.entries : e.key = k}, RowValue(cs.pair[1], k))
                 = RowValue(cs.pair[2], k)
    <2>1. cs.pair[1] \in Layers /\ cs.pair[2] \in Layers
      BY DEF LayerInv, ChangeSetsMade, LayerPairs, Layers
    <2>2. PICK old \in CompareViews(LayerMade(cs.pair[1])),
               new \in CompareViews(LayerMade(cs.pair[2])) : cs.entries = DiffFeatures(old, new)
      BY DEF LayerInv, ChangeSetsMade
    <2>3. old = LayerMade(cs.pair[1]) /\ new = LayerMade(cs.pair[2])
      BY <1>1, <2>1, <2>2, ViewsAreWhole
    <2> QED
      BY <1>1, <2>1, <2>2, <2>3, EntriesCarryOver DEF LayerInv
  <1>2. \A cs, other \in changeSets : cs.pair = other.pair => cs = other
    BY DEF LayerInv, ChangeSetsMade
  <1>3. \A c \in Comparisons :
          /\ compareCalls[c].pc = "done" => compareCalls[c].got \in ChangeSetsOf(compareCalls[c].pair)
          /\ compareCalls[c].pc = "raised" => ChangeSetsOf(compareCalls[c].pair) # {}
    BY DEF LayerInv, CallsMade
  <1> QED
    BY <1>1, <1>2, <1>3 DEF ChangesetReplays

(* However calls overlap, a pair of layers has one change set; a call that *)
(* returns has that one, and one that raises has found it stored.  Its     *)
(* entries, carried out on what the first file says, give what the second  *)
(* says, when rows have names of their own (compare.py:92-121, 147-155,    *)
(* 177-185).                                                               *)
THEOREM DifferencesReplay == LayerSpec => []ChangesetReplays
  BY LayerInvInit, LayerInvNext, LayerInvReplays, PTL DEF LayerSpec
(* A file without findings is sound.                                       *)
LEMMA CleanFiles ==
  ASSUME NEW file \in LayerFiles, Findings(file) = {}
  PROVE  LET rows == DOMAIN file.rows
             shape(i) == file.rows[i].shape
         IN  /\ \A i \in rows : shape(i) # QualityNone /\ QualityShape[shape(i)].valid
                                /\ (InDegrees(file) => QualityShape[shape(i)].within)
             /\ \A i, j \in rows : i < j =>
                  /\ shape(i) # shape(j)
                  /\ "overlaps" \in file.forbids =>
                       <<shape(i), shape(j)>> \notin QualityOverlaps
             /\ file.flaws = {}
  <1> DEFINE rows == DOMAIN file.rows
             shape(i) == file.rows[i].shape
  <1>1. /\ REmpty(file) = {} /\ RInvalid(file) = {} /\ RDuplicate(file) = {} /\ RBounds(file) = {}
        /\ RPolyOverlap(file) = {} /\ RTimeOrder(file) = {} /\ RAuthority(file) = {}
        /\ RGroup(file) = {}
    BY DEF Findings
  <1>2. rows \subseteq Nat \ {0}
        /\ file.flaws \subseteq {"reversed", "early", "unattributed", "ungrouped"}
    BY LayerAssumption
  <1>3. \A i \in rows : Drawn(file, i)
    BY <1>1 DEF REmpty, OnRows, Rows
  <1>4. \A i \in rows : QualityShape[shape(i)].valid
    BY <1>1, <1>3 DEF RInvalid, OnRows, Rows
  <1>5. InDegrees(file) => \A i \in rows : QualityShape[shape(i)].within
    BY <1>1, <1>3 DEF RBounds, OnRows, Rows
  <1>6. ASSUME NEW i \in rows, NEW j \in rows, i < j PROVE shape(i) # shape(j)
    <2>1. i \in 1..j - 1
      BY <1>2, <1>6
    <2> QED
      BY <1>1, <1>3, <2>1 DEF RDuplicate, OnRows, Rows
  <1>7. ASSUME NEW i \in rows, NEW j \in rows, i < j, "overlaps" \in file.forbids,
               <<shape(i), shape(j)>> \in QualityOverlaps
        PROVE  FALSE
    <2>1. PICK g, h \in DOMAIN QualityShape :
            /\ <<shape(i), shape(j)>> = <<g, h>>
            /\ QualityShape[g].type \in PolygonTypes /\ QualityShape[h].type \in PolygonTypes
      BY <1>7, QualityAssumption
    <2>2. shape(i) = g /\ shape(j) = h
      BY <2>1
    <2>3. i \in ValidOf(file, PolygonTypes) /\ j \in ValidOf(file, PolygonTypes)
      BY <1>3, <1>4, <2>1, <2>2 DEF ValidOf, Rows, HasShape, TypeOf, Drawn
    <2>4. RPairs(file, "TOPO-POLY-OVERLAP", PolygonTypes, QualityOverlaps) = {}
      BY <1>1, <1>7 DEF RPolyOverlap
    <2> QED
      BY <1>7, <2>3, <2>4 DEF RPairs, OnRows
  <1>8. file.flaws = {}
    <2>1. file.flaws \cap {"reversed", "early"} = {}
      BY <1>1 DEF RTimeOrder
    <2>2. "unattributed" \notin file.flaws /\ "ungrouped" \notin file.flaws
      BY <1>1 DEF RAuthority, RGroup
    <2> QED
      BY <1>2, <2>1, <2>2
  <1>9. \A i \in rows : shape(i) # QualityNone
    BY <1>3 DEF Drawn
  <1> QED
    BY <1>4, <1>5, <1>6, <1>7, <1>8, <1>9

(* One without errors has a known CRS, readable dates and what is required. *)
LEMMA FilesWithoutErrors ==
  ASSUME NEW file, \A f \in Findings(file) : f.severity \notin {"error", "critical"}
  PROVE  /\ file.crs # "unknown"
         /\ file.required => \A i \in DOMAIN file.rows : file.rows[i].props # QualityNone
         /\ \A i \in DOMAIN file.rows : file.rows[i].props \notin QualityUndated
  <1>1. /\ RCrsMissing(file) \subseteq Findings(file) /\ RRequired(file) \subseteq Findings(file)
        /\ RTimeInvalid(file) \subseteq Findings(file)
    BY DEF Findings
  <1>2. file.crs # "unknown"
    <2> SUFFICES ASSUME file.crs = "unknown" PROVE FALSE
      OBVIOUS
    <2>1. Finding("CRS-MISSING", "critical", 0) \in Findings(file)
      BY <1>1 DEF RCrsMissing
    <2> QED
      BY <2>1 DEF Finding
  <1>3. ASSUME file.required, NEW i \in DOMAIN file.rows, file.rows[i].props = QualityNone PROVE FALSE
    <2>1. Finding("ATTR-REQUIRED", "error", i) \in Findings(file)
      BY <1>1, <1>3 DEF RRequired, OnRows, Rows
    <2> QED
      BY <2>1 DEF Finding
  <1>4. ASSUME NEW i \in DOMAIN file.rows, file.rows[i].props \in QualityUndated PROVE FALSE
    <2>1. Finding("TIME-INVALID", "error", i) \in Findings(file)
      BY <1>1, <1>4 DEF RTimeInvalid, OnRows, Rows
    <2> QED
      BY <2>1 DEF Finding
  <1> QED
    BY <1>2, <1>3, <1>4

(* A finding is about a row, or the dataset.                               *)
LEMMA FindingsOnRows ==
  ASSUME NEW file, NEW f \in Findings(file)
  PROVE  f.row \in DOMAIN file.rows \cup {0}
  <1>1. \A rule, severity, rows : rows \subseteq Rows(file) =>
          \A g \in OnRows(rule, severity, rows) : g.row \in DOMAIN file.rows
    BY DEF OnRows, Finding, Rows
  <1>2. \A rule, types, pairs : \A g \in RPairs(file, rule, types, pairs) : g.row \in DOMAIN file.rows
    BY DEF RPairs, ValidOf, OnRows, Finding, Rows
  <1>3. \A rule, severity : Finding(rule, severity, 0).row = 0
    BY DEF Finding
  <1>4. CASE f \in REmpty(file) \cup RInvalid(file) \cup RCollection(file) \cup RTypeMismatch(file)
                   \cup RDuplicate(file) \cup RBounds(file) \cup RRequired(file)
                   \cup RTimeInvalid(file)
    BY <1>4 DEF REmpty, RInvalid, RCollection, RTypeMismatch, RDuplicate, RBounds, RRequired,
                RTimeInvalid, Rows, OnRows, Finding
  <1>5. CASE f \in RPolyOverlap(file) \cup RLineCross(file)
    BY <1>2, <1>5 DEF RPolyOverlap, RLineCross
  <1>6. CASE f \in RCrsMissing(file) \cup RPolyGap(file) \cup RTimeOrder(file) \cup RAuthority(file)
                   \cup RGroup(file)
    BY <1>3, <1>6 DEF RCrsMissing, RPolyGap, RTimeOrder, RAuthority, RGroup
  <1> QED
    BY <1>4, <1>5, <1>6 DEF Findings

(* When rows have names of their own, what is found about a row is put on  *)
(* its feature, or on the dataset if it has none.                          *)
LEMMA TargetIsOwn ==
  ASSUME LayersMade, NEW s \in Layers, RowsDistinct(s), NEW i \in DOMAIN layerFile[s].rows
  PROVE  LayerTarget(layerFile[s], i) = IF i \in LayerStored(layerFile[s]) THEN i ELSE 0
  <1> DEFINE file == layerFile[s]
             id(j) == LayerStableId(file, file.rows[j])
             same == {j \in LayerStored(file) : id(j) = id(i) /\ (id(i) = QualityNone => j = i)}
  <1>1. i \in Nat \ {0}
    BY LayerAssumption DEF LayersMade
  <1>2. LayerTarget(file, i) = IF same = {} THEN 0 ELSE CHOOSE j \in same : \A k \in same : k <= j
    BY <1>1 DEF LayerTarget
  <1>3. ASSUME NEW j \in same PROVE j = i
    <2>1. CASE id(i) = QualityNone
      BY <2>1
    <2>2. CASE id(i) # QualityNone
      <3>1. RowName(s, i) = <<id(i)>> /\ RowName(s, j) = <<id(j)>>
        BY <2>2, KeyIsName DEF LayerKey
      <3> QED
        BY <3>1, StoredAreRows DEF RowsDistinct
    <2> QED
      BY <2>1, <2>2
  <1>4. i \in LayerStored(file) => i \in same
    OBVIOUS
  <1>5. same \subseteq LayerStored(file)
    OBVIOUS
  <1> HIDE DEF same
  <1>6. CASE i \in LayerStored(file)
    <2>1. same = {i}
      BY <1>3, <1>4, <1>6
    <2>2. (CHOOSE j \in same : \A k \in same : k <= j) = i
      BY <1>1, <2>1
    <2> QED
      BY <1>2, <1>6, <2>1, <2>2
  <1>7. CASE i \notin LayerStored(file)
    BY <1>2, <1>3, <1>5, <1>7
  <1> QED
    BY <1>6, <1>7

LEMMA LayerInvTold == LayerInv => QualityTold
  <1> SUFFICES ASSUME LayerInv, NEW s \in Layers, layers[s] # QualityNone
               PROVE
      LET file == layerFile[s]
          rows == DOMAIN file.rows
          shape(i) == file.rows[i].shape
      IN  /\ quality[s].state = "clean" =>
               /\ \A i \in rows : shape(i) # QualityNone /\ QualityShape[shape(i)].valid
                                  /\ (InDegrees(file) => QualityShape[shape(i)].within)
               /\ \A i, j \in rows : i < j =>
                    /\ shape(i) # shape(j)
                    /\ "overlaps" \in file.forbids =>
                         <<shape(i), shape(j)>> \notin QualityOverlaps
               /\ file.flaws = {}
          /\ quality[s].state \in {"clean", "warnings"} =>
               /\ \A f \in layers[s] : f.placed = "known"
               /\ file.required => \A i \in rows : file.rows[i].props # QualityNone
               /\ \A i \in rows : file.rows[i].props \notin QualityUndated
          /\ \A o \in quality[s].observations : o.row # 0 /\ RowsDistinct(s) =>
               o.on = IF \E f \in layers[s] : f.row = o.row THEN o.row ELSE 0
    BY DEF QualityTold
  <1> DEFINE file == layerFile[s]
  <1>1. LayersMade /\ file \in LayerFiles /\ layers[s] = LayerMade(s)
    BY DEF LayerInv, LayersMade
  <1>2. /\ quality[s].state = QualityState(Findings(file))
        /\ quality[s].observations =
             {[rule |-> f.rule, row |-> f.row, on |-> LayerTarget(file, f.row)] : f \in Findings(file)}
    BY DEF LayerInv, LayersMade, QualityMade
  <1>3. quality[s].state = "clean" => Findings(file) = {}
    BY <1>2 DEF QualityState, PersistedState, Wrong
  <1>4. quality[s].state \in {"clean", "warnings"} =>
          \A f \in Findings(file) : f.severity \notin {"error", "critical"}
    BY <1>2 DEF QualityState, PersistedState, Wrong
  <1>5. quality[s].state \in {"clean", "warnings"} => \A f \in layers[s] : f.placed = "known"
    BY <1>1, <1>4, FilesWithoutErrors DEF LayerMade, FeatureMade, LayerPlaced
  <1>6. ASSUME NEW o \in quality[s].observations, o.row # 0, RowsDistinct(s)
        PROVE  o.on = IF \E f \in layers[s] : f.row = o.row THEN o.row ELSE 0
    <2>1. PICK f \in Findings(file) : o.row = f.row /\ o.on = LayerTarget(file, f.row)
      BY <1>2, <1>6
    <2>2. o.row \in DOMAIN file.rows
      BY <1>6, <2>1, FindingsOnRows
    <2>3. o.on = IF o.row \in LayerStored(file) THEN o.row ELSE 0
      BY <1>1, <1>6, <2>1, <2>2, TargetIsOwn
    <2>4. (\E g \in layers[s] : g.row = o.row) <=> o.row \in LayerStored(file)
      <3>1. \A i : FeatureMade(s, i).row = i
        BY DEF FeatureMade
      <3>2. layers[s] = {FeatureMade(s, i) : i \in LayerStored(file)}
        BY <1>1 DEF LayerMade
      <3> QED
        BY <3>1, <3>2
    <2> QED
      BY <2>3, <2>4
  <1> QED
    BY <1>1, <1>3, <1>4, <1>5, <1>6, CleanFiles, FilesWithoutErrors

(* A dataset is called clean, or only to be warned of, when its file is as *)
(* QualityTold says, and what is found about a row is put on its feature   *)
(* (persist.py:39-47, 70-81, pipeline.py:309-372, 426-427).                *)
THEOREM DatasetsTold == LayerSpec => []QualityTold
  BY LayerInvInit, LayerInvNext, LayerInvTold, PTL DEF LayerSpec

LEMMA FiniteImage ==
  ASSUME NEW f, IsFiniteSet(DOMAIN f)
  PROVE  IsFiniteSet({f[x] : x \in DOMAIN f})
  <1> DEFINE T == {f[x] : x \in DOMAIN f}
             g == [x \in DOMAIN f |-> f[x]]
  <1>1. g \in Surjection(DOMAIN f, T)
    BY DEF Surjection
  <1> QED
    BY <1>1, FS_Surjection

(* A layer has finitely many features, and so a difference counts.         *)
LEMMA ViewsAreFinite ==
  ASSUME LayersMade, NEW s \in Layers, NEW V \in CompareViews(LayerMade(s))
  PROVE  IsFiniteSet(KeysOf(V))
  <1>1. IsFiniteSet(LayerStored(layerFile[s]))
    BY LayerAssumption, StoredAreRows, FS_Subset DEF LayersMade
  <1>2. IsFiniteSet(LayerMade(s))
    <2> DEFINE f == [i \in LayerStored(layerFile[s]) |-> FeatureMade(s, i)]
    <2>1. DOMAIN f = LayerStored(layerFile[s]) /\ \A i \in DOMAIN f : f[i] = FeatureMade(s, i)
      OBVIOUS
    <2>2. LayerMade(s) = {FeatureMade(s, i) : i \in LayerStored(layerFile[s])}
      BY DEF LayerMade
    <2> HIDE DEF f
    <2>3. LayerMade(s) = {f[i] : i \in DOMAIN f}
      BY <2>1, <2>2
    <2> QED
      BY <1>1, <2>1, <2>3, FiniteImage
  <1>3. IsFiniteSet(V)
    BY <1>2, FS_Subset DEF CompareViews
  <1> DEFINE k == [f \in V |-> f.key]
  <1>4. KeysOf(V) = {k[f] : f \in DOMAIN k}
    BY DEF KeysOf
  <1>5. IsFiniteSet(DOMAIN k)
    BY <1>3
  <1> HIDE DEF k
  <1> QED
    BY <1>4, <1>5, FiniteImage

(* What calls and change sets are.                                         *)
THEOREM LayersTyped == LayerSpec => []LayerTypeOK
  <1>1. ASSUME LayerInv PROVE LayerTypeOK
    <2>1. ASSUME NEW s \in Layers, layers[s] # QualityNone, NEW f \in layers[s]
          PROVE  DOMAIN f = {"row", "key", "shape", "placed", "class", "props"}
      BY <1>1, <2>1 DEF LayerInv, LayersMade, LayerMade, FeatureMade
    <2>3. ASSUME NEW cs \in changeSets PROVE cs.pair \in LayerPairs /\ cs.unchanged \in Nat
      <3>1. PICK old \in CompareViews(LayerMade(cs.pair[1])), new \in CompareViews(LayerMade(cs.pair[2])) :
              cs.unchanged = CompareUnchanged(old, new)
        BY <1>1 DEF LayerInv, ChangeSetsMade
      <3>2. cs.pair \in LayerPairs /\ cs.pair[1] \in Layers
        BY <1>1 DEF LayerInv, ChangeSetsMade, LayerPairs, Layers
      <3>3. IsFiniteSet(KeysOf(old))
        BY <1>1, <3>1, <3>2, ViewsAreFinite DEF LayerInv
      <3> DEFINE same == {k \in KeysOf(old) \cap KeysOf(new) :
                            \A e \in DiffFeatures(old, new) : e.key # k}
      <3>4. IsFiniteSet(same)
        BY <3>3, FS_Subset
      <3>5. Cardinality(same) \in Nat
        BY <3>4, FS_CardinalityType
      <3> QED
        BY <3>1, <3>2, <3>5 DEF CompareUnchanged
    <2> QED
      BY <1>1, <2>1, <2>3 DEF LayerTypeOK, LayerInv, CallsMade, LayersMade
  <1> QED
    BY <1>1, LayerInvInit, LayerInvNext, PTL DEF LayerSpec
-----------------------------------------------------------------------------
(* FeaturePaging: PagedExact.                                              *)

(* The file holds the first n rows of the layer, once, and no other.       *)
FirstRows(n) ==
    \A id \in PagingIds :
      paging.got[id] = IF \E i \in DOMAIN pagingRows : pagingRows[i] = id /\ i <= n THEN 1 ELSE 0

NothingGot == \A id \in PagingIds : paging.got[id] = 0

(* No row is twice in the layer, and it holds what has stayed.             *)
RowsThere ==
    /\ \A i, j \in DOMAIN pagingRows : pagingRows[i] = pagingRows[j] => i = j
    /\ pagingStayed \subseteq PagingHeld
    /\ pagingChanges = 0 => pagingStayed = PagingHeld

(* By offset, and with next links, the first rows have been read, as long  *)
(* as nothing changed;                                                     *)
OffsetGoes ==
    paging.kind = "offset" =>
      /\ paging.order /\ paging.count /\ paging.expected = PagingPage /\ paging.last = -1
      /\ ~pagingServer.offsets => NothingGot
      /\ pagingServer.offsets /\ pagingChanges = 0 /\ pagingServer.cap >= PagingPage =>
           FirstRows(paging.offset)

LinksGo ==
    paging.kind = "oaf" /\ pagingChanges = 0 =>
      paging.offset < PagingMax /\ paging.offset <= Len(pagingRows) /\ FirstRows(paging.offset)

(* by OBJECTID each row that stayed has been read up to the last one, and  *)
(* none after it, however the layer changes; a full batch is known to be   *)
(* no longer than the service gives.                                       *)
OidGoes ==
    paging.kind = "oid" =>
      /\ paging.count => paging.expected = PagingPage
      /\ ~paging.count => paging.expected <= pagingServer.cap
      /\ paging.order =>
           /\ \A id \in PagingIds : paging.got[id] <= 1 /\ (id > paging.last => paging.got[id] = 0)
           /\ \A id \in pagingStayed : id <= paging.last => paging.got[id] = 1

PagingGoes ==
    PagingRuns =>
      /\ ~paging.truncated
      /\ paging.kind \in {"once", "wfs"} => NothingGot
      /\ OffsetGoes /\ LinksGo /\ OidGoes

PagingInv == PagingTypeOK /\ RowsThere /\ PagingGoes /\ PagedExact

LEMMA PagingInvInit == PagingInit => PagingInv
  <1> SUFFICES ASSUME PagingInit PROVE PagingInv
    OBVIOUS
  <1>1. PICK kind \in PagingKinds :
          paging = [kind |-> kind, offset |-> 0, last |-> -1, order |-> TRUE, count |-> TRUE,
                    pc |-> IF kind \in {"oaf", "wfs"} THEN "page" ELSE "count",
                    expected |-> PagingPage, got |-> [id \in PagingIds |-> 0], truncated |-> FALSE]
    BY DEF PagingInit
  <1>2. /\ pagingRows \in Seq(PagingIds) /\ pagingServer \in PagingServers
        /\ pagingStayed = PagingHeld /\ pagingChanges = 0
        /\ \A i, j \in DOMAIN pagingRows : pagingRows[i] = pagingRows[j] => i = j
    BY PagingAssumption DEF PagingInit
  <1>3. PagingTypeOK
    <2>1. PagingPage \in Nat /\ [id \in PagingIds |-> 0] \in [PagingIds -> Nat]
      BY PagingAssumption
    <2>2. paging \in PagingCalls
      BY <1>1, <2>1 DEF PagingCalls, PagingKinds
    <2>3. PagingHeld \subseteq PagingIds
      BY <1>2 DEF PagingHeld
    <2> QED
      BY <1>2, <2>2, <2>3, PagingAssumption DEF PagingTypeOK
  <1>4. NothingGot /\ FirstRows(0)
    BY <1>1, <1>2 DEF NothingGot, FirstRows
  <1>5. OffsetGoes /\ LinksGo /\ OidGoes
    BY <1>1, <1>2, <1>4, PagingAssumption DEF OffsetGoes, LinksGo, OidGoes, NothingGot, PagingHeld
  <1> QED
    BY <1>1, <1>2, <1>3, <1>4, <1>5 DEF PagingInv, RowsThere, PagingGoes, PagedExact

(* The layer may change under a call.                                      *)
LEMMA ChangeKeeps ==
  ASSUME PagingInv, NEW id \in PagingIds, PagingChange(id)
  PROVE  PagingInv'
  <1>1. /\ PagingRuns /\ UNCHANGED <<paging, pagingServer>>
        /\ pagingChanges' = pagingChanges + 1 /\ pagingChanges < PagingChanges
        /\ pagingStayed' = pagingStayed \ {id}
    BY DEF PagingChange
  <1>2. /\ pagingRows \in Seq(PagingIds) /\ pagingChanges \in Nat /\ PagingChanges \in Nat
        /\ \A i, j \in DOMAIN pagingRows : pagingRows[i] = pagingRows[j] => i = j
        /\ pagingStayed \subseteq PagingHeld /\ paging \in PagingCalls
    BY PagingAssumption DEF PagingInv, PagingTypeOK, RowsThere
  <1> DEFINE StillRows ==
               /\ pagingRows' \in Seq(PagingIds)
               /\ \A i, j \in DOMAIN pagingRows' : pagingRows'[i] = pagingRows'[j] => i = j
               /\ \A other \in PagingHeld \ {id} : \E j \in DOMAIN pagingRows' : pagingRows'[j] = other
  <1>3. StillRows
    <2>1. ASSUME NEW i \in DOMAIN pagingRows, pagingRows[i] = id, pagingRows' = PagingWithout(i)
          PROVE  StillRows
      <3>1. i \in 1..Len(pagingRows) /\ Len(pagingRows) \in Nat
        BY <1>2, <2>1
      <3>2. pagingRows' = [j \in 1..Len(pagingRows) - 1 |->
                             IF j < i THEN pagingRows[j] ELSE pagingRows[j + 1]]
        BY <2>1 DEF PagingWithout
      <3>3. pagingRows' \in Seq(PagingIds)
        <4>1. \A j \in 1..Len(pagingRows) - 1 : pagingRows[j] \in PagingIds /\ pagingRows[j + 1] \in PagingIds
          BY <1>2, <3>1
        <4>2. Len(pagingRows) - 1 \in Nat
          BY <3>1
        <4> QED
          BY <3>2, <4>1, <4>2
      <3>4. DOMAIN pagingRows' = 1..Len(pagingRows) - 1 /\ DOMAIN pagingRows = 1..Len(pagingRows)
        BY <1>2, <3>2
      <3>5. \A j, k \in DOMAIN pagingRows' : pagingRows'[j] = pagingRows'[k] => j = k
        <4> SUFFICES ASSUME NEW j \in DOMAIN pagingRows', NEW k \in DOMAIN pagingRows',
                            pagingRows'[j] = pagingRows'[k]
                     PROVE  j = k
          OBVIOUS
        <4> DEFINE J == IF j < i THEN j ELSE j + 1
                   K == IF k < i THEN k ELSE k + 1
        <4>1. /\ j \in Int /\ k \in Int /\ i \in Int
              /\ J \in DOMAIN pagingRows /\ K \in DOMAIN pagingRows
          BY <3>1, <3>4
        <4>2. pagingRows[J] = pagingRows[K]
          BY <3>2, <3>4
        <4>3. J = K
          BY <1>2, <4>1, <4>2
        <4> QED
          BY <4>1, <4>3
      <3>6. ASSUME NEW other \in PagingHeld \ {id}
            PROVE  \E j \in DOMAIN pagingRows' : pagingRows'[j] = other
        <4>1. PICK k \in DOMAIN pagingRows : pagingRows[k] = other
          BY DEF PagingHeld
        <4>2. k # i
          BY <2>1, <4>1
        <4>3. CASE k < i
          BY <3>1, <3>2, <3>4, <4>1, <4>3
        <4>4. CASE k > i
          <5>1. k - 1 \in 1..Len(pagingRows) - 1 /\ ~(k - 1 < i) /\ k - 1 + 1 = k
            BY <3>1, <3>4, <4>4
          <5> QED
            BY <3>2, <3>4, <4>1, <5>1
        <4> QED
          BY <3>1, <3>4, <4>2, <4>3, <4>4
      <3> QED
        BY <3>3, <3>5, <3>6
    <2>2. ASSUME id \notin PagingHeld, pagingRows' = Append(pagingRows, id)
          PROVE  StillRows
      BY <1>2, <2>2 DEF PagingHeld
    <2> QED
      BY <2>1, <2>2 DEF PagingChange
  <1>4. RowsThere'
    <2>1. pagingStayed' \subseteq PagingHeld'
      <3>1. \A other \in pagingStayed' : other \in PagingHeld \ {id}
        BY <1>1, <1>2
      <3> QED
        BY <1>3, <3>1 DEF PagingHeld
    <2>2. pagingChanges' # 0
      BY <1>1, <1>2
    <2> QED
      BY <1>3, <2>1, <2>2 DEF RowsThere
  <1>5. PagingTypeOK'
    BY <1>1, <1>2, <1>3 DEF PagingInv, PagingTypeOK
  <1>6. PagingGoes'
    BY <1>1, <1>2 DEF PagingInv, PagingGoes, PagingRuns, OffsetGoes, LinksGo, OidGoes, NothingGot
  <1>7. PagedExact'
    BY <1>1 DEF PagedExact, PagingRuns
  <1> QED
    BY <1>4, <1>5, <1>6, <1>7 DEF PagingInv
(* What a step of the call leaves alone.                                   *)
LEMMA StepLeaves ==
  ASSUME PagingInv, PagingStep
  PROVE  /\ RowsThere' /\ PagingHeld' = PagingHeld
         /\ paging' \in PagingCalls => PagingTypeOK'
  BY DEF PagingInv, PagingStep, RowsThere, PagingHeld, PagingTypeOK

LEMMA CapThere == ASSUME PagingInv PROVE pagingServer.cap \in Nat /\ 0 < pagingServer.cap
  <1>1. pagingServer.cap \in PagingCaps
    BY DEF PagingInv, PagingTypeOK, PagingServers
  <1>2. \A c \in PagingCaps : c \in Nat /\ 0 < c
    BY PagingAssumption
  <1> QED
    BY <1>1, <1>2

LEMMA WaitingKeeps ==
  ASSUME PagingInv,
         PagingCountRows \/ PagingFallsBack \/ PagingUncounted \/ PagingUnordered \/ PagingFails
  PROVE  PagingInv'
  <1>1. PagingStep /\ PagingRuns
    BY DEF PagingCountRows, PagingFallsBack, PagingUncounted, PagingUnordered, PagingFails, PagingAt,
           PagingRuns
  <1>2. paging \in PagingCalls /\ PagingGoes
    BY DEF PagingInv, PagingTypeOK
  <1>3. CASE PagingCountRows \/ PagingFails
    <2>1. /\ paging' \in PagingCalls
          /\ paging'.kind = paging.kind /\ paging'.got = paging.got /\ paging'.last = paging.last
          /\ paging'.order = paging.order /\ paging'.count = paging.count
          /\ paging'.expected = paging.expected /\ paging'.offset = paging.offset
          /\ paging'.truncated = paging.truncated /\ paging'.pc # "done"
      BY <1>2, <1>3 DEF PagingCountRows, PagingFails, PagingRaised, PagingCalls
    <2>2. PagingGoes'
      BY <1>1, <1>2, <2>1 DEF PagingGoes, PagingStep, OffsetGoes, LinksGo, OidGoes, NothingGot, FirstRows
    <2> QED
      BY <1>1, <2>1, <2>2, StepLeaves DEF PagingInv, PagedExact
  <1>4. CASE PagingFallsBack
    <2>1. /\ paging' \in PagingCalls
          /\ paging'.kind = "oid" /\ paging'.got = paging.got /\ paging'.last = paging.last
          /\ paging'.order = paging.order /\ paging'.count = paging.count
          /\ paging'.expected = paging.expected
          /\ paging'.truncated = paging.truncated /\ paging'.pc # "done"
      BY <1>2, <1>4 DEF PagingFallsBack, PagingCalls, PagingKinds, PagingAt
    <2>2. NothingGot /\ paging.count /\ paging.expected = PagingPage /\ paging.last = -1
      BY <1>1, <1>2, <1>4 DEF PagingFallsBack, PagingAt, PagingGoes, OffsetGoes
    <2>3. OidGoes'
      <3>1. (\A id \in PagingIds : ~(id <= -1)) /\ pagingStayed' \subseteq PagingIds
        BY <1>1, PagingAssumption DEF PagingStep, PagingInv, PagingTypeOK
      <3>2. \A id \in PagingIds : paging'.got[id] = 0
        BY <2>1, <2>2 DEF NothingGot
      <3> QED
        BY <2>1, <2>2, <3>1, <3>2 DEF OidGoes
    <2>4. PagingGoes'
      BY <1>1, <1>2, <2>1, <2>3 DEF PagingGoes, OffsetGoes, LinksGo
    <2> QED
      BY <1>1, <2>1, <2>4, StepLeaves DEF PagingInv, PagedExact
  <1>5. CASE PagingUncounted \/ PagingUnordered
    <2>1. /\ paging.kind = "oid" /\ paging' \in PagingCalls
          /\ paging'.kind = "oid" /\ paging'.got = paging.got /\ paging'.last = paging.last
          /\ paging'.order => paging.order
          /\ paging'.count => paging.count /\ paging'.expected = paging.expected
          /\ ~paging'.count => paging'.expected = 0 \/ (~paging.count /\ paging'.expected = paging.expected)
          /\ paging'.truncated = paging.truncated /\ paging'.pc # "done"
      <3>1. CASE PagingUncounted
        BY <1>2, <3>1 DEF PagingUncounted, PagingCalls, PagingAt
      <3>2. CASE PagingUnordered
        BY <1>2, <3>2 DEF PagingUnordered, PagingCalls, PagingAt
      <3> QED
        BY <1>5, <3>1, <3>2
    <2>2. OidGoes
      BY <1>1, <1>2 DEF PagingGoes
    <2>3. 0 <= pagingServer.cap /\ UNCHANGED <<pagingServer, pagingStayed>>
      BY <1>1, CapThere DEF PagingStep
    <2>4. OidGoes'
      <3>1. /\ paging'.count => paging'.expected = PagingPage
            /\ ~paging'.count => paging'.expected <= pagingServer'.cap
        BY <2>1, <2>2, <2>3 DEF OidGoes
      <3> QED
        BY <2>1, <2>2, <2>3, <3>1 DEF OidGoes
    <2>5. PagingGoes'
      BY <1>1, <1>2, <2>1, <2>4 DEF PagingGoes, OffsetGoes, LinksGo
    <2> QED
      BY <1>1, <2>1, <2>5, StepLeaves DEF PagingInv, PagedExact
  <1> QED
    BY <1>3, <1>4, <1>5
(* A slice holds the rows after the first ones.                            *)
LEMMA Slices ==
  ASSUME pagingRows \in Seq(PagingIds), NEW from \in Nat, NEW n \in Nat
  PROVE  /\ PagingSlice(from, n) \in Seq(PagingIds)
         /\ Len(PagingSlice(from, n)) =
              IF Len(pagingRows) <= from THEN 0
              ELSE IF from + n <= Len(pagingRows) THEN n ELSE Len(pagingRows) - from
         /\ \A i \in 1..Len(PagingSlice(from, n)) : PagingSlice(from, n)[i] = pagingRows[from + i]
  <1> DEFINE to == PagingLesser(from + n, Len(pagingRows))
             first == from + 1
  <1>1. /\ Len(pagingRows) \in Nat /\ DOMAIN pagingRows = 1..Len(pagingRows)
        /\ \A i \in DOMAIN pagingRows : pagingRows[i] \in PagingIds
    OBVIOUS
  <1>2. /\ to \in Int /\ first \in Int /\ first = from + 1 /\ 0 <= from
        /\ to = IF from + n < Len(pagingRows) THEN from + n ELSE Len(pagingRows)
    BY <1>1 DEF PagingLesser
  <1>3. PagingSlice(from, n) = SubSeq(pagingRows, first, to)
    BY DEF PagingSlice
  <1> HIDE DEF to, first
  <1>4. \A i \in first..to : pagingRows[i] \in PagingIds
    <2> SUFFICES ASSUME NEW i \in first..to PROVE i \in DOMAIN pagingRows
      BY <1>1
    <2>1. i \in Int /\ first <= i /\ i <= to
      BY <1>2
    <2>2. from \in Int /\ Len(pagingRows) \in Int /\ n \in Int
      BY <1>1
    <2>3. 1 <= i /\ i <= Len(pagingRows)
      BY <1>2, <2>1, <2>2
    <2> QED
      BY <1>1, <2>1, <2>3
  <1>5. /\ PagingSlice(from, n) \in Seq(PagingIds)
        /\ Len(PagingSlice(from, n)) = IF first <= to THEN to - first + 1 ELSE 0
        /\ \A i \in 1..to - first + 1 : PagingSlice(from, n)[i] = pagingRows[first + i - 1]
    <2>1. first \in Int /\ to \in Int
      BY <1>2
    <2>2. /\ SubSeq(pagingRows, first, to) \in Seq(PagingIds)
          /\ Len(SubSeq(pagingRows, first, to)) = IF first <= to THEN to - first + 1 ELSE 0
          /\ \A i \in 1..to - first + 1 : SubSeq(pagingRows, first, to)[i] = pagingRows[first + i - 1]
      BY <1>4, <2>1, SubSeqProperties
    <2> QED
      BY <1>3, <2>2
  <1>6. Len(PagingSlice(from, n)) =
          IF Len(pagingRows) <= from THEN 0
          ELSE IF from + n <= Len(pagingRows) THEN n ELSE Len(pagingRows) - from
    <2> DEFINE len == Len(PagingSlice(from, n))
    <2>1. /\ len = IF first <= to THEN to - first + 1 ELSE 0
          /\ Len(pagingRows) \in Int /\ from \in Int /\ n \in Int /\ 0 <= n
      BY <1>1, <1>5
    <2> HIDE DEF len
    <2>2. len = IF Len(pagingRows) <= from THEN 0
                ELSE IF from + n <= Len(pagingRows) THEN n ELSE Len(pagingRows) - from
      BY <1>2, <2>1
    <2> QED
      BY <2>2 DEF len
  <1>7. ASSUME NEW i \in 1..Len(PagingSlice(from, n))
        PROVE  PagingSlice(from, n)[i] = pagingRows[from + i]
    <2>1. i \in 1..to - first + 1 /\ first + i - 1 = from + i
      BY <1>2, <1>5
    <2> QED
      BY <1>5, <2>1
  <1> QED
    BY <1>5, <1>6, <1>7

(* and rows that follow the first ones in the file make more first rows.   *)
LEMMA RowsFollow ==
  ASSUME PagingInv, NEW from \in Nat, NEW to \in Nat, FirstRows(from), NEW S,
         \A id : id \in S <=> \E i \in DOMAIN pagingRows : pagingRows[i] = id /\ from < i /\ i <= to,
         from <= to
  PROVE  \A id \in PagingIds :
           PagingTook(S)[id] = IF \E i \in DOMAIN pagingRows : pagingRows[i] = id /\ i <= to
                               THEN 1 ELSE 0
  <1> SUFFICES ASSUME NEW id \in PagingIds
               PROVE  PagingTook(S)[id] = IF \E i \in DOMAIN pagingRows : pagingRows[i] = id /\ i <= to
                                          THEN 1 ELSE 0
    OBVIOUS
  <1>1. /\ DOMAIN pagingRows \subseteq Int
        /\ \A i, j \in DOMAIN pagingRows : pagingRows[i] = pagingRows[j] => i = j
    BY DEF PagingInv, PagingTypeOK, RowsThere
  <1>2. PagingTook(S)[id] = paging.got[id] + (IF id \in S THEN 1 ELSE 0)
    BY DEF PagingTook
  <1>3. CASE \E i \in DOMAIN pagingRows : pagingRows[i] = id
    <2>1. PICK i \in DOMAIN pagingRows : pagingRows[i] = id
      BY <1>3
    <2>2. \A j \in DOMAIN pagingRows : pagingRows[j] = id => j = i
      BY <1>1, <2>1
    <2>3. paging.got[id] = IF i <= from THEN 1 ELSE 0
      BY <2>1, <2>2 DEF FirstRows
    <2>4. id \in S <=> from < i /\ i <= to
      BY <2>1, <2>2
    <2>5. (\E j \in DOMAIN pagingRows : pagingRows[j] = id /\ j <= to) <=> i <= to
      BY <2>1, <2>2
    <2>6. i \in Int
      BY <1>1
    <2> QED
      BY <1>2, <2>3, <2>4, <2>5, <2>6
  <1>4. CASE ~\E i \in DOMAIN pagingRows : pagingRows[i] = id
    <2>1. paging.got[id] = 0
      BY <1>4 DEF FirstRows
    <2> QED
      BY <1>2, <1>4, <2>1
  <1> QED
    BY <1>3, <1>4

LEMMA TookCounts == ASSUME PagingInv, NEW S PROVE PagingTook(S) \in [PagingIds -> Nat]
  BY DEF PagingInv, PagingTypeOK, PagingCalls, PagingTook

(* A file that holds all rows that stayed once is exact.                   *)
LEMMA AllRowsExact ==
  ASSUME PagingInv, PagingStep,
         paging'.truncated /\ pagingChanges = 0 => \E id \in PagingHeld : paging'.got[id] = 0,
         PagingSound' => \A id \in PagingIds :
           paging'.got[id] = IF \E i \in DOMAIN pagingRows : pagingRows[i] = id THEN 1 ELSE 0
  PROVE  PagedExact'
  <1>1. /\ pagingStayed' \subseteq PagingIds /\ pagingStayed' \subseteq PagingHeld
        /\ pagingChanges' = 0 => pagingChanges = 0 /\ pagingStayed' = PagingHeld
    BY DEF PagingInv, PagingTypeOK, RowsThere, PagingStep
  <1> QED
    BY <1>1 DEF PagedExact, PagingHeld

LEMMA OffsetKeeps ==
  ASSUME PagingInv, PagingOffset
  PROVE  PagingInv'
  <1> DEFINE n == PagingLesser(PagingPage, pagingServer.cap)
             batch == PagingSlice(paging.offset, n)
  <1>1. /\ PagingAt("offset") /\ pagingServer.offsets /\ PagingStep
        /\ paging' = [paging EXCEPT !.got = PagingTook(PagingIn(batch)),
                        !.pc = IF Len(batch) < PagingPage THEN "done" ELSE "page",
                        !.offset = @ + PagingPage]
    BY DEF PagingOffset
  <1>2. paging \in PagingCalls /\ pagingRows \in Seq(PagingIds) /\ PagingPage \in Nat \ {0}
        /\ Len(pagingRows) \in Nat
    BY PagingAssumption DEF PagingInv, PagingTypeOK
  <1>3. paging.offset \in Nat /\ n \in Nat
    BY <1>2, CapThere DEF PagingLesser, PagingCalls
  <1>4. /\ Len(batch) = IF Len(pagingRows) <= paging.offset THEN 0
                        ELSE IF paging.offset + n <= Len(pagingRows) THEN n
                        ELSE Len(pagingRows) - paging.offset
        /\ batch \in Seq(PagingIds)
        /\ \A i \in 1..Len(batch) : batch[i] = pagingRows[paging.offset + i]
    BY <1>2, <1>3, Slices
  <1> HIDE DEF n, batch
  <1>5. /\ paging' \in PagingCalls
        /\ paging'.kind = "offset" /\ paging'.got = PagingTook(PagingIn(batch))
        /\ paging'.pc = (IF Len(batch) < PagingPage THEN "done" ELSE "page")
        /\ paging'.last = paging.last
        /\ paging'.order = paging.order /\ paging'.count = paging.count
        /\ paging'.expected = paging.expected /\ paging'.offset = paging.offset + PagingPage
        /\ paging'.truncated = paging.truncated
    <2>1. PagingTook(PagingIn(batch)) \in [PagingIds -> Nat] /\ paging.offset + PagingPage \in Nat
      BY <1>2, <1>3, TookCounts
    <2> QED
      BY <1>1, <1>2, <2>1 DEF PagingCalls, PagingAt
  <1>6. PagingGoes /\ PagingRuns
    BY <1>1 DEF PagingInv, PagingRuns, PagingAt
  <1>7. ASSUME pagingChanges = 0, pagingServer.cap >= PagingPage
        PROVE  /\ \A id \in PagingIds :
                    paging'.got[id] = IF \E i \in DOMAIN pagingRows :
                                           pagingRows[i] = id /\ i <= paging'.offset
                                      THEN 1 ELSE 0
               /\ Len(batch) < PagingPage => Len(pagingRows) < paging'.offset
    <2>1. n = PagingPage
      BY <1>2, <1>7, CapThere DEF n, PagingLesser
    <2>2. FirstRows(paging.offset)
      BY <1>1, <1>6, <1>7 DEF PagingGoes, OffsetGoes, PagingAt
    <2>3. ASSUME NEW id
          PROVE  id \in PagingIn(batch) <=>
                   \E i \in DOMAIN pagingRows :
                     pagingRows[i] = id /\ paging.offset < i /\ i <= paging'.offset
      <3>1. ASSUME id \in PagingIn(batch)
            PROVE  \E i \in DOMAIN pagingRows :
                     pagingRows[i] = id /\ paging.offset < i /\ i <= paging'.offset
        <4>1. PICK i \in 1..Len(batch) : batch[i] = id
          BY <1>4, <3>1 DEF PagingIn
        <4>2. /\ paging.offset + i \in DOMAIN pagingRows
              /\ paging.offset < paging.offset + i /\ paging.offset + i <= paging'.offset
          BY <1>2, <1>3, <1>4, <1>5, <2>1, <4>1
        <4>3. pagingRows[paging.offset + i] = id
          BY <1>4, <4>1
        <4> QED
          BY <4>2, <4>3
      <3>2. ASSUME NEW i \in DOMAIN pagingRows, paging.offset < i, i <= paging'.offset
            PROVE  pagingRows[i] \in PagingIn(batch)
        <4>1. i - paging.offset \in 1..Len(batch) /\ paging.offset + (i - paging.offset) = i
          BY <1>2, <1>3, <1>4, <1>5, <2>1, <3>2
        <4>2. i - paging.offset \in DOMAIN batch /\ batch[i - paging.offset] = pagingRows[i]
          BY <1>4, <4>1
        <4> QED
          BY <4>2 DEF PagingIn
      <3> QED
        BY <3>1, <3>2
    <2>4. paging'.offset \in Nat /\ paging.offset <= paging'.offset
      BY <1>2, <1>3, <1>5
    <2>5. Len(batch) < PagingPage => Len(pagingRows) < paging'.offset
      BY <1>2, <1>3, <1>4, <1>5, <2>1
    <2> QED
      BY <1>3, <1>5, <2>2, <2>3, <2>4, <2>5, RowsFollow
  <1>8. PagingGoes'
    BY <1>1, <1>5, <1>6, <1>7 DEF PagingGoes, OffsetGoes, LinksGo, OidGoes, FirstRows, PagingAt, PagingStep
  <1>9. PagedExact'
    <2> SUFFICES ASSUME paging'.pc = "done" PROVE PagedExact'
      BY DEF PagedExact
    <2>1. ~paging'.truncated
      BY <1>5, <1>6 DEF PagingGoes
    <2>2. ASSUME PagingSound', NEW id \in PagingIds
          PROVE  paging'.got[id] = IF \E i \in DOMAIN pagingRows : pagingRows[i] = id THEN 1 ELSE 0
      <3>1. pagingChanges = 0 /\ pagingServer.cap >= PagingPage
        BY <1>1, <1>5, <2>2 DEF PagingSound, PagingStep
      <3>2. Len(pagingRows) < paging'.offset
        BY <1>5, <1>7, <3>1
      <3>3. \A i \in DOMAIN pagingRows : i <= paging'.offset
        BY <1>2, <1>3, <1>5, <3>2
      <3> QED
        BY <1>7, <3>1, <3>3
    <2> QED
      BY <1>1, <2>1, <2>2, AllRowsExact
  <1> QED
    BY <1>1, <1>5, <1>8, <1>9, StepLeaves DEF PagingInv
(* What a batch holds that copies the rows after the first ones.           *)
LEMMA RowsIn ==
  ASSUME pagingRows \in Seq(PagingIds), NEW from \in Nat, NEW b \in Seq(PagingIds),
         Len(b) = 0 \/ from + Len(b) <= Len(pagingRows),
         \A i \in 1..Len(b) : b[i] = pagingRows[from + i],
         NEW id
  PROVE  id \in PagingIn(b) <=>
           \E i \in DOMAIN pagingRows : pagingRows[i] = id /\ from < i /\ i <= from + Len(b)
  <1>1. Len(b) \in Nat /\ Len(pagingRows) \in Nat /\ DOMAIN pagingRows = 1..Len(pagingRows)
        /\ DOMAIN b = 1..Len(b)
    OBVIOUS
  <1>2. ASSUME id \in PagingIn(b)
        PROVE  \E i \in DOMAIN pagingRows : pagingRows[i] = id /\ from < i /\ i <= from + Len(b)
    <2>1. PICK i \in 1..Len(b) : b[i] = id
      BY <1>1, <1>2 DEF PagingIn
    <2>2. from + i \in DOMAIN pagingRows /\ from < from + i /\ from + i <= from + Len(b)
      BY <1>1, <2>1
    <2>3. pagingRows[from + i] = id
      BY <2>1
    <2> QED
      BY <2>2, <2>3
  <1>3. ASSUME NEW i \in DOMAIN pagingRows, from < i, i <= from + Len(b)
        PROVE  pagingRows[i] \in PagingIn(b)
    <2>1. i - from \in 1..Len(b) /\ from + (i - from) = i
      BY <1>1, <1>3
    <2>2. i - from \in DOMAIN b /\ b[i - from] = pagingRows[i]
      BY <1>1, <2>1
    <2> QED
      BY <2>2 DEF PagingIn
  <1> QED
    BY <1>2, <1>3

LEMMA NextLinkKeeps ==
  ASSUME PagingInv, PagingNextLink
  PROVE  PagingInv'
  <1> DEFINE n == PagingLesser(PagingPage, pagingServer.cap)
             batch == PagingSlice(paging.offset, n)
             total == paging.offset + Len(batch)
             keep == PagingLesser(Len(batch), PagingMax - paging.offset)
             kept == SubSeq(batch, 1, keep)
             more == total < Len(pagingRows)
             ends == ~more \/ Len(batch) < PagingPage \/ total >= PagingMax
  <1>1. /\ PagingAt("oaf") /\ PagingStep
        /\ paging' = [paging EXCEPT !.got = PagingTook(PagingIn(kept)), !.offset = total,
                        !.truncated = total > PagingMax,
                        !.pc = IF ends THEN "done" ELSE "page"]
    BY DEF PagingNextLink
  <1>2. /\ paging \in PagingCalls /\ pagingRows \in Seq(PagingIds) /\ PagingPage \in Nat \ {0}
        /\ Len(pagingRows) \in Nat /\ PagingMax \in Nat \ {0}
        /\ DOMAIN pagingRows = 1..Len(pagingRows)
    BY PagingAssumption DEF PagingInv, PagingTypeOK
  <1>3. paging.offset \in Nat /\ n \in Nat /\ n <= PagingPage
        /\ (pagingServer.cap >= PagingPage => n = PagingPage)
    BY <1>2, CapThere DEF PagingLesser, PagingCalls
  <1>4. /\ Len(batch) = IF Len(pagingRows) <= paging.offset THEN 0
                        ELSE IF paging.offset + n <= Len(pagingRows) THEN n
                        ELSE Len(pagingRows) - paging.offset
        /\ batch \in Seq(PagingIds)
        /\ \A i \in 1..Len(batch) : batch[i] = pagingRows[paging.offset + i]
    BY <1>2, <1>3, Slices
  <1> HIDE DEF n, batch
  <1>5. Len(batch) \in Nat /\ total \in Nat /\ ends \in BOOLEAN
    BY <1>3, <1>4
  <1> HIDE DEF kept
  <1>6. /\ paging' \in PagingCalls
        /\ paging'.kind = "oaf" /\ paging'.got = PagingTook(PagingIn(kept))
        /\ paging'.pc = (IF ends THEN "done" ELSE "page")
        /\ paging'.offset = total /\ paging'.truncated = (total > PagingMax)
    <2> HIDE DEF total, ends
    <2>1. PagingTook(PagingIn(kept)) \in [PagingIds -> Nat]
      BY TookCounts
    <2>2. (total > PagingMax) \in BOOLEAN
      OBVIOUS
    <2> QED
      BY <1>1, <1>2, <1>5, <2>1, <2>2 DEF PagingCalls, PagingAt
  <1>7. PagingGoes /\ PagingRuns /\ paging.kind = "oaf"
    BY <1>1 DEF PagingInv, PagingRuns, PagingAt
  <1> DEFINE to == PagingLesser(total, PagingMax)
  <1>8. ASSUME pagingChanges = 0
        PROVE  /\ total <= Len(pagingRows)
               /\ \A id \in PagingIds :
                    paging'.got[id] = IF \E i \in DOMAIN pagingRows : pagingRows[i] = id /\ i <= to
                                      THEN 1 ELSE 0
    <2>1. paging.offset < PagingMax /\ paging.offset <= Len(pagingRows) /\ FirstRows(paging.offset)
      BY <1>7, <1>8 DEF PagingGoes, LinksGo
    <2>2. total <= Len(pagingRows)
      BY <1>2, <1>3, <1>4, <2>1
    <2>3. /\ keep \in Nat /\ keep <= Len(batch) /\ paging.offset + keep = to
          /\ to \in Nat /\ paging.offset <= to
      BY <1>2, <1>3, <1>5, <2>1 DEF PagingLesser
    <2> HIDE DEF keep
    <2>4. \A i \in 1..keep : i \in 1..Len(batch)
      BY <1>5, <2>3
    <2>5. \A i \in 1..keep : batch[i] \in PagingIds
      BY <1>4, <2>4
    <2>6. /\ kept \in Seq(PagingIds) /\ Len(kept) = keep
          /\ \A i \in 1..keep : kept[i] = batch[i]
      <3>1. /\ kept \in Seq(PagingIds) /\ Len(kept) = IF 1 <= keep THEN keep - 1 + 1 ELSE 0
            /\ \A i \in 1..keep - 1 + 1 : kept[i] = batch[1 + i - 1]
        BY <2>3, <2>5, SubSeqProperties DEF kept
      <3>2. keep - 1 + 1 = keep
        BY <2>3
      <3> QED
        BY <2>3, <3>1, <3>2
    <2>7. \A id : id \in PagingIn(kept) <=>
                   \E i \in DOMAIN pagingRows : pagingRows[i] = id /\ paging.offset < i /\ i <= to
      <3>1. paging.offset + Len(kept) <= Len(pagingRows)
        BY <1>2, <1>3, <1>5, <2>2, <2>3, <2>6
      <3>2. \A i \in 1..Len(kept) : kept[i] = pagingRows[paging.offset + i]
        BY <1>4, <2>4, <2>6
      <3> HIDE DEF to
      <3>3. \A id : id \in PagingIn(kept) <=>
                   \E i \in DOMAIN pagingRows :
                     pagingRows[i] = id /\ paging.offset < i /\ i <= paging.offset + Len(kept)
        BY <1>2, <1>3, <2>6, <3>1, <3>2, RowsIn
      <3> QED
        BY <2>3, <2>6, <3>3
    <2> HIDE DEF to, total
    <2>8. \A id \in PagingIds :
            PagingTook(PagingIn(kept))[id] =
              IF \E i \in DOMAIN pagingRows : pagingRows[i] = id /\ i <= to THEN 1 ELSE 0
      BY <1>3, <2>1, <2>3, <2>7, RowsFollow
    <2> QED
      BY <1>6, <2>2, <2>8
  <1>9. PagingGoes'
    <2> SUFFICES ASSUME ~ends PROVE PagingGoes'
      BY <1>6 DEF PagingGoes, PagingRuns
    <2>1. total < PagingMax
      BY <1>2, <1>5
    <2>2. to = total
      BY <1>2, <1>5, <2>1 DEF PagingLesser
    <2>3. ~paging'.truncated
      <3> HIDE DEF total, ends
      <3>1. ~(total > PagingMax)
        BY <1>2, <1>5, <2>1
      <3> QED
        BY <1>6, <3>1
    <2>4. LinksGo'
      <3> HIDE DEF to, total, ends
      <3> QED
        BY <1>1, <1>6, <1>8, <2>1, <2>2 DEF LinksGo, FirstRows, PagingStep
    <2> QED
      BY <1>6, <2>3, <2>4 DEF PagingGoes, OffsetGoes, OidGoes
  <1>10. PagedExact'
    <2> SUFFICES ASSUME ends PROVE PagedExact'
      BY <1>6 DEF PagedExact
    <2>1. ASSUME paging'.truncated, pagingChanges = 0
          PROVE  \E id \in PagingHeld : paging'.got[id] = 0
      <3> HIDE DEF total
      <3>1. total > PagingMax /\ total <= Len(pagingRows)
        BY <1>6, <1>8, <2>1
      <3>2. to = PagingMax /\ total \in DOMAIN pagingRows
        BY <1>2, <1>5, <3>1 DEF PagingLesser
      <3>3. pagingRows[total] \in PagingHeld /\ pagingRows[total] \in PagingIds
        BY <1>2, <3>2 DEF PagingHeld
      <3>4. \A i \in DOMAIN pagingRows : pagingRows[i] = pagingRows[total] => i = total
        BY <3>2 DEF PagingInv, RowsThere
      <3>5. ~(total <= to)
        BY <1>2, <1>5, <3>1, <3>2
      <3> HIDE DEF to
      <3> QED
        BY <1>8, <2>1, <3>3, <3>4, <3>5
    <2>2. ASSUME PagingSound', NEW id \in PagingIds
          PROVE  paging'.got[id] = IF \E i \in DOMAIN pagingRows : pagingRows[i] = id THEN 1 ELSE 0
      <3>1. pagingChanges = 0 /\ pagingServer.cap >= PagingPage /\ Len(pagingRows) <= PagingMax
        BY <1>1, <1>6, <2>2 DEF PagingSound, PagingStep
      <3>2. total <= Len(pagingRows)
        BY <1>8, <3>1
      <3>3. total = Len(pagingRows)
        <4>1. CASE ~more
          BY <1>2, <1>5, <3>2, <4>1
        <4>2. CASE Len(batch) < PagingPage
          BY <1>2, <1>3, <1>4, <3>1, <3>2, <4>2
        <4>3. CASE total >= PagingMax
          BY <1>2, <1>5, <3>1, <3>2, <4>3
        <4> QED
          BY <4>1, <4>2, <4>3
      <3>4. to = Len(pagingRows)
        <4> HIDE DEF total
        <4>1. total < PagingMax \/ total = PagingMax
          <5>1. total \in Int /\ PagingMax \in Int /\ total <= PagingMax
            BY <1>2, <3>1, <3>3
          <5> QED
            BY <5>1
        <4>2. to = total
          BY <4>1 DEF PagingLesser
        <4> QED
          BY <3>3, <4>2
      <3>5. \A i \in DOMAIN pagingRows : i <= to
        BY <1>2, <3>4
      <3> HIDE DEF to
      <3> QED
        BY <1>8, <3>1, <3>5
    <2> QED
      BY <1>1, <2>1, <2>2, AllRowsExact
  <1> QED
    BY <1>1, <1>6, <1>9, <1>10, StepLeaves DEF PagingInv
(* One request for all there is.                                           *)
LEMMA OnceKeeps ==
  ASSUME PagingInv, PagingOnce
  PROVE  PagingInv'
  <1> DEFINE n == IF paging.kind = "wfs" THEN PagingLesser(PagingMax, pagingServer.cap)
                  ELSE pagingServer.cap
             batch == PagingSlice(0, n)
  <1>1. /\ paging.pc = "page" /\ paging.kind \in {"once", "wfs"} /\ PagingStep
        /\ paging' = [paging EXCEPT !.pc = "done", !.got = PagingTook(PagingIn(batch))]
    BY DEF PagingOnce, PagingAt
  <1>2. /\ paging \in PagingCalls /\ pagingRows \in Seq(PagingIds) /\ Len(pagingRows) \in Nat
        /\ PagingMax \in Nat /\ DOMAIN pagingRows = 1..Len(pagingRows)
    BY PagingAssumption DEF PagingInv, PagingTypeOK
  <1>3. n \in Nat /\ (PagingSound' => Len(pagingRows) <= n)
    <2>1. PagingSound' => /\ Len(pagingRows) <= pagingServer.cap
                          /\ paging.kind = "wfs" => Len(pagingRows) <= PagingMax
      BY <1>1, <1>2 DEF PagingSound, PagingStep, PagingCalls
    <2> QED
      BY <1>2, <2>1, CapThere DEF PagingLesser
  <1>4. /\ Len(batch) = IF Len(pagingRows) <= 0 THEN 0
                        ELSE IF 0 + n <= Len(pagingRows) THEN n ELSE Len(pagingRows) - 0
        /\ batch \in Seq(PagingIds)
        /\ \A i \in 1..Len(batch) : batch[i] = pagingRows[0 + i]
    BY <1>2, <1>3, Slices
  <1> HIDE DEF n, batch
  <1>5. /\ paging' \in PagingCalls /\ paging'.got = PagingTook(PagingIn(batch))
        /\ paging'.pc = "done" /\ paging'.truncated = paging.truncated
    BY <1>1, <1>2, TookCounts DEF PagingCalls
  <1>6. NothingGot /\ ~paging.truncated
    BY <1>1 DEF PagingInv, PagingGoes, PagingRuns
  <1>7. ASSUME PagingSound', NEW id \in PagingIds
        PROVE  paging'.got[id] = IF \E i \in DOMAIN pagingRows : pagingRows[i] = id THEN 1 ELSE 0
    <2>1. Len(batch) = Len(pagingRows)
      <3>1. Len(pagingRows) <= n /\ n \in Int /\ Len(pagingRows) \in Int /\ 0 <= Len(pagingRows)
        BY <1>2, <1>3, <1>7
      <3>2. Len(pagingRows) <= 0 \/ n <= Len(pagingRows) \/ Len(batch) = Len(pagingRows)
        BY <1>4, <3>1
      <3>3. CASE Len(pagingRows) <= 0
        BY <1>4, <3>1, <3>3
      <3>4. CASE ~(Len(pagingRows) <= 0) /\ n <= Len(pagingRows)
        BY <1>4, <3>1, <3>4
      <3> QED
        BY <3>2, <3>3, <3>4
    <2>2. id \in PagingIn(batch) <=>
            \E i \in DOMAIN pagingRows : pagingRows[i] = id /\ 0 < i /\ i <= 0 + Len(batch)
      BY <1>2, <1>4, <2>1, RowsIn
    <2>3. \A i \in DOMAIN pagingRows : 0 < i /\ i <= 0 + Len(batch)
      BY <1>2, <2>1
    <2>4. paging'.got[id] = 0 + (IF id \in PagingIn(batch) THEN 1 ELSE 0)
      BY <1>5, <1>6 DEF PagingTook, NothingGot
    <2> QED
      BY <2>2, <2>3, <2>4
  <1>8. PagedExact'
    BY <1>1, <1>5, <1>6, <1>7, AllRowsExact
  <1>9. PagingGoes'
    BY <1>5 DEF PagingGoes, PagingRuns
  <1> QED
    BY <1>1, <1>5, <1>8, <1>9, StepLeaves DEF PagingInv

LEMMA HeldFinite ==
  ASSUME PagingInv, NEW B \in SUBSET PagingHeld
  PROVE  IsFiniteSet(B) /\ Cardinality(B) \in Nat
  <1>1. DOMAIN pagingRows = 1..Len(pagingRows) /\ Len(pagingRows) \in Nat
    BY DEF PagingInv, PagingTypeOK
  <1>2. IsFiniteSet(DOMAIN pagingRows)
    BY <1>1, FS_Interval
  <1>3. IsFiniteSet(PagingHeld)
    BY <1>2, FiniteImage DEF PagingHeld
  <1> QED
    BY <1>3, FS_Subset, FS_CardinalityType

(* A batch that is not full is all of the rest.                            *)
LEMMA OidKeeps ==
  ASSUME PagingInv, PagingOid
  PROVE  PagingInv'
  <1>1. PagingAt("oid") /\ PagingStep
    BY DEF PagingOid
  <1>2. PICK B \in PagingBatches :
          LET n == Cardinality(B)
              next == [paging EXCEPT !.got = PagingTook(B), !.expected = PagingExpect(n)]
          IN  IF B = {} \/ n < PagingExpect(n) THEN paging' = [next EXCEPT !.pc = "done"]
              ELSE \E top \in B : /\ \A b \in B : b <= top
                                  /\ paging' = [next EXCEPT !.last = top]
    BY DEF PagingOid
  <1> DEFINE n == Cardinality(B)
             ends == B = {} \/ n < PagingExpect(n)
  <1>3. /\ B \subseteq PagingRest
        /\ \/ B = PagingRest /\ n <= PagingFull
           \/ n = PagingFull
        /\ paging.order => \A b \in B, r \in PagingRest \ B : b < r
    BY DEF PagingBatches
  <1>4. /\ paging \in PagingCalls /\ pagingStayed \subseteq PagingIds /\ PagingHeld \subseteq PagingIds
        /\ pagingStayed \subseteq PagingHeld /\ PagingPage \in Nat /\ 0 < PagingPage
        /\ PagingIds \subseteq Int /\ PagingIds \subseteq Nat
        /\ paging.last \in Int /\ paging.expected \in Nat
        /\ \A id \in PagingIds : paging.got[id] \in Nat
    BY PagingAssumption DEF PagingInv, PagingTypeOK, RowsThere, PagingHeld, PagingCalls
  <1>5. B \subseteq PagingHeld /\ n \in Nat /\ (B = {} => n = 0)
    BY <1>3, HeldFinite, FS_EmptySet DEF PagingRest
  <1>6. /\ PagingGoes /\ PagingRuns /\ OidGoes /\ paging.kind = "oid" /\ ~paging.truncated
        /\ paging.count \in BOOLEAN /\ paging.order \in BOOLEAN
    BY <1>1, <1>4 DEF PagingInv, PagingGoes, PagingRuns, PagingAt, PagingCalls
  <1>7. /\ PagingExpect(n) \in Nat
        /\ paging.count => PagingExpect(n) = PagingPage
        /\ ~paging.count => PagingExpect(n) <= pagingServer.cap
    <2>1. PagingExpect(n) \in Nat
      BY <1>4, <1>5 DEF PagingExpect
    <2>2. paging.count => PagingExpect(n) = PagingPage
      BY <1>4, <1>6 DEF OidGoes, PagingExpect
    <2>3. ~paging.count => n <= pagingServer.cap
      BY <1>3, <1>5, CapThere DEF PagingFull
    <2> QED
      BY <1>5, <1>6, <2>1, <2>2, <2>3, CapThere DEF OidGoes, PagingExpect
  <1> HIDE DEF n
  <1>8. /\ paging' \in PagingCalls /\ paging'.kind = "oid" /\ paging'.got = PagingTook(B)
        /\ paging'.order = paging.order /\ paging'.count = paging.count
        /\ paging'.expected = PagingExpect(n) /\ paging'.truncated = paging.truncated
        /\ ends => paging'.pc = "done"
        /\ ~ends => paging'.last \in B /\ \A b \in B : b <= paging'.last
    <2>1. PagingTook(B) \in [PagingIds -> Nat]
      BY TookCounts
    <2>2. CASE ends
      <3>1. paging' = [paging EXCEPT !.got = PagingTook(B), !.expected = PagingExpect(n), !.pc = "done"]
        BY <1>2, <2>2 DEF n
      <3> QED
        BY <1>4, <1>6, <1>7, <2>1, <2>2, <3>1 DEF PagingCalls
    <2>3. CASE ~ends
      <3>1. PICK top \in B :
              /\ \A b \in B : b <= top
              /\ paging' = [paging EXCEPT !.got = PagingTook(B), !.expected = PagingExpect(n),
                                          !.last = top]
        BY <1>2, <2>3 DEF n
      <3>2. top \in Nat
        BY <1>4, <1>5, <3>1
      <3> QED
        BY <1>4, <1>6, <1>7, <2>1, <2>3, <3>1, <3>2 DEF PagingCalls
    <2> QED
      BY <2>2, <2>3
  <1> HIDE DEF ends
  <1>9. \A id \in PagingIds : paging'.got[id] = paging.got[id] + (IF id \in B THEN 1 ELSE 0)
    BY <1>8 DEF PagingTook
  <1>10. ASSUME paging.order
         PROVE  \A id \in PagingIds :
                  /\ paging'.got[id] <= 1
                  /\ id \in B => paging'.got[id] = 1 /\ id > paging.last
                  /\ id \notin B => paging'.got[id] = paging.got[id]
    BY <1>3, <1>4, <1>6, <1>9, <1>10 DEF OidGoes, PagingRest
  <1>11. PagingGoes'
    <2> SUFFICES ASSUME ~ends PROVE PagingGoes'
      BY <1>8 DEF PagingGoes, PagingRuns
    <2>1. /\ paging'.last \in B /\ paging'.last \in Int /\ paging'.last > paging.last
          /\ \A b \in B : b <= paging'.last
      BY <1>3, <1>4, <1>5, <1>8 DEF PagingRest
    <2>2. ASSUME paging.order, NEW id \in PagingIds, id > paging'.last PROVE paging'.got[id] = 0
      <3>1. id \notin B /\ id > paging.last
        BY <1>4, <2>1, <2>2
      <3> QED
        BY <1>6, <1>10, <2>2, <3>1 DEF OidGoes
    <2>3. ASSUME paging.order, NEW id \in pagingStayed, id <= paging'.last PROVE paging'.got[id] = 1
      <3>1. CASE id \in B
        BY <1>4, <1>10, <2>3, <3>1
      <3>2. CASE id \notin B /\ id <= paging.last
        BY <1>4, <1>6, <1>10, <2>3, <3>2 DEF OidGoes
      <3>3. CASE id \notin B /\ ~(id <= paging.last)
        <4>1. id \in PagingRest \ B
          BY <1>4, <2>3, <3>3 DEF PagingRest
        <4>2. paging'.last < id
          BY <1>3, <2>1, <2>3, <4>1
        <4>3. id \in Int /\ paging'.last \in Int /\ id <= paging'.last
          BY <1>4, <2>1, <2>3
        <4> QED
          BY ONLY <4>2, <4>3
      <3> QED
        BY <3>1, <3>2, <3>3
    <2>4. OidGoes'
      BY <1>1, <1>7, <1>8, <1>10, <2>2, <2>3 DEF OidGoes, PagingStep
    <2> QED
      BY <1>6, <1>8, <2>4 DEF PagingGoes, OffsetGoes, LinksGo
  <1>12. PagedExact'
    <2> SUFFICES ASSUME PagingSound', paging'.pc = "done"
                 PROVE  /\ \A id \in pagingStayed : paging'.got[id] = 1
                        /\ \A id \in PagingIds : paging'.got[id] <= 1
      BY <1>1, <1>6, <1>8 DEF PagedExact, PagingStep
    <2>1. paging.order /\ (paging.count => pagingServer.cap >= PagingPage)
      BY <1>1, <1>8 DEF PagingSound, PagingStep
    <2>2. ends
      <3> SUFFICES ASSUME ~ends PROVE FALSE
        OBVIOUS
      <3>1. paging'.pc = paging.pc
        <4>1. PICK top \in B :
                paging' = [[paging EXCEPT !.got = PagingTook(B), !.expected = PagingExpect(n)]
                             EXCEPT !.last = top]
          BY <1>2 DEF ends, n
        <4> QED
          BY <1>4, <4>1 DEF PagingCalls
      <3> QED
        BY <1>1, <3>1 DEF PagingAt
    <2>3. B = PagingRest
      <3> SUFFICES ASSUME B # PagingRest PROVE FALSE
        OBVIOUS
      <3>1. n = PagingFull
        BY <1>3 DEF n
      <3>2. PagingExpect(n) <= PagingFull /\ 0 < PagingFull
        BY <1>4, <1>6, <1>7, <2>1, CapThere DEF PagingFull, PagingLesser
      <3> QED
        BY <1>5, <1>7, <2>2, <3>1, <3>2 DEF ends, n
    <2>4. ASSUME NEW id \in pagingStayed PROVE paging'.got[id] = 1
      <3>1. CASE id \in B
        BY <1>4, <1>10, <2>1, <3>1
      <3>2. CASE id \notin B
        <4>1. id <= paging.last
          <5>1. id \in PagingHeld /\ id \in Int /\ paging.last \in Int
            BY <1>4
          <5>2. ~(id > paging.last)
            BY <2>3, <3>2, <5>1 DEF PagingRest
          <5> QED
            BY ONLY <5>1, <5>2
        <4>2. paging.got[id] = 1
          BY <1>6, <2>1, <4>1 DEF OidGoes
        <4> QED
          BY <1>4, <1>10, <2>1, <3>2, <4>2
      <3> QED
        BY <3>1, <3>2
    <2> QED
      BY <1>10, <2>1, <2>4
  <1> QED
    BY <1>1, <1>8, <1>11, <1>12, StepLeaves DEF PagingInv

LEMMA PagingInvNext == PagingInv /\ [PagingNext]_pagingVars => PagingInv'
  <1> SUFFICES ASSUME PagingInv, [PagingNext]_pagingVars PROVE PagingInv'
    OBVIOUS
  <1>1. CASE UNCHANGED pagingVars
    BY <1>1 DEF pagingVars, PagingInv, PagingTypeOK, RowsThere, PagingHeld, PagingGoes, PagingRuns,
                OffsetGoes, LinksGo, OidGoes, NothingGot, FirstRows, PagedExact, PagingSound
  <1> QED
    BY <1>1, ChangeKeeps, WaitingKeeps, OffsetKeeps, OidKeeps, OnceKeeps, NextLinkKeeps
       DEF PagingNext, PagingCallStep

(* What rows, requests and what has arrived are.                            *)
THEOREM PagingTyped == PagingSpec => []PagingTypeOK
  BY PagingInvInit, PagingInvNext, PTL DEF PagingSpec, PagingInv

(* A file that was fetched holds the rows that stayed once each, by        *)
(* OBJECTID even while rows come and go, and says so when it lacks some    *)
(* (arcgis_rest.py:154-160, 209-213, ogc_api.py:102).                      *)
THEOREM PagesExact == PagingSpec => []PagedExact
  BY PagingInvInit, PagingInvNext, PTL DEF PagingSpec, PagingInv
-----------------------------------------------------------------------------
(* GridSweep: GridHonest.                                                  *)

GridTypes ==
    /\ DOMAIN grid = {"kind", "detail", "pc", "plans", "errors", "answers", "items", "files"}
    /\ GridTypeOK
    /\ grid.detail => grid.kind = "ekgis"
    /\ gridSite \in GridSites

(* While points are asked: what was found is what the points that answered *)
(* show, and errors are counted.                                           *)
GridAsks ==
    grid.pc = "probe" =>
      /\ grid.items = {} /\ grid.files = <<>> /\ grid.plans = GridShown
      /\ \E k \in 0..GridCells :
           /\ grid.answers \in [1..k -> GridOutcomes] /\ grid.errors <= k
           /\ grid.errors = k => \A c \in 1..k : grid.answers[c] = "error"

GridListed == {i[1] : i \in grid.items}

(* While items are made: a plan is listed or still to be, unless it has no *)
(* geometry, and each boundary is in the file of its name, or was written  *)
(* over there by another.                                                  *)
GridFiled(i) ==
    /\ GridName[i[1]] \in DOMAIN grid.files
    /\ LET f == grid.files[GridName[i[1]]] IN
       f \in grid.items /\ f[2] = "boundary" /\ GridName[f[1]] = GridName[i[1]]

GridLists ==
    grid.pc \in {"list", "done"} =>
      /\ grid.plans \subseteq GridShown /\ GridListed \subseteq GridShown \ grid.plans
      /\ grid.kind = "sqhkt" => GridListed = GridShown \ grid.plans
      /\ \A p \in (GridShown \cap gridSite.drawn) \ grid.plans :
           p \in GridListed \/ (grid.detail /\ gridSite.detail[p] = "null")
      /\ \A i, j \in grid.items : i[1] = j[1] /\ i[2] = j[2] => i = j
      /\ \A i \in grid.items : i[2] = "boundary" => GridFiled(i)
      /\ grid.pc = "done" => grid.plans = {}

GridRaises ==
    grid.pc = "raised" =>
      \/ \E c \in DOMAIN grid.answers : grid.answers[c] = "odd"
      \/ grid.kind = "ekgis" /\ \A c \in DOMAIN grid.answers : grid.answers[c] = "error"

GridInv == GridTypes /\ GridAsks /\ GridLists /\ GridRaises

LEMMA GridInvInit == GridInit => GridInv
  <1> SUFFICES ASSUME GridInit PROVE GridInv
    OBVIOUS
  <1>1. PICK kind \in {"sqhkt", "ekgis"}, detail \in BOOLEAN :
          /\ detail => kind = "ekgis"
          /\ grid = [kind |-> kind, detail |-> detail, pc |-> "probe", plans |-> {},
                     errors |-> 0, answers |-> <<>>, items |-> {}, files |-> <<>>]
    BY DEF GridInit
  <1>2. /\ grid.kind = kind /\ grid.detail = detail /\ grid.pc = "probe" /\ grid.plans = {}
        /\ grid.errors = 0 /\ grid.answers = <<>> /\ grid.items = {} /\ grid.files = <<>>
    BY <1>1
  <1>3. grid.answers \in [1..0 -> GridOutcomes] /\ 0 \in 0..GridCells
    BY <1>2, GridAssumption
  <1>4. GridTypes
    <2>1. \E probed \in 0..GridCells : grid.answers \in [1..probed -> GridOutcomes]
      BY <1>3
    <2>2. GridTypeOK
      BY <1>1, <1>2, <1>3, <2>1 DEF GridTypeOK
    <2> QED
      BY <1>1, <1>2, <2>2 DEF GridTypes, GridInit
  <1>5. GridShown = {}
    BY <1>2 DEF GridShown, GridAnswered
  <1>6. GridAsks
    BY <1>2, <1>3, <1>5 DEF GridAsks
  <1> QED
    BY <1>2, <1>4, <1>6 DEF GridInv, GridLists, GridRaises

LEMMA ProbedCounts ==
  ASSUME NEW k \in Nat, DOMAIN grid.answers = 1..k
  PROVE  GridProbed = k
  <1>1. Cardinality(1..k) = IF 1 > k THEN 0 ELSE k - 1 + 1
    <2>1. 1 \in Int /\ k \in Int
      OBVIOUS
    <2> QED
      BY ONLY <2>1, FS_Interval
  <1>2. Cardinality(1..k) = k
    BY <1>1
  <1> QED
    BY <1>2 DEF GridProbed

LEMMA ProbeKeeps ==
  ASSUME GridInv, GridProbe
  PROVE  GridInv'
  <1>1. GridTypes /\ GridAsks /\ grid.pc = "probe" /\ GridProbed < GridCells /\ gridSite' = gridSite
        /\ GridCells \in Nat
    BY GridAssumption DEF GridInv, GridProbe
  <1>2. PICK k \in 0..GridCells :
          /\ grid.answers \in [1..k -> GridOutcomes] /\ grid.errors <= k
          /\ grid.errors = k => \A c \in 1..k : grid.answers[c] = "error"
    BY <1>1 DEF GridAsks
  <1>3. GridProbed = k /\ k \in Nat /\ k + 1 \in 0..GridCells /\ k + 1 \in 1..GridCells
    BY <1>1, <1>2, ProbedCounts
  <1>4. PICK how \in GridOutcomes :
          LET probed == [grid EXCEPT !.answers = [i \in 1..k + 1 |-> IF i = k + 1 THEN how ELSE @[i]]]
          IN  grid' = CASE how = "rows" -> [probed EXCEPT !.plans = @ \cup gridSite.at[k + 1]]
                        [] how = "error" -> [probed EXCEPT !.errors = @ + 1]
                        [] how = "odd" -> [probed EXCEPT !.pc = "raised"]
                        [] OTHER -> probed
    BY <1>3, ZenonT(60) DEF GridProbe
  <1> DEFINE answers == [i \in 1..k + 1 |-> IF i = k + 1 THEN how ELSE grid.answers[i]]
             probed == [grid EXCEPT !.answers = answers]
  <1>5. /\ DOMAIN probed = DOMAIN grid /\ probed.answers = answers
        /\ probed.kind = grid.kind /\ probed.detail = grid.detail /\ probed.pc = grid.pc
        /\ probed.plans = grid.plans /\ probed.errors = grid.errors /\ probed.items = grid.items
        /\ probed.files = grid.files
    BY <1>1 DEF GridTypes
  <1>6. /\ answers \in [1..k + 1 -> GridOutcomes] /\ answers[k + 1] = how
        /\ \A c \in 1..k : answers[c] = grid.answers[c] /\ c \in 1..k + 1
        /\ \A c \in 1..k + 1 : c \in 1..k \/ c = k + 1
    BY <1>2, <1>3
  <1> HIDE DEF answers
  <1>7. /\ how = "rows" => grid' = [probed EXCEPT !.plans = @ \cup gridSite.at[k + 1]]
        /\ how = "error" => grid' = [probed EXCEPT !.errors = @ + 1]
        /\ how = "odd" => grid' = [probed EXCEPT !.pc = "raised"]
        /\ how = "refused" => grid' = probed
    BY <1>4 DEF answers
  <1> HIDE DEF probed
  <1>8. /\ DOMAIN grid' = DOMAIN grid /\ grid'.answers = answers
        /\ grid'.kind = grid.kind /\ grid'.detail = grid.detail
        /\ grid'.items = {} /\ grid'.files = <<>>
        /\ grid'.pc = (IF how = "odd" THEN "raised" ELSE "probe")
        /\ grid'.plans = grid.plans \cup (IF how = "rows" THEN gridSite.at[k + 1] ELSE {})
        /\ grid'.errors = grid.errors + (IF how = "error" THEN 1 ELSE 0)
    <2>1. /\ DOMAIN probed = {"kind", "detail", "pc", "plans", "errors", "answers", "items", "files"}
          /\ grid.errors + 0 = grid.errors /\ grid.items = {} /\ grid.files = <<>>
      BY <1>1, <1>5 DEF GridTypes, GridTypeOK, GridAsks
    <2>2. CASE how = "rows"
      BY <1>1, <1>5, <1>7, <2>1, <2>2
    <2>3. CASE how = "error"
      BY <1>1, <1>5, <1>7, <2>1, <2>3
    <2>4. CASE how = "odd"
      BY <1>1, <1>5, <1>7, <2>1, <2>4
    <2>5. CASE how = "refused"
      BY <1>1, <1>5, <1>7, <2>1, <2>5
    <2> QED
      BY <2>2, <2>3, <2>4, <2>5 DEF GridOutcomes
  <1>9. grid'.plans = GridShown'
    <2>1. /\ DOMAIN grid.answers = 1..k /\ DOMAIN answers = 1..k + 1
          /\ grid.plans = UNION {gridSite.at[c] : c \in {c \in 1..k : grid.answers[c] = "rows"}}
      BY <1>1, <1>2, <1>6 DEF GridAsks, GridShown, GridAnswered
    <2>2. GridShown' = UNION {gridSite.at[c] : c \in {c \in 1..k + 1 : answers[c] = "rows"}}
      BY <1>1, <1>8, <2>1 DEF GridShown, GridAnswered
    <2>3. {c \in 1..k + 1 : answers[c] = "rows"} =
            {c \in 1..k : grid.answers[c] = "rows"} \cup (IF how = "rows" THEN {k + 1} ELSE {})
      BY <1>3, <1>6
    <2> QED
      BY <1>8, <2>1, <2>2, <2>3
  <1>10. grid'.plans \subseteq GridPlans /\ grid'.errors \in 0..GridCells /\ grid'.errors <= k + 1
    <2>1. gridSite.at[k + 1] \subseteq GridPlans
      BY <1>1, <1>3, GridAssumption DEF GridTypes
    <2>2. grid.plans \subseteq GridPlans /\ grid.errors \in 0..GridCells
      BY <1>1 DEF GridTypes, GridTypeOK
    <2>3. grid'.plans \subseteq GridPlans
      BY <1>8, <2>1, <2>2
    <2>4. /\ grid.errors \in Int /\ 0 <= grid.errors /\ grid.errors <= k /\ k \in Int
          /\ k + 1 <= GridCells /\ GridCells \in Int
      BY <1>1, <1>2, <1>3, <2>2
    <2>5. grid'.errors = grid.errors \/ grid'.errors = grid.errors + 1
      BY <1>8, <2>4
    <2>6. grid'.errors \in 0..GridCells /\ grid'.errors <= k + 1
      BY <2>4, <2>5
    <2> QED
      BY <2>3, <2>6
  <1>11. GridTypes'
    <2>1. GridTypeOK'
      BY <1>1, <1>3, <1>6, <1>8, <1>10 DEF GridTypes, GridTypeOK
    <2> QED
      BY <1>1, <1>8, <2>1 DEF GridTypes
  <1>12. GridAsks'
    <2>1. grid'.errors = k + 1 => \A c \in 1..k + 1 : answers[c] = "error"
      <3>1. grid'.errors = k + 1 => how = "error" /\ grid.errors = k
        BY <1>1, <1>2, <1>3, <1>8 DEF GridTypes, GridTypeOK
      <3> QED
        BY <1>2, <1>6, <3>1
    <2> QED
      BY <1>3, <1>6, <1>8, <1>9, <1>10, <2>1 DEF GridAsks
  <1>13. GridRaises'
    BY <1>3, <1>6, <1>8 DEF GridRaises
  <1> QED
    BY <1>8, <1>11, <1>12, <1>13 DEF GridInv, GridLists
LEMMA SweptKeeps ==
  ASSUME GridInv, GridSwept
  PROVE  GridInv'
  <1>1. GridTypes /\ GridAsks /\ grid.pc = "probe" /\ GridProbed = GridCells /\ gridSite' = gridSite
        /\ GridCells \in Nat
    BY GridAssumption DEF GridInv, GridSwept
  <1>2. PICK k \in 0..GridCells :
          /\ grid.answers \in [1..k -> GridOutcomes] /\ grid.errors <= k
          /\ grid.errors = k => \A c \in 1..k : grid.answers[c] = "error"
    BY <1>1 DEF GridAsks
  <1>3. GridProbed = k /\ DOMAIN grid.answers = 1..k
    BY <1>1, <1>2, ProbedCounts
  <1> DEFINE pc == IF grid.kind = "ekgis" /\ GridFailed THEN "raised" ELSE "list"
  <1>4. /\ grid' = [grid EXCEPT !.pc = pc]
        /\ pc = "raised" => grid.kind = "ekgis" /\ \A c \in 1..k : grid.answers[c] = "error"
        /\ pc \in {"raised", "list"}
    BY <1>2, <1>3 DEF GridSwept, GridFailed
  <1> HIDE DEF pc
  <1>5. /\ DOMAIN grid' = DOMAIN grid /\ grid'.pc = pc /\ grid'.answers = grid.answers
        /\ grid'.kind = grid.kind /\ grid'.detail = grid.detail /\ grid'.plans = grid.plans
        /\ grid'.errors = grid.errors /\ grid'.items = grid.items /\ grid'.files = grid.files
    BY <1>1, <1>4 DEF GridTypes
  <1>6. GridTypes'
    BY <1>1, <1>4, <1>5 DEF GridTypes, GridTypeOK
  <1>7. GridShown' = GridShown /\ grid.plans = GridShown /\ grid.items = {}
    BY <1>1, <1>5 DEF GridShown, GridAnswered, GridAsks
  <1>8. GridLists'
    BY <1>4, <1>5, <1>7 DEF GridLists, GridListed
  <1>9. GridRaises'
    BY <1>3, <1>4, <1>5 DEF GridRaises
  <1> QED
    BY <1>4, <1>5, <1>6, <1>8, <1>9 DEF GridInv, GridAsks

LEMMA EndKeeps ==
  ASSUME GridInv, GridEnd
  PROVE  GridInv'
  <1>1. GridTypes /\ GridLists /\ grid.pc = "list" /\ grid.plans = {} /\ gridSite' = gridSite
        /\ grid' = [grid EXCEPT !.pc = "done"]
    BY DEF GridInv, GridEnd
  <1>2. /\ DOMAIN grid' = DOMAIN grid /\ grid'.pc = "done" /\ grid'.answers = grid.answers
        /\ grid'.kind = grid.kind /\ grid'.detail = grid.detail /\ grid'.plans = grid.plans
        /\ grid'.errors = grid.errors /\ grid'.items = grid.items /\ grid'.files = grid.files
    BY <1>1 DEF GridTypes
  <1>3. GridTypes'
    BY <1>1, <1>2 DEF GridTypes, GridTypeOK
  <1>4. GridShown' = GridShown /\ GridListed' = GridListed
    BY <1>1, <1>2 DEF GridShown, GridAnswered, GridListed
  <1>a. \A i : GridFiled(i)' <=> GridFiled(i)
    BY <1>2 DEF GridFiled
  <1>5. GridLists'
    BY <1>1, <1>2, <1>4, <1>a DEF GridLists
  <1> QED
    BY <1>2, <1>3, <1>5 DEF GridInv, GridAsks, GridRaises

LEMMA ListKeeps ==
  ASSUME GridInv, NEW p \in GridPlans, GridList(p)
  PROVE  GridInv'
  <1>1. GridTypes /\ GridLists /\ grid.pc = "list" /\ p \in grid.plans /\ gridSite' = gridSite
        /\ GridTypeOK /\ DOMAIN GridName = GridPlans
    BY GridAssumption DEF GridInv, GridList, GridTypes
  <1>2. PICK record \in IF grid.detail THEN {"sweep", "detail"} ELSE {"sweep"} :
          grid' = [grid EXCEPT !.plans = @ \ {p},
                     !.items = @ \cup GridBoundary(p, record)
                                 \cup (IF grid.kind = "sqhkt" THEN {<<p, "pdf", record>>} ELSE {}),
                     !.files = GridWritten(p, GridBoundary(p, record))]
    BY DEF GridList
  <1> DEFINE made == GridBoundary(p, record)
             pdf == IF grid.kind = "sqhkt" THEN {<<p, "pdf", record>>} ELSE {}
             written == GridWritten(p, made)
             boundary == <<p, "boundary", record>>
  <1>3. /\ made = {} \/ made = {boundary}
        /\ made = {} /\ p \in gridSite.drawn => grid.detail /\ gridSite.detail[p] = "null"
        /\ record \in {"sweep", "detail"}
    BY <1>2 DEF GridBoundary
  <1>4. /\ DOMAIN written = DOMAIN grid.files \cup (IF made = {} THEN {} ELSE {GridName[p]})
        /\ made # {} => written[GridName[p]] = boundary
        /\ \A name \in DOMAIN grid.files :
             made = {} \/ name # GridName[p] => written[name] = grid.files[name]
    <2>1. CASE made = {}
      <3> HIDE DEF made
      <3> QED
        BY <2>1 DEF GridWritten
    <2>2. CASE made = {boundary}
      <3> HIDE DEF made, boundary
      <3>1. (CHOOSE i \in made : TRUE) = boundary
        BY <2>2
      <3>2. {GridName[p] : i \in made} = {GridName[p]}
        BY <2>2
      <3> QED
        BY <2>2, <3>1, <3>2 DEF GridWritten
    <2> QED
      BY <1>3, <2>1, <2>2
  <1>a. \A i \in made : i = boundary
    BY <1>3
  <1> HIDE DEF made, written, pdf
  <1>5. /\ DOMAIN grid' = DOMAIN grid /\ grid'.pc = "list" /\ grid'.answers = grid.answers
        /\ grid'.kind = grid.kind /\ grid'.detail = grid.detail /\ grid'.plans = grid.plans \ {p}
        /\ grid'.errors = grid.errors /\ grid'.items = grid.items \cup made \cup pdf
        /\ grid'.files = written
    BY <1>1, <1>2 DEF GridTypes, made, written, pdf
  <1>7. /\ boundary[1] = p /\ boundary[2] = "boundary"
        /\ \A i \in pdf : i = <<p, "pdf", record>> /\ i[1] = p /\ i[2] = "pdf"
        /\ grid.kind = "sqhkt" => <<p, "pdf", record>> \in pdf
        /\ grid.kind # "sqhkt" => pdf = {}
    BY DEF pdf
  <1>8. GridTypes'
    <2>1. grid'.items \subseteq GridPlans \X {"boundary", "pdf"} \X {"sweep", "detail"}
      <3>1. made \subseteq GridPlans \X {"boundary", "pdf"} \X {"sweep", "detail"}
        BY <1>3
      <3>2. pdf \subseteq GridPlans \X {"boundary", "pdf"} \X {"sweep", "detail"}
        BY <1>3, <1>7
      <3> QED
        BY <1>1, <1>5, <3>1, <3>2 DEF GridTypeOK
    <2>2. DOMAIN grid'.files \subseteq {GridName[q] : q \in GridPlans}
      BY <1>1, <1>4, <1>5 DEF GridTypeOK
    <2>3. \A name \in DOMAIN grid'.files : grid'.files[name] \in grid'.items
      BY <1>1, <1>3, <1>4, <1>5 DEF GridTypeOK
    <2>4. GridTypeOK'
      BY <1>1, <1>5, <2>1, <2>2, <2>3 DEF GridTypeOK
    <2> QED
      BY <1>1, <1>5, <2>4 DEF GridTypes
  <1>9. GridShown' = GridShown
    BY <1>1, <1>5 DEF GridShown, GridAnswered
  <1>10. /\ GridListed' \subseteq GridListed \cup {p} /\ GridListed \subseteq GridListed'
         /\ made # {} \/ grid.kind = "sqhkt" => p \in GridListed'
    <2>1. \A i \in grid'.items : i \in grid.items \/ i[1] = p
      BY <1>5, <1>7, <1>a
    <2>2. made # {} \/ grid.kind = "sqhkt" => \E i \in grid'.items : i[1] = p
      BY <1>3, <1>5, <1>7
    <2> QED
      BY <1>5, <2>1, <2>2 DEF GridListed
  <1>11. \A i \in grid.items : i[1] # p
    BY <1>1 DEF GridLists, GridListed
  <1>12. GridLists'
    <2>1. /\ grid'.plans \subseteq GridShown
          /\ GridListed' \subseteq GridShown \ grid'.plans
          /\ grid'.kind = "sqhkt" => GridListed' = GridShown \ grid'.plans
      BY <1>1, <1>5, <1>10 DEF GridLists
    <2>2. \A q \in (GridShown \cap gridSite.drawn) \ grid'.plans :
            q \in GridListed' \/ (grid.detail /\ gridSite.detail[q] = "null")
      BY <1>1, <1>3, <1>5, <1>10 DEF GridLists
    <2>3. ASSUME NEW i \in grid'.items, NEW j \in grid'.items, i[1] = j[1], i[2] = j[2]
          PROVE  i = j
      <3>1. CASE i \in grid.items /\ j \in grid.items
        BY <1>1, <2>3, <3>1 DEF GridLists
      <3>2. CASE i[1] = p
        <4>1. i \in made \cup pdf /\ j \in made \cup pdf
          BY <1>5, <1>11, <2>3, <3>2
        <4> QED
          BY <1>7, <1>a, <2>3, <4>1
      <3> QED
        BY <1>5, <1>7, <1>a, <2>3, <3>1, <3>2
    <2>4. ASSUME NEW i \in grid'.items, i[2] = "boundary"
          PROVE  GridFiled(i)'
      <3>1. CASE i \in made
        <4>1. GridName[p] \in DOMAIN written /\ written[GridName[p]] = boundary /\ i = boundary
          BY <1>4, <1>a, <3>1
        <4> QED
          BY <1>5, <1>7, <3>1, <4>1 DEF GridFiled
      <3>2. CASE i \in grid.items
        <4>1. GridFiled(i)
          BY <1>1, <2>4, <3>2 DEF GridLists
        <4> DEFINE name == GridName[i[1]]
        <4>2. name \in DOMAIN grid'.files
          BY <1>4, <1>5, <4>1 DEF GridFiled
        <4>3. CASE made = {} \/ name # GridName[p]
          <5>1. grid'.files[name] = grid.files[name]
            BY <1>4, <1>5, <4>1, <4>3 DEF GridFiled
          <5> QED
            BY <1>5, <4>1, <4>2, <5>1 DEF GridFiled
        <4>4. CASE made # {} /\ name = GridName[p]
          <5>1. grid'.files[name] = boundary /\ boundary \in grid'.items
            BY <1>3, <1>4, <1>5, <4>4
          <5> QED
            BY <1>7, <4>2, <4>4, <5>1 DEF GridFiled
        <4> QED
          BY <4>3, <4>4
      <3> QED
        BY <1>5, <1>7, <2>4, <3>1, <3>2
    <2> QED
      BY <1>1, <1>5, <1>9, <2>1, <2>2, <2>3, <2>4 DEF GridLists
  <1> QED
    BY <1>5, <1>8, <1>12 DEF GridInv, GridAsks, GridRaises

LEMMA GridInvNext == GridInv /\ [GridNext]_gridVars => GridInv'
  <1> SUFFICES ASSUME GridInv, [GridNext]_gridVars PROVE GridInv'
    OBVIOUS
  <1>1. CASE UNCHANGED gridVars
    <2>1. UNCHANGED grid /\ UNCHANGED gridSite
      BY <1>1 DEF gridVars
    <2>2. GridTypes'
      BY <2>1 DEF GridInv, GridTypes, GridTypeOK
    <2>3. GridShown' = GridShown /\ GridListed' = GridListed
      BY <2>1 DEF GridShown, GridAnswered, GridListed
    <2>4. GridAsks' /\ GridLists' /\ GridRaises'
      BY <2>1, <2>3 DEF GridInv, GridAsks, GridLists, GridRaises, GridFiled
    <2> QED
      BY <2>2, <2>4 DEF GridInv
  <1> QED
    BY <1>1, ProbeKeeps, SweptKeeps, EndKeeps, ListKeeps DEF GridNext

(* What points, plans, files and items of a sweep are.                      *)
THEOREM GridTyped == GridSpec => []GridTypeOK
  BY GridInvInit, GridInvNext, PTL DEF GridSpec, GridInv, GridTypes

(* A sweep that ends lists the plans at the points that answered, each     *)
(* once; what is fetched for an item is of a plan whose id makes the same  *)
(* file name, its own unless two ids do; and a sweep raises only for rows  *)
(* that are no objects or when no lookup was answered                      *)
(* (sqhkt_grid.py:132-145, ekgis_grid.py:190-221, 254-295).                *)
THEOREM SweepsHonest == GridSpec => []GridHonest
  <1>1. GridInv => GridHonest
    <2> SUFFICES ASSUME GridInv PROVE GridHonest
      OBVIOUS
    <2>1. ASSUME grid.pc = "done"
          PROVE  /\ GridListed \subseteq GridShown
                 /\ grid.kind = "sqhkt" => GridListed = GridShown
                 /\ \A p \in GridShown \cap gridSite.drawn :
                      p \in GridListed \/ (grid.detail /\ gridSite.detail[p] = "null")
                 /\ \A i, j \in grid.items : i[1] = j[1] /\ i[2] = j[2] => i = j
      BY <2>1 DEF GridInv, GridLists
    <2>2. ASSUME grid.pc = "done", NEW i \in grid.items
          PROVE  /\ GridFetched(i) \in grid.items /\ GridFetched(i)[2] = i[2]
                 /\ GridName[GridFetched(i)[1]] = GridName[i[1]]
      <3>1. i[2] = "boundary" => GridFiled(i)
        BY <2>2 DEF GridInv, GridLists
      <3> QED
        BY <3>1 DEF GridFetched, GridCopied, GridFiled
    <2> QED
      BY <2>1, <2>2 DEF GridHonest, GridInv, GridRaises, GridListed
  <1> QED
    BY <1>1, GridInvInit, GridInvNext, PTL DEF GridSpec

-----------------------------------------------------------------------------
(* The components side by side.                                             *)

(* Where a part begins, whether it runs or not, is a state it may begin in. *)
LEMMA PartsInit ==
  ASSUME Init
  PROVE  /\ RobotsInit /\ FetchInit /\ ListingInit /\ GridInit /\ PagingInit
         /\ TileInit /\ LayerInit /\ RegistryInit
  BY DEF Init, RobotsOff, ListingOff, GridOff, PagingOff, LayerOff, RegistryOff

(* A step is one of the part that runs and leaves the others alone.         *)
LEMMA PartsNext ==
  ASSUME [Next]_vars
  PROVE  /\ [RobotsNext]_robotsVars /\ [FetchNext]_fetchVars
         /\ [ListingNext]_listingVars /\ [GridNext]_gridVars
         /\ [PagingNext]_pagingVars /\ [TileNext]_tileVars
         /\ [LayerNext]_layerVars /\ [RegistryNext]_registryVars
  <1>1. CASE UNCHANGED vars
    BY <1>1 DEF vars
  <1>2. CASE Next
    BY <1>2 DEF Next, NotRobots, NotFetch, NotListing, NotGrid, NotPaging,
                NotTiles, NotLayers, NotRegistry
  <1> QED
    BY <1>1, <1>2

(* Side by side the components behave as each does alone, so that what is  *)
(* proved of one holds of all of them together.                            *)
THEOREM PartsStand ==
  Spec => /\ RobotsSpec /\ FetchSpec /\ ListingSpec /\ GridSpec
          /\ PagingSpec /\ TileSpec /\ LayerSpec /\ RegistrySpec
  <1>1. Init => /\ RobotsInit /\ FetchInit /\ ListingInit /\ GridInit
                /\ PagingInit /\ TileInit /\ LayerInit /\ RegistryInit
    BY PartsInit
  <1>2. [Next]_vars => /\ [RobotsNext]_robotsVars /\ [FetchNext]_fetchVars
                       /\ [ListingNext]_listingVars /\ [GridNext]_gridVars
                       /\ [PagingNext]_pagingVars /\ [TileNext]_tileVars
                       /\ [LayerNext]_layerVars /\ [RegistryNext]_registryVars
    BY PartsNext
  <1> QED
    BY <1>1, <1>2, PTL DEF Spec, RobotsSpec, FetchSpec, ListingSpec, GridSpec,
                           PagingSpec, TileSpec, LayerSpec, RegistrySpec

(* What is asked before an item is fetched: a crawl is told what robots.txt *)
(* said within the last RobotsTTL, and the first request of each attempt    *)
(* waits out the delay; the redirects it follows are not part of this       *)
(* (robots.py:49-53, http_client.py:57-65, 111-115).                        *)
THEOREM AttemptsArePolite == Spec => AttemptsPolite
  BY PartsStand, RobotsAreHonoured, FetchesPolitely, PTL DEF AttemptsPolite

(* What a discovery that did not raise has listed is what the source shows: *)
(* for a walk but for declared caps and the failed requests its connector   *)
(* passes over, for a sweep at the points that answered (ListingHonest,     *)
(* GridHonest; crawl.py:263-265 takes it for the whole).                    *)
THEOREM DiscoveriesAreHonest == Spec => []DiscoveriesHonest
  BY PartsStand, WalksHonest, SweepsHonest, PTL DEF DiscoveriesHonest

(* The cache and a load of robots.txt stay in their types.                  *)
LEMMA RobotsTyped == RobotsSpec => []RobotsTypeOK
  <1>1. RobotsInv /\ [RobotsNext]_robotsVars => RobotsInv'
    BY RobotsNextInv
  <1>2. RobotsInv => RobotsTypeOK
    BY DEF RobotsInv
  <1> QED
    BY <1>1, <1>2, RobotsInitInv, PTL DEF RobotsSpec

(* Whichever component runs, the states of all of them stay in their types. *)
THEOREM ComponentsTyped == Spec => []ComponentsTypeOK
  <1>1. Init => part \in AllParts
    BY PartsAssumption DEF Init
  <1>2. part \in AllParts /\ [Next]_vars => (part \in AllParts)'
    BY DEF Next, vars, NotRobots, NotFetch, NotListing, NotGrid, NotPaging, NotTiles, NotLayers,
           NotRegistry
  <1>3. Spec => [](part \in AllParts)
    BY <1>1, <1>2, PTL DEF Spec
  <1> QED
    BY <1>3, PartsStand, RobotsTyped, FetchTypeCorrect, ListingTyped, GridTyped, PagingTyped,
       TilesTyped, LayersTyped, RegistryTyped, PTL DEF ComponentsTypeOK

(* Every map of an archive whose root holds all entries is shown as it was  *)
(* made: get_tile (pmtiles.py:418-423) gives each tile its own payload and  *)
(* nothing anywhere else, whatever else runs.                              *)
THEOREM TilesAreFound == Spec => [](TileRootHolds => TilesFound)
  BY PartsStand, TilesFoundByRoot, PTL
=============================================================================
