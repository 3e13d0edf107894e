--------------------------- MODULE MCCrawlScheduler ---------------------------
(* Small instances of CrawlScheduler for TLC.                              *)
EXTENDS CrawlScheduler, TLC

CONSTANTS s1, s2, s3, h1

(* Three sources on one host, with different caps.                         *)
SharedHost == s1 :> h1 @@ s2 :> h1 @@ s3 :> h1
SharedCap == s1 :> 1 @@ s2 :> 2 @@ s3 :> 1
SharedPriority == s1 :> 1 @@ s2 :> 2 @@ s3 :> 3

(* Two sources on one host that allows one at a time.                      *)
TightHost == s1 :> h1 @@ s2 :> h1
TightCap == s1 :> 1 @@ s2 :> 1
PairPriority == s1 :> 1 @@ s2 :> 2

(* Two sources on one host, the default cap of two.                        *)
DefaultCap == s1 :> 2 @@ s2 :> 2

(* One source alone.                                                       *)
LoneHost == s1 :> h1
LoneCap == s1 :> 1

Workers == Permutations(Worker)
=============================================================================
