----------------------------- MODULE MCSourceCrawl -----------------------------
(* Small instances of SourceCrawl for TLC.                                 *)
EXTENDS SourceCrawl, TLC

CONSTANTS b1, b2, e1, e2

(* A page, and what it may become: another URL, metadata and bytes.        *)
Pages == {[url |-> "u1", meta |-> "m1", body |-> b1],
          [url |-> "u2", meta |-> "m2", body |-> b2]}

(* The same page described anew with other bytes, and the first bytes under *)
(* another URL.                                                            *)
MorePages == {[url |-> "u1", meta |-> "m1", body |-> b1],
              [url |-> "u1", meta |-> "m2", body |-> b2],
              [url |-> "u2", meta |-> "m1", body |-> b1]}

(* The server sends a validator of its own with every body.                *)
Etags == b1 :> e1 @@ b2 :> e2

(* The second body comes without a validator.                              *)
SomeEtags == b1 :> e1 @@ b2 :> Nothing

Keys == Permutations(Key)
=============================================================================
