--------------------------- MODULE ResourceInventory ---------------------------
(***************************************************************************)
(* What a crawler promises of the inventory of one source, without saying  *)
(* how it observes: the entry of a resource is never erased, a resource    *)
(* disappears only in an observation of the whole source that did not list *)
(* it, and what a resource is said to contain is kept as evidence for ever.*)
(***************************************************************************)
CONSTANTS Key, Body, NoBody

VARIABLES
    status,   \* [Key -> {"none", "active", "disappeared"}]
    content,  \* [Key -> Body, or NoBody before the first download]
    evidence  \* the bodies of which an artifact is stored

vars == <<status, content, evidence>>

Init ==
    /\ status = [k \in Key |-> "none"]
    /\ content = [k \in Key |-> NoBody]
    /\ evidence = {}

(* One observation: `listed' are the resources it found, `whole' says that *)
(* there are no others, `got' is what was downloaded of those it found.    *)
Observe(listed, whole, got) ==
    /\ status' = [k \in Key |-> IF k \in listed THEN "active"
                                ELSE IF whole /\ status[k] = "active" THEN "disappeared"
                                ELSE status[k]]
    /\ content' = [k \in Key |-> IF k \in listed /\ got[k] # NoBody THEN got[k] ELSE content[k]]
    /\ evidence \subseteq evidence' /\ evidence' \subseteq Body
    /\ \A k \in listed : got[k] # NoBody => got[k] \in evidence'

Next == \E listed \in SUBSET Key, whole \in BOOLEAN, got \in [Key -> Body \cup {NoBody}] :
          Observe(listed, whole, got)

Spec == Init /\ [][Next]_vars
=============================================================================
