--------------------------- MODULE GenerationLife ---------------------------
(***************************************************************************)
(* What the store of text vectors promises about one generation            *)
(* (docs/architecture.md, "Failure isolation"): vectors are written while  *)
(* the generation is reserved and at no other time; a published generation *)
(* is whole and is never touched again; a dropped one may lose vectors     *)
(* until it is erased, then holds none for ever, or is given up as it is.  *)
(***************************************************************************)
CONSTANTS Generations, Parts

VARIABLES
    life,     \* free, reserved, published, dropped, erased or abandoned
    content   \* content[g]: the parts of g that storage holds

vars == <<life, content>>

Init ==
    /\ life = [g \in Generations |-> "free"]
    /\ content = [g \in Generations |-> {}]

Becomes(g, from, to) ==
    life[g] = from /\ life' = [life EXCEPT ![g] = to] /\ UNCHANGED content

Reserve(g) == Becomes(g, "free", "reserved")

Publish(g) == content[g] = Parts /\ Becomes(g, "reserved", "published")

\* Recovery may drop several generations in one transaction.
Drop(G) ==
    /\ \A g \in G : life[g] = "reserved"
    /\ life' = [g \in Generations |-> IF g \in G THEN "dropped" ELSE life[g]]
    /\ UNCHANGED content

Write(g) ==
    /\ life[g] = "reserved"
    /\ \E more \in SUBSET Parts : content' = [content EXCEPT ![g] = @ \cup more]
    /\ UNCHANGED life

Delete(g) ==
    /\ life[g] = "dropped"
    /\ \E rest \in SUBSET content[g] : content' = [content EXCEPT ![g] = rest]
    /\ UNCHANGED life

Erased(g) == content[g] = {} /\ Becomes(g, "dropped", "erased")

GiveUp(g) == Becomes(g, "dropped", "abandoned")

Next ==
    \/ \E g \in Generations :
          Reserve(g) \/ Publish(g) \/ Write(g) \/ Delete(g) \/ Erased(g) \/ GiveUp(g)
    \/ \E G \in SUBSET Generations : Drop(G)

Spec == Init /\ [][Next]_vars
=============================================================================
