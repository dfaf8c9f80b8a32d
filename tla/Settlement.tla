----------------------------- MODULE Settlement -----------------------------
(***************************************************************************)
(* What the network of Cascade promises its users: the nodes settle on at   *)
(* most one transaction per sender and nonce, and every node executes the    *)
(* transactions settled on, each once, in the order of the sender's nonces.  *)
(***************************************************************************)
EXTENDS Transfers

CONSTANT Replicas   \* the nodes that execute

VARIABLES
    chosen,   \* transactions the network has settled on
    done      \* done[n]: transactions n has executed

Init ==
    /\ chosen = {}
    /\ done = [n \in Replicas |-> {}]

Choose(t) ==
    /\ \A u \in chosen : ~Conflict(t, u)
    /\ chosen' = chosen \cup {t}
    /\ UNCHANGED done

(* No nonce of a sender is skipped.                                          *)
Gapless(D) ==
    \A t \in D : \A k \in 0 .. t.nonce - 1 : \E u \in D : Slot(u) = <<t.from, k>>

Execute(n, S) ==
    /\ S \subseteq chosen \ done[n]
    /\ Gapless(done[n] \cup S)
    /\ done' = [done EXCEPT ![n] = @ \cup S]
    /\ UNCHANGED chosen

Next ==
    \/ \E t \in Txs : Choose(t)
    \/ \E n \in Replicas : \E S \in SUBSET chosen : Execute(n, S)

Spec == Init /\ [][Next]_<<chosen, done>>
=============================================================================
