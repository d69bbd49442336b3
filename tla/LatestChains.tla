---------------------------- MODULE LatestChains ----------------------------
(***************************************************************************)
(* What the receiver-chain buffer promises: the chains of the last         *)
(* Capacity remote ratchet keys, oldest first.                             *)
(***************************************************************************)
EXTENDS Naturals, Sequences

CONSTANTS PK, CK, Nr, Capacity

VARIABLE chains    \* a sequence of [pk, ck, nr]

Init == chains = << >>

Add(pk, ck) ==
  /\ \A i \in DOMAIN chains : chains[i].pk # pk
  /\ chains' = Append(IF Len(chains) = Capacity THEN Tail(chains) ELSE chains,
                      [pk |-> pk, ck |-> ck, nr |-> 0])

(* A receiver moves one chain on; the others and the order stay.           *)
Advance(i, ck, nr) ==
  /\ i \in DOMAIN chains
  /\ chains' = [chains EXCEPT ![i] = [pk |-> chains[i].pk, ck |-> ck, nr |-> nr]]

Clear == chains' = << >>

Next == \/ \E pk \in PK, ck \in CK : Add(pk, ck)
        \/ \E i \in 1 .. Capacity, ck \in CK, nr \in Nr : Advance(i, ck, nr)
        \/ Clear

Spec == Init /\ [][Next]_chains
=============================================================================
