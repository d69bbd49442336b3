-------------------------- MODULE ReceiverChainRing --------------------------
(***************************************************************************)
(* One receiver-chain buffer under the calls a session makes of it.        *)
(***************************************************************************)
EXTENDS ReceiverChains, Sequences

CONSTANTS PK, CK, Nr

VARIABLE ring

Init == ring = NewReceiverChains

(* A session pushes a chain only for a ratchet key the buffer does not     *)
(* hold: the test of a new epoch in Decrypt is ~Has(pk).                   *)
PushChain(pk, ck) ==
  /\ ~HasChain(ring, pk)
  /\ ring' = Push(ring, pk, ck)

AdvanceChain(pk, ck, nr) ==
  /\ HasChain(ring, pk)
  /\ ring' = PutChain(ring, pk, ck, nr)

Clear == ring' = NewReceiverChains

Next ==
  \/ \E pk \in PK, ck \in CK : PushChain(pk, ck)
  \/ \E pk \in PK, ck \in CK, nr \in Nr : AdvanceChain(pk, ck, nr)
  \/ Clear

Spec == Init /\ [][Next]_ring

-----------------------------------------------------------------------------
(* The buffer keeps the latest ReceiverChainsMax chains in order, one for  *)
(* each ratchet key, wherever its window has wrapped to.                   *)
Latest == INSTANCE LatestChains WITH
  Capacity <- ReceiverChainsMax, chains <- ChainsOf(ring)
ImplementsLatestChains == Latest!Spec
=============================================================================
