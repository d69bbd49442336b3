--------------------------- MODULE ReceiverChains ---------------------------
(***************************************************************************)
(* internal/state/receiver_chains.go: the receiving chains of the last     *)
(* remote ratchet keys, in an array used as a circular buffer.  `head` is  *)
(* the slot of the oldest chain and `count` the number of valid slots.     *)
(*                                                                         *)
(* The code fixes ReceiverChainsMax = 5; it is a parameter here, so that   *)
(* small instances fill the buffer.                                        *)
(***************************************************************************)
EXTENDS SymbolicCrypto

CONSTANT ReceiverChainsMax

ASSUME CapacityAssumption == ReceiverChainsMax \in Nat \ {0}

Slots == 0 .. ReceiverChainsMax - 1

EmptySlot == [pk |-> ZeroKey, ck |-> NoKey, nr |-> 0]
NewChain(pk, ck) == [pk |-> pk, ck |-> ck, nr |-> 0]

NewReceiverChains == [slots |-> [i \in Slots |-> EmptySlot], head |-> 0, count |-> 0]

(* The slot of the i-th oldest valid chain, i counted from 0.              *)
SlotAt(r, i) == (r.head + i) % ReceiverChainsMax

(* Mutant: the oldest slot is emptied and stays the oldest.                *)
EvictHeadStays(r) ==
  [r EXCEPT !.slots[r.head] = EmptySlot, !.count = @ - 1]

EvictHead(r) ==
  [slots |-> [r.slots EXCEPT ![r.head] = EmptySlot],
   head  |-> (r.head + 1) % ReceiverChainsMax,
   count |-> r.count - 1]

Push(r, pk, ck) ==
  LET room == IF r.count = ReceiverChainsMax THEN EvictHead(r) ELSE r
  IN  [room EXCEPT !.slots[SlotAt(room, room.count)] = NewChain(pk, ck),
                   !.count = @ + 1]

(* Get scans from the oldest chain on and returns the first match.         *)
Holds(r, i, pk) == r.slots[SlotAt(r, i)].pk = pk
HasChain(r, pk) == \E i \in 0 .. r.count - 1 : Holds(r, i, pk)
PositionOf(r, pk) ==
  CHOOSE i \in 0 .. r.count - 1 :
    Holds(r, i, pk) /\ \A j \in 0 .. i - 1 : ~Holds(r, j, pk)
GetChain(r, pk) == r.slots[SlotAt(r, PositionOf(r, pk))]

(* Callers change CK and Nr through the pointer Get returns.               *)
PutChain(r, pk, ck, nr) ==
  [r EXCEPT !.slots[SlotAt(r, PositionOf(r, pk))] = [pk |-> pk, ck |-> ck, nr |-> nr]]

(* The valid chains, oldest first.                                         *)
ChainsOf(r) == [i \in 1 .. r.count |-> r.slots[SlotAt(r, i - 1)]]
=============================================================================
