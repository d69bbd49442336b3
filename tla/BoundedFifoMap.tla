---------------------------- MODULE BoundedFifoMap ----------------------------
(***************************************************************************)
(* What MKSKIPPED promises its callers, with one list in place of a map    *)
(* and an order that must agree: the keys put in and not yet taken out,    *)
(* oldest first, of which the newest Capacity are kept.                    *)
(***************************************************************************)
EXTENDS Naturals, Sequences

CONSTANTS Id, Key, Capacity

VARIABLE kept    \* a sequence of <<id, key>>

Ids == {kept[i][1] : i \in DOMAIN kept}

Init == kept = << >>

(* An id that is present keeps its key and its place.                      *)
Put(id, key) ==
  /\ id \notin Ids
  /\ kept' = Append(IF Len(kept) = Capacity THEN Tail(kept) ELSE kept, <<id, key>>)

Take(i) ==
  /\ i \in DOMAIN kept
  /\ kept' = [j \in 1 .. Len(kept) - 1 |-> IF j < i THEN kept[j] ELSE kept[j + 1]]

Clear == kept' = << >>

Next == \/ \E id \in Id, key \in Key : Put(id, key)
        \/ \E i \in 1 .. Capacity : Take(i)
        \/ Clear

Spec == Init /\ [][Next]_kept
=============================================================================
