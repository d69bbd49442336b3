--------------------------- MODULE SkippedKeyStore ---------------------------
(***************************************************************************)
(* One MKSKIPPED storage under every sequence of calls its exported        *)
(* methods allow.  Each method holds the storage's mutex from its first to *)
(* its last statement, so a call is one step.  Len and Clone read only.    *)
(***************************************************************************)
EXTENDS SkippedKeys

CONSTANTS RatchetPK, MessageNumber, MessageKey, MaxSkip

VARIABLE storage

Init == storage = NewStorage

StoreKey(pk, n, mk) == storage' = Store(storage, MaxSkip, StorageKey(pk, n), mk)

(* Get of a name that is not stored returns "not found" and changes        *)
(* nothing.                                                                *)
GetKey(pk, n) ==
  /\ HasKey(storage, StorageKey(pk, n))
  /\ storage' = Consume(storage, StorageKey(pk, n))

(* TryAllHeaderKeys: the first entry, in Go's random map order, whose      *)
(* header key opens the header and whose number is the one inside.  A      *)
(* header opens under one header key, so at most one entry qualifies; a    *)
(* header that none opens changes nothing.                                 *)
TryAllHeaderKeys(hk, n) ==
  \E id \in DOMAIN storage.entries :
    /\ id = StorageKey(hk, n)
    /\ storage' = Consume(storage, id)

Clear == storage' = NewStorage

Next ==
  \/ \E pk \in RatchetPK, n \in MessageNumber, mk \in MessageKey : StoreKey(pk, n, mk)
  \/ \E pk \in RatchetPK, n \in MessageNumber : GetKey(pk, n) \/ TryAllHeaderKeys(pk, n)
  \/ Clear

Spec == Init /\ [][Next]_storage

-----------------------------------------------------------------------------
Ids == RatchetPK \X MessageNumber

(* What it holds, oldest first.                                            *)
Kept == [i \in 1 .. Len(storage.order) |->
           <<storage.order[i], storage.entries[storage.order[i]]>>]

(* The storage is a bounded first-in first-out map: its map and its        *)
(* eviction order agree however Store and Get interleave, so a full store  *)
(* drops its oldest key, never none and never one out of turn.             *)
Fifo == INSTANCE BoundedFifoMap WITH
  Id <- Ids, Key <- MessageKey, Capacity <- MaxSkip, kept <- Kept
ImplementsFifoMap == Fifo!Spec
=============================================================================
