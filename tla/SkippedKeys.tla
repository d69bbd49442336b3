----------------------------- MODULE SkippedKeys -----------------------------
(***************************************************************************)
(* internal/state/skipped.go: MKSKIPPED, the bounded store of the keys of  *)
(* messages that were skipped over.  `entries` maps a storage key (ratchet *)
(* public key, or header key in header-encryption mode, with a message     *)
(* number) to a message key; `order` lists the storage keys from oldest to *)
(* newest and decides which entry a full store evicts.                     *)
(*                                                                         *)
(* A storage is a value here; the sessions keep it in a field.             *)
(***************************************************************************)
EXTENDS Integers, FiniteSets, SequencesExt

NewStorage == [entries |-> << >>, order |-> << >>]

StorageKey(pk, n) == <<pk, n>>

HasKey(st, id) == id \in DOMAIN st.entries
Lookup(st, id) == st.entries[id]

(* `delete(s.entries, id)` on a map.                                       *)
Without(f, id) == [x \in DOMAIN f \ {id} |-> f[x]]

(* Mutant: the newest entry goes.                                          *)
EvictNewest(st) ==
  [entries |-> Without(st.entries, Last(st.order)), order |-> Front(st.order)]

EvictOldest(st) ==
  [entries |-> Without(st.entries, Head(st.order)), order |-> Tail(st.order)]

(* A store at capacity, counted on the map, first drops its oldest entry.  *)
MakeRoom(st, maxSkip) ==
  IF Cardinality(DOMAIN st.entries) >= maxSkip THEN EvictOldest(st) ELSE st

Insert(st, id, mk) ==
  [entries |-> [x \in DOMAIN st.entries \cup {id} |->
                  IF x = id THEN mk ELSE st.entries[x]],
   order   |-> Append(st.order, id)]

(* A storage key that is already present keeps its message key and its     *)
(* age; a store of capacity 0 keeps nothing.                               *)
Store(st, maxSkip, id, mk) ==
  IF maxSkip = 0 \/ HasKey(st, id) THEN st
  ELSE Insert(MakeRoom(st, maxSkip), id, mk)

(* Mutant: the entry is left behind.                                       *)
ConsumeKeepsEntry(st, id) == st

(* The effect of a successful Get: the entry is gone from both structures. *)
Consume(st, id) ==
  [entries |-> Without(st.entries, id), order |-> RemoveFirst(st.order, id)]
=============================================================================
