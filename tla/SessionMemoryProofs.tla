------------------------ MODULE SessionMemoryProofs --------------------------
(***************************************************************************)
(* Theorems about a session as it lies in memory, for every value of the   *)
(* constants: what it computes is what a session that is a value computes, *)
(* and what Close leaves of it is zero.                                    *)
(*                                                                         *)
(* An operation of the session replaces slices, zeroes them in place and   *)
(* changes the objects behind its pointers. For each there is a lemma that *)
(* says what it makes of a heap in which nothing is referred to twice:     *)
(* what the session is as a value afterwards, that nothing is referred to  *)
(* twice then either, and that neither the snapshot nor a slice of it has  *)
(* been touched. From these follow the inductive invariant, MemInv, and    *)
(* the two theorems at the end.                                            *)
(***************************************************************************)
EXTENDS SessionMemory, SessionLemmas, SequenceTheorems

-----------------------------------------------------------------------------
(* What a heap must be: finitely many cells and objects, with numbers for  *)
(* names, and a key in each cell.                                          *)
KeyShape(key) == key = [root |-> key.root, step |-> key.step] /\ key.step \in Int
RefsOK(f) == IsFiniteSet(DOMAIN f) /\ DOMAIN f \subseteq Int
HeapOK(m) ==
  /\ m = [s |-> m.s, prev |-> m.prev, keys |-> m.keys, rings |-> m.rings, stores |-> m.stores]
  /\ RefsOK(m.keys) /\ RefsOK(m.rings) /\ RefsOK(m.stores)
  /\ \A c \in DOMAIN m.keys : KeyShape(m.keys[c])

(* A ring or a store whose slices are among the given cells.               *)
RingIn(r, cells) ==
  /\ RingOK(r) /\ r = [slots |-> r.slots, head |-> r.head, count |-> r.count]
  /\ r.slots = [j \in Slots |-> r.slots[j]]
  /\ \A j \in Slots :
       /\ r.slots[j] = [pk |-> r.slots[j].pk, ck |-> r.slots[j].ck, nr |-> r.slots[j].nr]
       /\ r.slots[j].nr \in Int
       /\ r.slots[j].ck \in cells \cup {NoKey}
  /\ \A chain \in Held(r) : chain.ck \in cells
StoreIn(st, cells) ==
  /\ st = [entries |-> st.entries, order |-> st.order]
  /\ st.entries = [id \in DOMAIN st.entries |-> st.entries[id]]
  /\ \A id \in DOMAIN st.entries : st.entries[id] \in cells

(* What o, the session or the snapshot, refers to is there;                *)
RefsIn(m, o) ==
  /\ o = [f \in SessionFields |-> o[f]]
  /\ o.rk \in DOMAIN m.keys /\ o.cks \in DOMAIN m.keys \cup {NoKey}
  /\ o.recvChains \in DOMAIN m.rings /\ o.mkSkipped \in DOMAIN m.stores
  /\ RingIn(m.rings[o.recvChains], DOMAIN m.keys)
  /\ StoreIn(m.stores[o.mkSkipped], DOMAIN m.keys)

(* and it refers to no slice twice.                                        *)
RingApart(r) ==
  \A j, k \in Slots : r.slots[j].ck = r.slots[k].ck => j = k \/ r.slots[j].ck = NoKey
StoreApart(st) ==
  \A x, y \in DOMAIN st.entries : st.entries[x] = st.entries[y] => x = y
Apart(m, o) ==
  /\ o.rk # o.cks
  /\ o.rk \notin RingCells(m.rings[o.recvChains]) /\ o.cks \notin RingCells(m.rings[o.recvChains])
  /\ o.rk \notin StoreCells(m.stores[o.mkSkipped])
  /\ o.cks \notin StoreCells(m.stores[o.mkSkipped])
  /\ RingCells(m.rings[o.recvChains]) \cap StoreCells(m.stores[o.mkSkipped]) = {}
  /\ RingApart(m.rings[o.recvChains]) /\ StoreApart(m.stores[o.mkSkipped])

(* So the session can be used, and zeroed, slice by slice.                 *)
OwnerOK(m, o) == RefsIn(m, o) /\ Apart(m, o)
Good(m) == HeapOK(m) /\ OwnerOK(m, m.s)

(* A call has gone from heap m to heap q, and has touched nothing but the  *)
(* session: not the snapshot, nor a slice or an object it refers to.       *)
Frame(m, q) ==
  /\ DOMAIN m.keys \subseteq DOMAIN q.keys
  /\ \A c \in DOMAIN m.keys \ CellsOf(m, m.s) : q.keys[c] = m.keys[c]
  /\ CellsOf(q, q.s) \subseteq CellsOf(m, m.s) \cup (DOMAIN q.keys \ DOMAIN m.keys)
  /\ q.prev = m.prev /\ q.s.recvChains = m.s.recvChains /\ q.s.mkSkipped = m.s.mkSkipped
  /\ DOMAIN q.rings = DOMAIN m.rings /\ DOMAIN q.stores = DOMAIN m.stores
  /\ \A r \in DOMAIN m.rings \ {m.s.recvChains} : q.rings[r] = m.rings[r]
  /\ \A st \in DOMAIN m.stores \ {m.s.mkSkipped} : q.stores[st] = m.stores[st]

-----------------------------------------------------------------------------
(* A new reference is a number nothing has yet.                            *)
LEMMA NewIsNew ==
  ASSUME NEW f, RefsOK(f)
  PROVE  NewIn(f) \in Nat \ {0} /\ NewIn(f) \notin DOMAIN f
<1>1. PICK n \in Nat : n = Cardinality(DOMAIN f)
  BY FS_CardinalityType DEF RefsOK
<1>2. \E c \in 1 .. n + 1 : c \notin DOMAIN f
  <2>1. SUFFICES ASSUME 1 .. n + 1 \subseteq DOMAIN f PROVE FALSE
    OBVIOUS
  <2>2. Cardinality(1 .. n + 1) <= n
    BY <1>1, <2>1, FS_Subset DEF RefsOK
  <2>3. Cardinality(1 .. n + 1) = n + 1
    BY <1>1, FS_Interval
  <2> QED
    BY <1>1, <2>2, <2>3
<1> QED
  BY <1>1, <1>2 DEF NewIn

(* A heap with one more slice.                                             *)
Allocated(q, m, c, key) ==
  /\ HeapOK(q) /\ c \in Int \ DOMAIN m.keys /\ c # NoKey
  /\ DOMAIN q.keys = DOMAIN m.keys \cup {c}
  /\ q.keys[c] = key /\ \A x \in DOMAIN m.keys : q.keys[x] = m.keys[x]
  /\ q.s = m.s /\ q.prev = m.prev /\ q.rings = m.rings /\ q.stores = m.stores
(* Allocating gives a heap with one more slice, in a cell that was free.   *)
LEMMA AllocateFacts ==
  ASSUME NEW m, HeapOK(m), NEW key, KeyShape(key)
  PROVE  Allocated(Allocate(m, key), m, NewCell(m), key)
<1>1. PICK c, q : c = NewCell(m) /\ q = Allocate(m, key)
  OBVIOUS
<1>2. c \in Int \ DOMAIN m.keys
  BY <1>1, NewIsNew DEF HeapOK, NewCell
<1>3. /\ q.keys = [x \in DOMAIN m.keys \cup {c} |-> IF x = c THEN key ELSE m.keys[x]]
      /\ q = [m EXCEPT !.keys = q.keys]
  BY <1>1 DEF Allocate, With, HeapOK
<1>4. q = [s |-> m.s, prev |-> m.prev, keys |-> q.keys, rings |-> m.rings, stores |-> m.stores]
  BY <1>3 DEF HeapOK
<1>5. RefsOK(q.keys)
  <2>1. DOMAIN q.keys = DOMAIN m.keys \cup {c}
    BY <1>3
  <2>2. IsFiniteSet(DOMAIN m.keys \cup {c})
    BY FS_AddElement DEF HeapOK, RefsOK
  <2> QED
    BY <1>2, <2>1, <2>2 DEF RefsOK, HeapOK
<1>6. HeapOK(q)
  BY <1>3, <1>4, <1>5 DEF HeapOK
<1> QED
  BY <1>1, <1>2, <1>3, <1>4, <1>6, NilAssumption DEF Allocated

(* A heap in which some slices are zeroed.                                 *)
Blanked(q, m, cells) ==
  /\ HeapOK(q) /\ DOMAIN q.keys = DOMAIN m.keys
  /\ \A c \in DOMAIN m.keys : q.keys[c] = IF c \in cells THEN Erased ELSE m.keys[c]
  /\ q.s = m.s /\ q.prev = m.prev /\ q.rings = m.rings /\ q.stores = m.stores
(* Zeroing slices leaves all the others, and every reference, as they      *)
(* were.                                                                   *)
LEMMA ZeroFacts ==
  ASSUME NEW m, HeapOK(m), NEW cells
  PROVE  Blanked(ZeroBytes(m, cells), m, cells)
<1>1. PICK q : q = ZeroBytes(m, cells)
  OBVIOUS
<1>2. /\ q.keys = [c \in DOMAIN m.keys |-> IF c \in cells THEN Erased ELSE m.keys[c]]
      /\ q = [s |-> m.s, prev |-> m.prev, keys |-> q.keys, rings |-> m.rings, stores |-> m.stores]
  BY <1>1 DEF ZeroBytes, HeapOK
<1>3. KeyShape(Erased)
  BY DEF KeyShape, Erased, FirstChainKey
<1>4. HeapOK(q)
  BY <1>2, <1>3 DEF HeapOK, RefsOK
<1> QED
  BY <1>1, <1>2, <1>4 DEF Blanked

-----------------------------------------------------------------------------
(* A ring or a store looks the same through two maps that agree on its     *)
(* slices.                                                                 *)
LEMMA SameRingValue ==
  ASSUME NEW r, NEW f, NEW g, r.slots = [j \in Slots |-> r.slots[j]],
         \A c \in RingCells(r) : f[c] = g[c]
  PROVE  MapRing(r, f) = MapRing(r, g)
<1>1. \A j \in Slots : At(f, r.slots[j].ck) = At(g, r.slots[j].ck)
  BY DEF At, RingCells
<1>2. [j \in Slots |-> [r.slots[j] EXCEPT !.ck = At(f, @)]] =
        [j \in Slots |-> [r.slots[j] EXCEPT !.ck = At(g, @)]]
  BY <1>1
<1> QED
  BY <1>2 DEF MapRing

(* A store is the same value under keys that agree on its cells.           *)
LEMMA SameStoreValue ==
  ASSUME NEW st, NEW f, NEW g, \A c \in StoreCells(st) : f[c] = g[c]
  PROVE  MapStore(st, f) = MapStore(st, g)
<1>1. [id \in DOMAIN st.entries |-> f[st.entries[id]]] =
        [id \in DOMAIN st.entries |-> g[st.entries[id]]]
  BY DEF StoreCells
<1> QED
  BY <1>1 DEF MapStore

(* The value of an owner, field by field.                                  *)
PlainFields == {"ns", "pn", "dhs", "dhr", "dhRSet", "dhRatchetPerformed"}
ValueSeen(v, m, o) ==
  /\ v = [f \in SessionFields |-> v[f]]
  /\ v.rk = m.keys[o.rk].root
  /\ v.cks = IF o.cks = NoKey THEN NoChainKey ELSE m.keys[o.cks]
  /\ v.recvChains = MapRing(m.rings[o.recvChains], m.keys)
  /\ v.mkSkipped = MapStore(m.stores[o.mkSkipped], m.keys)
  /\ \A f \in PlainFields : v[f] = o[f]
(* The value of the session, or of the snapshot, has these fields.         *)
LEMMA ValueFields ==
  ASSUME NEW m, NEW o, o = [f \in SessionFields |-> o[f]]
  PROVE  ValueSeen(ValueOf(m, o), m, o)
BY DEF ValueOf, SessionFields, PlainFields, ValueSeen

(* What an owner refers to is there.                                       *)
LEMMA CellsAreThere ==
  ASSUME NEW m, NEW o, RefsIn(m, o)
  PROVE  CellsOf(m, o) \subseteq DOMAIN m.keys
<1>1. RingCells(m.rings[o.recvChains]) \subseteq DOMAIN m.keys
  <2>1. \A j \in Slots : m.rings[o.recvChains].slots[j].ck \in DOMAIN m.keys \cup {NoKey}
    BY Zenon DEF RefsIn, RingIn
  <2> QED
    BY <2>1 DEF RingCells
<1>2. StoreCells(m.stores[o.mkSkipped]) \subseteq DOMAIN m.keys
  BY Zenon DEF RefsIn, StoreIn, StoreCells
<1> QED
  BY <1>1, <1>2 DEF RefsIn, CellsOf

(* An owner whose objects stay and whose slices are not taken away         *)
LEMMA KeptRefs ==
  ASSUME NEW m, NEW q, NEW o, RefsIn(m, o), DOMAIN m.keys \subseteq DOMAIN q.keys,
         o.recvChains \in DOMAIN q.rings, o.mkSkipped \in DOMAIN q.stores,
         q.rings[o.recvChains] = m.rings[o.recvChains],
         q.stores[o.mkSkipped] = m.stores[o.mkSkipped]
  PROVE  RefsIn(q, o)
BY Zenon DEF RefsIn, RingIn, StoreIn

(* keeps its value, when they are not zeroed either.                       *)
LEMMA KeptOwner ==
  ASSUME NEW m, NEW q, NEW o, OwnerOK(m, o), RefsOK(m.keys),
         DOMAIN m.keys \subseteq DOMAIN q.keys, o.recvChains \in DOMAIN q.rings,
         o.mkSkipped \in DOMAIN q.stores,
         q.rings[o.recvChains] = m.rings[o.recvChains],
         q.stores[o.mkSkipped] = m.stores[o.mkSkipped],
         \A c \in CellsOf(m, o) : q.keys[c] = m.keys[c]
  PROVE  OwnerOK(q, o) /\ ValueOf(q, o) = ValueOf(m, o) /\ CellsOf(q, o) = CellsOf(m, o)
<1>1. RefsIn(m, o) /\ Apart(m, o)
  BY DEF OwnerOK
<1>2. RefsIn(q, o)
  BY <1>1, KeptRefs
<1>3. Apart(q, o)
  BY <1>1 DEF Apart
<1>4. CellsOf(q, o) = CellsOf(m, o)
  BY DEF CellsOf
<1>5. MapRing(q.rings[o.recvChains], q.keys) = MapRing(m.rings[o.recvChains], m.keys)
  <2>1. \A c \in RingCells(m.rings[o.recvChains]) : q.keys[c] = m.keys[c]
    BY DEF CellsOf
  <2>2. m.rings[o.recvChains].slots = [j \in Slots |-> m.rings[o.recvChains].slots[j]]
    BY Zenon, <1>1 DEF RefsIn, RingIn
  <2> QED
    BY <2>1, <2>2, SameRingValue
<1>6. MapStore(q.stores[o.mkSkipped], q.keys) = MapStore(m.stores[o.mkSkipped], m.keys)
  <2>1. \A c \in StoreCells(m.stores[o.mkSkipped]) : q.keys[c] = m.keys[c]
    BY DEF CellsOf
  <2> QED
    BY <2>1, SameStoreValue
<1>7. q.keys[o.rk] = m.keys[o.rk] /\ (o.cks # NoKey => q.keys[o.cks] = m.keys[o.cks])
  <2>1. o.rk # NoKey
    BY <1>1, NilAssumption DEF RefsIn, RefsOK
  <2> QED
    BY <2>1 DEF CellsOf
<1>8. ValueOf(q, o) = ValueOf(m, o)
  <2>1. o = [f \in SessionFields |-> o[f]]
    BY <1>1 DEF RefsIn
  <2> QED
    BY <1>5, <1>6, <1>7, <2>1 DEF ValueOf, SessionFields
<1> QED
  BY <1>1, <1>2, <1>3, <1>4, <1>8 DEF OwnerOK

-----------------------------------------------------------------------------
(* Frames compose,                                                         *)
LEMMA FrameTrans ==
  ASSUME NEW m, NEW x, NEW q, Frame(m, x), Frame(x, q)
  PROVE  Frame(m, q)
BY DEF Frame

(* A call that does nothing touches nothing.                               *)
LEMMA FrameRefl == \A m : Frame(m, m)
BY DEF Frame

(* and a call may zero what it has allocated itself.                       *)
LEMMA FrameZero ==
  ASSUME NEW m, NEW x, HeapOK(x), Frame(m, x), NEW cells, cells \cap DOMAIN m.keys = {}
  PROVE  Frame(m, ZeroBytes(x, cells))
<1>1. PICK q : q = ZeroBytes(x, cells)
  OBVIOUS
<1>2. /\ DOMAIN q.keys = DOMAIN x.keys
      /\ \A c \in DOMAIN x.keys : q.keys[c] = IF c \in cells THEN Erased ELSE x.keys[c]
      /\ q.s = x.s /\ q.prev = x.prev /\ q.rings = x.rings /\ q.stores = x.stores
  BY <1>1, ZeroFacts DEF Blanked
<1>3. CellsOf(q, q.s) = CellsOf(x, x.s)
  BY <1>2 DEF CellsOf
<1> QED
  BY <1>1, <1>2, <1>3 DEF Frame

(* A new slice changes nothing for the session.                            *)
LEMMA AllocateGood ==
  ASSUME NEW m, Good(m), NEW key, KeyShape(key)
  PROVE  LET q == Allocate(m, key)
         IN  Good(q) /\ Frame(m, q) /\ ValueOf(q, q.s) = ValueOf(m, m.s)
               /\ CellsOf(q, q.s) = CellsOf(m, m.s)
<1>1. PICK q : q = Allocate(m, key)
  OBVIOUS
<1>2. /\ HeapOK(q) /\ DOMAIN q.keys = DOMAIN m.keys \cup {NewCell(m)}
      /\ \A c \in DOMAIN m.keys : q.keys[c] = m.keys[c]
      /\ q.s = m.s /\ q.prev = m.prev /\ q.rings = m.rings /\ q.stores = m.stores
  BY <1>1, AllocateFacts DEF Good, Allocated
<1>3. OwnerOK(m, m.s) /\ RefsIn(m, m.s)
  BY DEF Good, OwnerOK
<1>4. CellsOf(m, m.s) \subseteq DOMAIN m.keys
  BY <1>3, CellsAreThere
<1>5. OwnerOK(q, m.s) /\ ValueOf(q, m.s) = ValueOf(m, m.s) /\ CellsOf(q, m.s) = CellsOf(m, m.s)
  <2>1. \A c \in CellsOf(m, m.s) : q.keys[c] = m.keys[c]
    BY <1>2, <1>4
  <2>2. m.s.recvChains \in DOMAIN m.rings /\ m.s.mkSkipped \in DOMAIN m.stores
    BY <1>3 DEF RefsIn
  <2> QED
    BY <1>2, <1>3, <2>1, <2>2, KeptOwner DEF Good, HeapOK
<1>6. Frame(m, q)
  BY <1>2, <1>5 DEF Frame
<1> QED
  BY <1>1, <1>2, <1>5, <1>6 DEF Good

(* Nor does zeroing what it does not refer to.                             *)
LEMMA ZeroGood ==
  ASSUME NEW m, Good(m), NEW cells, cells \cap CellsOf(m, m.s) = {}
  PROVE  LET q == ZeroBytes(m, cells)
         IN  Good(q) /\ ValueOf(q, q.s) = ValueOf(m, m.s) /\ CellsOf(q, q.s) = CellsOf(m, m.s)
<1>1. PICK q : q = ZeroBytes(m, cells)
  OBVIOUS
<1>2. /\ HeapOK(q) /\ DOMAIN q.keys = DOMAIN m.keys
      /\ \A c \in DOMAIN m.keys : q.keys[c] = IF c \in cells THEN Erased ELSE m.keys[c]
      /\ q.s = m.s /\ q.prev = m.prev /\ q.rings = m.rings /\ q.stores = m.stores
  BY <1>1, ZeroFacts DEF Good, Blanked
<1>3. OwnerOK(m, m.s) /\ RefsIn(m, m.s)
  BY DEF Good, OwnerOK
<1>4. CellsOf(m, m.s) \subseteq DOMAIN m.keys
  BY <1>3, CellsAreThere
<1>5. OwnerOK(q, m.s) /\ ValueOf(q, m.s) = ValueOf(m, m.s) /\ CellsOf(q, m.s) = CellsOf(m, m.s)
  <2>1. \A c \in CellsOf(m, m.s) : q.keys[c] = m.keys[c]
    BY <1>2, <1>4
  <2>2. m.s.recvChains \in DOMAIN m.rings /\ m.s.mkSkipped \in DOMAIN m.stores
    BY <1>3 DEF RefsIn
  <2> QED
    BY <1>2, <1>3, <2>1, <2>2, KeptOwner DEF Good, HeapOK
<1> QED
  BY <1>1, <1>2, <1>5 DEF Good

(* What a ring of cells is as a value, slot by slot.                       *)
RingSeen(q, r, f) ==
  /\ RingOK(q) /\ q.head = r.head /\ q.count = r.count
  /\ q = [slots |-> q.slots, head |-> q.head, count |-> q.count]
  /\ q.slots = [j \in Slots |-> q.slots[j]]
  /\ \A j \in Slots :
       /\ q.slots[j] = [pk |-> r.slots[j].pk, ck |-> At(f, r.slots[j].ck), nr |-> r.slots[j].nr]
       /\ q.slots[j].pk = r.slots[j].pk /\ q.slots[j].ck = At(f, r.slots[j].ck)
       /\ q.slots[j].nr = r.slots[j].nr
(* A ring of cells, seen as a value, keeps the order of its slots and its  *)
(* tests.                                                                  *)
LEMMA MapRingFacts ==
  ASSUME NEW r, NEW cells, NEW f, RingIn(r, cells)
  PROVE  RingSeen(MapRing(r, f), r, f)
<1>1. PICK q : q = MapRing(r, f)
  OBVIOUS
<1>2. q.slots = [j \in Slots |-> [r.slots[j] EXCEPT !.ck = At(f, r.slots[j].ck)]]
      /\ q = [slots |-> q.slots, head |-> r.head, count |-> r.count]
  BY <1>1 DEF MapRing, RingIn
<1>3. ASSUME NEW j \in Slots
      PROVE  q.slots[j] = [pk |-> r.slots[j].pk, ck |-> At(f, r.slots[j].ck), nr |-> r.slots[j].nr]
  <2>1. PICK slot : slot = r.slots[j]
    OBVIOUS
  <2>2. slot = [pk |-> slot.pk, ck |-> slot.ck, nr |-> slot.nr]
    BY <2>1 DEF RingIn
  <2>3. q.slots[j] = [slot EXCEPT !.ck = At(f, slot.ck)]
    BY <1>2, <2>1
  <2> QED
    BY <2>1, <2>2, <2>3
<1>4. ASSUME NEW j \in Slots
      PROVE  /\ q.slots[j].pk = r.slots[j].pk /\ q.slots[j].ck = At(f, r.slots[j].ck)
             /\ q.slots[j].nr = r.slots[j].nr
  <2>1. q.slots[j] = [pk |-> r.slots[j].pk, ck |-> At(f, r.slots[j].ck), nr |-> r.slots[j].nr]
    BY <1>3
  <2> QED
    BY <2>1
<1>5. RingOK(q)
  BY <1>2 DEF RingIn, RingOK
<1> QED
  BY <1>1, <1>2, <1>3, <1>4, <1>5 DEF RingSeen

(* It finds the same chains in the same slots.                             *)
LooksUp(q, r, f, pk, p, cells) ==
  /\ HasChain(q, pk) <=> HasChain(r, pk)
  /\ HasChain(r, pk) =>
       /\ p \in Slots /\ SlotAt(q, PositionOf(q, pk)) = p
       /\ GetChain(r, pk) = r.slots[p] /\ r.slots[p].ck \in cells /\ r.slots[p].pk = pk
       /\ GetChain(q, pk) = [pk |-> pk, ck |-> At(f, r.slots[p].ck), nr |-> r.slots[p].nr]
(* A lookup by public key in the ring of cells and one in its value agree. *)
LEMMA MapRingLookup ==
  ASSUME NEW r, NEW cells, NEW f, RingIn(r, cells), NEW pk
  PROVE  LooksUp(MapRing(r, f), r, f, pk, SlotAt(r, PositionOf(r, pk)), cells)
<1>1. PICK q : q = MapRing(r, f)
  OBVIOUS
<1>2. /\ RingOK(q) /\ q.head = r.head /\ q.count = r.count
      /\ \A j \in Slots :
           /\ q.slots[j] = [pk |-> r.slots[j].pk, ck |-> At(f, r.slots[j].ck), nr |-> r.slots[j].nr]
           /\ q.slots[j].pk = r.slots[j].pk
  <2>1. RingSeen(q, r, f)
    BY <1>1, MapRingFacts
  <2> QED
    BY <2>1 DEF RingSeen
<1>3. RingOK(r) /\ r.count \in 0 .. ReceiverChainsMax
  BY DEF RingIn, RingOK
<1>4. ASSUME NEW j \in 0 .. r.count - 1
      PROVE  SlotAt(q, j) = SlotAt(r, j) /\ SlotAt(r, j) \in Slots
             /\ (Holds(q, j, pk) <=> Holds(r, j, pk))
  <2>1. j \in 0 .. ReceiverChainsMax /\ r.head \in Slots
    BY <1>3, CapacityAssumption DEF RingOK
  <2>2. SlotAt(q, j) = SlotAt(r, j) /\ SlotAt(r, j) \in Slots
    BY <1>2, <2>1, SlotFacts DEF SlotAt
  <2>3. \A x \in Slots : q.slots[x].pk = r.slots[x].pk
    BY <1>2
  <2> QED
    BY <2>2, <2>3 DEF Holds
<1>5. HasChain(q, pk) <=> HasChain(r, pk)
  BY <1>2, <1>4 DEF HasChain
<1>6. ASSUME HasChain(r, pk)
      PROVE  LET p == SlotAt(r, PositionOf(r, pk))
             IN  /\ p \in Slots /\ SlotAt(q, PositionOf(q, pk)) = p
                 /\ GetChain(r, pk) = r.slots[p] /\ r.slots[p].ck \in cells
                 /\ r.slots[p].pk = pk
                 /\ GetChain(q, pk) = [pk |-> pk, ck |-> At(f, r.slots[p].ck), nr |-> r.slots[p].nr]
  <2>1. PICK i : i = PositionOf(r, pk)
    OBVIOUS
  <2>2. /\ i \in 0 .. r.count - 1 /\ Holds(r, i, pk)
        /\ \A j \in 0 .. i - 1 : ~Holds(r, j, pk)
    BY <1>3, <1>6, <2>1, PositionHolds
  <2>3. i \in 0 .. q.count - 1 /\ Holds(q, i, pk) /\ \A j \in 0 .. i - 1 : ~Holds(q, j, pk)
    <3>1. \A j \in 0 .. i - 1 : j \in 0 .. r.count - 1
      BY <1>3, <2>2, CapacityAssumption
    <3> QED
      BY <1>2, <1>4, <2>2, <3>1
  <2>4. PositionOf(q, pk) = i
    BY <1>2, <2>3, PositionIsFirst
  <2>5. PICK p : p = SlotAt(r, i)
    OBVIOUS
  <2>6. p \in Slots /\ SlotAt(q, i) = p /\ r.slots[p].pk = pk
    BY <1>4, <2>2, <2>5 DEF Holds
  <2>7. r.slots[p] \in Held(r)
    BY <2>2, <2>5 DEF Held, RingAt
  <2>8. r.slots[p].ck \in cells
    BY <2>7 DEF RingIn
  <2> QED
    BY <1>2, <2>1, <2>4, <2>5, <2>6, <2>8 DEF GetChain
<1> QED
  BY <1>1, <1>5, <1>6 DEF LooksUp

(* Push and PutChain write one slot.                                       *)
LEMMA PushIs ==
  ASSUME NEW r, RingOK(r), r = [slots |-> r.slots, head |-> r.head, count |-> r.count],
         NEW pk, NEW ck
  PROVE  LET p    == SlotAt(r, r.count)
             full == r.count = ReceiverChainsMax
         IN  /\ p \in Slots /\ (full => p = r.head)
             /\ Push(r, pk, ck) =
                  [slots |-> [r.slots EXCEPT ![p] = NewChain(pk, ck)],
                   head  |-> IF full THEN (r.head + 1) % ReceiverChainsMax ELSE r.head,
                   count |-> IF full THEN r.count ELSE r.count + 1]
<1>1. r.head \in Slots /\ r.count \in 0 .. ReceiverChainsMax /\ DOMAIN r.slots = Slots
  BY DEF RingOK
<1>2. PICK p : p = SlotAt(r, r.count)
  OBVIOUS
<1>3. p \in Slots
        /\ p = IF r.head + r.count < ReceiverChainsMax THEN r.head + r.count
               ELSE r.head + r.count - ReceiverChainsMax
  BY <1>1, <1>2, SlotFacts DEF SlotAt
<1>4. r.count = ReceiverChainsMax => p = r.head
  BY <1>1, <1>3, CapacityAssumption DEF Slots
<1>5. CASE r.count # ReceiverChainsMax
  <2>1. Push(r, pk, ck) =
          [r EXCEPT !.slots[p] = NewChain(pk, ck), !.count = r.count + 1]
    BY <1>2, <1>5 DEF Push
  <2> QED
    BY <1>2, <1>3, <1>5, <2>1
<1>6. CASE r.count = ReceiverChainsMax
  <2>1. PICK room, h : room = EvictHead(r) /\ h = (r.head + 1) % ReceiverChainsMax
    OBVIOUS
  <2>2. room = [slots |-> [r.slots EXCEPT ![r.head] = EmptySlot], head |-> h,
                count |-> r.count - 1]
    BY <2>1 DEF EvictHead
  <2>3. 1 \in 0 .. ReceiverChainsMax /\ r.count - 1 \in 0 .. ReceiverChainsMax
    BY <1>6, CapacityAssumption
  <2>4. h \in Slots
          /\ h = IF r.head + 1 < ReceiverChainsMax THEN r.head + 1
                 ELSE r.head + 1 - ReceiverChainsMax
    BY <1>1, <2>1, <2>3, SlotFacts
  <2>5. (h + (r.count - 1)) % ReceiverChainsMax
          = IF h + (r.count - 1) < ReceiverChainsMax THEN h + (r.count - 1)
            ELSE h + (r.count - 1) - ReceiverChainsMax
    BY <2>3, <2>4, SlotFacts
  <2>6. (h + (r.count - 1)) % ReceiverChainsMax = r.head
    BY <1>1, <1>6, <2>4, <2>5, CapacityAssumption DEF Slots
  <2>7. SlotAt(room, room.count) = r.head
    BY <2>2, <2>6 DEF SlotAt
  <2>8. Push(r, pk, ck) =
          [room EXCEPT !.slots[r.head] = NewChain(pk, ck), !.count = room.count + 1]
    BY <1>6, <2>1, <2>7 DEF Push
  <2>9. r.count \in Int
    BY <1>1, CapacityAssumption
  <2>10. Push(r, pk, ck) =
          [slots |-> [r.slots EXCEPT ![r.head] = NewChain(pk, ck)], head |-> h, count |-> r.count]
    <3>1. [[r.slots EXCEPT ![r.head] = EmptySlot] EXCEPT ![r.head] = NewChain(pk, ck)]
            = [r.slots EXCEPT ![r.head] = NewChain(pk, ck)]
      OBVIOUS
    <3>2. room.count + 1 = r.count
      BY <2>2, <2>9
    <3> QED
      BY <2>2, <2>8, <3>1, <3>2
  <2> QED
    BY <1>2, <1>3, <1>4, <1>6, <2>1, <2>10
<1> QED
  BY <1>5, <1>6

(* PutChain (Update in session.go) rewrites the slot of the chain with     *)
(* that key, and nothing else.                                             *)
LEMMA PutChainIs ==
  ASSUME NEW r, r = [slots |-> r.slots, head |-> r.head, count |-> r.count],
         NEW pk, NEW ck, NEW nr
  PROVE  PutChain(r, pk, ck, nr) =
           [slots |-> [r.slots EXCEPT ![SlotAt(r, PositionOf(r, pk))] =
                         [pk |-> pk, ck |-> ck, nr |-> nr]],
            head |-> r.head, count |-> r.count]
BY DEF PutChain

(* Ring q is ring r with a chain of slice c, which r does not refer to, in *)
(* slot p.                                                                 *)
Rewrites(q, r, p, pk, c, nr) ==
  /\ RingOK(q) /\ q = [slots |-> q.slots, head |-> q.head, count |-> q.count]
  /\ q.slots = [r.slots EXCEPT ![p] = [pk |-> pk, ck |-> c, nr |-> nr]]
  /\ Held(q) \subseteq Held(r) \cup {[pk |-> pk, ck |-> c, nr |-> nr]}

(* Such a ring is made of the old cells and the new one.                   *)
Rewritten(q, r, p, c, cells) ==
  /\ RingIn(q, cells \cup {c}) /\ RingApart(q)
  /\ RingCells(q) = (RingCells(r) \ {r.slots[p].ck}) \cup {c}
  /\ q.slots[p].ck = c /\ \A j \in Slots \ {p} : q.slots[j] = r.slots[j]
(* A ring in which one slot is rewritten with a new cell still refers to   *)
(* no cell twice.                                                          *)
LEMMA RewritesFacts ==
  ASSUME NEW r, NEW cells, RingIn(r, cells), RingApart(r),
         NEW q, NEW p \in Slots, NEW pk, NEW c, NEW nr \in Int,
         Rewrites(q, r, p, pk, c, nr), c # NoKey, c \notin RingCells(r)
  PROVE  Rewritten(q, r, p, c, cells)
<1>1. r.slots = [j \in Slots |-> r.slots[j]]
  BY DEF RingIn
<1>2. q.slots = [j \in Slots |-> IF j = p THEN [pk |-> pk, ck |-> c, nr |-> nr] ELSE r.slots[j]]
  BY <1>1 DEF Rewrites
<1>3. /\ q.slots[p] = [pk |-> pk, ck |-> c, nr |-> nr]
      /\ \A j \in Slots \ {p} : q.slots[j] = r.slots[j]
  BY <1>2
<1>4. \A j \in Slots :
        /\ q.slots[j] = [pk |-> q.slots[j].pk, ck |-> q.slots[j].ck, nr |-> q.slots[j].nr]
        /\ q.slots[j].nr \in Int
        /\ q.slots[j].ck \in (cells \cup {c}) \cup {NoKey}
  <2>1. \A j \in Slots :
          /\ r.slots[j] = [pk |-> r.slots[j].pk, ck |-> r.slots[j].ck, nr |-> r.slots[j].nr]
          /\ r.slots[j].nr \in Int
          /\ r.slots[j].ck \in cells \cup {NoKey}
    BY DEF RingIn
  <2>2. q.slots[p].nr \in Int /\ q.slots[p].ck = c
        /\ q.slots[p] = [pk |-> q.slots[p].pk, ck |-> q.slots[p].ck, nr |-> q.slots[p].nr]
    BY <1>3
  <2> QED
    BY <1>3, <2>1, <2>2
<1>5. RingIn(q, cells \cup {c})
  <2>1. \A chain \in Held(q) : chain.ck \in cells \cup {c}
    <3>1. \A chain \in Held(r) : chain.ck \in cells
      BY DEF RingIn
    <3> QED
      BY <3>1 DEF Rewrites
  <2>2. q.slots = [j \in Slots |-> q.slots[j]]
    BY <1>2
  <2> QED
    BY <1>4, <2>1, <2>2 DEF RingIn, Rewrites
<1>6. q.slots[p].ck = c /\ \A j \in Slots \ {p} : q.slots[j].ck = r.slots[j].ck
  BY <1>3
<1>7. \A j \in Slots : r.slots[j].ck # c
  BY DEF RingCells
<1>8. RingApart(q)
  BY <1>6, <1>7 DEF RingApart
<1>9. RingCells(q) = (RingCells(r) \ {r.slots[p].ck}) \cup {c}
  <2>1. \A j \in Slots \ {p} : r.slots[j].ck = r.slots[p].ck => r.slots[j].ck = NoKey
    BY DEF RingApart
  <2> QED
    BY <1>6, <2>1 DEF RingCells
<1> QED
  BY <1>3, <1>5, <1>6, <1>8, <1>9 DEF Rewritten

(* And as a value it is the value of r rewritten, when the other slices    *)
(* hold what they held.                                                    *)
RewrittenValue(x, y, q, p, pk, key, nr) ==
  x = [slots |-> [y.slots EXCEPT ![p] = [pk |-> pk, ck |-> key, nr |-> nr]],
       head |-> q.head, count |-> q.count]
(* The value of a rewritten ring is the rewritten value.                   *)
LEMMA RewritesValue ==
  ASSUME NEW r, NEW cells, RingIn(r, cells), RingApart(r),
         NEW q, NEW p \in Slots, NEW pk, NEW c, NEW nr \in Int,
         Rewrites(q, r, p, pk, c, nr), c # NoKey, c \notin RingCells(r),
         NEW f, NEW g, \A x \in RingCells(r) \ {r.slots[p].ck} : g[x] = f[x]
  PROVE  RewrittenValue(MapRing(q, g), MapRing(r, f), q, p, pk, g[c], nr)
<1>1. /\ RingIn(q, cells \cup {c}) /\ q.slots[p] = [pk |-> pk, ck |-> c, nr |-> nr]
      /\ \A j \in Slots \ {p} : q.slots[j] = r.slots[j]
  <2>1. Rewritten(q, r, p, c, cells)
    BY RewritesFacts
  <2>3. q.slots[p] = [pk |-> pk, ck |-> c, nr |-> nr]
    BY DEF Rewrites, RingIn
  <2> QED
    BY <2>1, <2>3 DEF Rewritten
<1>2. PICK x, y : x = MapRing(q, g) /\ y = MapRing(r, f)
  OBVIOUS
<1>3. RingSeen(x, q, g) /\ RingSeen(y, r, f)
  BY <1>1, <1>2, MapRingFacts
<1>4. ASSUME NEW j \in Slots
      PROVE  x.slots[j] = IF j = p THEN [pk |-> pk, ck |-> g[c], nr |-> nr] ELSE y.slots[j]
  <2>1. x.slots[j] = [pk |-> q.slots[j].pk, ck |-> At(g, q.slots[j].ck), nr |-> q.slots[j].nr]
        /\ y.slots[j] = [pk |-> r.slots[j].pk, ck |-> At(f, r.slots[j].ck), nr |-> r.slots[j].nr]
    BY <1>3 DEF RingSeen
  <2>2. CASE j = p
    BY <1>1, <2>1, <2>2 DEF At
  <2>3. CASE j # p
    <3>1. q.slots[j] = r.slots[j]
      BY <1>1, <2>3
    <3>2. r.slots[j].ck = NoKey \/ r.slots[j].ck \in RingCells(r) \ {r.slots[p].ck}
      BY <2>3 DEF RingApart, RingCells
    <3>3. At(g, r.slots[j].ck) = At(f, r.slots[j].ck)
      BY <3>2 DEF At
    <3> QED
      BY <2>1, <2>3, <3>1, <3>3
  <2> QED
    BY <2>2, <2>3
<1>5. x.slots = [j \in Slots |-> IF j = p THEN [pk |-> pk, ck |-> g[c], nr |-> nr] ELSE y.slots[j]]
  <2>1. x.slots = [j \in Slots |-> x.slots[j]]
    BY <1>3 DEF RingSeen
  <2> QED
    BY <1>4, <2>1
<1>6. x.slots = [y.slots EXCEPT ![p] = [pk |-> pk, ck |-> g[c], nr |-> nr]]
  <2>1. y.slots = [j \in Slots |-> y.slots[j]]
    BY <1>3 DEF RingSeen
  <2> QED
    BY <1>5, <2>1
<1>7. x = [slots |-> x.slots, head |-> q.head, count |-> q.count]
  BY <1>3 DEF RingSeen
<1> QED
  BY <1>2, <1>6, <1>7 DEF RewrittenValue

(* Push and PutChain rewrite one slot.                                     *)
LEMMA PushRewrites ==
  ASSUME NEW r, NEW cells, RingIn(r, cells), NEW pk, NEW c
  PROVE  Rewrites(Push(r, pk, c), r, SlotAt(r, r.count), pk, c, 0)
         /\ SlotAt(r, r.count) \in Slots
<1>1. RingOK(r) /\ r = [slots |-> r.slots, head |-> r.head, count |-> r.count]
  BY DEF RingIn
<1>2. PICK q, p : q = Push(r, pk, c) /\ p = SlotAt(r, r.count)
  OBVIOUS
<1>3. p \in Slots /\ q = [slots |-> [r.slots EXCEPT ![p] = NewChain(pk, c)],
             head  |-> IF r.count = ReceiverChainsMax THEN (r.head + 1) % ReceiverChainsMax
                      ELSE r.head,
             count |-> IF r.count = ReceiverChainsMax THEN r.count ELSE r.count + 1]
  BY <1>1, <1>2, PushIs
<1>4. RingOK(q)
  BY <1>1, <1>2, PushFacts
<1>5. Held(q) \subseteq Held(r) \cup {NewChain(pk, c)}
  BY <1>1, <1>2, HeldAfterPush
<1> QED
  BY <1>2, <1>3, <1>4, <1>5 DEF Rewrites, NewChain

(* PutChain is such a rewriting.                                           *)
LEMMA PutRewrites ==
  ASSUME NEW r, NEW cells, RingIn(r, cells), NEW pk, HasChain(r, pk), NEW c, NEW nr
  PROVE  Rewrites(PutChain(r, pk, c, nr), r, SlotAt(r, PositionOf(r, pk)), pk, c, nr)
<1>1. RingOK(r) /\ r = [slots |-> r.slots, head |-> r.head, count |-> r.count]
  BY DEF RingIn
<1>2. PICK q, p : q = PutChain(r, pk, c, nr) /\ p = SlotAt(r, PositionOf(r, pk))
  OBVIOUS
<1>3. q = [slots |-> [r.slots EXCEPT ![p] = [pk |-> pk, ck |-> c, nr |-> nr]],
           head |-> r.head, count |-> r.count]
  BY <1>1, <1>2, PutChainIs
<1>4. RingOK(q)
  BY <1>1, <1>2, PutChainFacts
<1>5. Held(q) \subseteq Held(r) \cup {[pk |-> pk, ck |-> c, nr |-> nr]}
  BY <1>1, <1>2, HeldAfterPut
<1> QED
  BY <1>2, <1>3, <1>4, <1>5 DEF Rewrites

(* So each commutes with looking at the ring as a value.                   *)
LEMMA PushValue ==
  ASSUME NEW r, NEW cells, RingIn(r, cells), RingApart(r), NEW pk, NEW c, c # NoKey,
         c \notin RingCells(r), NEW f, NEW g,
         \A x \in RingCells(r) \ {r.slots[SlotAt(r, r.count)].ck} : g[x] = f[x]
  PROVE  MapRing(Push(r, pk, c), g) = Push(MapRing(r, f), pk, g[c])
<1>1. PICK q, p, y : q = Push(r, pk, c) /\ p = SlotAt(r, r.count) /\ y = MapRing(r, f)
  OBVIOUS
<1>2. Rewrites(q, r, p, pk, c, 0) /\ p \in Slots
  BY <1>1, PushRewrites
<1>3. MapRing(q, g) = [slots |-> [y.slots EXCEPT ![p] = [pk |-> pk, ck |-> g[c], nr |-> 0]],
                       head |-> q.head, count |-> q.count]
  <2>1. 0 \in Int /\ \A x \in RingCells(r) \ {r.slots[p].ck} : g[x] = f[x]
    BY <1>1
  <2>2. RewrittenValue(MapRing(q, g), MapRing(r, f), q, p, pk, g[c], 0)
    BY <1>2, <2>1, RewritesValue
  <2> QED
    BY <1>1, <2>2 DEF RewrittenValue
<1>4. RingOK(r) /\ r = [slots |-> r.slots, head |-> r.head, count |-> r.count]
  BY DEF RingIn
<1>5. RingSeen(y, r, f)
  BY <1>1, MapRingFacts
<1>6. RingOK(y) /\ y = [slots |-> y.slots, head |-> y.head, count |-> y.count]
      /\ y.head = r.head /\ y.count = r.count
  BY <1>5 DEF RingSeen
<1>7. SlotAt(y, y.count) = p
  BY <1>1, <1>6 DEF SlotAt
<1>8. q.head = (IF r.count = ReceiverChainsMax THEN (r.head + 1) % ReceiverChainsMax ELSE r.head)
      /\ q.count = IF r.count = ReceiverChainsMax THEN r.count ELSE r.count + 1
  BY <1>1, <1>4, PushIs
<1>9. Push(y, pk, g[c]) =
       [slots |-> [y.slots EXCEPT ![p] = NewChain(pk, g[c])],
        head  |-> IF y.count = ReceiverChainsMax THEN (y.head + 1) % ReceiverChainsMax ELSE y.head,
        count |-> IF y.count = ReceiverChainsMax THEN y.count ELSE y.count + 1]
  BY <1>6, <1>7, PushIs
<1> QED
  BY <1>1, <1>3, <1>6, <1>8, <1>9 DEF NewChain

(* So PutChain on cells is PutChain on what the cells hold.                *)
LEMMA PutValue ==
  ASSUME NEW r, NEW cells, RingIn(r, cells), RingApart(r), NEW pk, HasChain(r, pk),
         NEW c, c # NoKey, c \notin RingCells(r), NEW nr \in Int, NEW f, NEW g,
         \A x \in RingCells(r) \ {GetChain(r, pk).ck} : g[x] = f[x]
  PROVE  MapRing(PutChain(r, pk, c, nr), g) = PutChain(MapRing(r, f), pk, g[c], nr)
<1>1. PICK q, p, y : q = PutChain(r, pk, c, nr) /\ p = SlotAt(r, PositionOf(r, pk))
                     /\ y = MapRing(r, f)
  OBVIOUS
<1>2. /\ p \in Slots /\ SlotAt(y, PositionOf(y, pk)) = p /\ GetChain(r, pk) = r.slots[p]
  BY <1>1, MapRingLookup DEF LooksUp
<1>3. Rewrites(q, r, p, pk, c, nr)
  BY <1>1, PutRewrites
<1>4. MapRing(q, g) = [slots |-> [y.slots EXCEPT ![p] = [pk |-> pk, ck |-> g[c], nr |-> nr]],
                       head |-> q.head, count |-> q.count]
  <2>1. \A x \in RingCells(r) \ {r.slots[p].ck} : g[x] = f[x]
    BY <1>2
  <2>2. RewrittenValue(MapRing(q, g), MapRing(r, f), q, p, pk, g[c], nr)
    BY <1>2, <1>3, <2>1, RewritesValue
  <2> QED
    BY <1>1, <2>2 DEF RewrittenValue
<1>5. r = [slots |-> r.slots, head |-> r.head, count |-> r.count]
  BY DEF RingIn
<1>6. RingSeen(y, r, f)
  BY <1>1, MapRingFacts
<1>7. y = [slots |-> y.slots, head |-> y.head, count |-> y.count]
      /\ y.head = r.head /\ y.count = r.count
  BY <1>6 DEF RingSeen
<1>8. q.head = r.head /\ q.count = r.count
  BY <1>1, <1>5, PutChainIs
<1>9. PutChain(y, pk, g[c], nr) =
       [slots |-> [y.slots EXCEPT ![p] = [pk |-> pk, ck |-> g[c], nr |-> nr]],
        head |-> y.head, count |-> y.count]
  BY <1>2, <1>7, PutChainIs
<1> QED
  BY <1>1, <1>4, <1>7, <1>8, <1>9

(* The store of cells, as a value.                                         *)
StoreSeen(q, st, f) ==
  /\ q = [entries |-> q.entries, order |-> q.order] /\ q.order = st.order
  /\ q.entries = [id \in DOMAIN st.entries |-> f[st.entries[id]]]
  /\ DOMAIN q.entries = DOMAIN st.entries
(* The value of a store has the same order and the same identifiers.       *)
LEMMA MapStoreIs ==
  ASSUME NEW st, NEW f, st = [entries |-> st.entries, order |-> st.order]
  PROVE  MapStore(st, f) = [entries |-> [id \in DOMAIN st.entries |-> f[st.entries[id]]],
                            order |-> st.order]
<1>1. PICK e : e = [id \in DOMAIN st.entries |-> f[st.entries[id]]]
  OBVIOUS
<1> QED
  BY <1>1 DEF MapStore

(* A store of cells, seen as a value, has these fields.                    *)
LEMMA MapStoreFacts ==
  ASSUME NEW st, NEW cells, NEW f, StoreIn(st, cells)
  PROVE  StoreSeen(MapStore(st, f), st, f)
BY DEF StoreSeen, MapStore, StoreIn

(* What is left of a store when entries go.                                *)
Fewer(q, st) ==
  /\ q = [entries |-> q.entries, order |-> q.order]
  /\ DOMAIN q.entries \subseteq DOMAIN st.entries
  /\ q.entries = [x \in DOMAIN q.entries |-> st.entries[x]]
(* Dropping entries leaves a store that refers to no cell twice.           *)
LEMMA FewerFacts ==
  ASSUME NEW st, NEW cells, StoreIn(st, cells), StoreApart(st), NEW q, Fewer(q, st)
  PROVE  StoreIn(q, cells) /\ StoreApart(q) /\ StoreCells(q) \subseteq StoreCells(st)
<1>1. \A x \in DOMAIN q.entries : x \in DOMAIN st.entries /\ q.entries[x] = st.entries[x]
  BY DEF Fewer
<1>2. StoreIn(q, cells)
  BY <1>1 DEF StoreIn, Fewer
<1>3. StoreApart(q)
  BY <1>1 DEF StoreApart
<1>4. StoreCells(q) \subseteq StoreCells(st)
  BY <1>1 DEF StoreCells
<1> QED
  BY <1>2, <1>3, <1>4

(* Consume                                                                 *)
LEMMA ConsumeFewer ==
  ASSUME NEW st, NEW id
  PROVE  Fewer(Consume(st, id), st) /\ DOMAIN Consume(st, id).entries = DOMAIN st.entries \ {id}
BY DEF Fewer, Consume, Without

(* Consume on cells is Consume on what the cells hold, when only the       *)
(* consumed entry's key has changed.                                       *)
LEMMA ConsumeValue ==
  ASSUME NEW st, NEW cells, StoreIn(st, cells), NEW id, NEW f, NEW g,
         \A x \in DOMAIN st.entries \ {id} : g[st.entries[x]] = f[st.entries[x]]
  PROVE  MapStore(Consume(st, id), g) = Consume(MapStore(st, f), id)
<1>1. PICK y : y = MapStore(st, f)
  OBVIOUS
<1>2. StoreSeen(y, st, f)
  BY <1>1, MapStoreFacts
<1>3. Consume(st, id) = [entries |-> [x \in DOMAIN st.entries \ {id} |-> st.entries[x]],
                         order |-> RemoveFirst(st.order, id)]
  BY DEF Consume, Without
<1>4. MapStore(Consume(st, id), g) =
        [entries |-> [x \in DOMAIN st.entries \ {id} |-> g[st.entries[x]]],
         order |-> RemoveFirst(st.order, id)]
  BY <1>3 DEF MapStore
<1>5. Consume(y, id) = [entries |-> [x \in DOMAIN st.entries \ {id} |-> f[st.entries[x]]],
                        order |-> RemoveFirst(st.order, id)]
  BY <1>2 DEF Consume, Without, StoreSeen
<1> QED
  BY <1>1, <1>4, <1>5

(* and Store.                                                              *)
LEMMA RoomFewer ==
  ASSUME NEW st, NEW cells, StoreIn(st, cells)
  PROVE  Fewer(MakeRoom(st, MaxSkip), st)
<1>1. Fewer(EvictOldest(st), st)
  BY DEF Fewer, EvictOldest, Without
<1>2. Fewer(st, st)
  BY DEF Fewer, StoreIn
<1> QED
  BY <1>1, <1>2 DEF MakeRoom

(* MakeRoom evicts the same entry from the store of cells and from its     *)
(* value.                                                                  *)
LEMMA RoomValue ==
  ASSUME NEW st, NEW cells, StoreIn(st, cells), NEW f, NEW g,
         \A x \in DOMAIN st.entries : g[st.entries[x]] = f[st.entries[x]]
  PROVE  MapStore(MakeRoom(st, MaxSkip), g) = MakeRoom(MapStore(st, f), MaxSkip)
<1>1. PICK y : y = MapStore(st, f)
  OBVIOUS
<1>2. StoreSeen(y, st, f)
  BY <1>1, MapStoreFacts
<1>3. MapStore(EvictOldest(st), g) = EvictOldest(y)
  <2>1. EvictOldest(st) =
          [entries |-> [x \in DOMAIN st.entries \ {Head(st.order)} |-> st.entries[x]],
           order |-> Tail(st.order)]
    BY DEF EvictOldest, Without
  <2>2. MapStore(EvictOldest(st), g) =
          [entries |-> [x \in DOMAIN st.entries \ {Head(st.order)} |-> g[st.entries[x]]],
           order |-> Tail(st.order)]
    <3>1. PICK ev, h : ev = EvictOldest(st) /\ h = Head(st.order)
      OBVIOUS
    <3>2. /\ ev = [entries |-> ev.entries, order |-> Tail(st.order)]
          /\ ev.entries = [x \in DOMAIN st.entries \ {h} |-> st.entries[x]]
      BY <2>1, <3>1
    <3>3. [x \in DOMAIN ev.entries |-> g[ev.entries[x]]]
            = [x \in DOMAIN st.entries \ {h} |-> g[st.entries[x]]]
      BY <3>2
    <3>4. MapStore(ev, g) = [entries |-> [x \in DOMAIN ev.entries |-> g[ev.entries[x]]],
                             order |-> Tail(st.order)]
      <4>1. ev = [entries |-> ev.entries, order |-> ev.order] /\ ev.order = Tail(st.order)
        BY <3>2
      <4> QED
        BY <4>1, MapStoreIs
    <3> QED
      BY <3>1, <3>3, <3>4
  <2>3. EvictOldest(y) =
          [entries |-> [x \in DOMAIN st.entries \ {Head(st.order)} |-> f[st.entries[x]]],
           order |-> Tail(st.order)]
    BY <1>2 DEF EvictOldest, Without, StoreSeen
  <2> QED
    BY <2>2, <2>3
<1>4. MapStore(st, g) = y
  <2>1. [id \in DOMAIN st.entries |-> g[st.entries[id]]]
          = [id \in DOMAIN st.entries |-> f[st.entries[id]]]
    OBVIOUS
  <2> QED
    BY <1>1, <2>1 DEF MapStore
<1> QED
  BY <1>1, <1>2, <1>3, <1>4 DEF MakeRoom, StoreSeen

(* Store on cells is Store on what the cells hold.                         *)
LEMMA StoreValue ==
  ASSUME NEW st, NEW cells, StoreIn(st, cells), NEW id, NEW c, NEW f, NEW g,
         \A x \in DOMAIN st.entries : g[st.entries[x]] = f[st.entries[x]]
  PROVE  MapStore(Store(st, MaxSkip, id, c), g) = Store(MapStore(st, f), MaxSkip, id, g[c])
<1>1. PICK y, room : y = MapStore(st, f) /\ room = MakeRoom(st, MaxSkip)
  OBVIOUS
<1>2. StoreSeen(y, st, f)
  BY <1>1, MapStoreFacts
<1>3. MapStore(room, g) = MakeRoom(y, MaxSkip) /\ Fewer(room, st)
  BY <1>1, RoomValue, RoomFewer
<1>4. MapStore(st, g) = y
  <2>1. [x \in DOMAIN st.entries |-> g[st.entries[x]]]
          = [x \in DOMAIN st.entries |-> f[st.entries[x]]]
    OBVIOUS
  <2> QED
    BY <1>1, <2>1 DEF MapStore
<1>5. CASE HasKey(st, id)
  BY <1>1, <1>2, <1>4, <1>5 DEF Store, HasKey, StoreSeen
<1>6. CASE ~HasKey(st, id)
  <2>1. Store(st, MaxSkip, id, c) = Insert(room, id, c)
        /\ Store(y, MaxSkip, id, g[c]) = Insert(MapStore(room, g), id, g[c])
    BY <1>1, <1>2, <1>3, <1>6, MaxSkipAssumption DEF Store, HasKey, StoreSeen
  <2>2. MapStore(room, g) = [entries |-> [x \in DOMAIN room.entries |-> g[room.entries[x]]],
                             order |-> room.order]
    BY <1>3 DEF MapStore, Fewer
  <2>3. MapStore(Insert(room, id, c), g) = Insert(MapStore(room, g), id, g[c])
    <3>1. Insert(room, id, c) =
            [entries |-> [x \in DOMAIN room.entries \cup {id} |->
                            IF x = id THEN c ELSE room.entries[x]],
             order |-> Append(room.order, id)]
      BY DEF Insert
    <3>2. MapStore(Insert(room, id, c), g) =
            [entries |-> [x \in DOMAIN room.entries \cup {id} |->
                            IF x = id THEN g[c] ELSE g[room.entries[x]]],
             order |-> Append(room.order, id)]
      <4>1. PICK q : q = Insert(room, id, c)
        OBVIOUS
      <4>2. /\ q = [entries |-> q.entries, order |-> Append(room.order, id)]
            /\ q.entries = [x \in DOMAIN room.entries \cup {id} |->
                              IF x = id THEN c ELSE room.entries[x]]
        BY <3>1, <4>1
      <4>3. [x \in DOMAIN q.entries |-> g[q.entries[x]]]
              = [x \in DOMAIN room.entries \cup {id} |->
                   IF x = id THEN g[c] ELSE g[room.entries[x]]]
        BY <4>2
      <4>4. MapStore(q, g) = [entries |-> [x \in DOMAIN q.entries |-> g[q.entries[x]]],
                              order |-> Append(room.order, id)]
        <5>1. q = [entries |-> q.entries, order |-> q.order] /\ q.order = Append(room.order, id)
          BY <4>2
        <5> QED
          BY <5>1, MapStoreIs
      <4> QED
        BY <4>1, <4>3, <4>4
    <3>3. Insert(MapStore(room, g), id, g[c]) =
            [entries |-> [x \in DOMAIN room.entries \cup {id} |->
                            IF x = id THEN g[c] ELSE g[room.entries[x]]],
             order |-> Append(room.order, id)]
      <4>1. PICK z : z = MapStore(room, g)
        OBVIOUS
      <4>2. z.order = room.order
            /\ z.entries = [x \in DOMAIN room.entries |-> g[room.entries[x]]]
        BY <2>2, <4>1
      <4>3. [x \in DOMAIN z.entries \cup {id} |-> IF x = id THEN g[c] ELSE z.entries[x]]
              = [x \in DOMAIN room.entries \cup {id} |->
                   IF x = id THEN g[c] ELSE g[room.entries[x]]]
        BY <4>2
      <4> QED
        BY <4>1, <4>2, <4>3 DEF Insert
    <3> QED
      BY <3>2, <3>3
  <2> QED
    BY <1>1, <2>1, <2>3
<1> QED
  BY <1>5, <1>6

(* A store is made of the old cells and the new one.                       *)
StoreTakesIn(q, st, cells, c) ==
  StoreIn(q, cells \cup {c}) /\ StoreApart(q) /\ StoreCells(q) \subseteq StoreCells(st) \cup {c}
(* Storing a key under a new cell refers to no cell twice.                 *)
LEMMA StoreRefs ==
  ASSUME NEW st, NEW cells, StoreIn(st, cells), StoreApart(st), NEW id, NEW c,
         c \notin StoreCells(st)
  PROVE  StoreTakesIn(Store(st, MaxSkip, id, c), st, cells, c)
<1>1. PICK room : room = MakeRoom(st, MaxSkip)
  OBVIOUS
<1>2. StoreIn(room, cells) /\ StoreApart(room) /\ StoreCells(room) \subseteq StoreCells(st)
  BY <1>1, RoomFewer, FewerFacts
<1>3. ASSUME NEW q, q = st
      PROVE  StoreTakesIn(q, st, cells, c)
  BY <1>3 DEF StoreIn, StoreTakesIn
<1>4. ASSUME NEW q, q = Insert(room, id, c)
      PROVE  StoreTakesIn(q, st, cells, c)
  <2>1. /\ q = [entries |-> q.entries, order |-> q.order]
        /\ q.entries = [x \in DOMAIN room.entries \cup {id} |->
                          IF x = id THEN c ELSE room.entries[x]]
    BY <1>4 DEF Insert
  <2>2. \A x \in DOMAIN q.entries :
          \/ x = id /\ q.entries[x] = c
          \/ x # id /\ x \in DOMAIN room.entries /\ q.entries[x] = room.entries[x]
    BY <2>1
  <2>3. StoreIn(q, cells \cup {c})
    BY <1>2, <2>1, <2>2 DEF StoreIn
  <2>4. StoreCells(q) \subseteq StoreCells(st) \cup {c}
    BY <1>2, <2>2 DEF StoreCells
  <2>5. \A x \in DOMAIN room.entries : room.entries[x] # c
    BY <1>2 DEF StoreCells
  <2>6. StoreApart(q)
    BY <1>2, <2>2, <2>5 DEF StoreApart
  <2> QED
    BY <2>3, <2>4, <2>6 DEF StoreTakesIn
<1> QED
  BY <1>1, <1>3, <1>4 DEF Store

(* What is in DOMAIN m.keys is an integer, so not nil.                     *)
LEMMA CellsNotNil ==
  ASSUME NEW m, HeapOK(m)
  PROVE  NoKey \notin DOMAIN m.keys
BY NilAssumption DEF HeapOK, RefsOK

(* What is used of a good heap, in the pieces the proofs use.              *)
LEMMA GoodFacts ==
  ASSUME NEW m, Good(m)
  PROVE  /\ HeapOK(m) /\ RefsIn(m, m.s) /\ Apart(m, m.s) /\ NoKey \notin DOMAIN m.keys
         /\ m.s = [f \in SessionFields |-> m.s[f]]
         /\ m.s.rk \in DOMAIN m.keys /\ m.s.cks \in DOMAIN m.keys \cup {NoKey} /\ m.s.rk # m.s.cks
         /\ m.s.recvChains \in DOMAIN m.rings /\ m.s.mkSkipped \in DOMAIN m.stores
         /\ RingIn(m.rings[m.s.recvChains], DOMAIN m.keys) /\ RingApart(m.rings[m.s.recvChains])
         /\ StoreIn(m.stores[m.s.mkSkipped], DOMAIN m.keys) /\ StoreApart(m.stores[m.s.mkSkipped])
         /\ CellsOf(m, m.s) \subseteq DOMAIN m.keys
         /\ RingCells(m.rings[m.s.recvChains]) \subseteq CellsOf(m, m.s)
         /\ StoreCells(m.stores[m.s.mkSkipped]) \subseteq CellsOf(m, m.s)
<1>1. HeapOK(m) /\ RefsIn(m, m.s) /\ Apart(m, m.s)
  BY DEF Good, OwnerOK
<1>2. NoKey \notin DOMAIN m.keys /\ CellsOf(m, m.s) \subseteq DOMAIN m.keys
  BY <1>1, CellsNotNil, CellsAreThere
<1> QED
  BY Zenon, <1>1, <1>2 DEF RefsIn, Apart, CellsOf

(* The session is given new slices for its root and sending chain keys, or *)
(* keeps those it had, and its objects stay.                               *)
SlicesGone(m, q) ==
  /\ Good(q) /\ Frame(m, q)
  /\ ValueOf(q, q.s).recvChains = ValueOf(m, m.s).recvChains
  /\ ValueOf(q, q.s).mkSkipped = ValueOf(m, m.s).mkSkipped
(* When the new slices are new cells, or those the session had, the heap   *)
(* stays good and what is not the session's is untouched.                  *)
LEMMA SlicesGo ==
  ASSUME NEW m, Good(m), NEW q, HeapOK(q),
         q.prev = m.prev, q.rings = m.rings, q.stores = m.stores,
         q.s = [f \in SessionFields |-> q.s[f]],
         q.s.recvChains = m.s.recvChains, q.s.mkSkipped = m.s.mkSkipped,
         DOMAIN m.keys \subseteq DOMAIN q.keys,
         \A c \in DOMAIN m.keys \ {m.s.rk, m.s.cks} : q.keys[c] = m.keys[c],
         q.s.rk = m.s.rk \/ q.s.rk \in DOMAIN q.keys \ DOMAIN m.keys,
         q.s.cks = m.s.cks \/ q.s.cks \in DOMAIN q.keys \ DOMAIN m.keys,
         q.s.rk # q.s.cks
  PROVE  SlicesGone(m, q)
<1>1. PICK ring, st : ring = m.rings[m.s.recvChains] /\ st = m.stores[m.s.mkSkipped]
  OBVIOUS
<1>2. /\ RefsIn(m, m.s) /\ Apart(m, m.s) /\ NoKey \notin DOMAIN m.keys
      /\ m.s.rk \in DOMAIN m.keys /\ m.s.cks \in DOMAIN m.keys \cup {NoKey}
      /\ m.s.recvChains \in DOMAIN m.rings /\ m.s.mkSkipped \in DOMAIN m.stores
      /\ RingIn(ring, DOMAIN m.keys) /\ StoreIn(st, DOMAIN m.keys)
      /\ RingCells(ring) \subseteq DOMAIN m.keys /\ StoreCells(st) \subseteq DOMAIN m.keys
  BY <1>1, GoodFacts
<1>3. /\ m.s.rk \notin RingCells(ring) /\ m.s.cks \notin RingCells(ring)
      /\ m.s.rk \notin StoreCells(st) /\ m.s.cks \notin StoreCells(st)
      /\ RingCells(ring) \cap StoreCells(st) = {} /\ RingApart(ring) /\ StoreApart(st)
  BY <1>1, <1>2 DEF Apart
<1>4. q.rings[q.s.recvChains] = ring /\ q.stores[q.s.mkSkipped] = st
  BY <1>1
<1>5. RefsIn(q, q.s)
  <2>1. RingIn(ring, DOMAIN q.keys)
    BY <1>2 DEF RingIn
  <2>2. StoreIn(st, DOMAIN q.keys)
    BY <1>2 DEF StoreIn
  <2> QED
    BY <1>2, <1>4, <2>1, <2>2 DEF RefsIn
<1>6. Apart(q, q.s)
  <2>1. q.s.rk \notin RingCells(ring) /\ q.s.cks \notin RingCells(ring)
        /\ q.s.rk \notin StoreCells(st) /\ q.s.cks \notin StoreCells(st)
    BY <1>2, <1>3
  <2> QED
    BY <1>3, <1>4, <2>1 DEF Apart
<1>7. Frame(m, q)
  <2>1. CellsOf(q, q.s) \subseteq CellsOf(m, m.s) \cup (DOMAIN q.keys \ DOMAIN m.keys)
    BY <1>1, <1>4 DEF CellsOf
  <2>2. \A c \in DOMAIN m.keys \ CellsOf(m, m.s) : q.keys[c] = m.keys[c]
    BY <1>2 DEF CellsOf
  <2> QED
    BY <2>1, <2>2 DEF Frame
<1>8. MapRing(ring, q.keys) = MapRing(ring, m.keys)
  <2>1. \A c \in RingCells(ring) : q.keys[c] = m.keys[c]
    BY <1>2, <1>3
  <2>2. ring.slots = [j \in Slots |-> ring.slots[j]]
    BY <1>2 DEF RingIn
  <2> QED
    BY <2>1, <2>2, SameRingValue
<1>9. MapStore(st, q.keys) = MapStore(st, m.keys)
  <2>1. \A c \in StoreCells(st) : q.keys[c] = m.keys[c]
    BY <1>2, <1>3
  <2> QED
    BY <2>1, SameStoreValue
<1>10. /\ ValueOf(q, q.s).recvChains = MapRing(ring, q.keys)
       /\ ValueOf(m, m.s).recvChains = MapRing(ring, m.keys)
       /\ ValueOf(q, q.s).mkSkipped = MapStore(st, q.keys)
       /\ ValueOf(m, m.s).mkSkipped = MapStore(st, m.keys)
  <2>1. ValueSeen(ValueOf(q, q.s), q, q.s)
    BY ValueFields
  <2>2. ValueSeen(ValueOf(m, m.s), m, m.s)
    BY <1>2, ValueFields DEF RefsIn
  <2>3. /\ ValueOf(q, q.s).recvChains = MapRing(q.rings[q.s.recvChains], q.keys)
        /\ ValueOf(q, q.s).mkSkipped = MapStore(q.stores[q.s.mkSkipped], q.keys)
    BY <2>1 DEF ValueSeen
  <2>4. /\ ValueOf(m, m.s).recvChains = MapRing(m.rings[m.s.recvChains], m.keys)
        /\ ValueOf(m, m.s).mkSkipped = MapStore(m.stores[m.s.mkSkipped], m.keys)
    BY <2>2 DEF ValueSeen
  <2> QED
    BY <1>1, <1>4, <2>3, <2>4
<1> QED
  BY <1>5, <1>6, <1>7, <1>8, <1>9, <1>10 DEF SlicesGone, Good, OwnerOK

(* A chain of the session's ring is rewritten, with a new slice.           *)
RingGone(m, q, z) ==
  /\ Good(q) /\ Frame(m, q)
  /\ ValueOf(q, q.s) = [ValueOf(m, m.s) EXCEPT !.recvChains = MapRing(z, q.keys)]
(* A ring rewritten with a new cell leaves a good heap, whose value        *)
(* differs in the receiver chains alone.                                   *)
LEMMA RingGoes ==
  ASSUME NEW m, Good(m), NEW q, HeapOK(q), q.prev = m.prev, q.s = m.s, q.stores = m.stores,
         DOMAIN m.keys \subseteq DOMAIN q.keys, DOMAIN q.rings = DOMAIN m.rings,
         \A x \in DOMAIN m.rings \ {m.s.recvChains} : q.rings[x] = m.rings[x],
         NEW ring, ring = m.rings[m.s.recvChains], NEW z, z = q.rings[m.s.recvChains],
         NEW p \in Slots, NEW pk, NEW c \in DOMAIN q.keys \ DOMAIN m.keys, NEW nr \in Int,
         Rewrites(z, ring, p, pk, c, nr),
         \A x \in DOMAIN m.keys \ {ring.slots[p].ck} : q.keys[x] = m.keys[x]
  PROVE  RingGone(m, q, z)
<1>1. PICK st : st = m.stores[m.s.mkSkipped]
  OBVIOUS
<1>2. /\ RefsIn(m, m.s) /\ Apart(m, m.s) /\ NoKey \notin DOMAIN m.keys
      /\ m.s.rk \in DOMAIN m.keys /\ m.s.cks \in DOMAIN m.keys \cup {NoKey}
      /\ m.s.recvChains \in DOMAIN m.rings /\ m.s.mkSkipped \in DOMAIN m.stores
      /\ RingIn(ring, DOMAIN m.keys) /\ StoreIn(st, DOMAIN m.keys)
      /\ RingCells(ring) \subseteq DOMAIN m.keys /\ StoreCells(st) \subseteq DOMAIN m.keys
      /\ m.s = [f \in SessionFields |-> m.s[f]] /\ m.s.rk # m.s.cks
  BY <1>1, GoodFacts
<1>3. /\ m.s.rk \notin RingCells(ring) /\ m.s.cks \notin RingCells(ring)
      /\ m.s.rk \notin StoreCells(st) /\ m.s.cks \notin StoreCells(st)
      /\ RingCells(ring) \cap StoreCells(st) = {} /\ RingApart(ring) /\ StoreApart(st)
  BY Zenon, <1>1, <1>2 DEF Apart
<1>4. c # NoKey /\ c \notin RingCells(ring) /\ c \notin StoreCells(st) /\ c # m.s.rk
      /\ c # m.s.cks
  BY Zenon, <1>2, CellsNotNil
<1>5. /\ RingIn(z, DOMAIN m.keys \cup {c}) /\ RingApart(z)
      /\ RingCells(z) = (RingCells(ring) \ {ring.slots[p].ck}) \cup {c}
  <2>1. Rewritten(z, ring, p, c, DOMAIN m.keys)
    BY Zenon, <1>2, <1>3, <1>4, RewritesFacts
  <2> QED
    BY <2>1 DEF Rewritten
<1>6. q.rings[q.s.recvChains] = z /\ q.stores[q.s.mkSkipped] = st
  BY <1>1
<1>7. RefsIn(q, q.s)
  <2>1. RingIn(z, DOMAIN q.keys)
    BY Zenon, <1>5 DEF RingIn
  <2>2. StoreIn(st, DOMAIN q.keys)
    BY Zenon, <1>2 DEF StoreIn
  <2> QED
    BY Zenon, <1>2, <1>6, <2>1, <2>2 DEF RefsIn
<1>8. Apart(q, q.s)
  BY Zenon, <1>2, <1>3, <1>4, <1>5, <1>6 DEF Apart
<1>9. ring.slots[p].ck \in RingCells(ring) \cup {NoKey}
  BY DEF RingCells
<1>10. Frame(m, q)
  <2>1. CellsOf(q, q.s) \subseteq CellsOf(m, m.s) \cup (DOMAIN q.keys \ DOMAIN m.keys)
    BY Zenon, <1>1, <1>5, <1>6 DEF CellsOf
  <2>2. \A x \in DOMAIN m.keys \ CellsOf(m, m.s) : q.keys[x] = m.keys[x]
    BY Zenon, <1>2, <1>9 DEF CellsOf
  <2> QED
    BY <2>1, <2>2 DEF Frame
<1>11. /\ q.keys[m.s.rk] = m.keys[m.s.rk] /\ m.s.rk # NoKey
       /\ m.s.cks # NoKey => q.keys[m.s.cks] = m.keys[m.s.cks]
       /\ MapStore(st, q.keys) = MapStore(st, m.keys)
  <2>1. ASSUME NEW x \in DOMAIN m.keys \ RingCells(ring) PROVE q.keys[x] = m.keys[x]
    <3>1. x # NoKey /\ x \notin RingCells(ring)
      BY Zenon, <1>2
    <3>2. ring.slots[p].ck # x
      BY Zenon, <3>1 DEF RingCells
    <3> QED
      BY <3>2
  <2>2. \A x \in StoreCells(st) : q.keys[x] = m.keys[x]
    BY Zenon, <1>2, <1>3, <2>1
  <2>3. MapStore(st, q.keys) = MapStore(st, m.keys)
    BY <2>2, SameStoreValue
  <2> QED
    BY Zenon, <1>2, <1>3, <2>1, <2>3
<1>12. ValueOf(q, q.s) = [ValueOf(m, m.s) EXCEPT !.recvChains = MapRing(z, q.keys)]
  BY Zenon, <1>1, <1>2, <1>6, <1>11 DEF ValueOf, SessionFields
<1> QED
  BY <1>7, <1>8, <1>10, <1>12 DEF RingGone, Good, OwnerOK

(* Replacing the store of a session twice is replacing it once.            *)
LEMMA StoreReplaced ==
  ASSUME NEW o, o = [f \in SessionFields |-> o[f]], NEW rk, NEW cks, NEW rings, NEW old, NEW new
  PROVE  [o EXCEPT !.rk = rk, !.cks = cks, !.recvChains = rings, !.mkSkipped = new] =
           [[o EXCEPT !.rk = rk, !.cks = cks, !.recvChains = rings, !.mkSkipped = old]
              EXCEPT !.mkSkipped = new]
BY DEF SessionFields

(* The session's store changes, and takes in new slices only.              *)
StoreGone(m, q, z) ==
  /\ Good(q) /\ Frame(m, q)
  /\ ValueOf(q, q.s) = [ValueOf(m, m.s) EXCEPT !.mkSkipped = MapStore(z, q.keys)]
(* A store that takes in new cells leaves a good heap, whose value differs *)
(* in the skipped keys alone.                                              *)
LEMMA StoreGoes ==
  ASSUME NEW m, Good(m), NEW q, HeapOK(q), q.prev = m.prev, q.s = m.s, q.rings = m.rings,
         DOMAIN m.keys \subseteq DOMAIN q.keys, DOMAIN q.stores = DOMAIN m.stores,
         \A x \in DOMAIN m.stores \ {m.s.mkSkipped} : q.stores[x] = m.stores[x],
         NEW st, st = m.stores[m.s.mkSkipped], NEW z, z = q.stores[m.s.mkSkipped],
         StoreIn(z, DOMAIN q.keys), StoreApart(z),
         StoreCells(z) \subseteq StoreCells(st) \cup (DOMAIN q.keys \ DOMAIN m.keys),
         \A x \in DOMAIN m.keys \ StoreCells(st) : q.keys[x] = m.keys[x]
  PROVE  StoreGone(m, q, z)
<1>1. PICK ring : ring = m.rings[m.s.recvChains]
  OBVIOUS
<1>2. /\ RefsIn(m, m.s) /\ Apart(m, m.s) /\ NoKey \notin DOMAIN m.keys
      /\ m.s.rk \in DOMAIN m.keys /\ m.s.cks \in DOMAIN m.keys \cup {NoKey}
      /\ m.s.recvChains \in DOMAIN m.rings /\ m.s.mkSkipped \in DOMAIN m.stores
      /\ RingIn(ring, DOMAIN m.keys) /\ StoreIn(st, DOMAIN m.keys)
      /\ RingCells(ring) \subseteq DOMAIN m.keys /\ StoreCells(st) \subseteq DOMAIN m.keys
      /\ m.s = [f \in SessionFields |-> m.s[f]] /\ m.s.rk # m.s.cks
  BY <1>1, GoodFacts
<1>3. /\ m.s.rk \notin RingCells(ring) /\ m.s.cks \notin RingCells(ring)
      /\ m.s.rk \notin StoreCells(st) /\ m.s.cks \notin StoreCells(st)
      /\ RingCells(ring) \cap StoreCells(st) = {} /\ RingApart(ring) /\ StoreApart(st)
  BY Zenon, <1>1, <1>2 DEF Apart
<1>4. q.rings[q.s.recvChains] = ring /\ q.stores[q.s.mkSkipped] = z
  BY <1>1
<1>5. StoreCells(z) \subseteq DOMAIN q.keys
  <2>1. \A id \in DOMAIN z.entries : z.entries[id] \in DOMAIN q.keys
    BY DEF StoreIn
  <2> QED
    BY <2>1 DEF StoreCells
<1>6. m.s.cks \notin StoreCells(z)
  BY <1>2, <1>3, <1>5, CellsNotNil
<1>7. RefsIn(q, q.s)
  <2>1. RingIn(ring, DOMAIN q.keys)
    BY <1>2 DEF RingIn
  <2> QED
    BY <1>2, <1>4, <2>1 DEF RefsIn
<1>8. Apart(q, q.s)
  <2>1. m.s.rk \notin StoreCells(z) /\ RingCells(ring) \cap StoreCells(z) = {}
    BY <1>2, <1>3
  <2> QED
    BY Zenon, <1>2, <1>3, <1>4, <1>6, <2>1 DEF Apart
<1>9. Frame(m, q)
  <2>1. CellsOf(q, q.s) \subseteq CellsOf(m, m.s) \cup (DOMAIN q.keys \ DOMAIN m.keys)
    BY <1>1, <1>4 DEF CellsOf
  <2>2. \A x \in DOMAIN m.keys \ CellsOf(m, m.s) : q.keys[x] = m.keys[x]
    BY DEF CellsOf
  <2> QED
    BY <2>1, <2>2 DEF Frame
<1>10. /\ q.keys[m.s.rk] = m.keys[m.s.rk] /\ m.s.rk # NoKey
       /\ m.s.cks # NoKey => q.keys[m.s.cks] = m.keys[m.s.cks]
       /\ MapRing(ring, q.keys) = MapRing(ring, m.keys)
  <2>1. \A x \in RingCells(ring) : q.keys[x] = m.keys[x]
    BY <1>2, <1>3
  <2>2. ring.slots = [j \in Slots |-> ring.slots[j]]
    BY <1>2 DEF RingIn
  <2>3. MapRing(ring, q.keys) = MapRing(ring, m.keys)
    BY <2>1, <2>2, SameRingValue
  <2> QED
    BY <1>2, <1>3, <2>3
<1>11. ValueOf(q, q.s) = [ValueOf(m, m.s) EXCEPT !.mkSkipped = MapStore(z, q.keys)]
  <2>1. PICK o, rk, cks, rings, old, new :
          /\ o = m.s /\ rk = m.keys[o.rk].root
          /\ cks = (IF o.cks = NoKey THEN NoChainKey ELSE m.keys[o.cks])
          /\ rings = MapRing(ring, m.keys)
          /\ old = MapStore(m.stores[o.mkSkipped], m.keys) /\ new = MapStore(z, q.keys)
    OBVIOUS
  <2>2. ValueOf(m, m.s) = [o EXCEPT !.rk = rk, !.cks = cks, !.recvChains = rings,
                                    !.mkSkipped = old]
    BY <1>1, <2>1 DEF ValueOf
  <2>3. ValueOf(q, q.s) = [o EXCEPT !.rk = rk, !.cks = cks, !.recvChains = rings,
                                    !.mkSkipped = new]
    BY <1>1, <1>4, <1>10, <2>1 DEF ValueOf
  <2>4. o = [f \in SessionFields |-> o[f]]
    BY <1>2, <2>1
  <2>5. ValueOf(q, q.s) = [[o EXCEPT !.rk = rk, !.cks = cks, !.recvChains = rings,
                                     !.mkSkipped = old] EXCEPT !.mkSkipped = new]
    BY Zenon, <2>3, <2>4, StoreReplaced
  <2>6. MapStore(z, q.keys) = new
    BY <2>1
  <2> QED
    BY <2>2, <2>5, <2>6
<1> QED
  BY <1>7, <1>8, <1>9, <1>11 DEF StoreGone, Good, OwnerOK

(* A step of a call from heap m to heap q leaves the session with value v. *)
Goes(m, q, v) == Good(q) /\ Frame(m, q) /\ ValueOf(q, q.s) = v

(* Two operations one after the other are one.                             *)
LEMMA GoesTrans ==
  ASSUME NEW m, NEW x, NEW q, NEW v, NEW w, Goes(m, x, v), Goes(x, q, w)
  PROVE  Goes(m, q, w)
BY FrameTrans DEF Goes

(* What a root key is turned into is a key.                                *)
LEMMA RootShape ==
  ASSUME NEW root
  PROVE  /\ KeyShape(RootSlice(root)) /\ RootSlice(root).root = root
         /\ KeyShape(FirstChainKey(root)) /\ FirstChainKey(root).root = root
BY DEF KeyShape, RootSlice, FirstChainKey

(* What a chain key is turned into is a key.                               *)
LEMMA ChainShape ==
  ASSUME NEW ck, KeyShape(ck), NEW k \in Int
  PROVE  /\ KeyShape(ChainKeyAt(ck, k)) /\ KeyShape(DeriveNextChainKey(ck))
         /\ KeyShape(DeriveMessageKey(ck))
BY DEF KeyShape, ChainKeyAt, DeriveNextChainKey, DeriveMessageKey

(* Two sessions are the same when all their fields are.                    *)
SessionShape(v) == v = [f \in SessionFields |-> v[f]]
(* Equality of sessions, field by field.                                   *)
LEMMA SameSession ==
  ASSUME NEW a, NEW b, SessionShape(a), SessionShape(b), a.rk = b.rk, a.cks = b.cks,
         a.ns = b.ns, a.pn = b.pn, a.dhs = b.dhs, a.dhr = b.dhr, a.dhRSet = b.dhRSet,
         a.dhRatchetPerformed = b.dhRatchetPerformed, a.recvChains = b.recvChains,
         a.mkSkipped = b.mkSkipped
  PROVE  a = b
<1>1. \A f \in SessionFields : a[f] = b[f]
  BY DEF SessionFields
<1> QED
  BY <1>1 DEF SessionShape

(* The session of a good heap, and its value, have the fields of the       *)
(* struct.                                                                 *)
LEMMA GoodShape ==
  ASSUME NEW m, Good(m)
  PROVE  ValueSeen(ValueOf(m, m.s), m, m.s) /\ SessionShape(ValueOf(m, m.s)) /\ SessionShape(m.s)
<1>1. m.s = [f \in SessionFields |-> m.s[f]]
  BY GoodFacts
<1>2. ValueSeen(ValueOf(m, m.s), m, m.s)
  BY <1>1, ValueFields
<1> QED
  BY <1>1, <1>2 DEF ValueSeen, SessionShape

(* Fields that are no references.                                          *)
Dressed(v, o) ==
  [v EXCEPT !.ns = o.ns, !.pn = o.pn, !.dhs = o.dhs, !.dhr = o.dhr, !.dhRSet = o.dhRSet,
            !.dhRatchetPerformed = o.dhRatchetPerformed]
(* The value, put together from the slices and the rest.                   *)
Put(w, v, o, rk, cks) == w = [Dressed(v, o) EXCEPT !.rk = rk, !.cks = cks]
(* When only slices and plain fields change, the value is the old one with *)
(* those fields replaced.                                                  *)
LEMMA SlicesValue ==
  ASSUME NEW m, Good(m), NEW q,
         NEW rk, rk = q.keys[q.s.rk].root,
         NEW cks, cks = IF q.s.cks = NoKey THEN NoChainKey ELSE q.keys[q.s.cks],
         SlicesGone(m, q)
  PROVE  Put(ValueOf(q, q.s), ValueOf(m, m.s), q.s, rk, cks)
<1>1. PICK v, w : v = ValueOf(m, m.s) /\ w = ValueOf(q, q.s)
  OBVIOUS
<1>2. ValueSeen(v, m, m.s) /\ ValueSeen(w, q, q.s)
  BY <1>1, GoodFacts, ValueFields DEF SlicesGone
<1>3. /\ v = [f \in SessionFields |-> v[f]] /\ w = [f \in SessionFields |-> w[f]]
      /\ w.rk = rk /\ w.cks = cks /\ \A f \in PlainFields : w[f] = q.s[f]
      /\ w.recvChains = v.recvChains /\ w.mkSkipped = v.mkSkipped
  BY <1>1, <1>2 DEF ValueSeen, SlicesGone
<1>4. w = [Dressed(v, q.s) EXCEPT !.rk = rk, !.cks = cks]
  BY <1>3 DEF Dressed, SessionFields, PlainFields
<1> QED
  BY <1>1, <1>4 DEF Put

(* What that makes of each field.                                          *)
LEMMA PutFields ==
  ASSUME NEW w, NEW v, NEW o, NEW rk, NEW cks, Put(w, v, o, rk, cks), SessionShape(v)
  PROVE  /\ SessionShape(w) /\ w.rk = rk /\ w.cks = cks /\ w.ns = o.ns /\ w.pn = o.pn
         /\ w.dhs = o.dhs /\ w.dhr = o.dhr /\ w.dhRSet = o.dhRSet
         /\ w.dhRatchetPerformed = o.dhRatchetPerformed
         /\ w.recvChains = v.recvChains /\ w.mkSkipped = v.mkSkipped
BY Zenon DEF Put, Dressed, SessionShape, SessionFields

(* The same slices and objects, and other fields that change,              *)
LEMMA PlainGoes ==
  ASSUME NEW m, Good(m), NEW o, o = [f \in SessionFields |-> o[f]], o.rk = m.s.rk,
         o.cks = m.s.cks, o.recvChains = m.s.recvChains, o.mkSkipped = m.s.mkSkipped
  PROVE  Goes(m, [m EXCEPT !.s = o], Dressed(ValueOf(m, m.s), o))
<1>1. PICK q : q = [m EXCEPT !.s = o]
  OBVIOUS
<1>2. HeapOK(m) /\ m.s.rk # m.s.cks
  BY GoodFacts
<1>3. /\ q = [s |-> o, prev |-> m.prev, keys |-> m.keys, rings |-> m.rings, stores |-> m.stores]
      /\ q.s = o /\ q.keys = m.keys /\ q.rings = m.rings /\ q.stores = m.stores /\ q.prev = m.prev
  BY <1>1, <1>2 DEF HeapOK
<1>4. HeapOK(q)
  BY <1>2, <1>3 DEF HeapOK
<1>5. SlicesGone(m, q)
  BY <1>2, <1>3, <1>4, SlicesGo
<1>6. PICK rk, cks : /\ rk = q.keys[q.s.rk].root
                     /\ cks = IF q.s.cks = NoKey THEN NoChainKey ELSE q.keys[q.s.cks]
  OBVIOUS
<1>7. Put(ValueOf(q, q.s), ValueOf(m, m.s), q.s, rk, cks)
  BY <1>5, <1>6, SlicesValue
<1>8. PICK v : v = ValueOf(m, m.s)
  OBVIOUS
<1>9. v = [f \in SessionFields |-> v[f]] /\ v.rk = rk /\ v.cks = cks
  <2>1. ValueSeen(v, m, m.s)
    BY <1>8, GoodFacts, ValueFields
  <2> QED
    BY <1>3, <1>6, <2>1 DEF ValueSeen
<1>10. [Dressed(v, o) EXCEPT !.rk = rk, !.cks = cks] = Dressed(v, o)
  BY <1>9 DEF Dressed, SessionFields
<1> QED
  BY <1>1, <1>3, <1>5, <1>7, <1>8, <1>10 DEF Goes, Put, SlicesGone

(* a new root key,                                                         *)
WithRoot(m, root) ==
  [Allocate(ZeroBytes(m, {m.s.rk}), RootSlice(root)) EXCEPT !.s.rk = NewCell(m)]
(* Replacing the root key by a new slice and zeroing the old one replaces  *)
(* it in the value.                                                        *)
LEMMA RootGoes ==
  ASSUME NEW m, Good(m), NEW root
  PROVE  /\ Goes(m, WithRoot(m, root), [ValueOf(m, m.s) EXCEPT !.rk = root])
         /\ WithRoot(m, root).rings = m.rings /\ WithRoot(m, root).stores = m.stores
         /\ WithRoot(m, root).s = [m.s EXCEPT !.rk = NewCell(m)]
<1>1. PICK c, z, x, q : c = NewCell(m) /\ z = ZeroBytes(m, {m.s.rk})
                        /\ x = Allocate(z, RootSlice(root)) /\ q = WithRoot(m, root)
  OBVIOUS
<1>2. HeapOK(m) /\ m.s.rk # m.s.cks /\ m.s = [f \in SessionFields |-> m.s[f]]
      /\ m.s.rk \in DOMAIN m.keys /\ m.s.cks \in DOMAIN m.keys \cup {NoKey}
  BY GoodFacts
<1>3. /\ HeapOK(z) /\ DOMAIN z.keys = DOMAIN m.keys
      /\ \A y \in DOMAIN m.keys : z.keys[y] = IF y \in {m.s.rk} THEN Erased ELSE m.keys[y]
      /\ z.s = m.s /\ z.prev = m.prev /\ z.rings = m.rings /\ z.stores = m.stores
  BY <1>1, <1>2, ZeroFacts DEF Blanked
<1>4. NewCell(z) = c
  BY <1>1, <1>3 DEF NewCell, NewIn
<1>5. /\ HeapOK(x) /\ c \in Int \ DOMAIN m.keys /\ c # NoKey
      /\ DOMAIN x.keys = DOMAIN m.keys \cup {c}
      /\ x.keys[c] = RootSlice(root) /\ \A y \in DOMAIN m.keys : x.keys[y] = z.keys[y]
      /\ x.s = m.s /\ x.prev = m.prev /\ x.rings = m.rings /\ x.stores = m.stores
  <2>1. Allocated(x, z, c, RootSlice(root))
    BY <1>1, <1>3, <1>4, AllocateFacts, RootShape
  <2> QED
    BY <1>3, <2>1 DEF Allocated
<1>6. q = [x EXCEPT !.s = [m.s EXCEPT !.rk = c]]
  BY <1>1, <1>5 DEF WithRoot
<1>7. /\ q = [s |-> q.s, prev |-> x.prev, keys |-> x.keys, rings |-> x.rings, stores |-> x.stores]
      /\ q.s = [m.s EXCEPT !.rk = c]
  BY <1>5, <1>6 DEF HeapOK
<1>8. HeapOK(q)
  BY <1>5, <1>7 DEF HeapOK
<1>9. /\ q.s = [f \in SessionFields |-> q.s[f]] /\ q.s.rk = c /\ q.s.cks = m.s.cks
      /\ q.s.recvChains = m.s.recvChains /\ q.s.mkSkipped = m.s.mkSkipped
      /\ \A f \in PlainFields : q.s[f] = m.s[f]
  BY <1>2, <1>7 DEF SessionFields, PlainFields
<1>10. \A y \in DOMAIN m.keys \ {m.s.rk} : q.keys[y] = m.keys[y]
  BY <1>3, <1>5, <1>7
<1>11. SlicesGone(m, q)
  <2>1. q.s.rk # q.s.cks /\ q.s.rk \in DOMAIN q.keys \ DOMAIN m.keys
    BY <1>2, <1>5, <1>7, <1>9
  <2>2. \A y \in DOMAIN m.keys \ {m.s.rk, m.s.cks} : q.keys[y] = m.keys[y]
    BY <1>10
  <2>3. q.prev = m.prev /\ q.rings = m.rings /\ q.stores = m.stores
        /\ DOMAIN m.keys \subseteq DOMAIN q.keys
    BY <1>5, <1>7
  <2> QED
    BY <1>8, <1>9, <2>1, <2>2, <2>3, SlicesGo
<1>12. PICK v, cks : /\ v = ValueOf(m, m.s)
                     /\ cks = IF q.s.cks = NoKey THEN NoChainKey ELSE q.keys[q.s.cks]
  OBVIOUS
<1>13. ValueSeen(v, m, m.s)
  BY <1>2, <1>12, ValueFields
<1>14. v.cks = cks
  <2>1. m.s.cks # NoKey => q.keys[m.s.cks] = m.keys[m.s.cks]
    BY <1>2, <1>10
  <2> QED
    BY <1>9, <1>12, <1>13, <2>1 DEF ValueSeen
<1>15. ValueOf(q, q.s) = [Dressed(v, q.s) EXCEPT !.rk = root, !.cks = cks]
  <2>1. q.keys[q.s.rk].root = root
    BY <1>5, <1>7, <1>9, RootShape
  <2>2. Put(ValueOf(q, q.s), v, q.s, root, cks)
    BY <1>11, <1>12, <2>1, SlicesValue
  <2> QED
    BY <2>2 DEF Put
<1>16. [Dressed(v, q.s) EXCEPT !.rk = root, !.cks = cks] = [v EXCEPT !.rk = root]
  <2>1. v = [f \in SessionFields |-> v[f]] /\ \A f \in PlainFields : v[f] = q.s[f]
    BY <1>9, <1>13 DEF ValueSeen
  <2> QED
    BY <1>14, <2>1 DEF Dressed, SessionFields, PlainFields
<1> QED
  BY <1>1, <1>5, <1>7, <1>11, <1>12, <1>15, <1>16 DEF Goes, SlicesGone

(* a new sending chain key with the number that goes with it,              *)
LEMMA AdvanceGoes ==
  ASSUME NEW m, Good(m), m.s.cks # NoKey
  PROVE  Goes(m, AdvanceChain(m), AdvanceSend(ValueOf(m, m.s)))
<1>1. PICK c, key, z, x, q :
        /\ c = NewCell(m) /\ key = DeriveNextChainKey(m.keys[m.s.cks])
        /\ z = Allocate(m, key) /\ x = ZeroBytes(z, {m.s.cks}) /\ q = AdvanceChain(m)
  OBVIOUS
<1>2. HeapOK(m) /\ m.s.rk # m.s.cks /\ m.s = [f \in SessionFields |-> m.s[f]]
      /\ m.s.rk \in DOMAIN m.keys /\ m.s.cks \in DOMAIN m.keys /\ NoKey \notin DOMAIN m.keys
  BY GoodFacts
<1>3. KeyShape(key)
  BY <1>1, <1>2, ChainShape DEF HeapOK
<1>4. Allocated(z, m, c, key)
  BY <1>1, <1>2, <1>3, AllocateFacts
<1>5. Blanked(x, z, {m.s.cks})
  BY <1>1, <1>4, ZeroFacts DEF Allocated
<1>6. /\ HeapOK(x) /\ c \in Int \ DOMAIN m.keys /\ c # NoKey
      /\ DOMAIN x.keys = DOMAIN m.keys \cup {c} /\ x.keys[c] = key
      /\ \A y \in DOMAIN m.keys \ {m.s.cks} : x.keys[y] = m.keys[y]
      /\ x.s = m.s /\ x.prev = m.prev /\ x.rings = m.rings /\ x.stores = m.stores
  BY <1>2, <1>4, <1>5 DEF Allocated, Blanked
<1>7. q = [x EXCEPT !.s = [m.s EXCEPT !.cks = c, !.ns = m.s.ns + 1]]
  BY Zenon, <1>1, <1>6 DEF AdvanceChain
<1>8. /\ q = [s |-> q.s, prev |-> x.prev, keys |-> x.keys, rings |-> x.rings, stores |-> x.stores]
      /\ q.s = [m.s EXCEPT !.cks = c, !.ns = m.s.ns + 1] /\ q.keys = x.keys
  BY <1>6, <1>7 DEF HeapOK
<1>9. HeapOK(q)
  BY <1>6, <1>8 DEF HeapOK
<1>10. /\ q.s = [f \in SessionFields |-> q.s[f]] /\ q.s.cks = c /\ q.s.rk = m.s.rk
       /\ q.s.recvChains = m.s.recvChains /\ q.s.mkSkipped = m.s.mkSkipped
       /\ q.s.ns = m.s.ns + 1 /\ \A f \in PlainFields \ {"ns"} : q.s[f] = m.s[f]
  BY Zenon, <1>2, <1>8 DEF SessionFields, PlainFields
<1>11. SlicesGone(m, q)
  <2>1. q.s.rk # q.s.cks /\ q.s.cks \in DOMAIN q.keys \ DOMAIN m.keys
    BY Zenon, <1>2, <1>6, <1>8, <1>10
  <2>2. \A y \in DOMAIN m.keys \ {m.s.rk, m.s.cks} : q.keys[y] = m.keys[y]
    BY <1>6, <1>8
  <2>3. q.prev = m.prev /\ q.rings = m.rings /\ q.stores = m.stores
        /\ DOMAIN m.keys \subseteq DOMAIN q.keys
    BY <1>6, <1>8
  <2> QED
    BY <1>9, <1>10, <2>1, <2>2, <2>3, SlicesGo
<1>12. PICK v, rk : v = ValueOf(m, m.s) /\ rk = q.keys[q.s.rk].root
  OBVIOUS
<1>13. ValueSeen(v, m, m.s)
  BY <1>2, <1>12, ValueFields
<1>14. v.rk = rk /\ v.cks = m.keys[m.s.cks]
  <2>1. x.keys[m.s.rk] = m.keys[m.s.rk]
    BY <1>2, <1>6
  <2>2. v.rk = m.keys[m.s.rk].root /\ v.cks = m.keys[m.s.cks]
    BY <1>13 DEF ValueSeen
  <2>3. rk = x.keys[m.s.rk].root
    BY <1>8, <1>10, <1>12
  <2> QED
    BY <2>1, <2>2, <2>3
<1>15. Put(ValueOf(q, q.s), v, q.s, rk, key)
  <2>1. key = IF q.s.cks = NoKey THEN NoChainKey ELSE q.keys[q.s.cks]
    BY <1>6, <1>8, <1>10
  <2> QED
    BY <1>11, <1>12, <2>1, SlicesValue
<1>16. ValueOf(q, q.s) = AdvanceSend(v)
  <2>1. PICK w, a : w = ValueOf(q, q.s) /\ a = AdvanceSend(v)
    OBVIOUS
  <2>2. SessionShape(v) /\ v.ns = m.s.ns /\ \A f \in PlainFields \ {"ns"} : v[f] = q.s[f]
    BY <1>10, <1>13 DEF ValueSeen, PlainFields, SessionShape
  <2>3. /\ SessionShape(w) /\ w.rk = rk /\ w.cks = key /\ w.ns = q.s.ns /\ w.pn = q.s.pn
        /\ w.dhs = q.s.dhs /\ w.dhr = q.s.dhr /\ w.dhRSet = q.s.dhRSet
        /\ w.dhRatchetPerformed = q.s.dhRatchetPerformed
        /\ w.recvChains = v.recvChains /\ w.mkSkipped = v.mkSkipped
    BY <1>15, <2>1, <2>2, PutFields
  <2>4. a = [v EXCEPT !.cks = key, !.ns = q.s.ns]
    BY <1>1, <1>10, <1>14, <2>1, <2>2 DEF AdvanceSend
  <2>5. /\ SessionShape(a) /\ a.rk = rk /\ a.cks = key /\ a.ns = q.s.ns /\ a.pn = q.s.pn
        /\ a.dhs = q.s.dhs /\ a.dhr = q.s.dhr /\ a.dhRSet = q.s.dhRSet
        /\ a.dhRatchetPerformed = q.s.dhRatchetPerformed
        /\ a.recvChains = v.recvChains /\ a.mkSkipped = v.mkSkipped
    BY Zenon, <1>14, <2>2, <2>4 DEF SessionShape, SessionFields, PlainFields
  <2> QED
    BY <2>1, <2>3, <2>5, SameSession
<1> QED
  BY <1>1, <1>11, <1>12, <1>16 DEF Goes, SlicesGone

(* or both keys, and a new key pair.                                       *)
LEMMA RatchetSendGoes ==
  ASSUME NEW m, Good(m), NEW fresh
  PROVE  Goes(m, RatchetSend(m, fresh), PerformDHRatchetSend(ValueOf(m, m.s), fresh))
         /\ RatchetSend(m, fresh).s.cks # NoKey
<1>1. PICK root, c, y, d, z, x, q :
        /\ root = DeriveRoot(m.keys[m.s.rk].root, SharedSecret(fresh, m.s.dhr))
        /\ c = NewCell(m) /\ y = Allocate(m, RootSlice(root))
        /\ d = NewCell(y) /\ z = Allocate(y, FirstChainKey(root))
        /\ x = ZeroBytes(z, {m.s.rk, m.s.cks}) /\ q = RatchetSend(m, fresh)
  OBVIOUS
<1>2. HeapOK(m) /\ m.s.rk # m.s.cks /\ m.s = [f \in SessionFields |-> m.s[f]]
      /\ m.s.rk \in DOMAIN m.keys /\ NoKey \notin DOMAIN m.keys
  BY GoodFacts
<1>3. Allocated(y, m, c, RootSlice(root))
  BY Zenon, <1>1, <1>2, RootShape, AllocateFacts
<1>4. Allocated(z, y, d, FirstChainKey(root))
  <2>1. HeapOK(y) /\ KeyShape(FirstChainKey(root))
    BY <1>3, RootShape DEF Allocated
  <2> QED
    BY <1>1, <2>1, AllocateFacts
<1>5. Blanked(x, z, {m.s.rk, m.s.cks})
  BY Zenon, <1>1, <1>4, ZeroFacts DEF Allocated
<1>6. /\ HeapOK(x) /\ c \notin DOMAIN m.keys /\ d \notin DOMAIN m.keys /\ c # d /\ d # NoKey
      /\ DOMAIN x.keys = DOMAIN m.keys \cup {c, d}
      /\ x.keys[c] = (IF c = m.s.cks THEN Erased ELSE RootSlice(root))
      /\ x.keys[d] = (IF d = m.s.cks THEN Erased ELSE FirstChainKey(root))
      /\ \A e \in DOMAIN m.keys \ {m.s.rk, m.s.cks} : x.keys[e] = m.keys[e]
      /\ x.s = m.s /\ x.prev = m.prev /\ x.rings = m.rings /\ x.stores = m.stores
  BY <1>2, <1>3, <1>4, <1>5 DEF Allocated, Blanked
<1>7. m.s.cks \in DOMAIN m.keys \cup {NoKey} /\ c # NoKey
  BY <1>3, GoodFacts DEF Allocated
<1>8. x.keys[c] = RootSlice(root) /\ x.keys[d] = FirstChainKey(root)
  BY <1>6, <1>7
<1>9. PICK o : o = [PerformDHRatchetSend(m.s, fresh) EXCEPT !.rk = c, !.cks = d]
  OBVIOUS
<1>10. q = [x EXCEPT !.s = o]
  BY Zenon, <1>1, <1>9 DEF RatchetSend
<1>11. /\ o = [f \in SessionFields |-> o[f]] /\ o.cks = d /\ o.rk = c
       /\ o.recvChains = m.s.recvChains /\ o.mkSkipped = m.s.mkSkipped
       /\ o.pn = m.s.ns /\ o.ns = 0 /\ o.dhs = fresh /\ o.dhRatchetPerformed = FALSE
       /\ o.dhr = m.s.dhr /\ o.dhRSet = m.s.dhRSet
  BY Zenon, <1>2, <1>9 DEF SessionFields, PerformDHRatchetSend
<1>12. /\ q = [s |-> o, prev |-> x.prev, keys |-> x.keys, rings |-> x.rings, stores |-> x.stores]
       /\ q.s = o /\ q.keys = x.keys
  BY <1>6, <1>10 DEF HeapOK
<1>13. HeapOK(q)
  BY <1>6, <1>12 DEF HeapOK
<1>14. SlicesGone(m, q)
  <2>1. q.s.rk # q.s.cks /\ q.s.cks \in DOMAIN q.keys \ DOMAIN m.keys
        /\ q.s.rk \in DOMAIN q.keys \ DOMAIN m.keys
    BY <1>6, <1>11, <1>12
  <2>2. \A e \in DOMAIN m.keys \ {m.s.rk, m.s.cks} : q.keys[e] = m.keys[e]
    BY <1>6, <1>12
  <2>3. q.prev = m.prev /\ q.rings = m.rings /\ q.stores = m.stores
        /\ DOMAIN m.keys \subseteq DOMAIN q.keys
    BY <1>6, <1>12
  <2> QED
    BY <1>11, <1>12, <1>13, <2>1, <2>2, <2>3, SlicesGo
<1>15. PICK v, cks : v = ValueOf(m, m.s) /\ cks = FirstChainKey(root)
  OBVIOUS
<1>16. ValueSeen(v, m, m.s)
  BY <1>2, <1>15, ValueFields
<1>17. Put(ValueOf(q, q.s), v, q.s, root, cks)
  <2>1. cks = (IF q.s.cks = NoKey THEN NoChainKey ELSE q.keys[q.s.cks])
        /\ root = q.keys[q.s.rk].root
    BY <1>6, <1>8, <1>11, <1>12, <1>15, RootShape
  <2> QED
    BY <1>14, <1>15, <2>1, SlicesValue
<1>18. ValueOf(q, q.s) = PerformDHRatchetSend(v, fresh)
  <2>1. PICK w, a : w = ValueOf(q, q.s) /\ a = PerformDHRatchetSend(v, fresh)
    OBVIOUS
  <2>2. /\ SessionShape(v) /\ v.ns = m.s.ns /\ v.dhr = m.s.dhr
        /\ v.dhRSet = m.s.dhRSet /\ v.rk = m.keys[m.s.rk].root
    BY <1>16 DEF ValueSeen, PlainFields, SessionShape
  <2>3. /\ SessionShape(w) /\ w.rk = root /\ w.cks = cks /\ w.ns = o.ns /\ w.pn = o.pn
        /\ w.dhs = o.dhs /\ w.dhr = o.dhr /\ w.dhRSet = o.dhRSet
        /\ w.dhRatchetPerformed = o.dhRatchetPerformed
        /\ w.recvChains = v.recvChains /\ w.mkSkipped = v.mkSkipped
    BY <1>12, <1>17, <2>1, <2>2, PutFields
  <2>4. a = [v EXCEPT !.pn = v.ns, !.rk = root, !.cks = cks, !.dhs = fresh, !.ns = 0,
                    !.dhRatchetPerformed = FALSE]
    BY Zenon, <1>1, <1>15, <2>1, <2>2 DEF PerformDHRatchetSend
  <2>5. /\ SessionShape(a) /\ a.rk = root /\ a.cks = cks /\ a.ns = 0 /\ a.pn = v.ns
        /\ a.dhs = fresh /\ a.dhr = v.dhr /\ a.dhRSet = v.dhRSet
        /\ a.dhRatchetPerformed = FALSE
        /\ a.recvChains = v.recvChains /\ a.mkSkipped = v.mkSkipped
    BY <2>2, <2>4 DEF SessionShape, SessionFields
  <2>6. /\ w.ns = 0 /\ w.pn = v.ns /\ w.dhs = fresh /\ w.dhr = v.dhr /\ w.dhRSet = v.dhRSet
        /\ w.dhRatchetPerformed = FALSE
    BY <1>11, <2>2, <2>3
  <2>7. a = w
    BY <2>3, <2>5, <2>6, SameSession
  <2> QED
    BY <2>1, <2>7
<1> QED
  BY Zenon, <1>1, <1>6, <1>11, <1>12, <1>14, <1>15, <1>18 DEF Goes, SlicesGone

(* A step that leaves everything but the store as it was.                  *)
Keeps(m, q) ==
  /\ q.s = m.s /\ q.rings = m.rings /\ q.prev = m.prev
  /\ DOMAIN m.keys \subseteq DOMAIN q.keys
  /\ \A c \in DOMAIN m.keys : q.keys[c] = m.keys[c]
(* A session value with other skipped keys,                                *)
WithStore(v, st) == [v EXCEPT !.mkSkipped = st]

(* Storing one skipped key in memory is storing it in the value; the       *)
(* session and its ring stay.                                              *)
LEMMA StoreKeyGoes ==
  ASSUME NEW m, Good(m), NEW id, NEW mk, KeyShape(mk), NEW v, v = ValueOf(m, m.s)
  PROVE  /\ Goes(m, StoreKeyIn(m, id, mk), WithStore(v, Store(v.mkSkipped, MaxSkip, id, mk)))
         /\ Keeps(m, StoreKeyIn(m, id, mk))
<1>1. PICK c, x, q, st, o, z :
        /\ c = NewCell(m) /\ x = Allocate(m, mk) /\ q = StoreKeyIn(m, id, mk)
        /\ o = m.s.mkSkipped /\ st = m.stores[o] /\ z = Store(st, MaxSkip, id, c)
  OBVIOUS
<1>2. /\ HeapOK(m) /\ o \in DOMAIN m.stores /\ StoreIn(st, DOMAIN m.keys) /\ StoreApart(st)
      /\ StoreCells(st) \subseteq DOMAIN m.keys /\ m.s = [f \in SessionFields |-> m.s[f]]
  BY <1>1, GoodFacts
<1>3. Allocated(x, m, c, mk)
  BY <1>1, <1>2, AllocateFacts
<1>4. /\ HeapOK(x) /\ c \notin DOMAIN m.keys /\ DOMAIN x.keys = DOMAIN m.keys \cup {c}
      /\ x.keys[c] = mk /\ \A y \in DOMAIN m.keys : x.keys[y] = m.keys[y]
      /\ x.s = m.s /\ x.prev = m.prev /\ x.rings = m.rings /\ x.stores = m.stores
  BY <1>3 DEF Allocated
<1>5. q = [x EXCEPT !.stores = [m.stores EXCEPT ![o] = z]]
  BY <1>1, <1>4 DEF StoreKeyIn
<1>6. /\ q = [s |-> x.s, prev |-> x.prev, keys |-> x.keys, rings |-> x.rings, stores |-> q.stores]
      /\ q.stores = [m.stores EXCEPT ![o] = z] /\ q.keys = x.keys
      /\ q.s = m.s /\ q.prev = m.prev /\ q.rings = m.rings
  BY <1>4, <1>5 DEF HeapOK
<1>7. DOMAIN q.stores = DOMAIN m.stores /\ q.stores[o] = z
      /\ \A y \in DOMAIN m.stores \ {o} : q.stores[y] = m.stores[y]
  BY <1>2, <1>6
<1>8. HeapOK(q)
  BY <1>2, <1>4, <1>6, <1>7 DEF HeapOK, RefsOK
<1>9. StoreIn(z, DOMAIN q.keys) /\ StoreApart(z) /\ StoreCells(z) \subseteq StoreCells(st) \cup {c}
  <2>1. c \notin StoreCells(st)
    BY <1>2, <1>4
  <2> QED
    <3>1. StoreTakesIn(z, st, DOMAIN m.keys, c)
      BY <1>1, <1>2, <2>1, StoreRefs
    <3> QED
      BY <1>4, <1>6, <3>1 DEF StoreTakesIn
<1>10. MapStore(z, q.keys) = Store(MapStore(st, m.keys), MaxSkip, id, mk)
  <2>1. \A y \in DOMAIN st.entries : x.keys[st.entries[y]] = m.keys[st.entries[y]]
    BY <1>2, <1>4 DEF StoreIn
  <2>2. MapStore(z, x.keys) = Store(MapStore(st, m.keys), MaxSkip, id, x.keys[c])
    <3>1. MapStore(Store(st, MaxSkip, id, c), x.keys)
            = Store(MapStore(st, m.keys), MaxSkip, id, x.keys[c])
      BY <1>2, <2>1, StoreValue
    <3> QED
      BY <1>1, <3>1
  <2> QED
    BY <1>4, <1>6, <2>2
<1>11. StoreGone(m, q, z)
  <2>1. DOMAIN m.keys \subseteq DOMAIN q.keys
        /\ \A y \in DOMAIN m.keys \ StoreCells(st) : q.keys[y] = m.keys[y]
    BY <1>4, <1>6
  <2>2. StoreCells(z) \subseteq StoreCells(st) \cup (DOMAIN q.keys \ DOMAIN m.keys)
    BY <1>4, <1>6, <1>9
  <2> QED
    BY <1>1, <1>6, <1>7, <1>8, <1>9, <2>1, <2>2, StoreGoes
<1>12. v.mkSkipped = MapStore(st, m.keys)
  <2>1. ValueSeen(v, m, m.s)
    BY <1>2, ValueFields
  <2> QED
    BY <1>1, <2>1 DEF ValueSeen
<1>13. ValueOf(q, q.s) = WithStore(v, Store(v.mkSkipped, MaxSkip, id, mk))
  BY <1>10, <1>11, <1>12 DEF StoreGone, WithStore
<1>14. Keeps(m, q)
  BY <1>4, <1>6 DEF Keeps
<1> QED
  BY <1>1, <1>11, <1>13, <1>14 DEF Goes, StoreGone

(* The heaps that the loop of StoreKeysIn goes through.                    *)
HeapsAfter(m, pk, ck, lo, len) ==
  CHOOSE f : f = [k \in 0 .. len |->
        IF k = 0 THEN m
        ELSE StoreKeyIn(f[k - 1], StorageKey(pk, lo + k - 1),
                        DeriveMessageKey(ChainKeyAt(ck, k - 1)))]
HeapsAfterEq(f, m, pk, ck, lo, len) ==
  f = [k \in 0 .. len |->
        IF k = 0 THEN m
        ELSE StoreKeyIn(f[k - 1], StorageKey(pk, lo + k - 1),
                        DeriveMessageKey(ChainKeyAt(ck, k - 1)))]

(* A function with the recursion of StoreKeysIn exists;                    *)
LEMMA HeapsAfterExists ==
  ASSUME NEW m, NEW pk, NEW ck, NEW lo \in Int, NEW len \in Nat
  PROVE  \E f : HeapsAfterEq(f, m, pk, ck, lo, len)
<1> DEFINE Bad == {n \in Nat : ~\E f : HeapsAfterEq(f, m, pk, ck, lo, n)}
<1> SUFFICES ASSUME Bad # {} PROVE FALSE
  OBVIOUS
<1>1. PICK n \in Bad : \A x \in Bad : n <= x
  BY LeastElement
<1>2. CASE n = 0
  <2>1. HeapsAfterEq([k \in 0 .. 0 |-> m], m, pk, ck, lo, 0)
    BY DEF HeapsAfterEq
  <2> QED BY <1>1, <1>2, <2>1
<1>3. CASE n # 0
  <2>1. PICK f : HeapsAfterEq(f, m, pk, ck, lo, n - 1)
    BY <1>1, <1>3
  <2> DEFINE g == [k \in 0 .. n |->
        IF k = 0 THEN m
        ELSE StoreKeyIn(f[k - 1], StorageKey(pk, lo + k - 1),
                        DeriveMessageKey(ChainKeyAt(ck, k - 1)))]
  <2>2. \A k \in 0 .. n - 1 : g[k] = f[k]
    BY <2>1 DEF HeapsAfterEq
  <2>3. \A k \in 0 .. n : g[k] = IF k = 0 THEN m
        ELSE StoreKeyIn(g[k - 1], StorageKey(pk, lo + k - 1),
                        DeriveMessageKey(ChainKeyAt(ck, k - 1)))
    <3> SUFFICES ASSUME NEW k \in 0 .. n, k # 0
                 PROVE  g[k - 1] = f[k - 1]
      OBVIOUS
    <3>1. n \in Nat
      OBVIOUS
    <3>2. k - 1 \in 0 .. n - 1
      BY <3>1
    <3> QED BY <2>2, <3>2
  <2>4. g = [k \in 0 .. n |-> g[k]]
    OBVIOUS
  <2> HIDE DEF g
  <2>5. HeapsAfterEq(g, m, pk, ck, lo, n)
    BY <2>3, <2>4 DEF HeapsAfterEq
  <2>6. \E h : HeapsAfterEq(h, m, pk, ck, lo, n)
    BY <2>5
  <2> QED BY <1>1, <2>6
<1> QED
  BY <1>2, <1>3

(* the one StoreKeysIn defines has it.                                     *)
LEMMA HeapsAfterDef ==
  ASSUME NEW m, NEW pk, NEW ck, NEW lo \in Int, NEW len \in Nat
  PROVE  HeapsAfterEq(HeapsAfter(m, pk, ck, lo, len), m, pk, ck, lo, len)
<1>1. PICK f : HeapsAfterEq(f, m, pk, ck, lo, len)
  BY HeapsAfterExists
<1>2. f = [k \in 0 .. len |->
        IF k = 0 THEN m
        ELSE StoreKeyIn(f[k - 1], StorageKey(pk, lo + k - 1),
                        DeriveMessageKey(ChainKeyAt(ck, k - 1)))]
  BY <1>1 DEF HeapsAfterEq
<1> QED
  BY <1>2 DEF HeapsAfter, HeapsAfterEq

(* What two operations keep, both keep.                                    *)
LEMMA KeepsTrans ==
  ASSUME NEW m, NEW x, NEW q, Keeps(m, x), Keeps(x, q)
  PROVE  Keeps(m, q)
BY DEF Keeps

(* The loop that stores skipped keys in memory stores in the value what    *)
(* StoreKeys stores, by induction over the keys.                           *)
LEMMA StoreKeysGoes ==
  ASSUME NEW m, Good(m), NEW pk, NEW ck, KeyShape(ck), NEW lo \in Int, NEW hi \in Int,
         NEW v, v = ValueOf(m, m.s)
  PROVE  /\ Goes(m, StoreKeysIn(m, pk, ck, lo, hi),
                 WithStore(v, StoreKeys(v.mkSkipped, pk, ck, lo, hi)))
         /\ Keeps(m, StoreKeysIn(m, pk, ck, lo, hi))
<1>0. SessionShape(v)
  BY GoodShape
<1>1. Goes(m, m, WithStore(v, v.mkSkipped)) /\ Keeps(m, m)
  <2>1. WithStore(v, v.mkSkipped) = v
    BY <1>0 DEF WithStore, SessionShape
  <2> QED
    BY <2>1, FrameRefl DEF Goes, Keeps
<1>2. CASE hi <= lo
  BY <1>1, <1>2 DEF StoreKeys, StoreKeysIn
<1>3. CASE lo < hi
  <2>1. PICK h, f : /\ h = HeapsAfter(m, pk, ck, lo, hi - lo)
                    /\ f = KeysAfter(v.mkSkipped, pk, ck, lo, hi - lo)
    OBVIOUS
  <2>2. StoreKeysIn(m, pk, ck, lo, hi) = h[hi - lo]
    BY <1>3, <2>1 DEF StoreKeysIn, HeapsAfter
  <2>3. StoreKeys(v.mkSkipped, pk, ck, lo, hi) = f[hi - lo]
    BY <1>3, <2>1 DEF StoreKeys, KeysAfter
  <2>4. HeapsAfterEq(h, m, pk, ck, lo, hi - lo) /\ KeysAfterEq(f, v.mkSkipped, pk, ck, lo, hi - lo)
    BY <1>3, <2>1, HeapsAfterDef, KeysAfterDef
  <2>5. h[0] = m /\ f[0] = v.mkSkipped
    BY <1>3, <2>4 DEF HeapsAfterEq, KeysAfterEq
  <2>6. ASSUME NEW k \in 1 .. hi - lo
        PROVE  /\ h[k] = StoreKeyIn(h[k - 1], StorageKey(pk, lo + k - 1),
                                    DeriveMessageKey(ChainKeyAt(ck, k - 1)))
               /\ f[k] = Store(f[k - 1], MaxSkip, StorageKey(pk, lo + k - 1),
                               DeriveMessageKey(ChainKeyAt(ck, k - 1)))
    BY <2>4 DEF HeapsAfterEq, KeysAfterEq
  <2> DEFINE Fine(k) == Goes(m, h[k], WithStore(v, f[k])) /\ Keeps(m, h[k])
             Bad == {k \in 0 .. hi - lo : ~Fine(k)}
  <2>7. Bad = {}
    <3> SUFFICES ASSUME Bad # {} PROVE FALSE
      OBVIOUS
    <3>0. Bad \subseteq Nat
      OBVIOUS
    <3>1. PICK k \in Bad : \A j \in Bad : k <= j
      <4> HIDE DEF Bad
      <4> QED BY <3>0, LeastElement
    <3>2. k # 0 /\ k \in 1 .. hi - lo
      BY <1>1, <2>5
    <3>3. Fine(k - 1)
      BY <3>1, <3>2
    <3>4. PICK mk, id, w : /\ mk = DeriveMessageKey(ChainKeyAt(ck, k - 1))
                           /\ id = StorageKey(pk, lo + k - 1) /\ w = WithStore(v, f[k - 1])
      OBVIOUS
    <3>5. KeyShape(mk)
      <4>1. k - 1 \in Int
        BY <3>2
      <4>2. DeriveMessageKey(ChainKeyAt(ck, k - 1)) = ChainKeyAt(ck, k - 1)
        BY DEF DeriveMessageKey
      <4> QED BY <3>4, <4>1, <4>2, ChainShape
    <3>6. h[k] = StoreKeyIn(h[k - 1], id, mk) /\ f[k] = Store(f[k - 1], MaxSkip, id, mk)
      BY <2>6, <3>2, <3>4
    <3>7. Good(h[k - 1]) /\ w = ValueOf(h[k - 1], h[k - 1].s) /\ w.mkSkipped = f[k - 1]
      BY <1>0, <3>3, <3>4 DEF Goes, WithStore, SessionShape, SessionFields
    <3>8. /\ Goes(h[k - 1], h[k], WithStore(w, Store(w.mkSkipped, MaxSkip, id, mk)))
          /\ Keeps(h[k - 1], h[k])
      BY <3>5, <3>6, <3>7, StoreKeyGoes
    <3>9. WithStore(w, Store(w.mkSkipped, MaxSkip, id, mk)) = WithStore(v, f[k])
      BY <3>4, <3>6, <3>7 DEF WithStore
    <3>10. Fine(k)
      BY <3>3, <3>4, <3>8, <3>9, GoesTrans, KeepsTrans
    <3> QED BY <3>1, <3>10
  <2>8. Fine(hi - lo)
    BY <1>3, <2>7
  <2> QED
    BY <2>2, <2>3, <2>8
<1> QED
  BY <1>2, <1>3

(* or with other receiver chains.                                          *)
WithRing(v, r) == [v EXCEPT !.recvChains = r]

(* A heap whose ring is rewritten.                                         *)
LEMMA RingWritten ==
  ASSUME NEW m, HeapOK(m), NEW o \in DOMAIN m.rings, NEW z
  PROVE  LET q == [m EXCEPT !.rings[o] = z]
         IN  /\ HeapOK(q) /\ q.s = m.s /\ q.prev = m.prev /\ q.keys = m.keys /\ q.stores = m.stores
             /\ DOMAIN q.rings = DOMAIN m.rings /\ q.rings[o] = z
             /\ \A y \in DOMAIN m.rings \ {o} : q.rings[y] = m.rings[y]
<1>1. PICK q : q = [m EXCEPT !.rings[o] = z]
  OBVIOUS
<1>2. /\ q = [s |-> m.s, prev |-> m.prev, keys |-> m.keys, rings |-> q.rings, stores |-> m.stores]
      /\ q.rings = [m.rings EXCEPT ![o] = z]
  BY <1>1 DEF HeapOK
<1>3. DOMAIN q.rings = DOMAIN m.rings /\ q.rings[o] = z
      /\ \A y \in DOMAIN m.rings \ {o} : q.rings[y] = m.rings[y]
  BY <1>2
<1>4. HeapOK(q)
  BY <1>2, <1>3 DEF HeapOK, RefsOK
<1> QED
  BY <1>1, <1>2, <1>3, <1>4

(* A new receiver chain takes the place of the oldest in a full ring.      *)
LEMMA PushGoes ==
  ASSUME NEW m, Good(m), NEW pk, NEW ckr \in DOMAIN m.keys, NEW v, v = ValueOf(m, m.s)
  PROVE  Goes(m, PushChain(m, pk, ckr), WithRing(v, Push(v.recvChains, pk, m.keys[ckr])))
<1>1. PICK ring, o, evicted, key, c, x, y, z, q, p :
        /\ o = m.s.recvChains /\ ring = m.rings[o] /\ key = m.keys[ckr] /\ c = NewCell(m)
        /\ evicted = IF ring.count = ReceiverChainsMax THEN {ring.slots[ring.head].ck} ELSE {}
        /\ x = ZeroBytes(m, evicted) /\ y = Allocate(x, key)
        /\ z = Push(ring, pk, c) /\ q = PushChain(m, pk, ckr) /\ p = SlotAt(ring, ring.count)
  BY Zenon
<1>2. /\ HeapOK(m) /\ o \in DOMAIN m.rings /\ RingIn(ring, DOMAIN m.keys) /\ RingApart(ring)
      /\ RingCells(ring) \subseteq DOMAIN m.keys /\ NoKey \notin DOMAIN m.keys
  BY Zenon, <1>1, GoodFacts
<1>3. RingOK(ring) /\ ring = [slots |-> ring.slots, head |-> ring.head, count |-> ring.count]
  BY <1>2 DEF RingIn
<1>4. p \in Slots /\ (ring.count = ReceiverChainsMax => p = ring.head)
  BY Zenon, <1>1, <1>3, PushIs
<1>5. evicted \subseteq {ring.slots[p].ck}
  BY Zenon, <1>1, <1>4
<1>6. Blanked(x, m, evicted)
  BY Zenon, <1>1, <1>2, ZeroFacts
<1>7. NewCell(x) = c
  BY Zenon, <1>1, <1>6 DEF NewCell, NewIn, Blanked
<1>8. Allocated(y, x, c, key)
  <2>1. HeapOK(x) /\ KeyShape(key)
    BY Zenon, <1>1, <1>2, <1>6 DEF HeapOK, Blanked
  <2> QED
    BY Zenon, <1>1, <1>7, <2>1, AllocateFacts
<1>9. /\ HeapOK(y) /\ c \notin DOMAIN m.keys /\ c # NoKey
      /\ DOMAIN y.keys = DOMAIN m.keys \cup {c} /\ y.keys[c] = key
      /\ \A e \in DOMAIN m.keys \ {ring.slots[p].ck} : y.keys[e] = m.keys[e]
      /\ y.s = m.s /\ y.prev = m.prev /\ y.rings = m.rings /\ y.stores = m.stores
  BY <1>5, <1>6, <1>8 DEF Allocated, Blanked
<1>10. q = [y EXCEPT !.rings[o] = z]
  BY Zenon, <1>1, <1>9 DEF PushChain
<1>11. /\ HeapOK(q) /\ q.s = m.s /\ q.prev = m.prev /\ q.keys = y.keys /\ q.stores = m.stores
       /\ DOMAIN q.rings = DOMAIN m.rings /\ q.rings[o] = z
       /\ \A e \in DOMAIN m.rings \ {o} : q.rings[e] = m.rings[e]
  BY <1>2, <1>9, <1>10, RingWritten
<1>12. Rewrites(z, ring, p, pk, c, 0)
  BY Zenon, <1>1, <1>2, PushRewrites
<1>13. RingGone(m, q, z)
  <2>1. /\ DOMAIN m.keys \subseteq DOMAIN q.keys /\ c \in DOMAIN q.keys \ DOMAIN m.keys
        /\ \A e \in DOMAIN m.keys \ {ring.slots[p].ck} : q.keys[e] = m.keys[e]
    BY <1>9, <1>11
  <2>2. 0 \in Int
    OBVIOUS
  <2> QED
    BY Zenon, <1>1, <1>4, <1>11, <1>12, <2>1, <2>2, RingGoes
<1>14. MapRing(z, q.keys) = Push(MapRing(ring, m.keys), pk, key)
  <2>1. c \notin RingCells(ring)
        /\ \A e \in RingCells(ring) \ {ring.slots[SlotAt(ring, ring.count)].ck} :
             y.keys[e] = m.keys[e]
    BY Zenon, <1>1, <1>2, <1>9
  <2>2. MapRing(Push(ring, pk, c), y.keys) = Push(MapRing(ring, m.keys), pk, y.keys[c])
    BY <1>2, <1>9, <2>1, PushValue
  <2> QED
    BY Zenon, <1>1, <1>9, <1>11, <2>2
<1>15. v.recvChains = MapRing(ring, m.keys)
  <2>1. ValueSeen(v, m, m.s)
    BY GoodShape
  <2> QED
    BY Zenon, <1>1, <2>1 DEF ValueSeen
<1> QED
  BY Zenon, <1>1, <1>13, <1>14, <1>15 DEF RingGone, Goes, WithRing

(* A key taken from the store is zeroed.                                   *)
LEMMA TakeGoes ==
  ASSUME NEW m, Good(m), NEW id, HasKey(m.stores[m.s.mkSkipped], id), NEW v, v = ValueOf(m, m.s)
  PROVE  Goes(m, TakeInPlace(m, id).m, WithStore(v, Consume(v.mkSkipped, id)))
<1>1. PICK st, o, c, x, z, q :
        /\ o = m.s.mkSkipped /\ st = m.stores[o] /\ c = Lookup(st, id)
        /\ x = ZeroBytes(m, {c}) /\ z = Consume(st, id) /\ q = TakeInPlace(m, id).m
  OBVIOUS
<1>2. /\ HeapOK(m) /\ o \in DOMAIN m.stores /\ StoreIn(st, DOMAIN m.keys) /\ StoreApart(st)
      /\ StoreCells(st) \subseteq DOMAIN m.keys
  BY <1>1, GoodFacts
<1>3. Blanked(x, m, {c})
  BY <1>1, <1>2, ZeroFacts
<1>4. /\ HeapOK(x) /\ DOMAIN x.keys = DOMAIN m.keys
      /\ \A e \in DOMAIN m.keys \ {c} : x.keys[e] = m.keys[e]
      /\ x.s = m.s /\ x.prev = m.prev /\ x.rings = m.rings /\ x.stores = m.stores
  BY <1>3 DEF Blanked
<1>5. q = [x EXCEPT !.stores = [m.stores EXCEPT ![o] = z]]
  BY <1>1, <1>4 DEF TakeInPlace, Done
<1>6. /\ q = [s |-> x.s, prev |-> x.prev, keys |-> x.keys, rings |-> x.rings, stores |-> q.stores]
      /\ q.stores = [m.stores EXCEPT ![o] = z] /\ q.keys = x.keys
      /\ q.s = m.s /\ q.prev = m.prev /\ q.rings = m.rings
  BY <1>4, <1>5 DEF HeapOK
<1>7. DOMAIN q.stores = DOMAIN m.stores /\ q.stores[o] = z
      /\ \A y \in DOMAIN m.stores \ {o} : q.stores[y] = m.stores[y]
  BY <1>2, <1>6
<1>8. HeapOK(q)
  BY <1>2, <1>4, <1>6, <1>7 DEF HeapOK, RefsOK
<1>9. StoreIn(z, DOMAIN m.keys) /\ StoreApart(z) /\ StoreCells(z) \subseteq StoreCells(st)
  <2>1. Fewer(z, st)
    BY <1>1, ConsumeFewer
  <2> QED
    BY <1>2, <2>1, FewerFacts
<1>10. c \in StoreCells(st) /\ \A y \in DOMAIN st.entries \ {id} : st.entries[y] # c
  BY Zenon, <1>1, <1>2 DEF HasKey, Lookup, StoreCells, StoreApart
<1>11. StoreGone(m, q, z)
  <2>1. DOMAIN m.keys \subseteq DOMAIN q.keys
        /\ \A y \in DOMAIN m.keys \ StoreCells(st) : q.keys[y] = m.keys[y]
    BY <1>4, <1>6, <1>10
  <2>2. StoreCells(z) \subseteq StoreCells(st) \cup (DOMAIN q.keys \ DOMAIN m.keys)
        /\ StoreIn(z, DOMAIN q.keys)
    BY <1>4, <1>6, <1>9
  <2> QED
    BY Zenon, <1>1, <1>6, <1>7, <1>8, <1>9, <2>1, <2>2, StoreGoes
<1>12. MapStore(z, q.keys) = Consume(MapStore(st, m.keys), id)
  <2>1. \A y \in DOMAIN st.entries \ {id} : x.keys[st.entries[y]] = m.keys[st.entries[y]]
    BY <1>2, <1>4, <1>10 DEF StoreIn
  <2>2. MapStore(Consume(st, id), x.keys) = Consume(MapStore(st, m.keys), id)
    BY <1>2, <2>1, ConsumeValue
  <2> QED
    BY <1>1, <1>6, <2>2
<1>13. v.mkSkipped = MapStore(st, m.keys)
  <2>1. ValueSeen(v, m, m.s)
    BY GoodShape
  <2> QED
    BY <1>1, <2>1 DEF ValueSeen
<1> QED
  BY <1>1, <1>11, <1>12, <1>13 DEF StoreGone, Goes, WithStore

(* The value's ring holds what the heap's ring holds.                      *)
LEMMA ChainSeen ==
  ASSUME NEW m, Good(m), NEW v, v = ValueOf(m, m.s), NEW ring, ring = m.rings[m.s.recvChains],
         NEW pk
  PROVE  /\ v.recvChains = MapRing(ring, m.keys)
         /\ HasChain(v.recvChains, pk) <=> HasChain(ring, pk)
         /\ HasChain(ring, pk) =>
              /\ GetChain(ring, pk).ck \in RingCells(ring) /\ GetChain(ring, pk).ck \in DOMAIN m.keys
              /\ GetChain(ring, pk).nr \in Int
              /\ GetChain(v.recvChains, pk).ck = m.keys[GetChain(ring, pk).ck]
              /\ GetChain(v.recvChains, pk).nr = GetChain(ring, pk).nr
<1>1. v.recvChains = MapRing(ring, m.keys)
  <2>1. ValueSeen(v, m, m.s)
    BY GoodShape
  <2> QED
    BY <2>1 DEF ValueSeen
<1>2. RingIn(ring, DOMAIN m.keys) /\ NoKey \notin DOMAIN m.keys
  BY GoodFacts
<1>3. PICK p, y : p = SlotAt(ring, PositionOf(ring, pk)) /\ y = MapRing(ring, m.keys)
  OBVIOUS
<1>4. /\ HasChain(y, pk) <=> HasChain(ring, pk)
      /\ HasChain(ring, pk) =>
           /\ p \in Slots /\ GetChain(ring, pk) = ring.slots[p] /\ ring.slots[p].ck \in DOMAIN m.keys
           /\ GetChain(y, pk) = [pk |-> pk, ck |-> At(m.keys, ring.slots[p].ck),
                                 nr |-> ring.slots[p].nr]
  <2>1. LooksUp(y, ring, m.keys, pk, p, DOMAIN m.keys)
    BY <1>2, <1>3, MapRingLookup
  <2> QED
    BY <2>1 DEF LooksUp
<1>5. ASSUME HasChain(ring, pk)
      PROVE  /\ GetChain(ring, pk).ck \in RingCells(ring) /\ GetChain(ring, pk).ck \in DOMAIN m.keys
             /\ GetChain(ring, pk).nr \in Int
             /\ GetChain(y, pk).ck = m.keys[GetChain(ring, pk).ck]
             /\ GetChain(y, pk).nr = GetChain(ring, pk).nr
  <2>1. PICK chain : chain = GetChain(ring, pk)
    OBVIOUS
  <2>2. /\ p \in Slots /\ chain = ring.slots[p] /\ chain.ck \in DOMAIN m.keys
        /\ GetChain(y, pk) = [pk |-> pk, ck |-> At(m.keys, chain.ck), nr |-> chain.nr]
    BY <1>4, <1>5, <2>1
  <2>3. chain.nr \in Int
    BY Zenon, <1>2, <2>2 DEF RingIn
  <2>4. chain.ck \in RingCells(ring)
    BY Zenon, <1>2, <2>2 DEF RingCells
  <2>5. GetChain(y, pk).ck = m.keys[chain.ck] /\ GetChain(y, pk).nr = chain.nr
    <3>1. At(m.keys, chain.ck) = m.keys[chain.ck]
      BY Zenon, <1>2, <2>2 DEF At
    <3>2. PICK g : g = GetChain(y, pk)
      OBVIOUS
    <3>3. g = [pk |-> pk, ck |-> m.keys[chain.ck], nr |-> chain.nr]
      BY Zenon, <2>2, <3>1, <3>2
    <3> QED
      BY <3>2, <3>3
  <2> QED
    BY Zenon, <2>1, <2>2, <2>3, <2>4, <2>5
<1> QED
  BY Zenon, <1>1, <1>3, <1>4, <1>5

(* The numbers of a header are numbers.                                    *)
NumbersOK(hdr) == hdr.pn \in Int /\ hdr.n \in Int

(* What a receive that is not refused leaves in memory.                    *)
Writes(m, hdr, ring, chain, x, z, q) ==
  /\ ring = m.rings[m.s.recvChains] /\ chain = GetChain(ring, hdr.pk) /\ HasChain(ring, hdr.pk)
  /\ ~TooManySkipped(chain.nr, hdr.n) /\ ~(hdr.n < chain.nr)
  /\ x = StoreKeysIn(m, hdr.pk, m.keys[chain.ck], chain.nr, hdr.n)
  /\ z = ZeroBytes(Allocate(x, ChainKeyAt(m.keys[chain.ck], hdr.n + 1 - chain.nr)), {chain.ck})
  /\ q = [z EXCEPT !.rings[m.s.recvChains] = PutChain(@, hdr.pk, NewCell(x), hdr.n + 1)]
(* That is its outcome.                                                    *)
LEMMA ReceiveWrites ==
  ASSUME NEW m, NEW hdr, NEW ring, NEW chain, NEW x, NEW z, NEW q,
         Writes(m, hdr, ring, chain, x, z, q)
  PROVE  ReceiveInPlace(m, hdr) = Done("ok", q)
BY DEF Writes, ReceiveInPlace

(* A receive goes the way it goes on values.                               *)
LEMMA ReceiveGoes ==
  ASSUME NEW m, Good(m), NEW hdr, NumbersOK(hdr), NEW v, v = ValueOf(m, m.s)
  PROVE  /\ ReceiveInPlace(m, hdr).err = ReceiveOnChain(v, hdr).err
         /\ Goes(m, ReceiveInPlace(m, hdr).m, ReceiveOnChain(v, hdr).s)
<1>1. PICK ring, pk, n, chain, seen, o :
        /\ o = m.s.recvChains /\ ring = m.rings[o] /\ pk = hdr.pk /\ n = hdr.n
        /\ chain = GetChain(ring, pk) /\ seen = GetChain(v.recvChains, pk)
  OBVIOUS
<1>2. HasChain(v.recvChains, pk) <=> HasChain(ring, pk)
  BY <1>1, ChainSeen
<1>3. HasChain(ring, pk) =>
        /\ chain.ck \in RingCells(ring) /\ chain.ck \in DOMAIN m.keys
        /\ chain.nr \in Int /\ seen.ck = m.keys[chain.ck] /\ seen.nr = chain.nr
  BY <1>1, ChainSeen
<1>4. Goes(m, m, v)
  BY FrameRefl DEF Goes
<1>5. CASE ~HasChain(ring, pk)
  BY <1>1, <1>2, <1>4, <1>5 DEF ReceiveInPlace, ReceiveOnChain, Done, Failure, Outcome
<1>6. CASE HasChain(ring, pk) /\ (TooManySkipped(chain.nr, n) \/ n < chain.nr)
  BY Zenon, <1>1, <1>2, <1>3, <1>4, <1>6 DEF ReceiveInPlace, ReceiveOnChain, Done, Failure, Outcome
<1>7. CASE HasChain(ring, pk) /\ ~TooManySkipped(chain.nr, n) /\ ~(n < chain.nr)
  <2>1. PICK key, next, x, c, y, z, q, ringz, p :
          /\ key = m.keys[chain.ck] /\ next = ChainKeyAt(key, n + 1 - chain.nr)
          /\ x = StoreKeysIn(m, pk, key, chain.nr, n) /\ c = NewCell(x)
          /\ y = Allocate(x, next) /\ z = ZeroBytes(y, {chain.ck})
          /\ ringz = PutChain(ring, pk, c, n + 1)
          /\ q = ReceiveInPlace(m, hdr).m /\ p = SlotAt(ring, PositionOf(ring, pk))
    OBVIOUS
  <2>2. PICK st : st = StoreKeys(v.mkSkipped, pk, key, chain.nr, n)
    OBVIOUS
  <2>3. /\ HeapOK(m) /\ o \in DOMAIN m.rings /\ RingIn(ring, DOMAIN m.keys) /\ RingApart(ring)
        /\ RingCells(ring) \subseteq DOMAIN m.keys
    BY <1>1, GoodFacts
  <2>4. KeyShape(key) /\ n \in Int /\ chain.nr \in Int /\ n + 1 \in Int
    <3>1. n \in Int /\ n + 1 \in Int
      BY <1>1 DEF NumbersOK
    <3>2. \A e \in DOMAIN m.keys : KeyShape(m.keys[e])
      BY <2>3 DEF HeapOK
    <3> QED
      BY <1>3, <1>7, <2>1, <3>1, <3>2
  <2>5. KeyShape(next) /\ DeriveNextChainKey(ChainKeyAt(key, n - chain.nr)) = next
    <3>1. n + 1 - chain.nr \in Int
      BY <2>4
    <3>2. DeriveNextChainKey(ChainKeyAt(key, n - chain.nr)) = next
      BY <2>1, <2>4 DEF KeyShape, DeriveNextChainKey, ChainKeyAt
    <3> QED
      BY <2>1, <2>4, <3>1, <3>2, ChainShape
  <2>6. Goes(m, x, WithStore(v, st)) /\ Keeps(m, x)
    BY <2>1, <2>2, <2>4, StoreKeysGoes
  <2>7. Good(x) /\ HeapOK(x) /\ x.s = m.s /\ x.rings = m.rings /\ x.prev = m.prev
        /\ DOMAIN m.keys \subseteq DOMAIN x.keys /\ ValueOf(x, x.s) = WithStore(v, st)
    BY <2>6 DEF Goes, Keeps, Good
  <2>8. Allocated(y, x, c, next)
    BY <2>1, <2>5, <2>7, AllocateFacts
  <2>9. Blanked(z, y, {chain.ck})
    BY Zenon, <2>1, <2>8, ZeroFacts DEF Allocated
  <2>10. chain.ck \in DOMAIN x.keys
    BY <1>3, <1>7, <2>7
  <2>11. /\ HeapOK(z) /\ c \notin DOMAIN x.keys /\ c # NoKey
         /\ DOMAIN z.keys = DOMAIN x.keys \cup {c} /\ z.keys[c] = next
         /\ \A e \in DOMAIN x.keys \ {chain.ck} : z.keys[e] = x.keys[e]
         /\ z.s = m.s /\ z.prev = m.prev /\ z.rings = m.rings /\ z.stores = x.stores
    BY <2>7, <2>8, <2>9, <2>10 DEF Allocated, Blanked
  <2>12. ReceiveInPlace(m, hdr) = Done("ok", [z EXCEPT !.rings[o] = ringz])
    <3>1. z.rings[o] = ring
      BY <1>1, <2>11
    <3>2. PICK w : w = [z EXCEPT !.rings[m.s.recvChains] =
                          PutChain(@, hdr.pk, NewCell(x), hdr.n + 1)]
      OBVIOUS
    <3>3. w = [z EXCEPT !.rings[o] = ringz]
      BY <1>1, <2>1, <3>1, <3>2
    <3>4. ring = m.rings[m.s.recvChains] /\ chain = GetChain(ring, hdr.pk)
      BY <1>1
    <3>5. HasChain(ring, hdr.pk) /\ ~TooManySkipped(chain.nr, hdr.n) /\ ~(hdr.n < chain.nr)
      BY <1>1, <1>7
    <3>6. x = StoreKeysIn(m, hdr.pk, m.keys[chain.ck], chain.nr, hdr.n)
      BY <1>1, <2>1
    <3>7. z = ZeroBytes(Allocate(x, ChainKeyAt(m.keys[chain.ck], hdr.n + 1 - chain.nr)),
                        {chain.ck})
      <4>1. ChainKeyAt(m.keys[chain.ck], hdr.n + 1 - chain.nr) = next
        BY <1>1, <2>1
      <4>2. z = ZeroBytes(Allocate(x, next), {chain.ck})
        BY Zenon, <2>1
      <4> QED
        BY Zenon, <4>1, <4>2
    <3>8. ReceiveInPlace(m, hdr) = Done("ok", w)
      <4>1. Writes(m, hdr, ring, chain, x, z, w)
        BY <3>2, <3>4, <3>5, <3>6, <3>7 DEF Writes
      <4> QED
        BY <4>1, ReceiveWrites
    <3> QED
      BY <3>3, <3>8
  <2>13. q = [z EXCEPT !.rings[o] = ringz]
    <3>1. PICK zz : zz = [z EXCEPT !.rings[o] = ringz]
      OBVIOUS
    <3>2. Done("ok", zz).m = zz
      BY DEF Done
    <3> QED
      BY <2>1, <2>12, <3>1, <3>2
  <2>14. /\ HeapOK(q) /\ q.s = m.s /\ q.prev = m.prev /\ q.keys = z.keys /\ q.stores = x.stores
         /\ DOMAIN q.rings = DOMAIN m.rings /\ q.rings[o] = ringz
         /\ \A e \in DOMAIN m.rings \ {o} : q.rings[e] = m.rings[e]
    BY <2>3, <2>11, <2>13, RingWritten
  <2>15. Rewrites(ringz, ring, p, pk, c, n + 1)
    BY <1>7, <2>1, <2>3, PutRewrites
  <2>16. p \in Slots /\ chain = ring.slots[p]
    <3>1. LooksUp(MapRing(ring, m.keys), ring, m.keys, pk, p, DOMAIN m.keys)
      BY <2>1, <2>3, MapRingLookup
    <3> QED
      BY <1>1, <1>7, <3>1 DEF LooksUp
  <2>17. RingGone(x, q, ringz)
    <3>1. /\ DOMAIN x.keys \subseteq DOMAIN q.keys /\ c \in DOMAIN q.keys \ DOMAIN x.keys
          /\ \A e \in DOMAIN x.keys \ {ring.slots[p].ck} : q.keys[e] = x.keys[e]
      BY <2>11, <2>14, <2>16
    <3>2. /\ q.prev = x.prev /\ q.s = x.s /\ q.stores = x.stores
          /\ DOMAIN q.rings = DOMAIN x.rings /\ ring = x.rings[x.s.recvChains]
          /\ ringz = q.rings[x.s.recvChains]
          /\ \A e \in DOMAIN x.rings \ {x.s.recvChains} : q.rings[e] = x.rings[e]
      BY <1>1, <2>7, <2>14
    <3> QED
      BY <2>4, <2>7, <2>14, <2>15, <2>16, <3>1, <3>2, RingGoes
  <2>18. MapRing(ringz, q.keys) = PutChain(MapRing(ring, m.keys), pk, next, n + 1)
    <3>1. c \notin RingCells(ring)
      BY <2>3, <2>7, <2>11
    <3>2. \A e \in RingCells(ring) \ {GetChain(ring, pk).ck} : z.keys[e] = m.keys[e]
      BY <1>1, <2>3, <2>6, <2>11 DEF Keeps
    <3>3. MapRing(PutChain(ring, pk, c, n + 1), z.keys)
            = PutChain(MapRing(ring, m.keys), pk, z.keys[c], n + 1)
      BY <1>7, <2>3, <2>4, <2>11, <3>1, <3>2, PutValue
    <3> QED
      BY Zenon, <2>1, <2>11, <2>14, <3>3
  <2>19. v.recvChains = MapRing(ring, m.keys)
    BY <1>1, ChainSeen
  <2>20. ReceiveOnChain(v, hdr).err = "ok"
         /\ ReceiveOnChain(v, hdr).s = WithRing(WithStore(v, st), PutChain(v.recvChains, pk, next, n + 1))
    <3>1. seen.ck = key /\ seen.nr = chain.nr
      BY <1>3, <1>7, <2>1
    <3>2. ReceiveOnChain(v, hdr) =
            Outcome("ok",
              [v EXCEPT !.mkSkipped = StoreKeys(v.mkSkipped, pk, seen.ck, seen.nr, n),
                        !.recvChains = PutChain(v.recvChains, pk,
                           DeriveNextChainKey(ChainKeyAt(seen.ck, n - seen.nr)), n + 1)],
              DeriveMessageKey(ChainKeyAt(seen.ck, n - seen.nr)))
      BY <1>1, <1>2, <1>7, <3>1 DEF ReceiveOnChain
    <3>3. PICK r, mk : /\ r = PutChain(v.recvChains, pk, next, n + 1)
                       /\ mk = DeriveMessageKey(ChainKeyAt(seen.ck, n - seen.nr))
      OBVIOUS
    <3>4. ReceiveOnChain(v, hdr) = Outcome("ok", [v EXCEPT !.mkSkipped = st, !.recvChains = r], mk)
      BY <2>2, <2>5, <3>1, <3>2, <3>3
    <3>5. [v EXCEPT !.mkSkipped = st, !.recvChains = r] = WithRing(WithStore(v, st), r)
      BY DEF WithRing, WithStore
    <3> QED
      BY <3>3, <3>4, <3>5 DEF Outcome
  <2>21. Goes(x, q, WithRing(WithStore(v, st), PutChain(v.recvChains, pk, next, n + 1)))
    BY <2>7, <2>17, <2>18, <2>19 DEF RingGone, Goes, WithRing
  <2>22. Goes(m, q, WithRing(WithStore(v, st), PutChain(v.recvChains, pk, next, n + 1)))
    BY <2>6, <2>21, GoesTrans
  <2>23. ReceiveInPlace(m, hdr).err = "ok"
    BY <2>12 DEF Done
  <2> QED
    BY <2>1, <2>20, <2>22, <2>23
<1> QED
  BY <1>5, <1>6, <1>7

(* A slice that only the call holds.                                       *)
Scratch(m, q, c) == c \in DOMAIN q.keys \ CellsOf(q, q.s) /\ c \notin DOMAIN m.keys

(* An operation on the session leaves a scratch slice as it was.           *)
LEMMA ScratchStays ==
  ASSUME NEW m, NEW x, NEW q, Frame(x, q), NEW c, Scratch(m, x, c)
  PROVE  Scratch(m, q, c) /\ q.keys[c] = x.keys[c]
BY DEF Scratch, Frame

(* A new one,                                                              *)
Draws(m, x, q, c, key, v) ==
  /\ Goes(m, q, v) /\ Goes(x, q, v) /\ Scratch(m, q, c) /\ q.keys[c] = key
  /\ q.s = x.s /\ q.rings = x.rings
(* A new cell is a scratch slice.                                          *)
LEMMA ScratchNew ==
  ASSUME NEW m, NEW x, NEW v, Goes(m, x, v), NEW key, KeyShape(key), NEW c, c = NewCell(x)
  PROVE  Draws(m, x, Allocate(x, key), c, key, v)
<1>1. PICK q : q = Allocate(x, key)
  OBVIOUS
<1>2. Good(x) /\ HeapOK(x) /\ ValueOf(x, x.s) = v /\ Frame(m, x)
  BY DEF Goes, Good
<1>3. Allocated(q, x, c, key)
  BY <1>1, <1>2, AllocateFacts
<1>4. Good(q) /\ Frame(x, q) /\ ValueOf(q, q.s) = v /\ CellsOf(q, q.s) = CellsOf(x, x.s)
  BY <1>1, <1>2, AllocateGood
<1>5. CellsOf(x, x.s) \subseteq DOMAIN x.keys /\ DOMAIN m.keys \subseteq DOMAIN x.keys
  BY <1>2, GoodFacts DEF Frame
<1>6. Goes(x, q, v)
  BY <1>4 DEF Goes
<1>7. Goes(m, q, v)
  BY <1>6, GoesTrans
<1>8. Scratch(m, q, c)
  BY <1>3, <1>4, <1>5 DEF Scratch, Allocated
<1> QED
  BY <1>1, <1>3, <1>6, <1>7, <1>8 DEF Allocated, Draws

(* and one that is zeroed when the call is done with it.                   *)
Drops(m, x, q, c, v) ==
  /\ Goes(m, q, v) /\ q.s = x.s /\ q.rings = x.rings /\ q.stores = x.stores
  /\ \A d : d # c /\ Scratch(m, x, d) => Scratch(m, q, d) /\ q.keys[d] = x.keys[d]
(* Zeroing a scratch slice changes nothing the session refers to, and no   *)
(* other scratch slice.                                                    *)
LEMMA ScratchZero ==
  ASSUME NEW m, NEW x, NEW v, Goes(m, x, v), NEW c, Scratch(m, x, c)
  PROVE  Drops(m, x, ZeroBytes(x, {c}), c, v)
<1>1. PICK q : q = ZeroBytes(x, {c})
  OBVIOUS
<1>2. Good(x) /\ HeapOK(x) /\ ValueOf(x, x.s) = v /\ Frame(m, x)
  BY DEF Goes, Good
<1>3. Blanked(q, x, {c})
  BY <1>1, <1>2, ZeroFacts
<1>4. {c} \cap CellsOf(x, x.s) = {} /\ {c} \cap DOMAIN m.keys = {}
  BY DEF Scratch
<1>5. Good(q) /\ ValueOf(q, q.s) = v /\ CellsOf(q, q.s) = CellsOf(x, x.s)
  BY <1>1, <1>2, <1>4, ZeroGood
<1>6. Frame(m, q)
  BY <1>1, <1>2, <1>4, FrameZero
<1>7. \A d : d # c /\ Scratch(m, x, d) => Scratch(m, q, d) /\ q.keys[d] = x.keys[d]
  BY <1>3, <1>5 DEF Scratch, Blanked
<1> QED
  BY <1>1, <1>3, <1>5, <1>6, <1>7 DEF Goes, Blanked, Drops

(* Tests of the session on the heap come out as they do on its value.      *)
SeesThrough(x, m, v) ==
  /\ x.recvChains = m.rings[m.s.recvChains]
  /\ HasPrevChain(x) <=> HasPrevChain(v)
  /\ PrevNr(x) = PrevNr(v) /\ PrevNr(v) \in Int
  /\ \A hdr : IsNewEpoch(x, hdr) <=> IsNewEpoch(v, hdr)
  /\ v.dhr = m.s.dhr /\ v.dhs = m.s.dhs /\ v.rk = m.keys[m.s.rk].root
  /\ \A id : HasKey(m.stores[m.s.mkSkipped], id) <=> HasKey(v.mkSkipped, id)
(* The tests Decrypt makes before it changes anything are tests of the     *)
(* value.                                                                  *)
LEMMA ShellSees ==
  ASSUME NEW m, Good(m), NEW v, v = ValueOf(m, m.s)
  PROVE  SeesThrough(Shell(m), m, v)
<1>1. PICK ring, st, x : ring = m.rings[m.s.recvChains] /\ x = Shell(m)
                         /\ st = m.stores[m.s.mkSkipped]
  OBVIOUS
<1>2. m.s = [f \in SessionFields |-> m.s[f]] /\ StoreIn(st, DOMAIN m.keys)
  BY <1>1, GoodFacts
<1>3. x.recvChains = ring /\ x.dhr = m.s.dhr /\ x.dhRSet = m.s.dhRSet
  BY <1>1, <1>2 DEF Shell, SessionFields
<1>4. /\ v.dhr = m.s.dhr /\ v.dhs = m.s.dhs /\ v.rk = m.keys[m.s.rk].root
      /\ v.dhRSet = m.s.dhRSet /\ v.mkSkipped = MapStore(st, m.keys)
  <2>1. ValueSeen(v, m, m.s)
    BY GoodShape
  <2> QED
    BY <1>1, <2>1 DEF ValueSeen, PlainFields
<1>5. ASSUME NEW pk
      PROVE  /\ HasChain(v.recvChains, pk) <=> HasChain(ring, pk)
             /\ HasChain(ring, pk) => /\ GetChain(v.recvChains, pk).nr = GetChain(ring, pk).nr
                                      /\ GetChain(ring, pk).nr \in Int
  BY <1>1, ChainSeen
<1>6. HasPrevChain(x) <=> HasPrevChain(v)
  BY <1>3, <1>4, <1>5 DEF HasPrevChain
<1>7. PrevNr(x) = PrevNr(v) /\ PrevNr(v) \in Int
  <2>1. CASE HasPrevChain(v)
    <3>1. HasChain(ring, v.dhr)
      BY <1>5, <2>1 DEF HasPrevChain
    <3> QED
      BY <1>3, <1>4, <1>5, <1>6, <2>1, <3>1 DEF PrevNr
  <2>2. CASE ~HasPrevChain(v)
    BY <1>6, <2>2 DEF PrevNr
  <2> QED
    BY <2>1, <2>2
<1>8. \A hdr : IsNewEpoch(x, hdr) <=> IsNewEpoch(v, hdr)
  BY <1>3, <1>4, <1>5 DEF IsNewEpoch, IsCurrentChain
<1>9. \A id : HasKey(st, id) <=> HasKey(v.mkSkipped, id)
  <2>1. StoreSeen(MapStore(st, m.keys), st, m.keys)
    BY <1>2, MapStoreFacts
  <2> QED
    BY <1>4, <2>1 DEF HasKey, StoreSeen
<1> QED
  BY <1>1, <1>3, <1>4, <1>6, <1>7, <1>8, <1>9 DEF SeesThrough

(* prevCKr is a copy of the key it should be.                              *)
LEMMA PrevChainKeyGoes ==
  ASSUME NEW m, Good(m), NEW v, v = ValueOf(m, m.s), NEW x, x = PrevChainKey(m).m,
         NEW c, c = PrevChainKey(m).cell
  PROVE  /\ Goes(m, x, v) /\ x.s = m.s /\ x.rings = m.rings /\ (c # NoKey <=> HasPrevChain(v))
         /\ c # NoKey => Scratch(m, x, c) /\ x.keys[c] = GetChain(v.recvChains, v.dhr).ck
                         /\ KeyShape(x.keys[c])
<1>1. SeesThrough(Shell(m), m, v)
  BY ShellSees
<1>2. Goes(m, m, v) /\ HeapOK(m)
  BY FrameRefl DEF Goes, Good
<1>3. CASE ~HasPrevChain(v)
  BY Zenon, <1>1, <1>2, <1>3 DEF PrevChainKey, SeesThrough
<1>4. CASE HasPrevChain(v)
  <2>1. PICK ring, chain, key : ring = m.rings[m.s.recvChains] /\ key = m.keys[chain.ck]
                                /\ chain = GetChain(ring, m.s.dhr)
    OBVIOUS
  <2>2. v.dhr = m.s.dhr /\ Shell(m).recvChains = ring /\ HasPrevChain(Shell(m))
    BY <1>1, <1>4, <2>1 DEF SeesThrough
  <2>3. HasChain(v.recvChains, m.s.dhr)
    BY <1>4, <2>2 DEF HasPrevChain
  <2>4. chain.ck \in DOMAIN m.keys /\ GetChain(v.recvChains, m.s.dhr).ck = key
    BY <2>1, <2>3, ChainSeen
  <2>5. KeyShape(key)
    BY <1>2, <2>1, <2>4 DEF HeapOK
  <2>6. PrevChainKey(m) = [m |-> Allocate(m, key), cell |-> NewCell(m)]
    BY <2>1, <2>2 DEF PrevChainKey
  <2>7. x = Allocate(m, key) /\ c = NewCell(m)
    BY <2>6
  <2>8. Draws(m, m, x, c, key, v)
    BY <1>2, <2>5, <2>7, ScratchNew
  <2>9. c # NoKey
    <3>1. Allocated(x, m, c, key)
      BY <1>2, <2>5, <2>7, AllocateFacts
    <3> QED
      BY <3>1 DEF Allocated
  <2> QED
    BY <1>4, <2>2, <2>4, <2>5, <2>8, <2>9 DEF Draws
<1> QED
  BY <1>3, <1>4

(* A ratchet step goes the way it goes on values.                          *)
LEMMA RatchetGoes ==
  ASSUME NEW m, Good(m), NEW hdr, NumbersOK(hdr), NEW v, v = ValueOf(m, m.s)
  PROVE  /\ RatchetRecv(m, hdr).err = PerformDHRatchetRecv(v, hdr).err
         /\ Goes(m, RatchetRecv(m, hdr).m, PerformDHRatchetRecv(v, hdr).s)
<1>1. PICK pc, x, nr, root :
        /\ pc = PrevChainKey(m).cell /\ x = PrevChainKey(m).m /\ nr = PrevNr(Shell(m))
        /\ root = DeriveRoot(m.keys[m.s.rk].root, SharedSecret(m.s.dhs, hdr.pk))
  OBVIOUS
<1>2. PICK y, ckr, z : /\ y = WithRoot(x, root) /\ ckr = NewCell(y)
                       /\ z = Allocate(y, FirstChainKey(root))
  OBVIOUS
<1>3. PICK x3 : x3 = IF pc = NoKey THEN z
                     ELSE ZeroBytes(StoreKeysIn(z, m.s.dhr, z.keys[pc], nr, hdr.pn), {pc})
  OBVIOUS
<1>4. PICK x4, o : /\ x4 = ZeroBytes(PushChain(x3, hdr.pk, ckr), {ckr})
                   /\ o = [x4.s EXCEPT !.dhr = hdr.pk, !.dhRSet = TRUE, !.dhRatchetPerformed = TRUE]
  BY Zenon
<1>5. SeesThrough(Shell(m), m, v)
  BY ShellSees
<1>6. /\ nr = PrevNr(v) /\ nr \in Int /\ v.dhr = m.s.dhr
      /\ root = DeriveRoot(v.rk, SharedSecret(v.dhs, hdr.pk))
  BY <1>1, <1>5 DEF SeesThrough
<1>7. /\ Goes(m, x, v) /\ x.s = m.s /\ x.rings = m.rings /\ (pc # NoKey <=> HasPrevChain(v))
      /\ pc # NoKey => Scratch(m, x, pc) /\ x.keys[pc] = GetChain(v.recvChains, v.dhr).ck
                       /\ KeyShape(x.keys[pc])
  BY <1>1, PrevChainKeyGoes
<1>8. RatchetRecv(m, hdr) =
        IF ~VerifyPublicKey(hdr.pk) THEN Done("ErrInvalidInput", m)
        ELSE IF pc # NoKey /\ TooManySkipped(nr, hdr.pn)
        THEN Done("ErrMaxSkipExceeded", ZeroBytes(z, {pc}))
        ELSE Done("ok", [x4 EXCEPT !.s = o])
  <2> DEFINE P  == PrevChainKey(m)
             N  == PrevNr(Shell(m))
             R  == DeriveRoot(m.keys[m.s.rk].root, SharedSecret(m.s.dhs, hdr.pk))
             M1 == [Allocate(ZeroBytes(P.m, {m.s.rk}), RootSlice(R)) EXCEPT !.s.rk = NewCell(P.m)]
             C  == NewCell(M1)
             M2 == Allocate(M1, FirstChainKey(R))
             M3 == IF P.cell = NoKey THEN M2
                   ELSE ZeroBytes(StoreKeysIn(M2, m.s.dhr, M2.keys[P.cell], N, hdr.pn), {P.cell})
             M4 == ZeroBytes(PushChain(M3, hdr.pk, C), {C})
  <2>1. RatchetRecv(m, hdr) =
          IF ~VerifyPublicKey(hdr.pk) THEN Done("ErrInvalidInput", m)
          ELSE IF P.cell # NoKey /\ TooManySkipped(N, hdr.pn)
          THEN Done("ErrMaxSkipExceeded", ZeroBytes(M2, {P.cell}))
          ELSE Done("ok", [M4 EXCEPT !.s.dhr = hdr.pk, !.s.dhRSet = TRUE,
                                     !.s.dhRatchetPerformed = TRUE])
    BY DEF RatchetRecv
  <2>2. P.cell = pc /\ P.m = x /\ N = nr /\ R = root
    BY <1>1
  <2>3. M1 = y
    BY <1>2, <1>7, <2>2 DEF WithRoot
  <2> HIDE DEF P, N, R, M1
  <2>4. C = ckr /\ M2 = z
    BY <1>2, <2>2, <2>3
  <2> HIDE DEF C, M2
  <2>5. M3 = x3
    BY <1>3, <2>2, <2>4
  <2> HIDE DEF M3
  <2>6. M4 = x4
    BY <1>4, <2>4, <2>5
  <2> HIDE DEF M4
  <2>7. [x4 EXCEPT !.s.dhr = hdr.pk, !.s.dhRSet = TRUE, !.s.dhRatchetPerformed = TRUE]
          = [x4 EXCEPT !.s = o]
    BY <1>4
  <2> QED
    BY <2>1, <2>2, <2>4, <2>6, <2>7
<1>9. PICK moved : moved = [v EXCEPT !.rk = root]
  OBVIOUS
<1>10. SessionShape(v) /\ SessionShape(moved)
  BY <1>9, GoodShape DEF SessionShape, SessionFields
<1>11. Goes(x, y, moved) /\ Goes(m, y, moved)
  <2>1. Good(x) /\ v = ValueOf(x, x.s)
    BY <1>7 DEF Goes
  <2>2. Goes(x, y, moved)
    BY <1>2, <1>9, <2>1, RootGoes
  <2> QED
    BY <1>7, <2>2, GoesTrans
<1>12. Draws(m, y, z, ckr, FirstChainKey(root), moved)
  BY <1>2, <1>11, RootShape, ScratchNew
<1>13. pc # NoKey => Scratch(m, z, pc) /\ z.keys[pc] = x.keys[pc] /\ pc # ckr
  <2>1. SUFFICES ASSUME pc # NoKey PROVE Scratch(m, z, pc) /\ z.keys[pc] = x.keys[pc] /\ pc # ckr
    OBVIOUS
  <2>2. Frame(x, y) /\ Frame(y, z) /\ HeapOK(y)
    BY <1>11, <1>12 DEF Goes, Draws, Good
  <2>3. Scratch(m, y, pc) /\ y.keys[pc] = x.keys[pc]
    BY <1>7, <2>1, <2>2, ScratchStays
  <2>4. Scratch(m, z, pc) /\ z.keys[pc] = y.keys[pc]
    BY <2>2, <2>3, ScratchStays
  <2>5. ckr \notin DOMAIN y.keys
    BY <1>2, <2>2, RootShape, AllocateFacts DEF Allocated
  <2> QED
    BY <2>3, <2>4, <2>5 DEF Scratch
<1>14. CASE ~VerifyPublicKey(hdr.pk)
  <2>1. Goes(m, m, v)
    BY FrameRefl DEF Goes
  <2> QED
    BY <1>8, <1>14, <2>1 DEF PerformDHRatchetRecv, Done, Failure, Outcome
<1>15. CASE VerifyPublicKey(hdr.pk) /\ HasPrevChain(v) /\ TooManySkipped(nr, hdr.pn)
  <2>1. Drops(m, z, ZeroBytes(z, {pc}), pc, moved)
    BY <1>7, <1>12, <1>13, <1>15, ScratchZero DEF Draws
  <2>2. RatchetRecv(m, hdr) = Done("ErrMaxSkipExceeded", ZeroBytes(z, {pc}))
    BY <1>7, <1>8, <1>15
  <2>3. PerformDHRatchetRecv(v, hdr) = Failure("ErrMaxSkipExceeded", moved)
    BY <1>6, <1>9, <1>15 DEF PerformDHRatchetRecv
  <2> QED
    BY <2>1, <2>2, <2>3 DEF Drops, Done, Failure, Outcome
<1>16. CASE VerifyPublicKey(hdr.pk) /\ ~(HasPrevChain(v) /\ TooManySkipped(nr, hdr.pn))
  <2>1. PICK st, v3, v4 : /\ st = SkipPrevChain(v, hdr.pn) /\ v3 = WithStore(moved, st)
                          /\ v4 = WithRing(v3, Push(v.recvChains, hdr.pk, FirstChainKey(root)))
    OBVIOUS
  <2>2. moved.mkSkipped = v.mkSkipped /\ moved.recvChains = v.recvChains
    BY <1>9, <1>10 DEF SessionShape, SessionFields
  <2>3. Goes(m, x3, v3) /\ Scratch(m, x3, ckr) /\ x3.keys[ckr] = FirstChainKey(root)
    <3>1. CASE pc = NoKey
      <4>1. st = v.mkSkipped /\ x3 = z
        BY <1>3, <1>7, <2>1, <3>1 DEF SkipPrevChain
      <4>2. v3 = moved
        BY <1>10, <2>1, <2>2, <4>1 DEF WithStore, SessionShape
      <4> QED
        BY <1>12, <4>1, <4>2 DEF Draws
    <3>2. CASE pc # NoKey
      <4>1. PICK key, w : key = z.keys[pc] /\ w = StoreKeysIn(z, m.s.dhr, key, nr, hdr.pn)
        OBVIOUS
      <4>2. KeyShape(key) /\ key = GetChain(v.recvChains, v.dhr).ck /\ x3 = ZeroBytes(w, {pc})
        BY <1>3, <1>7, <1>13, <3>2, <4>1
      <4>3. st = StoreKeys(v.mkSkipped, m.s.dhr, key, nr, hdr.pn)
        BY <1>6, <1>7, <2>1, <3>2, <4>2 DEF SkipPrevChain
      <4>4. Good(z) /\ moved = ValueOf(z, z.s)
        BY <1>12 DEF Draws, Goes
      <4>5. Goes(z, w, v3) /\ Keeps(z, w)
        <5>1. hdr.pn \in Int
          BY DEF NumbersOK
        <5>2. /\ Goes(z, StoreKeysIn(z, m.s.dhr, key, nr, hdr.pn),
                      WithStore(moved, StoreKeys(moved.mkSkipped, m.s.dhr, key, nr, hdr.pn)))
              /\ Keeps(z, StoreKeysIn(z, m.s.dhr, key, nr, hdr.pn))
          BY <1>6, <4>2, <4>4, <5>1, StoreKeysGoes
        <5> QED
          BY <2>1, <2>2, <4>1, <4>3, <5>2
      <4>6. Goes(m, w, v3)
        BY <1>12, <4>5, GoesTrans DEF Draws
      <4>7. Scratch(m, w, pc) /\ Scratch(m, w, ckr) /\ w.keys[ckr] = z.keys[ckr]
        <5>1. Frame(z, w)
          BY <4>5 DEF Goes
        <5> QED
          BY <1>12, <1>13, <3>2, <5>1, ScratchStays DEF Draws
      <4>8. Drops(m, w, x3, pc, v3)
        BY <4>2, <4>6, <4>7, ScratchZero
      <4> QED
        BY <1>12, <1>13, <3>2, <4>7, <4>8 DEF Draws, Drops
    <3> QED
      BY <3>1, <3>2
  <2>4. PICK w : w = PushChain(x3, hdr.pk, ckr)
    OBVIOUS
  <2>5. Goes(x3, w, v4)
    <3>1. Good(x3) /\ v3 = ValueOf(x3, x3.s) /\ ckr \in DOMAIN x3.keys
      BY <2>3 DEF Goes, Scratch
    <3>2. Goes(x3, w, WithRing(v3, Push(v3.recvChains, hdr.pk, x3.keys[ckr])))
      BY <2>4, <3>1, PushGoes
    <3>3. v3.recvChains = v.recvChains
      BY <1>10, <2>1, <2>2 DEF WithStore, SessionShape, SessionFields
    <3> QED
      BY <2>1, <2>3, <3>2, <3>3
  <2>6. Goes(m, w, v4) /\ Scratch(m, w, ckr)
    <3>1. Frame(x3, w)
      BY <2>5 DEF Goes
    <3> QED
      BY <2>3, <2>5, <3>1, GoesTrans, ScratchStays
  <2>7. Goes(m, x4, v4)
    <3>1. Drops(m, w, x4, ckr, v4)
      BY <1>4, <2>4, <2>6, ScratchZero
    <3> QED
      BY <3>1 DEF Drops
  <2>8. Goes(x4, [x4 EXCEPT !.s = o], Dressed(v4, o))
    <3>1. Good(x4) /\ v4 = ValueOf(x4, x4.s) /\ SessionShape(x4.s)
      BY <2>7, GoodShape DEF Goes
    <3>2. /\ o = [f \in SessionFields |-> o[f]] /\ o.rk = x4.s.rk /\ o.cks = x4.s.cks
          /\ o.recvChains = x4.s.recvChains /\ o.mkSkipped = x4.s.mkSkipped
      BY <1>4, <3>1 DEF SessionShape, SessionFields
    <3> QED
      BY <3>1, <3>2, PlainGoes
  <2>9. Goes(m, [x4 EXCEPT !.s = o], Dressed(v4, o))
    BY <2>7, <2>8, GoesTrans
  <2>10. Dressed(v4, o) = [v4 EXCEPT !.dhr = hdr.pk, !.dhRSet = TRUE, !.dhRatchetPerformed = TRUE]
    <3>1. ValueSeen(v4, x4, x4.s) /\ SessionShape(x4.s) /\ SessionShape(v4)
      BY <2>7, GoodShape DEF Goes
    <3>2. \A f \in PlainFields : v4[f] = x4.s[f]
      BY <3>1 DEF ValueSeen
    <3>3. /\ o.ns = v4.ns /\ o.pn = v4.pn /\ o.dhs = v4.dhs
          /\ o.dhr = hdr.pk /\ o.dhRSet = TRUE /\ o.dhRatchetPerformed = TRUE
      BY <1>4, <3>1, <3>2 DEF SessionShape, SessionFields, PlainFields
    <3> QED
      BY <3>1, <3>3 DEF Dressed, SessionShape, SessionFields
  <2>11. RatchetRecv(m, hdr) = Done("ok", [x4 EXCEPT !.s = o])
    BY <1>7, <1>8, <1>16
  <2>12. PerformDHRatchetRecv(v, hdr).err = "ok" /\ PerformDHRatchetRecv(v, hdr).s = Dressed(v4, o)
    <3>1. PICK r : r = Push(v.recvChains, hdr.pk, FirstChainKey(root))
      OBVIOUS
    <3>2. PerformDHRatchetRecv(v, hdr) =
            Outcome("ok", [moved EXCEPT !.mkSkipped = st, !.recvChains = r, !.dhr = hdr.pk,
                                        !.dhRSet = TRUE, !.dhRatchetPerformed = TRUE], NoKey)
      BY <1>6, <1>9, <1>16, <2>1, <3>1 DEF PerformDHRatchetRecv
    <3>3. v4 = [moved EXCEPT !.mkSkipped = st, !.recvChains = r]
      BY <2>1, <3>1 DEF WithRing, WithStore
    <3>4. [moved EXCEPT !.mkSkipped = st, !.recvChains = r, !.dhr = hdr.pk,
                        !.dhRSet = TRUE, !.dhRatchetPerformed = TRUE]
            = [v4 EXCEPT !.dhr = hdr.pk, !.dhRSet = TRUE, !.dhRatchetPerformed = TRUE]
      BY <3>3
    <3> QED
      BY <2>10, <3>2, <3>4 DEF Outcome
  <2> QED
    BY <2>9, <2>11, <2>12 DEF Done
<1> QED
  BY <1>14, <1>15, <1>16

(* A decryption goes the way it goes on values, to whatever end it comes.  *)
LEMMA DecryptGoes ==
  ASSUME NEW m, Good(m), NEW hdr, NumbersOK(hdr), NEW v, v = ValueOf(m, m.s)
  PROVE  /\ DecryptInPlace(m, hdr).err = RatchetReceiveKey(v, hdr).err
         /\ Goes(m, DecryptInPlace(m, hdr).m, RatchetReceiveKey(v, hdr).s)
<1>1. PICK id, there, here :
        /\ id = StorageKey(hdr.pk, hdr.n)
        /\ there = (IF IsNewEpoch(Shell(m), hdr) THEN RatchetRecv(m, hdr) ELSE Done("ok", m))
        /\ here = (IF IsNewEpoch(v, hdr) THEN PerformDHRatchetRecv(v, hdr)
                   ELSE Outcome("ok", v, NoKey))
  OBVIOUS
<1>2. DecryptInPlace(m, hdr) = IF HasKey(m.stores[m.s.mkSkipped], id) THEN TakeInPlace(m, id)
                               ELSE IF there.err # "ok" THEN there
                               ELSE ReceiveInPlace(there.m, hdr)
  BY <1>1 DEF DecryptInPlace
<1>3. RatchetReceiveKey(v, hdr) = IF HasKey(v.mkSkipped, id) THEN TakeSkipped(v, id)
                                  ELSE IF here.err # "ok" THEN here
                                  ELSE ReceiveOnChain(here.s, hdr)
  BY <1>1 DEF RatchetReceiveKey
<1>4. SeesThrough(Shell(m), m, v)
  BY ShellSees
<1>5. HasKey(m.stores[m.s.mkSkipped], id) <=> HasKey(v.mkSkipped, id)
  BY <1>4 DEF SeesThrough
<1>6. IsNewEpoch(Shell(m), hdr) <=> IsNewEpoch(v, hdr)
  BY <1>4 DEF SeesThrough
<1>7. CASE HasKey(v.mkSkipped, id)
  <2>1. /\ DecryptInPlace(m, hdr) = TakeInPlace(m, id)
        /\ RatchetReceiveKey(v, hdr) = TakeSkipped(v, id)
    BY <1>2, <1>3, <1>5, <1>7
  <2>2. Goes(m, TakeInPlace(m, id).m, WithStore(v, Consume(v.mkSkipped, id)))
    BY <1>5, <1>7, TakeGoes
  <2>3. /\ TakeSkipped(v, id).err = "ok"
        /\ TakeSkipped(v, id).s = WithStore(v, Consume(v.mkSkipped, id))
    BY DEF TakeSkipped, Outcome, WithStore
  <2>4. TakeInPlace(m, id).err = "ok"
    BY DEF TakeInPlace, Done
  <2> QED
    BY <2>1, <2>2, <2>3, <2>4
<1>8. CASE ~HasKey(v.mkSkipped, id)
  <2>1. there.err = here.err /\ Goes(m, there.m, here.s)
    <3>1. CASE IsNewEpoch(v, hdr)
      BY <1>1, <1>6, <3>1, RatchetGoes
    <3>2. CASE ~IsNewEpoch(v, hdr)
      <4>1. there = Done("ok", m) /\ here = Outcome("ok", v, NoKey)
        BY <1>1, <1>6, <3>2
      <4>2. Goes(m, m, v)
        BY FrameRefl DEF Goes
      <4> QED
        BY <4>1, <4>2 DEF Done, Outcome
    <3> QED
      BY <3>1, <3>2
  <2>2. CASE here.err # "ok"
    BY <1>2, <1>3, <1>5, <1>8, <2>1, <2>2
  <2>3. CASE here.err = "ok"
    <3>1. Good(there.m) /\ here.s = ValueOf(there.m, there.m.s)
      BY <2>1 DEF Goes
    <3>2. /\ ReceiveInPlace(there.m, hdr).err = ReceiveOnChain(here.s, hdr).err
          /\ Goes(there.m, ReceiveInPlace(there.m, hdr).m, ReceiveOnChain(here.s, hdr).s)
      BY <3>1, ReceiveGoes
    <3>3. Goes(m, ReceiveInPlace(there.m, hdr).m, ReceiveOnChain(here.s, hdr).s)
      BY <2>1, <3>2, GoesTrans
    <3> QED
      BY <1>2, <1>3, <1>5, <1>8, <2>1, <2>3, <3>2, <3>3
  <2> QED
    BY <2>2, <2>3
<1> QED
  BY <1>7, <1>8

-----------------------------------------------------------------------------
(* A call leaves alone an owner that has its own objects.                  *)
LEMMA FrameOwner ==
  ASSUME NEW m, NEW q, Frame(m, q), RefsOK(m.keys), NEW p, OwnerOK(m, p),
         p.recvChains # m.s.recvChains, p.mkSkipped # m.s.mkSkipped,
         CellsOf(m, p) \cap CellsOf(m, m.s) = {}
  PROVE  /\ OwnerOK(q, p) /\ ValueOf(q, p) = ValueOf(m, p) /\ CellsOf(q, p) = CellsOf(m, p)
         /\ \A c \in CellsOf(m, p) : q.keys[c] = m.keys[c]
         /\ CellsOf(q, p) \cap CellsOf(q, q.s) = {}
<1>1. RefsIn(m, p) /\ CellsOf(m, p) \subseteq DOMAIN m.keys
  BY CellsAreThere DEF OwnerOK
<1>2. \A c \in CellsOf(m, p) : q.keys[c] = m.keys[c]
  BY <1>1 DEF Frame
<1>3. p.recvChains \in DOMAIN m.rings /\ p.mkSkipped \in DOMAIN m.stores
  BY <1>1 DEF RefsIn
<1>4. /\ DOMAIN m.keys \subseteq DOMAIN q.keys
      /\ p.recvChains \in DOMAIN q.rings /\ p.mkSkipped \in DOMAIN q.stores
      /\ q.rings[p.recvChains] = m.rings[p.recvChains]
      /\ q.stores[p.mkSkipped] = m.stores[p.mkSkipped]
  BY <1>3 DEF Frame
<1>5. OwnerOK(q, p) /\ ValueOf(q, p) = ValueOf(m, p) /\ CellsOf(q, p) = CellsOf(m, p)
  BY <1>2, <1>4, KeptOwner
<1>6. CellsOf(q, q.s) \subseteq CellsOf(m, m.s) \cup (DOMAIN q.keys \ DOMAIN m.keys)
  BY DEF Frame
<1> QED
  BY <1>1, <1>2, <1>5, <1>6

(* Cells by other names: f names each cell of the given set anew, by       *)
(* members of other, and h sees through the new names what g saw through   *)
(* the old ones.                                                           *)
Names(f, cells, other) == \A c \in cells : f[c] \in other
Apply(f, cells) == {f[c] : c \in cells}
Distinct(f, cells) == \A c, d \in cells : f[c] = f[d] => c = d

(* A ring,                                                                 *)
RingCopied(q, r, f, other, g, h) ==
  /\ RingIn(q, other) /\ RingCells(q) = Apply(f, RingCells(r))
  /\ MapRing(q, h) = MapRing(r, g)
  /\ Distinct(f, RingCells(r)) /\ RingApart(r) => RingApart(q)
(* Copying a ring cell by cell gives the same value, with no cell twice if *)
(* the copies are distinct.                                                *)
LEMMA RingCopy ==
  ASSUME NEW r, NEW cells, NoKey \notin cells, RingIn(r, cells), NEW other, NoKey \notin other,
         NEW f, Names(f, RingCells(r), other), NEW g, NEW h,
         \A c \in RingCells(r) : h[f[c]] = g[c]
  PROVE  RingCopied(MapRing(r, f), r, f, other, g, h)
<1>1. PICK q : q = MapRing(r, f)
  OBVIOUS
<1>2. RingSeen(q, r, f)
  BY <1>1, MapRingFacts
<1>3. ASSUME NEW j \in Slots
      PROVE  \/ r.slots[j].ck = NoKey /\ q.slots[j].ck = NoKey
             \/ /\ r.slots[j].ck \in RingCells(r) /\ r.slots[j].ck # NoKey
                /\ q.slots[j].ck = f[r.slots[j].ck] /\ q.slots[j].ck \in other
                /\ q.slots[j].ck # NoKey
  <2>1. q.slots[j].ck = At(f, r.slots[j].ck)
    BY <1>2 DEF RingSeen
  <2>2. CASE r.slots[j].ck = NoKey
    BY <2>1, <2>2 DEF At
  <2>3. CASE r.slots[j].ck # NoKey
    <3>1. r.slots[j].ck \in RingCells(r)
      BY <2>3 DEF RingCells
    <3>2. f[r.slots[j].ck] \in other
      BY <3>1 DEF Names
    <3> QED
      BY <2>1, <2>3, <3>1, <3>2 DEF At
  <2> QED
    BY <2>2, <2>3
<1>4. RingIn(q, other)
  <2>1. ASSUME NEW j \in Slots
        PROVE  /\ q.slots[j] = [pk |-> q.slots[j].pk, ck |-> q.slots[j].ck, nr |-> q.slots[j].nr]
               /\ q.slots[j].nr \in Int /\ q.slots[j].ck \in other \cup {NoKey}
    <3>1. q.slots[j].nr = r.slots[j].nr /\ r.slots[j].nr \in Int
      BY <1>2 DEF RingSeen, RingIn
    <3>2. q.slots[j] = [pk |-> q.slots[j].pk, ck |-> q.slots[j].ck, nr |-> q.slots[j].nr]
      BY <1>2 DEF RingSeen
    <3> QED
      BY <1>3, <3>1, <3>2
  <2>2. ASSUME NEW chain \in Held(q) PROVE chain.ck \in other
    <3>1. PICK i \in 0 .. q.count - 1 : chain = q.slots[SlotAt(q, i)]
      BY DEF Held, RingAt
    <3>2. /\ i \in 0 .. r.count - 1 /\ SlotAt(q, i) = SlotAt(r, i) /\ SlotAt(r, i) \in Slots
      <4>1. q.head = r.head /\ q.count = r.count /\ i \in 0 .. r.count - 1
        BY <1>2, <3>1 DEF RingSeen
      <4>2. i \in 0 .. ReceiverChainsMax /\ r.head \in Slots
        BY <4>1, CapacityAssumption DEF RingIn, RingOK
      <4> QED
        BY <4>1, <4>2, SlotFacts DEF SlotAt
    <3>3. r.slots[SlotAt(r, i)] \in Held(r)
      BY <3>2 DEF Held, RingAt
    <3>4. r.slots[SlotAt(r, i)].ck \in cells
      BY <3>3 DEF RingIn
    <3>5. r.slots[SlotAt(r, i)].ck # NoKey
      BY <3>4
    <3> QED
      BY <1>3, <3>1, <3>2, <3>5
  <2> QED
    BY <1>2, <2>1, <2>2 DEF RingIn, RingSeen
<1>5. RingCells(q) = Apply(f, RingCells(r))
  <2>1. RingCells(q) \subseteq Apply(f, RingCells(r))
    BY <1>3 DEF RingCells, Apply
  <2>2. ASSUME NEW c \in RingCells(r) PROVE f[c] \in RingCells(q)
    <3>1. PICK j \in Slots : c = r.slots[j].ck /\ c # NoKey
      BY DEF RingCells
    <3> QED
      BY <1>3, <3>1 DEF RingCells
  <2> QED
    BY <2>1, <2>2 DEF Apply
<1>6. MapRing(q, h) = MapRing(r, g)
  <2>1. PICK x, y : x = MapRing(q, h) /\ y = MapRing(r, g)
    OBVIOUS
  <2>2. RingSeen(x, q, h) /\ RingSeen(y, r, g)
    BY <1>4, <2>1, MapRingFacts
  <2>3. ASSUME NEW j \in Slots PROVE x.slots[j] = y.slots[j]
    <3>1. /\ x.slots[j] = [pk |-> q.slots[j].pk, ck |-> At(h, q.slots[j].ck), nr |-> q.slots[j].nr]
          /\ y.slots[j] = [pk |-> r.slots[j].pk, ck |-> At(g, r.slots[j].ck), nr |-> r.slots[j].nr]
      BY <2>2 DEF RingSeen
    <3>2. q.slots[j].pk = r.slots[j].pk /\ q.slots[j].nr = r.slots[j].nr
      BY <1>2 DEF RingSeen
    <3>3. At(h, q.slots[j].ck) = At(g, r.slots[j].ck)
      BY <1>3 DEF At
    <3> QED
      BY <3>1, <3>2, <3>3
  <2>4. x.slots = y.slots
    BY <2>2, <2>3 DEF RingSeen
  <2> QED
    BY <1>2, <2>1, <2>2, <2>4 DEF RingSeen
<1>7. ASSUME Distinct(f, RingCells(r)), RingApart(r) PROVE RingApart(q)
  <2>1. SUFFICES ASSUME NEW j \in Slots, NEW k \in Slots, q.slots[j].ck = q.slots[k].ck
                 PROVE  j = k \/ q.slots[j].ck = NoKey
    BY DEF RingApart
  <2>2. CASE q.slots[j].ck # NoKey
    <3>1. /\ r.slots[j].ck \in RingCells(r) /\ r.slots[k].ck \in RingCells(r)
          /\ f[r.slots[j].ck] = f[r.slots[k].ck] /\ r.slots[j].ck # NoKey
      BY <1>3, <2>1, <2>2
    <3>2. r.slots[j].ck = r.slots[k].ck
      BY <1>7, <3>1 DEF Distinct
    <3> QED
      BY <1>7, <3>1, <3>2 DEF RingApart
  <2> QED
    BY <2>2
<1> QED
  BY <1>1, <1>4, <1>5, <1>6, <1>7 DEF RingCopied

(* a store,                                                                *)
StoreCopied(q, st, f, other, g, h) ==
  /\ StoreIn(q, other) /\ StoreCells(q) = Apply(f, StoreCells(st))
  /\ MapStore(q, h) = MapStore(st, g)
  /\ Distinct(f, StoreCells(st)) /\ StoreApart(st) => StoreApart(q)
(* Copying a store cell by cell gives the same value, with no cell twice   *)
(* if the copies are distinct.                                             *)
LEMMA StoreCopy ==
  ASSUME NEW st, NEW cells, StoreIn(st, cells), NEW other, NEW f,
         Names(f, StoreCells(st), other), NEW g, NEW h,
         \A c \in StoreCells(st) : h[f[c]] = g[c]
  PROVE  StoreCopied(MapStore(st, f), st, f, other, g, h)
<1>1. PICK q : q = MapStore(st, f)
  OBVIOUS
<1>2. StoreSeen(q, st, f)
  BY <1>1, MapStoreFacts
<1>3. ASSUME NEW id \in DOMAIN st.entries
      PROVE  /\ st.entries[id] \in StoreCells(st) /\ q.entries[id] = f[st.entries[id]]
             /\ q.entries[id] \in other /\ h[q.entries[id]] = g[st.entries[id]]
  BY <1>2 DEF StoreSeen, StoreCells, Names
<1>4. StoreIn(q, other)
  BY <1>2, <1>3 DEF StoreIn, StoreSeen
<1>5. StoreCells(q) = Apply(f, StoreCells(st))
  BY <1>2 DEF StoreSeen, StoreCells, Apply
<1>6. MapStore(q, h) = MapStore(st, g)
  <2>1. PICK x, y : x = MapStore(q, h) /\ y = MapStore(st, g)
    OBVIOUS
  <2>2. StoreSeen(x, q, h) /\ StoreSeen(y, st, g)
    BY <1>4, <2>1, MapStoreFacts
  <2>3. x.entries = y.entries
    BY <1>2, <1>3, <2>2 DEF StoreSeen
  <2> QED
    BY <1>2, <2>1, <2>2, <2>3 DEF StoreSeen
<1>7. ASSUME Distinct(f, StoreCells(st)), StoreApart(st) PROVE StoreApart(q)
  BY <1>2, <1>3, <1>7 DEF StoreApart, StoreSeen, Distinct
<1> QED
  BY <1>1, <1>4, <1>5, <1>6, <1>7 DEF StoreCopied

-----------------------------------------------------------------------------
(* and an owner with both: p in heap q is o in heap m by other names.      *)
Copies(m, o, q, p, f) ==
  /\ p = [o EXCEPT !.rk = f[o.rk], !.cks = At(f, o.cks), !.recvChains = p.recvChains,
                   !.mkSkipped = p.mkSkipped]
  /\ p.recvChains \in DOMAIN q.rings /\ p.mkSkipped \in DOMAIN q.stores
  /\ q.rings[p.recvChains] = MapRing(m.rings[o.recvChains], f)
  /\ q.stores[p.mkSkipped] = MapStore(m.stores[o.mkSkipped], f)
  /\ Names(f, CellsOf(m, o), DOMAIN q.keys)
  /\ \A c \in CellsOf(m, o) : q.keys[f[c]] = m.keys[c]

(* Then p is, in q, the value that o is in m, and is apart if o is.        *)
Copied(m, o, q, p, f) ==
  /\ RefsIn(q, p) /\ CellsOf(q, p) = Apply(f, CellsOf(m, o)) /\ ValueOf(q, p) = ValueOf(m, o)
  /\ Distinct(f, CellsOf(m, o)) /\ Apart(m, o) => Apart(q, p)
(* So does copying all that an owner refers to.                            *)
LEMMA OwnerCopy ==
  ASSUME NEW m, NEW o, RefsIn(m, o), NoKey \notin DOMAIN m.keys,
         NEW q, NoKey \notin DOMAIN q.keys, NEW p, NEW f, Copies(m, o, q, p, f)
  PROVE  Copied(m, o, q, p, f)
<1>1. PICK r, st, x, z : /\ r = m.rings[o.recvChains] /\ st = m.stores[o.mkSkipped]
                         /\ x = q.rings[p.recvChains] /\ z = q.stores[p.mkSkipped]
  OBVIOUS
<1>2. /\ RingIn(r, DOMAIN m.keys) /\ StoreIn(st, DOMAIN m.keys)
      /\ o = [g \in SessionFields |-> o[g]]
      /\ o.rk \in DOMAIN m.keys /\ o.cks \in DOMAIN m.keys \cup {NoKey}
  BY <1>1 DEF RefsIn
<1>3. CellsOf(m, o) = ({o.rk, o.cks} \ {NoKey}) \cup RingCells(r) \cup StoreCells(st)
  BY <1>1 DEF CellsOf
<1>4. CellsOf(q, p) = ({p.rk, p.cks} \ {NoKey}) \cup RingCells(x) \cup StoreCells(z)
  BY <1>1 DEF CellsOf
<1>5. \A c \in CellsOf(m, o) : f[c] \in DOMAIN q.keys /\ q.keys[f[c]] = m.keys[c]
  BY DEF Copies, Names
<1>6. RingCopied(x, r, f, DOMAIN q.keys, m.keys, q.keys)
  <2>1. x = MapRing(r, f)
    BY <1>1 DEF Copies
  <2>2. Names(f, RingCells(r), DOMAIN q.keys) /\ \A c \in RingCells(r) : q.keys[f[c]] = m.keys[c]
    BY <1>3, <1>5 DEF Names
  <2> QED
    BY <1>2, <2>1, <2>2, RingCopy
<1>7. StoreCopied(z, st, f, DOMAIN q.keys, m.keys, q.keys)
  <2>1. z = MapStore(st, f)
    BY <1>1 DEF Copies
  <2>2. /\ Names(f, StoreCells(st), DOMAIN q.keys)
        /\ \A c \in StoreCells(st) : q.keys[f[c]] = m.keys[c]
    BY <1>3, <1>5 DEF Names
  <2> QED
    BY <1>2, <2>1, <2>2, StoreCopy
<1>8. /\ p = [g \in SessionFields |-> p[g]] /\ p.rk = f[o.rk] /\ p.cks = At(f, o.cks)
      /\ \A g \in PlainFields : p[g] = o[g]
  <2>1. p = [o EXCEPT !.rk = f[o.rk], !.cks = At(f, o.cks), !.recvChains = p.recvChains,
                      !.mkSkipped = p.mkSkipped]
    BY DEF Copies
  <2> QED
    BY <1>2, <2>1 DEF SessionFields, PlainFields
<1>9. o.rk \in CellsOf(m, o) /\ o.rk # NoKey
  BY <1>2, <1>3
<1>10. \/ o.cks = NoKey /\ p.cks = NoKey
       \/ o.cks \in CellsOf(m, o) /\ o.cks # NoKey /\ p.cks = f[o.cks] /\ p.cks # NoKey
  BY <1>2, <1>3, <1>5, <1>8 DEF At
<1>11. RefsIn(q, p)
  <2>1. RingIn(x, DOMAIN q.keys) /\ StoreIn(z, DOMAIN q.keys)
    BY <1>6, <1>7 DEF RingCopied, StoreCopied
  <2>2. p.rk \in DOMAIN q.keys /\ p.cks \in DOMAIN q.keys \cup {NoKey}
    BY <1>5, <1>8, <1>9, <1>10
  <2>3. p.recvChains \in DOMAIN q.rings /\ p.mkSkipped \in DOMAIN q.stores
    BY DEF Copies
  <2> QED
    BY <1>1, <1>8, <2>1, <2>2, <2>3 DEF RefsIn
<1>12. RingCells(x) = Apply(f, RingCells(r)) /\ StoreCells(z) = Apply(f, StoreCells(st))
  BY <1>6, <1>7 DEF RingCopied, StoreCopied
<1>13. CellsOf(q, p) = Apply(f, CellsOf(m, o))
  <2>1. {p.rk, p.cks} \ {NoKey} = Apply(f, {o.rk, o.cks} \ {NoKey})
    <3>1. p.rk # NoKey
      BY <1>5, <1>8, <1>9
    <3> QED
      BY <1>8, <1>9, <1>10, <3>1 DEF Apply
  <2>2. PICK a, b, c : a = {o.rk, o.cks} \ {NoKey} /\ b = RingCells(r) /\ c = StoreCells(st)
    OBVIOUS
  <2>3. Apply(f, a \cup b \cup c) = Apply(f, a) \cup Apply(f, b) \cup Apply(f, c)
    BY DEF Apply
  <2> QED
    BY <1>3, <1>4, <1>12, <2>1, <2>2, <2>3
<1>14. ValueOf(q, p) = ValueOf(m, o)
  <2>1. PICK v, w : v = ValueOf(m, o) /\ w = ValueOf(q, p)
    OBVIOUS
  <2>2. ValueSeen(v, m, o) /\ ValueSeen(w, q, p)
    BY <1>2, <1>8, <2>1, ValueFields
  <2>3. SessionShape(v) /\ SessionShape(w)
    BY <2>2 DEF ValueSeen, SessionShape
  <2>4. v.recvChains = w.recvChains /\ v.mkSkipped = w.mkSkipped
    <3>1. MapRing(x, q.keys) = MapRing(r, m.keys) /\ MapStore(z, q.keys) = MapStore(st, m.keys)
      BY <1>6, <1>7 DEF RingCopied, StoreCopied
    <3>2. v.recvChains = MapRing(r, m.keys) /\ w.recvChains = MapRing(x, q.keys)
      BY <1>1, <2>2 DEF ValueSeen
    <3>3. v.mkSkipped = MapStore(st, m.keys) /\ w.mkSkipped = MapStore(z, q.keys)
      BY <1>1, <2>2 DEF ValueSeen
    <3> QED
      BY <3>1, <3>2, <3>3
  <2>5. v.rk = w.rk
    BY <1>5, <1>8, <1>9, <2>2 DEF ValueSeen
  <2>6. v.cks = w.cks
    <3>1. v.cks = (IF o.cks = NoKey THEN NoChainKey ELSE m.keys[o.cks])
      BY <2>2 DEF ValueSeen
    <3>2. w.cks = (IF p.cks = NoKey THEN NoChainKey ELSE q.keys[p.cks])
      BY <2>2 DEF ValueSeen
    <3> QED
      BY <1>5, <1>10, <3>1, <3>2
  <2>7. /\ v.ns = w.ns /\ v.pn = w.pn /\ v.dhs = w.dhs /\ v.dhr = w.dhr /\ v.dhRSet = w.dhRSet
        /\ v.dhRatchetPerformed = w.dhRatchetPerformed
    BY <1>8, <2>2 DEF ValueSeen, PlainFields
  <2> QED
    BY <2>1, <2>3, <2>4, <2>5, <2>6, <2>7, SameSession
<1>15. ASSUME Distinct(f, CellsOf(m, o)), Apart(m, o) PROVE Apart(q, p)
  <2>1. /\ o.rk # o.cks /\ o.rk \notin RingCells(r) /\ o.cks \notin RingCells(r)
        /\ o.rk \notin StoreCells(st) /\ o.cks \notin StoreCells(st)
        /\ RingCells(r) \cap StoreCells(st) = {} /\ RingApart(r) /\ StoreApart(st)
    BY <1>1, <1>15 DEF Apart
  <2>2. \A c, d \in CellsOf(m, o) : f[c] = f[d] => c = d
    BY <1>15 DEF Distinct
  <2>3. Distinct(f, RingCells(r)) /\ Distinct(f, StoreCells(st))
    BY <1>3, <2>2 DEF Distinct
  <2>4. RingApart(x) /\ StoreApart(z)
    BY <1>6, <1>7, <2>1, <2>3 DEF RingCopied, StoreCopied
  <2>5. \A c \in CellsOf(m, o), s \in SUBSET CellsOf(m, o) : f[c] \in Apply(f, s) => c \in s
    BY <2>2 DEF Apply
  <2>6. RingCells(r) \in SUBSET CellsOf(m, o) /\ StoreCells(st) \in SUBSET CellsOf(m, o)
    BY <1>3
  <2>7. p.rk \notin RingCells(x) /\ p.rk \notin StoreCells(z)
    BY <1>8, <1>9, <1>12, <2>1, <2>5, <2>6
  <2>8. p.cks \notin RingCells(x) /\ p.cks \notin StoreCells(z) /\ p.rk # p.cks
    <3>1. CASE p.cks = NoKey
      <4>1. p.rk # NoKey /\ NoKey \notin RingCells(x)
        BY <1>5, <1>8, <1>9 DEF RingCells
      <4>2. NoKey \notin StoreCells(z)
        <5>1. StoreIn(z, DOMAIN q.keys)
          BY <1>7 DEF StoreCopied
        <5>2. \A id \in DOMAIN z.entries : z.entries[id] \in DOMAIN q.keys
          BY <5>1 DEF StoreIn
        <5> QED
          BY <5>2 DEF StoreCells
      <4> QED
        BY <3>1, <4>1, <4>2
    <3>2. CASE p.cks # NoKey
      BY <1>8, <1>9, <1>10, <1>12, <2>1, <2>2, <2>5, <2>6, <3>2
    <3> QED
      BY <3>1, <3>2
  <2>9. RingCells(x) \cap StoreCells(z) = {}
    <3>1. SUFFICES ASSUME NEW c \in RingCells(r), f[c] \in StoreCells(z) PROVE FALSE
      BY <1>12 DEF Apply
    <3> QED
      BY <1>12, <2>1, <2>5, <2>6, <3>1
  <2> QED
    BY <1>1, <2>4, <2>7, <2>8, <2>9 DEF Apart
<1> QED
  BY <1>11, <1>13, <1>14, <1>15 DEF Copied

(* Record copies everything the session refers to, and nothing of what it  *)
(* copies is shared.                                                       *)
Compact(m) == DOMAIN m.keys \subseteq 1 .. Cardinality(DOMAIN m.keys)
Separate(q, p) ==
  /\ OwnerOK(q, p) /\ CellsOf(q, p) \cap CellsOf(q, q.s) = {}
  /\ p.recvChains # q.s.recvChains /\ p.mkSkipped # q.s.mkSkipped
Recorded(q, m, p) ==
  /\ Good(q) /\ q.s = m.s /\ ValueOf(q, q.s) = ValueOf(m, m.s)
  /\ q.prev = {p} /\ Separate(q, p) /\ ValueOf(q, p) = ValueOf(m, m.s)
  /\ p.dhr = m.s.dhr
  /\ \A c \in DOMAIN q.keys : \E d \in DOMAIN m.keys : q.keys[c] = m.keys[d]
(* The snapshot Record takes is the session as a value, in slices and      *)
(* objects of its own.                                                     *)
LEMMA RecordGoes ==
  ASSUME NEW m, Good(m), Compact(m)
  PROVE  \E p : Recorded(RecordPrev(m), m, p)
<1>1. PICK size, copy, ring, st, p, q :
        /\ size = Cardinality(DOMAIN m.keys) /\ copy = [c \in DOMAIN m.keys |-> size + c]
        /\ ring = NewIn(m.rings) /\ st = NewIn(m.stores)
        /\ p = [m.s EXCEPT !.rk = copy[m.s.rk], !.cks = At(copy, m.s.cks), !.recvChains = ring,
                           !.mkSkipped = st]
        /\ q = RecordPrev(m)
  BY Zenon
<1>2. /\ HeapOK(m) /\ RefsIn(m, m.s) /\ Apart(m, m.s) /\ NoKey \notin DOMAIN m.keys
      /\ m.s = [f \in SessionFields |-> m.s[f]]
      /\ m.s.recvChains \in DOMAIN m.rings /\ m.s.mkSkipped \in DOMAIN m.stores
      /\ CellsOf(m, m.s) \subseteq DOMAIN m.keys
  BY GoodFacts
<1>3. /\ m = [s |-> m.s, prev |-> m.prev, keys |-> m.keys, rings |-> m.rings, stores |-> m.stores]
      /\ RefsOK(m.keys) /\ RefsOK(m.rings) /\ RefsOK(m.stores)
      /\ \A c \in DOMAIN m.keys : KeyShape(m.keys[c])
  BY <1>2 DEF HeapOK
<1>4. size \in Nat /\ DOMAIN m.keys \subseteq 1 .. size
  BY <1>1, <1>3, FS_CardinalityType DEF RefsOK, Compact
<1>5. /\ ring \in Int /\ ring \notin DOMAIN m.rings /\ st \in Int /\ st \notin DOMAIN m.stores
  BY <1>1, <1>3, NewIsNew
<1>6. /\ q.s = m.s /\ q.prev = {p}
      /\ q.keys = [c \in DOMAIN copy \cup Range(copy) |->
                     m.keys[IF c \in DOMAIN copy THEN c ELSE c - size]]
      /\ q.rings = With(m.rings, ring, MapRing(m.rings[m.s.recvChains], copy))
      /\ q.stores = With(m.stores, st, MapStore(m.stores[m.s.mkSkipped], copy))
      /\ q = [s |-> q.s, prev |-> q.prev, keys |-> q.keys, rings |-> q.rings, stores |-> q.stores]
  <2>1. RecordPrev(m) =
          [m EXCEPT !.keys = [c \in DOMAIN copy \cup Range(copy) |->
                                m.keys[IF c \in DOMAIN copy THEN c ELSE c - size]],
                    !.rings = With(m.rings, ring, MapRing(m.rings[m.s.recvChains], copy)),
                    !.stores = With(m.stores, st, MapStore(m.stores[m.s.mkSkipped], copy)),
                    !.prev = {p}]
    BY <1>1 DEF RecordPrev
  <2> QED
    BY Zenon, <1>1, <1>3, <2>1
<1>7. /\ Range(copy) = {size + c : c \in DOMAIN m.keys} /\ DOMAIN copy = DOMAIN m.keys
      /\ Range(copy) \cap DOMAIN m.keys = {} /\ Range(copy) \subseteq Int
  BY <1>1, <1>4 DEF Range
<1>8. /\ DOMAIN q.keys = DOMAIN m.keys \cup Range(copy)
      /\ \A c \in DOMAIN m.keys : q.keys[c] = m.keys[c]
      /\ \A c \in DOMAIN m.keys : /\ copy[c] \in Range(copy) /\ copy[c] \in DOMAIN q.keys
                                  /\ q.keys[copy[c]] = m.keys[c]
  <2>1. DOMAIN q.keys = DOMAIN m.keys \cup Range(copy)
    BY <1>6, <1>7
  <2>2. \A c \in DOMAIN m.keys : q.keys[c] = m.keys[c]
    BY <1>6, <1>7
  <2>3. ASSUME NEW c \in DOMAIN m.keys
        PROVE  copy[c] \in Range(copy) /\ copy[c] = size + c /\ copy[c] - size = c
    BY <1>1, <1>4, <1>7
  <2>4. ASSUME NEW c \in DOMAIN m.keys PROVE q.keys[copy[c]] = m.keys[c]
    BY <1>6, <1>7, <2>3
  <2> QED
    BY <2>1, <2>2, <2>3, <2>4
<1>9. \A c \in DOMAIN q.keys : \E d \in DOMAIN m.keys : q.keys[c] = m.keys[d]
  <2>1. SUFFICES ASSUME NEW c \in DOMAIN q.keys PROVE \E d \in DOMAIN m.keys : q.keys[c] = m.keys[d]
    OBVIOUS
  <2>2. CASE c \in DOMAIN m.keys
    BY <1>8, <2>2
  <2>3. CASE c \in Range(copy)
    <3>1. PICK d \in DOMAIN m.keys : c = size + d
      BY <1>7, <2>3
    <3>2. c = copy[d]
      BY <1>1, <3>1
    <3> QED
      BY <1>8, <3>2
  <2> QED
    BY <1>8, <2>1, <2>2, <2>3
<1>10. /\ DOMAIN q.rings = DOMAIN m.rings \cup {ring} /\ DOMAIN q.stores = DOMAIN m.stores \cup {st}
       /\ q.rings[ring] = MapRing(m.rings[m.s.recvChains], copy)
       /\ q.stores[st] = MapStore(m.stores[m.s.mkSkipped], copy)
       /\ q.rings[m.s.recvChains] = m.rings[m.s.recvChains]
       /\ q.stores[m.s.mkSkipped] = m.stores[m.s.mkSkipped]
  BY <1>2, <1>5, <1>6 DEF With
<1>11. HeapOK(q)
  <2>1. RefsOK(q.keys)
    <3>1. IsFiniteSet(DOMAIN m.keys) /\ DOMAIN m.keys \subseteq Int
      BY <1>3 DEF RefsOK
    <3>2. IsFiniteSet(Range(copy))
      <4>1. Range(copy) \subseteq 1 .. size + size
        BY <1>4, <1>7
      <4>2. IsFiniteSet(1 .. size + size)
        <5>1. PICK top \in Int : top = size + size
          BY <1>4
        <5> QED
          BY <5>1, FS_Interval
      <4> QED
        BY <4>1, <4>2, FS_Subset
    <3>3. IsFiniteSet(DOMAIN m.keys \cup Range(copy))
      BY <3>1, <3>2, FS_Union
    <3> QED
      BY <1>7, <1>8, <3>1, <3>3 DEF RefsOK
  <2>2. RefsOK(q.rings) /\ RefsOK(q.stores)
    BY <1>3, <1>5, <1>10, FS_AddElement DEF RefsOK
  <2>3. \A c \in DOMAIN q.keys : KeyShape(q.keys[c])
    BY <1>3, <1>9
  <2> QED
    BY <1>6, <2>1, <2>2, <2>3 DEF HeapOK
<1>12. OwnerOK(q, m.s) /\ ValueOf(q, m.s) = ValueOf(m, m.s) /\ CellsOf(q, m.s) = CellsOf(m, m.s)
  <2>1. OwnerOK(m, m.s)
    BY DEF Good
  <2>2. /\ DOMAIN m.keys \subseteq DOMAIN q.keys
        /\ m.s.recvChains \in DOMAIN q.rings /\ m.s.mkSkipped \in DOMAIN q.stores
    BY <1>2, <1>8, <1>10
  <2>3. \A c \in CellsOf(m, m.s) : q.keys[c] = m.keys[c]
    BY <1>2, <1>8
  <2> QED
    BY <1>3, <1>10, <2>1, <2>2, <2>3, KeptOwner
<1>13. p.recvChains = ring /\ p.mkSkipped = st /\ p.dhr = m.s.dhr
  BY <1>1, <1>2 DEF SessionFields
<1>14. Copied(m, m.s, q, p, copy)
  <2>1. Copies(m, m.s, q, p, copy)
    <3>1. p = [m.s EXCEPT !.rk = copy[m.s.rk], !.cks = At(copy, m.s.cks),
                          !.recvChains = p.recvChains, !.mkSkipped = p.mkSkipped]
      BY <1>1, <1>13
    <3>2. /\ p.recvChains \in DOMAIN q.rings /\ p.mkSkipped \in DOMAIN q.stores
          /\ q.rings[p.recvChains] = MapRing(m.rings[m.s.recvChains], copy)
          /\ q.stores[p.mkSkipped] = MapStore(m.stores[m.s.mkSkipped], copy)
      BY <1>10, <1>13
    <3>3. Names(copy, CellsOf(m, m.s), DOMAIN q.keys)
      BY <1>2, <1>8 DEF Names
    <3>4. \A c \in CellsOf(m, m.s) : q.keys[copy[c]] = m.keys[c]
      BY <1>2, <1>8
    <3> QED
      BY <3>1, <3>2, <3>3, <3>4 DEF Copies
  <2>2. NoKey \notin DOMAIN q.keys
    BY <1>11, CellsNotNil
  <2> QED
    BY <1>2, <2>1, <2>2, OwnerCopy
<1>15. Distinct(copy, CellsOf(m, m.s))
  BY <1>1, <1>2, <1>4 DEF Distinct
<1>16. /\ OwnerOK(q, p) /\ ValueOf(q, p) = ValueOf(m, m.s)
       /\ CellsOf(q, p) = Apply(copy, CellsOf(m, m.s))
  BY <1>2, <1>14, <1>15 DEF Copied, OwnerOK
<1>17. CellsOf(q, p) \cap CellsOf(q, q.s) = {}
  <2>1. Apply(copy, CellsOf(m, m.s)) \subseteq Range(copy)
    BY <1>2, <1>8 DEF Apply
  <2> QED
    BY <1>2, <1>6, <1>7, <1>12, <1>16, <2>1
<1>18. p.recvChains # q.s.recvChains /\ p.mkSkipped # q.s.mkSkipped
  BY <1>2, <1>5, <1>6, <1>13
<1>19. Separate(q, p)
  BY <1>16, <1>17, <1>18 DEF Separate
<1>20. Good(q) /\ ValueOf(q, q.s) = ValueOf(m, m.s)
  BY <1>6, <1>11, <1>12 DEF Good
<1>21. Recorded(q, m, p)
  BY <1>6, <1>9, <1>13, <1>16, <1>19, <1>20 DEF Recorded
<1> QED
  BY <1>1, <1>21

(* A rollback gives the session copies of the snapshot's slices, and the   *)
(* snapshot's objects; nothing that was the session's is seen any more.    *)
RolledBack(q, x, p) ==
  /\ Good(q) /\ ValueOf(q, q.s) = ValueOf(x, p)
  /\ q.prev = {p} /\ RefsIn(q, p) /\ q.s.dhr = p.dhr
  /\ \A c \in Live(q) : \E d \in CellsOf(x, p) : q.keys[c] = x.keys[d]
(* After a rollback the session is, as a value, what the snapshot was, and *)
(* shares no slice it could zero in the snapshot's stead.                  *)
LEMMA RollbackGoes ==
  ASSUME NEW x, Good(x), NEW p, x.prev = {p}, Separate(x, p)
  PROVE  RolledBack(RollbackMemory(x), x, p)
<1>1. PICK a, b, x1, x2, zero, x3, ring, st, o, q :
        /\ a = NewCell(x) /\ x1 = Allocate(x, x.keys[p.rk])
        /\ b = CopyCell(x1, p.cks) /\ x2 = CopySlice(x1, p.cks)
        /\ zero = {x.s.rk, x.s.cks} \cup RingCells(x.rings[x.s.recvChains])
        /\ x3 = ZeroBytes(x2, zero)
        /\ ring = x.rings[p.recvChains] /\ st = x.stores[p.mkSkipped]
        /\ o = [p EXCEPT !.rk = a, !.cks = b] /\ q = RollbackMemory(x)
  BY Zenon
<1>2. /\ HeapOK(x) /\ NoKey \notin DOMAIN x.keys /\ x.s.recvChains \in DOMAIN x.rings
      /\ CellsOf(x, x.s) \subseteq DOMAIN x.keys
  BY GoodFacts
<1>3. /\ OwnerOK(x, p) /\ CellsOf(x, p) \cap CellsOf(x, x.s) = {} /\ p.recvChains # x.s.recvChains
      /\ RefsIn(x, p) /\ Apart(x, p) /\ CellsOf(x, p) \subseteq DOMAIN x.keys
  BY CellsAreThere DEF Separate, OwnerOK
<1>4. /\ p = [f \in SessionFields |-> p[f]] /\ p.rk \in DOMAIN x.keys
      /\ p.cks \in DOMAIN x.keys \cup {NoKey} /\ p.recvChains \in DOMAIN x.rings
      /\ p.mkSkipped \in DOMAIN x.stores /\ RingIn(ring, DOMAIN x.keys)
      /\ StoreIn(st, DOMAIN x.keys)
  BY <1>1, <1>3 DEF RefsIn
<1>5. CellsOf(x, p) = ({p.rk, p.cks} \ {NoKey}) \cup RingCells(ring) \cup StoreCells(st)
  BY <1>1 DEF CellsOf
<1>6. KeyShape(x.keys[p.rk]) /\ (p.cks # NoKey => KeyShape(x.keys[p.cks]))
  BY <1>2, <1>4 DEF HeapOK
<1>7. /\ HeapOK(x1) /\ a \in Int \ DOMAIN x.keys /\ a # NoKey
      /\ DOMAIN x1.keys = DOMAIN x.keys \cup {a} /\ x1.keys[a] = x.keys[p.rk]
      /\ \A c \in DOMAIN x.keys : x1.keys[c] = x.keys[c]
      /\ x1.s = x.s /\ x1.prev = x.prev /\ x1.rings = x.rings /\ x1.stores = x.stores
  BY <1>1, <1>2, <1>6, AllocateFacts DEF Allocated
<1>8. /\ HeapOK(x2) /\ (b = NoKey \/ b \in DOMAIN x2.keys \ DOMAIN x1.keys)
      /\ DOMAIN x1.keys \subseteq DOMAIN x2.keys
      /\ \A c \in DOMAIN x1.keys : x2.keys[c] = x1.keys[c]
      /\ (p.cks = NoKey <=> b = NoKey) /\ (p.cks # NoKey => x2.keys[b] = x.keys[p.cks])
      /\ x2.s = x.s /\ x2.prev = x.prev /\ x2.rings = x.rings /\ x2.stores = x.stores
  <2>1. CASE p.cks = NoKey
    BY <1>1, <1>7, <2>1 DEF CopyCell, CopySlice
  <2>2. CASE p.cks # NoKey
    <3>1. b = NewCell(x1) /\ x2 = Allocate(x1, x1.keys[p.cks]) /\ x1.keys[p.cks] = x.keys[p.cks]
      BY Zenon, <1>1, <1>4, <1>7, <2>2 DEF CopyCell, CopySlice
    <3>2. Allocated(x2, x1, b, x.keys[p.cks])
      BY <1>6, <1>7, <2>2, <3>1, AllocateFacts
    <3> QED
      BY <1>7, <2>2, <3>2 DEF Allocated
  <2> QED
    BY <2>1, <2>2
<1>9. /\ HeapOK(x3) /\ DOMAIN x3.keys = DOMAIN x2.keys
      /\ \A c \in DOMAIN x2.keys : x3.keys[c] = IF c \in zero THEN Erased ELSE x2.keys[c]
      /\ x3.s = x.s /\ x3.prev = x.prev /\ x3.rings = x.rings /\ x3.stores = x.stores
  <2>1. HeapOK(x2) /\ x3 = ZeroBytes(x2, zero)
    BY <1>1, <1>8
  <2>2. Blanked(x3, x2, zero)
    BY <2>1, ZeroFacts
  <2> QED
    BY <1>8, <2>2 DEF Blanked
<1>10. q = [x3 EXCEPT !.rings[x.s.recvChains] = NewReceiverChains, !.s = o]
  <2>1. Snapshot(x) = p
    BY DEF Snapshot
  <2>2. [p EXCEPT !.rk = NewCell(x), !.cks = CopyCell(x1, p.cks)] = o
    BY <1>1
  <2>3. q = [x3 EXCEPT !.rings[x.s.recvChains] = NewReceiverChains,
                       !.s = [p EXCEPT !.rk = NewCell(x), !.cks = CopyCell(x1, p.cks)]]
    BY <1>1, <2>1 DEF RollbackMemory
  <2> QED
    BY <2>2, <2>3
<1>11. /\ HeapOK(q) /\ q.s = o /\ q.prev = {p} /\ q.keys = x3.keys /\ q.stores = x.stores
       /\ DOMAIN q.rings = DOMAIN x.rings /\ q.rings[p.recvChains] = ring
  <2>1. /\ x3 = [s |-> x3.s, prev |-> x3.prev, keys |-> x3.keys, rings |-> x3.rings,
                 stores |-> x3.stores]
        /\ RefsOK(x3.keys) /\ RefsOK(x3.rings) /\ RefsOK(x3.stores)
        /\ \A c \in DOMAIN x3.keys : KeyShape(x3.keys[c])
    BY <1>9 DEF HeapOK
  <2>2. PICK rings : rings = [x.rings EXCEPT ![x.s.recvChains] = NewReceiverChains]
    OBVIOUS
  <2>3. q = [s |-> o, prev |-> x3.prev, keys |-> x3.keys, rings |-> rings, stores |-> x3.stores]
    BY <1>9, <1>10, <2>1, <2>2
  <2>4. DOMAIN rings = DOMAIN x.rings /\ rings[p.recvChains] = ring
    BY <1>1, <1>3, <1>4, <2>2
  <2> QED
    BY <1>9, <2>1, <2>3, <2>4 DEF HeapOK, RefsOK
<1>12. \A c \in CellsOf(x, p) : c \notin zero /\ c \in DOMAIN q.keys /\ q.keys[c] = x.keys[c]
  <2>1. SUFFICES ASSUME NEW c \in CellsOf(x, p)
                 PROVE  c \notin zero /\ c \in DOMAIN q.keys /\ q.keys[c] = x.keys[c]
    OBVIOUS
  <2>2. c # NoKey /\ c \in DOMAIN x.keys
    BY <1>2, <1>3
  <2>3. c \notin zero
    BY <1>1, <1>3, <2>2 DEF CellsOf
  <2> QED
    BY <1>7, <1>8, <1>9, <1>11, <2>2, <2>3
<1>13. /\ a \in DOMAIN q.keys /\ q.keys[a] = x.keys[p.rk] /\ a # b
       /\ b # NoKey => b \in DOMAIN q.keys /\ q.keys[b] = x.keys[p.cks] /\ b \notin DOMAIN x.keys
  <2>1. zero \subseteq DOMAIN x.keys \cup {NoKey}
    BY <1>1, <1>2 DEF CellsOf
  <2>2. a \in DOMAIN x2.keys /\ a \notin zero /\ x2.keys[a] = x.keys[p.rk]
    BY <1>7, <1>8, <2>1
  <2>3. b # NoKey => b \in DOMAIN x2.keys /\ b \notin zero /\ b \notin DOMAIN x.keys
    BY <1>7, <1>8, <2>1
  <2>4. a # b
    BY <1>7, <1>8
  <2> QED
    BY <1>8, <1>9, <1>11, <2>2, <2>3, <2>4
<1>14. RefsIn(q, p)
  <2>1. DOMAIN x.keys \subseteq DOMAIN q.keys
    BY <1>7, <1>8, <1>9, <1>11
  <2> QED
    BY Zenon, <1>1, <1>3, <1>4, <1>11, <2>1, KeptRefs
<1>15. /\ o = [f \in SessionFields |-> o[f]] /\ o.rk = a /\ o.cks = b
       /\ o.recvChains = p.recvChains /\ o.mkSkipped = p.mkSkipped
       /\ \A f \in PlainFields : o[f] = p[f]
  BY <1>1, <1>4 DEF SessionFields, PlainFields
<1>16. q.rings[o.recvChains] = ring /\ q.stores[o.mkSkipped] = st
  BY <1>1, <1>11, <1>15
<1>17. RefsIn(q, o)
  <2>1. RingIn(ring, DOMAIN q.keys) /\ StoreIn(st, DOMAIN q.keys)
    BY Zenon, <1>1, <1>11, <1>14 DEF RefsIn
  <2>2. o.rk \in DOMAIN q.keys /\ o.cks \in DOMAIN q.keys \cup {NoKey}
    BY <1>13, <1>15
  <2> QED
    BY <1>4, <1>11, <1>15, <1>16, <2>1, <2>2 DEF RefsIn
<1>18. Apart(q, o)
  <2>1. RingCells(ring) \subseteq DOMAIN x.keys /\ StoreCells(st) \subseteq DOMAIN x.keys
    BY <1>3, <1>5
  <2>2. NoKey \notin RingCells(ring) /\ NoKey \notin StoreCells(st)
    BY <1>2, <2>1
  <2>3. RingCells(ring) \cap StoreCells(st) = {} /\ RingApart(ring) /\ StoreApart(st)
    BY <1>1, <1>3 DEF Apart
  <2>4. o.rk \notin RingCells(ring) /\ o.rk \notin StoreCells(st)
    BY <1>7, <1>15, <2>1
  <2>5. o.cks \notin RingCells(ring) /\ o.cks \notin StoreCells(st)
    BY <1>13, <1>15, <2>1, <2>2
  <2>6. o.rk # o.cks
    BY <1>13, <1>15
  <2> QED
    BY <1>16, <2>3, <2>4, <2>5, <2>6 DEF Apart
<1>19. ValueOf(q, o) = ValueOf(x, p)
  <2>1. PICK v, w : v = ValueOf(x, p) /\ w = ValueOf(q, o)
    OBVIOUS
  <2>2. ValueSeen(v, x, p) /\ ValueSeen(w, q, o)
    BY <1>4, <1>15, <2>1, ValueFields
  <2>3. SessionShape(v) /\ SessionShape(w)
    BY <2>2 DEF ValueSeen, SessionShape
  <2>4. v.recvChains = w.recvChains
    <3>1. \A c \in RingCells(ring) : x.keys[c] = q.keys[c]
      BY <1>5, <1>12
    <3>2. ring.slots = [j \in Slots |-> ring.slots[j]]
      BY <1>4 DEF RingIn
    <3>3. MapRing(ring, x.keys) = MapRing(ring, q.keys)
      BY <3>1, <3>2, SameRingValue
    <3> QED
      BY <1>1, <1>16, <2>2, <3>3 DEF ValueSeen
  <2>5. v.mkSkipped = w.mkSkipped
    <3>1. \A c \in StoreCells(st) : x.keys[c] = q.keys[c]
      BY <1>5, <1>12
    <3>2. MapStore(st, x.keys) = MapStore(st, q.keys)
      BY <3>1, SameStoreValue
    <3> QED
      BY <1>1, <1>16, <2>2, <3>2 DEF ValueSeen
  <2>6. v.rk = w.rk
    BY <1>13, <1>15, <2>2 DEF ValueSeen
  <2>7. v.cks = w.cks
    <3>1. v.cks = (IF p.cks = NoKey THEN NoChainKey ELSE x.keys[p.cks])
      BY <2>2 DEF ValueSeen
    <3>2. w.cks = (IF o.cks = NoKey THEN NoChainKey ELSE q.keys[o.cks])
      BY <2>2 DEF ValueSeen
    <3> QED
      BY <1>8, <1>13, <1>15, <3>1, <3>2
  <2>8. /\ v.ns = w.ns /\ v.pn = w.pn /\ v.dhs = w.dhs /\ v.dhr = w.dhr /\ v.dhRSet = w.dhRSet
        /\ v.dhRatchetPerformed = w.dhRatchetPerformed
    BY <1>15, <2>2 DEF ValueSeen, PlainFields
  <2> QED
    BY <2>1, <2>3, <2>4, <2>5, <2>6, <2>7, <2>8, SameSession
<1>20. \A c \in Live(q) : \E d \in CellsOf(x, p) : q.keys[c] = x.keys[d]
  <2>1. CellsOf(q, o) = ({a, b} \ {NoKey}) \cup RingCells(ring) \cup StoreCells(st)
    BY <1>15, <1>16 DEF CellsOf
  <2>2. CellsOf(q, p) = CellsOf(x, p)
    BY <1>1, <1>5, <1>11 DEF CellsOf
  <2>3. Live(q) = CellsOf(q, o) \cup CellsOf(q, p)
    BY <1>11 DEF Live, Owners
  <2>4. Live(q) \subseteq CellsOf(x, p) \cup ({a, b} \ {NoKey})
    BY <1>5, <2>1, <2>2, <2>3
  <2>5. p.rk \in CellsOf(x, p) /\ (b # NoKey => p.cks \in CellsOf(x, p))
    BY <1>2, <1>4, <1>5, <1>8
  <2> QED
    BY <1>12, <1>13, <2>4, <2>5
<1>21. o.dhr = p.dhr
  BY <1>15 DEF PlainFields
<1>22. Good(q) /\ ValueOf(q, q.s) = ValueOf(x, p)
  BY <1>11, <1>17, <1>18, <1>19 DEF Good, OwnerOK
<1>23. RolledBack(q, x, p)
  BY <1>11, <1>14, <1>20, <1>21, <1>22 DEF RolledBack
<1> QED
  BY <1>1, <1>23

(* Ranks are names, from 1 on.                                             *)
Ranks(f, refs) ==
  /\ DOMAIN f = refs /\ Distinct(f, refs)
  /\ IsFiniteSet(Range(f)) /\ Range(f) \subseteq Int
  /\ Range(f) \subseteq 1 .. Cardinality(Range(f))
(* The ranks of a finite set of numbers are distinct, and are the numbers  *)
(* from 1 to its size.                                                     *)
LEMMA RankFacts ==
  ASSUME NEW refs, IsFiniteSet(refs), refs \subseteq Int
  PROVE  Ranks(Rank(refs), refs)
<1>1. PICK f : f = Rank(refs)
  OBVIOUS
<1>2. DOMAIN f = refs /\ \A r \in refs : f[r] = Cardinality({x \in refs : x <= r})
  BY <1>1 DEF Rank
<1>3. \A r \in refs : f[r] \in 1 .. Cardinality(refs)
  <2>1. SUFFICES ASSUME NEW r \in refs PROVE f[r] \in 1 .. Cardinality(refs)
    OBVIOUS
  <2>2. PICK low : low = {x \in refs : x <= r}
    OBVIOUS
  <2>3. low \subseteq refs /\ r \in low
    BY <2>2
  <2>4. IsFiniteSet(low) /\ Cardinality(low) <= Cardinality(refs)
    BY <2>3, FS_Subset
  <2>5. Cardinality(low) \in Nat /\ Cardinality(refs) \in Nat
    BY <2>4, FS_CardinalityType
  <2>6. Cardinality(low) # 0
    BY <2>3, <2>4, FS_EmptySet
  <2> QED
    BY <1>2, <2>2, <2>4, <2>5, <2>6
<1>4. Distinct(f, refs)
  <2>1. ASSUME NEW r \in refs, NEW s \in refs, r < s PROVE f[r] # f[s]
    <3>1. PICK low, high : low = {x \in refs : x <= r} /\ high = {x \in refs : x <= s}
      OBVIOUS
    <3>2. low \subseteq high /\ s \in high /\ s \notin low
      <4>1. r \in Int /\ s \in Int /\ r <= s /\ s <= s /\ ~(s <= r)
        BY <2>1
      <4>2. ASSUME NEW x \in refs, x <= r PROVE x <= s
        BY <4>1, <4>2
      <4> QED
        BY <3>1, <4>1, <4>2
    <3>3. IsFiniteSet(high)
      <4>1. high \subseteq refs
        BY <3>1
      <4> QED
        BY <4>1, FS_Subset
    <3>4. Cardinality(high) = Cardinality(low) => high = low
      BY <3>2, <3>3, FS_Subset
    <3> QED
      BY <1>2, <3>1, <3>2, <3>4
  <2> QED
    BY <2>1 DEF Distinct
<1>5. PICK n \in Nat : n = Cardinality(refs)
  BY FS_CardinalityType
<1>6. PICK s : s = Range(f)
  OBVIOUS
<1>7. s = {f[r] : r \in refs}
  BY <1>2, <1>6 DEF Range
<1>8. s \subseteq 1 .. n
  BY <1>3, <1>5, <1>7
<1>9. IsFiniteSet(s) /\ Cardinality(s) = n
  <2>1. f \in Bijection(refs, s)
    <3>1. f \in [refs -> s]
      <4>1. f = [r \in refs |-> f[r]]
        BY <1>1 DEF Rank
      <4> QED
        BY <1>7, <4>1
    <3>2. \A t \in s : \E r \in refs : f[r] = t
      BY <1>7
    <3> QED
      BY <1>4, <3>1, <3>2 DEF Distinct, Bijection, Injection, Surjection, IsInjective
  <2> QED
    BY <1>5, <2>1, FS_Bijection DEF ExistsBijection
<1> QED
  BY <1>1, <1>2, <1>4, <1>6, <1>8, <1>9 DEF Ranks

(* The one who has a name is found by it.                                  *)
LEMMA NameFinds ==
  ASSUME NEW f, Distinct(f, DOMAIN f), NEW c \in DOMAIN f
  PROVE  (CHOOSE d \in DOMAIN f : f[d] = f[c]) = c
BY DEF Distinct

-----------------------------------------------------------------------------
(* What the heap is when it has been collected: nothing is lost, and       *)
(* nothing is left that is not referred to.                                *)
Collects(q, m) ==
  /\ Good(q) /\ ValueOf(q, q.s) = ValueOf(m, m.s) /\ q.s.dhr = m.s.dhr
  /\ \A p \in q.prev : RefsIn(q, p)
  /\ Compact(q) /\ DOMAIN q.keys \subseteq Live(q)
  /\ \A c \in DOMAIN q.keys : \E d \in Live(m) : q.keys[c] = m.keys[d]
(* Collecting a heap keeps the values of its owners and leaves only live   *)
(* cells, numbered from 1.                                                 *)
LEMMA CollectedGoes ==
  ASSUME NEW m, Good(m), \A o \in m.prev : RefsIn(m, o)
  PROVE  Collects(Collected(m), m)
<1>1. PICK cell, ring, st, q :
        /\ cell = Rank(Live(m)) /\ ring = Rank({o.recvChains : o \in Owners(m)})
        /\ st = Rank({o.mkSkipped : o \in Owners(m)}) /\ q = Collected(m)
  OBVIOUS
<1>2. /\ HeapOK(m) /\ RefsIn(m, m.s) /\ Apart(m, m.s) /\ NoKey \notin DOMAIN m.keys
      /\ RefsOK(m.keys) /\ RefsOK(m.rings) /\ RefsOK(m.stores)
      /\ \A c \in DOMAIN m.keys : KeyShape(m.keys[c])
  BY GoodFacts DEF HeapOK
<1>3. \A o \in Owners(m) : RefsIn(m, o)
  BY <1>2 DEF Owners
<1>4. ASSUME NEW o \in Owners(m)
      PROVE  /\ RefsIn(m, o) /\ CellsOf(m, o) \subseteq DOMAIN m.keys /\ CellsOf(m, o) \subseteq Live(m)
             /\ o.recvChains \in DOMAIN m.rings /\ o.mkSkipped \in DOMAIN m.stores
             /\ o = [f \in SessionFields |-> o[f]]
  BY <1>3, CellsAreThere DEF Live, RefsIn
<1>5. Live(m) \subseteq DOMAIN m.keys
  BY <1>4 DEF Live
<1>6. Ranks(cell, Live(m))
  <2>1. IsFiniteSet(Live(m)) /\ Live(m) \subseteq Int
    BY <1>2, <1>5, FS_Subset DEF RefsOK
  <2> QED
    BY <1>1, <2>1, RankFacts
<1>7. Ranks(ring, {o.recvChains : o \in Owners(m)})
  <2>1. PICK refs : refs = {o.recvChains : o \in Owners(m)}
    OBVIOUS
  <2>2. refs \subseteq DOMAIN m.rings
    BY <1>4, <2>1
  <2>3. IsFiniteSet(refs) /\ refs \subseteq Int
    BY <1>2, <2>2, FS_Subset DEF RefsOK
  <2> QED
    BY <1>1, <2>1, <2>3, RankFacts
<1>8. Ranks(st, {o.mkSkipped : o \in Owners(m)})
  <2>1. PICK refs : refs = {o.mkSkipped : o \in Owners(m)}
    OBVIOUS
  <2>2. refs \subseteq DOMAIN m.stores
    BY <1>4, <2>1
  <2>3. IsFiniteSet(refs) /\ refs \subseteq Int
    BY <1>2, <2>2, FS_Subset DEF RefsOK
  <2> QED
    BY <1>1, <2>1, <2>3, RankFacts
<1>9. /\ q.s = Renamed(m.s, cell, ring, st)
      /\ q.prev = {Renamed(o, cell, ring, st) : o \in m.prev}
      /\ q.keys = [c \in Range(cell) |-> m.keys[CHOOSE d \in DOMAIN cell : cell[d] = c]]
      /\ q.rings = [r \in Range(ring) |->
                      MapRing(m.rings[CHOOSE y \in DOMAIN ring : ring[y] = r], cell)]
      /\ q.stores = [r \in Range(st) |->
                       MapStore(m.stores[CHOOSE y \in DOMAIN st : st[y] = r], cell)]
      /\ q = [s |-> q.s, prev |-> q.prev, keys |-> q.keys, rings |-> q.rings, stores |-> q.stores]
  BY <1>1 DEF Collected
<1>10. ASSUME NEW c \in Live(m)
       PROVE  cell[c] \in DOMAIN q.keys /\ q.keys[cell[c]] = m.keys[c]
  <2>1. cell[c] \in Range(cell)
    BY <1>6 DEF Ranks, Range
  <2>2. (CHOOSE d \in DOMAIN cell : cell[d] = cell[c]) = c
    BY <1>6, NameFinds DEF Ranks
  <2> QED
    BY <1>9, <2>1, <2>2
<1>11. ASSUME NEW o \in Owners(m)
       PROVE  /\ ring[o.recvChains] \in DOMAIN q.rings
              /\ q.rings[ring[o.recvChains]] = MapRing(m.rings[o.recvChains], cell)
  <2>1. o.recvChains \in DOMAIN ring
    BY <1>7 DEF Ranks
  <2>2. ring[o.recvChains] \in Range(ring)
    BY <2>1 DEF Range
  <2>3. (CHOOSE y \in DOMAIN ring : ring[y] = ring[o.recvChains]) = o.recvChains
    BY <1>7, <2>1, NameFinds DEF Ranks
  <2>4. ring[o.recvChains] \in DOMAIN q.rings
    BY <1>9, <2>2
  <2>5. q.rings[ring[o.recvChains]] =
          MapRing(m.rings[CHOOSE y \in DOMAIN ring : ring[y] = ring[o.recvChains]], cell)
    BY <1>9, <2>2
  <2> QED
    BY <2>3, <2>4, <2>5
<1>12. ASSUME NEW o \in Owners(m)
       PROVE  /\ st[o.mkSkipped] \in DOMAIN q.stores
              /\ q.stores[st[o.mkSkipped]] = MapStore(m.stores[o.mkSkipped], cell)
  <2>1. o.mkSkipped \in DOMAIN st
    BY <1>8 DEF Ranks
  <2>2. st[o.mkSkipped] \in Range(st)
    BY <2>1 DEF Range
  <2>3. (CHOOSE y \in DOMAIN st : st[y] = st[o.mkSkipped]) = o.mkSkipped
    BY <1>8, <2>1, NameFinds DEF Ranks
  <2>4. st[o.mkSkipped] \in DOMAIN q.stores
    BY <1>9, <2>2
  <2>5. q.stores[st[o.mkSkipped]] =
          MapStore(m.stores[CHOOSE y \in DOMAIN st : st[y] = st[o.mkSkipped]], cell)
    BY <1>9, <2>2
  <2> QED
    BY <2>3, <2>4, <2>5
<1>13. ASSUME NEW c \in DOMAIN q.keys
       PROVE  \E d \in Live(m) : c = cell[d] /\ q.keys[c] = m.keys[d]
  <2>1. c \in Range(cell)
    BY <1>9
  <2>2. PICK d \in Live(m) : c = cell[d]
    BY <1>6, <2>1 DEF Ranks, Range
  <2> QED
    BY <1>10, <2>2
<1>14. HeapOK(q)
  <2>1. RefsOK(q.keys) /\ RefsOK(q.rings) /\ RefsOK(q.stores)
    BY <1>6, <1>7, <1>8, <1>9 DEF Ranks, RefsOK
  <2>2. \A c \in DOMAIN q.keys : KeyShape(q.keys[c])
    BY <1>2, <1>5, <1>13
  <2> QED
    BY <1>9, <2>1, <2>2 DEF HeapOK
<1>15. ASSUME NEW o \in Owners(m), NEW p, p = Renamed(o, cell, ring, st)
       PROVE  Copied(m, o, q, p, cell) /\ p.dhr = o.dhr
  <2>1. /\ p = [o EXCEPT !.rk = cell[o.rk], !.cks = At(cell, o.cks),
                         !.recvChains = ring[o.recvChains], !.mkSkipped = st[o.mkSkipped]]
    BY <1>15 DEF Renamed
  <2>2. p.recvChains = ring[o.recvChains] /\ p.mkSkipped = st[o.mkSkipped] /\ p.dhr = o.dhr
    BY <1>4, <2>1 DEF SessionFields
  <2>3. /\ Names(cell, CellsOf(m, o), DOMAIN q.keys)
        /\ \A c \in CellsOf(m, o) : q.keys[cell[c]] = m.keys[c]
    BY <1>4, <1>10 DEF Names
  <2>4. Copies(m, o, q, p, cell)
    BY <1>11, <1>12, <2>1, <2>2, <2>3 DEF Copies
  <2>5. NoKey \notin DOMAIN q.keys
    BY <1>14, CellsNotNil
  <2> QED
    BY <1>2, <1>4, <2>2, <2>4, <2>5, OwnerCopy
<1>16. \A o \in m.prev : o \in Owners(m)
  BY DEF Owners
<1>17. Good(q) /\ ValueOf(q, q.s) = ValueOf(m, m.s) /\ q.s.dhr = m.s.dhr
  <2>1. m.s \in Owners(m)
    BY DEF Owners
  <2>2. Copied(m, m.s, q, q.s, cell) /\ q.s.dhr = m.s.dhr
    BY <1>9, <1>15, <2>1
  <2>3. Distinct(cell, CellsOf(m, m.s))
    BY <1>4, <1>6, <2>1 DEF Ranks, Distinct
  <2> QED
    BY <1>2, <1>14, <2>2, <2>3 DEF Copied, Good, OwnerOK
<1>18. \A p \in q.prev : RefsIn(q, p)
  <2>1. SUFFICES ASSUME NEW p \in q.prev PROVE RefsIn(q, p)
    OBVIOUS
  <2>2. PICK o \in m.prev : p = Renamed(o, cell, ring, st)
    BY <1>9
  <2>3. Copied(m, o, q, p, cell)
    BY <1>15, <1>16, <2>2
  <2> QED
    BY <2>3 DEF Copied
<1>19. Compact(q)
  BY <1>6, <1>9 DEF Ranks, Compact
<1>20. DOMAIN q.keys \subseteq Live(q)
  <2>1. SUFFICES ASSUME NEW c \in DOMAIN q.keys PROVE c \in Live(q)
    OBVIOUS
  <2>2. PICK d \in Live(m) : c = cell[d]
    BY <1>13
  <2>3. PICK o \in Owners(m) : d \in CellsOf(m, o)
    BY DEF Live
  <2>4. PICK p : p = Renamed(o, cell, ring, st)
    OBVIOUS
  <2>5. Copied(m, o, q, p, cell)
    BY <1>15, <2>4
  <2>6. c \in CellsOf(q, p)
    BY <2>2, <2>3, <2>5 DEF Copied, Apply
  <2>7. p \in Owners(q)
    BY <1>9, <2>4 DEF Owners
  <2> QED
    BY <2>6, <2>7 DEF Live
<1>21. \A c \in DOMAIN q.keys : \E d \in Live(m) : q.keys[c] = m.keys[d]
  BY <1>13
<1>22. Collects(q, m)
  BY <1>17, <1>18, <1>19, <1>20, <1>21 DEF Collects
<1> QED
  BY <1>1, <1>22

(* An empty ring and an empty store refer to nothing.                      *)
LEMMA EmptyFacts ==
  ASSUME NEW cells, NEW f
  PROVE  /\ RingIn(NewReceiverChains, cells) /\ RingApart(NewReceiverChains)
         /\ RingCells(NewReceiverChains) = {} /\ MapRing(NewReceiverChains, f) = NewReceiverChains
         /\ StoreIn(NewStorage, cells) /\ StoreApart(NewStorage)
         /\ StoreCells(NewStorage) = {} /\ MapStore(NewStorage, f) = NewStorage
<1>1. PICK r, st : r = NewReceiverChains /\ st = NewStorage
  OBVIOUS
<1>2. /\ r = [slots |-> r.slots, head |-> r.head, count |-> r.count] /\ r.head = 0 /\ r.count = 0
      /\ r.slots = [j \in Slots |-> EmptySlot]
  BY <1>1 DEF NewReceiverChains
<1>3. \A j \in Slots : r.slots[j] = [pk |-> ZeroKey, ck |-> NoKey, nr |-> 0]
  BY <1>2 DEF EmptySlot
<1>4. \A j \in Slots : r.slots[j].pk = ZeroKey /\ r.slots[j].ck = NoKey /\ r.slots[j].nr = 0
  BY <1>3
<1>5. RingOK(r)
  BY <1>2, CapacityAssumption DEF RingOK, Slots
<1>6. Held(r) = {}
  BY <1>2 DEF Held
<1>7. r.slots = [j \in Slots |-> r.slots[j]]
  BY <1>2
<1>8. RingIn(r, cells)
  BY <1>2, <1>3, <1>4, <1>5, <1>6, <1>7 DEF RingIn
<1>9. RingApart(r) /\ RingCells(r) = {}
  BY <1>4 DEF RingApart, RingCells
<1>10. MapRing(r, f) = r
  <2>1. PICK x : x = MapRing(r, f)
    OBVIOUS
  <2>2. RingSeen(x, r, f)
    BY <1>8, <2>1, MapRingFacts
  <2>3. ASSUME NEW j \in Slots PROVE x.slots[j] = EmptySlot
    <3>1. x.slots[j] = [pk |-> r.slots[j].pk, ck |-> At(f, r.slots[j].ck), nr |-> r.slots[j].nr]
      BY <2>2 DEF RingSeen
    <3> QED
      BY <1>4, <3>1 DEF At, EmptySlot
  <2>4. x.slots = r.slots
    BY <1>2, <2>2, <2>3 DEF RingSeen
  <2> QED
    BY <1>2, <2>1, <2>2, <2>4 DEF RingSeen
<1>11. st = [entries |-> st.entries, order |-> st.order] /\ st.entries = << >> /\ st.order = << >>
  BY <1>1 DEF NewStorage
<1>12. DOMAIN st.entries = {}
  BY <1>11
<1>13. /\ StoreIn(st, cells) /\ StoreApart(st) /\ StoreCells(st) = {}
  <2>1. st.entries = [id \in DOMAIN st.entries |-> st.entries[id]]
    BY <1>11, <1>12
  <2> QED
    BY <1>11, <1>12, <2>1 DEF StoreIn, StoreApart, StoreCells
<1>14. MapStore(st, f) = st
  <2>1. MapStore(st, f) = [entries |-> [id \in DOMAIN st.entries |-> f[st.entries[id]]],
                           order |-> st.order]
    BY <1>11, MapStoreIs
  <2>2. [id \in DOMAIN st.entries |-> f[st.entries[id]]] = st.entries
    <3>1. st.entries = [id \in DOMAIN st.entries |-> st.entries[id]]
      BY <1>13 DEF StoreIn
    <3>2. [id \in DOMAIN st.entries |-> f[st.entries[id]]]
            = [id \in DOMAIN st.entries |-> st.entries[id]]
      BY <1>12
    <3> QED
      BY <3>1, <3>2
  <2> QED
    BY <1>11, <2>1, <2>2
<1> QED
  BY <1>1, <1>8, <1>9, <1>10, <1>13, <1>14

-----------------------------------------------------------------------------
(* Close leaves zeroes in every slice that is referred to.                 *)
AllZero(m) == \A c \in DOMAIN m.keys : m.keys[c].root = ZeroRootKey
Closes(q, m) ==
  /\ Good(q) /\ ValueOf(q, q.s) = Close(ValueOf(m, m.s)) /\ q.prev = {}
  /\ Compact(q) /\ AllZero(q) /\ q.s.dhr = ZeroKey
(* When every cell is live, Close leaves only zeroes, and its value is the *)
(* closed value.                                                           *)
LEMMA CloseGoes ==
  ASSUME NEW m, Good(m), Compact(m), DOMAIN m.keys \subseteq Live(m)
  PROVE  Closes(CloseMemory(m), m)
<1>1. PICK x, o, q : /\ x = ZeroBytes(m, Live(m)) /\ q = CloseMemory(m)
                     /\ o = [Close([m.s EXCEPT !.cks = NoChainKey]) EXCEPT
                               !.rk = m.s.rk, !.cks = m.s.cks, !.recvChains = m.s.recvChains,
                               !.mkSkipped = m.s.mkSkipped]
  OBVIOUS
<1>2. /\ HeapOK(m) /\ RefsIn(m, m.s) /\ m.s = [f \in SessionFields |-> m.s[f]]
      /\ m.s.rk \in DOMAIN m.keys /\ m.s.cks \in DOMAIN m.keys \cup {NoKey} /\ m.s.rk # m.s.cks
      /\ m.s.recvChains \in DOMAIN m.rings /\ m.s.mkSkipped \in DOMAIN m.stores
      /\ RefsOK(m.rings) /\ RefsOK(m.stores) /\ \A c \in DOMAIN m.keys : KeyShape(m.keys[c])
  BY GoodFacts DEF HeapOK
<1>3. /\ HeapOK(x) /\ DOMAIN x.keys = DOMAIN m.keys
      /\ \A c \in DOMAIN m.keys : x.keys[c] = Erased
  <2>1. Blanked(x, m, Live(m))
    BY <1>1, <1>2, ZeroFacts
  <2> QED
    BY <2>1 DEF Blanked
<1>4. /\ o = [f \in SessionFields |-> o[f]] /\ o.rk = m.s.rk /\ o.cks = m.s.cks
      /\ o.recvChains = m.s.recvChains /\ o.mkSkipped = m.s.mkSkipped
      /\ o.ns = m.s.ns /\ o.pn = m.s.pn /\ o.dhRatchetPerformed = m.s.dhRatchetPerformed
      /\ o.dhs = ZeroPair /\ o.dhr = ZeroKey /\ o.dhRSet = FALSE
  BY Zenon, <1>1, <1>2 DEF Close, SessionFields
<1>5. /\ q.s = o /\ q.prev = {} /\ q.keys = x.keys
      /\ q.rings = [r \in DOMAIN m.rings |-> NewReceiverChains]
      /\ q.stores = [r \in DOMAIN m.stores |-> NewStorage]
      /\ q = [s |-> q.s, prev |-> q.prev, keys |-> q.keys, rings |-> q.rings, stores |-> q.stores]
  <2>1. q = [x EXCEPT !.rings = [r \in DOMAIN m.rings |-> NewReceiverChains],
                      !.stores = [r \in DOMAIN m.stores |-> NewStorage], !.s = o, !.prev = {}]
    <3>1. [Close([m.s EXCEPT !.cks = NoChainKey]) EXCEPT
             !.rk = m.s.rk, !.cks = m.s.cks, !.recvChains = m.s.recvChains,
             !.mkSkipped = m.s.mkSkipped] = o
      BY <1>1
    <3>2. x.s = m.s
      BY <1>1, <1>2, ZeroFacts DEF Blanked
    <3> QED
      BY <1>1, <3>1, <3>2 DEF CloseMemory
  <2>2. x = [s |-> x.s, prev |-> x.prev, keys |-> x.keys, rings |-> x.rings, stores |-> x.stores]
    BY <1>3 DEF HeapOK
  <2> QED
    BY <2>1, <2>2
<1>6. HeapOK(q)
  BY <1>2, <1>3, <1>5 DEF HeapOK, RefsOK
<1>7. q.rings[o.recvChains] = NewReceiverChains /\ q.stores[o.mkSkipped] = NewStorage
  BY <1>2, <1>4, <1>5
<1>8. Good(q)
  <2>1. RefsIn(q, o)
    BY <1>2, <1>3, <1>4, <1>5, <1>7, EmptyFacts DEF RefsIn
  <2>2. Apart(q, o)
    BY <1>2, <1>4, <1>7, EmptyFacts DEF Apart
  <2> QED
    BY <1>5, <1>6, <2>1, <2>2 DEF Good, OwnerOK
<1>9. ValueOf(q, o) = Close(ValueOf(m, m.s))
  <2>1. PICK v, w, z : v = ValueOf(m, m.s) /\ w = ValueOf(q, o) /\ z = Close(v)
    OBVIOUS
  <2>2. ValueSeen(v, m, m.s) /\ ValueSeen(w, q, o)
    BY <1>2, <1>4, <2>1, ValueFields
  <2>3. SessionShape(v) /\ SessionShape(w)
    BY <2>2 DEF ValueSeen, SessionShape
  <2>4. /\ SessionShape(z) /\ z.rk = ZeroRootKey /\ z.cks = Zeroed(v.cks)
        /\ z.ns = v.ns /\ z.pn = v.pn /\ z.dhRatchetPerformed = v.dhRatchetPerformed
        /\ z.dhs = ZeroPair /\ z.dhr = ZeroKey /\ z.dhRSet = FALSE
        /\ z.recvChains = NewReceiverChains /\ z.mkSkipped = NewStorage
    <3>1. PICK cks, ring, store : /\ cks = Zeroed(v.cks)
                                  /\ ring = NewReceiverChains /\ store = NewStorage
      OBVIOUS
    <3>2. z = [v EXCEPT !.rk = ZeroRootKey, !.cks = cks, !.dhs = ZeroPair, !.dhr = ZeroKey,
                        !.dhRSet = FALSE, !.recvChains = ring, !.mkSkipped = store]
      BY <2>1, <3>1 DEF Close
    <3>3. v = [g \in SessionFields |-> v[g]]
      BY <2>3 DEF SessionShape
    <3>4. /\ SessionShape(z) /\ z.rk = ZeroRootKey /\ z.cks = cks
          /\ z.ns = v.ns /\ z.pn = v.pn /\ z.dhRatchetPerformed = v.dhRatchetPerformed
      BY <3>2, <3>3 DEF SessionShape, SessionFields
    <3>5. /\ z.dhs = ZeroPair /\ z.dhr = ZeroKey /\ z.dhRSet = FALSE
          /\ z.recvChains = ring /\ z.mkSkipped = store
      BY <3>2, <3>3 DEF SessionFields
    <3> QED
      BY <3>1, <3>4, <3>5
  <2>5. w.rk = z.rk
    <3>1. w.rk = q.keys[o.rk].root
      BY <2>2 DEF ValueSeen
    <3>2. q.keys[o.rk] = Erased
      BY <1>2, <1>3, <1>4, <1>5
    <3> QED
      BY <2>4, <3>1, <3>2 DEF Erased, FirstChainKey
  <2>6. w.cks = z.cks
    <3>1. v.cks = (IF m.s.cks = NoKey THEN NoChainKey ELSE m.keys[m.s.cks])
      BY <2>2 DEF ValueSeen
    <3>2. w.cks = (IF o.cks = NoKey THEN NoChainKey ELSE q.keys[o.cks])
      BY <2>2 DEF ValueSeen
    <3>3. CASE m.s.cks = NoKey
      BY <1>4, <2>4, <3>1, <3>2, <3>3 DEF Zeroed
    <3>4. CASE m.s.cks # NoKey
      <4>1. KeyShape(m.keys[m.s.cks])
        BY <1>2, <3>4
      <4>2. DOMAIN m.keys[m.s.cks] = {"root", "step"} /\ DOMAIN NoChainKey = {"nil"}
        BY <4>1 DEF KeyShape, NoChainKey
      <4>3. v.cks # NoChainKey
        BY <3>1, <3>4, <4>2
      <4>4. w.cks = Erased
        BY <1>2, <1>3, <1>4, <1>5, <3>2, <3>4
      <4> QED
        BY <2>4, <4>3, <4>4 DEF Zeroed, Erased
    <3> QED
      BY <3>3, <3>4
  <2>7. w.recvChains = z.recvChains /\ w.mkSkipped = z.mkSkipped
    BY <1>7, <2>2, <2>4, EmptyFacts DEF ValueSeen
  <2>8. /\ w.ns = z.ns /\ w.pn = z.pn /\ w.dhRatchetPerformed = z.dhRatchetPerformed
        /\ w.dhs = z.dhs /\ w.dhr = z.dhr /\ w.dhRSet = z.dhRSet
    BY <1>4, <2>2, <2>4 DEF ValueSeen, PlainFields
  <2> QED
    BY <2>1, <2>3, <2>4, <2>5, <2>6, <2>7, <2>8, SameSession
<1>10. Compact(q) /\ AllZero(q)
  BY <1>3, <1>5 DEF Compact, AllZero, Erased, FirstChainKey
<1>11. Closes(q, m)
  BY <1>4, <1>5, <1>8, <1>9, <1>10 DEF Closes
<1> QED
  BY <1>1, <1>11

(* Sending leaves every object as it was.                                  *)
LEMMA SendKeepsObjects ==
  ASSUME NEW m, Good(m), NEW fresh
  PROVE  /\ RatchetSend(m, fresh).rings = m.rings /\ RatchetSend(m, fresh).stores = m.stores
         /\ m.s.cks # NoKey => AdvanceChain(m).rings = m.rings /\ AdvanceChain(m).stores = m.stores
<1>1. PICK root, y, z, x : /\ root = DeriveRoot(m.keys[m.s.rk].root, SharedSecret(fresh, m.s.dhr))
                           /\ y = Allocate(m, RootSlice(root)) /\ z = Allocate(y, FirstChainKey(root))
                           /\ x = ZeroBytes(z, {m.s.rk, m.s.cks})
  OBVIOUS
<1>2. HeapOK(m) /\ \A c \in DOMAIN m.keys : KeyShape(m.keys[c])
  BY DEF Good, HeapOK
<1>3. HeapOK(y) /\ y.rings = m.rings /\ y.stores = m.stores
  BY <1>1, <1>2, RootShape, AllocateFacts DEF Allocated
<1>4. HeapOK(z) /\ z.rings = m.rings /\ z.stores = m.stores
  <2>1. Allocated(z, y, NewCell(y), FirstChainKey(root))
    BY Zenon, <1>1, <1>3, RootShape, AllocateFacts
  <2> QED
    BY <1>3, <2>1 DEF Allocated
<1>5. HeapOK(x) /\ x.rings = m.rings /\ x.stores = m.stores
  <2>1. Blanked(x, z, {m.s.rk, m.s.cks})
    BY Zenon, <1>1, <1>4, ZeroFacts
  <2> QED
    BY <1>4, <2>1 DEF Blanked
<1>6. RatchetSend(m, fresh).rings = x.rings /\ RatchetSend(m, fresh).stores = x.stores
  <2>1. PICK o : o = [PerformDHRatchetSend(m.s, fresh) EXCEPT !.rk = NewCell(m), !.cks = NewCell(y)]
    OBVIOUS
  <2>2. RatchetSend(m, fresh) = [x EXCEPT !.s = o]
    BY <1>1, <2>1 DEF RatchetSend
  <2>3. x = [s |-> x.s, prev |-> x.prev, keys |-> x.keys, rings |-> x.rings, stores |-> x.stores]
    BY <1>5 DEF HeapOK
  <2> QED
    BY <2>2, <2>3
<1>7. ASSUME m.s.cks # NoKey
      PROVE  AdvanceChain(m).rings = m.rings /\ AdvanceChain(m).stores = m.stores
  <2>1. PICK key, a, b : /\ key = DeriveNextChainKey(m.keys[m.s.cks]) /\ a = Allocate(m, key)
                         /\ b = ZeroBytes(a, {m.s.cks})
    OBVIOUS
  <2>2. m.s.cks \in DOMAIN m.keys
    BY <1>7, GoodFacts
  <2>3. KeyShape(key)
    <3>1. KeyShape(m.keys[m.s.cks])
      BY <1>2, <2>2
    <3> QED
      BY <2>1, <3>1, ChainShape
  <2>4. Allocated(a, m, NewCell(m), key)
    BY <1>2, <2>1, <2>3, AllocateFacts
  <2>5. HeapOK(a) /\ a.rings = m.rings /\ a.stores = m.stores
    BY <2>4 DEF Allocated
  <2>6. Blanked(b, a, {m.s.cks})
    BY <2>1, <2>5, ZeroFacts
  <2>7. HeapOK(b) /\ b.rings = m.rings /\ b.stores = m.stores
    BY <2>5, <2>6 DEF Blanked
  <2>8. AdvanceChain(m) = [b EXCEPT !.s.cks = NewCell(m), !.s.ns = @ + 1]
    BY <2>1 DEF AdvanceChain
  <2>9. b = [s |-> b.s, prev |-> b.prev, keys |-> b.keys, rings |-> b.rings, stores |-> b.stores]
    BY <2>7 DEF HeapOK
  <2> QED
    BY <2>7, <2>8, <2>9
<1> QED
  BY <1>5, <1>6, <1>7

(* A chain of zeroes moves on to one of zeroes.                            *)
LEMMA AdvanceZero ==
  ASSUME NEW m, Good(m), m.s.cks # NoKey, AllZero(m)
  PROVE  AllZero(AdvanceChain(m)) /\ AdvanceChain(m).s.dhr = m.s.dhr
<1>1. PICK key, a, b : /\ key = DeriveNextChainKey(m.keys[m.s.cks]) /\ a = Allocate(m, key)
                       /\ b = ZeroBytes(a, {m.s.cks})
  OBVIOUS
<1>2. m.s.cks \in DOMAIN m.keys /\ HeapOK(m) /\ \A c \in DOMAIN m.keys : KeyShape(m.keys[c])
  BY GoodFacts DEF HeapOK
<1>3. KeyShape(key) /\ key.root = ZeroRootKey
  <2>1. KeyShape(m.keys[m.s.cks]) /\ m.keys[m.s.cks].root = ZeroRootKey
    BY <1>2 DEF AllZero
  <2>2. KeyShape(key)
    BY <1>1, <2>1, ChainShape
  <2> QED
    BY <1>1, <2>1, <2>2 DEF DeriveNextChainKey
<1>4. Allocated(a, m, NewCell(m), key)
  BY <1>1, <1>2, <1>3, AllocateFacts
<1>5. HeapOK(a) /\ AllZero(a) /\ a.s = m.s
  BY <1>3, <1>4 DEF Allocated, AllZero
<1>6. Blanked(b, a, {m.s.cks})
  BY <1>1, <1>5, ZeroFacts
<1>7. HeapOK(b) /\ AllZero(b) /\ b.s = m.s
  <2>1. Erased.root = ZeroRootKey
    BY DEF Erased, FirstChainKey
  <2> QED
    BY <1>5, <1>6, <2>1 DEF Blanked, AllZero
<1>8. AdvanceChain(m) = [b EXCEPT !.s.cks = NewCell(m), !.s.ns = @ + 1]
  BY <1>1 DEF AdvanceChain
<1>9. b = [s |-> b.s, prev |-> b.prev, keys |-> b.keys, rings |-> b.rings, stores |-> b.stores]
  BY <1>7 DEF HeapOK
<1>10. PICK o : o = [b.s EXCEPT !.cks = NewCell(m), !.ns = @ + 1]
  OBVIOUS
<1>11. AdvanceChain(m) = [b EXCEPT !.s = o]
  BY <1>8, <1>10
<1>12. AdvanceChain(m).keys = b.keys /\ AdvanceChain(m).s = o
  BY <1>9, <1>11
<1>13. o.dhr = m.s.dhr
  <2>1. b.s = [f \in SessionFields |-> b.s[f]]
    BY <1>7, GoodFacts
  <2> QED
    BY <1>7, <1>10, <2>1 DEF SessionFields
<1> QED
  BY <1>7, <1>12, <1>13 DEF AllZero

-----------------------------------------------------------------------------
(* Encrypt goes the way it goes on values.                                 *)
Sends(q, m, v, fresh) ==
  /\ Good(q) /\ ValueOf(q, q.s) = AdvanceSend(ReadyToSend(v, fresh))
  /\ \A p \in q.prev : RefsIn(q, p)
(* The sending ratchet and the sending chain in memory compute what they   *)
(* compute on values.                                                      *)
LEMMA EncryptGoes ==
  ASSUME NEW m, Good(m), \A p \in m.prev : RefsIn(m, p), NEW v, v = ValueOf(m, m.s), CanSend(v),
         NEW fresh, NEW y, y = IF m.s.dhRatchetPerformed THEN RatchetSend(m, fresh) ELSE m
  PROVE  Sends(AdvanceChain(y), m, v, fresh)
<1>1. ValueSeen(v, m, m.s)
  BY GoodShape
<1>2. v.dhRatchetPerformed = m.s.dhRatchetPerformed
  BY <1>1 DEF ValueSeen, PlainFields
<1>3. /\ Goes(m, y, ReadyToSend(v, fresh)) /\ y.s.cks # NoKey
      /\ y.rings = m.rings /\ y.stores = m.stores
  <2>1. CASE m.s.dhRatchetPerformed
    <3>1. y = RatchetSend(m, fresh) /\ ReadyToSend(v, fresh) = PerformDHRatchetSend(v, fresh)
      BY <1>2, <2>1 DEF ReadyToSend
    <3> QED
      BY <3>1, RatchetSendGoes, SendKeepsObjects
  <2>2. CASE ~m.s.dhRatchetPerformed
    <3>1. y = m /\ ReadyToSend(v, fresh) = v
      BY <1>2, <2>2 DEF ReadyToSend
    <3>2. v.cks # NoChainKey
      BY <1>2, <2>2 DEF CanSend
    <3>3. m.s.cks # NoKey
      BY <1>1, <3>2 DEF ValueSeen
    <3>4. Goes(m, m, v)
      BY FrameRefl DEF Goes
    <3> QED
      BY <3>1, <3>3, <3>4
  <2> QED
    BY <2>1, <2>2
<1>4. PICK q : q = AdvanceChain(y)
  OBVIOUS
<1>5. Good(y) /\ ValueOf(y, y.s) = ReadyToSend(v, fresh)
  BY <1>3 DEF Goes
<1>6. Goes(y, q, AdvanceSend(ReadyToSend(v, fresh))) /\ q.rings = y.rings /\ q.stores = y.stores
  BY <1>3, <1>4, <1>5, AdvanceGoes, SendKeepsObjects
<1>7. Goes(m, q, AdvanceSend(ReadyToSend(v, fresh)))
  BY <1>3, <1>6, GoesTrans
<1>8. Frame(m, q)
  BY <1>7 DEF Goes
<1>9. \A p \in q.prev : RefsIn(q, p)
  <2>1. SUFFICES ASSUME NEW p \in q.prev PROVE RefsIn(q, p)
    OBVIOUS
  <2>2. p \in m.prev /\ DOMAIN m.keys \subseteq DOMAIN q.keys
    BY <1>8 DEF Frame
  <2>3. RefsIn(m, p) /\ p.recvChains \in DOMAIN m.rings /\ p.mkSkipped \in DOMAIN m.stores
    BY <2>2 DEF RefsIn
  <2> QED
    BY <1>3, <1>6, <2>2, <2>3, KeptRefs
<1> QED
  BY <1>4, <1>7, <1>9 DEF Goes, Sends

(* What a heap is between calls.                                           *)
HeapInv(m, done) ==
  /\ Good(m) /\ \A p \in m.prev : RefsIn(m, p)
  /\ Compact(m) /\ (~done => DOMAIN m.keys \subseteq Live(m))
  /\ done => AllZero(m) /\ m.s.dhr = ZeroKey

(* Collecting brings it about, whatever a call has left.                   *)
Settled(q, done, v) == HeapInv(q, done) /\ ValueOf(q, q.s) = v
(* A good heap, once collected, satisfies the invariant, if after Close    *)
(* all it held was zero.                                                   *)
LEMMA CollectSettles ==
  ASSUME NEW m, Good(m), \A p \in m.prev : RefsIn(m, p), NEW done,
         done => (\A c \in Live(m) : m.keys[c].root = ZeroRootKey) /\ m.s.dhr = ZeroKey,
         NEW v, v = ValueOf(m, m.s)
  PROVE  Settled(Collected(m), done, v)
<1>1. Collects(Collected(m), m)
  BY CollectedGoes
<1>2. PICK q : q = Collected(m)
  OBVIOUS
<1>3. done => AllZero(q) /\ q.s.dhr = ZeroKey
  BY <1>1, <1>2 DEF Collects, AllZero
<1> QED
  BY <1>1, <1>2, <1>3 DEF Collects, HeapInv, Settled

(* The calls.                                                              *)
LEMMA EncryptSettles ==
  ASSUME NEW m, NEW done, HeapInv(m, done), NEW v, v = ValueOf(m, m.s), CanSend(v),
         ~RatchetRefused(m.s), NEW fresh,
         NEW y, y = IF m.s.dhRatchetPerformed THEN RatchetSend(m, fresh) ELSE m
  PROVE  Settled(Collected(AdvanceChain(y)), done, AdvanceSend(ReadyToSend(v, fresh)))
<1>1. PICK q : q = AdvanceChain(y)
  OBVIOUS
<1>2. Sends(q, m, v, fresh)
  BY <1>1, EncryptGoes DEF HeapInv
<1>3. ASSUME done PROVE (\A c \in Live(q) : q.keys[c].root = ZeroRootKey) /\ q.s.dhr = ZeroKey
  <2>1. Good(m) /\ AllZero(m) /\ m.s.dhr = ZeroKey
    BY <1>3 DEF HeapInv
  <2>2. ~m.s.dhRatchetPerformed
    BY <2>1 DEF RatchetRefused
  <2>3. m.s.cks # NoKey
    <3>1. ValueSeen(v, m, m.s)
      BY <2>1, GoodShape
    <3>2. v.dhRatchetPerformed = m.s.dhRatchetPerformed
      BY <3>1 DEF ValueSeen, PlainFields
    <3>3. v.cks # NoChainKey
      BY <2>2, <3>2 DEF CanSend
    <3> QED
      BY <3>1, <3>3 DEF ValueSeen
  <2>4. AllZero(q) /\ q.s.dhr = ZeroKey
    BY <1>1, <2>1, <2>2, <2>3, AdvanceZero
  <2>5. Live(q) \subseteq DOMAIN q.keys
    <3>1. \A o \in Owners(q) : RefsIn(q, o)
      BY <1>2 DEF Sends, Good, OwnerOK, Owners
    <3> QED
      BY <3>1, CellsAreThere DEF Live
  <2> QED
    BY <2>4, <2>5 DEF AllZero
<1> QED
  BY <1>1, <1>2, <1>3, CollectSettles DEF Sends

(* A failed send ratchet changes the one flag it changes in the value.     *)
LEMMA EncryptFailsSettles ==
  ASSUME NEW m, NEW done, HeapInv(m, done), NEW v, v = ValueOf(m, m.s)
  PROVE  Settled(Collected([m EXCEPT !.s = DHRatchetSendFails(m.s)]), done, DHRatchetSendFails(v))
<1>1. PICK o, q : o = DHRatchetSendFails(m.s) /\ q = [m EXCEPT !.s = o]
  OBVIOUS
<1>2. Good(m) /\ HeapOK(m) /\ SessionShape(m.s) /\ SessionShape(v) /\ ValueSeen(v, m, m.s)
  BY GoodShape DEF HeapInv, Good
<1>3. /\ o = [f \in SessionFields |-> o[f]] /\ o.rk = m.s.rk /\ o.cks = m.s.cks
      /\ o.recvChains = m.s.recvChains /\ o.mkSkipped = m.s.mkSkipped
      /\ o.pn = m.s.ns /\ o.ns = m.s.ns /\ o.dhs = m.s.dhs /\ o.dhr = m.s.dhr
      /\ o.dhRSet = m.s.dhRSet /\ o.dhRatchetPerformed = m.s.dhRatchetPerformed
  BY <1>1, <1>2 DEF DHRatchetSendFails, SessionShape, SessionFields
<1>4. Goes(m, q, Dressed(v, o))
  BY <1>1, <1>2, <1>3, PlainGoes
<1>5. Dressed(v, o) = DHRatchetSendFails(v)
  <2>1. /\ v.ns = m.s.ns /\ v.dhs = m.s.dhs /\ v.dhr = m.s.dhr /\ v.dhRSet = m.s.dhRSet
        /\ v.dhRatchetPerformed = m.s.dhRatchetPerformed
    BY <1>2 DEF ValueSeen, PlainFields
  <2>2. PICK w, z : w = Dressed(v, o) /\ z = DHRatchetSendFails(v)
    OBVIOUS
  <2>3. /\ SessionShape(w) /\ w.rk = v.rk /\ w.cks = v.cks /\ w.recvChains = v.recvChains
        /\ w.mkSkipped = v.mkSkipped /\ w.ns = v.ns /\ w.pn = v.ns /\ w.dhs = v.dhs
        /\ w.dhr = v.dhr /\ w.dhRSet = v.dhRSet /\ w.dhRatchetPerformed = v.dhRatchetPerformed
    BY <1>2, <1>3, <2>1, <2>2 DEF Dressed, SessionShape, SessionFields
  <2>4. /\ SessionShape(z) /\ z.rk = v.rk /\ z.cks = v.cks /\ z.recvChains = v.recvChains
        /\ z.mkSkipped = v.mkSkipped /\ z.ns = v.ns /\ z.pn = v.ns /\ z.dhs = v.dhs
        /\ z.dhr = v.dhr /\ z.dhRSet = v.dhRSet /\ z.dhRatchetPerformed = v.dhRatchetPerformed
    BY <1>2, <2>2 DEF DHRatchetSendFails, SessionShape, SessionFields
  <2> QED
    BY <2>2, <2>3, <2>4, SameSession
<1>6. /\ q.keys = m.keys /\ q.rings = m.rings /\ q.stores = m.stores /\ q.prev = m.prev /\ q.s = o
  BY <1>1, <1>2 DEF HeapOK
<1>7. \A p \in q.prev : RefsIn(q, p)
  <2>1. \A p : RefsIn(m, p) => RefsIn(q, p)
    BY <1>6 DEF RefsIn
  <2> QED
    BY <1>6, <2>1 DEF HeapInv
<1>8. ASSUME done PROVE (\A c \in Live(q) : q.keys[c].root = ZeroRootKey) /\ q.s.dhr = ZeroKey
  <2>1. Live(q) \subseteq DOMAIN q.keys
    <3>1. \A p \in Owners(q) : RefsIn(q, p)
      BY <1>4, <1>7 DEF Goes, Good, OwnerOK, Owners
    <3> QED
      BY <3>1, CellsAreThere DEF Live
  <2> QED
    BY <1>3, <1>6, <1>8, <2>1 DEF HeapInv, AllZero
<1> QED
  BY <1>1, <1>4, <1>5, <1>7, <1>8, CollectSettles DEF Goes

(* What Decrypt works on: the snapshot apart from the session.             *)
Working(x, m, p, w) ==
  /\ Good(x) /\ ValueOf(x, x.s) = w
  /\ x.prev = {p} /\ Separate(x, p) /\ ValueOf(x, p) = ValueOf(m, m.s) /\ p.dhr = m.s.dhr
  /\ \A c \in CellsOf(x, p) : \E d \in DOMAIN m.keys : x.keys[c] = m.keys[d]
(* Decrypt in memory comes to the outcome and the session value that       *)
(* RatchetReceiveKey comes to, and leaves the snapshot as it was recorded. *)
LEMMA DecryptWorks ==
  ASSUME NEW m, NEW done, HeapInv(m, done), NEW hdr, NumbersOK(hdr), NEW v, v = ValueOf(m, m.s),
         NEW got, got = DecryptInPlace(RecordPrev(m), hdr)
  PROVE  /\ got.err = RatchetReceiveKey(v, hdr).err
         /\ \E p : Working(got.m, m, p, RatchetReceiveKey(v, hdr).s)
<1>1. PICK q : q = RecordPrev(m)
  OBVIOUS
<1>2. PICK p : Recorded(q, m, p)
  BY <1>1, RecordGoes DEF HeapInv
<1>3. Good(q) /\ v = ValueOf(q, q.s) /\ Separate(q, p)
  BY <1>2 DEF Recorded
<1>4. got.err = RatchetReceiveKey(v, hdr).err /\ Goes(q, got.m, RatchetReceiveKey(v, hdr).s)
  BY <1>1, <1>3, DecryptGoes
<1>5. PICK x : x = got.m
  OBVIOUS
<1>6. Good(x) /\ Frame(q, x) /\ ValueOf(x, x.s) = RatchetReceiveKey(v, hdr).s
  BY <1>4, <1>5 DEF Goes
<1>7. /\ OwnerOK(q, p) /\ p.recvChains # q.s.recvChains /\ p.mkSkipped # q.s.mkSkipped
      /\ CellsOf(q, p) \cap CellsOf(q, q.s) = {} /\ RefsOK(q.keys)
  BY <1>3 DEF Separate, Good, HeapOK
<1>8. /\ OwnerOK(x, p) /\ ValueOf(x, p) = ValueOf(q, p) /\ CellsOf(x, p) = CellsOf(q, p)
      /\ \A c \in CellsOf(q, p) : x.keys[c] = q.keys[c]
      /\ CellsOf(x, p) \cap CellsOf(x, x.s) = {}
  BY <1>6, <1>7, FrameOwner
<1>9. x.prev = {p} /\ x.s.recvChains = q.s.recvChains /\ x.s.mkSkipped = q.s.mkSkipped
  BY <1>2, <1>6 DEF Frame, Recorded
<1>10. Separate(x, p)
  BY <1>7, <1>8, <1>9 DEF Separate
<1>11. \A c \in CellsOf(x, p) : \E d \in DOMAIN m.keys : x.keys[c] = m.keys[d]
  <2>1. CellsOf(q, p) \subseteq DOMAIN q.keys
    BY <1>7, CellsAreThere DEF OwnerOK
  <2> QED
    BY <1>2, <1>8, <2>1 DEF Recorded
<1>12. Working(x, m, p, RatchetReceiveKey(v, hdr).s)
  BY <1>2, <1>6, <1>8, <1>9, <1>10, <1>11 DEF Working, Recorded
<1> QED
  BY <1>4, <1>5, <1>12

(* A Decrypt that succeeds satisfies the invariant again;                  *)
LEMMA DecryptSettles ==
  ASSUME NEW m, HeapInv(m, FALSE), NEW hdr, NumbersOK(hdr), NEW v, v = ValueOf(m, m.s),
         NEW got, got = DecryptInPlace(RecordPrev(m), hdr)
  PROVE  Settled(Collected(got.m), FALSE, RatchetReceiveKey(v, hdr).s)
<1>1. PICK p : Working(got.m, m, p, RatchetReceiveKey(v, hdr).s)
  BY DecryptWorks
<1>2. PICK x : x = got.m
  OBVIOUS
<1>3. Good(x) /\ ValueOf(x, x.s) = RatchetReceiveKey(v, hdr).s /\ x.prev = {p} /\ RefsIn(x, p)
  BY <1>1, <1>2 DEF Working, Separate, OwnerOK
<1> QED
  BY <1>2, <1>3, CollectSettles

(* one that fails has its changes taken back, zeroes included.             *)
LEMMA RollbackSettles ==
  ASSUME NEW m, NEW done, HeapInv(m, done), NEW hdr, NumbersOK(hdr), NEW v, v = ValueOf(m, m.s)
  PROVE  Settled(Collected(RollbackMemory(DecryptInPlace(RecordPrev(m), hdr).m)), done, v)
<1>1. PICK x : x = DecryptInPlace(RecordPrev(m), hdr).m
  OBVIOUS
<1>2. PICK p : Working(x, m, p, RatchetReceiveKey(v, hdr).s)
  BY <1>1, DecryptWorks
<1>3. PICK q : q = RollbackMemory(x)
  OBVIOUS
<1>4. RolledBack(q, x, p)
  BY <1>2, <1>3, RollbackGoes DEF Working
<1>5. Good(q) /\ ValueOf(q, q.s) = v /\ (\A y \in q.prev : RefsIn(q, y)) /\ q.s.dhr = m.s.dhr
  BY <1>2, <1>4 DEF RolledBack, Working
<1>6. \A c \in Live(q) : \E d \in DOMAIN m.keys : q.keys[c] = m.keys[d]
  BY <1>2, <1>4 DEF RolledBack, Working
<1>7. done => (\A c \in Live(q) : q.keys[c].root = ZeroRootKey) /\ q.s.dhr = ZeroKey
  BY <1>5, <1>6 DEF HeapInv, AllZero
<1> QED
  BY <1>1, <1>3, <1>5, <1>7, CollectSettles

(* Close zeroes everything.                                                *)
LEMMA CloseSettles ==
  ASSUME NEW m, HeapInv(m, FALSE), NEW v, v = ValueOf(m, m.s)
  PROVE  Settled(CloseMemory(m), TRUE, Close(v))
<1>1. Closes(CloseMemory(m), m)
  BY CloseGoes DEF HeapInv
<1>2. PICK q : q = CloseMemory(m)
  OBVIOUS
<1> QED
  BY <1>1, <1>2 DEF Closes, Settled, HeapInv

(* The heap a session starts from.                                         *)
FirstHeap(v) ==
  [s |-> [v EXCEPT !.rk = 1, !.cks = IF @ = NoChainKey THEN NoKey ELSE 2,
                   !.recvChains = 1, !.mkSkipped = 1],
   prev |-> {},
   keys |-> IF v.cks = NoChainKey THEN <<RootSlice(v.rk)>> ELSE <<RootSlice(v.rk), v.cks>>,
   rings |-> <<NewReceiverChains>>, stores |-> <<NewStorage>>]
(* It satisfies the invariant.                                             *)
LEMMA FirstHeapSettled ==
  ASSUME NEW v, SessionShape(v), v.recvChains = NewReceiverChains, v.mkSkipped = NewStorage,
         v.cks = NoChainKey \/ KeyShape(v.cks)
  PROVE  Settled(FirstHeap(v), FALSE, v)
<1>1. PICK m, o : m = FirstHeap(v) /\ o = m.s
  OBVIOUS
<1>2. PICK b : b = IF v.cks = NoChainKey THEN NoKey ELSE 2
  OBVIOUS
<1>3. /\ m.s = [v EXCEPT !.rk = 1, !.cks = b, !.recvChains = 1, !.mkSkipped = 1] /\ m.prev = {}
      /\ m.keys = (IF v.cks = NoChainKey THEN <<RootSlice(v.rk)>> ELSE <<RootSlice(v.rk), v.cks>>)
      /\ m.rings = <<NewReceiverChains>> /\ m.stores = <<NewStorage>>
      /\ m = [s |-> m.s, prev |-> m.prev, keys |-> m.keys, rings |-> m.rings, stores |-> m.stores]
  BY <1>1, <1>2 DEF FirstHeap
<1>4. /\ o = [f \in SessionFields |-> o[f]] /\ o.rk = 1 /\ o.cks = b /\ o.recvChains = 1
      /\ o.mkSkipped = 1 /\ \A f \in PlainFields : o[f] = v[f]
  BY <1>1, <1>3 DEF SessionShape, SessionFields, PlainFields
<1>5. /\ 1 \in DOMAIN m.keys /\ m.keys[1] = RootSlice(v.rk)
      /\ v.cks = NoChainKey => b = NoKey /\ DOMAIN m.keys = 1 .. 1
      /\ v.cks # NoChainKey => b = 2 /\ DOMAIN m.keys = 1 .. 2 /\ m.keys[2] = v.cks
  BY <1>2, <1>3
<1>6. /\ DOMAIN m.rings = 1 .. 1 /\ m.rings[1] = NewReceiverChains
      /\ DOMAIN m.stores = 1 .. 1 /\ m.stores[1] = NewStorage
  BY <1>3
<1>7. b # 1
  BY <1>2, NilAssumption
<1>8. PICK one, two : one = 1 .. 1 /\ two = 1 .. 2
  OBVIOUS
<1>9. /\ IsFiniteSet(one) /\ Cardinality(one) = 1
       /\ IsFiniteSet(two) /\ Cardinality(two) = 2
  <2>1. one = {1} /\ two = {1} \cup {2}
    BY <1>8
  <2>2. IsFiniteSet({1}) /\ Cardinality({1}) = 1
    BY FS_Singleton
  <2>3. IsFiniteSet({1} \cup {2}) /\ Cardinality({1} \cup {2}) = 1 + 1
    BY <2>2, FS_AddElement
  <2> QED
    BY <2>1, <2>2, <2>3
<1>10. HeapOK(m)
  <2>1. RefsOK(m.keys) /\ RefsOK(m.rings) /\ RefsOK(m.stores)
    BY <1>5, <1>6, <1>8, <1>9 DEF RefsOK
  <2>2. \A c \in DOMAIN m.keys : KeyShape(m.keys[c])
    BY <1>5, RootShape
  <2> QED
    BY <1>3, <2>1, <2>2 DEF HeapOK
<1>11. OwnerOK(m, o)
  <2>1. RefsIn(m, o)
    BY <1>4, <1>5, <1>6, EmptyFacts DEF RefsIn
  <2>2. Apart(m, o)
    BY <1>4, <1>6, <1>7, EmptyFacts DEF Apart
  <2> QED
    BY <2>1, <2>2 DEF OwnerOK
<1>12. ValueOf(m, o) = v
  <2>1. PICK w : w = ValueOf(m, o)
    OBVIOUS
  <2>2. ValueSeen(w, m, o)
    BY <1>4, <2>1, ValueFields
  <2>3. SessionShape(w)
    BY <2>2 DEF ValueSeen, SessionShape
  <2>4. w.rk = v.rk
    BY <1>4, <1>5, <2>2, RootShape DEF ValueSeen
  <2>5. w.cks = v.cks
    <3>1. w.cks = (IF o.cks = NoKey THEN NoChainKey ELSE m.keys[o.cks])
      BY <2>2 DEF ValueSeen
    <3>2. 2 # NoKey
      BY NilAssumption
    <3> QED
      BY <1>4, <1>5, <3>1, <3>2
  <2>6. w.recvChains = v.recvChains /\ w.mkSkipped = v.mkSkipped
    BY <1>4, <1>6, <2>2, EmptyFacts DEF ValueSeen
  <2>7. /\ w.ns = v.ns /\ w.pn = v.pn /\ w.dhs = v.dhs /\ w.dhr = v.dhr /\ w.dhRSet = v.dhRSet
        /\ w.dhRatchetPerformed = v.dhRatchetPerformed
    BY <1>4, <2>2 DEF ValueSeen, PlainFields
  <2> QED
    BY <2>1, <2>3, <2>4, <2>5, <2>6, <2>7, SameSession
<1>13. Compact(m)
  <2>1. DOMAIN m.keys = one \/ DOMAIN m.keys = two
    BY <1>5, <1>8
  <2> QED
    BY <1>8, <1>9, <2>1 DEF Compact
<1>14. DOMAIN m.keys \subseteq Live(m)
  <2>1. {o.rk, o.cks} \ {NoKey} \subseteq Live(m)
    BY <1>1 DEF Live, Owners, CellsOf
  <2>2. DOMAIN m.keys \subseteq {o.rk, o.cks} \ {NoKey}
    BY <1>4, <1>5, NilAssumption
  <2> QED
    BY <2>1, <2>2
<1> QED
  BY <1>1, <1>3, <1>10, <1>11, <1>12, <1>13, <1>14 DEF Settled, HeapInv, Good

(* The constructors of initiator and responder start from such heaps.      *)
LEMMA FirstSessions ==
  ASSUME NEW v \in {InitInitiator(<<Owner, 1>>, <<Peer, 1>>), InitResponder(<<Owner, 1>>)}
  PROVE  Settled(FirstHeap(v), FALSE, v)
<1>1. CASE v = InitInitiator(<<Owner, 1>>, <<Peer, 1>>)
  <2>1. PICK rk : rk = DeriveRoot(InitialRootKey, SharedSecret(<<Owner, 1>>, <<Peer, 1>>))
    OBVIOUS
  <2>2. SessionShape(v) /\ v.recvChains = NewReceiverChains /\ v.mkSkipped = NewStorage
        /\ v.cks = FirstChainKey(rk)
    BY <1>1, <2>1 DEF InitInitiator, SessionShape, SessionFields
  <2> QED
    BY <2>2, RootShape, FirstHeapSettled
<1>2. CASE v = InitResponder(<<Owner, 1>>)
  <2>1. SessionShape(v) /\ v.recvChains = NewReceiverChains /\ v.mkSkipped = NewStorage
        /\ v.cks = NoChainKey
    BY <1>2 DEF InitResponder, SessionShape, SessionFields
  <2> QED
    BY <2>1, FirstHeapSettled
<1> QED
  BY <1>1, <1>2

-----------------------------------------------------------------------------
(* The inductive invariant.                                                *)
MemInv == closed \in BOOLEAN /\ HeapInv(heap, closed)

(* Each action: what becomes of the heap and of its value.                 *)
LEMMA HeaderNumbers == \A h \in Headers : NumbersOK(h)
BY DEF Headers, NumbersOK

(* Each step of the program, as a step of the value: Encrypt,              *)
LEMMA EncryptStep ==
  ASSUME MemInv, EncryptInPlace
  PROVE  /\ CanSend(Value) /\ ~RatchetRefused(Value)
         /\ closed' = closed
         /\ Settled(heap', closed, AdvanceSend(ReadyToSend(Value, <<Owner, Value.dhs[2] + 1>>)))
<1>1. PICK m, v, fresh, y :
        /\ m = heap /\ v = Value /\ fresh = NextPair
        /\ y = (IF m.s.dhRatchetPerformed THEN RatchetSend(m, fresh) ELSE m)
  OBVIOUS
<1>2. /\ HeapInv(m, closed) /\ v = ValueOf(m, m.s) /\ CanSend(v) /\ ~RatchetRefused(m.s)
      /\ heap' = Collected(AdvanceChain(y)) /\ closed' = closed
  BY <1>1 DEF MemInv, EncryptInPlace, Finish, Value
<1>3. ValueSeen(v, m, m.s)
  BY <1>2, GoodShape DEF HeapInv
<1>4. /\ fresh = <<Owner, v.dhs[2] + 1>> /\ ~RatchetRefused(v)
  BY <1>1, <1>2, <1>3 DEF ValueSeen, PlainFields, NextPair, RatchetRefused
<1>5. Settled(Collected(AdvanceChain(y)), closed, AdvanceSend(ReadyToSend(v, fresh)))
  BY <1>1, <1>2, EncryptSettles
<1> QED
  BY <1>1, <1>2, <1>4, <1>5

(* an Encrypt that fails before it has changed anything but a flag,        *)
LEMMA EncryptFailsStep ==
  ASSUME MemInv, EncryptFails
  PROVE  /\ Value.dhRatchetPerformed /\ closed' = closed
         /\ Settled(heap', closed, DHRatchetSendFails(Value))
<1>1. PICK m, v : m = heap /\ v = Value
  OBVIOUS
<1>2. /\ HeapInv(m, closed) /\ v = ValueOf(m, m.s) /\ m.s.dhRatchetPerformed /\ closed' = closed
      /\ heap' = Collected([m EXCEPT !.s = DHRatchetSendFails(m.s)])
  BY <1>1 DEF MemInv, EncryptFails, Finish, Value
<1>3. ValueSeen(v, m, m.s)
  BY <1>2, GoodShape DEF HeapInv
<1>4. v.dhRatchetPerformed
  BY <1>2, <1>3 DEF ValueSeen, PlainFields
<1>5. Settled(Collected([m EXCEPT !.s = DHRatchetSendFails(m.s)]), closed, DHRatchetSendFails(v))
  BY <1>2, EncryptFailsSettles
<1> QED
  BY <1>1, <1>2, <1>4, <1>5

(* a Decrypt that returns a message,                                       *)
LEMMA DecryptStep ==
  ASSUME MemInv, NEW h \in Headers, Decrypts(h)
  PROVE  /\ RatchetReceiveKey(Value, h).err = "ok" /\ closed' = closed
         /\ Settled(heap', closed, RatchetReceiveKey(Value, h).s)
<1>1. PICK m, v, got : m = heap /\ v = Value /\ got = DecryptInPlace(RecordPrev(m), h)
  OBVIOUS
<1>2. /\ HeapInv(m, closed) /\ v = ValueOf(m, m.s) /\ closed = FALSE /\ closed' = closed
      /\ got.err = "ok" /\ heap' = Collected(got.m) /\ NumbersOK(h)
  BY <1>1, HeaderNumbers DEF MemInv, Decrypts, Finish, Value
<1>3. HeapInv(m, FALSE)
  BY <1>2
<1>4. got.err = RatchetReceiveKey(v, h).err
  BY <1>1, <1>2, <1>3, DecryptWorks
<1>5. Settled(Collected(got.m), FALSE, RatchetReceiveKey(v, h).s)
  BY <1>1, <1>2, <1>3, DecryptSettles
<1> QED
  BY <1>1, <1>2, <1>4, <1>5

(* a Decrypt that fails and is rolled back,                                *)
LEMMA DecryptFailsStep ==
  ASSUME MemInv, NEW h \in Headers, DecryptFails(h)
  PROVE  closed' = closed /\ Settled(heap', closed, Value)
<1>1. PICK m, v : m = heap /\ v = Value
  OBVIOUS
<1>2. /\ HeapInv(m, closed) /\ v = ValueOf(m, m.s) /\ closed' = closed /\ NumbersOK(h)
      /\ heap' = Collected(RollbackMemory(DecryptInPlace(RecordPrev(m), h).m))
  BY <1>1, HeaderNumbers DEF MemInv, DecryptFails, Finish, Value
<1>3. Settled(Collected(RollbackMemory(DecryptInPlace(RecordPrev(m), h).m)), closed, v)
  BY <1>2, RollbackSettles
<1> QED
  BY <1>1, <1>2, <1>3

(* and Close.                                                              *)
LEMMA CloseStep ==
  ASSUME MemInv, CloseSession
  PROVE  closed' = TRUE /\ Settled(heap', TRUE, Close(Value))
<1>1. PICK m, v : m = heap /\ v = Value
  OBVIOUS
<1>2. /\ HeapInv(m, FALSE) /\ v = ValueOf(m, m.s) /\ closed' = TRUE /\ heap' = CloseMemory(m)
  BY <1>1 DEF MemInv, CloseSession, Value
<1>3. Settled(CloseMemory(m), TRUE, Close(v))
  BY <1>2, CloseSettles
<1> QED
  BY <1>1, <1>2, <1>3

-----------------------------------------------------------------------------
(* The invariant holds of a session that has just been constructed,        *)
LEMMA MemInvInit == MemoryInit => MemInv
<1> SUFFICES ASSUME MemoryInit PROVE MemInv
  OBVIOUS
<1>1. PICK v \in {InitInitiator(<<Owner, 1>>, <<Peer, 1>>), InitResponder(<<Owner, 1>>)} :
        heap = FirstHeap(v)
  BY DEF MemoryInit, FirstHeap
<1>2. closed = FALSE
  BY DEF MemoryInit
<1> QED
  BY <1>1, <1>2, FirstSessions DEF MemInv, Settled

(* and every call keeps it.                                                *)
LEMMA MemInvStep == MemInv /\ [MemoryNext]_<<heap, calls, closed>> => MemInv'
<1> SUFFICES ASSUME MemInv, [MemoryNext]_<<heap, calls, closed>> PROVE MemInv'
  OBVIOUS
<1>1. CASE EncryptInPlace
  BY <1>1, EncryptStep DEF MemInv, Settled
<1>2. CASE EncryptFails
  BY <1>2, EncryptFailsStep DEF MemInv, Settled
<1>3. CASE CloseSession
  BY <1>3, CloseStep DEF MemInv, Settled
<1>4. ASSUME NEW h \in Headers, Decrypts(h) PROVE MemInv'
  BY <1>4, DecryptStep DEF MemInv, Settled
<1>5. ASSUME NEW h \in Headers, DecryptFails(h) PROVE MemInv'
  BY <1>5, DecryptFailsStep DEF MemInv, Settled
<1>6. CASE UNCHANGED <<heap, calls, closed>>
  BY <1>6 DEF MemInv
<1> QED
  BY <1>1, <1>2, <1>3, <1>4, <1>5, <1>6 DEF MemoryNext

(* After Close (session.go) every slice the session or its snapshot refers *)
(* to is zero, and stays so through every later call, for any number of    *)
(* calls, skipped keys and receiver chains: the rollback of a failed       *)
(* Decrypt brings no key back.                                             *)
THEOREM ClosedSessionsAreErased == MemorySpec => []CloseErasesSlices
<1>1. MemInv => CloseErasesSlices
  BY DEF MemInv, HeapInv, AllZero, CloseErasesSlices
<1> QED
  BY <1>1, MemInvInit, MemInvStep, PTL DEF MemorySpec

(* SessionCalls computes with the same operators.                          *)
LEMMA SameStart ==
  /\ Calls!InitInitiator(<<Owner, 1>>, <<Peer, 1>>) = InitInitiator(<<Owner, 1>>, <<Peer, 1>>)
  /\ Calls!InitResponder(<<Owner, 1>>) = InitResponder(<<Owner, 1>>)
BY DEF Calls!InitInitiator, InitInitiator, Calls!InitResponder, InitResponder,
       Calls!DeriveRoot, DeriveRoot, Calls!InitialRootKey, InitialRootKey,
       Calls!SharedSecret, SharedSecret, Calls!FirstChainKey, FirstChainKey,
       Calls!NoChainKey, NoChainKey, Calls!NewReceiverChains, NewReceiverChains,
       Calls!Slots, Slots, Calls!EmptySlot, EmptySlot, Calls!NewStorage, NewStorage

(* SessionCalls speaks of its own instances of the operators of Session;   *)
(* they are the same operators. Those of Encrypt and Close:                *)
LEMMA SameSend ==
  ASSUME NEW v, NEW fresh
  PROVE  /\ Calls!CanSend(v) <=> CanSend(v)
         /\ Calls!RatchetRefused(v) <=> RatchetRefused(v)
         /\ Calls!AdvanceSend(Calls!ReadyToSend(v, fresh)) = AdvanceSend(ReadyToSend(v, fresh))
         /\ Calls!DHRatchetSendFails(v) = DHRatchetSendFails(v)
         /\ Calls!Close(v) = Close(v)
<1>1. Calls!CanSend(v) <=> CanSend(v)
  BY DEF Calls!CanSend, CanSend, Calls!NoChainKey, NoChainKey
<1>2. Calls!RatchetRefused(v) <=> RatchetRefused(v)
  BY DEF Calls!RatchetRefused, RatchetRefused
<1>3. Calls!ReadyToSend(v, fresh) = ReadyToSend(v, fresh)
  BY DEF Calls!ReadyToSend, ReadyToSend, Calls!PerformDHRatchetSend, PerformDHRatchetSend,
         Calls!DeriveRoot, DeriveRoot, Calls!SharedSecret, SharedSecret,
         Calls!FirstChainKey, FirstChainKey
<1>4. PICK w : w = ReadyToSend(v, fresh)
  OBVIOUS
<1>5. Calls!AdvanceSend(w) = AdvanceSend(w)
  BY DEF Calls!AdvanceSend, AdvanceSend, Calls!DeriveNextChainKey, DeriveNextChainKey
<1>6. Calls!DHRatchetSendFails(v) = DHRatchetSendFails(v)
  BY DEF Calls!DHRatchetSendFails, DHRatchetSendFails
<1>7. Calls!Close(v) = Close(v)
  BY DEF Calls!Close, Close, Calls!Zeroed, Zeroed, Calls!NoChainKey, NoChainKey,
         Calls!FirstChainKey, FirstChainKey, Calls!ZeroRootKey, ZeroRootKey,
         Calls!ZeroPair, ZeroPair, Calls!NewReceiverChains, NewReceiverChains,
         Calls!Slots, Slots, Calls!EmptySlot, EmptySlot, Calls!NewStorage, NewStorage
<1> QED
  BY <1>1, <1>2, <1>3, <1>4, <1>5, <1>6, <1>7

(* Those of the skipped keys:                                              *)
LEMMA SameStoreKeys ==
  ASSUME NEW st, NEW pk, NEW ck, NEW lo, NEW hi
  PROVE  Calls!StoreKeys(st, pk, ck, lo, hi) = StoreKeys(st, pk, ck, lo, hi)
BY DEF Calls!StoreKeys, StoreKeys, Calls!Store, Store, Calls!HasKey, HasKey,
       Calls!Insert, Insert, Calls!MakeRoom, MakeRoom, Calls!EvictOldest, EvictOldest,
       Calls!Without, Without, Calls!Cardinality, Cardinality, Calls!StorageKey, StorageKey,
       Calls!DeriveMessageKey, DeriveMessageKey, Calls!ChainKeyAt, ChainKeyAt

(* Those of the receiver chains:                                           *)
LEMMA SameChains ==
  ASSUME NEW r, NEW pk
  PROVE  /\ Calls!HasChain(r, pk) <=> HasChain(r, pk)
         /\ Calls!GetChain(r, pk) = GetChain(r, pk)
         /\ \A ck : Calls!Push(r, pk, ck) = Push(r, pk, ck)
         /\ \A ck, nr : Calls!PutChain(r, pk, ck, nr) = PutChain(r, pk, ck, nr)
<1>1. Calls!HasChain(r, pk) <=> HasChain(r, pk)
  BY DEF Calls!HasChain, HasChain, Calls!Holds, Holds, Calls!SlotAt, SlotAt
<1>2. Calls!GetChain(r, pk) = GetChain(r, pk)
  BY DEF Calls!GetChain, GetChain, Calls!PositionOf, PositionOf, Calls!Holds, Holds,
         Calls!SlotAt, SlotAt
<1>3. ASSUME NEW ck PROVE Calls!Push(r, pk, ck) = Push(r, pk, ck)
  BY DEF Calls!Push, Push, Calls!EvictHead, EvictHead, Calls!EmptySlot, EmptySlot,
         Calls!SlotAt, SlotAt, Calls!NewChain, NewChain
<1>4. ASSUME NEW ck, NEW nr PROVE Calls!PutChain(r, pk, ck, nr) = PutChain(r, pk, ck, nr)
  BY DEF Calls!PutChain, PutChain, Calls!PositionOf, PositionOf, Calls!Holds, Holds,
         Calls!SlotAt, SlotAt
<1> QED
  BY <1>1, <1>2, <1>3, <1>4

(* And that of Decrypt:                                                    *)
LEMMA SameReceive ==
  ASSUME NEW v, NEW hdr
  PROVE  Calls!RatchetReceiveKey(v, hdr) = RatchetReceiveKey(v, hdr)
<1>1. ASSUME NEW w PROVE Calls!ReceiveOnChain(w, hdr) = ReceiveOnChain(w, hdr)
  <2>1. \A c, k : Calls!ChainKeyAt(c, k) = ChainKeyAt(c, k)
    BY DEF Calls!ChainKeyAt, ChainKeyAt
  <2>2. PICK chain : chain = GetChain(w.recvChains, hdr.pk)
    OBVIOUS
  <2>3. PICK at : at = ChainKeyAt(chain.ck, hdr.n - chain.nr)
    OBVIOUS
  <2>4. PICK st, r : /\ st = StoreKeys(w.mkSkipped, hdr.pk, chain.ck, chain.nr, hdr.n)
                     /\ r = PutChain(w.recvChains, hdr.pk, DeriveNextChainKey(at), hdr.n + 1)
    OBVIOUS
  <2>5. ReceiveOnChain(w, hdr) =
          IF ~HasChain(w.recvChains, hdr.pk) THEN Failure("ErrInvalidTransition", w)
          ELSE IF TooManySkipped(chain.nr, hdr.n) THEN Failure("ErrMaxSkipExceeded", w)
          ELSE IF hdr.n < chain.nr THEN Failure("ErrInvalidTransition", w)
          ELSE Outcome("ok", [w EXCEPT !.mkSkipped = st, !.recvChains = r], DeriveMessageKey(at))
    BY <2>2, <2>3, <2>4 DEF ReceiveOnChain
  <2>6. /\ Calls!GetChain(w.recvChains, hdr.pk) = chain
        /\ Calls!ChainKeyAt(chain.ck, hdr.n - chain.nr) = at
        /\ Calls!StoreKeys(w.mkSkipped, hdr.pk, chain.ck, chain.nr, hdr.n) = st
        /\ Calls!DeriveNextChainKey(at) = DeriveNextChainKey(at)
        /\ Calls!DeriveMessageKey(at) = DeriveMessageKey(at)
        /\ Calls!PutChain(w.recvChains, hdr.pk, DeriveNextChainKey(at), hdr.n + 1) = r
        /\ Calls!HasChain(w.recvChains, hdr.pk) <=> HasChain(w.recvChains, hdr.pk)
        /\ Calls!TooManySkipped(chain.nr, hdr.n) <=> TooManySkipped(chain.nr, hdr.n)
    BY <2>1, <2>2, <2>3, <2>4, SameChains, SameStoreKeys
       DEF Calls!DeriveNextChainKey, DeriveNextChainKey, Calls!DeriveMessageKey,
           DeriveMessageKey, Calls!TooManySkipped, TooManySkipped
  <2>7. Calls!ReceiveOnChain(w, hdr) =
          IF ~HasChain(w.recvChains, hdr.pk) THEN Calls!Failure("ErrInvalidTransition", w)
          ELSE IF TooManySkipped(chain.nr, hdr.n) THEN Calls!Failure("ErrMaxSkipExceeded", w)
          ELSE IF hdr.n < chain.nr THEN Calls!Failure("ErrInvalidTransition", w)
          ELSE Calls!Outcome("ok", [w EXCEPT !.mkSkipped = st, !.recvChains = r], DeriveMessageKey(at))
    BY <2>6 DEF Calls!ReceiveOnChain
  <2> QED
    BY <2>5, <2>7 DEF Calls!Failure, Failure, Calls!Outcome, Outcome
<1>2. /\ Calls!HasPrevChain(v) <=> HasPrevChain(v)
      /\ Calls!PrevNr(v) = PrevNr(v)
  BY SameChains DEF Calls!HasPrevChain, HasPrevChain, Calls!PrevNr, PrevNr
<1>3. Calls!SkipPrevChain(v, hdr.pn) = SkipPrevChain(v, hdr.pn)
  BY <1>2, SameChains, SameStoreKeys DEF Calls!SkipPrevChain, SkipPrevChain
<1>4. Calls!PerformDHRatchetRecv(v, hdr) = PerformDHRatchetRecv(v, hdr)
  <2>1. PICK root, st, r :
          /\ root = DeriveRoot(v.rk, SharedSecret(v.dhs, hdr.pk)) /\ st = SkipPrevChain(v, hdr.pn)
          /\ r = Push(v.recvChains, hdr.pk, FirstChainKey(root))
    OBVIOUS
  <2>2. /\ Calls!DeriveRoot(v.rk, Calls!SharedSecret(v.dhs, hdr.pk)) = root
        /\ Calls!FirstChainKey(root) = FirstChainKey(root)
        /\ Calls!VerifyPublicKey(hdr.pk) <=> VerifyPublicKey(hdr.pk)
        /\ Calls!TooManySkipped(PrevNr(v), hdr.pn) <=> TooManySkipped(PrevNr(v), hdr.pn)
    BY <2>1 DEF Calls!DeriveRoot, DeriveRoot, Calls!SharedSecret, SharedSecret,
           Calls!FirstChainKey, FirstChainKey, Calls!VerifyPublicKey, VerifyPublicKey,
           Calls!TooManySkipped, TooManySkipped
  <2>3. Calls!Push(v.recvChains, hdr.pk, FirstChainKey(root)) = r
    BY <2>1, SameChains
  <2>4. PerformDHRatchetRecv(v, hdr) =
          IF ~VerifyPublicKey(hdr.pk) THEN Failure("ErrInvalidInput", v)
          ELSE IF HasPrevChain(v) /\ TooManySkipped(PrevNr(v), hdr.pn)
          THEN Failure("ErrMaxSkipExceeded", [v EXCEPT !.rk = root])
          ELSE Outcome("ok", [[v EXCEPT !.rk = root] EXCEPT
                                !.mkSkipped = st, !.recvChains = r, !.dhr = hdr.pk,
                                !.dhRSet = TRUE, !.dhRatchetPerformed = TRUE], NoKey)
    BY <2>1 DEF PerformDHRatchetRecv
  <2>5. Calls!PerformDHRatchetRecv(v, hdr) =
          IF ~VerifyPublicKey(hdr.pk) THEN Calls!Failure("ErrInvalidInput", v)
          ELSE IF HasPrevChain(v) /\ TooManySkipped(PrevNr(v), hdr.pn)
          THEN Calls!Failure("ErrMaxSkipExceeded", [v EXCEPT !.rk = root])
          ELSE Calls!Outcome("ok", [[v EXCEPT !.rk = root] EXCEPT
                                !.mkSkipped = st, !.recvChains = r, !.dhr = hdr.pk,
                                !.dhRSet = TRUE, !.dhRatchetPerformed = TRUE], NoKey)
    BY <1>2, <1>3, <2>1, <2>2, <2>3 DEF Calls!PerformDHRatchetRecv
  <2> QED
    BY <2>4, <2>5 DEF Calls!Failure, Failure, Calls!Outcome, Outcome
<1>5. Calls!IsNewEpoch(v, hdr) <=> IsNewEpoch(v, hdr)
  BY SameChains DEF Calls!IsNewEpoch, IsNewEpoch, Calls!IsCurrentChain, IsCurrentChain
<1>6. ASSUME NEW id PROVE Calls!TakeSkipped(v, id) = TakeSkipped(v, id)
  <2>1. Calls!RemoveFirst(v.mkSkipped.order, id) = RemoveFirst(v.mkSkipped.order, id)
    BY DEF Calls!RemoveFirst, RemoveFirst, Calls!RemoveAt, RemoveAt,
           Calls!SelectInSeq, SelectInSeq, Calls!Min, Min
  <2>2. Calls!Consume(v.mkSkipped, id) = Consume(v.mkSkipped, id)
    BY <2>1 DEF Calls!Consume, Consume, Calls!Without, Without
  <2> QED
    BY <2>2 DEF Calls!TakeSkipped, TakeSkipped, Calls!Outcome, Outcome, Calls!Lookup, Lookup
<1>7. PICK id, here : /\ id = StorageKey(hdr.pk, hdr.n)
                      /\ here = (IF IsNewEpoch(v, hdr) THEN PerformDHRatchetRecv(v, hdr)
                                 ELSE Outcome("ok", v, NoKey))
  OBVIOUS
<1>8. /\ Calls!StorageKey(hdr.pk, hdr.n) = id
      /\ (IF Calls!IsNewEpoch(v, hdr) THEN Calls!PerformDHRatchetRecv(v, hdr)
          ELSE Calls!Outcome("ok", v, NoKey)) = here
      /\ Calls!HasKey(v.mkSkipped, id) <=> HasKey(v.mkSkipped, id)
  BY <1>4, <1>5, <1>7
     DEF Calls!StorageKey, StorageKey, Calls!Outcome, Outcome, Calls!HasKey, HasKey
<1>9. RatchetReceiveKey(v, hdr) = IF HasKey(v.mkSkipped, id) THEN TakeSkipped(v, id)
                                  ELSE IF here.err # "ok" THEN here
                                  ELSE ReceiveOnChain(here.s, hdr)
  BY <1>7 DEF RatchetReceiveKey
<1>10. Calls!RatchetReceiveKey(v, hdr) = IF HasKey(v.mkSkipped, id) THEN Calls!TakeSkipped(v, id)
                                         ELSE IF here.err # "ok" THEN here
                                         ELSE Calls!ReceiveOnChain(here.s, hdr)
  BY <1>8 DEF Calls!RatchetReceiveKey
<1> QED
  BY <1>1, <1>6, <1>9, <1>10

(* A session whose keys are slices that are zeroed in place, copied or     *)
(* shared (session.go, invariants.go) takes exactly the steps of a session *)
(* that is a value: no slice is zeroed while something that is read later  *)
(* refers to it, and no object is changed through one reference and read   *)
(* through another.                                                        *)
THEOREM SlicesComputeCalls == MemorySpec => ImplementsCalls
<1>1. MemoryInit => Calls!Init
  <2> SUFFICES ASSUME MemoryInit PROVE Calls!Init
    OBVIOUS
  <2>1. PICK v \in {InitInitiator(<<Owner, 1>>, <<Peer, 1>>), InitResponder(<<Owner, 1>>)} :
          heap = FirstHeap(v)
    BY DEF MemoryInit, FirstHeap
  <2>2. Value = v
    BY <2>1, FirstSessions DEF Settled, Value
  <2> QED
    BY <2>1, <2>2, SameStart DEF Calls!Init
<1>2. MemInv /\ [MemoryNext]_<<heap, calls, closed>> => [Calls!Next]_Value
  <2> SUFFICES ASSUME MemInv, [MemoryNext]_<<heap, calls, closed>> PROVE Calls!Next \/ Value' = Value
    OBVIOUS
  <2>1. ASSUME NEW done, NEW v, Settled(heap', done, v) PROVE Value' = v
    BY <2>1 DEF Settled, Value
  <2>2. CASE EncryptInPlace
    <3>1. PICK v, fresh : v = Value /\ fresh = <<Owner, v.dhs[2] + 1>>
      OBVIOUS
    <3>2. CanSend(v) /\ ~RatchetRefused(v) /\ Value' = AdvanceSend(ReadyToSend(v, fresh))
      BY <2>1, <2>2, <3>1, EncryptStep
    <3>3. Calls!NextPair(v) = fresh
      BY <3>1 DEF Calls!NextPair
    <3>4. /\ Calls!CanSend(v) /\ ~Calls!RatchetRefused(v)
          /\ Value' = Calls!AdvanceSend(Calls!ReadyToSend(v, fresh))
      BY <3>2, SameSend
    <3>5. Calls!Encrypts
      BY <3>1, <3>3, <3>4 DEF Calls!Encrypts
    <3> QED
      BY <3>5 DEF Calls!Next
  <2>3. CASE EncryptFails
    <3>1. PICK v : v = Value
      OBVIOUS
    <3>2. v.dhRatchetPerformed /\ Value' = DHRatchetSendFails(v)
      BY <2>1, <2>3, <3>1, EncryptFailsStep
    <3>3. Calls!EncryptFails
      BY <3>1, <3>2, SameSend DEF Calls!EncryptFails
    <3> QED
      BY <3>3 DEF Calls!Next
  <2>4. CASE CloseSession
    <3>1. Value' = Close(Value)
      BY Zenon, <2>1, <2>4, CloseStep
    <3>2. Value' = Calls!Close(Value)
      BY <3>1, SameSend
    <3> QED
      BY <3>2 DEF Calls!Next
  <2>5. ASSUME NEW h \in Headers, Decrypts(h) PROVE Calls!Next
    <3>1. PICK v, got : v = Value /\ got = RatchetReceiveKey(v, h)
      OBVIOUS
    <3>2. got.err = "ok" /\ Value' = got.s
      BY <2>1, <2>5, <3>1, DecryptStep
    <3>3. Calls!RatchetReceiveKey(v, h) = got
      BY <3>1, SameReceive
    <3>4. Calls!Accepts(h)
      BY <3>1, <3>2, <3>3 DEF Calls!Accepts
    <3>5. h \in Calls!Headers
      BY DEF Headers, Calls!Headers
    <3> QED
      BY <3>4, <3>5 DEF Calls!Next
  <2>6. ASSUME NEW h \in Headers, DecryptFails(h) PROVE Value' = Value
    BY <2>1, <2>6, DecryptFailsStep
  <2>7. CASE UNCHANGED <<heap, calls, closed>>
    BY <2>7 DEF Value
  <2> QED
    BY <2>2, <2>3, <2>4, <2>5, <2>6, <2>7 DEF MemoryNext
<1> QED
  BY <1>1, <1>2, MemInvInit, MemInvStep, PTL DEF MemorySpec, ImplementsCalls, Calls!Spec
=============================================================================
