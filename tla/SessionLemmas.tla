-------------------------- MODULE SessionLemmas -----------------------------
(***************************************************************************)
(* What the operators of the skipped-key store and of the receiver chain   *)
(* buffer return, as far as the theorems about sessions need it.           *)
(***************************************************************************)
EXTENDS Session, TLAPS, WellFoundedInduction, FiniteSetTheorems

(* A set of naturals that is not empty has a least element: what the       *)
(* proofs below use where a program would loop.                            *)
LEMMA LeastElement ==
  ASSUME NEW T, T \subseteq Nat, T # {}
  PROVE  \E n \in T : \A m \in T : n <= m
<1> DEFINE R == OpToRel(<, Nat)
<1>1. IsWellFoundedOn(R, Nat)
  BY NatLessThanWellFounded
<1> HIDE DEF R
<1>2. PICK n \in T : \A m \in T : ~(<<m, n>> \in R)
  BY <1>1, WFMin
<1>3. \A m \in T : ~(m < n)
  BY <1>2 DEF R, OpToRel
<1> QED
  BY <1>3

(* And a set of integers with an upper bound has a greatest one.           *)
LEMMA GreatestElement ==
  ASSUME NEW T, T \subseteq Int, T # {}, NEW b \in Int, \A x \in T : x <= b
  PROVE  \E n \in T : \A m \in T : m <= n
<1> DEFINE D == {b - x : x \in T}
<1>0. \A x \in T : x \in Int /\ b - x \in Nat
  OBVIOUS
<1>1. D \subseteq Nat /\ D # {}
  BY <1>0
<1>2. PICK d \in D : \A e \in D : d <= e
  <2> HIDE DEF D
  <2> QED BY <1>1, LeastElement
<1>3. PICK n \in T : d = b - n
  OBVIOUS
<1>4. ASSUME NEW m \in T PROVE m <= n
  <2>1. b - n <= b - m
    BY <1>2, <1>3
  <2> QED BY <2>1, <1>0
<1> QED
  BY <1>4

(* Store adds at most the entry it is given; what it evicts is gone.       *)
LEMMA StoreContents ==
  ASSUME NEW st, NEW id, NEW mk
  PROVE  LET new == Store(st, MaxSkip, id, mk)
         IN  \A x \in DOMAIN new.entries :
               \/ x \in DOMAIN st.entries /\ new.entries[x] = st.entries[x]
               \/ x = id /\ new.entries[x] = mk
<1> DEFINE room == MakeRoom(st, MaxSkip)
<1>1. \A x \in DOMAIN room.entries : x \in DOMAIN st.entries /\ room.entries[x] = st.entries[x]
  BY DEF MakeRoom, EvictOldest, Without
<1>2. Store(st, MaxSkip, id, mk) \in {st, Insert(room, id, mk)}
  BY DEF Store
<1> HIDE DEF room
<1> QED
  BY <1>1, <1>2 DEF Insert

(* The stores that the loop of StoreKeys goes through, from the first to   *)
(* the last, in the form the definition of StoreKeys expands to.           *)
KeysAfter(st, pk, ck, lo, len) ==
  CHOOSE f : f = [k \in 0 .. len |->
        IF k = 0 THEN st
        ELSE Store(f[k - 1], MaxSkip, StorageKey(pk, lo + k - 1),
                   DeriveMessageKey(ChainKeyAt(ck, k - 1)))]

(* The equation that this function solves.                                 *)
KeysAfterEq(f, st, pk, ck, lo, len) ==
  f = [k \in 0 .. len |->
        IF k = 0 THEN st
        ELSE Store(f[k - 1], MaxSkip, StorageKey(pk, lo + k - 1),
                   DeriveMessageKey(ChainKeyAt(ck, k - 1)))]

(* The equation has a solution for every length: otherwise take the least  *)
(* length that has none, and extend a solution of the length before it.    *)
LEMMA KeysAfterExists ==
  ASSUME NEW st, NEW pk, NEW ck, NEW lo \in Int, NEW len \in Nat
  PROVE  \E f : KeysAfterEq(f, st, pk, ck, lo, len)
<1> DEFINE Bad == {n \in Nat : ~\E f : KeysAfterEq(f, st, pk, ck, lo, n)}
<1> SUFFICES ASSUME Bad # {} PROVE FALSE
  OBVIOUS
<1>1. PICK n \in Bad : \A m \in Bad : n <= m
  BY LeastElement
<1>2. CASE n = 0
  <2>1. KeysAfterEq([k \in 0 .. 0 |-> st], st, pk, ck, lo, 0)
    BY DEF KeysAfterEq
  <2> QED BY <1>1, <1>2, <2>1
<1>3. CASE n # 0
  <2>1. PICK f : KeysAfterEq(f, st, pk, ck, lo, n - 1)
    BY <1>1, <1>3
  <2> DEFINE g == [k \in 0 .. n |->
        IF k = 0 THEN st
        ELSE Store(f[k - 1], MaxSkip, StorageKey(pk, lo + k - 1),
                   DeriveMessageKey(ChainKeyAt(ck, k - 1)))]
  <2>2. \A k \in 0 .. n - 1 : g[k] = f[k]
    BY <2>1 DEF KeysAfterEq
  <2>3. \A k \in 0 .. n : g[k] = IF k = 0 THEN st
        ELSE Store(g[k - 1], MaxSkip, StorageKey(pk, lo + k - 1),
                   DeriveMessageKey(ChainKeyAt(ck, k - 1)))
    <3> SUFFICES ASSUME NEW k \in 0 .. n, k # 0
                 PROVE  g[k - 1] = f[k - 1]
      OBVIOUS
    <3>1. n \in Nat
      OBVIOUS
    <3>2. k - 1 \in 0 .. n - 1
      BY <3>1
    <3> QED BY <2>2, <3>2
  <2>4. g = [k \in 0 .. n |-> g[k]]
    OBVIOUS
  <2> HIDE DEF g
  <2>5. KeysAfterEq(g, st, pk, ck, lo, n)
    BY <2>3, <2>4 DEF KeysAfterEq
  <2>6. \E h : KeysAfterEq(h, st, pk, ck, lo, n)
    BY <2>5
  <2> QED BY <1>1, <2>6
<1> QED
  BY <1>2, <1>3

(* So the stores are what the equation says.                               *)
LEMMA KeysAfterDef ==
  ASSUME NEW st, NEW pk, NEW ck, NEW lo \in Int, NEW len \in Nat
  PROVE  KeysAfterEq(KeysAfter(st, pk, ck, lo, len), st, pk, ck, lo, len)
<1>1. PICK f : KeysAfterEq(f, st, pk, ck, lo, len)
  BY KeysAfterExists
<1>2. f = [k \in 0 .. len |->
        IF k = 0 THEN st
        ELSE Store(f[k - 1], MaxSkip, StorageKey(pk, lo + k - 1),
                   DeriveMessageKey(ChainKeyAt(ck, k - 1)))]
  BY <1>1 DEF KeysAfterEq
<1> QED
  BY <1>2 DEF KeysAfter, KeysAfterEq

(* StoreKeys adds entries for the numbers lo .. hi - 1 of chain pk only,   *)
(* each under the key the chain reaches at that number, and leaves every   *)
(* other entry it keeps alone. By the least store of the loop where this   *)
(* fails.                                                                  *)
LEMMA StoreKeysContents ==
  ASSUME NEW st, NEW pk, NEW ck, NEW lo \in Int, NEW hi \in Int
  PROVE  LET new == StoreKeys(st, pk, ck, lo, hi)
         IN  \A x \in DOMAIN new.entries :
               \/ x \in DOMAIN st.entries /\ new.entries[x] = st.entries[x]
               \/ \E n \in lo .. hi - 1 : x = StorageKey(pk, n) /\ new.entries[x] = ChainKeyAt(ck, n - lo)
<1> DEFINE f == KeysAfter(st, pk, ck, lo, hi - lo)
           Good(t, k) == \A x \in DOMAIN t.entries :
               \/ x \in DOMAIN st.entries /\ t.entries[x] = st.entries[x]
               \/ \E n \in lo .. lo + k - 1 : x = StorageKey(pk, n) /\ t.entries[x] = ChainKeyAt(ck, n - lo)
<1>1. CASE hi <= lo
  BY <1>1 DEF StoreKeys
<1>2. CASE lo < hi
  <2>1. StoreKeys(st, pk, ck, lo, hi) = f[hi - lo]
    BY <1>2 DEF StoreKeys, KeysAfter
  <2>2. \A k \in 0 .. hi - lo : f[k] = IF k = 0 THEN st
        ELSE Store(f[k - 1], MaxSkip, StorageKey(pk, lo + k - 1),
                   DeriveMessageKey(ChainKeyAt(ck, k - 1)))
    <3>1. KeysAfterEq(f, st, pk, ck, lo, hi - lo)
      BY <1>2, KeysAfterDef
    <3> HIDE DEF f
    <3> QED BY <3>1 DEF KeysAfterEq
  <2> HIDE DEF f
  <2> DEFINE Bad == {k \in 0 .. hi - lo : ~Good(f[k], k)}
  <2>3. Bad = {}
    <3> SUFFICES ASSUME Bad # {} PROVE FALSE
      OBVIOUS
    <3>0. Bad \subseteq Nat
      OBVIOUS
    <3>1. PICK k \in Bad : \A j \in Bad : k <= j
      <4> HIDE DEF Bad
      <4> QED BY <3>0, LeastElement
    <3>2. k # 0
      BY <2>2, <1>2
    <3>3. Good(f[k - 1], k - 1)
      BY <3>1, <3>2
    <3>4. f[k] = Store(f[k - 1], MaxSkip, StorageKey(pk, lo + k - 1),
                   DeriveMessageKey(ChainKeyAt(ck, k - 1)))
      BY <2>2, <3>2
    <3>5. \A x \in DOMAIN f[k].entries :
             \/ x \in DOMAIN f[k-1].entries /\ f[k].entries[x] = f[k-1].entries[x]
             \/ x = StorageKey(pk, lo + k - 1) /\ f[k].entries[x] = ChainKeyAt(ck, k - 1)
      BY <3>4, StoreContents DEF DeriveMessageKey
    <3>6. Good(f[k], k)
      BY <3>3, <3>5, <3>2
    <3> QED BY <3>6
  <2>4. Good(f[hi - lo], hi - lo)
    BY <2>3, <1>2
  <2> QED BY <2>1, <2>4
<1> QED
  BY <1>1, <1>2

(* The names under which the keys of messages lo .. hi - 1 are stored.     *)
RunOfNames(pk, lo, hi) == {StorageKey(pk, n) : n \in lo .. hi - 1}

(* Store evicts nothing while the store and the new entry fit in a set F   *)
(* of MaxSkip names,                                                       *)
LEMMA StoreEvictsNothing ==
  ASSUME NEW st, NEW id, NEW mk, NEW F, IsFiniteSet(F), Cardinality(F) <= MaxSkip,
         DOMAIN st.entries \subseteq F, id \in F
  PROVE  DOMAIN Store(st, MaxSkip, id, mk).entries = DOMAIN st.entries \cup {id}
<1>1. CASE HasKey(st, id)
  BY <1>1 DEF Store, HasKey
<1>2. CASE ~HasKey(st, id)
  <2>1. MaxSkip \in Nat /\ Cardinality(F) \in Nat /\ IsFiniteSet(DOMAIN st.entries)
    BY MaxSkipAssumption, FS_CardinalityType, FS_Subset
  <2>2. Cardinality(DOMAIN st.entries) \in Nat /\ Cardinality(DOMAIN st.entries) <= Cardinality(F)
        /\ Cardinality(DOMAIN st.entries) # Cardinality(F)
    BY <1>2, <2>1, FS_CardinalityType, FS_Subset DEF HasKey
  <2>3. ~(Cardinality(DOMAIN st.entries) >= MaxSkip)
    BY <2>1, <2>2
  <2>4. MakeRoom(st, MaxSkip) = st
    BY <2>3 DEF MakeRoom
  <2>5. Store(st, MaxSkip, id, mk) = Insert(st, id, mk)
    BY <1>2, <2>4, MaxSkipAssumption DEF Store
  <2> QED BY <2>5 DEF Insert
<1> QED
  BY <1>1, <1>2

(* so the loop of StoreKeys stores every key when they all fit.            *)
LEMMA StoreKeysEvictsNothing ==
  ASSUME NEW st, NEW pk, NEW ck, NEW lo \in Int, NEW hi \in Int,
         NEW F, IsFiniteSet(F), Cardinality(F) <= MaxSkip,
         DOMAIN st.entries \subseteq F, RunOfNames(pk, lo, hi) \subseteq F
  PROVE  DOMAIN StoreKeys(st, pk, ck, lo, hi).entries
           = DOMAIN st.entries \cup RunOfNames(pk, lo, hi)
<1> DEFINE f == KeysAfter(st, pk, ck, lo, hi - lo)
           Good(k) == DOMAIN f[k].entries = DOMAIN st.entries \cup RunOfNames(pk, lo, lo + k)
<1>1. CASE hi <= lo
  BY <1>1 DEF StoreKeys, RunOfNames
<1>2. CASE lo < hi
  <2>1. StoreKeys(st, pk, ck, lo, hi) = f[hi - lo]
    BY <1>2 DEF StoreKeys, KeysAfter
  <2>2. \A k \in 0 .. hi - lo : f[k] = IF k = 0 THEN st
        ELSE Store(f[k - 1], MaxSkip, StorageKey(pk, lo + k - 1),
                   DeriveMessageKey(ChainKeyAt(ck, k - 1)))
    <3>1. KeysAfterEq(f, st, pk, ck, lo, hi - lo)
      BY <1>2, KeysAfterDef
    <3> HIDE DEF f
    <3> QED BY <3>1 DEF KeysAfterEq
  <2> HIDE DEF f
  <2> DEFINE Bad == {k \in 0 .. hi - lo : ~Good(k)}
  <2>3. Bad = {}
    <3> SUFFICES ASSUME Bad # {} PROVE FALSE
      OBVIOUS
    <3>0. Bad \subseteq Nat
      OBVIOUS
    <3>1. PICK k \in Bad : \A j \in Bad : k <= j
      <4> HIDE DEF Bad
      <4> QED BY <3>0, LeastElement
    <3>2. k # 0
      BY <2>2, <1>2 DEF RunOfNames
    <3>3. Good(k - 1)
      BY <3>1, <3>2
    <3> DEFINE id == StorageKey(pk, lo + k - 1)
    <3>4. /\ RunOfNames(pk, lo, lo + k) = RunOfNames(pk, lo, lo + (k - 1)) \cup {id}
          /\ RunOfNames(pk, lo, lo + k) \subseteq RunOfNames(pk, lo, hi)
      <4>1. k \in Nat /\ k <= hi - lo
        OBVIOUS
      <4>2. lo .. lo + k - 1 = (lo .. lo + (k - 1) - 1) \cup {lo + k - 1}
            /\ lo .. lo + k - 1 \subseteq lo .. hi - 1
        BY <3>2, <4>1
      <4> QED BY <4>2 DEF RunOfNames
    <3>5. DOMAIN f[k - 1].entries \subseteq F /\ id \in F
      BY <3>3, <3>4
    <3>6. f[k] = Store(f[k - 1], MaxSkip, id, DeriveMessageKey(ChainKeyAt(ck, k - 1)))
      BY <2>2, <3>2
    <3> HIDE DEF id
    <3>7. DOMAIN f[k].entries = DOMAIN f[k - 1].entries \cup {id}
      BY <3>5, <3>6, StoreEvictsNothing
    <3>8. Good(k)
      BY <3>3, <3>4, <3>7
    <3> QED BY <3>8
  <2>4. Good(hi - lo)
    BY <2>3, <1>2
  <2> QED BY <2>1, <2>4
<1> QED
  BY <1>1, <1>2

(* The shape of a receiver chain buffer.                                   *)
RingOK(r) ==
  /\ DOMAIN r = {"slots", "head", "count"}
  /\ r.head \in Slots /\ r.count \in 0 .. ReceiverChainsMax
  /\ DOMAIN r.slots = Slots

(* The chain at place i, counted from the oldest.                          *)
RingAt(r, i) == r.slots[SlotAt(r, i)]

(* An index runs past the end of the array at most once.                   *)
LEMMA WrapOnce ==
  ASSUME NEW a \in 0 .. 2 * ReceiverChainsMax - 1
  PROVE  a % ReceiverChainsMax = IF a < ReceiverChainsMax THEN a ELSE a - ReceiverChainsMax
BY CapacityAssumption

(* So the slot of place i is where one subtraction puts it.                *)
LEMMA SlotFacts ==
  ASSUME NEW h \in Slots, NEW i \in 0 .. ReceiverChainsMax
  PROVE  /\ (h + i) % ReceiverChainsMax =
              IF h + i < ReceiverChainsMax THEN h + i ELSE h + i - ReceiverChainsMax
         /\ (h + i) % ReceiverChainsMax \in Slots
<1>1. h + i \in 0 .. 2 * ReceiverChainsMax - 1
  BY CapacityAssumption DEF Slots
<1> DEFINE a == h + i
<1>a. a \in 0 .. 2 * ReceiverChainsMax - 1
  BY <1>1
<1>2. a % ReceiverChainsMax = IF a < ReceiverChainsMax THEN a ELSE a - ReceiverChainsMax
  <2> HIDE DEF a
  <2> QED BY <1>a, WrapOnce
<1> QED
  BY <1>1, <1>2, CapacityAssumption DEF Slots

(* Two places of the buffer lie in two slots.                              *)
LEMMA SlotsDistinct ==
  ASSUME NEW r, RingOK(r), NEW i \in 0 .. ReceiverChainsMax - 1,
         NEW j \in 0 .. ReceiverChainsMax - 1, SlotAt(r, i) = SlotAt(r, j)
  PROVE  i = j
<1>1. ASSUME NEW h \in Slots, (h + i) % ReceiverChainsMax = (h + j) % ReceiverChainsMax
      PROVE  i = j
  <2>1. i \in 0 .. ReceiverChainsMax /\ j \in 0 .. ReceiverChainsMax
    BY CapacityAssumption
  <2>2. /\ (h + i) % ReceiverChainsMax =
              IF h + i < ReceiverChainsMax THEN h + i ELSE h + i - ReceiverChainsMax
        /\ (h + j) % ReceiverChainsMax =
              IF h + j < ReceiverChainsMax THEN h + j ELSE h + j - ReceiverChainsMax
    BY <2>1, SlotFacts
  <2> QED
    BY <1>1, <2>2, CapacityAssumption DEF Slots
<1> QED
  BY <1>1 DEF SlotAt, RingOK

(* The lookup finds a chain that was put under the key.                    *)
LEMMA PositionFacts ==
  ASSUME NEW r, NEW pk, RingOK(r), HasChain(r, pk)
  PROVE  /\ PositionOf(r, pk) \in 0 .. r.count - 1
         /\ RingAt(r, PositionOf(r, pk)).pk = pk
         /\ GetChain(r, pk) = RingAt(r, PositionOf(r, pk))
<1> DEFINE P == {i \in 0 .. r.count - 1 : Holds(r, i, pk)}
<1>1. P \subseteq Nat /\ P # {}
  BY DEF HasChain, RingOK
<1>2. PICK i \in P : \A j \in P : i <= j
  <2> HIDE DEF P
  <2> QED BY <1>1, LeastElement
<1>3. i \in 0 .. r.count - 1 /\ Holds(r, i, pk) /\ \A j \in 0 .. i - 1 : ~Holds(r, j, pk)
  BY <1>2 DEF RingOK
<1>4. PositionOf(r, pk) \in 0 .. r.count - 1 /\ Holds(r, PositionOf(r, pk), pk)
  <2> HIDE DEF P
  <2> QED BY <1>3 DEF PositionOf
<1> QED
  BY <1>4 DEF Holds, RingAt, GetChain

(* PutChain replaces the chain found, and no other.                        *)
LEMMA PutChainFacts ==
  ASSUME NEW r, NEW pk, NEW ck, NEW nr, RingOK(r), HasChain(r, pk)
  PROVE  LET q == PutChain(r, pk, ck, nr)
         IN  /\ RingOK(q) /\ q.count = r.count /\ q.head = r.head
             /\ \A i \in 0 .. r.count - 1 :
                  RingAt(q, i) = IF i = PositionOf(r, pk) THEN [pk |-> pk, ck |-> ck, nr |-> nr]
                                 ELSE RingAt(r, i)
<1> DEFINE q == PutChain(r, pk, ck, nr)
           pos == PositionOf(r, pk)
<1>1. pos \in 0 .. r.count - 1 /\ pos \in 0 .. ReceiverChainsMax - 1
  BY PositionFacts, CapacityAssumption DEF RingOK
<1> HIDE DEF pos
<1>2. q = [r EXCEPT !.slots[SlotAt(r, pos)] = [pk |-> pk, ck |-> ck, nr |-> nr]]
  BY DEF PutChain, pos
<1>3. RingOK(q) /\ q.count = r.count /\ q.head = r.head
  BY <1>2 DEF RingOK
<1>4. SlotAt(r, pos) \in Slots
  BY <1>1, SlotFacts, CapacityAssumption DEF RingOK, SlotAt
<1>5. ASSUME NEW i \in 0 .. r.count - 1
      PROVE  RingAt(q, i) = IF i = pos THEN [pk |-> pk, ck |-> ck, nr |-> nr]
                            ELSE RingAt(r, i)
  <2>1. i \in 0 .. ReceiverChainsMax - 1
    BY CapacityAssumption DEF RingOK
  <2>2. SlotAt(q, i) = SlotAt(r, i) /\ SlotAt(r, i) \in Slots
    BY <2>1, <1>3, SlotFacts, CapacityAssumption DEF SlotAt, RingOK
  <2>3. i # pos => SlotAt(r, i) # SlotAt(r, pos)
    BY <2>1, <1>1, SlotsDistinct
  <2>4. q.slots = [r.slots EXCEPT ![SlotAt(r, pos)] = [pk |-> pk, ck |-> ck, nr |-> nr]]
    BY <1>2 DEF RingOK
  <2> HIDE DEF q
  <2> QED
    BY <1>4, <2>2, <2>3, <2>4 DEF RingAt, RingOK
<1> QED
  BY <1>3, <1>5 DEF pos

(* Push appends a new chain, after dropping the oldest when the buffer is  *)
(* full, and leaves the others in their order.                             *)
LEMMA PushFacts ==
  ASSUME NEW r, NEW pk, NEW ck, RingOK(r)
  PROVE  LET q == Push(r, pk, ck)
             out == IF r.count = ReceiverChainsMax THEN 1 ELSE 0
         IN  /\ RingOK(q) /\ q.count = r.count - out + 1
             /\ \A i \in 0 .. q.count - 2 : RingAt(q, i) = RingAt(r, i + out)
             /\ RingAt(q, q.count - 1) = NewChain(pk, ck)
<1> DEFINE q == Push(r, pk, ck)
           out == IF r.count = ReceiverChainsMax THEN 1 ELSE 0
           room == IF r.count = ReceiverChainsMax THEN EvictHead(r) ELSE r
           at == SlotAt(room, room.count)
<1>1. /\ RingOK(room) /\ room.count = r.count - out /\ room.count \in 0 .. ReceiverChainsMax - 1
      /\ \A i \in 0 .. room.count - 1 : RingAt(room, i) = RingAt(r, i + out)
  <2>1. CASE r.count # ReceiverChainsMax
    BY <2>1, CapacityAssumption DEF RingOK
  <2>2. CASE r.count = ReceiverChainsMax
    <3>1. /\ room = EvictHead(r) /\ out = 1 /\ r.head \in Slots
          /\ room.slots = [r.slots EXCEPT ![r.head] = EmptySlot]
          /\ room.head = (r.head + 1) % ReceiverChainsMax
          /\ room.count = r.count - 1
      BY <2>2 DEF EvictHead, RingOK
    <3>2. room.head \in Slots /\ room.head =
            IF r.head + 1 < ReceiverChainsMax THEN r.head + 1 ELSE r.head + 1 - ReceiverChainsMax
      <4>1. 1 \in 0 .. ReceiverChainsMax
        BY CapacityAssumption
      <4> HIDE DEF room
      <4> QED BY <3>1, <4>1, SlotFacts
    <3>3. RingOK(room)
      BY <3>1, <3>2, <2>2, CapacityAssumption DEF RingOK, EvictHead
    <3> HIDE DEF room, out
    <3>4. ASSUME NEW i \in 0 .. room.count - 1
          PROVE  RingAt(room, i) = RingAt(r, i + 1)
      <4>1. i \in 0 .. ReceiverChainsMax /\ i + 1 \in 0 .. ReceiverChainsMax - 1
            /\ i + 1 \in 0 .. ReceiverChainsMax
        BY <3>1, <2>2, CapacityAssumption
      <4>2. SlotAt(r, i + 1) = IF r.head + (i + 1) < ReceiverChainsMax THEN r.head + (i + 1)
                               ELSE r.head + (i + 1) - ReceiverChainsMax
        BY <3>1, <4>1, SlotFacts DEF SlotAt
      <4>3. SlotAt(room, i) = IF room.head + i < ReceiverChainsMax THEN room.head + i
                              ELSE room.head + i - ReceiverChainsMax
        BY <3>2, <4>1, SlotFacts DEF SlotAt
      <4>4. SlotAt(r, i + 1) \in Slots
        BY <3>1, <4>1, SlotFacts DEF SlotAt
      <4>5. r.head \in Nat /\ r.head < ReceiverChainsMax /\ ReceiverChainsMax \in Nat
        BY <3>1, CapacityAssumption DEF Slots
      <4>6. SlotAt(room, i) = SlotAt(r, i + 1)
        BY <3>2, <4>1, <4>2, <4>3, <4>5
      <4>7. SlotAt(r, i + 1) # r.head
        BY <4>1, <4>2, <4>5
      <4> QED
        BY <3>1, <4>4, <4>6, <4>7 DEF RingAt, RingOK
    <3> QED
      BY <2>2, <3>1, <3>3, <3>4, CapacityAssumption DEF RingOK
  <2> QED
    BY <2>1, <2>2
<1>2. q = [room EXCEPT !.slots[at] = NewChain(pk, ck), !.count = @ + 1]
  BY DEF Push
<1> HIDE DEF room, out
<1>3. at \in Slots
  BY <1>1, SlotFacts, CapacityAssumption DEF RingOK, SlotAt
<1>4. /\ RingOK(q) /\ q.count = room.count + 1 /\ q.head = room.head
      /\ q.slots = [room.slots EXCEPT ![at] = NewChain(pk, ck)]
  BY <1>1, <1>2, CapacityAssumption DEF RingOK
<1> HIDE DEF q
<1>5. RingAt(q, room.count) = NewChain(pk, ck)
  BY <1>3, <1>4, <1>1 DEF RingAt, SlotAt, RingOK
<1>6. ASSUME NEW i \in 0 .. room.count - 1
      PROVE  RingAt(q, i) = RingAt(room, i)
  <2>1. i \in 0 .. ReceiverChainsMax - 1 /\ i # room.count
    BY <1>1, CapacityAssumption
  <2>2. SlotAt(q, i) = SlotAt(room, i)
    BY <1>4 DEF SlotAt
  <2>3. SlotAt(room, i) # at
    BY <2>1, <1>1, SlotsDistinct
  <2>4. SlotAt(room, i) \in Slots
    BY <2>1, <1>1, SlotFacts, CapacityAssumption DEF RingOK, SlotAt
  <2> QED
    BY <1>1, <1>4, <2>2, <2>3, <2>4 DEF RingAt, RingOK
<1>7. \A i \in 0 .. q.count - 2 : RingAt(q, i) = RingAt(r, i + out)
  BY <1>1, <1>4, <1>6
<1>8. q.count - 1 = room.count
  BY <1>1, <1>4
<1> QED
  BY <1>1, <1>4, <1>5, <1>7, <1>8 DEF q, out

(* The lookup returns the place before which no chain has the key.         *)
LEMMA PositionIsFirst ==
  ASSUME NEW r, NEW pk, RingOK(r), NEW i \in 0 .. r.count - 1,
         Holds(r, i, pk), \A j \in 0 .. i - 1 : ~Holds(r, j, pk)
  PROVE  PositionOf(r, pk) = i
<1> DEFINE First(j) == Holds(r, j, pk) /\ \A k \in 0 .. j - 1 : ~Holds(r, k, pk)
<1>1. PositionOf(r, pk) = CHOOSE j \in 0 .. r.count - 1 : First(j)
  BY DEF PositionOf
<1>2. First(i)
  OBVIOUS
<1>3. r.count \in Nat
  BY CapacityAssumption DEF RingOK
<1>4. ASSUME NEW j \in 0 .. r.count - 1, First(j)
      PROVE  j = i
  BY <1>2, <1>3, <1>4
<1> HIDE DEF First
<1> QED
  BY <1>1, <1>2, <1>4

(* It is the first place that has it.                                      *)
LEMMA PositionHolds ==
  ASSUME NEW r, NEW pk, RingOK(r), HasChain(r, pk)
  PROVE  /\ PositionOf(r, pk) \in 0 .. r.count - 1
         /\ Holds(r, PositionOf(r, pk), pk)
         /\ \A j \in 0 .. PositionOf(r, pk) - 1 : ~Holds(r, j, pk)
<1> DEFINE P == {i \in 0 .. r.count - 1 : Holds(r, i, pk)}
<1>1. P \subseteq Nat /\ P # {}
  BY DEF HasChain, RingOK
<1>2. PICK i \in P : \A j \in P : i <= j
  <2> HIDE DEF P
  <2> QED BY <1>1, LeastElement
<1>3. i \in 0 .. r.count - 1 /\ Holds(r, i, pk) /\ \A j \in 0 .. i - 1 : ~Holds(r, j, pk)
  BY <1>2 DEF RingOK
<1> HIDE DEF P
<1> QED
  BY <1>3, PositionIsFirst

(* After PutChain the buffer finds the new chain under its key, and what   *)
(* it found before under every other key.                                  *)
LEMMA GetAfterPut ==
  ASSUME NEW r, NEW pk, NEW ck, NEW nr, RingOK(r), HasChain(r, pk), NEW x
  PROVE  LET q == PutChain(r, pk, ck, nr)
         IN  /\ HasChain(q, x) <=> HasChain(r, x)
             /\ GetChain(q, pk) = [pk |-> pk, ck |-> ck, nr |-> nr]
             /\ x # pk /\ HasChain(r, x) => GetChain(q, x) = GetChain(r, x)
<1> DEFINE q == PutChain(r, pk, ck, nr)
<1>1. /\ RingOK(q) /\ q.count = r.count
      /\ \A i \in 0 .. r.count - 1 :
           RingAt(q, i) = IF i = PositionOf(r, pk) THEN [pk |-> pk, ck |-> ck, nr |-> nr]
                          ELSE RingAt(r, i)
  BY PutChainFacts
<1>2. PositionOf(r, pk) \in 0 .. r.count - 1 /\ RingAt(r, PositionOf(r, pk)).pk = pk
  BY PositionFacts
<1> HIDE DEF q
<1>3. \A i \in 0 .. r.count - 1 : RingAt(q, i).pk = RingAt(r, i).pk
  BY <1>1, <1>2
<1>4. \A y : \A i \in 0 .. r.count - 1 : Holds(q, i, y) <=> Holds(r, i, y)
  BY <1>3 DEF Holds, RingAt
<1>5. \A y : HasChain(q, y) <=> HasChain(r, y)
  BY <1>1, <1>4 DEF HasChain
<1>6. ASSUME NEW y, HasChain(r, y)
      PROVE  PositionOf(q, y) = PositionOf(r, y) /\ PositionOf(r, y) \in 0 .. r.count - 1
             /\ RingAt(r, PositionOf(r, y)).pk = y
  <2>1. /\ PositionOf(r, y) \in 0 .. r.count - 1
        /\ Holds(r, PositionOf(r, y), y)
        /\ \A j \in 0 .. PositionOf(r, y) - 1 : ~Holds(r, j, y)
    BY <1>6, PositionHolds
  <2>2. r.count \in Nat
    BY CapacityAssumption DEF RingOK
  <2>3. /\ PositionOf(r, y) \in 0 .. q.count - 1
        /\ Holds(q, PositionOf(r, y), y)
        /\ \A j \in 0 .. PositionOf(r, y) - 1 : ~Holds(q, j, y)
    BY <1>1, <1>4, <2>1, <2>2
  <2>4. PositionOf(q, y) = PositionOf(r, y)
    BY <1>1, <2>3, PositionIsFirst
  <2> QED
    BY <2>1, <2>4 DEF Holds, RingAt
<1>7. GetChain(q, pk) = [pk |-> pk, ck |-> ck, nr |-> nr]
  BY <1>1, <1>6 DEF GetChain, RingAt
<1>8. ASSUME x # pk, HasChain(r, x) PROVE GetChain(q, x) = GetChain(r, x)
  <2>1. PositionOf(r, x) # PositionOf(r, pk)
    BY <1>2, <1>6, <1>8
  <2> QED
    BY <1>1, <1>6, <1>8, <2>1 DEF GetChain, RingAt
<1> QED
  BY <1>5, <1>7, <1>8 DEF q

(* After Push of a key the buffer did not hold, it finds the new chain.    *)
LEMMA GetAfterPush ==
  ASSUME NEW r, NEW pk, NEW ck, RingOK(r), ~HasChain(r, pk)
  PROVE  LET q == Push(r, pk, ck)
         IN  HasChain(q, pk) /\ GetChain(q, pk) = NewChain(pk, ck)
<1> DEFINE q == Push(r, pk, ck)
           out == IF r.count = ReceiverChainsMax THEN 1 ELSE 0
<1>1. /\ RingOK(q) /\ q.count = r.count - out + 1
      /\ \A i \in 0 .. q.count - 2 : RingAt(q, i) = RingAt(r, i + out)
      /\ RingAt(q, q.count - 1) = NewChain(pk, ck)
  BY PushFacts
<1> HIDE DEF q
<1>2. r.count \in Nat /\ out \in 0 .. 1 /\ (out = 1 => r.count > 0)
  BY CapacityAssumption DEF RingOK
<1> HIDE DEF out
<1>3. \A i \in 0 .. q.count - 2 : ~Holds(q, i, pk)
  <2> SUFFICES ASSUME NEW i \in 0 .. q.count - 2 PROVE ~Holds(q, i, pk)
    OBVIOUS
  <2>1. i + out \in 0 .. r.count - 1
    BY <1>1, <1>2
  <2>2. ~Holds(r, i + out, pk)
    BY <2>1 DEF HasChain
  <2> QED BY <1>1, <2>2 DEF Holds, RingAt
<1>4. q.count - 1 \in 0 .. q.count - 1 /\ Holds(q, q.count - 1, pk)
  BY <1>1, <1>2 DEF Holds, RingAt, NewChain
<1>5. \A j \in 0 .. (q.count - 1) - 1 : ~Holds(q, j, pk)
  BY <1>1, <1>2, <1>3
<1>6. PositionOf(q, pk) = q.count - 1
  BY <1>1, <1>4, <1>5, PositionIsFirst
<1> QED
  BY <1>1, <1>4, <1>6 DEF q, HasChain, GetChain, RingAt

(* The chains in the buffer.                                               *)
Held(r) == {RingAt(r, i) : i \in 0 .. r.count - 1}

(* A chain that is found is in the buffer, and one in the buffer is found. *)
LEMMA HeldFacts ==
  ASSUME NEW r, NEW pk, RingOK(r)
  PROVE  /\ HasChain(r, pk) => GetChain(r, pk) \in Held(r) /\ GetChain(r, pk).pk = pk
         /\ \A c \in Held(r) : HasChain(r, c.pk)
<1>1. HasChain(r, pk) => GetChain(r, pk) \in Held(r) /\ GetChain(r, pk).pk = pk
  BY PositionFacts DEF Held
<1>2. ASSUME NEW c \in Held(r) PROVE HasChain(r, c.pk)
  BY DEF Held, HasChain, Holds, RingAt
<1> QED
  BY <1>1, <1>2

(* PutChain brings one chain into the buffer.                              *)
LEMMA HeldAfterPut ==
  ASSUME NEW r, NEW pk, NEW ck, NEW nr, RingOK(r), HasChain(r, pk)
  PROVE  Held(PutChain(r, pk, ck, nr)) \subseteq
           Held(r) \cup {[pk |-> pk, ck |-> ck, nr |-> nr]}
<1> DEFINE q == PutChain(r, pk, ck, nr)
<1>1. /\ q.count = r.count
      /\ \A i \in 0 .. r.count - 1 :
           RingAt(q, i) = IF i = PositionOf(r, pk) THEN [pk |-> pk, ck |-> ck, nr |-> nr]
                          ELSE RingAt(r, i)
  BY PutChainFacts
<1> HIDE DEF q
<1>2. Held(q) \subseteq Held(r) \cup {[pk |-> pk, ck |-> ck, nr |-> nr]}
  BY <1>1 DEF Held
<1> QED
  BY <1>2 DEF q

(* So does Push.                                                           *)
LEMMA HeldAfterPush ==
  ASSUME NEW r, NEW pk, NEW ck, RingOK(r)
  PROVE  Held(Push(r, pk, ck)) \subseteq Held(r) \cup {NewChain(pk, ck)}
<1> DEFINE q == Push(r, pk, ck)
           out == IF r.count = ReceiverChainsMax THEN 1 ELSE 0
<1>1. /\ q.count = r.count - out + 1
      /\ \A i \in 0 .. q.count - 2 : RingAt(q, i) = RingAt(r, i + out)
      /\ RingAt(q, q.count - 1) = NewChain(pk, ck)
  BY PushFacts
<1> HIDE DEF q
<1>2. r.count \in Nat /\ out \in 0 .. 1 /\ (out = 1 => r.count > 0)
  BY CapacityAssumption DEF RingOK
<1> HIDE DEF out
<1>3. ASSUME NEW i \in 0 .. q.count - 1
      PROVE  RingAt(q, i) \in Held(r) \cup {NewChain(pk, ck)}
  <2>1. CASE i = q.count - 1
    BY <2>1, <1>1
  <2>2. CASE i # q.count - 1
    <3>1. i \in 0 .. q.count - 2 /\ i + out \in 0 .. r.count - 1
      BY <1>1, <1>2, <2>2
    <3> QED BY <1>1, <3>1 DEF Held
  <2> QED BY <2>1, <2>2
<1>4. Held(q) \subseteq Held(r) \cup {NewChain(pk, ck)}
  BY <1>3 DEF Held
<1> QED
  BY <1>4 DEF q
=============================================================================
