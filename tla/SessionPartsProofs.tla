------------------------- MODULE SessionPartsProofs -------------------------
(***************************************************************************)
(* The parts of a base session: its two containers implement what they     *)
(* promise (SkippedKeyStore a first-in first-out map, ReceiverChainRing    *)
(* the latest chains), and the receive loops of ReceiveLoops, run with     *)
(* counters of the machine's word, compute what Session says of them.      *)
(***************************************************************************)
EXTENDS ReceiveLoops, MCSessionStores, SessionLemmas, SequenceTheorems

-----------------------------------------------------------------------------
(* A function on 1 .. n is a sequence of length n.                         *)
LEMMA SequenceOnInterval ==
  \A S : \A n \in Nat : \A f \in [1 .. n -> S] : f \in Seq(S) /\ Len(f) = n
<1> SUFFICES ASSUME NEW S, NEW n \in Nat, NEW f \in [1 .. n -> S]
             PROVE  f \in Seq(S) /\ Len(f) = n
  OBVIOUS
<1>1. f \in Seq(S)
  BY SeqDef
<1>2. Len(f) \in Nat /\ 1 .. Len(f) = 1 .. n
  BY <1>1, LenProperties
<1> QED
  BY <1>1, <1>2

(* What Append returns, element by element.                                *)
LEMMA AppendIs ==
  ASSUME NEW S, NEW s \in Seq(S), NEW e
  PROVE  Append(s, e) = [k \in 1 .. Len(s) + 1 |-> IF k = Len(s) + 1 THEN e ELSE s[k]]
<1>1. PICK T : T = S \cup {e}
  OBVIOUS
<1>2. s \in Seq(T) /\ e \in T
  BY <1>1, SeqMonotonic
<1>3. /\ Append(s, e) \in Seq(T) /\ Len(Append(s, e)) = Len(s) + 1 /\ Len(s) \in Nat
      /\ Append(s, e)[Len(s) + 1] = e /\ \A k \in 1 .. Len(s) : Append(s, e)[k] = s[k]
  BY <1>2, AppendProperties, LenProperties
<1>4. Append(s, e) = [k \in 1 .. Len(s) + 1 |-> Append(s, e)[k]]
  BY <1>3, LenProperties
<1>5. \A k \in 1 .. Len(s) + 1 : k = Len(s) + 1 \/ k \in 1 .. Len(s)
  BY <1>3
<1> QED
  BY <1>3, <1>4, <1>5

-----------------------------------------------------------------------------
(* SkippedKeyStore speaks of its own instance of the operators of a        *)
(* storage; they are those of a session.                                   *)
LEMMA SameStorageOperators ==
  /\ \A st, n, id, mk : Stores!Store(st, n, id, mk) = Store(st, n, id, mk)
  /\ \A st, id : Stores!Consume(st, id) = Consume(st, id)
  /\ \A st, id : Stores!HasKey(st, id) <=> HasKey(st, id)
  /\ \A pk, n : Stores!StorageKey(pk, n) = StorageKey(pk, n)
  /\ Stores!NewStorage = NewStorage
<1>2. ASSUME NEW st, NEW n PROVE Stores!MakeRoom(st, n) = MakeRoom(st, n)
  BY DEF Stores!MakeRoom, MakeRoom, Stores!EvictOldest, EvictOldest, Stores!Without, Without,
         Stores!Cardinality, Cardinality
<1>3. ASSUME NEW st, NEW id, NEW mk PROVE Stores!Insert(st, id, mk) = Insert(st, id, mk)
  BY DEF Stores!Insert, Insert
<1>4. ASSUME NEW st, NEW n, NEW id, NEW mk PROVE Stores!Store(st, n, id, mk) = Store(st, n, id, mk)
  BY <1>2, <1>3 DEF Stores!Store, Store, Stores!HasKey, HasKey
<1>5. ASSUME NEW st, NEW id PROVE Stores!Consume(st, id) = Consume(st, id)
  <2>1. Stores!RemoveFirst(st.order, id) = RemoveFirst(st.order, id)
    BY DEF Stores!RemoveFirst, RemoveFirst, Stores!RemoveAt, RemoveAt,
           Stores!SelectInSeq, SelectInSeq, Stores!Min, Min
  <2> QED
    BY <2>1 DEF Stores!Consume, Consume, Stores!Without, Without
<1>6. ASSUME NEW st, NEW id PROVE Stores!HasKey(st, id) <=> HasKey(st, id)
  BY DEF Stores!HasKey, HasKey
<1>7. ASSUME NEW k, NEW n PROVE Stores!StorageKey(k, n) = StorageKey(k, n)
  BY DEF Stores!StorageKey, StorageKey
<1>8. Stores!NewStorage = NewStorage
  BY DEF Stores!NewStorage, NewStorage
<1> QED
  BY <1>4, <1>5, <1>6, <1>7, <1>8

(* A storage whose order lists each key of its map once, MaxSkip at most.  *)
StorageOK(st) ==
  /\ st.order \in Seq(DOMAIN st.entries)
  /\ \A x \in DOMAIN st.entries : \E k \in 1 .. Len(st.order) : st.order[k] = x
  /\ \A j, k \in 1 .. Len(st.order) : st.order[j] = st.order[k] => j = k
  /\ Len(st.order) <= MaxSkip

(* What the storage keeps, oldest first.                                   *)
Kept(st) == [k \in 1 .. Len(st.order) |-> <<st.order[k], st.entries[st.order[k]]>>]

(* Then the map has as many keys as the order.                             *)
LEMMA StorageSize ==
  ASSUME NEW st, StorageOK(st)
  PROVE  Len(st.order) \in Nat /\ Cardinality(DOMAIN st.entries) = Len(st.order)
<1> DEFINE n == Len(st.order)
           D == DOMAIN st.entries
<1>1. n \in Nat /\ st.order \in [1 .. n -> D]
  BY LenProperties DEF StorageOK
<1>2. st.order \in Bijection(1 .. n, D)
  BY <1>1 DEF StorageOK, Bijection, Injection, Surjection, IsInjective
<1> HIDE DEF n, D
<1>3. IsFiniteSet(1 .. n) /\ Cardinality(1 .. n) = n
  <2>1. IsFiniteSet(1 .. n) /\ Cardinality(1 .. n) = IF 1 > n THEN 0 ELSE n - 1 + 1
    BY <1>1, FS_Interval
  <2> QED
    BY <1>1, <2>1
<1>4. Cardinality(1 .. n) = Cardinality(D)
  BY <1>2, <1>3, FS_Bijection DEF ExistsBijection
<1> QED
  BY <1>1, <1>3, <1>4 DEF n, D

(* What it keeps is a sequence as long as the order.                       *)
LEMMA KeptFacts ==
  ASSUME NEW st, StorageOK(st)
  PROVE  /\ Kept(st) \in Seq({Kept(st)[k] : k \in 1 .. Len(st.order)})
         /\ Len(Kept(st)) = Len(st.order) /\ Len(st.order) \in Nat
         /\ DOMAIN Kept(st) = 1 .. Len(st.order)
         /\ \A k \in 1 .. Len(st.order) :
              Kept(st)[k] = <<st.order[k], st.entries[st.order[k]]>>
<1>1. PICK n, kept, S : n = Len(st.order) /\ kept = Kept(st) /\ S = {kept[k] : k \in 1 .. n}
  OBVIOUS
<1>2. n \in Nat
  BY <1>1, StorageSize
<1>3. /\ kept = [k \in 1 .. n |-> kept[k]]
      /\ \A k \in 1 .. n : kept[k] = <<st.order[k], st.entries[st.order[k]]>>
  BY <1>1 DEF Kept
<1>4. kept \in [1 .. n -> S]
  BY <1>1, <1>3
<1>5. kept \in Seq(S) /\ Len(kept) = n
  BY <1>2, <1>4, SequenceOnInterval
<1> QED
  BY <1>1, <1>2, <1>3, <1>5

(* A full storage makes room by dropping the oldest of what it keeps.      *)
LEMMA MakeRoomKept ==
  ASSUME NEW st, StorageOK(st)
  PROVE  LET room == MakeRoom(st, MaxSkip)
         IN  /\ StorageOK(room) /\ Len(room.order) < MaxSkip
             /\ DOMAIN room.entries \subseteq DOMAIN st.entries
             /\ Kept(room) = IF Len(Kept(st)) = MaxSkip THEN Tail(Kept(st)) ELSE Kept(st)
<1>0. MaxSkip \in Nat /\ MaxSkip # 0
  BY MaxSkipAssumption
<1>1. PICK n, D, room : n = Len(st.order) /\ D = DOMAIN st.entries /\ room = MakeRoom(st, MaxSkip)
  OBVIOUS
<1>2. n \in Nat /\ Cardinality(D) = n /\ n <= MaxSkip /\ st.order \in Seq(D)
  BY <1>1, StorageSize DEF StorageOK
<1>3. Len(Kept(st)) = n
  BY <1>1, KeptFacts
<1>4. CASE n # MaxSkip
  <2>1. room = st
    BY <1>0, <1>1, <1>2, <1>4 DEF MakeRoom
  <2> QED
    BY <1>0, <1>1, <1>2, <1>3, <1>4, <2>1
<1>5. CASE n = MaxSkip
  <2>1. room = EvictOldest(st)
    BY <1>1, <1>2, <1>5, <1>0 DEF MakeRoom
  <2>2. st.order # << >> /\ 1 \in 1 .. n
    <3>1. Len(st.order) # 0 /\ 1 \in 1 .. n
      BY <1>0, <1>1, <1>2, <1>5
    <3> QED
      BY <3>1
  <2>3. PICK oldest : oldest = st.order[1]
    OBVIOUS
  <2>4. /\ room.order = Tail(st.order) /\ DOMAIN room.entries = D \ {oldest}
        /\ \A x \in D \ {oldest} : room.entries[x] = st.entries[x]
    BY <1>1, <1>2, <2>1, <2>2, <2>3 DEF EvictOldest, Without
  <2>5. /\ Len(room.order) = n - 1 /\ room.order \in Seq(D)
        /\ \A k \in 1 .. n - 1 : room.order[k] = st.order[k + 1]
    <3>1. PICK order : order = st.order
      OBVIOUS
    <3>2. order \in Seq(D) /\ order # << >> /\ Len(order) = n
      BY <1>1, <1>2, <2>2, <3>1
    <3>3. /\ Tail(order) \in Seq(D) /\ Len(Tail(order)) = n - 1
          /\ \A k \in 1 .. n - 1 : Tail(order)[k] = order[k + 1]
      BY <3>2, HeadTailProperties
    <3> QED
      BY <2>4, <3>1, <3>3
  <2>6. \A k \in 1 .. n - 1 : k + 1 \in 1 .. n /\ k + 1 # 1 /\ st.order[k + 1] \in D \ {oldest}
    <3>1. \A k \in 1 .. n - 1 : k + 1 \in 1 .. n /\ k + 1 # 1
      BY <1>2
    <3>2. \A k \in 1 .. n : st.order[k] \in D
      BY <1>1, <1>2, ElementOfSeq
    <3>3. \A k \in 1 .. n : st.order[k] = st.order[1] => k = 1
      BY <1>1, <2>2 DEF StorageOK
    <3> QED
      BY <3>1, <3>2, <3>3, <2>3
  <2>7. StorageOK(room)
    <3>1. room.order \in Seq(DOMAIN room.entries)
      <4>1. n - 1 \in Nat
        BY <1>0, <1>2, <1>5
      <4>2. room.order = [k \in 1 .. n - 1 |-> room.order[k]]
        BY <2>5, LenProperties
      <4>3. room.order \in [1 .. n - 1 -> D \ {oldest}]
        BY <2>5, <2>6, <4>2
      <4> QED
        BY <2>4, <4>1, <4>3, SequenceOnInterval
    <3>2. ASSUME NEW x \in D \ {oldest} PROVE \E k \in 1 .. n - 1 : room.order[k] = x
      <4>1. PICK j \in 1 .. n : st.order[j] = x
        BY <1>1 DEF StorageOK
      <4>2. j # 1 /\ j - 1 \in 1 .. n - 1 /\ (j - 1) + 1 = j
        BY <1>2, <2>3, <4>1
      <4> QED
        BY <2>5, <4>1, <4>2
    <3>3. ASSUME NEW j \in 1 .. n - 1, NEW k \in 1 .. n - 1, room.order[j] = room.order[k] PROVE j = k
      <4>1. j + 1 = k + 1
        BY <1>1, <2>5, <2>6, <3>3 DEF StorageOK
      <4> QED
        BY <4>1
    <3> QED
      BY <1>0, <1>5, <2>4, <2>5, <3>1, <3>2, <3>3 DEF StorageOK
  <2>8. Kept(room) = Tail(Kept(st))
    <3>1. PICK S : S = {Kept(st)[k] : k \in 1 .. n}
      OBVIOUS
    <3>2. /\ Kept(st) \in Seq(S) /\ Len(Kept(st)) = n
          /\ \A k \in 1 .. n : Kept(st)[k] = <<st.order[k], st.entries[st.order[k]]>>
      BY <1>1, <3>1, KeptFacts
    <3>3. Kept(st) # << >>
      BY <1>0, <1>5, <3>2
    <3>4. /\ Len(Tail(Kept(st))) = n - 1 /\ Tail(Kept(st)) \in Seq(S)
          /\ \A k \in 1 .. n - 1 : Tail(Kept(st))[k] = Kept(st)[k + 1]
      BY <1>2, <3>2, <3>3
    <3>5. Tail(Kept(st)) = [k \in 1 .. n - 1 |-> Tail(Kept(st))[k]]
      BY <3>4, LenProperties
    <3>6. Kept(room) = [k \in 1 .. n - 1 |-> <<room.order[k], room.entries[room.order[k]]>>]
      BY <2>5 DEF Kept
    <3>7. ASSUME NEW k \in 1 .. n - 1
          PROVE  <<room.order[k], room.entries[room.order[k]]>> = Tail(Kept(st))[k]
      <4>1. k + 1 \in 1 .. n /\ st.order[k + 1] \in D \ {oldest}
        BY <2>6
      <4>2. room.order[k] = st.order[k + 1] /\ room.entries[room.order[k]] = st.entries[st.order[k + 1]]
        BY <2>4, <2>5, <4>1
      <4>3. Tail(Kept(st))[k] = <<st.order[k + 1], st.entries[st.order[k + 1]]>>
        BY <3>2, <3>4, <4>1
      <4> QED
        BY <4>2, <4>3
    <3> QED
      BY <3>5, <3>6, <3>7
  <2> QED
    BY <1>0, <1>1, <1>2, <1>3, <1>5, <2>4, <2>5, <2>7, <2>8
<1> QED
  BY <1>4, <1>5

(* A new key comes last of what a storage with room keeps.                 *)
LEMMA InsertKept ==
  ASSUME NEW st, StorageOK(st), Len(st.order) < MaxSkip, NEW id, ~HasKey(st, id), NEW mk
  PROVE  /\ StorageOK(Insert(st, id, mk))
         /\ Kept(Insert(st, id, mk)) = Append(Kept(st), <<id, mk>>)
<1>1. PICK n, D, q : n = Len(st.order) /\ D = DOMAIN st.entries /\ q = Insert(st, id, mk)
  OBVIOUS
<1>2. n \in Nat /\ n + 1 \in Nat /\ st.order \in Seq(D) /\ n < MaxSkip /\ MaxSkip \in Nat
  BY <1>1, StorageSize, MaxSkipAssumption DEF StorageOK
<1>3. /\ DOMAIN q.entries = D \cup {id} /\ q.entries[id] = mk
      /\ \A x \in D : q.entries[x] = st.entries[x]
      /\ id \notin D
  BY <1>1 DEF Insert, HasKey
<1>4. q.order = [k \in 1 .. n + 1 |-> IF k = n + 1 THEN id ELSE st.order[k]]
  <2>1. q.order = Append(st.order, id)
    BY <1>1 DEF Insert
  <2> QED
    BY <1>1, <1>2, <2>1, AppendIs
<1>5. \A k \in 1 .. n : st.order[k] \in D
  BY <1>1, <1>2, ElementOfSeq
<1>6. \A k \in 1 .. n + 1 : k = n + 1 \/ k \in 1 .. n
  BY <1>2
<1>7. q.order \in Seq(D \cup {id}) /\ Len(q.order) = n + 1
  <2>1. q.order \in [1 .. n + 1 -> D \cup {id}]
    BY <1>4, <1>5, <1>6
  <2> QED
    BY <1>2, <2>1, SequenceOnInterval
<1>8. StorageOK(q)
  <2>1. ASSUME NEW x \in D \cup {id} PROVE \E k \in 1 .. n + 1 : q.order[k] = x
    <3>1. CASE x = id
      <4>1. n + 1 \in 1 .. n + 1
        BY <1>2
      <4> QED
        BY <1>4, <3>1, <4>1
    <3>2. CASE x \in D
      <4>1. PICK k \in 1 .. n : st.order[k] = x
        BY <1>1, <3>2 DEF StorageOK
      <4>2. k \in 1 .. n + 1 /\ k # n + 1
        BY <1>2
      <4> QED
        BY <1>4, <4>1, <4>2
    <3> QED
      BY <3>1, <3>2
  <2>2. ASSUME NEW j \in 1 .. n + 1, NEW k \in 1 .. n + 1, q.order[j] = q.order[k] PROVE j = k
    <3>1. \A l \in 1 .. n : st.order[l] # id
      BY <1>3, <1>5
    <3>2. \A l, m \in 1 .. n : st.order[l] = st.order[m] => l = m
      BY <1>1 DEF StorageOK
    <3> QED
      BY <1>4, <1>6, <2>2, <3>1, <3>2
  <2> QED
    BY <1>2, <1>3, <1>7, <2>1, <2>2 DEF StorageOK
<1>9. Kept(q) = Append(Kept(st), <<id, mk>>)
  <2>1. /\ Kept(st) \in Seq({Kept(st)[k] : k \in 1 .. n}) /\ Len(Kept(st)) = n
        /\ \A k \in 1 .. n : Kept(st)[k] = <<st.order[k], st.entries[st.order[k]]>>
    BY <1>1, KeptFacts
  <2>2. Append(Kept(st), <<id, mk>>) =
          [k \in 1 .. n + 1 |-> IF k = n + 1 THEN <<id, mk>> ELSE Kept(st)[k]]
    BY <2>1, AppendIs
  <2>3. Kept(q) = [k \in 1 .. n + 1 |-> <<q.order[k], q.entries[q.order[k]]>>]
    BY <1>7 DEF Kept
  <2>4. ASSUME NEW k \in 1 .. n + 1
        PROVE  <<q.order[k], q.entries[q.order[k]]>> = IF k = n + 1 THEN <<id, mk>> ELSE Kept(st)[k]
    <3>1. CASE k = n + 1
      BY <1>3, <1>4, <3>1
    <3>2. CASE k # n + 1
      <4>1. k \in 1 .. n /\ q.order[k] = st.order[k] /\ st.order[k] \in D
        BY <1>4, <1>5, <1>6, <3>2
      <4> QED
        BY <1>3, <2>1, <3>2, <4>1
    <3> QED
      BY <3>1, <3>2
  <2> QED
    BY <2>2, <2>3, <2>4
<1> QED
  BY <1>1, <1>8, <1>9

(* RemoveAt shortens a sequence by the element at its position.            *)
LEMMA RemoveAtIs ==
  ASSUME NEW S, NEW s \in Seq(S), NEW k \in 1 .. Len(s)
  PROVE  RemoveAt(s, k) = [j \in 1 .. Len(s) - 1 |-> IF j < k THEN s[j] ELSE s[j + 1]]
<1>1. PICK n : n = Len(s)
  OBVIOUS
<1>2. n \in Nat /\ k \in 1 .. n /\ k \in Nat
  BY <1>1, LenProperties
<1>3. PICK a, b : a = SubSeq(s, 1, k - 1) /\ b = SubSeq(s, k + 1, n)
  OBVIOUS
<1>4. /\ a \in Seq(S) /\ Len(a) = k - 1 /\ \A j \in 1 .. k - 1 : a[j] = s[j]
      /\ b \in Seq(S) /\ Len(b) = n - k /\ \A j \in 1 .. n - k : b[j] = s[j + k]
  <2>1. /\ \A j \in 1 .. k - 1 : s[j] \in S
        /\ \A j \in k + 1 .. n : s[j] \in S
    BY <1>1, <1>2, ElementOfSeq
  <2>2. /\ a \in Seq(S) /\ Len(a) = IF 1 <= k - 1 THEN k - 1 - 1 + 1 ELSE 0
        /\ \A j \in 1 .. k - 1 - 1 + 1 : a[j] = s[1 + j - 1]
    BY <1>1, <1>2, <1>3, <2>1, SubSeqProperties
  <2>3. /\ b \in Seq(S) /\ Len(b) = IF k + 1 <= n THEN n - (k + 1) + 1 ELSE 0
        /\ \A j \in 1 .. n - (k + 1) + 1 : b[j] = s[(k + 1) + j - 1]
    BY <1>1, <1>2, <1>3, <2>1, SubSeqProperties
  <2> QED
    BY <1>2, <2>2, <2>3
<1>5. RemoveAt(s, k) = a \o b
  BY <1>1, <1>3 DEF RemoveAt
<1>6. /\ a \o b \in Seq(S) /\ Len(a \o b) = n - 1
      /\ \A j \in 1 .. n - 1 : (a \o b)[j] = IF j <= k - 1 THEN a[j] ELSE b[j - (k - 1)]
  <2>1. /\ a \o b \in Seq(S) /\ Len(a \o b) = Len(a) + Len(b)
        /\ \A j \in 1 .. Len(a) + Len(b) : (a \o b)[j] = IF j <= Len(a) THEN a[j] ELSE b[j - Len(a)]
    BY <1>4, ConcatProperties
  <2>2. Len(a) + Len(b) = n - 1 /\ Len(a) = k - 1
    BY <1>2, <1>4
  <2> QED
    BY <2>1, <2>2
<1>7. a \o b = [j \in 1 .. n - 1 |-> (a \o b)[j]]
  BY <1>6, LenProperties
<1>8. ASSUME NEW j \in 1 .. n - 1 PROVE (a \o b)[j] = IF j < k THEN s[j] ELSE s[j + 1]
  <2>1. CASE j < k
    <3>1. j <= k - 1 /\ j \in 1 .. k - 1
      BY <1>2, <2>1
    <3> QED
      BY <1>4, <1>6, <2>1, <3>1
  <2>2. CASE ~(j < k)
    <3>1. ~(j <= k - 1) /\ j - (k - 1) \in 1 .. n - k /\ (j - (k - 1)) + k = j + 1
      BY <1>2, <2>2
    <3> QED
      BY <1>4, <1>6, <2>2, <3>1
  <2> QED
    BY <2>1, <2>2
<1> QED
  BY <1>1, <1>5, <1>7, <1>8

(* Consume takes one element out of what the storage keeps.                *)
LEMMA ConsumeKept ==
  ASSUME NEW st, StorageOK(st), NEW id, HasKey(st, id)
  PROVE  /\ StorageOK(Consume(st, id))
         /\ \E k \in 1 .. MaxSkip :
              /\ k \in DOMAIN Kept(st)
              /\ Kept(Consume(st, id)) =
                   [j \in 1 .. Len(Kept(st)) - 1 |-> IF j < k THEN Kept(st)[j] ELSE Kept(st)[j + 1]]
<1>1. PICK n, D, q : n = Len(st.order) /\ D = DOMAIN st.entries /\ q = Consume(st, id)
  OBVIOUS
<1>2. /\ n \in Nat /\ st.order \in Seq(D) /\ n <= MaxSkip /\ MaxSkip \in Nat
      /\ \A j, k \in 1 .. n : st.order[j] = st.order[k] => j = k
      /\ \A x \in D : \E k \in 1 .. n : st.order[k] = x
  BY <1>1, StorageSize, MaxSkipAssumption DEF StorageOK
<1>3. PICK at \in 1 .. n : st.order[at] = id
  BY <1>1, <1>2 DEF HasKey
<1>4. SelectInSeq(st.order, LAMBDA v : v = id) = at
  <2>1. {k \in 1 .. Len(st.order) : st.order[k] = id} = {at}
    BY SMTT(30), <1>1, <1>2, <1>3
  <2>2. Min({at}) = at
    BY <1>2 DEF Min
  <2> QED
    BY <2>1, <2>2 DEF SelectInSeq
<1>5. q.order = RemoveAt(st.order, at)
  BY <1>1, <1>3, <1>4 DEF Consume, RemoveFirst
<1>6. q.order = [j \in 1 .. n - 1 |-> IF j < at THEN st.order[j] ELSE st.order[j + 1]]
  <2>1. st.order \in Seq(D) /\ at \in 1 .. Len(st.order)
    BY <1>1, <1>2, <1>3
  <2>2. RemoveAt(st.order, at) = [j \in 1 .. Len(st.order) - 1 |->
                                    IF j < at THEN st.order[j] ELSE st.order[j + 1]]
    BY <2>1, RemoveAtIs
  <2> QED
    BY <1>1, <1>5, <2>2
<1>7. DOMAIN q.entries = D \ {id} /\ \A x \in D \ {id} : q.entries[x] = st.entries[x]
  BY <1>1 DEF Consume, Without
<1>8. PICK from : from = [j \in 1 .. n - 1 |-> IF j < at THEN j ELSE j + 1]
  OBVIOUS
<1>9. /\ \A j \in 1 .. n - 1 : from[j] \in (1 .. n) \ {at} /\ q.order[j] = st.order[from[j]]
      /\ \A j, k \in 1 .. n - 1 : from[j] = from[k] => j = k
      /\ \A k \in (1 .. n) \ {at} : \E j \in 1 .. n - 1 : from[j] = k
  <2>1. /\ \A j \in 1 .. n - 1 : from[j] \in (1 .. n) \ {at}
        /\ \A j, k \in 1 .. n - 1 : from[j] = from[k] => j = k
    BY <1>2, <1>8
  <2>2. \A j \in 1 .. n - 1 : q.order[j] = st.order[from[j]]
    BY <1>6, <1>8
  <2>3. ASSUME NEW k \in (1 .. n) \ {at} PROVE \E j \in 1 .. n - 1 : from[j] = k
    <3>1. CASE k < at
      <4>1. k \in 1 .. n - 1 /\ from[k] = k
        BY <1>2, <1>8, <3>1
      <4> QED
        BY <4>1
    <3>2. CASE k > at
      <4>1. k - 1 \in 1 .. n - 1 /\ ~(k - 1 < at) /\ (k - 1) + 1 = k
        BY <1>2, <3>2
      <4>2. from[k - 1] = k
        BY <1>8, <4>1
      <4> QED
        BY <4>1, <4>2
    <3> QED
      BY <1>2, <3>1, <3>2
  <2> QED
    BY <2>1, <2>2, <2>3
<1>10. n - 1 \in Nat
  BY <1>2, <1>3
<1>11. \A j \in 1 .. n - 1 : st.order[from[j]] \in D \ {id}
  <2>1. \A k \in 1 .. n : st.order[k] \in D
    BY <1>1, <1>2, ElementOfSeq
  <2> QED
    BY <1>2, <1>3, <1>9, <2>1
<1>12. q.order \in Seq(D \ {id}) /\ Len(q.order) = n - 1
  <2>1. q.order \in [1 .. n - 1 -> D \ {id}]
    BY <1>6, <1>9, <1>11
  <2> QED
    BY <1>10, <2>1, SequenceOnInterval
<1>13. StorageOK(q)
  <2>1. ASSUME NEW x \in D \ {id} PROVE \E j \in 1 .. n - 1 : q.order[j] = x
    <3>1. PICK k \in 1 .. n : st.order[k] = x
      BY <1>2
    <3>2. k # at
      BY <1>3, <3>1
    <3>3. PICK j \in 1 .. n - 1 : from[j] = k
      BY <1>9, <3>2
    <3> QED
      BY <1>9, <3>1, <3>3
  <2>2. ASSUME NEW j \in 1 .. n - 1, NEW k \in 1 .. n - 1, q.order[j] = q.order[k] PROVE j = k
    <3>1. from[j] \in 1 .. n /\ from[k] \in 1 .. n /\ st.order[from[j]] = st.order[from[k]]
      BY <1>9, <2>2
    <3>2. from[j] = from[k]
      BY <1>2, <3>1
    <3> QED
      BY <1>9, <3>2
  <2> QED
    BY <1>2, <1>7, <1>12, <2>1, <2>2 DEF StorageOK
<1>14. /\ Len(Kept(st)) = n /\ DOMAIN Kept(st) = 1 .. n
       /\ \A k \in 1 .. n : Kept(st)[k] = <<st.order[k], st.entries[st.order[k]]>>
  BY <1>1, KeptFacts
<1>15. Kept(q) = [j \in 1 .. n - 1 |-> IF j < at THEN Kept(st)[j] ELSE Kept(st)[j + 1]]
  <2>1. Kept(q) = [j \in 1 .. n - 1 |-> <<q.order[j], q.entries[q.order[j]]>>]
    BY <1>12 DEF Kept
  <2>2. ASSUME NEW j \in 1 .. n - 1
        PROVE  <<q.order[j], q.entries[q.order[j]]>> = IF j < at THEN Kept(st)[j] ELSE Kept(st)[j + 1]
    <3>1. <<q.order[j], q.entries[q.order[j]]>> = Kept(st)[from[j]]
      <4>1. from[j] \in 1 .. n /\ q.order[j] = st.order[from[j]] /\ st.order[from[j]] \in D \ {id}
        BY <1>9, <1>11
      <4>2. q.entries[q.order[j]] = st.entries[st.order[from[j]]]
        BY <1>7, <4>1
      <4> QED
        BY <1>14, <4>1, <4>2
    <3>2. from[j] = IF j < at THEN j ELSE j + 1
      BY <1>8
    <3> QED
      BY <3>1, <3>2
  <2> QED
    BY <2>1, <2>2
<1>16. at \in 1 .. MaxSkip
  BY <1>2, <1>3
<1> QED
  BY <1>1, <1>3, <1>13, <1>14, <1>15, <1>16

(* A fresh storage keeps nothing.                                          *)
LEMMA NewStorageKept == StorageOK(NewStorage) /\ Kept(NewStorage) = << >>
BY MaxSkipAssumption DEF StorageOK, NewStorage, Kept

(* The storage is a first-in first-out map of at most MaxSkip keys: its    *)
(* map and its eviction order agree however Store and Get interleave, so a *)
(* full storage drops its oldest key and no other.                         *)
THEOREM StorageIsFifoMap == Stores!Spec => ImplementsFifoMap
<1>1. Stores!Init => StorageOK(storage)
  BY NewStorageKept, SameStorageOperators DEF Stores!Init
<1>2. \A pk, n : StorageKey(pk, n) = <<pk, n>>
  BY DEF StorageKey
<1>3. ASSUME NEW pk \in RatchetPK, NEW n \in MessageNumber, NEW mk \in MessageKey, StorageOK(storage),
             Stores!StoreKey(pk, n, mk)
      PROVE  /\ StorageOK(storage')
             /\ \/ storage' = storage
                \/ /\ <<pk, n>> \notin DOMAIN storage.entries
                   /\ Kept(storage') = Append(IF Len(Kept(storage)) = MaxSkip
                                              THEN Tail(Kept(storage)) ELSE Kept(storage),
                                              <<<<pk, n>>, mk>>)
  <2>1. storage' = Store(storage, MaxSkip, <<pk, n>>, mk)
    BY <1>2, <1>3, SameStorageOperators DEF Stores!StoreKey
  <2>2. CASE HasKey(storage, <<pk, n>>)
    BY <1>3, <2>1, <2>2 DEF Store
  <2>3. CASE ~HasKey(storage, <<pk, n>>)
    <3>1. PICK room : room = MakeRoom(storage, MaxSkip)
      OBVIOUS
    <3>2. storage' = Insert(room, <<pk, n>>, mk)
      BY <2>1, <2>3, <3>1, MaxSkipAssumption DEF Store
    <3>3. /\ StorageOK(room) /\ Len(room.order) < MaxSkip
          /\ DOMAIN room.entries \subseteq DOMAIN storage.entries
          /\ Kept(room) = IF Len(Kept(storage)) = MaxSkip
                          THEN Tail(Kept(storage)) ELSE Kept(storage)
      BY <1>3, <3>1, MakeRoomKept
    <3>4. ~HasKey(room, <<pk, n>>)
      BY <2>3, <3>3 DEF HasKey
    <3>5. StorageOK(storage') /\ Kept(storage') = Append(Kept(room), <<<<pk, n>>, mk>>)
      BY <3>2, <3>3, <3>4, InsertKept
    <3> QED
      BY <2>3, <3>3, <3>5 DEF HasKey
  <2> QED
    BY <2>2, <2>3
<1>4. ASSUME NEW pk, NEW n, StorageOK(storage),
             Stores!GetKey(pk, n) \/ Stores!TryAllHeaderKeys(pk, n)
      PROVE  HasKey(storage, <<pk, n>>) /\ storage' = Consume(storage, <<pk, n>>)
  <2>1. CASE Stores!GetKey(pk, n)
    BY <1>2, <2>1, SameStorageOperators DEF Stores!GetKey
  <2>2. CASE Stores!TryAllHeaderKeys(pk, n)
    BY <1>2, <2>2, SameStorageOperators DEF Stores!TryAllHeaderKeys, HasKey
  <2> QED
    BY <1>4, <2>1, <2>2
<1>5. StorageOK(storage) /\ [Stores!Next]_storage => StorageOK(storage)'
  <2> SUFFICES ASSUME StorageOK(storage), [Stores!Next]_storage PROVE StorageOK(storage')
    BY DEF StorageOK
  <2>1. CASE Stores!Clear
    BY <2>1, NewStorageKept, SameStorageOperators DEF Stores!Clear
  <2>2. ASSUME NEW pk \in RatchetPK, NEW n \in MessageNumber,
               Stores!GetKey(pk, n) \/ Stores!TryAllHeaderKeys(pk, n)
        PROVE  StorageOK(storage')
    BY <1>4, <2>2, ConsumeKept
  <2> QED
    BY <1>3, <2>1, <2>2 DEF Stores!Next
<1>6. Stores!Init => Stores!Fifo!Init
  BY NewStorageKept, SameStorageOperators DEF Stores!Init, Stores!Fifo!Init, Stores!Kept, Kept
<1>7. StorageOK(storage) /\ [Stores!Next]_storage => [Stores!Fifo!Next]_(Stores!Kept)
  <2> SUFFICES ASSUME StorageOK(storage), [Stores!Next]_storage
               PROVE  [Stores!Fifo!Next]_(Stores!Kept)
    OBVIOUS
  <2>1. ASSUME NEW pk \in RatchetPK, NEW n \in MessageNumber, NEW mk \in MessageKey,
               Stores!StoreKey(pk, n, mk)
        PROVE  storage' = storage \/ Stores!Fifo!Put(<<pk, n>>, mk)
    <3>1. Stores!Fifo!Ids = {Kept(storage)[k][1] : k \in DOMAIN Kept(storage)}
      BY DEF Stores!Fifo!Ids, Stores!Kept, Kept
    <3>2. Stores!Fifo!Ids \subseteq DOMAIN storage.entries
      <4>1. \A k \in DOMAIN Kept(storage) : Kept(storage)[k][1] = storage.order[k]
                                            /\ k \in 1 .. Len(storage.order)
        <5>1. /\ DOMAIN Kept(storage) = 1 .. Len(storage.order)
              /\ \A k \in 1 .. Len(storage.order) :
                   Kept(storage)[k] = <<storage.order[k], storage.entries[storage.order[k]]>>
          BY KeptFacts
        <5> QED
          BY <5>1
      <4>2. \A k \in 1 .. Len(storage.order) : storage.order[k] \in DOMAIN storage.entries
        BY ElementOfSeq DEF StorageOK
      <4> QED
        BY <3>1, <4>1, <4>2
    <3> QED
      BY <1>3, <2>1, <3>2 DEF Stores!Fifo!Put, Stores!Kept, Kept
  <2>2. ASSUME NEW pk \in RatchetPK, NEW n \in MessageNumber,
               Stores!GetKey(pk, n) \/ Stores!TryAllHeaderKeys(pk, n)
        PROVE  \E k \in 1 .. MaxSkip : Stores!Fifo!Take(k)
    <3>1. HasKey(storage, <<pk, n>>) /\ storage' = Consume(storage, <<pk, n>>)
      BY <1>4, <2>2
    <3>2. PICK k \in 1 .. MaxSkip :
              /\ k \in DOMAIN Kept(storage)
              /\ Kept(storage') =
                   [j \in 1 .. Len(Kept(storage)) - 1 |->
                      IF j < k THEN Kept(storage)[j] ELSE Kept(storage)[j + 1]]
      BY SMTT(30), <3>1, ConsumeKept
    <3> QED
      BY <3>2 DEF Stores!Fifo!Take, Stores!Kept, Kept
  <2>3. ASSUME Stores!Clear PROVE Stores!Fifo!Clear
    <3>1. Kept(storage') = << >>
      BY <2>3, NewStorageKept, SameStorageOperators DEF Stores!Clear
    <3> QED
      BY <3>1 DEF Stores!Fifo!Clear, Stores!Kept, Kept
  <2>4. \A pk \in RatchetPK, n \in MessageNumber : <<pk, n>> \in Stores!Ids
    BY DEF Stores!Ids
  <2>5. Stores!Fifo!Next \/ storage' = storage
    BY <2>1, <2>2, <2>3, <2>4 DEF Stores!Next, Stores!Fifo!Next
  <2>6. storage' = storage => Stores!Kept' = Stores!Kept
    BY DEF Stores!Kept
  <2> QED
    BY <2>5, <2>6
<1> QED
  BY <1>1, <1>5, <1>6, <1>7, PTL
     DEF Stores!Spec, ImplementsFifoMap, Stores!ImplementsFifoMap, Stores!Fifo!Spec

-----------------------------------------------------------------------------
(* ReceiverChainRing speaks of its own instance of the buffer's operators; *)
(* they are those of a session.                                            *)
LEMMA SameRingOperators ==
  /\ \A r, pk, c : Rings!Push(r, pk, c) = Push(r, pk, c)
  /\ \A r, pk, c, n : Rings!PutChain(r, pk, c, n) = PutChain(r, pk, c, n)
  /\ \A r, pk : Rings!HasChain(r, pk) <=> HasChain(r, pk)
  /\ \A r : Rings!ChainsOf(r) = ChainsOf(r)
  /\ Rings!NewReceiverChains = NewReceiverChains
<1>1. ASSUME NEW r, NEW k, NEW pk
      PROVE  /\ Rings!SlotAt(r, k) = SlotAt(r, k)
             /\ Rings!Holds(r, k, pk) <=> Holds(r, k, pk)
             /\ Rings!HasChain(r, pk) <=> HasChain(r, pk)
  <2>1. Rings!HasChain(r, pk) <=> HasChain(r, pk)
    BY DEF Rings!HasChain, HasChain, Rings!Holds, Holds, Rings!SlotAt, SlotAt
  <2>2. Rings!SlotAt(r, k) = SlotAt(r, k) /\ (Rings!Holds(r, k, pk) <=> Holds(r, k, pk))
    BY DEF Rings!Holds, Holds, Rings!SlotAt, SlotAt
  <2> QED
    BY <2>1, <2>2
<1>2. ASSUME NEW r, NEW pk PROVE Rings!PositionOf(r, pk) = PositionOf(r, pk)
  BY DEF Rings!PositionOf, PositionOf, Rings!Holds, Holds, Rings!SlotAt, SlotAt
<1>3. ASSUME NEW r, NEW pk, NEW c PROVE Rings!Push(r, pk, c) = Push(r, pk, c)
  <2>1. Rings!EvictHead(r) = EvictHead(r) /\ Rings!NewChain(pk, c) = NewChain(pk, c)
    BY DEF Rings!EvictHead, EvictHead, Rings!EmptySlot, EmptySlot, Rings!NewChain, NewChain
  <2> QED
    BY <1>1, <2>1 DEF Rings!Push, Push
<1>4. ASSUME NEW r, NEW pk, NEW c, NEW n PROVE Rings!PutChain(r, pk, c, n) = PutChain(r, pk, c, n)
  BY <1>1, <1>2 DEF Rings!PutChain, PutChain
<1>5. ASSUME NEW r PROVE Rings!ChainsOf(r) = ChainsOf(r)
  BY <1>1 DEF Rings!ChainsOf, ChainsOf
<1>6. Rings!NewReceiverChains = NewReceiverChains
  BY DEF Rings!NewReceiverChains, NewReceiverChains, Rings!Slots, Slots, Rings!EmptySlot, EmptySlot
<1> QED
  BY <1>1, <1>3, <1>4, <1>5, <1>6

(* The chains of a good buffer are a sequence of that length.              *)
LEMMA ChainsFacts ==
  ASSUME NEW r, RingOK(r)
  PROVE  /\ ChainsOf(r) \in Seq(Held(r)) /\ Len(ChainsOf(r)) = r.count /\ r.count \in Nat
         /\ r.count <= ReceiverChainsMax
         /\ \A k \in 1 .. r.count : ChainsOf(r)[k] = RingAt(r, k - 1)
<1>1. r.count \in Nat /\ r.count <= ReceiverChainsMax
  BY CapacityAssumption DEF RingOK
<1>2. \A k \in 1 .. r.count : k - 1 \in 0 .. r.count - 1
  BY <1>1
<1>3. ChainsOf(r) = [k \in 1 .. r.count |-> RingAt(r, k - 1)]
  BY DEF ChainsOf, RingAt
<1>4. \A k \in 1 .. r.count : RingAt(r, k - 1) \in Held(r)
  BY <1>2 DEF Held
<1> HIDE DEF Held
<1>5. ChainsOf(r) \in [1 .. r.count -> Held(r)]
  BY <1>3, <1>4
<1>6. ChainsOf(r) \in Seq(Held(r)) /\ Len(ChainsOf(r)) = r.count
  BY <1>1, <1>5, SequenceOnInterval
<1> QED
  BY <1>1, <1>3, <1>6

(* Push adds a chain to the sequence, and drops its oldest when it is full.*)
LEMMA PushChains ==
  ASSUME NEW r, NEW pk, NEW c, RingOK(r)
  PROVE  ChainsOf(Push(r, pk, c)) =
           Append(IF Len(ChainsOf(r)) = ReceiverChainsMax THEN Tail(ChainsOf(r)) ELSE ChainsOf(r),
                  NewChain(pk, c))
<1>1. PICK q, out, s : q = Push(r, pk, c) /\ s = ChainsOf(r)
                       /\ out = IF r.count = ReceiverChainsMax THEN 1 ELSE 0
  OBVIOUS
<1>2. /\ RingOK(q) /\ q.count = r.count - out + 1
      /\ \A k \in 0 .. q.count - 2 : RingAt(q, k) = RingAt(r, k + out)
      /\ RingAt(q, q.count - 1) = NewChain(pk, c)
  BY <1>1, PushFacts
<1>3. /\ s \in Seq(Held(r)) /\ Len(s) = r.count /\ r.count \in Nat
      /\ \A k \in 1 .. r.count : s[k] = RingAt(r, k - 1)
  BY <1>1, ChainsFacts
<1>4. /\ Len(ChainsOf(q)) = q.count /\ q.count \in Nat
      /\ ChainsOf(q) = [k \in 1 .. q.count |-> RingAt(q, k - 1)]
  BY <1>2, ChainsFacts DEF ChainsOf, RingAt
<1>5. PICK rest : rest = IF Len(s) = ReceiverChainsMax THEN Tail(s) ELSE s
  OBVIOUS
<1>6. /\ rest \in Seq(Held(r)) /\ Len(rest) = r.count - out
      /\ \A k \in 1 .. r.count - out : rest[k] = RingAt(r, k - 1 + out)
  <2>1. CASE r.count = ReceiverChainsMax
    <3>1. out = 1 /\ rest = Tail(s) /\ s # << >>
      BY <1>1, <1>3, <1>5, <2>1, CapacityAssumption
    <3>2. rest \in Seq(Held(r)) /\ Len(rest) = r.count - 1
          /\ \A k \in 1 .. r.count - 1 : rest[k] = s[k + 1]
      BY <1>3, <3>1
    <3>3. \A k \in 1 .. r.count - 1 : s[k + 1] = RingAt(r, k)
      BY <1>3
    <3> QED
      BY <1>3, <3>1, <3>2, <3>3
  <2>2. CASE r.count # ReceiverChainsMax
    BY <1>1, <1>3, <1>5, <2>2
  <2> QED
    BY <2>1, <2>2
<1>7. Append(rest, NewChain(pk, c)) =
        [k \in 1 .. q.count |-> IF k = q.count THEN NewChain(pk, c) ELSE rest[k]]
  <2>1. Len(rest) + 1 = q.count
    BY <1>1, <1>2, <1>3, <1>6
  <2> QED
    BY <1>6, <2>1, AppendIs
<1>8. ASSUME NEW k \in 1 .. q.count
      PROVE  RingAt(q, k - 1) = IF k = q.count THEN NewChain(pk, c) ELSE rest[k]
  <2>1. CASE k = q.count
    BY <1>2, <2>1
  <2>2. CASE k # q.count
    <3>1. k - 1 \in 0 .. q.count - 2 /\ k \in 1 .. r.count - out
      BY <1>1, <1>2, <1>3, <1>4, <2>2
    <3> QED
      BY <1>2, <1>6, <2>2, <3>1
  <2> QED
    BY <2>1, <2>2
<1> QED
  BY <1>1, <1>4, <1>5, <1>7, <1>8

(* PutChain changes the chain of its ratchet key and no other.             *)
LEMMA PutChains ==
  ASSUME NEW r, NEW pk, NEW c, NEW n, RingOK(r), HasChain(r, pk)
  PROVE  \E k \in 1 .. ReceiverChainsMax :
           /\ k \in DOMAIN ChainsOf(r)
           /\ ChainsOf(PutChain(r, pk, c, n)) =
                [ChainsOf(r) EXCEPT ![k] = [pk |-> ChainsOf(r)[k].pk, ck |-> c, nr |-> n]]
<1>1. PICK q, at : q = PutChain(r, pk, c, n) /\ at = PositionOf(r, pk)
  OBVIOUS
<1>2. /\ RingOK(q) /\ q.count = r.count
      /\ \A k \in 0 .. r.count - 1 :
           RingAt(q, k) = IF k = at THEN [pk |-> pk, ck |-> c, nr |-> n] ELSE RingAt(r, k)
  BY <1>1, PutChainFacts
<1>3. at \in 0 .. r.count - 1 /\ RingAt(r, at).pk = pk
  BY <1>1, PositionFacts
<1>4. /\ r.count \in Nat /\ r.count <= ReceiverChainsMax
      /\ ChainsOf(r) = [k \in 1 .. r.count |-> RingAt(r, k - 1)]
      /\ ChainsOf(q) = [k \in 1 .. r.count |-> RingAt(q, k - 1)]
  BY <1>2, ChainsFacts DEF ChainsOf, RingAt
<1>5. at + 1 \in 1 .. r.count /\ at + 1 \in 1 .. ReceiverChainsMax /\ (at + 1) - 1 = at
  BY <1>3, <1>4, CapacityAssumption
<1>6. \A k \in 1 .. r.count : k - 1 \in 0 .. r.count - 1 /\ (k - 1 = at <=> k = at + 1)
  BY <1>3, <1>4
<1>7. ChainsOf(r)[at + 1].pk = pk
  BY <1>3, <1>4, <1>5
<1>8. ChainsOf(q) =
        [ChainsOf(r) EXCEPT ![at + 1] = [pk |-> ChainsOf(r)[at + 1].pk, ck |-> c, nr |-> n]]
  <2>1. PICK new : new = [pk |-> pk, ck |-> c, nr |-> n]
    OBVIOUS
  <2>2. [ChainsOf(r) EXCEPT ![at + 1] = new] =
          [k \in 1 .. r.count |-> IF k = at + 1 THEN new ELSE RingAt(r, k - 1)]
    BY <1>4
  <2>3. \A k \in 1 .. r.count : RingAt(q, k - 1) = IF k = at + 1 THEN new ELSE RingAt(r, k - 1)
    BY <1>2, <1>6, <2>1
  <2>4. ChainsOf(q) = [ChainsOf(r) EXCEPT ![at + 1] = new]
    BY <1>4, <2>2, <2>3
  <2> QED
    BY <1>7, <2>1, <2>4
<1> QED
  BY <1>1, <1>4, <1>5, <1>8

(* A fresh buffer is good, and has no chains.                              *)
LEMMA NewRing == RingOK(NewReceiverChains) /\ ChainsOf(NewReceiverChains) = << >>
BY CapacityAssumption DEF RingOK, NewReceiverChains, ChainsOf, Slots

(* The buffer keeps the latest ReceiverChainsMax chains, oldest first, one *)
(* for each ratchet key, wherever its window has wrapped to.               *)
THEOREM RingKeepsLatestChains == Rings!Spec => ImplementsLatestChains
<1>1. Rings!Init => RingOK(ring)
  BY NewRing, SameRingOperators DEF Rings!Init
<1>2. RingOK(ring) /\ [Rings!Next]_ring => RingOK(ring)'
  <2> SUFFICES ASSUME RingOK(ring), [Rings!Next]_ring PROVE RingOK(ring')
    BY DEF RingOK
  <2>1. ASSUME NEW pk, NEW c, Rings!PushChain(pk, c) PROVE RingOK(ring')
    BY <2>1, PushFacts, SameRingOperators DEF Rings!PushChain
  <2>2. ASSUME NEW pk, NEW c, NEW n, Rings!AdvanceChain(pk, c, n) PROVE RingOK(ring')
    BY <2>2, PutChainFacts, SameRingOperators DEF Rings!AdvanceChain
  <2>3. CASE Rings!Clear
    BY <2>3, NewRing, SameRingOperators DEF Rings!Clear
  <2> QED
    BY <2>1, <2>2, <2>3 DEF Rings!Next
<1>3. Rings!Init => Rings!Latest!Init
  BY NewRing, SameRingOperators DEF Rings!Init, Rings!Latest!Init
<1>4. RingOK(ring) /\ [Rings!Next]_ring => [Rings!Latest!Next]_(Rings!ChainsOf(ring))
  <2> SUFFICES ASSUME RingOK(ring), [Rings!Next]_ring
               PROVE  [Rings!Latest!Next]_(Rings!ChainsOf(ring))
    OBVIOUS
  <2>0. Rings!ChainsOf(ring) = ChainsOf(ring) /\ Rings!ChainsOf(ring') = ChainsOf(ring')
    BY SameRingOperators
  <2>1. ASSUME NEW pk \in PK, NEW c \in CK, Rings!PushChain(pk, c) PROVE Rings!Latest!Add(pk, c)
    <3>1. ~HasChain(ring, pk) /\ ring' = Push(ring, pk, c)
      BY <2>1, SameRingOperators DEF Rings!PushChain
    <3>2. ASSUME NEW k \in DOMAIN ChainsOf(ring) PROVE ChainsOf(ring)[k].pk # pk
      <4>1. k \in 1 .. ring.count /\ ring.count \in Nat
        BY <3>2, ChainsFacts
      <4>2. k - 1 \in 0 .. ring.count - 1 /\ ~Holds(ring, k - 1, pk)
        BY <3>1, <4>1 DEF HasChain
      <4> QED
        BY <4>1, <4>2, ChainsFacts DEF Holds, RingAt
    <3>3. ChainsOf(ring') =
            Append(IF Len(ChainsOf(ring)) = ReceiverChainsMax
                   THEN Tail(ChainsOf(ring)) ELSE ChainsOf(ring), NewChain(pk, c))
      BY <3>1, PushChains
    <3> QED
      BY <2>0, <3>2, <3>3 DEF Rings!Latest!Add, NewChain
  <2>2. ASSUME NEW pk \in PK, NEW c \in CK, NEW n \in Nr, Rings!AdvanceChain(pk, c, n)
        PROVE  \E k \in 1 .. ReceiverChainsMax : Rings!Latest!Advance(k, c, n)
    <3>1. HasChain(ring, pk) /\ ring' = PutChain(ring, pk, c, n)
      BY <2>2, SameRingOperators DEF Rings!AdvanceChain
    <3> QED
      BY <2>0, <3>1, PutChains DEF Rings!Latest!Advance
  <2>3. ASSUME Rings!Clear PROVE Rings!Latest!Clear
    BY <2>0, <2>3, NewRing, SameRingOperators DEF Rings!Clear, Rings!Latest!Clear
  <2> QED
    BY <2>1, <2>2, <2>3 DEF Rings!Next, Rings!Latest!Next
<1> QED
  BY <1>1, <1>2, <1>3, <1>4, PTL DEF Rings!Spec, ImplementsLatestChains, Rings!ImplementsLatestChains, Rings!Latest!Spec

-----------------------------------------------------------------------------
(* The solutions of the equation of StoreKeys for two lengths agree as far *)
(* as both go.                                                             *)
LEMMA KeysAfterAgree ==
  ASSUME NEW st, NEW pk, NEW key, NEW lo \in Int, NEW len \in Nat, NEW m \in Nat, len <= m,
         NEW f, KeysAfterEq(f, st, pk, key, lo, len), NEW g, KeysAfterEq(g, st, pk, key, lo, m)
  PROVE  \A k \in 0 .. len : f[k] = g[k]
<1> DEFINE Bad == {k \in 0 .. len : f[k] # g[k]}
<1> SUFFICES ASSUME Bad # {} PROVE FALSE
  OBVIOUS
<1>1. PICK k \in Bad : \A j \in Bad : k <= j
  <2>1. Bad \subseteq Nat
    OBVIOUS
  <2> HIDE DEF Bad
  <2> QED
    BY <2>1, LeastElement
<1>2. /\ f[k] = IF k = 0 THEN st ELSE Store(f[k - 1], MaxSkip, StorageKey(pk, lo + k - 1),
                                            DeriveMessageKey(ChainKeyAt(key, k - 1)))
      /\ g[k] = IF k = 0 THEN st ELSE Store(g[k - 1], MaxSkip, StorageKey(pk, lo + k - 1),
                                            DeriveMessageKey(ChainKeyAt(key, k - 1)))
  <2>1. k \in 0 .. len /\ k \in 0 .. m
    OBVIOUS
  <2> QED
    BY <2>1 DEF KeysAfterEq
<1>3. k # 0
  BY <1>2
<1>4. k - 1 \in 0 .. len /\ k - 1 < k
  BY <1>3
<1>5. f[k - 1] = g[k - 1]
  BY <1>1, <1>4
<1> QED
  BY <1>2, <1>5

(* So the loop of StoreKeys, one message longer, stores one key more.      *)
LEMMA StoreKeysStep ==
  ASSUME NEW st, NEW pk, NEW key, NEW lo \in Int, NEW hi \in Int, lo <= hi
  PROVE  StoreKeys(st, pk, key, lo, hi + 1) =
           Store(StoreKeys(st, pk, key, lo, hi), MaxSkip, StorageKey(pk, hi),
                 DeriveMessageKey(ChainKeyAt(key, hi - lo)))
<1>1. PICK len : len = hi - lo
  OBVIOUS
<1>2. len \in Nat /\ len + 1 \in Nat /\ (hi + 1) - lo = len + 1 /\ lo + (len + 1) - 1 = hi
  BY <1>1
<1>3. PICK f, g : f = KeysAfter(st, pk, key, lo, len) /\ g = KeysAfter(st, pk, key, lo, len + 1)
  OBVIOUS
<1>4. KeysAfterEq(f, st, pk, key, lo, len) /\ KeysAfterEq(g, st, pk, key, lo, len + 1)
  BY <1>2, <1>3, KeysAfterDef
<1>5. StoreKeys(st, pk, key, lo, hi) = f[len]
  <2>1. CASE len = 0
    <3>1. f[0] = st
      BY <1>2, <1>4, <2>1 DEF KeysAfterEq
    <3> QED
      BY <1>1, <2>1, <3>1 DEF StoreKeys
  <2>2. CASE len # 0
    BY <1>1, <1>2, <1>3, <2>2 DEF StoreKeys, KeysAfter
  <2> QED
    BY <2>1, <2>2
<1>6. StoreKeys(st, pk, key, lo, hi + 1) = g[len + 1]
  <2>1. ~(hi + 1 <= lo)
    OBVIOUS
  <2> QED
    BY <1>2, <1>3, <2>1 DEF StoreKeys, KeysAfter
<1>7. g[len] = f[len]
  BY <1>2, <1>4, KeysAfterAgree
<1>8. g[len + 1] = Store(g[len], MaxSkip, StorageKey(pk, hi), DeriveMessageKey(ChainKeyAt(key, len)))
  <2>1. len + 1 \in 0 .. len + 1 /\ len + 1 # 0 /\ (len + 1) - 1 = len
    BY <1>2
  <2> QED
    BY <1>2, <1>4, <2>1 DEF KeysAfterEq
<1> QED
  BY <1>1, <1>5, <1>6, <1>7, <1>8

(* Changing a chain twice is changing it once.                             *)
LEMMA PutTwice ==
  ASSUME NEW r, NEW pk, NEW a, NEW m, NEW b, NEW n, RingOK(r), HasChain(r, pk)
  PROVE  PutChain(PutChain(r, pk, a, m), pk, b, n) = PutChain(r, pk, b, n)
<1>1. PICK q, at : q = PutChain(r, pk, a, m) /\ at = PositionOf(r, pk)
  OBVIOUS
<1>2. /\ RingOK(q) /\ q.count = r.count /\ q.head = r.head
      /\ \A k \in 0 .. r.count - 1 :
           RingAt(q, k) = IF k = at THEN [pk |-> pk, ck |-> a, nr |-> m] ELSE RingAt(r, k)
  BY <1>1, PutChainFacts
<1>3. /\ at \in 0 .. r.count - 1 /\ Holds(r, at, pk)
      /\ \A j \in 0 .. at - 1 : ~Holds(r, j, pk)
  BY <1>1, PositionHolds
<1>4. \A k \in 0 .. r.count - 1 : Holds(q, k, pk) <=> Holds(r, k, pk)
  BY <1>2, <1>3 DEF Holds, RingAt
<1>5. r.count \in Nat
  BY CapacityAssumption DEF RingOK
<1>6. at \in 0 .. q.count - 1 /\ Holds(q, at, pk) /\ \A j \in 0 .. at - 1 : ~Holds(q, j, pk)
  BY <1>2, <1>3, <1>4, <1>5
<1>7. PositionOf(q, pk) = at
  BY <1>2, <1>6, PositionIsFirst
<1>8. SlotAt(q, at) = SlotAt(r, at)
  BY <1>2 DEF SlotAt
<1>9. q = [r EXCEPT !.slots[SlotAt(r, at)] = [pk |-> pk, ck |-> a, nr |-> m]]
  BY <1>1 DEF PutChain
<1>10. PutChain(q, pk, b, n) = [q EXCEPT !.slots[SlotAt(r, at)] = [pk |-> pk, ck |-> b, nr |-> n]]
  BY <1>7, <1>8 DEF PutChain
<1>11. PutChain(r, pk, b, n) = [r EXCEPT !.slots[SlotAt(r, at)] = [pk |-> pk, ck |-> b, nr |-> n]]
  BY <1>1 DEF PutChain
<1>12. PICK A, B, x : /\ A = [pk |-> pk, ck |-> a, nr |-> m] /\ B = [pk |-> pk, ck |-> b, nr |-> n]
                      /\ x = SlotAt(r, at)
  OBVIOUS
<1>13. "slots" \in DOMAIN r
  BY DEF RingOK
<1>14. q.slots = [r.slots EXCEPT ![x] = A]
  BY <1>9, <1>12, <1>13
<1>15. [q.slots EXCEPT ![x] = B] = [r.slots EXCEPT ![x] = B]
  BY <1>14
<1>16. q = [r EXCEPT !.slots = [r.slots EXCEPT ![x] = A]]
  BY <1>9, <1>12
<1>17. [q EXCEPT !.slots = [q.slots EXCEPT ![x] = B]] = [r EXCEPT !.slots = [r.slots EXCEPT ![x] = B]]
  BY <1>15, <1>16
<1> QED
  BY <1>1, <1>10, <1>11, <1>12, <1>17

-----------------------------------------------------------------------------
(* A chain at its own number: its key has moved as often as it counts.     *)
ChainOK(c) ==
  /\ c = [pk |-> c.pk, ck |-> [root |-> c.ck.root, step |-> c.nr], nr |-> c.nr]
  /\ c.nr \in Word

(* A session whose receiver chains are all of that kind.                   *)
SessionOK(s) ==
  /\ s = [f \in SessionFields |-> s[f]]
  /\ RingOK(s.recvChains)
  /\ \A c \in Held(s.recvChains) : ChainOK(c)

(* The ratchet step a call takes, if any.                                  *)
Ratchet(b, h) ==
  IF IsNewEpoch(b, h) THEN PerformDHRatchetRecv(b, h) ELSE Outcome("ok", b, NoKey)

(* The three ways through ratchetReceiveKey.                               *)
LEMMA ReceiveCases ==
  ASSUME NEW b, NEW h
  PROVE  /\ HasKey(b.mkSkipped, SkippedId(h)) =>
              RatchetReceiveKey(b, h) = TakeSkipped(b, SkippedId(h))
         /\ ~HasKey(b.mkSkipped, SkippedId(h)) /\ Ratchet(b, h).err # "ok" =>
              RatchetReceiveKey(b, h) = Ratchet(b, h)
         /\ ~HasKey(b.mkSkipped, SkippedId(h)) /\ Ratchet(b, h).err = "ok" =>
              RatchetReceiveKey(b, h) = ReceiveOnChain(Ratchet(b, h).s, h)
BY DEF RatchetReceiveKey, Ratchet, SkippedId

(* The chain found under a ratchet key is good, and is that key's.         *)
LEMMA FoundChain ==
  ASSUME NEW s, NEW pk, SessionOK(s), HasChain(s.recvChains, pk)
  PROVE  ChainOK(GetChain(s.recvChains, pk)) /\ GetChain(s.recvChains, pk).pk = pk
<1>1. GetChain(s.recvChains, pk) \in Held(s.recvChains) /\ GetChain(s.recvChains, pk).pk = pk
  BY HeldFacts DEF SessionOK
<1> QED
  BY <1>1 DEF SessionOK

(* rollback() restores the whole snapshot.                                 *)
LEMMA RollbackToSnapshot ==
  ASSUME NEW s, NEW b, SessionOK(b), s = [f \in SessionFields |-> s[f]]
  PROVE  Rollback(s, b) = b
BY DEF Rollback, SessionOK, SessionFields

(* A changed store, root key or sending half leaves a session good.        *)
LEMMA SameChainsOK ==
  ASSUME NEW s, NEW t, SessionOK(s), t = [f \in SessionFields |-> t[f]],
         t.recvChains = s.recvChains
  PROVE  SessionOK(t)
BY DEF SessionOK

(* So does a chain that moves on, and a new one.                           *)
LEMMA ChangedChainsOK ==
  ASSUME NEW s, NEW t, SessionOK(s), t = [f \in SessionFields |-> t[f]],
         NEW pk, NEW root,
         \/ /\ t.recvChains = Push(s.recvChains, pk, FirstChainKey(root))
         \/ /\ HasChain(s.recvChains, pk)
            /\ \E n \in Word :
                 t.recvChains = PutChain(s.recvChains, pk, [root |-> root, step |-> n], n)
  PROVE  SessionOK(t)
<1>0. 0 \in Word
  BY WordAssumption DEF Word
<1>1. CASE t.recvChains = Push(s.recvChains, pk, FirstChainKey(root))
  <2>1. RingOK(t.recvChains)
    BY <1>1, PushFacts DEF SessionOK
  <2>2. Held(t.recvChains) \subseteq Held(s.recvChains) \cup {NewChain(pk, FirstChainKey(root))}
    BY <1>1, HeldAfterPush DEF SessionOK
  <2>3. ChainOK(NewChain(pk, FirstChainKey(root)))
    BY <1>0 DEF ChainOK, NewChain, FirstChainKey
  <2> QED
    BY <2>1, <2>2, <2>3 DEF SessionOK
<1>2. ASSUME HasChain(s.recvChains, pk), NEW n \in Word,
             t.recvChains = PutChain(s.recvChains, pk, [root |-> root, step |-> n], n)
      PROVE  SessionOK(t)
  <2>1. RingOK(t.recvChains)
    BY <1>2, PutChainFacts DEF SessionOK
  <2>2. Held(t.recvChains) \subseteq
          Held(s.recvChains) \cup {[pk |-> pk, ck |-> [root |-> root, step |-> n], nr |-> n]}
    BY <1>2, HeldAfterPut DEF SessionOK
  <2>3. ChainOK([pk |-> pk, ck |-> [root |-> root, step |-> n], nr |-> n])
    BY DEF ChainOK
  <2> QED
    BY <2>1, <2>2, <2>3 DEF SessionOK
<1> QED
  BY <1>1, <1>2

-----------------------------------------------------------------------------
(* Where a call stands, from its snapshot b and its header h: the session  *)
(* is s, and a loop is at number n with chain key `key`.                   *)
NoSkippedKey(b, h) == ~HasKey(b.mkSkipped, SkippedId(h))

AtLookup(b, h, s) == s = b /\ HasKey(b.mkSkipped, SkippedId(h))
AtRatchet(b, h, s) == s = b /\ NoSkippedKey(b, h) /\ IsNewEpoch(b, h)

(* The loop over the superseded chain: the keys below n are stored.        *)
AtPrev(b, h, s, n, key) ==
  /\ NoSkippedKey(b, h) /\ IsNewEpoch(b, h) /\ VerifyPublicKey(h.pk)
  /\ ~(HasPrevChain(b) /\ TooManySkipped(PrevNr(b), h.pn))
  /\ n \in Word /\ PrevNr(b) <= n /\ (n = PrevNr(b) \/ n <= h.pn)
  /\ key = IF HasPrevChain(b) THEN ChainKeyAt(GetChain(b.recvChains, b.dhr).ck, n - PrevNr(b))
           ELSE NoChainKey
  /\ s = [b EXCEPT !.rk = DeriveRoot(b.rk, SharedSecret(b.dhs, h.pk)),
                   !.mkSkipped = SkipPrevChain(b, n)]

(* The ratchet step is taken, if there was one to take.                    *)
Ready(b, h) ==
  /\ NoSkippedKey(b, h) /\ Ratchet(b, h).err = "ok"
  /\ SessionOK(Ratchet(b, h).s) /\ Ratchet(b, h).s.dhs = b.dhs
AtChain(b, h, s) == Ready(b, h) /\ s = Ratchet(b, h).s

(* The loop over the chain of the header: s is m with the keys below n     *)
(* stored and the chain at n.                                              *)
SkippedTo(m, h, n, s) ==
  LET c == GetChain(m.recvChains, h.pk)
  IN  IF n = c.nr THEN s = m
      ELSE s = [m EXCEPT !.mkSkipped = StoreKeys(@, h.pk, c.ck, c.nr, n),
                         !.recvChains = PutChain(@, h.pk, ChainKeyAt(c.ck, n - c.nr), n)]

AtSkip(b, h, s, n) ==
  LET m == Ratchet(b, h).s
      c == GetChain(m.recvChains, h.pk)
  IN  /\ Ready(b, h) /\ HasChain(m.recvChains, h.pk) /\ ~TooManySkipped(c.nr, h.n)
      /\ n \in Word /\ c.nr <= n /\ (n = c.nr \/ n <= h.n)
      /\ SkippedTo(m, h, n, s)

(* The loop that derives the key: before it, or past its one iteration. A  *)
(* header with the last number of the word is past no number, and its loop *)
(* does not end.                                                           *)
AtDerive(b, h, s, n, key, res) ==
  LET m == Ratchet(b, h).s
      c == GetChain(m.recvChains, h.pk)
  IN  \E at \in Word :
        /\ AtSkip(b, h, s, at) /\ at >= h.n /\ key = ChainKeyAt(c.ck, at - c.nr)
        /\ \/ n = at /\ res = NoResult
           \/ /\ at = h.n /\ n = h.n + 1 /\ res = [err |-> "ok", key |-> DeriveMessageKey(key)]
Endless(h) == h.n = WordSize - 1

LoopInv ==
  /\ length \in [RatchetKeys -> 1 .. LongestChain]
  /\ hdr.n \in Word /\ hdr.pn \in Word /\ SessionOK(before)
  /\ pc = "idle" => SessionOK(session) /\ result = NoResult
  /\ pc = "lookup" => AtLookup(before, hdr, session) /\ result = NoResult
  /\ pc = "ratchet" => AtRatchet(before, hdr, session) /\ result = NoResult
  /\ pc = "prev" => AtPrev(before, hdr, session, i, ck) /\ result = NoResult
  /\ pc = "chain" => AtChain(before, hdr, session) /\ result = NoResult
  /\ pc = "skip" => (\E n \in Word : AtSkip(before, hdr, session, n)) /\ result = NoResult
  /\ pc = "derive" =>
       i \in Word /\ (Endless(hdr) \/ AtDerive(before, hdr, session, i, ck, result))
  /\ pc = "returned" => SessionOK(session) /\ CallComputesDecrypt

(* What a step of a call keeps as it is.                                   *)
SameCall == before' = before /\ hdr' = hdr /\ length' = length
Answered == pc' = "returned" /\ SessionOK(session') /\ CallComputesDecrypt'

(* A call that has answered as it should is in order.                      *)
LEMMA AnsweredKeepsInv == ASSUME LoopInv, SameCall, Answered PROVE LoopInv'
<1>1. (/\ length \in [RatchetKeys -> 1 .. LongestChain] /\ hdr.n \in Word /\ hdr.pn \in Word)'
  BY DEF LoopInv, SameCall, RatchetKeys, Word
<1>2. SessionOK(before)'
  <2>1. SessionOK(before) /\ before' = before
    BY DEF LoopInv, SameCall
  <2> QED
    BY <2>1
<1>3. pc' = "returned" /\ (SessionOK(session) /\ CallComputesDecrypt)'
  BY DEF Answered
<1> QED
  BY <1>1, <1>2, <1>3 DEF LoopInv

(* A call that ends in an error of the session operators answers as they.  *)
LEMMA ErrorAnswers ==
  ASSUME SessionOK(before), session = [f \in SessionFields |-> session[f]], SameCall,
         NEW err, err # "ok", ReturnError(err), RatchetReceiveKey(before, hdr).err = err
  PROVE  Answered
<1>1. /\ session' = before /\ result' = [err |-> err, key |-> NoChainKey] /\ pc' = "returned"
  BY RollbackToSnapshot DEF ReturnError, Return
<1>2. RatchetReceiveKey(before, hdr)' = RatchetReceiveKey(before, hdr)
  BY DEF SameCall
<1> QED
  BY <1>1, <1>2 DEF Answered, SameCall, CallComputesDecrypt

(* And so does one that comes to open the body.                            *)
LEMMA OpenedAnswers ==
  ASSUME SessionOK(before), session = [f \in SessionFields |-> session[f]], SameCall,
         NEW s, NEW key, OpenBody(s, key), RatchetReceiveKey(before, hdr) = Outcome("ok", s, key),
         SessionOK(s), s.dhs = before.dhs, session.dhs = before.dhs
  PROVE  Answered
<1>1. session'.dhs = session.dhs => Authentic' = Authentic
  BY DEF SameCall, Authentic, SecondKeyInUse
<1>2. ASSUME session'.dhs = session.dhs
      PROVE  (hdr' \in Authentic' /\ key.step = hdr'.n) <=> OpensBody(key)
  BY <1>1, <1>2 DEF SameCall, OpensBody
<1>3. PICK got : got = Outcome("ok", s, key)
  OBVIOUS
<1>4. RatchetReceiveKey(before, hdr)' = got /\ got.err = "ok" /\ got.s = s /\ got.key = key
  BY <1>3 DEF SameCall, Outcome
<1>5. CASE OpensBody(key) /\ Return(s, "ok", key)
  <2>1. session' = s /\ result' = [err |-> "ok", key |-> key] /\ pc' = "returned"
    BY <1>5 DEF Return
  <2>2. hdr' \in Authentic' /\ key.step = hdr'.n
    BY <1>2, <1>5, <2>1
  <2> QED
    BY <1>4, <2>1, <2>2 DEF Answered, CallComputesDecrypt, OpensBody
<1>6. CASE ~OpensBody(key) /\ ReturnError("ErrAuthFailure")
  <2>1. /\ session' = before /\ pc' = "returned"
        /\ result' = [err |-> "ErrAuthFailure", key |-> NoChainKey]
    BY <1>6, RollbackToSnapshot DEF ReturnError, Return
  <2>2. ~(hdr' \in Authentic' /\ key.step = hdr'.n)
    BY <1>2, <1>6, <2>1
  <2> QED
    BY <1>4, <2>1, <2>2 DEF Answered, SameCall, CallComputesDecrypt, OpensBody
<1> QED
  BY <1>5, <1>6 DEF OpenBody

-----------------------------------------------------------------------------
(* The steps of a call, one after the other.                               *)
LEMMA LookupStep == ASSUME LoopInv, UseSkippedKey PROVE LoopInv'
<1>1. SameCall /\ AtLookup(before, hdr, session) /\ SessionOK(before)
  BY DEF LoopInv, UseSkippedKey, SameCall
<1>2. PICK s, key : /\ s = [before EXCEPT !.mkSkipped = Consume(@, SkippedId(hdr))]
                    /\ key = Lookup(before.mkSkipped, SkippedId(hdr))
  OBVIOUS
<1>3. OpenBody(s, key)
  BY <1>1, <1>2 DEF UseSkippedKey, AtLookup
<1>4. RatchetReceiveKey(before, hdr) = Outcome("ok", s, key)
  BY <1>1, <1>2, ReceiveCases DEF AtLookup, TakeSkipped
<1>5. /\ SessionOK(s) /\ s.dhs = before.dhs /\ session.dhs = before.dhs
      /\ session = [f \in SessionFields |-> session[f]]
  <2>1. s = [f \in SessionFields |-> s[f]] /\ s.recvChains = before.recvChains /\ s.dhs = before.dhs
    BY <1>1, <1>2 DEF SessionOK, SessionFields
  <2> QED
    BY <1>1, <2>1, SameChainsOK DEF AtLookup, SessionOK
<1>6. Answered
  BY <1>1, <1>3, <1>4, <1>5, OpenedAnswers
<1> QED
  BY <1>1, <1>6, AnsweredKeepsInv

(* The call enters the loop over the superseded chain, or fails before it. *)
LEMMA RatchetStep == ASSUME LoopInv, EnterRatchet PROVE LoopInv'
<1>1. /\ SameCall /\ AtRatchet(before, hdr, session) /\ SessionOK(before) /\ pc = "ratchet"
      /\ hdr.n \in Word /\ hdr.pn \in Word /\ result = NoResult
  BY DEF LoopInv, EnterRatchet, SameCall
<1>2. session = before /\ session = [f \in SessionFields |-> session[f]]
  BY <1>1 DEF AtRatchet, SessionOK
<1>3. Ratchet(before, hdr) = PerformDHRatchetRecv(before, hdr) /\ NoSkippedKey(before, hdr)
  BY <1>1 DEF AtRatchet, Ratchet
<1>4. PrevNr(before) \in Word
  <2>1. 0 \in Word
    BY WordAssumption DEF Word
  <2>2. HasPrevChain(before) => GetChain(before.recvChains, before.dhr).nr \in Word
    BY <1>1, FoundChain DEF HasPrevChain, ChainOK
  <2> QED
    BY <2>1, <2>2 DEF PrevNr
<1>5. PrevGap /\ hdr.pn - PrevNr(session) > MaxSkip <=>
        HasPrevChain(before) /\ TooManySkipped(PrevNr(before), hdr.pn)
  BY <1>2 DEF PrevGap, TooManySkipped
<1>6. ASSUME NEW err, err # "ok", ReturnError(err), PerformDHRatchetRecv(before, hdr).err = err
      PROVE  LoopInv'
  <2>1. RatchetReceiveKey(before, hdr).err = err
    BY <1>3, <1>6, ReceiveCases DEF NoSkippedKey
  <2> QED
    BY <1>1, <1>2, <1>6, <2>1, ErrorAnswers, AnsweredKeepsInv
<1>7. CASE ~VerifyPublicKey(hdr.pk) /\ ReturnError("ErrInvalidInput")
  <2>1. PerformDHRatchetRecv(before, hdr).err = "ErrInvalidInput"
    BY <1>7 DEF PerformDHRatchetRecv, Failure, Outcome
  <2> QED
    BY <1>6, <1>7, <2>1
<1>8. CASE /\ VerifyPublicKey(hdr.pk) /\ PrevGap /\ hdr.pn - PrevNr(session) > MaxSkip
           /\ ReturnError("ErrMaxSkipExceeded")
  <2>1. PerformDHRatchetRecv(before, hdr).err = "ErrMaxSkipExceeded"
    BY <1>5, <1>8 DEF PerformDHRatchetRecv, Failure, Outcome
  <2> QED
    BY <1>6, <1>8, <2>1
<1>9. CASE /\ VerifyPublicKey(hdr.pk) /\ (PrevGap => hdr.pn - PrevNr(session) <= MaxSkip)
           /\ session' = [session EXCEPT !.rk = DeriveRoot(@, SharedSecret(session.dhs, hdr.pk))]
           /\ i' = PrevNr(session)
           /\ ck' = IF HasPrevChain(session) THEN GetChain(session.recvChains, session.dhr).ck
                    ELSE NoChainKey
           /\ pc' = "prev" /\ UNCHANGED result
  <2>1. ~(HasPrevChain(before) /\ TooManySkipped(PrevNr(before), hdr.pn))
    <3>1. MaxSkip \in Nat /\ PrevNr(before) \in Int /\ hdr.pn \in Int
      BY <1>1, <1>4, MaxSkipAssumption DEF Word
    <3> QED
      BY <1>2, <1>5, <1>9, <3>1
  <2>2. i' = PrevNr(before) /\ PrevNr(before) <= PrevNr(before)
    BY <1>2, <1>4, <1>9 DEF Word
  <2>3. ck' = IF HasPrevChain(before)
              THEN ChainKeyAt(GetChain(before.recvChains, before.dhr).ck, i' - PrevNr(before))
              ELSE NoChainKey
    <3>1. CASE HasPrevChain(before)
      <4>1. PICK c : c = GetChain(before.recvChains, before.dhr)
        OBVIOUS
      <4>2. ChainOK(c)
        BY <1>1, <3>1, <4>1, FoundChain DEF HasPrevChain
      <4>3. i' - PrevNr(before) = 0
        BY <1>4, <2>2 DEF Word
      <4>4. c.ck = [root |-> c.ck.root, step |-> c.nr] /\ c.nr \in Int
        BY <4>2 DEF ChainOK, Word
      <4>5. ChainKeyAt(c.ck, 0) = c.ck
        BY <4>4 DEF ChainKeyAt
      <4> QED
        BY <1>2, <1>9, <3>1, <4>1, <4>3, <4>5
    <3>2. CASE ~HasPrevChain(before)
      BY <1>2, <1>9, <3>2
    <3> QED
      BY <3>1, <3>2
  <2>4. session' = [before EXCEPT !.rk = DeriveRoot(before.rk, SharedSecret(before.dhs, hdr.pk)),
                                  !.mkSkipped = SkipPrevChain(before, i')]
    <3>1. SkipPrevChain(before, i') = before.mkSkipped
      BY <1>4, <2>2 DEF SkipPrevChain, StoreKeys, Word
    <3> QED
      BY <1>1, <1>2, <1>9, <3>1 DEF SessionOK, SessionFields
  <2>5. AtPrev(before, hdr, session', i', ck')
    BY <1>1, <1>4, <1>9, <2>1, <2>2, <2>3, <2>4 DEF AtPrev, AtRatchet
  <2>6. pc' = "prev" /\ result' = result
    BY <1>9
  <2> QED
    BY <1>1, <2>5, <2>6 DEF LoopInv, SameCall
<1> QED
  BY <1>7, <1>8, <1>9 DEF EnterRatchet

(* One more key of the superseded chain.                                   *)
LEMMA PrevStep == ASSUME LoopInv, PrevIteration PROVE LoopInv'
<1>1. /\ SameCall /\ AtPrev(before, hdr, session, i, ck) /\ SessionOK(before)
      /\ pc' = "prev" /\ result' = result /\ result = NoResult /\ hdr.pn \in Word
      /\ ck # NoChainKey /\ i < hdr.pn /\ ck' = NextKey(ck) /\ i' = Succ(i)
      /\ session' = [session EXCEPT !.mkSkipped =
                       Store(@, MaxSkip, StorageKey(session.dhr, i), DeriveMessageKey(ck))]
  BY DEF LoopInv, PrevIteration, SameCall
<1>2. PICK c, lo : c = GetChain(before.recvChains, before.dhr) /\ lo = PrevNr(before)
  OBVIOUS
<1>3. /\ HasPrevChain(before) /\ ck = ChainKeyAt(c.ck, i - lo)
      /\ i \in Word /\ lo <= i
      /\ session = [before EXCEPT !.rk = DeriveRoot(before.rk, SharedSecret(before.dhs, hdr.pk)),
                                  !.mkSkipped = SkipPrevChain(before, i)]
  BY <1>1, <1>2 DEF AtPrev
<1>4. ChainOK(c) /\ lo = c.nr
  BY <1>1, <1>2, <1>3, FoundChain DEF HasPrevChain, PrevNr
<1>5. lo \in Nat /\ i \in Nat /\ hdr.pn \in Nat /\ hdr.pn <= WordSize - 1 /\ WordSize \in Nat
      /\ i + 1 <= hdr.pn
  BY <1>1, <1>3, <1>4, WordAssumption DEF ChainOK, Word
<1>6. i' = i + 1 /\ i + 1 \in Word /\ lo <= i + 1
  <2>1. (i + 1) % WordSize = i + 1
    BY <1>5
  <2> QED
    BY <1>1, <1>3, <1>5, <2>1 DEF Succ, Word
<1>7. ck' = ChainKeyAt(c.ck, (i + 1) - lo)
  <2>1. c.ck = [root |-> c.ck.root, step |-> lo]
    BY <1>4 DEF ChainOK
  <2>2. ck = [root |-> c.ck.root, step |-> i]
    BY <1>3, <1>5, <2>1 DEF ChainKeyAt
  <2>3. i # Beyond
    BY <1>5 DEF Beyond
  <2>4. ck' = [root |-> c.ck.root, step |-> i + 1]
    BY <1>1, <2>2, <2>3 DEF NextKey, DeriveNextChainKey
  <2>5. c.ck.step + ((i + 1) - lo) = i + 1
    BY <1>5, <2>1
  <2> QED
    BY <2>4, <2>5 DEF ChainKeyAt
<1>8. SkipPrevChain(before, i + 1) =
        Store(SkipPrevChain(before, i), MaxSkip, StorageKey(before.dhr, i), DeriveMessageKey(ck))
  <2>1. StoreKeys(before.mkSkipped, before.dhr, c.ck, lo, i + 1) =
          Store(StoreKeys(before.mkSkipped, before.dhr, c.ck, lo, i), MaxSkip,
                StorageKey(before.dhr, i), DeriveMessageKey(ChainKeyAt(c.ck, i - lo)))
    BY <1>3, <1>5, StoreKeysStep
  <2> QED
    BY <1>2, <1>3, <2>1 DEF SkipPrevChain
<1>9. session' = [before EXCEPT !.rk = DeriveRoot(before.rk, SharedSecret(before.dhs, hdr.pk)),
                                !.mkSkipped = SkipPrevChain(before, i')]
  <2>1. session.mkSkipped = SkipPrevChain(before, i) /\ session.dhr = before.dhr
    BY <1>1, <1>3 DEF SessionOK, SessionFields
  <2>2. session' = [session EXCEPT !.mkSkipped = SkipPrevChain(before, i + 1)]
    BY <1>1, <1>8, <2>1
  <2> QED
    BY <1>1, <1>3, <1>6, <2>2 DEF SessionOK, SessionFields
<1>10. AtPrev(before, hdr, session', i', ck')
  BY <1>1, <1>2, <1>3, <1>5, <1>6, <1>7, <1>9 DEF AtPrev
<1> QED
  BY <1>1, <1>10 DEF LoopInv, SameCall

(* What the ratchet step leaves when it succeeds.                          *)
Ratcheted(b, h, root) ==
  [b EXCEPT !.rk = root, !.mkSkipped = SkipPrevChain(b, h.pn),
            !.recvChains = Push(b.recvChains, h.pk, FirstChainKey(root)),
            !.dhr = h.pk, !.dhRSet = TRUE, !.dhRatchetPerformed = TRUE]

(* The ratchet step succeeds with that, and its chains are good.           *)
LEMMA RatchetResult ==
  ASSUME NEW b, NEW h, SessionOK(b), VerifyPublicKey(h.pk),
         ~(HasPrevChain(b) /\ TooManySkipped(PrevNr(b), h.pn)), IsNewEpoch(b, h)
  PROVE  /\ Ratchet(b, h).err = "ok"
         /\ Ratchet(b, h).s = Ratcheted(b, h, DeriveRoot(b.rk, SharedSecret(b.dhs, h.pk)))
         /\ SessionOK(Ratchet(b, h).s) /\ Ratchet(b, h).s.dhs = b.dhs
<1>1. PICK root : root = DeriveRoot(b.rk, SharedSecret(b.dhs, h.pk))
  OBVIOUS
<1>2. PICK t : t = Ratcheted(b, h, root)
  OBVIOUS
<1>3. Ratchet(b, h) = Outcome("ok", t, NoKey)
  BY <1>1, <1>2 DEF Ratchet, Ratcheted, PerformDHRatchetRecv, SessionOK, SessionFields
<1>4. /\ t = [f \in SessionFields |-> t[f]] /\ t.dhs = b.dhs
      /\ t.recvChains = Push(b.recvChains, h.pk, FirstChainKey(root))
  BY <1>2 DEF Ratcheted, SessionOK, SessionFields
<1>5. SessionOK(t)
  BY <1>4, ChangedChainsOK
<1> QED
  BY <1>1, <1>2, <1>3, <1>4, <1>5 DEF Outcome

(* The loop over the superseded chain is done: the ratchet step is what    *)
(* PerformDHRatchetRecv says.                                              *)
LEMMA PrevDoneStep == ASSUME LoopInv, PrevDone PROVE LoopInv'
<1>1. /\ SameCall /\ AtPrev(before, hdr, session, i, ck) /\ SessionOK(before)
      /\ pc' = "chain" /\ result' = result /\ result = NoResult /\ hdr.pn \in Word
      /\ ck = NoChainKey \/ i >= hdr.pn
      /\ session' = [session EXCEPT !.recvChains = Push(@, hdr.pk, FirstChainKey(session.rk)),
                                    !.dhr = hdr.pk, !.dhRSet = TRUE, !.dhRatchetPerformed = TRUE]
  BY DEF LoopInv, PrevDone, SameCall
<1>2. SkipPrevChain(before, i) = SkipPrevChain(before, hdr.pn)
  <2>1. CASE ~HasPrevChain(before)
    BY <2>1 DEF SkipPrevChain
  <2>2. CASE HasPrevChain(before)
    <3>1. PICK c : c = GetChain(before.recvChains, before.dhr)
      OBVIOUS
    <3>2. ck = ChainKeyAt(c.ck, i - PrevNr(before))
      BY <1>1, <2>2, <3>1 DEF AtPrev
    <3>3. ck # NoChainKey
      BY <3>2 DEF ChainKeyAt, NoChainKey
    <3>4. i >= hdr.pn /\ (i = PrevNr(before) \/ i <= hdr.pn) /\ i \in Int /\ hdr.pn \in Int
      BY <1>1, <3>3 DEF AtPrev, Word
    <3>5. CASE i = hdr.pn
      BY <3>5
    <3>6. CASE i # hdr.pn
      <4>1. i = PrevNr(before) /\ hdr.pn <= PrevNr(before) /\ i <= PrevNr(before)
        BY <3>4, <3>6
      <4> QED
        BY <4>1 DEF SkipPrevChain, StoreKeys
    <3> QED
      BY <3>5, <3>6
  <2> QED
    BY <2>1, <2>2
<1>3. PICK root : root = DeriveRoot(before.rk, SharedSecret(before.dhs, hdr.pk))
  OBVIOUS
<1>4. session = [before EXCEPT !.rk = root, !.mkSkipped = SkipPrevChain(before, hdr.pn)]
  BY <1>1, <1>2, <1>3 DEF AtPrev
<1>5. /\ Ratchet(before, hdr).err = "ok"
      /\ Ratchet(before, hdr).s = Ratcheted(before, hdr, root)
      /\ SessionOK(Ratchet(before, hdr).s) /\ Ratchet(before, hdr).s.dhs = before.dhs
  BY <1>1, <1>3, RatchetResult DEF AtPrev
<1>6. session' = Ratchet(before, hdr).s
  BY <1>1, <1>4, <1>5 DEF Ratcheted, SessionOK, SessionFields
<1>7. AtChain(before, hdr, session')
  BY <1>1, <1>5, <1>6 DEF AtChain, Ready, AtPrev
<1> QED
  BY <1>1, <1>7 DEF LoopInv, SameCall

-----------------------------------------------------------------------------
(* The shape of the session in the loop over the header's chain c, and the *)
(* chain it then holds.                                                    *)
Midway(m, h, c, n, s) ==
  /\ s = [f \in SessionFields |-> s[f]] /\ s.dhs = m.dhs
  /\ HasChain(s.recvChains, h.pk)
  /\ GetChain(s.recvChains, h.pk).nr = n
  /\ GetChain(s.recvChains, h.pk).ck = ChainKeyAt(c.ck, n - c.nr)
  /\ ChainKeyAt(c.ck, n - c.nr) = [root |-> c.ck.root, step |-> n]
  /\ s.mkSkipped = StoreKeys(m.mkSkipped, h.pk, c.ck, c.nr, n)
  /\ \A key, k : PutChain(s.recvChains, h.pk, key, k) = PutChain(m.recvChains, h.pk, key, k)
  /\ \A f \in SessionFields \ {"mkSkipped", "recvChains"} : s[f] = m[f]

(* A session in that loop is so.                                           *)
LEMMA SkippedFacts ==
  ASSUME NEW m, NEW h, NEW n \in Word, NEW s, SessionOK(m), HasChain(m.recvChains, h.pk),
         GetChain(m.recvChains, h.pk).nr <= n, SkippedTo(m, h, n, s)
  PROVE  Midway(m, h, GetChain(m.recvChains, h.pk), n, s)
<1>1. PICK c, pk, key : c = GetChain(m.recvChains, h.pk) /\ pk = h.pk /\ key = ChainKeyAt(c.ck, n - c.nr)
  OBVIOUS
<1>2. ChainOK(c) /\ RingOK(m.recvChains)
  BY <1>1, FoundChain DEF SessionOK
<1>3. c.ck = [root |-> c.ck.root, step |-> c.nr] /\ c.nr \in Nat /\ n \in Nat
  BY <1>2 DEF ChainOK, Word
<1>4. key = [root |-> c.ck.root, step |-> n]
  <2>1. c.ck.step + (n - c.nr) = n
    BY <1>3
  <2> QED
    BY <1>1, <2>1 DEF ChainKeyAt
<1>5. CASE n = c.nr
  <2>1. s = m
    BY <1>1, <1>5 DEF SkippedTo
  <2>2. key = c.ck
    BY <1>3, <1>4, <1>5
  <2>3. StoreKeys(m.mkSkipped, pk, c.ck, c.nr, n) = m.mkSkipped
    BY <1>3, <1>5 DEF StoreKeys
  <2> QED
    BY <1>1, <1>4, <1>5, <2>1, <2>2, <2>3 DEF SessionOK, Midway
<1>6. CASE n # c.nr
  <2>1. PICK store, q : /\ store = StoreKeys(m.mkSkipped, pk, c.ck, c.nr, n)
                        /\ q = PutChain(m.recvChains, pk, key, n)
    OBVIOUS
  <2>2. s = [m EXCEPT !.mkSkipped = store, !.recvChains = q]
    BY <1>1, <1>6, <2>1 DEF SkippedTo
  <2>3. /\ s = [f \in SessionFields |-> s[f]] /\ s.mkSkipped = store /\ s.recvChains = q
        /\ s.dhs = m.dhs
        /\ \A f \in SessionFields \ {"mkSkipped", "recvChains"} : s[f] = m[f]
    BY <2>2 DEF SessionOK, SessionFields
  <2>4. HasChain(q, pk) /\ GetChain(q, pk) = [pk |-> pk, ck |-> key, nr |-> n]
    BY <1>1, <1>2, <2>1, GetAfterPut
  <2>5. \A a, k : PutChain(q, pk, a, k) = PutChain(m.recvChains, pk, a, k)
    BY <1>1, <1>2, <2>1, PutTwice
  <2> QED
    BY <1>1, <1>4, <2>1, <2>3, <2>4, <2>5 DEF Midway
<1> QED
  BY <1>5, <1>6

(* The call enters the loop over the header's chain, or fails before it.   *)
LEMMA ChainStep == ASSUME LoopInv, EnterChain PROVE LoopInv'
<1>1. /\ SameCall /\ AtChain(before, hdr, session) /\ SessionOK(before)
      /\ hdr.n \in Word /\ hdr.pn \in Word /\ result = NoResult
  BY DEF LoopInv, EnterChain, SameCall
<1>2. PICK m, c : m = Ratchet(before, hdr).s /\ c = GetChain(m.recvChains, hdr.pk)
  OBVIOUS
<1>3. /\ session = m /\ SessionOK(m) /\ session = [f \in SessionFields |-> session[f]]
      /\ Ready(before, hdr) /\ RatchetReceiveKey(before, hdr) = ReceiveOnChain(m, hdr)
  BY <1>1, <1>2, ReceiveCases DEF AtChain, Ready, NoSkippedKey, SessionOK
<1>4. Chain = c
  BY <1>2, <1>3 DEF Chain
<1>5. GapTooWide <=> TooManySkipped(c.nr, hdr.n)
  BY <1>4 DEF GapTooWide, TooManySkipped
<1>6. ASSUME NEW err, err # "ok", ReturnError(err), ReceiveOnChain(m, hdr).err = err
      PROVE  LoopInv'
  BY <1>1, <1>3, <1>6, ErrorAnswers, AnsweredKeepsInv
<1>7. CASE ~HasChain(session.recvChains, hdr.pk) /\ ReturnError("ErrInvalidTransition")
  <2>1. ReceiveOnChain(m, hdr).err = "ErrInvalidTransition"
    BY <1>3, <1>7 DEF ReceiveOnChain, Failure, Outcome
  <2> QED
    BY <1>6, <1>7, <2>1
<1>8. CASE HasChain(session.recvChains, hdr.pk) /\ GapTooWide /\ ReturnError("ErrMaxSkipExceeded")
  <2>1. ReceiveOnChain(m, hdr).err = "ErrMaxSkipExceeded"
    BY <1>2, <1>3, <1>5, <1>8 DEF ReceiveOnChain, Failure, Outcome
  <2> QED
    BY <1>6, <1>8, <2>1
<1>9. CASE /\ HasChain(session.recvChains, hdr.pk) /\ ~GapTooWide
           /\ pc' = "skip" /\ UNCHANGED <<session, i, ck, result>>
  <2>1. c.nr \in Word
    BY <1>2, <1>3, <1>9, FoundChain DEF ChainOK
  <2>2. c.nr <= c.nr
    BY <2>1 DEF Word
  <2>3. SkippedTo(m, hdr, c.nr, session)
    BY <1>2, <1>3 DEF SkippedTo
  <2>4. AtSkip(before, hdr, session, c.nr)
    BY <1>2, <1>3, <1>5, <1>9, <2>1, <2>2, <2>3 DEF AtSkip
  <2>5. AtSkip(before, hdr, session', c.nr) /\ result' = NoResult /\ pc' = "skip"
    BY <1>1, <1>9, <2>4
  <2> QED
    BY <1>1, <2>1, <2>5 DEF LoopInv, SameCall
<1> QED
  BY <1>7, <1>8, <1>9 DEF EnterChain

(* A session with other skipped keys and one chain moved on.               *)
Moved(m, st, pk, key, k) ==
  [m EXCEPT !.mkSkipped = st, !.recvChains = PutChain(@, pk, key, k)]

(* Putting the chain of a session in that loop at a later number is        *)
(* putting the chain it started from there.                                *)
LEMMA WithChainIs ==
  ASSUME NEW m, NEW s, NEW c, NEW n, NEW st, NEW key, NEW k, SessionOK(m), Midway(m, hdr, c, n, s)
  PROVE  WithChain([s EXCEPT !.mkSkipped = st], key, k) = Moved(m, st, hdr.pk, key, k)
<1>0. /\ s = [f \in SessionFields |-> s[f]]
      /\ PutChain(s.recvChains, hdr.pk, key, k) = PutChain(m.recvChains, hdr.pk, key, k)
      /\ \A f \in SessionFields \ {"mkSkipped", "recvChains"} : s[f] = m[f]
  BY DEF Midway
<1>1. PICK q : q = PutChain(m.recvChains, hdr.pk, key, k)
  OBVIOUS
<1>2. PICK t : t = [s EXCEPT !.mkSkipped = st]
  OBVIOUS
<1>3. /\ t = [f \in SessionFields |-> t[f]] /\ t.recvChains = s.recvChains /\ t.mkSkipped = st
      /\ \A f \in SessionFields \ {"mkSkipped", "recvChains"} : t[f] = m[f]
  BY <1>0, <1>2 DEF SessionFields
<1>4. WithChain(t, key, k) = [t EXCEPT !.recvChains = q]
  BY <1>0, <1>1, <1>3 DEF WithChain
<1>5. [t EXCEPT !.recvChains = q] = [m EXCEPT !.mkSkipped = st, !.recvChains = q]
  BY <1>3 DEF SessionOK, SessionFields
<1> QED
  BY <1>1, <1>2, <1>4, <1>5 DEF Moved

(* What the two loops over the header's chain have in common.              *)
LEMMA InSkip ==
  ASSUME NEW b, NEW h, NEW s, NEW n \in Word, AtSkip(b, h, s, n), NEW m, m = Ratchet(b, h).s,
         NEW c, c = GetChain(m.recvChains, h.pk)
  PROVE  /\ SessionOK(m) /\ m.dhs = b.dhs /\ HasChain(m.recvChains, h.pk)
         /\ RatchetReceiveKey(b, h) = ReceiveOnChain(m, h) /\ ~TooManySkipped(c.nr, h.n)
         /\ c.nr <= n /\ (n = c.nr \/ n <= h.n) /\ SkippedTo(m, h, n, s)
         /\ ChainOK(c) /\ c.nr \in Nat /\ n \in Nat
<1>1. /\ SessionOK(m) /\ m.dhs = b.dhs /\ HasChain(m.recvChains, h.pk)
      /\ RatchetReceiveKey(b, h) = ReceiveOnChain(m, h) /\ ~TooManySkipped(c.nr, h.n)
      /\ c.nr <= n /\ (n = c.nr \/ n <= h.n) /\ SkippedTo(m, h, n, s)
  BY ReceiveCases DEF AtSkip, Ready, NoSkippedKey
<1>2. ChainOK(c)
  BY <1>1, FoundChain
<1> QED
  BY <1>1, <1>2 DEF ChainOK, Word

(* One more key of the header's chain.                                     *)
LEMMA SkipStep == ASSUME LoopInv, SkipIteration PROVE LoopInv'
<1>1. /\ SameCall /\ SessionOK(before) /\ hdr.n \in Word /\ hdr.pn \in Word
      /\ pc' = "skip" /\ result' = result /\ result = NoResult
      /\ \E n \in Word : AtSkip(before, hdr, session, n)
  BY DEF LoopInv, SkipIteration, SameCall
<1>2. PICK n \in Word : AtSkip(before, hdr, session, n)
  BY <1>1
<1>3. PICK m : m = Ratchet(before, hdr).s
  OBVIOUS
<1>4. PICK c : c = GetChain(m.recvChains, hdr.pk)
  OBVIOUS
<1>5. /\ SessionOK(m) /\ HasChain(m.recvChains, hdr.pk) /\ c.nr <= n /\ (n = c.nr \/ n <= hdr.n)
      /\ SkippedTo(m, hdr, n, session) /\ c.nr \in Nat /\ n \in Nat /\ ~TooManySkipped(c.nr, hdr.n)
  BY <1>2, <1>3, <1>4, InSkip
<1>6. PICK key : key = ChainKeyAt(c.ck, n - c.nr)
  OBVIOUS
<1>18. Midway(m, hdr, c, n, session)
  BY <1>4, <1>5, SkippedFacts
<1>7. /\ session = [f \in SessionFields |-> session[f]]
      /\ Chain.nr = n /\ Chain.ck = key /\ key = [root |-> c.ck.root, step |-> n]
      /\ session.mkSkipped = StoreKeys(m.mkSkipped, hdr.pk, c.ck, c.nr, n)
      /\ \A a, k : PutChain(session.recvChains, hdr.pk, a, k) = PutChain(m.recvChains, hdr.pk, a, k)
      /\ \A f \in SessionFields \ {"mkSkipped", "recvChains"} : session[f] = m[f]
  BY <1>4, <1>6, <1>18 DEF Chain, Midway
<1>8. n < hdr.n /\ hdr.n \in Nat /\ hdr.n <= WordSize - 1 /\ WordSize \in Nat
  BY <1>1, <1>7, WordAssumption DEF SkipIteration, Skips, Word
<1>9. n + 1 \in Word /\ Succ(n) = n + 1 /\ c.nr <= n + 1 /\ n + 1 <= hdr.n /\ n + 1 # c.nr
  <2>1. (n + 1) % WordSize = n + 1
    BY <1>5, <1>8
  <2> QED
    BY <1>5, <1>8, <2>1 DEF Succ, Word
<1>10. PICK st : st = StoreKeys(m.mkSkipped, hdr.pk, c.ck, c.nr, n + 1)
  OBVIOUS
<1>11. st = Store(session.mkSkipped, MaxSkip, StorageKey(hdr.pk, n), DeriveMessageKey(key))
  BY <1>5, <1>6, <1>7, <1>10, StoreKeysStep
<1>12. NextKey(key) = ChainKeyAt(c.ck, (n + 1) - c.nr)
  <2>1. n # Beyond
    BY <1>5, <1>8 DEF Beyond
  <2>2. NextKey(key) = [root |-> c.ck.root, step |-> n + 1]
    BY <1>7, <2>1 DEF NextKey, DeriveNextChainKey
  <2>3. c.ck = [root |-> c.ck.root, step |-> c.nr]
    BY <1>2, <1>3, <1>4, InSkip DEF ChainOK
  <2>4. c.ck.step + ((n + 1) - c.nr) = n + 1
    BY <1>5, <2>3
  <2> QED
    BY <2>2, <2>4 DEF ChainKeyAt
<1>13. PICK next : next = NextKey(key)
  OBVIOUS
<1>14. session' = WithChain([session EXCEPT !.mkSkipped = st], next, n + 1)
  BY <1>7, <1>9, <1>11, <1>13 DEF SkipIteration
<1>15. session' = Moved(m, st, hdr.pk, next, n + 1)
  BY <1>5, <1>18, <1>14, WithChainIs
<1>16. SkippedTo(m, hdr, n + 1, session')
  BY <1>4, <1>9, <1>10, <1>12, <1>13, <1>15 DEF SkippedTo, Moved
<1>17. AtSkip(before, hdr, session', n + 1)
  BY <1>2, <1>3, <1>4, <1>5, <1>9, <1>16 DEF AtSkip
<1> QED
  BY <1>1, <1>9, <1>17 DEF LoopInv, SameCall

(* The loop is done: the chain is at the header's number, or was beyond it.*)
LEMMA SkipDoneStep == ASSUME LoopInv, SkipDone PROVE LoopInv'
<1>1. /\ SameCall /\ SessionOK(before) /\ hdr.n \in Word /\ hdr.pn \in Word
      /\ pc' = "derive" /\ result' = NoResult /\ session' = session /\ i' = Chain.nr /\ ck' = Chain.ck
      /\ \E n \in Word : AtSkip(before, hdr, session, n)
  BY DEF LoopInv, SkipDone, SameCall
<1>2. PICK n \in Word : AtSkip(before, hdr, session, n)
  BY <1>1
<1>3. PICK m : m = Ratchet(before, hdr).s
  OBVIOUS
<1>4. PICK c : c = GetChain(m.recvChains, hdr.pk)
  OBVIOUS
<1>5. /\ SessionOK(m) /\ HasChain(m.recvChains, hdr.pk) /\ c.nr <= n
      /\ SkippedTo(m, hdr, n, session)
  BY <1>2, <1>3, <1>4, InSkip
<1>6. Chain.nr = n /\ Chain.ck = ChainKeyAt(c.ck, n - c.nr)
  <2>1. Midway(m, hdr, c, n, session)
    BY <1>4, <1>5, SkippedFacts
  <2> QED
    BY <1>4, <2>1 DEF Chain, Midway
<1>7. n >= hdr.n
  BY <1>1, <1>6 DEF SkipDone, Skips, Word
<1>8. AtDerive(before, hdr, session', i', ck', result')
  BY <1>1, <1>2, <1>3, <1>4, <1>6, <1>7 DEF AtDerive
<1> QED
  BY <1>1, <1>6, <1>8 DEF LoopInv, SameCall

(* The loop that derives the key: its one iteration, or one of those that  *)
(* never end.                                                              *)
LEMMA DeriveStep == ASSUME LoopInv, DeriveIteration PROVE LoopInv'
<1>1. /\ SameCall /\ SessionOK(before) /\ hdr.n \in Word /\ hdr.pn \in Word /\ i \in Word
      /\ pc' = "derive" /\ session' = session /\ i' = Succ(i) /\ i <= hdr.n
      /\ \/ i = hdr.n /\ result' = [result EXCEPT !.key = DeriveMessageKey(ck)] /\ ck' = ck
         \/ i # hdr.n
      /\ Endless(hdr) \/ AtDerive(before, hdr, session, i, ck, result)
  BY DEF LoopInv, DeriveIteration, SameCall
<1>2. i' \in Word
  BY <1>1, WordAssumption DEF Succ, Word
<1>3. CASE Endless(hdr)
  <2>1. Endless(hdr)'
    BY <1>1, <1>3 DEF SameCall, Endless
  <2> QED
    BY <1>1, <1>2, <2>1 DEF LoopInv, SameCall
<1>4. CASE ~Endless(hdr)
  <2>1. PICK at \in Word :
          /\ AtSkip(before, hdr, session, at) /\ at >= hdr.n
          /\ ck = ChainKeyAt(GetChain(Ratchet(before, hdr).s.recvChains, hdr.pk).ck,
                             at - GetChain(Ratchet(before, hdr).s.recvChains, hdr.pk).nr)
          /\ \/ i = at /\ result = NoResult
             \/ at = hdr.n /\ i = hdr.n + 1
    BY <1>1, <1>4 DEF AtDerive
  <2>2. i = at /\ at = hdr.n /\ result = NoResult
    BY <1>1, <2>1 DEF Word
  <2>3. i' = hdr.n + 1
    <3>1. hdr.n \in Nat /\ hdr.n + 1 < WordSize /\ WordSize \in Nat
      BY <1>1, <1>4, WordAssumption DEF Endless, Word
    <3>2. (hdr.n + 1) % WordSize = hdr.n + 1
      BY <3>1
    <3> QED
      BY <1>1, <2>2, <3>2 DEF Succ
  <2>4. ck' = ck /\ result' = [err |-> "ok", key |-> DeriveMessageKey(ck)]
    BY <1>1, <2>2 DEF NoResult
  <2>5. AtDerive(before, hdr, session', i', ck', result')
    BY <1>1, <2>1, <2>2, <2>3, <2>4 DEF AtDerive
  <2> QED
    BY <1>1, <1>2, <2>5 DEF LoopInv, SameCall
<1> QED
  BY <1>3, <1>4

(* The key is derived, or the number is one the chain has passed.          *)
LEMMA DeriveDoneStep == ASSUME LoopInv, DeriveDone PROVE LoopInv'
<1>1. /\ SameCall /\ SessionOK(before) /\ hdr.n \in Word /\ hdr.pn \in Word /\ i \in Word
      /\ i > hdr.n /\ (Endless(hdr) \/ AtDerive(before, hdr, session, i, ck, result))
      /\ \/ result.key = NoChainKey /\ ReturnError("ErrInvalidTransition")
         \/ /\ result.key # NoChainKey
            /\ OpenBody(WithChain(session, NextKey(ck), Succ(Chain.nr)), result.key)
  BY DEF LoopInv, DeriveDone, SameCall
<1>2. PICK m : m = Ratchet(before, hdr).s
  OBVIOUS
<1>3. PICK c : c = GetChain(m.recvChains, hdr.pk)
  OBVIOUS
<1>4. ~Endless(hdr)
  BY <1>1, WordAssumption DEF Endless, Word
<1>5. PICK n \in Word :
        /\ AtSkip(before, hdr, session, n) /\ n >= hdr.n /\ ck = ChainKeyAt(c.ck, n - c.nr)
        /\ \/ i = n /\ result = NoResult
           \/ n = hdr.n /\ i = hdr.n + 1 /\ result = [err |-> "ok", key |-> DeriveMessageKey(ck)]
  BY <1>1, <1>2, <1>3, <1>4 DEF AtDerive
<1>6. /\ SessionOK(m) /\ m.dhs = before.dhs /\ HasChain(m.recvChains, hdr.pk) /\ c.nr <= n
      /\ (n = c.nr \/ n <= hdr.n) /\ SkippedTo(m, hdr, n, session)
      /\ RatchetReceiveKey(before, hdr) = ReceiveOnChain(m, hdr) /\ ~TooManySkipped(c.nr, hdr.n)
      /\ ChainOK(c) /\ c.nr \in Nat /\ n \in Nat
  BY <1>2, <1>3, <1>5, InSkip
<1>10. Midway(m, hdr, c, n, session)
  BY <1>3, <1>6, SkippedFacts
<1>7. /\ session = [f \in SessionFields |-> session[f]] /\ session.dhs = m.dhs
      /\ Chain.nr = n /\ ck = [root |-> c.ck.root, step |-> n]
      /\ session.mkSkipped = StoreKeys(m.mkSkipped, hdr.pk, c.ck, c.nr, n)
      /\ \A a, k : PutChain(session.recvChains, hdr.pk, a, k) = PutChain(m.recvChains, hdr.pk, a, k)
      /\ \A f \in SessionFields \ {"mkSkipped", "recvChains"} : session[f] = m[f]
  BY <1>3, <1>5, <1>10 DEF Chain, Midway
<1>8. CASE result = NoResult /\ i = n
  <2>1. ReturnError("ErrInvalidTransition")
    BY <1>1, <1>8 DEF NoResult
  <2>2. hdr.n < c.nr
    BY <1>1, <1>5, <1>6, <1>8 DEF Word
  <2>3. RatchetReceiveKey(before, hdr).err = "ErrInvalidTransition"
    BY <1>3, <1>6, <2>2 DEF ReceiveOnChain, Failure, Outcome
  <2> QED
    BY <1>1, <1>7, <2>1, <2>3, ErrorAnswers, AnsweredKeepsInv
<1>9. CASE n = hdr.n /\ i = hdr.n + 1 /\ result = [err |-> "ok", key |-> DeriveMessageKey(ck)]
  <2>1. result.key = ck /\ ck # NoChainKey
    <3>1. DOMAIN ck # DOMAIN NoChainKey
      BY <1>7 DEF NoChainKey
    <3> QED
      BY <1>9, <3>1 DEF DeriveMessageKey
  <2>2. n + 1 \in Word /\ Succ(n) = n + 1
    <3>1. WordSize \in Nat /\ n + 1 < WordSize
      BY <1>1, <1>4, <1>6, <1>9, WordAssumption DEF Word, Endless
    <3>2. (n + 1) % WordSize = n + 1
      BY <1>6, <3>1
    <3> QED
      BY <1>6, <3>1, <3>2 DEF Word, Succ
  <2>3. NextKey(ck) = DeriveNextChainKey(ck) /\ NextKey(ck) = [root |-> c.ck.root, step |-> n + 1]
    <3>1. n # Beyond
      BY <1>6, <2>2, WordAssumption DEF Word, Beyond
    <3> QED
      BY <1>7, <3>1 DEF NextKey, DeriveNextChainKey
  <2>4. PICK next, st : /\ next = DeriveNextChainKey(ck)
                        /\ st = StoreKeys(m.mkSkipped, hdr.pk, c.ck, c.nr, n)
    OBVIOUS
  <2>5. PICK s : s = Moved(m, st, hdr.pk, next, n + 1)
    OBVIOUS
  <2>6. WithChain(session, NextKey(ck), Succ(Chain.nr)) = s
    <3>1. session = [session EXCEPT !.mkSkipped = st]
      BY <1>7, <2>4
    <3>2. WithChain([session EXCEPT !.mkSkipped = st], next, n + 1) = Moved(m, st, hdr.pk, next, n + 1)
      BY <1>6, <1>10, WithChainIs
    <3> QED
      BY <1>7, <2>2, <2>3, <2>4, <2>5, <3>1, <3>2
  <2>7. OpenBody(s, ck)
    BY <1>1, <2>1, <2>6
  <2>8. RatchetReceiveKey(before, hdr) = Outcome("ok", s, ck)
    <3>1. ~(hdr.n < c.nr) /\ ck = ChainKeyAt(c.ck, hdr.n - c.nr)
      BY <1>5, <1>6, <1>9
    <3> QED
      BY <1>3, <1>6, <1>9, <2>4, <2>5, <3>1 DEF ReceiveOnChain, DeriveMessageKey, Moved
  <2>9. SessionOK(s) /\ s.dhs = before.dhs
    <3>1. /\ s = [f \in SessionFields |-> s[f]] /\ s.dhs = m.dhs
          /\ s.recvChains = PutChain(m.recvChains, hdr.pk, next, n + 1)
      BY <1>6, <2>5 DEF Moved, SessionOK, SessionFields
    <3>2. next = [root |-> c.ck.root, step |-> n + 1]
      BY <2>3, <2>4
    <3> QED
      BY <1>6, <2>2, <3>1, <3>2, ChangedChainsOK
  <2> QED
    BY <1>1, <1>6, <1>7, <2>7, <2>8, <2>9, OpenedAnswers, AnsweredKeepsInv
<1> QED
  BY <1>5, <1>8, <1>9

-----------------------------------------------------------------------------
(* The numbers of a header that arrives are words.                         *)
LEMMA ArrivingWords ==
  ASSUME length \in [RatchetKeys -> 1 .. LongestChain], NEW h \in Arriving
  PROVE  h.n \in Word /\ h.pn \in Word
<1>1. WordSize \in Nat /\ WordSize # 0 /\ LongestChain \in Nat /\ LongestChain <= WordSize
  BY WordAssumption, LengthAssumption
<1>2. ASSUME NEW a \in Authentic PROVE a = [pk |-> a.pk, pn |-> a.pn, n |-> a.n] /\ a.n \in Word /\ a.pn \in Word
  <2>1. \A key \in RatchetKeys : length[key] \in 1 .. LongestChain
    OBVIOUS
  <2>2. <<Sender, 0>> \in RatchetKeys /\ <<Sender, 1>> \in RatchetKeys
    BY DEF RatchetKeys
  <2>3. length[<<Sender, 0>>] \in 1 .. LongestChain /\ length[<<Sender, 1>>] \in 1 .. LongestChain
    BY <2>1, <2>2
  <2>4. ASSUME NEW l \in 1 .. LongestChain, NEW k \in 0 .. l - 1 PROVE k \in Word
    BY <1>1 DEF Word
  <2>5. \A l \in 1 .. LongestChain : l % WordSize \in Word
    BY <1>1 DEF Word
  <2>6. 0 \in Word
    BY <1>1 DEF Word
  <2> QED
    BY <2>3, <2>4, <2>5, <2>6 DEF Authentic
<1>3. CASE h \in Authentic
  BY <1>2, <1>3
<1>4. ASSUME NEW a \in Authentic, NEW k \in Word, h = [a EXCEPT !.n = k] \/ h = [a EXCEPT !.pn = k]
      PROVE  h.n \in Word /\ h.pn \in Word
  BY <1>2, <1>4
<1>5. ASSUME NEW a \in Authentic, h = [a EXCEPT !.pk = ZeroKey] PROVE h.n \in Word /\ h.pn \in Word
  BY <1>2, <1>5
<1> QED
  BY <1>3, <1>4, <1>5 DEF Arriving

(* A call begins with a snapshot of the session as it is.                  *)
LEMMA CallStep == ASSUME LoopInv, NEW h \in Arriving, Call(h) PROVE LoopInv'
<1>1. /\ SessionOK(session) /\ result = NoResult /\ length \in [RatchetKeys -> 1 .. LongestChain]
      /\ session' = session /\ length' = length /\ result' = NoResult /\ hdr' = h
      /\ before' = Record(session)
      /\ pc' = IF HasKey(session.mkSkipped, SkippedId(h)) THEN "lookup"
               ELSE IF IsNewEpoch(session, h) THEN "ratchet" ELSE "chain"
  BY DEF LoopInv, Call
<1>2. before' = session
  BY <1>1 DEF Record, SessionOK
<1>3. h.n \in Word /\ h.pn \in Word
  BY <1>1, ArrivingWords
<1>4. pc' = "lookup" => AtLookup(session, h, session)
  BY <1>1 DEF AtLookup
<1>5. pc' = "ratchet" => AtRatchet(session, h, session)
  BY <1>1 DEF AtRatchet, NoSkippedKey
<1>6. pc' = "chain" => AtChain(session, h, session)
  <2> SUFFICES ASSUME pc' = "chain" PROVE AtChain(session, h, session)
    OBVIOUS
  <2>1. ~HasKey(session.mkSkipped, SkippedId(h)) /\ ~IsNewEpoch(session, h)
    BY <1>1
  <2>2. Ratchet(session, h) = Outcome("ok", session, NoKey)
    BY <2>1 DEF Ratchet
  <2> QED
    BY <1>1, <2>1, <2>2 DEF AtChain, Ready, NoSkippedKey, Outcome
<1>7. pc' \in {"lookup", "ratchet", "chain"}
  BY <1>1
<1> QED
  BY <1>1, <1>2, <1>3, <1>4, <1>5, <1>6, <1>7 DEF LoopInv

(* A reply changes the sending half alone.                                 *)
LEMMA ReplyStep == ASSUME LoopInv, Reply PROVE LoopInv'
<1>1. /\ SessionOK(session) /\ SessionOK(before) /\ result' = NoResult /\ SameCall /\ pc' = "idle"
      /\ session' = AdvanceSend(ReadyToSend(session, <<Receiver, 1>>))
      /\ hdr.n \in Word /\ hdr.pn \in Word /\ length \in [RatchetKeys -> 1 .. LongestChain]
  BY DEF LoopInv, Reply, SameCall
<1>2. /\ session' = [f \in SessionFields |-> session'[f]]
      /\ session'.recvChains = session.recvChains
  BY <1>1 DEF SessionOK, AdvanceSend, ReadyToSend, PerformDHRatchetSend, SessionFields
<1>3. SessionOK(session')
  BY <1>1, <1>2, SameChainsOK
<1> QED
  BY <1>1, <1>3 DEF LoopInv, SameCall

(* The caller has its answer, and the next call may come.                  *)
LEMMA ReturnedStep == ASSUME LoopInv, Returned PROVE LoopInv'
<1>1. /\ SessionOK(session) /\ length \in [RatchetKeys -> 1 .. LongestChain]
      /\ pc' = "idle" /\ result' = NoResult /\ before' = session /\ session' = session
      /\ hdr' = [pk |-> ZeroKey, pn |-> 0, n |-> 0] /\ length' = length
  BY DEF LoopInv, Returned
<1>2. hdr'.n \in Word /\ hdr'.pn \in Word
  BY <1>1, WordAssumption DEF Word
<1> QED
  BY <1>1, <1>2 DEF LoopInv

(* The receiver starts between two calls, with a good session.             *)
LEMMA InitLoopInv == Init => LoopInv
<1> SUFFICES ASSUME Init PROVE LoopInv
  OBVIOUS
<1>1. RingOK(NewReceiverChains) /\ Held(NewReceiverChains) = {}
  BY CapacityAssumption DEF RingOK, NewReceiverChains, Held, Slots
<1>2. SessionOK(InitResponder(<<Receiver, 0>>))
  BY <1>1 DEF SessionOK, InitResponder, SessionFields
<1>3. 0 \in Word
  BY WordAssumption DEF Word
<1> QED
  BY <1>2, <1>3 DEF Init, LoopInv

(* Whatever arrives, and however it was damaged, a call that returns has   *)
(* computed what the operators of Session say, and left the session they   *)
(* say: the loops over words agree with the closed forms.                  *)
THEOREM CallsComputeDecrypt == Spec => []CallComputesDecrypt
<1>1. Init => LoopInv
  BY InitLoopInv
<1>2. LoopInv /\ [Next]_vars => LoopInv'
  <2> SUFFICES ASSUME LoopInv, [Next]_vars PROVE LoopInv'
    OBVIOUS
  <2>1. CASE UNCHANGED vars
    BY <2>1 DEF vars, LoopInv, CallComputesDecrypt, OpensBody, Authentic, SecondKeyInUse
  <2>2. CASE Next
    <3>1. CASE Run
      BY <3>1, LookupStep, RatchetStep, PrevStep, PrevDoneStep, ChainStep, SkipStep, SkipDoneStep,
         DeriveStep, DeriveDoneStep, ReturnedStep DEF Run
    <3> QED
      BY <2>2, <3>1, CallStep, ReplyStep DEF Next
  <2> QED
    BY <2>1, <2>2
<1>3. LoopInv => CallComputesDecrypt
  BY DEF LoopInv, CallComputesDecrypt
<1> QED
  BY <1>1, <1>2, <1>3, PTL DEF Spec
=============================================================================
