---------------------------- MODULE SessionMemory ----------------------------
(***************************************************************************)
(* One base session as it lies in memory.  Session treats a session as a   *)
(* value; here its keys are slices, which the code zeroes in place as soon *)
(* as they are superseded, its receiver chains and skipped keys are        *)
(* objects behind pointers, and the rollback snapshot has slices and       *)
(* objects of its own, or shares them.  A slice zeroed while something     *)
(* still refers to it, or an object changed through one reference and read *)
(* through another, shows as a step SessionCalls does not allow.           *)
(***************************************************************************)
EXTENDS Session

CONSTANTS Owner, Peer, PeerKeys, MaxNumber,
          MaxCalls    \* bound: calls of a behaviour

ASSUME NilAssumption == NoKey \notin Int    \* nil is no slice

VARIABLES
  heap,    \* a record:
           \*   s       the session: rk and cks are cells, recvChains and mkSkipped objects
           \*   prev    the snapshot in invariants: a set, empty before the first Record
           \*   keys    cell -> the key in it; NoKey is the nil slice
           \*   rings   object -> receiver chains, with a cell as each chain's ck
           \*   stores  object -> skipped keys, with a cell for each entry's key
  calls, closed

Erased == FirstChainKey(ZeroRootKey)            \* 32 zero bytes
RootSlice(root) == [root |-> root, step |-> -1]  \* a slice that holds a root key
At(f, cell) == IF cell = NoKey THEN NoKey ELSE f[cell]
NewIn(f) == CHOOSE c \in 1 .. Cardinality(DOMAIN f) + 1 : c \notin DOMAIN f
With(f, c, v) == [x \in DOMAIN f \cup {c} |-> IF x = c THEN v ELSE f[x]]

RingCells(r) == {r.slots[i].ck : i \in Slots} \ {NoKey}
StoreCells(st) == {st.entries[id] : id \in DOMAIN st.entries}
MapRing(r, f) ==
  [r EXCEPT !.slots = [i \in Slots |-> [r.slots[i] EXCEPT !.ck = At(f, r.slots[i].ck)]]]
MapStore(st, f) == [st EXCEPT !.entries = [id \in DOMAIN st.entries |-> f[st.entries[id]]]]

(* What o is as a value, o being the session or the snapshot of heap m.     *)
ValueOf(m, o) ==
  [o EXCEPT !.rk = m.keys[@].root,
            !.cks = IF @ = NoKey THEN NoChainKey ELSE m.keys[@],
            !.recvChains = MapRing(m.rings[@], m.keys),
            !.mkSkipped = MapStore(m.stores[@], m.keys)]

(* The slices o refers to, and all that are referred to.                   *)
CellsOf(m, o) ==
  ({o.rk, o.cks} \ {NoKey}) \cup RingCells(m.rings[o.recvChains])
    \cup StoreCells(m.stores[o.mkSkipped])
Owners(m) == {m.s} \cup m.prev
Live(m) == UNION {CellsOf(m, o) : o \in Owners(m)}

-----------------------------------------------------------------------------
(* Operators on the whole heap m.  Cells and objects nothing refers to are *)
(* collected at the end of a call; until then new ones get a new number.   *)
ZeroBytes(m, cells) ==
  [m EXCEPT !.keys = [c \in DOMAIN m.keys |-> IF c \in cells THEN Erased ELSE m.keys[c]]]

NewCell(m) == NewIn(m.keys)
Allocate(m, key) == [m EXCEPT !.keys = With(@, NewCell(m), key)]
(* A copy of a slice that may be nil, and where it is.                     *)
CopySlice(m, cell) == IF cell = NoKey THEN m ELSE Allocate(m, m.keys[cell])
CopyCell(m, cell) == IF cell = NoKey THEN NoKey ELSE NewCell(m)

(* The session with its objects in place of the pointers, cells and all.   *)
Shell(m) == [m.s EXCEPT !.recvChains = m.rings[@], !.mkSkipped = m.stores[@]]

(* Mutant: the copies of the objects share the slices in them.             *)
RecordShared(m) ==
  LET ring == NewIn(m.rings)
      st   == NewIn(m.stores)
  IN  [m EXCEPT !.rings = With(@, ring, @[m.s.recvChains]),
                !.stores = With(@, st, @[m.s.mkSkipped]),
                !.prev = {[m.s EXCEPT !.recvChains = ring, !.mkSkipped = st]}]
(* invariants.Record: every slice and both objects are copied.             *)
RecordPrev(m) ==
  LET size == Cardinality(DOMAIN m.keys)
      copy == [c \in DOMAIN m.keys |-> size + c]
      ring == NewIn(m.rings)
      st   == NewIn(m.stores)
  IN  [m EXCEPT !.keys = [c \in DOMAIN copy \cup Range(copy) |->
                            m.keys[IF c \in DOMAIN copy THEN c ELSE c - size]],
                !.rings = With(@, ring, MapRing(@[m.s.recvChains], copy)),
                !.stores = With(@, st, MapStore(@[m.s.mkSkipped], copy)),
                !.prev = {[m.s EXCEPT !.rk = copy[@], !.cks = At(copy, @),
                                      !.recvChains = ring, !.mkSkipped = st]}]
Snapshot(m) == CHOOSE p \in m.prev : TRUE

(* Mutant: a second rollback follows, with no Record in between.           *)
RollbackTwice(m) ==
  LET p  == Snapshot(m)
      m1 == Allocate(m, m.keys[p.rk])
      m2 == CopySlice(m1, p.cks)
  IN  [ZeroBytes(m2, {m.s.rk, m.s.cks} \cup RingCells(m.rings[m.s.recvChains])) EXCEPT
         !.rings[p.recvChains] = NewReceiverChains,
         !.s = [p EXCEPT !.rk = NewCell(m), !.cks = CopyCell(m1, @)]]
(* rollback: GetPrevState copies the snapshot's slices and hands over its  *)
(* objects; what the session had is zeroed.                                *)
RollbackMemory(m) ==
  LET p  == Snapshot(m)
      m1 == Allocate(m, m.keys[p.rk])
      m2 == CopySlice(m1, p.cks)
  IN  [ZeroBytes(m2, {m.s.rk, m.s.cks} \cup RingCells(m.rings[m.s.recvChains])) EXCEPT
         !.rings[m.s.recvChains] = NewReceiverChains,
         !.s = [p EXCEPT !.rk = NewCell(m), !.cks = CopyCell(m1, @)]]

-----------------------------------------------------------------------------
(* Sending.                                                                *)
RatchetSend(m, fresh) ==
  LET root == DeriveRoot(m.keys[m.s.rk].root, SharedSecret(fresh, m.s.dhr))
      m1   == Allocate(m, RootSlice(root))
      m2   == Allocate(m1, FirstChainKey(root))
  IN  [ZeroBytes(m2, {m.s.rk, m.s.cks}) EXCEPT
         !.s = [PerformDHRatchetSend(m.s, fresh) EXCEPT !.rk = NewCell(m), !.cks = NewCell(m1)]]

AdvanceChain(m) ==
  [ZeroBytes(Allocate(m, DeriveNextChainKey(m.keys[m.s.cks])), {m.s.cks}) EXCEPT
     !.s.cks = NewCell(m), !.s.ns = @ + 1]

-----------------------------------------------------------------------------
(* Receiving; as in Session, a failure leaves what was done so far.        *)
Done(err, m) == [err |-> err, m |-> m]

StoreKeyIn(m, id, mk) ==
  [Allocate(m, mk) EXCEPT !.stores[m.s.mkSkipped] = Store(@, MaxSkip, id, NewCell(m))]

StoreKeysIn(m, pk, ck, lo, hi) ==
  LET after[k \in 0 .. hi - lo] ==
        IF k = 0 THEN m
        ELSE StoreKeyIn(after[k - 1], StorageKey(pk, lo + k - 1),
                        DeriveMessageKey(ChainKeyAt(ck, k - 1)))
  IN  IF hi <= lo THEN m ELSE after[hi - lo]

(* Mutant: the chain takes ckr itself, which the caller is about to zero.  *)
PushWithoutCopy(m, pk, ckr) ==
  [m EXCEPT !.rings[m.s.recvChains] = Push(@, pk, ckr)]
(* The evicted chain key is zeroed, the new one copied.                    *)
PushChain(m, pk, ckr) ==
  LET ring    == m.rings[m.s.recvChains]
      evicted == IF ring.count = ReceiverChainsMax THEN {ring.slots[ring.head].ck} ELSE {}
  IN  [Allocate(ZeroBytes(m, evicted), m.keys[ckr]) EXCEPT
         !.rings[m.s.recvChains] = Push(@, pk, NewCell(m))]

(* Mutant: prevCKr is the chain's own slice.                               *)
PrevChainKeyUncopied(m) ==
  IF HasPrevChain(Shell(m)) THEN [m |-> m, cell |-> GetChain(Shell(m).recvChains, m.s.dhr).ck]
  ELSE [m |-> m, cell |-> NoKey]
(* prevCKr: a copy of the superseded chain's key, for the loop over it.    *)
PrevChainKey(m) ==
  IF HasPrevChain(Shell(m))
  THEN [m |-> Allocate(m, m.keys[GetChain(Shell(m).recvChains, m.s.dhr).ck]),
        cell |-> NewCell(m)]
  ELSE [m |-> m, cell |-> NoKey]

RatchetRecv(m, hdr) ==
  LET p     == PrevChainKey(m)
      nr    == PrevNr(Shell(m))
      root  == DeriveRoot(m.keys[m.s.rk].root, SharedSecret(m.s.dhs, hdr.pk))
      m1    == [Allocate(ZeroBytes(p.m, {m.s.rk}), RootSlice(root)) EXCEPT !.s.rk = NewCell(p.m)]
      ckr   == NewCell(m1)
      m2    == Allocate(m1, FirstChainKey(root))
      m3    == IF p.cell = NoKey THEN m2
               ELSE ZeroBytes(StoreKeysIn(m2, m.s.dhr, m2.keys[p.cell], nr, hdr.pn), {p.cell})
      m4    == ZeroBytes(PushChain(m3, hdr.pk, ckr), {ckr})
  IN  IF ~VerifyPublicKey(hdr.pk) THEN Done("ErrInvalidInput", m)
      ELSE IF p.cell # NoKey /\ TooManySkipped(nr, hdr.pn)
      THEN Done("ErrMaxSkipExceeded", ZeroBytes(m2, {p.cell}))
      ELSE Done("ok", [m4 EXCEPT !.s.dhr = hdr.pk, !.s.dhRSet = TRUE,
                                 !.s.dhRatchetPerformed = TRUE])

(* The chain's key moves past N in a new slice, and the old one is zeroed. *)
ReceiveInPlace(m, hdr) ==
  LET ring  == m.rings[m.s.recvChains]
      chain == GetChain(ring, hdr.pk)
      next  == ChainKeyAt(m.keys[chain.ck], hdr.n + 1 - chain.nr)
      m1    == StoreKeysIn(m, hdr.pk, m.keys[chain.ck], chain.nr, hdr.n)
  IN  IF ~HasChain(ring, hdr.pk) THEN Done("ErrInvalidTransition", m)
      ELSE IF TooManySkipped(chain.nr, hdr.n) THEN Done("ErrMaxSkipExceeded", m)
      ELSE IF hdr.n < chain.nr THEN Done("ErrInvalidTransition", m)
      ELSE Done("ok", [ZeroBytes(Allocate(m1, next), {chain.ck}) EXCEPT
                         !.rings[m.s.recvChains] = PutChain(@, hdr.pk, NewCell(m1), hdr.n + 1)])

(* Storage.Get zeroes the entry's key after copying it.                    *)
TakeInPlace(m, id) ==
  Done("ok", [ZeroBytes(m, {Lookup(m.stores[m.s.mkSkipped], id)}) EXCEPT
                !.stores[m.s.mkSkipped] = Consume(@, id)])

DecryptInPlace(m, hdr) ==
  LET id      == StorageKey(hdr.pk, hdr.n)
      ratchet == IF IsNewEpoch(Shell(m), hdr) THEN RatchetRecv(m, hdr) ELSE Done("ok", m)
  IN  IF HasKey(m.stores[m.s.mkSkipped], id) THEN TakeInPlace(m, id)
      ELSE IF ratchet.err # "ok" THEN ratchet
      ELSE ReceiveInPlace(ratchet.m, hdr)

-----------------------------------------------------------------------------
(* Mutant: the snapshot is forgotten.                                      *)
CloseKeepsSnapshot(m) ==
  [ZeroBytes(m, CellsOf(m, m.s)) EXCEPT
     !.rings[m.s.recvChains] = NewReceiverChains, !.stores[m.s.mkSkipped] = NewStorage,
     !.s = [Close([@ EXCEPT !.cks = NoChainKey]) EXCEPT !.rk = m.s.rk, !.cks = m.s.cks,
                            !.recvChains = m.s.recvChains, !.mkSkipped = m.s.mkSkipped]]
(* Close zeroes the session's slices and objects, and the snapshot's.      *)
CloseMemory(m) ==
  [ZeroBytes(m, Live(m)) EXCEPT
     !.rings = [r \in DOMAIN m.rings |-> NewReceiverChains],
     !.stores = [r \in DOMAIN m.stores |-> NewStorage],
     !.s = [Close([@ EXCEPT !.cks = NoChainKey]) EXCEPT !.rk = m.s.rk, !.cks = m.s.cks,
                            !.recvChains = m.s.recvChains, !.mkSkipped = m.s.mkSkipped],
     !.prev = {}]

-----------------------------------------------------------------------------
(* References, numbered anew from 1.                                       *)
Rank(refs) == [r \in refs |-> Cardinality({x \in refs : x <= r})]
Renamed(o, cell, ring, st) ==
  [o EXCEPT !.rk = cell[@], !.cks = At(cell, @), !.recvChains = ring[@], !.mkSkipped = st[@]]

(* The heap without what neither the session nor the snapshot refers to.   *)
Collected(m) ==
  LET cell == Rank(Live(m))
      ring == Rank({o.recvChains : o \in Owners(m)})
      st   == Rank({o.mkSkipped : o \in Owners(m)})
  IN  [s |-> Renamed(m.s, cell, ring, st),
       prev |-> {Renamed(o, cell, ring, st) : o \in m.prev},
       keys |-> [c \in Range(cell) |-> m.keys[CHOOSE d \in DOMAIN cell : cell[d] = c]],
       rings |-> [r \in Range(ring) |->
                    MapRing(m.rings[CHOOSE q \in DOMAIN ring : ring[q] = r], cell)],
       stores |-> [r \in Range(st) |->
                     MapStore(m.stores[CHOOSE q \in DOMAIN st : st[q] = r], cell)]]

Finish(m) ==
  /\ calls < MaxCalls
  /\ heap' = Collected(m)
  /\ calls' = calls + 1 /\ UNCHANGED closed

NextPair == <<Owner, heap.s.dhs[2] + 1>>
Headers == [pk : {ZeroKey} \cup {<<Peer, i>> : i \in 1 .. PeerKeys},
            pn : 0 .. MaxNumber, n : 0 .. MaxNumber]

MemoryInit ==
  /\ \E v \in {InitInitiator(<<Owner, 1>>, <<Peer, 1>>), InitResponder(<<Owner, 1>>)} :
       heap = [s |-> [v EXCEPT !.rk = 1, !.cks = IF @ = NoChainKey THEN NoKey ELSE 2,
                               !.recvChains = 1, !.mkSkipped = 1],
               prev |-> {},
               keys |-> IF v.cks = NoChainKey THEN <<RootSlice(v.rk)>>
                        ELSE <<RootSlice(v.rk), v.cks>>,
               rings |-> <<NewReceiverChains>>, stores |-> <<NewStorage>>]
  /\ calls = 0 /\ closed = FALSE

(* The session the heap holds.                                             *)
Value == ValueOf(heap, heap.s)

EncryptInPlace ==
  /\ CanSend(Value) /\ ~RatchetRefused(heap.s)
  /\ Finish(AdvanceChain(IF heap.s.dhRatchetPerformed THEN RatchetSend(heap, NextPair) ELSE heap))

EncryptFails ==
  /\ heap.s.dhRatchetPerformed
  /\ Finish([heap EXCEPT !.s = DHRatchetSendFails(@)])

(* Nobody seals a message for what a closed session derives.               *)
Decrypts(h) ==
  LET got == DecryptInPlace(RecordPrev(heap), h)
  IN  ~closed /\ got.err = "ok" /\ Finish(got.m)

(* An error, or a body that does not open.                                 *)
DecryptFails(h) == Finish(RollbackMemory(DecryptInPlace(RecordPrev(heap), h).m))

CloseSession == ~closed /\ heap' = CloseMemory(heap) /\ closed' = TRUE /\ UNCHANGED calls

MemoryNext == EncryptInPlace \/ EncryptFails \/ CloseSession
              \/ \E h \in Headers : Decrypts(h) \/ DecryptFails(h)

MemorySpec == MemoryInit /\ [][MemoryNext]_<<heap, calls, closed>>

-----------------------------------------------------------------------------
(* The session computes with the keys it should have, whatever was zeroed, *)
(* evicted, recorded and rolled back before: seen through its references,  *)
(* it takes exactly the steps of a session that is a value.                *)
Calls == INSTANCE SessionCalls WITH session <- Value
ImplementsCalls == Calls!Spec

(* Close leaves no key behind in any slice the session or its snapshot     *)
(* still referred to, those they share after a rollback included, and the  *)
(* calls that come after it compute from zeroes alone, whatever ratchet    *)
(* steps they begin and roll back.                                         *)
CloseErasesSlices ==
  closed => \A c \in DOMAIN heap.keys : heap.keys[c].root = ZeroRootKey
=============================================================================
