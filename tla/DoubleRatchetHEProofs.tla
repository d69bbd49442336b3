---------------------- MODULE DoubleRatchetHEProofs -------------------------
(***************************************************************************)
(* Theorems about the pair of header-encryption sessions, for every bound  *)
(* and every value of the other constants: the invariant of                *)
(* DoubleRatchetHEInvariant holds in every reachable state, and the        *)
(* properties follow. The second part is about the keys of the epochs: the *)
(* receiver derives those the sender seals with. The third part counts, as *)
(* for the base session: what a careful application has in flight bounds   *)
(* what the store must hold, so no key is evicted and no gap too long.     *)
(***************************************************************************)
EXTENDS DoubleRatchetHEInvariant, MCDoubleRatchetHE, TLAPS

(* rollbackAll() restores the base session and all four header keys.       *)
LEMMA RollbackAllRestores ==
  ASSUME NEW s, NEW t, HEShape(s), HEShape(t)
  PROVE  RollbackAll(t, s) = s
<1>1. Rollback(t.dr, Record(s.dr)) = s.dr
  BY DEF Rollback, Record, BaseShape, HEShape, SessionFields
<1> QED
  BY <1>1 DEF RollbackAll, HEShape, HEFields

(* The receiving half of the DH ratchet step keeps the shape.              *)
LEMMA RatchetRecvShape ==
  ASSUME NEW s, NEW hdr, NEW promote, HEShape(s)
  PROVE  HEShape(PerformDHRatchetRecvHE(s, hdr, promote).s)
<1> DEFINE root  == DeriveRoot(s.dr.rk, SharedSecret(s.dr.dhs, hdr.pk))
           moved == [s EXCEPT !.hkr = IF promote THEN s.nhkr ELSE s.hkr,
                              !.nhkr = FreshHeaderKey(NextHeaderKey(root)),
                              !.dr.rk = root]
           dr    == [moved.dr EXCEPT
                       !.mkSkipped = SkipPrevChainHE(s, hdr.pn),
                       !.recvChains = Push(s.dr.recvChains, hdr.pk, FirstChainKey(root)),
                       !.dhr = hdr.pk, !.dhRSet = TRUE,
                       !.cks = NoChainKey, !.dhRatchetPerformed = TRUE]
<1>1. HEShape(moved)
  <2>1. BaseShape([s.dr EXCEPT !.rk = root])
    BY DEF HEShape, BaseShape, SessionFields
  <2>2. moved.dr = [s.dr EXCEPT !.rk = root]
    BY DEF HEShape, HEFields
  <2>3. /\ moved = [f \in HEFields |-> moved[f]] /\ moved.hks = s.hks /\ moved.nhks = s.nhks
        /\ moved.hkr \in {s.hkr, s.nhkr} /\ moved.nhkr = FreshHeaderKey(NextHeaderKey(root))
    BY DEF HEShape, HEFields
  <2>4. KeyShape(moved.hks) /\ KeyShape(moved.hkr) /\ KeyShape(moved.nhks) /\ KeyShape(moved.nhkr)
    BY <2>3 DEF HEShape, KeyShape, FreshHeaderKey
  <2> HIDE DEF moved
  <2> QED
    BY <2>1, <2>2, <2>3, <2>4 DEF HEShape
<1>2. BaseShape(dr)
  <2>1. BaseShape(moved.dr)
    BY <1>1 DEF HEShape
  <2> HIDE DEF moved, root
  <2> QED
    BY <2>1 DEF BaseShape, SessionFields
<1>3. HEShape([moved EXCEPT !.dr = dr])
  <2> HIDE DEF moved, dr
  <2> QED
    BY <1>1, <1>2 DEF HEShape, HEFields
<1>4. PerformDHRatchetRecvHE(s, hdr, promote).s \in {s, moved, [moved EXCEPT !.dr = dr]}
  BY DEF PerformDHRatchetRecvHE, Outcome, Failure
<1> QED
  BY <1>1, <1>3, <1>4

(* So does receiving on the chain in force.                                *)
LEMMA ReceiveOnChainShape ==
  ASSUME NEW s, NEW n, HEShape(s)
  PROVE  HEShape(ReceiveOnChainHE(s, n).s)
BY DEF ReceiveOnChainHE, HEShape, HEFields, BaseShape, SessionFields, Outcome, Failure

(* And so does DecryptHE up to the authentication of the body.             *)
LEMMA ReceiveKeyShape ==
  ASSUME NEW s, NEW enc, HEShape(s)
  PROVE  HEShape(ReceiveKeyHE(s, enc).s)
<1> DEFINE current == OpensHeader(s.hkr.key, enc)
           next    == ~current /\ OpensHeader(s.nhkr.key, enc)
           newPK   == ~s.dr.dhRSet \/ s.dr.dhr # enc.hdr.pk
           ratchet == IF newPK \/ next THEN PerformDHRatchetRecvHE(s, enc.hdr, next)
                      ELSE Outcome("ok", s, NoKey)
<1>1. HEShape(ratchet.s)
  BY RatchetRecvShape DEF Outcome
<1>2. HEShape(ReceiveOnChainHE(ratchet.s, enc.hdr.n).s)
  BY <1>1, ReceiveOnChainShape
<1>3. HEShape(TakeSkippedHE(s, enc).s)
  BY DEF TakeSkippedHE, HEShape, HEFields, BaseShape, SessionFields, Outcome
<1>4. HEShape(Failure("ErrAuthFailure", s).s) /\ HEShape(Failure("ErrInvalidTransition", s).s)
  BY DEF Failure, Outcome
<1> HIDE DEF ratchet
<1> QED
  BY <1>1, <1>2, <1>3, <1>4 DEF ReceiveKeyHE, ratchet

(* DecryptHE either fails and returns the session it was given, or returns *)
(* a session of the same shape.                                            *)
LEMMA DecryptHEOutcome ==
  ASSUME NEW s, NEW enc, NEW ad, NEW box, HEShape(s)
  PROVE  LET out == DecryptHE(s, enc, ad, box)
         IN  (out.err # "ok" => out.s = s) /\ HEShape(out.s)
<1> DEFINE got == ReceiveKeyHE(s, enc)
<1>1. HEShape(got.s)
  BY ReceiveKeyShape
<1>2. RollbackAll(got.s, s) = s
  BY <1>1, RollbackAllRestores
<1> QED
  BY <1>1, <1>2 DEF DecryptHE, Failure, Outcome

(* Sending keeps the shape, whether or not it takes a ratchet step first   *)
(* and also when that step fails.                                          *)
LEMMA SendShape ==
  ASSUME NEW s, NEW fresh, HEShape(s)
  PROVE  /\ HEShape(AdvanceSendHE(ReadyToSendHE(s, fresh)))
         /\ HEShape(DHRatchetSendHEFails(s))
<1>1. HEShape(ReadyToSendHE(s, fresh))
  <2> DEFINE r == PerformDHRatchetSendHE(s, fresh)
  <2>1. /\ r = [f \in HEFields |-> r[f]] /\ r.dr = PerformDHRatchetSend(s.dr, fresh)
        /\ r.hks = s.nhks /\ r.hkr = s.hkr /\ r.nhkr = s.nhkr
        /\ r.nhks = FreshHeaderKey(NextHeaderKey(r.dr.rk))
    BY DEF PerformDHRatchetSendHE, HEShape, HEFields
  <2> HIDE DEF r
  <2>2. BaseShape(r.dr)
    BY <2>1 DEF PerformDHRatchetSend, HEShape, BaseShape, SessionFields
  <2>3. HEShape(r)
    BY <2>1, <2>2 DEF HEShape, KeyShape, FreshHeaderKey
  <2> QED
    BY <2>3 DEF ReadyToSendHE, r
<1>2. HEShape(DHRatchetSendHEFails(s))
  BY DEF DHRatchetSendHEFails, HEShape, HEFields, BaseShape, SessionFields
<1>3. ASSUME NEW t, HEShape(t) PROVE HEShape(AdvanceSendHE(t))
  <2> DEFINE r == AdvanceSendHE(t)
  <2>1. /\ r = [f \in HEFields |-> r[f]] /\ r.dr = AdvanceSend(t.dr)
        /\ r.hks = [t.hks EXCEPT !.nonce = @ + 1] /\ r.hkr = t.hkr /\ r.nhkr = t.nhkr
        /\ r.nhks = t.nhks
    BY <1>3 DEF AdvanceSendHE, HEShape, HEFields
  <2> HIDE DEF r
  <2>2. BaseShape(r.dr)
    BY <1>3, <2>1 DEF AdvanceSend, HEShape, BaseShape, SessionFields
  <2>3. HEShape(r)
    BY <1>3, <2>1, <2>2 DEF HEShape, KeyShape
  <2> QED
    BY <2>3 DEF r
<1> QED
  BY <1>1, <1>2, <1>3

-----------------------------------------------------------------------------
(* And so do a send whose header is not sealed, and Close.                 *)
LEMMA CloseShape ==
  ASSUME NEW s, HEShape(s)
  PROVE  HEShape([s EXCEPT !.dr = AdvanceSend(s.dr)]) /\ HEShape(CloseHE(s))
<1>1. BaseShape(AdvanceSend(s.dr)) /\ BaseShape(Close(s.dr))
  BY DEF AdvanceSend, Close, BaseShape, HEShape, SessionFields
<1>2. HEShape([s EXCEPT !.dr = AdvanceSend(s.dr)])
  BY <1>1 DEF HEShape, HEFields
<1>3. HEShape(CloseHE(s))
  <2> DEFINE r == CloseHE(s)
  <2>1. /\ r = [f \in HEFields |-> r[f]] /\ r.dr = Close(s.dr)
        /\ r.hks = [s.hks EXCEPT !.key = ZeroHeaderKey]
        /\ r.hkr = [s.hkr EXCEPT !.key = ZeroHeaderKey]
        /\ r.nhks = [s.nhks EXCEPT !.key = ZeroHeaderKey]
        /\ r.nhkr = [s.nhkr EXCEPT !.key = ZeroHeaderKey]
    BY DEF CloseHE, HEShape, HEFields
  <2> HIDE DEF r
  <2>2. HEShape(r)
    BY <1>1, <2>1 DEF HEShape, KeyShape
  <2> QED
    BY <2>2 DEF r
<1> QED
  BY <1>2, <1>3

(* The sessions start in that shape.                                       *)
LEMMA InitShapeInv == Init => ShapeInv
<1> SUFFICES ASSUME Init PROVE ShapeInv
  OBVIOUS
<1>1. HEShape(InitInitiatorHE(KeyPair(Initiator, 0), KeyPair(Responder, 0)))
  BY DEF InitInitiatorHE, InitInitiator, HEShape, HEFields, BaseShape, SessionFields, KeyShape,
         FreshHeaderKey
<1>2. HEShape(InitResponderHE(KeyPair(Responder, 0)))
  BY DEF InitResponderHE, InitResponder, HEShape, HEFields, BaseShape, SessionFields, KeyShape,
         FreshHeaderKey
<1> QED
  BY <1>1, <1>2 DEF Init, ShapeInv

(* Replacing one party's session by one of the right shape is enough.      *)
LEMMA UpdateShapeInv ==
  ASSUME ShapeInv, NEW p \in Party, NEW t, HEShape(t),
         session' = [session EXCEPT ![p] = t]
  PROVE  ShapeInv'
BY DEF ShapeInv

-----------------------------------------------------------------------------
(* Epochs and their keys.                                                  *)

(* There are two parties.                                                  *)
LEMMA PeerFacts ==
  ASSUME NEW p \in Party
  PROVE  /\ Peer(p) \in Party /\ Peer(p) # p /\ Peer(Peer(p)) = p
         /\ Party = {p, Peer(p)}
BY PartyAssumption DEF Party, Peer

(* Division by two.                                                        *)
LEMMA DivMod ==
  ASSUME NEW t \in Nat
  PROVE  t = 2 * (t \div 2) + (t % 2) /\ t % 2 \in {0,1} /\ t \div 2 \in Nat
OBVIOUS

(* The parts of a number written as twice g plus b.                        *)
LEMMA DivMod2 ==
  ASSUME NEW g \in Nat, NEW b \in {0,1}
  PROVE  (2 * g + b) \div 2 = g /\ (2*g+b) % 2 = b
OBVIOUS

(* Different epochs have different ratchet keys.                           *)
LEMMA PairInjective ==
  ASSUME NEW t \in Nat, NEW u \in Nat, PairOf(t) = PairOf(u)
  PROVE  t = u
<1>1. Speaker(t) = Speaker(u) /\ t \div 2 = u \div 2
  BY DEF PairOf, KeyPair
<1>2. t % 2 = u % 2
  BY <1>1, DivMod, PartyAssumption DEF Speaker
<1> QED
  BY <1>1, <1>2, DivMod

(* The parties take turns.                                                 *)
LEMMA SpeakerFacts ==
  ASSUME NEW t \in Int
  PROVE  Speaker(t) \in Party /\ Speaker(t + 1) = Peer(Speaker(t)) /\ Speaker(t+2) = Speaker(t)
<1>1. (t + 1) % 2 = 1 - (t % 2) /\ t % 2 \in {0,1} /\ (t+2) % 2 = t % 2
  OBVIOUS
<1> QED
  BY <1>1, PartyAssumption DEF Speaker, Peer, Party

(* The newest ratchet key of p is that of its newest epoch.                *)
LEMMA OwnFacts ==
  ASSUME NEW p \in Party, Newest(p) \in Nat
  PROVE  Own(p) \in Nat /\ Speaker(Own(p)) = p /\ PairOf(Own(p)) = KeyPair(p, Newest(p))
<1>1. Parity(p) \in {0,1}
  BY DEF Parity
<1>2. Own(p) \div 2 = Newest(p) /\ Own(p) % 2 = Parity(p) /\ Own(p) \in Nat
  BY <1>1, DivMod2 DEF Own
<1> QED
  BY <1>2 DEF PairOf, Speaker, Parity, Party

(* f is Root, up to n.                                                     *)
RootsTo(f, n) ==
  f = [t \in 0 .. n |-> IF t = 0 THEN InitialRootKey
                        ELSE DeriveRoot(f[t - 1], SharedSecret(PairOf(t), PairOf(t - 1)))]

(* The roots can be computed up to any epoch.                              *)
LEMMA RootsToExist ==
  ASSUME NEW n \in Nat
  PROVE  \E f : RootsTo(f, n)
<1> DEFINE Bad == {k \in Nat : ~\E f : RootsTo(f, k)}
<1> SUFFICES ASSUME Bad # {} PROVE FALSE
  OBVIOUS
<1>1. PICK k \in Bad : \A j \in Bad : k <= j
  <2>1. Bad \subseteq Nat
    OBVIOUS
  <2> HIDE DEF Bad
  <2> QED BY <2>1, LeastElement
<1>2. k # 0
  <2>1. RootsTo([t \in 0 .. 0 |-> InitialRootKey], 0)
    BY DEF RootsTo
  <2> QED BY <1>1, <2>1
<1>3. PICK f : RootsTo(f, k - 1)
  BY <1>1, <1>2
<1> DEFINE g == [t \in 0 .. k |-> IF t = 0 THEN InitialRootKey
                        ELSE DeriveRoot(f[t - 1], SharedSecret(PairOf(t), PairOf(t - 1)))]
<1>4. \A t \in 0 .. k - 1 : g[t] = f[t]
  BY <1>3 DEF RootsTo
<1>5. \A t \in 0 .. k : t # 0 => g[t - 1] = f[t - 1]
  BY <1>4
<1>6. g = [t \in 0 .. k |-> IF t = 0 THEN InitialRootKey
                        ELSE DeriveRoot(g[t - 1], SharedSecret(PairOf(t), PairOf(t - 1)))]
  <2>1. \A t \in 0 .. k : g[t] = IF t = 0 THEN InitialRootKey
                        ELSE DeriveRoot(g[t - 1], SharedSecret(PairOf(t), PairOf(t - 1)))
    BY <1>5
  <2>2. g = [t \in 0 .. k |-> g[t]]
    OBVIOUS
  <2> HIDE DEF g
  <2> QED BY <2>1, <2>2
<1> HIDE DEF g
<1>7. RootsTo(g, k)
  BY <1>6 DEF RootsTo
<1> QED
  BY <1>1, <1>7

(* They do not depend on how far one computes.                             *)
LEMMA RootsToAgree ==
  ASSUME NEW n \in Nat, NEW f, RootsTo(f, n + 1), NEW g, RootsTo(g, n)
  PROVE  f[n] = g[n]
<1> DEFINE Bad == {k \in 0 .. n : f[k] # g[k]}
<1> SUFFICES ASSUME Bad # {} PROVE FALSE
  OBVIOUS
<1>1. PICK k \in Bad : \A j \in Bad : k <= j
  <2>1. Bad \subseteq Nat
    OBVIOUS
  <2> HIDE DEF Bad
  <2> QED BY <2>1, LeastElement
<1>2. /\ f[k] = IF k = 0 THEN InitialRootKey
                ELSE DeriveRoot(f[k - 1], SharedSecret(PairOf(k), PairOf(k - 1)))
      /\ g[k] = IF k = 0 THEN InitialRootKey
                ELSE DeriveRoot(g[k - 1], SharedSecret(PairOf(k), PairOf(k - 1)))
  BY DEF RootsTo
<1>3. k # 0 => f[k - 1] = g[k - 1]
  BY <1>1
<1> QED
  BY <1>2, <1>3

(* Hence some function satisfies the defining equation of Root.            *)
LEMMA RootExists ==
  \E f : f = [t \in Nat |-> IF t = 0 THEN InitialRootKey
                ELSE DeriveRoot(f[t - 1], SharedSecret(PairOf(t), PairOf(t - 1)))]
<1> DEFINE To(n) == CHOOSE f : RootsTo(f, n)
           h == [n \in Nat |-> To(n)[n]]
<1>1. \A n \in Nat : RootsTo(To(n), n)
  BY RootsToExist
<1> HIDE DEF To
<1>2. ASSUME NEW t \in Nat
      PROVE  h[t] = IF t = 0 THEN InitialRootKey
                ELSE DeriveRoot(h[t - 1], SharedSecret(PairOf(t), PairOf(t - 1)))
  <2>1. To(t)[t] = IF t = 0 THEN InitialRootKey
                ELSE DeriveRoot(To(t)[t - 1], SharedSecret(PairOf(t), PairOf(t - 1)))
    BY <1>1 DEF RootsTo
  <2>2. ASSUME t # 0 PROVE To(t)[t - 1] = To(t - 1)[t - 1]
    <3>1. t - 1 \in Nat /\ RootsTo(To(t), (t - 1) + 1) /\ RootsTo(To(t - 1), t - 1)
      BY <1>1, <2>2
    <3> QED BY <3>1, RootsToAgree
  <2> QED BY <2>1, <2>2
<1>3. h = [n \in Nat |-> h[n]]
  OBVIOUS
<1> HIDE DEF h
<1>4. h = [t \in Nat |-> IF t = 0 THEN InitialRootKey
                ELSE DeriveRoot(h[t - 1], SharedSecret(PairOf(t), PairOf(t - 1)))]
  BY <1>2, <1>3
<1> QED
  BY <1>4

(* Root satisfies its defining equation.                                   *)
LEMMA RootDef ==
  ASSUME NEW t \in Nat
  PROVE  Root[t] = IF t = 0 THEN InitialRootKey
                ELSE DeriveRoot(Root[t - 1], SharedSecret(PairOf(t), PairOf(t - 1)))
<1>1. Root = [n \in Nat |-> IF n = 0 THEN InitialRootKey
                ELSE DeriveRoot(Root[n - 1], SharedSecret(PairOf(n), PairOf(n - 1)))]
  BY RootExists DEF Root
<1> QED
  BY <1>1

(* Different epochs have different roots.                                  *)
LEMMA RootInjective ==
  ASSUME NEW t \in Nat \ {0}, NEW u \in Nat \ {0}, Root[t] = Root[u]
  PROVE  t = u
<1>1. {PairOf(t), PairOf(t - 1)} = {PairOf(u), PairOf(u - 1)}
  <2>1. /\ Root[t] = DeriveRoot(Root[t - 1], SharedSecret(PairOf(t), PairOf(t - 1)))
        /\ Root[u] = DeriveRoot(Root[u - 1], SharedSecret(PairOf(u), PairOf(u - 1)))
    BY RootDef
  <2>2. \A a, b, c, d : DeriveRoot(a, b) = DeriveRoot(c, d) => b = d
    BY DEF DeriveRoot
  <2>3. SharedSecret(PairOf(t), PairOf(t - 1)) = SharedSecret(PairOf(u), PairOf(u - 1))
    BY <2>1, <2>2
  <2> QED BY <2>3 DEF SharedSecret
<1>2. t \in {u, u - 1} /\ t - 1 \in {u, u - 1}
  <2>1. t - 1 \in Nat /\ u - 1 \in Nat
    OBVIOUS
  <2> QED BY <1>1, <2>1, PairInjective
<1> QED
  BY <1>2

(* Different epochs have different header keys, none of them zero or a key *)
(* that nobody holds.                                                      *)
LEMMA HeaderKeyFacts ==
  ASSUME NEW t \in Nat \ {0}
  PROVE  /\ HeaderKeyOf(t) # ZeroHeaderKey /\ HeaderKeyOf(t) # ForeignKey
         /\ ZeroHeaderKey # ForeignKey
         /\ \A u \in Int : HeaderKeyOf(t) = HeaderKeyOf(u) => t = u
<1>1. /\ SharedHKA # SharedNHKB /\ SharedHKA # ZeroHeaderKey /\ SharedNHKB # ZeroHeaderKey
      /\ SharedHKA # ForeignKey /\ SharedNHKB # ForeignKey /\ ZeroHeaderKey # ForeignKey
  BY DEF SharedHKA, SharedNHKB, ZeroHeaderKey, ForeignKey
<1>2. \A root : /\ NextHeaderKey(root) # SharedHKA /\ NextHeaderKey(root) # SharedNHKB
                /\ NextHeaderKey(root) # ZeroHeaderKey /\ NextHeaderKey(root) # ForeignKey
                /\ \A r2 : NextHeaderKey(root) = NextHeaderKey(r2) => root = r2
  BY DEF NextHeaderKey, SharedHKA, SharedNHKB, ZeroHeaderKey, ForeignKey
<1>3. ASSUME NEW u \in Int, HeaderKeyOf(t) = HeaderKeyOf(u) PROVE t = u
  <2>1. CASE t <= 2 \/ u <= 2
    BY <1>1, <1>2, <1>3, <2>1 DEF HeaderKeyOf
  <2>2. CASE t > 2 /\ u > 2
    <3>1. Root[t - 2] = Root[u - 2] /\ t - 2 \in Nat \ {0} /\ u - 2 \in Nat \ {0}
      BY <1>2, <1>3, <2>2 DEF HeaderKeyOf
    <3>2. t - 2 = u - 2
      BY <3>1, RootInjective
    <3> QED BY <3>2
  <2> QED BY <2>1, <2>2
<1> QED
  BY <1>1, <1>2, <1>3 DEF HeaderKeyOf

-----------------------------------------------------------------------------
(* The ways in which DecryptHE accepts a message.                          *)

(* What only sending changes is as before.                                 *)
SendHalfKept(s, t) ==
  /\ t.hks = s.hks /\ t.nhks = s.nhks
  /\ t.dr.ns = s.dr.ns /\ t.dr.pn = s.dr.pn /\ t.dr.dhs = s.dr.dhs

(* No DH ratchet step was taken.                                           *)
EpochKept(s, t) ==
  /\ t.hkr = s.hkr /\ t.nhkr = s.nhkr /\ t.dr.rk = s.dr.rk /\ t.dr.cks = s.dr.cks
  /\ t.dr.dhr = s.dr.dhr /\ t.dr.dhRSet = s.dr.dhRSet
  /\ t.dr.dhRatchetPerformed = s.dr.dhRatchetPerformed

(* A stored key was consumed.                                              *)
TookStored(s, t, enc) ==
  /\ EpochKept(s, t) /\ t.dr.recvChains = s.dr.recvChains
  /\ \E id \in MatchingEntries(s.dr.mkSkipped, enc) :
       t.dr.mkSkipped = Consume(s.dr.mkSkipped, id)

(* The chain in force advanced past n, its skipped keys filed.             *)
Advanced(s, t, n) ==
  /\ HasChain(s.dr.recvChains, s.dr.dhr) /\ ~(n < Chain(s).nr)
  /\ t.dr.mkSkipped = StoreKeys(s.dr.mkSkipped, s.hkr.key, Chain(s).ck, Chain(s).nr, n)
  /\ t.dr.recvChains = PutChain(s.dr.recvChains, s.dr.dhr,
                                DeriveNextChainKey(ChainKeyAt(Chain(s).ck, n - Chain(s).nr)), n + 1)

(* The header opened with the current header key.                          *)
OnCurrent(s, t, enc) ==
  /\ EpochKept(s, t) /\ MatchingEntries(s.dr.mkSkipped, enc) = {}
  /\ OpensHeader(s.hkr.key, enc)
  /\ Advanced(s, t, enc.hdr.n)

(* The receiving half of the DH ratchet step, taken for a header that      *)
(* opened with the next header key.                                        *)
Turned(s, r, hdr) ==
  LET root == DeriveRoot(s.dr.rk, SharedSecret(s.dr.dhs, hdr.pk))
  IN  /\ r.hkr = s.nhkr /\ r.nhkr = FreshHeaderKey(NextHeaderKey(root)) /\ r.dr.rk = root
      /\ r.dr.cks = NoChainKey /\ r.dr.dhr = hdr.pk /\ r.dr.dhRSet /\ r.dr.dhRatchetPerformed
      /\ r.dr.mkSkipped = SkipPrevChainHE(s, hdr.pn)
      /\ r.dr.recvChains = Push(s.dr.recvChains, hdr.pk, FirstChainKey(root))

(* The header opened with the next header key.                             *)
OnNext(s, t, enc) ==
  /\ MatchingEntries(s.dr.mkSkipped, enc) = {}
  /\ OpensHeader(s.nhkr.key, enc)
  /\ \E r : SendHalfKept(s, r) /\ Turned(s, r, enc.hdr) /\ EpochKept(r, t) /\ Advanced(r, t, enc.hdr.n)

(* What ReceiveOnChainHE does when it succeeds.                            *)
LEMMA AdvancedBy ==
  ASSUME NEW s, HEShape(s), NEW n, ReceiveOnChainHE(s, n).err = "ok"
  PROVE  LET t == ReceiveOnChainHE(s, n).s
         IN  SendHalfKept(s, t) /\ EpochKept(s, t) /\ Advanced(s, t, n)
<1> DEFINE pk == s.dr.dhr
           chain == GetChain(s.dr.recvChains, pk)
           at == ChainKeyAt(chain.ck, n - chain.nr)
           ms == StoreKeys(s.dr.mkSkipped, s.hkr.key, chain.ck, chain.nr, n)
           rc == PutChain(s.dr.recvChains, pk, DeriveNextChainKey(at), n + 1)
           t == [s EXCEPT !.dr.mkSkipped = ms, !.dr.recvChains = rc]
<1>1. /\ HasChain(s.dr.recvChains, pk) /\ ~(n < chain.nr)
      /\ ReceiveOnChainHE(s, n).s = [s EXCEPT !.dr.mkSkipped = StoreKeys(@, s.hkr.key, chain.ck, chain.nr, n),
                       !.dr.recvChains = PutChain(@, pk, DeriveNextChainKey(at), n + 1)]
  BY DEF ReceiveOnChainHE, Outcome, Failure
<1>2. ReceiveOnChainHE(s, n).s = t
  BY <1>1 DEF HEShape, HEFields, BaseShape, SessionFields
<1> HIDE DEF at, ms, rc
<1>3. /\ t.hks = s.hks /\ t.nhks = s.nhks /\ t.hkr = s.hkr /\ t.nhkr = s.nhkr
      /\ t.dr = [s.dr EXCEPT !.mkSkipped = ms, !.recvChains = rc]
  BY DEF HEShape, HEFields
<1> HIDE DEF t
<1>4. /\ t.dr.mkSkipped = ms /\ t.dr.recvChains = rc /\ t.dr.ns = s.dr.ns /\ t.dr.pn = s.dr.pn
      /\ t.dr.dhs = s.dr.dhs /\ t.dr.rk = s.dr.rk /\ t.dr.cks = s.dr.cks /\ t.dr.dhr = s.dr.dhr
      /\ t.dr.dhRSet = s.dr.dhRSet /\ t.dr.dhRatchetPerformed = s.dr.dhRatchetPerformed
  BY <1>3 DEF HEShape, BaseShape, SessionFields
<1> QED
  BY <1>1, <1>2, <1>3, <1>4 DEF SendHalfKept, EpochKept, Advanced, Chain, ms, rc, at

(* What PerformDHRatchetRecvHE does when it succeeds.                      *)
LEMMA TurnedBy ==
  ASSUME NEW s, HEShape(s), NEW hdr, PerformDHRatchetRecvHE(s, hdr, TRUE).err = "ok"
  PROVE  LET r == PerformDHRatchetRecvHE(s, hdr, TRUE).s
         IN  SendHalfKept(s, r) /\ Turned(s, r, hdr)
<1> DEFINE root  == DeriveRoot(s.dr.rk, SharedSecret(s.dr.dhs, hdr.pk))
           moved == [s EXCEPT !.hkr = s.nhkr,
                         !.nhkr = FreshHeaderKey(NextHeaderKey(root)),
                         !.dr.rk = root]
           r == [moved EXCEPT !.dr =
                [moved.dr EXCEPT
                   !.mkSkipped = SkipPrevChainHE(s, hdr.pn),
                   !.recvChains = Push(s.dr.recvChains, hdr.pk, FirstChainKey(root)),
                   !.dhr = hdr.pk, !.dhRSet = TRUE,
                   !.cks = NoChainKey, !.dhRatchetPerformed = TRUE]]
<1>1. PerformDHRatchetRecvHE(s, hdr, TRUE).s = r
  BY DEF PerformDHRatchetRecvHE, Outcome, Failure
<1> HIDE DEF root
<1>2. /\ moved.hks = s.hks /\ moved.nhks = s.nhks /\ moved.hkr = s.nhkr
      /\ moved.nhkr = FreshHeaderKey(NextHeaderKey(root)) /\ moved.dr = [s.dr EXCEPT !.rk = root]
      /\ DOMAIN moved = HEFields
  BY DEF HEShape, HEFields
<1>3. DOMAIN moved.dr = SessionFields /\ moved.dr.rk = root /\ moved.dr.ns = s.dr.ns
      /\ moved.dr.pn = s.dr.pn /\ moved.dr.dhs = s.dr.dhs
  BY <1>2 DEF HEShape, BaseShape, SessionFields
<1> HIDE DEF moved
<1>4. /\ r.hks = s.hks /\ r.nhks = s.nhks /\ r.hkr = s.nhkr
      /\ r.nhkr = FreshHeaderKey(NextHeaderKey(root))
      /\ r.dr = [moved.dr EXCEPT
                   !.mkSkipped = SkipPrevChainHE(s, hdr.pn),
                   !.recvChains = Push(s.dr.recvChains, hdr.pk, FirstChainKey(root)),
                   !.dhr = hdr.pk, !.dhRSet = TRUE,
                   !.cks = NoChainKey, !.dhRatchetPerformed = TRUE]
  BY <1>2 DEF HEFields
<1> HIDE DEF r
<1>5. /\ r.dr.ns = s.dr.ns /\ r.dr.pn = s.dr.pn /\ r.dr.dhs = s.dr.dhs /\ r.dr.rk = root
      /\ r.dr.cks = NoChainKey /\ r.dr.dhr = hdr.pk /\ r.dr.dhRSet = TRUE /\ r.dr.dhRatchetPerformed = TRUE
      /\ r.dr.mkSkipped = SkipPrevChainHE(s, hdr.pn)
      /\ r.dr.recvChains = Push(s.dr.recvChains, hdr.pk, FirstChainKey(root))
  BY <1>3, <1>4 DEF SessionFields
<1> QED
  BY <1>1, <1>4, <1>5 DEF SendHalfKept, Turned, root

(* What TakeSkippedHE does.                                                *)
LEMMA StoredTaken ==
  ASSUME NEW s, HEShape(s), NEW enc, MatchingEntries(s.dr.mkSkipped, enc) # {}
  PROVE  LET t == TakeSkippedHE(s, enc).s
         IN  SendHalfKept(s, t) /\ TookStored(s, t, enc)
<1> DEFINE id == CHOOSE id \in MatchingEntries(s.dr.mkSkipped, enc) : TRUE
           ms == Consume(s.dr.mkSkipped, id)
           t == [s EXCEPT !.dr.mkSkipped = ms]
<1>1. id \in MatchingEntries(s.dr.mkSkipped, enc)
  OBVIOUS
<1>2. TakeSkippedHE(s, enc).s = t
  BY DEF TakeSkippedHE, Outcome, HEShape, HEFields, BaseShape, SessionFields
<1> HIDE DEF id
<1>3. /\ t.hks = s.hks /\ t.nhks = s.nhks /\ t.hkr = s.hkr /\ t.nhkr = s.nhkr
      /\ t.dr = [s.dr EXCEPT !.mkSkipped = ms]
  BY DEF HEShape, HEFields
<1> HIDE DEF t, ms
<1>4. /\ t.dr.mkSkipped = ms /\ t.dr.recvChains = s.dr.recvChains /\ t.dr.ns = s.dr.ns /\ t.dr.pn = s.dr.pn
      /\ t.dr.dhs = s.dr.dhs /\ t.dr.rk = s.dr.rk /\ t.dr.cks = s.dr.cks /\ t.dr.dhr = s.dr.dhr
      /\ t.dr.dhRSet = s.dr.dhRSet /\ t.dr.dhRatchetPerformed = s.dr.dhRatchetPerformed
  BY <1>3 DEF HEShape, BaseShape, SessionFields
<1> QED
  BY <1>1, <1>2, <1>3, <1>4 DEF SendHalfKept, EpochKept, TookStored, ms

(* A message is accepted in one of three ways. Two facts about the session *)
(* rule out the others: without a remote key it has no header key to open  *)
(* a header with, and the header key in force belongs to the ratchet key   *)
(* in force.                                                               *)
LEMMA DecryptPaths ==
  ASSUME NEW s, HEShape(s), NEW enc, NEW ad, NEW box,
         s.dr.dhRSet \/ s.hkr.key = ZeroHeaderKey,
         s.dr.dhRSet /\ OpensHeader(s.hkr.key, enc) => s.dr.dhr = enc.hdr.pk,
         DecryptHE(s, enc, ad, box).err = "ok"
  PROVE  LET t == DecryptHE(s, enc, ad, box).s
         IN  /\ box.ad = ad /\ SendHalfKept(s, t)
             /\ TookStored(s, t, enc) \/ OnCurrent(s, t, enc) \/ OnNext(s, t, enc)
<1> DEFINE got == ReceiveKeyHE(s, enc)
           current == OpensHeader(s.hkr.key, enc)
           next    == ~current /\ OpensHeader(s.nhkr.key, enc)
           newPK   == ~s.dr.dhRSet \/ s.dr.dhr # enc.hdr.pk
           ratchet == IF newPK \/ next THEN PerformDHRatchetRecvHE(s, enc.hdr, next)
                      ELSE Outcome("ok", s, NoKey)
<1>1. /\ got.err = "ok" /\ box.ad = ad /\ DecryptHE(s, enc, ad, box).s = got.s
  BY DEF DecryptHE, Opens, Failure, Outcome
<1>2. got = IF MatchingEntries(s.dr.mkSkipped, enc) # {} THEN TakeSkippedHE(s, enc)
      ELSE IF ~current /\ ~next THEN Failure("ErrAuthFailure", s)
      ELSE IF newPK /\ ~next /\ s.dr.dhRSet THEN Failure("ErrInvalidTransition", s)
      ELSE IF ratchet.err # "ok" THEN ratchet
      ELSE ReceiveOnChainHE(ratchet.s, enc.hdr.n)
  BY DEF ReceiveKeyHE
<1> HIDE DEF got
<1>3. CASE MatchingEntries(s.dr.mkSkipped, enc) # {}
  BY <1>1, <1>2, <1>3, StoredTaken
<1>4. CASE MatchingEntries(s.dr.mkSkipped, enc) = {} /\ current
  <2>1. s.dr.dhRSet /\ ~newPK /\ ~next
    BY <1>4 DEF OpensHeader
  <2>2. ratchet = Outcome("ok", s, NoKey)
    BY <2>1
  <2>3. ratchet.err = "ok" /\ ratchet.s = s
    BY <2>2 DEF Outcome
  <2>4. got = ReceiveOnChainHE(s, enc.hdr.n)
    BY <1>2, <1>4, <2>1, <2>3
  <2>5. SendHalfKept(s, got.s) /\ EpochKept(s, got.s) /\ Advanced(s, got.s, enc.hdr.n)
    BY <1>1, <2>4, AdvancedBy
  <2> QED
    BY <1>1, <1>4, <2>5 DEF OnCurrent
<1>5. CASE MatchingEntries(s.dr.mkSkipped, enc) = {} /\ ~current
  <2>1. next
    BY <1>1, <1>2, <1>5 DEF Failure, Outcome
  <2>2. ratchet = PerformDHRatchetRecvHE(s, enc.hdr, TRUE)
    BY <2>1
  <2> DEFINE r == ratchet.s
  <2> HIDE DEF ratchet, newPK
  <2>3. ratchet.err = "ok" /\ got = ReceiveOnChainHE(r, enc.hdr.n)
    BY <1>1, <1>2, <1>5, <2>1
  <2>4. SendHalfKept(s, r) /\ Turned(s, r, enc.hdr) /\ HEShape(r)
    BY <2>2, <2>3, TurnedBy, RatchetRecvShape
  <2> HIDE DEF r
  <2>5. SendHalfKept(r, got.s) /\ EpochKept(r, got.s) /\ Advanced(r, got.s, enc.hdr.n)
    BY <1>1, <2>3, <2>4, AdvancedBy
  <2>6. SendHalfKept(s, got.s)
    BY <2>4, <2>5 DEF SendHalfKept
  <2>7. OnNext(s, got.s, enc)
    BY <1>5, <2>1, <2>4, <2>5 DEF OnNext
  <2> QED
    BY <1>1, <2>6, <2>7
<1> QED
  BY <1>3, <1>4, <1>5

-----------------------------------------------------------------------------
(* What the invariant says of one state.                                   *)

(* The epochs of a party are numbers, and its own and the heard ones       *)
(* belong to the right speaker.                                            *)
LEMMA EpochFacts ==
  ASSUME Counts, NEW p \in Party
  PROVE  /\ Newest(p) \in Nat /\ Own(p) \in Nat /\ Own(p) = 2 * Newest(p) + Parity(p)
         /\ Parity(p) \in {0, 1} /\ Speaker(Own(p)) = p
         /\ PairOf(Own(p)) = KeyPair(p, Newest(p))
         /\ Epoch(p) \in Nat /\ Heard(p) \in Int /\ Heard(p) >= -1
         /\ Speaker(Heard(p)) = Peer(p)
<1>1. Newest(p) \in Nat /\ Parity(p) \in {0, 1}
  BY DEF Counts, Newest, Parity
<1>2. Own(p) \in Nat /\ Own(p) = 2 * Newest(p) + Parity(p) /\ Speaker(Own(p)) = p
      /\ PairOf(Own(p)) = KeyPair(p, Newest(p))
  BY <1>1, OwnFacts DEF Own
<1>3. Speaker(Own(p) + 1) = Peer(p) /\ Speaker(Own(p) - 1) = Peer(p)
  <2>1. Speaker(Own(p) + 1) = Peer(p)
    BY <1>2, SpeakerFacts
  <2>2. Own(p) - 1 \in Int /\ (Own(p) - 1) + 1 = Own(p) /\ (Own(p) - 1) + 2 = Own(p) + 1
    BY <1>2
  <2>3. Speaker(Own(p) + 1) = Speaker(Own(p) - 1)
    BY <2>2, SpeakerFacts
  <2> QED BY <2>1, <2>3
<1> QED
  BY <1>1, <1>2, <1>3 DEF Epoch, Heard

(* No epoch belongs to both parties.                                       *)
LEMMA ParityApart ==
  ASSUME NEW a \in Int, NEW b \in Int, NEW p \in Party, Speaker(a) = p, Speaker(b) = Peer(p)
  PROVE  a # b
BY PeerFacts

(* Exactly before the first epoch there is no header key.                  *)
LEMMA ZeroKeyFacts ==
  ASSUME NEW t \in Int
  PROVE  (HeaderKeyOf(t) = ZeroHeaderKey <=> t <= 0) /\ HeaderKeyOf(t) # ForeignKey
<1>1. CASE t <= 0
  <2>1. HeaderKeyOf(t) = ZeroHeaderKey
    BY <1>1 DEF HeaderKeyOf
  <2> QED BY <2>1, <1>1 DEF ZeroHeaderKey, ForeignKey
<1>2. CASE ~(t <= 0)
  <2>1. t \in Nat \ {0}
    BY <1>2
  <2> QED BY <2>1, <1>2, HeaderKeyFacts
<1> QED
  BY <1>1, <1>2

(* When the next message takes a DH ratchet step.                          *)
LEMMA DueWhen ==
  ASSUME Counts, NEW p \in Party, Standing(p)
  PROVE  RatchetDue(session[p]) <=> Performed(p) \/ Epoch(p) = 0
BY DEF Standing, RatchetDue, Performed

(* What authenticates is what was sent: the associated data binds the body *)
(* to the sealed header.                                                   *)
LEMMA ArrivalGenuine ==
  ASSUME SentInv, NEW m \in network, NEW a \in Arrivals(m), a.enc.key # ForeignKey,
         a.box.ad = BuildAD(m.from, Peer(m.from), a.enc)
  PROVE  a.enc = m.enc /\ a.box.text = m.box.text
<1>1. MessageOK(m)
  BY DEF SentInv
<1>2. CASE a = m
  BY <1>2
<1>3. CASE a = [m EXCEPT !.enc.key = ForeignKey]
  BY <1>1, <1>3 DEF MessageOK
<1>4. CASE a = [m EXCEPT !.box.key = ForeignKey]
  BY <1>1, <1>4 DEF MessageOK
<1>5. CASE a \in MixedUp(m)
  <2>1. PICK x \in network : x.from = m.from /\ a = [m EXCEPT !.box = x.box]
    BY <1>5 DEF MixedUp
  <2>2. a.enc = m.enc /\ a.box = x.box
    BY <1>1, <2>1 DEF MessageOK
  <2>3. x.box.ad = BuildAD(x.from, Peer(x.from), x.enc)
    BY DEF SentInv, MessageOK
  <2>4. \A p, q, h, g : BuildAD(p, q, h) = BuildAD(p, q, g) => h = g
    BY DEF BuildAD
  <2>5. x.enc = m.enc
    BY <2>1, <2>2, <2>3, <2>4
  <2>6. x = m
    BY <2>5 DEF SentInv, MessagesDiffer
  <2> QED
    BY <2>2, <2>6
<1> QED
  BY <1>2, <1>3, <1>4, <1>5 DEF Arrivals, Intact, Broken

(* The transport changes no header, it can only break it.                  *)
LEMMA ArrivalHeader ==
  ASSUME SentInv, NEW m \in network, NEW a \in Arrivals(m)
  PROVE  a.enc.hdr = m.enc.hdr /\ a.enc.key \in {m.enc.key, ForeignKey}
<1>1. MessageOK(m)
  BY DEF SentInv
<1>2. a.enc = m.enc \/ a.enc = [m.enc EXCEPT !.key = ForeignKey]
  BY <1>1 DEF MessageOK, Arrivals, Intact, Broken, MixedUp
<1> QED
  BY <1>1, <1>2 DEF MessageOK

(* The initial state satisfies the invariant: the initiator begins in      *)
(* epoch 1, the responder in epoch 0.                                      *)
LEMMA InitHEInv == Init => HEInv
<1> SUFFICES ASSUME Init PROVE HEInv
  OBVIOUS
<1> DEFINE i == session[Initiator]
           r == session[Responder]
<1>0. /\ Initiator \in Party /\ Responder \in Party /\ Party = {Initiator, Responder}
      /\ Initiator # Responder /\ Peer(Initiator) = Responder /\ Peer(Responder) = Initiator
  BY PartyAssumption DEF Party, Peer
<1>1. ShapeInv
  BY InitShapeInv
<1>2. Counts
  BY DEF Init, Counts
<1>3. SentInv
  BY DEF Init, SentInv, MessagesDiffer
<1>4. /\ i = InitInitiatorHE(KeyPair(Initiator, 0), KeyPair(Responder, 0))
      /\ r = InitResponderHE(KeyPair(Responder, 0))
  BY <1>0 DEF Init
<1>5. /\ ~Performed(Initiator) /\ ~Performed(Responder)
      /\ Own(Initiator) = 1 /\ Own(Responder) = 0
      /\ Parity(Initiator) = 1 /\ Parity(Responder) = 0
  <2>1. generated[Initiator] = 1 /\ generated[Responder] = 1
    BY <1>0 DEF Init
  <2>2. Parity(Initiator) = 1 /\ Parity(Responder) = 0
    BY <1>0 DEF Parity
  <2>3. i.dr.dhRatchetPerformed = FALSE /\ r.dr.dhRatchetPerformed = FALSE
    BY <1>4 DEF InitInitiatorHE, InitInitiator, InitResponderHE, InitResponder
  <2> QED
    BY <2>1, <2>2, <2>3 DEF Performed, Own, Newest
<1>6. /\ Epoch(Initiator) = 1 /\ Heard(Initiator) = 0 /\ Epoch(Responder) = 0 /\ Heard(Responder) = -1
  BY <1>5 DEF Epoch, Heard
<1>7. Adjacent
  <2>1. 1 \in 0 - 1 .. 0 + 1 /\ 0 \in 1 - 1 .. 1 + 1
    OBVIOUS
  <2> QED BY <1>0, <1>5, <1>6, <2>1 DEF Adjacent
<1>8. PairOf(0) = KeyPair(Responder, 0) /\ PairOf(1) = KeyPair(Initiator, 0)
  BY DEF PairOf, Speaker
<1>9. Root[0] = InitialRootKey /\
      Root[1] = DeriveRoot(InitialRootKey, SharedSecret(KeyPair(Initiator, 0), KeyPair(Responder, 0)))
  BY RootDef, <1>8
<1>10. Standing(Initiator)
  <2>1. /\ i.dr.ns = 0 /\ i.dr.pn = 0 /\ i.dr.rk = Root[1] /\ i.dr.dhs = KeyPair(Initiator, 0)
        /\ i.dr.dhRSet = TRUE /\ i.dr.dhr = KeyPair(Responder, 0)
        /\ i.dr.cks = FirstChainKey(Root[1]) /\ i.dr.dhRatchetPerformed = FALSE
        /\ i.hks = FreshHeaderKey(SharedHKA) /\ i.hkr.key = ZeroHeaderKey
        /\ i.nhks = FreshHeaderKey(NextHeaderKey(Root[1])) /\ i.nhkr.key = SharedNHKB
    BY <1>4, <1>9 DEF InitInitiatorHE, InitInitiator, FreshHeaderKey
  <2>2. /\ HeaderKeyOf(1) = SharedHKA /\ HeaderKeyOf(0) = ZeroHeaderKey
        /\ HeaderKeyOf(0 + 2) = SharedNHKB /\ HeaderKeyOf(1 + 2) = NextHeaderKey(Root[1])
    BY DEF HeaderKeyOf
  <2>3. i.dr.cks # NoChainKey
    BY <2>1 DEF FirstChainKey, NoChainKey
  <2> QED
    BY <2>1, <2>2, <2>3, <1>5, <1>6, <1>8 DEF Standing, FreshHeaderKey
<1>11. Standing(Responder)
  <2>1. /\ r.dr.ns = 0 /\ r.dr.pn = 0 /\ r.dr.rk = Root[0] /\ r.dr.dhs = KeyPair(Responder, 0)
        /\ r.dr.dhRSet = FALSE
        /\ r.dr.cks = NoChainKey /\ r.dr.dhRatchetPerformed = FALSE
        /\ r.hkr.key = ZeroHeaderKey
        /\ r.nhks = FreshHeaderKey(SharedNHKB) /\ r.nhkr.key = SharedHKA
    BY <1>4, <1>9 DEF InitResponderHE, InitResponder, FreshHeaderKey
  <2>2. /\ HeaderKeyOf(-1) = ZeroHeaderKey
        /\ HeaderKeyOf(0 + 2) = SharedNHKB /\ HeaderKeyOf((-1) + 2) = SharedHKA
    BY DEF HeaderKeyOf
  <2> QED
    BY <2>1, <2>2, <1>5, <1>6, <1>8 DEF Standing, RatchetDue
<1>12. ASSUME NEW p \in Party PROVE Holding(p)
  <2>1. session[p].dr.recvChains = NewReceiverChains /\ session[p].dr.mkSkipped = NewStorage
    BY <1>0, <1>4 DEF InitInitiatorHE, InitInitiator, InitResponderHE, InitResponder
  <2>2. RingOK(NewReceiverChains) /\ Held(NewReceiverChains) = {}
    BY CapacityAssumption DEF RingOK, NewReceiverChains, Slots, Held
  <2>3. DOMAIN NewStorage.entries = {}
    BY DEF NewStorage
  <2> QED
    BY <2>1, <2>2, <2>3 DEF Holding
<1>13. ASSUME NEW p \in Party PROVE Once(p)
  BY DEF Once, Init, Taken
<1>14. closed = {}
  BY DEF Init
<1>15. \A p \in Party : PartyInv(p)
  <2>1. Standing(Initiator) /\ Standing(Responder)
    BY <1>10, <1>11
  <2> QED BY <2>1, <1>0, <1>12, <1>13, <1>14 DEF PartyInv
<1> QED
  BY <1>1, <1>2, <1>3, <1>7, <1>15 DEF HEInv

(* What the invariant gives at one party.                                  *)
LEMMA StandFacts ==
  ASSUME HEInv, NEW p \in Party
  PROVE  /\ Counts /\ Peer(p) \in Party /\ Peer(p) # p /\ Peer(Peer(p)) = p /\ Party = {p, Peer(p)}
         /\ HEShape(session[p]) /\ session = [x \in Party |-> session[x]]
         /\ p \notin closed => Standing(p) /\ Holding(p)
         /\ p \in closed => Erased(p)
         /\ Once(p)
BY PeerFacts DEF HEInv, PartyInv, ShapeInv

(* A closed session neither sends nor accepts.                             *)
LEMMA ClosedSilent ==
  ASSUME HEInv, NEW p \in Party, p \in closed
  PROVE  /\ ~EncryptHE(p) /\ ~EncryptHEFails(p) /\ ~DecryptHEAccepts(p)
<1> DEFINE s == session[p]
<1>1. Erased(p) /\ HEShape(s)
  BY StandFacts
<1>2. /\ s.hks.key = ZeroHeaderKey /\ s.hkr.key = ZeroHeaderKey /\ s.nhkr.key = ZeroHeaderKey
      /\ ~s.dr.dhRSet /\ DOMAIN s.dr.mkSkipped.entries = {}
  BY <1>1 DEF Erased, NewStorage
<1>3. ~EncryptHE(p) /\ ~EncryptHEFails(p)
  BY <1>2 DEF EncryptHE, EncryptHEFails, CanSendHE, HeaderKeyZeroed
<1>4. ASSUME NEW enc, NEW ad, NEW box PROVE DecryptHE(s, enc, ad, box).err # "ok"
  <2> SUFFICES ASSUME DecryptHE(s, enc, ad, box).err = "ok" PROVE FALSE
    OBVIOUS
  <2>1. ~OpensHeader(s.hkr.key, enc) /\ ~OpensHeader(s.nhkr.key, enc)
        /\ MatchingEntries(s.dr.mkSkipped, enc) = {}
    BY <1>2 DEF OpensHeader, MatchingEntries
  <2> DEFINE t == DecryptHE(s, enc, ad, box).s
  <2> HIDE DEF s
  <2>2. TookStored(s, t, enc) \/ OnCurrent(s, t, enc) \/ OnNext(s, t, enc)
    BY <1>1, <1>2, <2>1, DecryptPaths
  <2> QED
    BY <2>1, <2>2 DEF TookStored, OnCurrent, OnNext
<1> QED
  BY <1>3, <1>4 DEF DecryptHEAccepts, DecryptArrival

(* EncryptHeader refuses no header of an open session.                     *)
LEMMA OpenHeaderSealed ==
  ASSUME HEInv, NEW p \in Party, p \notin closed
  PROVE  ~HeaderNotSealed(p)
<1>1. Standing(p) /\ Counts
  BY StandFacts
<1>2. ASSUME ~RatchetDue(session[p]) PROVE session[p].hks.key # ZeroHeaderKey
  <2>1. ~Performed(p) /\ Epoch(p) # 0 /\ Epoch(p) \in Nat
    BY <1>1, <1>2, DueWhen, EpochFacts
  <2>2. session[p].hks.key = HeaderKeyOf(Epoch(p))
    BY <1>1, <1>2 DEF Standing
  <2> QED BY <2>1, <2>2, ZeroKeyFacts
<1> QED
  BY <1>2 DEF HeaderNotSealed, HeaderKeyZeroed

-----------------------------------------------------------------------------
(* What stays when a party is not touched, or only its other half is.      *)

(* What only receiving changes is as before.                               *)
ReceiveHalfKept(s, t) ==
  /\ t.hkr = s.hkr /\ t.nhkr = s.nhkr /\ t.dr.dhr = s.dr.dhr /\ t.dr.dhRSet = s.dr.dhRSet
  /\ t.dr.recvChains = s.dr.recvChains /\ t.dr.mkSkipped = s.dr.mkSkipped

(* Nothing that the invariant says of p changes when its session stays.    *)
LEMMA PartyKept ==
  ASSUME HEInv, NEW p \in Party, session'[p] = session[p], generated'[p] = generated[p]
  PROVE  /\ Performed(p)' = Performed(p) /\ Own(p)' = Own(p) /\ Epoch(p)' = Epoch(p) /\ Heard(p)' = Heard(p)
         /\ Standing(p) => Standing(p)'
         /\ Holding(p) => Holding(p)'
         /\ Erased(p) => Erased(p)'
<1>1. Performed(p)' = Performed(p) /\ Own(p)' = Own(p) /\ Epoch(p)' = Epoch(p) /\ Heard(p)' = Heard(p)
  BY DEF Performed, Own, Newest, Epoch, Heard
<1>2. Standing(p) => Standing(p)'
  BY <1>1 DEF Standing
<1>3. Holding(p) => Holding(p)'
  BY <1>1 DEF Holding, Chain
<1>4. Erased(p) => Erased(p)'
  BY DEF Erased
<1> QED
  BY <1>1, <1>2, <1>3, <1>4

(* A message stays as the invariant says, while its sender sends on, takes *)
(* new ratchet keys or closes.                                             *)
LEMMA MessageKept ==
  ASSUME HEInv, NEW m \in network, Own(m.from)' >= Own(m.from), Own(m.from)' \in Int,
         sent'[m.from] \in Nat, sent'[m.from] >= sent[m.from], closed \subseteq closed',
         m.from \in closed' \/ RatchetDue(session'[m.from]) \/ Own(m.from)' > Own(m.from)
         \/ (/\ ~RatchetDue(session[m.from])
             /\ session[m.from].dr.ns \in Nat /\ session'[m.from].dr.ns \in Nat
             /\ session'[m.from].dr.ns >= session[m.from].dr.ns)
  PROVE  MessageOK(m)'
<1>1. MessageOK(m) /\ Counts
  BY DEF HEInv, SentInv
<1>2. m.from \in Party /\ Own(m.from) \in Nat /\ sent[m.from] \in Nat
  BY <1>1, EpochFacts DEF MessageOK, Counts
<1>3. EpochOf(m) \in Int /\ EpochOf(m)' = EpochOf(m)
  BY <1>1 DEF MessageOK, EpochOf
<1> DEFINE e == EpochOf(m)
           o == Own(m.from)
<1>4. EpochOf(m)' \in 1 .. Own(m.from)'
  <2>1. e \in 1 .. o
    BY <1>1 DEF MessageOK
  <2> HIDE DEF e, o
  <2> QED
    BY <1>2, <1>3, <2>1 DEF e, o
<1>5. m.box.text \in 0 .. sent'[m.from] - 1
  BY <1>1, <1>2 DEF MessageOK
<1>6. (EpochOf(m)' = Own(m.from)' /\ ~RatchetDue(session'[m.from]) /\ m.from \notin closed')
       => m.enc.hdr.n < session'[m.from].dr.ns
  <2> SUFFICES ASSUME EpochOf(m)' = Own(m.from)', ~RatchetDue(session'[m.from]), m.from \notin closed'
               PROVE  m.enc.hdr.n < session'[m.from].dr.ns
    OBVIOUS
  <2>1. e <= o /\ e \in Int /\ o \in Int
    BY <1>1, <1>2 DEF MessageOK
  <2>2. e = o /\ ~(Own(m.from)' > o)
    <3> HIDE DEF e, o
    <3> QED BY <2>1, <1>3 DEF e, o
  <2>3. m.from \notin closed
    OBVIOUS
  <2>4. /\ ~RatchetDue(session[m.from])
        /\ session[m.from].dr.ns \in Nat /\ session'[m.from].dr.ns \in Nat
        /\ session'[m.from].dr.ns >= session[m.from].dr.ns
    BY <2>2
  <2>5. m.enc.hdr.n < session[m.from].dr.ns /\ m.enc.hdr.n \in Nat
    BY <1>1, <2>2, <2>3, <2>4 DEF MessageOK
  <2> QED BY <2>4, <2>5
<1> QED
  BY <1>1, <1>3, <1>4, <1>5, <1>6 DEF MessageOK

(* Sending leaves behind what is behind,                                   *)
LEMMA BehindKept ==
  ASSUME NEW p \in Party, NEW m, Heard(p)' = Heard(p), ReceiveHalfKept(session[p], session'[p]), Behind(p, m)
  PROVE  Behind(p, m)'
BY DEF Behind, ReceiveHalfKept, Chain, EpochOf

(* ... and the receiving chains as they are.                               *)
LEMMA HoldingKept ==
  ASSUME NEW p \in Party, Heard(p)' = Heard(p), ReceiveHalfKept(session[p], session'[p]), Holding(p)
  PROVE  Holding(p)'
BY DEF Holding, ReceiveHalfKept, Chain

(* A step of one party leaves what the invariant says of the other.        *)
LEMMA OtherKept ==
  ASSUME HEInv, NEW p \in Party, session'[p] = session[p], generated'[p] = generated[p],
         closed' \cap {p} = closed \cap {p},
         accepted'[p] = accepted[p], replayed'[p] = replayed[p],
         sent'[Peer(p)] \in Nat, sent'[Peer(p)] >= sent[Peer(p)],
         \A m \in network' : m.from = Peer(p) /\ m.box.text \in accepted[p] => m \in network
  PROVE  PartyInv(p)'
<1>1. PartyInv(p) /\ Counts /\ Peer(p) \in Party
  BY StandFacts DEF HEInv
<1>2. sent[Peer(p)] \in Nat
  BY <1>1 DEF Counts
<1>3. /\ Heard(p)' = Heard(p) /\ (Standing(p) => Standing(p)') /\ (Holding(p) => Holding(p)')
      /\ (Erased(p) => Erased(p)')
  BY PartyKept
<1>4. \A m : Behind(p, m) => Behind(p, m)'
  BY <1>3, BehindKept DEF ReceiveHalfKept
<1>5. p \in closed' <=> p \in closed
  OBVIOUS
<1>6. Taken(p)' \subseteq Taken(p)
  BY DEF Taken
<1>7. \A txt \in accepted'[p] : txt \in 0 .. sent'[Peer(p)] - 1
  BY <1>1, <1>2 DEF PartyInv, Once
<1>8. Once(p)'
  BY <1>1, <1>4, <1>5, <1>6, <1>7 DEF PartyInv, Once
<1> QED
  BY <1>1, <1>3, <1>5, <1>8 DEF PartyInv

(* The messages of a party that neither sends nor draws a key stay as they *)
(* are.                                                                    *)
LEMMA IdleMessages ==
  ASSUME HEInv, NEW m \in network, closed \subseteq closed', sent'[m.from] = sent[m.from],
         generated'[m.from] = generated[m.from],
         RatchetDue(session[m.from]) => RatchetDue(session'[m.from]),
         session'[m.from].dr.ns = session[m.from].dr.ns \/ RatchetDue(session'[m.from])
  PROVE  MessageOK(m)'
<1>1. m.from \in Party /\ Counts
  BY StandFacts DEF HEInv, SentInv, MessageOK
<1>2. Own(m.from)' = Own(m.from) /\ Own(m.from) \in Nat /\ sent[m.from] \in Nat
  BY <1>1, EpochFacts DEF Own, Newest, Counts
<1>3. m.from \in closed' \/ RatchetDue(session'[m.from]) \/
         (/\ ~RatchetDue(session[m.from])
             /\ session[m.from].dr.ns \in Nat /\ session'[m.from].dr.ns \in Nat
             /\ session'[m.from].dr.ns >= session[m.from].dr.ns)
  <2> SUFFICES ASSUME m.from \notin closed', ~RatchetDue(session'[m.from])
               PROVE  /\ ~RatchetDue(session[m.from])
                      /\ session[m.from].dr.ns \in Nat
                      /\ session'[m.from].dr.ns = session[m.from].dr.ns
    OBVIOUS
  <2>1. m.from \notin closed
    OBVIOUS
  <2>2. Standing(m.from)
    BY <1>1, <2>1, StandFacts
  <2> QED
    BY <2>2 DEF Standing
<1> QED
  BY <1>2, <1>3, MessageKept

-----------------------------------------------------------------------------
(* EncryptHE.                                                              *)

(* A message was sent after a DH ratchet step.                             *)
SentFirst(s, ready, t, fresh) ==
  LET root == DeriveRoot(s.dr.rk, SharedSecret(fresh, s.dr.dhr))
  IN  /\ ready.hks = s.nhks /\ HeaderOf(ready.dr) = [pk |-> fresh, pn |-> s.dr.ns, n |-> 0]
      /\ t.dr.ns = 1 /\ t.dr.pn = s.dr.ns /\ t.dr.rk = root /\ t.dr.dhs = fresh
      /\ t.dr.cks # NoChainKey /\ t.dr.dhRatchetPerformed = FALSE
      /\ t.hks = [s.nhks EXCEPT !.nonce = @ + 1] /\ t.nhks = FreshHeaderKey(NextHeaderKey(root))

(* A message was sent on the sending chain in force.                       *)
SentNext(s, ready, t) ==
  /\ ready = s
  /\ t.dr.ns = s.dr.ns + 1 /\ t.dr.pn = s.dr.pn /\ t.dr.rk = s.dr.rk /\ t.dr.dhs = s.dr.dhs
  /\ t.dr.cks # NoChainKey /\ t.dr.dhRatchetPerformed = s.dr.dhRatchetPerformed
  /\ t.hks = [s.hks EXCEPT !.nonce = @ + 1] /\ t.nhks = s.nhks

(* What AdvanceSendHE does.                                                *)
LEMMA AdvanceEffects ==
  ASSUME NEW s, HEShape(s)
  PROVE  LET t == AdvanceSendHE(s)
         IN  /\ ReceiveHalfKept(s, t) /\ t.hks = [s.hks EXCEPT !.nonce = @ + 1] /\ t.nhks = s.nhks
             /\ t.dr.ns = s.dr.ns + 1 /\ t.dr.pn = s.dr.pn /\ t.dr.rk = s.dr.rk /\ t.dr.dhs = s.dr.dhs
             /\ t.dr.cks # NoChainKey /\ t.dr.dhRatchetPerformed = s.dr.dhRatchetPerformed
<1> DEFINE t == AdvanceSendHE(s)
           dr == AdvanceSend(s.dr)
<1>1. /\ t.dr = dr /\ t.hks = [s.hks EXCEPT !.nonce = @ + 1] /\ t.nhks = s.nhks
      /\ t.hkr = s.hkr /\ t.nhkr = s.nhkr
  BY DEF AdvanceSendHE, HEShape, HEFields
<1>2. /\ dr.ns = s.dr.ns + 1 /\ dr.pn = s.dr.pn /\ dr.rk = s.dr.rk /\ dr.dhs = s.dr.dhs
      /\ dr.cks = DeriveNextChainKey(s.dr.cks) /\ dr.dhRatchetPerformed = s.dr.dhRatchetPerformed
      /\ dr.dhr = s.dr.dhr /\ dr.dhRSet = s.dr.dhRSet
      /\ dr.recvChains = s.dr.recvChains /\ dr.mkSkipped = s.dr.mkSkipped
  BY DEF AdvanceSend, HEShape, BaseShape, SessionFields
<1>3. dr.cks # NoChainKey
  BY <1>2 DEF DeriveNextChainKey, NoChainKey
<1> HIDE DEF t, dr
<1>4. ReceiveHalfKept(s, t)
  BY <1>1, <1>2 DEF ReceiveHalfKept
<1> QED
  BY <1>1, <1>2, <1>3, <1>4 DEF t

(* What the two kinds of EncryptHE do.                                     *)
LEMMA SendEffects ==
  ASSUME NEW s, HEShape(s), NEW fresh
  PROVE  LET ready == ReadyToSendHE(s, fresh)
             t == AdvanceSendHE(ready)
         IN  /\ ReceiveHalfKept(s, t)
             /\ RatchetDue(s) => SentFirst(s, ready, t, fresh)
             /\ ~RatchetDue(s) => SentNext(s, ready, t)
<1> DEFINE ready == ReadyToSendHE(s, fresh)
           t == AdvanceSendHE(ready)
<1>1. CASE ~RatchetDue(s)
  BY <1>1, AdvanceEffects DEF ReadyToSendHE, SentNext
<1>2. CASE RatchetDue(s)
  <2> DEFINE root == DeriveRoot(s.dr.rk, SharedSecret(fresh, s.dr.dhr))
             dr == PerformDHRatchetSend(s.dr, fresh)
  <2>1. ready = PerformDHRatchetSendHE(s, fresh)
    BY <1>2 DEF ReadyToSendHE
  <2>2. /\ dr.ns = 0 /\ dr.pn = s.dr.ns /\ dr.rk = root /\ dr.dhs = fresh
        /\ dr.dhRatchetPerformed = FALSE
        /\ dr.dhr = s.dr.dhr /\ dr.dhRSet = s.dr.dhRSet
        /\ dr.recvChains = s.dr.recvChains /\ dr.mkSkipped = s.dr.mkSkipped
        /\ BaseShape(dr)
    BY DEF PerformDHRatchetSend, HEShape, BaseShape, SessionFields
  <2> HIDE DEF dr
  <2>3. /\ ready.dr = dr /\ ready.hks = s.nhks /\ ready.nhks = FreshHeaderKey(NextHeaderKey(root))
        /\ ready.hkr = s.hkr /\ ready.nhkr = s.nhkr /\ HEShape(ready)
    <3>1. /\ ready.dr = dr /\ ready.hks = s.nhks /\ ready.nhks = FreshHeaderKey(NextHeaderKey(root))
          /\ ready.hkr = s.hkr /\ ready.nhkr = s.nhkr /\ ready = [f \in HEFields |-> ready[f]]
      BY <2>1, <2>2 DEF PerformDHRatchetSendHE, HEShape, HEFields, dr
    <3> HIDE DEF ready, root
    <3> QED
      BY <2>2, <3>1 DEF HEShape, KeyShape, FreshHeaderKey
  <2> HIDE DEF ready, root
  <2>4. /\ ReceiveHalfKept(ready, t) /\ t.hks = [ready.hks EXCEPT !.nonce = @ + 1] /\ t.nhks = ready.nhks
        /\ t.dr.ns = ready.dr.ns + 1 /\ t.dr.pn = ready.dr.pn /\ t.dr.rk = ready.dr.rk /\ t.dr.dhs = ready.dr.dhs
        /\ t.dr.cks # NoChainKey /\ t.dr.dhRatchetPerformed = ready.dr.dhRatchetPerformed
    BY <2>3, AdvanceEffects
  <2> HIDE DEF t
  <2>5. HeaderOf(ready.dr) = [pk |-> fresh, pn |-> s.dr.ns, n |-> 0]
    BY <2>2, <2>3 DEF HeaderOf
  <2>6. ReceiveHalfKept(s, t)
    BY <2>2, <2>3, <2>4 DEF ReceiveHalfKept
  <2>7. SentFirst(s, ready, t, fresh)
    BY <2>2, <2>3, <2>4, <2>5 DEF SentFirst, root
  <2> QED
    BY <1>2, <2>6, <2>7 DEF t, ready
<1> QED
  BY <1>1, <1>2

(* Where EncryptHE leaves the epochs: a party that owes an answer enters   *)
(* its next epoch with a fresh ratchet key, another one stays in its own.  *)
LEMMA EncryptEpochs ==
  ASSUME HEInv, NEW p \in Party, EncryptHE(p)
  PROVE  LET s == session[p]
             t == session'[p]
             ready == ReadyToSendHE(s, KeyPair(p, generated[p]))
         IN  /\ p \notin closed /\ Standing(p) /\ Holding(p)
             /\ t = AdvanceSendHE(ready) /\ HEShape(s) /\ HEShape(t)
             /\ Heard(p)' = Heard(p) /\ ~Performed(p)' /\ Epoch(p)' = Own(p)'
             /\ \/ /\ RatchetDue(s) /\ Performed(p) /\ SentFirst(s, ready, t, KeyPair(p, generated[p]))
                   /\ generated'[p] = generated[p] + 1 /\ Own(p)' = Own(p) + 2
                   /\ KeyPair(p, generated[p]) = PairOf(Own(p) + 2)
                \/ /\ ~RatchetDue(s) /\ ~Performed(p) /\ Own(p) > 0 /\ SentNext(s, ready, t)
                   /\ generated'[p] = generated[p] /\ Own(p)' = Own(p)
<1> DEFINE s == session[p]
           t == session'[p]
           fresh == KeyPair(p, generated[p])
           ready == ReadyToSendHE(s, fresh)
           g == generated[p]
<1>1. p \notin closed
  BY ClosedSilent
<1>2. Standing(p) /\ Holding(p) /\ HEShape(s) /\ Counts
  BY <1>1, StandFacts
<1>3. t = AdvanceSendHE(ready) /\ HEShape(t)
  BY <1>2, SendShape, StandFacts DEF EncryptHE
<1>4. /\ RatchetDue(s) => SentFirst(s, ready, t, fresh)
      /\ ~RatchetDue(s) => SentNext(s, ready, t)
  BY <1>2, <1>3, SendEffects
<1>5. g \in Nat \ {0} /\ Newest(p) = g - 1 /\ Own(p) = 2 * Newest(p) + Parity(p) /\ Parity(p) \in {0, 1}
      /\ Own(p) \in Nat /\ Epoch(p) \in Nat
  BY <1>2, EpochFacts DEF Counts, Newest
<1>6. RatchetDue(s) <=> Performed(p) \/ Epoch(p) = 0
  BY <1>2, DueWhen
<1>7. CASE RatchetDue(s)
  <2>1. Performed(p)
    <3>1. s.dr.dhRSet
      BY <1>7 DEF EncryptHE, CanSendHE
    <3>2. Epoch(p) > 0
      BY <1>2, <3>1 DEF Standing
    <3> QED BY <3>2, <1>5, <1>6, <1>7
  <2>2. generated'[p] = g + 1
    BY <1>2, <1>7 DEF EncryptHE, Counts
  <2>3. Newest(p)' = Newest(p) + 1
    BY <2>2, <1>5 DEF Newest
  <2>4. Own(p)' = Own(p) + 2 /\ Newest(p)' = g
    BY <2>3, <1>5 DEF Own
  <2>5. fresh = PairOf(Own(p) + 2)
    <3>1. (2 * g + Parity(p)) \div 2 = g /\ (2 * g + Parity(p)) % 2 = Parity(p)
      BY <1>5, DivMod2
    <3>2. Own(p) + 2 = 2 * g + Parity(p)
      BY <1>5
    <3>3. Speaker(Own(p) + 2) = p
      BY <1>2, <1>5, EpochFacts, SpeakerFacts
    <3> QED BY <3>1, <3>2, <3>3 DEF PairOf
  <2>6. ~Performed(p)'
    BY <1>4, <1>7 DEF SentFirst, Performed
  <2> QED
    BY <1>1, <1>2, <1>3, <1>4, <1>5, <1>7, <2>1, <2>2, <2>4, <2>5, <2>6 DEF Heard, Epoch
<1>8. CASE ~RatchetDue(s)
  <2>1. ~Performed(p) /\ Own(p) > 0
    BY <1>5, <1>6, <1>8 DEF Epoch
  <2>2. generated'[p] = g
    BY <1>8 DEF EncryptHE
  <2>3. Own(p)' = Own(p)
    BY <2>2 DEF Own, Newest
  <2>4. ~Performed(p)'
    BY <1>4, <1>8, <2>1 DEF SentNext, Performed
  <2> QED
    BY <1>1, <1>2, <1>3, <1>4, <1>8, <2>1, <2>2, <2>3, <2>4 DEF Heard, Epoch
<1> QED
  BY <1>7, <1>8

(* The new message is as the invariant says, and no message has its number *)
(* in its chain yet.                                                       *)
LEMMA EncryptMessage ==
  ASSUME HEInv, NEW p \in Party, EncryptHE(p)
  PROVE  \E m : /\ network' = network \cup {m} /\ MessageOK(m)'
                /\ m.from = p /\ m.box.text = sent[p]
                /\ \A x \in network : ~(x.enc.hdr.pk = m.enc.hdr.pk /\ x.enc.hdr.n = m.enc.hdr.n)
<1> DEFINE s == session[p]
           t == session'[p]
           fresh == KeyPair(p, generated[p])
           ready == ReadyToSendHE(s, fresh)
           o == Own(p)'
<1>1. /\ p \notin closed /\ Standing(p) /\ ~Performed(p)' /\ Epoch(p)' = o
      /\ \/ /\ RatchetDue(s) /\ Performed(p) /\ SentFirst(s, ready, t, fresh)
            /\ generated'[p] = generated[p] + 1 /\ o = Own(p) + 2 /\ fresh = PairOf(o)
         \/ /\ ~RatchetDue(s) /\ ~Performed(p) /\ Own(p) > 0 /\ SentNext(s, ready, t)
            /\ generated'[p] = generated[p] /\ o = Own(p)
  <2> HIDE DEF s, t, ready, fresh, o
  <2> USE DEF s, t, ready, fresh, o
  <2> QED BY EncryptEpochs
<1>2. /\ Counts /\ Own(p) \in Nat /\ Own(p) = 2 * Newest(p) + Parity(p) /\ Speaker(Own(p)) = p
      /\ PairOf(Own(p)) = KeyPair(p, Newest(p)) /\ Newest(p) = generated[p] - 1
      /\ generated[p] \in Nat \ {0} /\ Parity(p) \in {0, 1} /\ sent[p] \in Nat
  BY StandFacts, EpochFacts DEF Newest, Counts
<1> DEFINE n == HeaderOf(ready.dr).n
           g == IF RatchetDue(s) THEN generated[p] ELSE generated[p] - 1
<1>3. /\ ready.hks = [key |-> HeaderKeyOf(o), nonce |-> n] /\ n \in Nat /\ n < t.dr.ns
      /\ HeaderOf(ready.dr) = [pk |-> KeyPair(p, g), pn |-> HeaderOf(ready.dr).pn, n |-> n]
      /\ HeaderOf(ready.dr).pn \in Nat /\ KeyPair(p, g) = PairOf(o) /\ o = 2 * g + Parity(p)
      /\ o \in Nat \ {0} /\ Speaker(o) = p
  <2>1. CASE RatchetDue(s)
    <3>1. /\ SentFirst(s, ready, t, fresh) /\ o = Own(p) + 2 /\ fresh = PairOf(o)
      BY <1>1, <2>1
    <3>2. s.nhks = FreshHeaderKey(HeaderKeyOf(Own(p) + 2)) /\ s.dr.ns \in Nat
      BY <1>1 DEF Standing
    <3>3. Speaker(Own(p) + 2) = p
      BY <1>2, SpeakerFacts
    <3>4. g = generated[p]
      BY <2>1
    <3> QED
      BY <1>2, <3>1, <3>2, <3>3, <3>4 DEF SentFirst, FreshHeaderKey
  <2>2. CASE ~RatchetDue(s)
    <3>1. /\ SentNext(s, ready, t) /\ o = Own(p) /\ Own(p) > 0 /\ ~Performed(p)
      BY <1>1, <2>2
    <3>2. /\ s.hks = [key |-> HeaderKeyOf(Own(p)), nonce |-> s.dr.ns]
          /\ s.dr.ns \in Nat /\ s.dr.pn \in Nat /\ s.dr.dhs = PairOf(Own(p))
      BY <1>1, <2>2, <3>1 DEF Standing, Epoch
    <3>3. n = s.dr.ns /\ HeaderOf(ready.dr) = [pk |-> s.dr.dhs, pn |-> s.dr.pn, n |-> s.dr.ns]
      BY <3>1 DEF HeaderOf, SentNext
    <3>4. t.dr.ns = s.dr.ns + 1 /\ ready = s
      BY <3>1 DEF SentNext
    <3>5. g = generated[p] - 1
      BY <2>2
    <3> QED
      BY <1>2, <3>1, <3>2, <3>3, <3>4, <3>5
  <2> QED BY <2>1, <2>2
<1>m. PICK m : m = MessageOf(p, ready)
  OBVIOUS
<1> HIDE DEF n, g, ready, o
<1>4. /\ m.from = p /\ m.enc = [key |-> HeaderKeyOf(o), nonce |-> n, hdr |-> HeaderOf(ready.dr)]
      /\ m.box.ad = BuildAD(p, Peer(p), m.enc) /\ m.box.text = sent[p]
      /\ DOMAIN m = {"from", "enc", "box"} /\ DOMAIN m.box = {"key", "ad", "text"}
      /\ DOMAIN m.enc = {"key", "nonce", "hdr"}
  BY <1>3, <1>m DEF MessageOf, SealHeader, Seal
<1>5. network' = network \cup {m}
  BY <1>m DEF EncryptHE, ready
<1>6. m.enc.key = HeaderKeyOf(o) /\ m.enc.nonce = n /\ m.enc.hdr.pk = KeyPair(p, g) /\ m.enc.hdr.n = n
      /\ m.enc.hdr.pn \in Nat
  BY <1>3, <1>4
<1>7. EpochOf(m) = o
  <2>1. m.enc.hdr.pk[2] = g
    BY <1>6 DEF KeyPair
  <2> QED BY <2>1, <1>3, <1>4 DEF EpochOf
<1>8. sent'[p] = sent[p] + 1
  BY <1>2 DEF EncryptHE, Counts
<1>9. MessageOK(m)'
  <2>1. EpochOf(m)' = o
    BY <1>7 DEF EpochOf
  <2>2. Own(m.from)' = o
    BY <1>4 DEF o
  <2>3. m.box.text \in 0 .. sent'[p] - 1
    BY <1>2, <1>4, <1>8
  <2>4. o \in 1 .. o
    BY <1>3
  <2> QED
    BY <1>3, <1>4, <1>6, <2>1, <2>2, <2>3, <2>4 DEF MessageOK
<1>10. ASSUME NEW x \in network, x.enc.hdr.pk = m.enc.hdr.pk, x.enc.hdr.n = m.enc.hdr.n
       PROVE  FALSE
  <2>1. MessageOK(x)
    BY DEF HEInv, SentInv
  <2>2. EpochOf(x) \in Nat /\ PairOf(EpochOf(x)) = PairOf(o)
    BY <2>1, <1>3, <1>6, <1>10 DEF MessageOK
  <2>3. EpochOf(x) = o
    BY <2>2, <1>3, PairInjective
  <2>4. x.from = p
    BY <2>1, <2>3, <1>3 DEF MessageOK
  <2>5. o <= Own(p)
    BY <2>1, <2>3, <2>4, <1>2 DEF MessageOK
  <2>6. ~RatchetDue(s) /\ o = Own(p) /\ SentNext(s, ready, t)
    <3>1. ~(o = Own(p) + 2)
      BY <2>5, <1>2, <1>3
    <3> QED BY <1>1, <3>1 DEF o, ready
  <2>7. x.enc.hdr.n < s.dr.ns
    BY <2>1, <2>3, <2>4, <2>6, <1>1 DEF MessageOK
  <2>8. n = s.dr.ns
    BY <2>6 DEF SentNext, HeaderOf, n
  <2>9. s.dr.ns \in Nat
    BY <1>1 DEF Standing
  <2> QED BY <1>6, <1>10, <2>7, <2>8, <2>9
<1> QED
  BY <1>4, <1>5, <1>9, <1>10

(* After EncryptHE the session stands in the epoch it sent in.             *)
LEMMA EncryptStands ==
  ASSUME HEInv, NEW p \in Party, EncryptHE(p)
  PROVE  Standing(p)'
<1> DEFINE s == session[p]
           fresh == KeyPair(p, generated[p])
           ready == ReadyToSendHE(s, fresh)
<1>t. PICK t : t = session'[p]
  OBVIOUS
<1>o. PICK o : o = Own(p)'
  OBVIOUS
<1>h. PICK h : h = Heard(p)
  OBVIOUS
<1>1. /\ Standing(p) /\ ~Performed(p)' /\ Epoch(p)' = o /\ HEShape(s) /\ Heard(p)' = h
      /\ t = AdvanceSendHE(ready)
      /\ \/ /\ RatchetDue(s) /\ Performed(p) /\ SentFirst(s, ready, t, fresh)
            /\ o = Own(p) + 2 /\ fresh = PairOf(o)
         \/ /\ ~RatchetDue(s) /\ ~Performed(p) /\ Own(p) > 0 /\ SentNext(s, ready, t)
            /\ o = Own(p)
  BY EncryptEpochs, <1>t, <1>o, <1>h
<1>2. ReceiveHalfKept(s, t)
  BY <1>1, SendEffects
<1>3. Own(p) \in Nat
  BY StandFacts, EpochFacts
<1>4. /\ s.dr.ns \in Nat /\ s.dr.pn \in Nat /\ s.dr.rk = Root[Epoch(p)]
      /\ s.dr.dhRSet <=> Epoch(p) > 0
      /\ Epoch(p) > 0 => s.dr.dhr = PairOf(h)
      /\ s.dr.dhs = PairOf(Own(p))
      /\ s.nhks = FreshHeaderKey(HeaderKeyOf(Own(p) + 2))
      /\ RatchetDue(s) \/ s.hks = [key |-> HeaderKeyOf(Epoch(p)), nonce |-> s.dr.ns]
      /\ s.hkr.key = HeaderKeyOf(h) /\ s.nhkr.key = HeaderKeyOf(h + 2)
  BY <1>1, <1>h DEF Standing
<1>5. /\ t.dr.ns \in Nat /\ t.dr.pn \in Nat /\ t.dr.rk = Root[o] /\ t.dr.dhs = PairOf(o)
      /\ o > 0 /\ t.dr.dhRSet /\ t.dr.dhr = PairOf(h) /\ t.dr.cks # NoChainKey
      /\ t.hks = [key |-> HeaderKeyOf(o), nonce |-> t.dr.ns]
      /\ t.nhks = FreshHeaderKey(HeaderKeyOf(o + 2))
  <2>1. CASE RatchetDue(s)
    <3>1. /\ SentFirst(s, ready, t, fresh) /\ o = Own(p) + 2 /\ fresh = PairOf(o)
          /\ Epoch(p) = Own(p) + 1 /\ h = Own(p) + 1
      BY <1>1, <1>h, <2>1 DEF Epoch, Heard
    <3>2. o \in Nat \ {0} /\ o - 1 = h /\ o - 1 = Epoch(p) /\ Epoch(p) > 0 /\ o > 0
      BY <1>3, <3>1
    <3>3. DeriveRoot(s.dr.rk, SharedSecret(fresh, s.dr.dhr)) = Root[o]
      <4>1. Root[o] = DeriveRoot(Root[o - 1], SharedSecret(PairOf(o), PairOf(o - 1)))
        BY <3>2, RootDef
      <4> QED BY <4>1, <1>4, <3>1, <3>2
    <3>4. HeaderKeyOf(o + 2) = NextHeaderKey(Root[o])
      <4>1. o + 2 > 2 /\ (o + 2) - 2 = o /\ o + 2 \in Nat
        BY <3>2
      <4> QED BY <4>1 DEF HeaderKeyOf
    <3>5. t.hks = [key |-> HeaderKeyOf(o), nonce |-> 1]
      <4>1. s.nhks = [key |-> HeaderKeyOf(o), nonce |-> 0]
        BY <1>4, <3>1 DEF FreshHeaderKey
      <4>2. t.hks = [s.nhks EXCEPT !.nonce = @ + 1]
        BY <3>1 DEF SentFirst
      <4> QED BY <4>1, <4>2
    <3>6. s.dr.dhRSet /\ s.dr.dhr = PairOf(h)
      BY <1>4, <3>2
    <3> QED
      BY <1>2, <1>4, <3>1, <3>2, <3>3, <3>4, <3>5, <3>6 DEF SentFirst, ReceiveHalfKept
  <2>2. CASE ~RatchetDue(s)
    <3>1. /\ SentNext(s, ready, t) /\ o = Own(p) /\ o > 0 /\ Epoch(p) = o
      BY <1>1, <2>2 DEF Epoch
    <3>2. t.hks = [key |-> HeaderKeyOf(o), nonce |-> s.dr.ns + 1]
      <4>1. s.hks = [key |-> HeaderKeyOf(o), nonce |-> s.dr.ns]
        BY <1>4, <2>2, <3>1
      <4>2. t.hks = [s.hks EXCEPT !.nonce = @ + 1]
        BY <3>1 DEF SentNext
      <4> QED BY <4>1, <4>2
    <3>3. s.dr.dhRSet /\ s.dr.dhr = PairOf(h)
      BY <1>4, <3>1
    <3> QED
      BY <1>2, <1>4, <3>1, <3>2, <3>3 DEF SentNext, ReceiveHalfKept
  <2> QED BY <2>1, <2>2
<1>6. t.hkr.key = HeaderKeyOf(h) /\ t.nhkr.key = HeaderKeyOf(h + 2)
  BY <1>2, <1>4 DEF ReceiveHalfKept
<1>7. o # 0
  BY <1>3, <1>1
<1> QED
  BY <1>t, <1>o, <1>1, <1>5, <1>6, <1>7 DEF Standing

(* EncryptHE preserves the invariant.                                      *)
LEMMA EncryptStep ==
  ASSUME HEInv, NEW p \in Party, EncryptHE(p)
  PROVE  HEInv'
<1> DEFINE q == Peer(p)
<1>1. /\ Counts /\ q \in Party /\ q # p /\ Peer(q) = p /\ Party = {p, q} /\ HEShape(session[p])
      /\ session = [x \in Party |-> session[x]] /\ Once(p)
  BY StandFacts
<1>2. PICK m : /\ network' = network \cup {m} /\ MessageOK(m)'
                /\ m.from = p /\ m.box.text = sent[p]
                /\ \A x \in network : ~(x.enc.hdr.pk = m.enc.hdr.pk /\ x.enc.hdr.n = m.enc.hdr.n)
  BY EncryptMessage
<1>3. /\ sent' = [sent EXCEPT ![p] = @ + 1] /\ accepted' = accepted /\ replayed' = replayed
      /\ closed' = closed
      /\ session' = [session EXCEPT ![p] = session'[p]]
      /\ generated' \in {generated, [generated EXCEPT ![p] = @ + 1]}
  BY <1>1 DEF EncryptHE
<1>4. ShapeInv'
  <2>1. HEShape(session'[p])
    BY EncryptEpochs
  <2> QED BY <1>3, <2>1, UpdateShapeInv DEF HEInv
<1>5. Counts'
  BY <1>1, <1>3 DEF Counts
<1>6. session'[q] = session[q] /\ generated'[q] = generated[q] /\ sent'[q] = sent[q]
      /\ sent'[p] = sent[p] + 1 /\ sent[p] \in Nat /\ sent[q] \in Nat
  BY <1>1, <1>3 DEF Counts
<1>7. /\ p \notin closed /\ Heard(p)' = Heard(p) /\ ~Performed(p)' /\ Epoch(p)' = Own(p)'
      /\ \/ RatchetDue(session[p]) /\ Performed(p) /\ Own(p)' = Own(p) + 2
         \/ /\ ~RatchetDue(session[p]) /\ ~Performed(p) /\ Own(p)' = Own(p)
            /\ session'[p].dr.ns = session[p].dr.ns + 1
      /\ Standing(p) /\ Holding(p)
  BY EncryptEpochs DEF SentNext
<1>8. Own(p) \in Nat /\ Own(q) \in Nat /\ Epoch(p) \in Nat /\ Epoch(q) \in Nat
  BY <1>1, EpochFacts
<1>9. ASSUME NEW x \in network PROVE MessageOK(x)'
  <2>1. x.from \in Party
    BY DEF HEInv, SentInv, MessageOK
  <2>2. CASE x.from = p
    <3>1. Own(p)' >= Own(p) /\ Own(p)' \in Int
      BY <1>7, <1>8
    <3>2. session[p].dr.ns \in Nat
      BY <1>7 DEF Standing
    <3> QED
      BY <2>2, <1>3, <1>6, <1>7, <1>8, <3>1, <3>2, MessageKept
  <2>3. CASE x.from = q
    BY <2>3, <1>3, <1>6, IdleMessages
  <2> QED BY <1>1, <2>1, <2>2, <2>3
<1>10. SentInv'
  <2>1. \A x \in network' : MessageOK(x)'
    BY <1>2, <1>9
  <2>2. \A x \in network : x.from = p => x.box.text # m.box.text
    <3>1. \A x \in network : x.from = p => x.box.text \in 0 .. sent[p] - 1
      BY DEF HEInv, SentInv, MessageOK
    <3> QED BY <3>1, <1>2, <1>6
  <2>3. MessagesDiffer'
    BY <1>2, <2>2 DEF HEInv, SentInv, MessagesDiffer
  <2> QED BY <2>1, <2>3 DEF SentInv
<1>11. Performed(q)' = Performed(q) /\ Epoch(q)' = Epoch(q)
  BY <1>6, <1>1, PartyKept
<1>12. Adjacent'
  <2>1. Epoch(q) \in Epoch(p)' - 1 .. Epoch(p)' + 1 /\ (Performed(q) => Epoch(q) = Epoch(p)')
        /\ Epoch(p)' \in Int
    <3>1. CASE Performed(p)
      <4>1. Epoch(q) = Epoch(p) /\ ~Performed(q) /\ Epoch(p) = Own(p) + 1
        BY <1>1, <3>1 DEF HEInv, Adjacent, Epoch
      <4>2. Epoch(p)' = Own(p) + 2
        BY <1>7, <3>1
      <4> QED BY <4>1, <4>2, <1>8
    <3>2. CASE ~Performed(p)
      <4>1. Epoch(p)' = Epoch(p)
        BY <1>7, <3>2 DEF Epoch
      <4>2. Epoch(q) \in Epoch(p) - 1 .. Epoch(p) + 1 /\ (Performed(q) => Epoch(p) = Epoch(q))
        BY <1>1, <3>2 DEF HEInv, Adjacent
      <4> QED BY <4>1, <4>2, <1>8
    <3> QED BY <3>1, <3>2
  <2>2. PICK e : e = Epoch(p)'
    OBVIOUS
  <2>3. ~Performed(q) => e \in Epoch(q) - 1 .. Epoch(q) + 1
    BY <2>1, <2>2, <1>8
  <2> QED
    BY <2>1, <2>2, <2>3, <1>1, <1>7, <1>11 DEF Adjacent
<1>13. PartyInv(q)'
  <2>1. \A x \in network' : x.from = p /\ x.box.text \in accepted[q] => x \in network
    <3>1. \A txt \in accepted[q] : txt \in 0 .. sent[p] - 1
      BY <1>1, StandFacts DEF Once
    <3>2. sent[p] \notin accepted[q]
      BY <3>1, <1>6
    <3> QED BY <3>2, <1>2
  <2> QED
    BY <2>1, <1>1, <1>3, <1>6, OtherKept
<1>14. PartyInv(p)'
  <2>1. ReceiveHalfKept(session[p], session'[p])
    <3>1. session'[p] = AdvanceSendHE(ReadyToSendHE(session[p], KeyPair(p, generated[p])))
      BY EncryptEpochs
    <3> QED BY <3>1, <1>1, SendEffects
  <2>2. Standing(p)'
    BY EncryptStands
  <2>3. Holding(p)'
    BY <1>7, <2>1, HoldingKept
  <2>4. Taken(p)' = Taken(p)
    BY <1>1, <1>2, <1>3 DEF Taken
  <2>5. \A x : Behind(p, x) => Behind(p, x)'
    BY <1>7, <2>1, BehindKept
  <2>6. Once(p)'
    BY <1>1, <1>3, <1>6, <2>4, <2>5 DEF Once
  <2> QED
    BY <1>3, <1>7, <2>2, <2>3, <2>6 DEF PartyInv
<1> QED
  BY <1>1, <1>4, <1>5, <1>10, <1>12, <1>13, <1>14 DEF HEInv

(* A failing key generation preserves the invariant: it leaves the keys    *)
(* with which the next attempt takes the same step.                        *)
LEMMA EncryptFailsStep ==
  ASSUME HEInv, NEW p \in Party, EncryptHEFails(p)
  PROVE  HEInv'
<1> DEFINE q == Peer(p)
           s == session[p]
<1>1. /\ Counts /\ q \in Party /\ q # p /\ Peer(q) = p /\ Party = {p, q} /\ HEShape(s)
      /\ session = [x \in Party |-> session[x]] /\ Once(p)
  BY StandFacts
<1>2. p \notin closed /\ Standing(p) /\ Holding(p)
  BY ClosedSilent, StandFacts
<1>t. PICK t : t = session'[p]
  OBVIOUS
<1>3. /\ t = DHRatchetSendHEFails(s) /\ RatchetDue(s)
      /\ session' = [session EXCEPT ![p] = t]
      /\ UNCHANGED <<generated, sent, network, accepted, replayed, closed>>
  BY <1>1, <1>t DEF EncryptHEFails
<1>4. /\ ReceiveHalfKept(s, t) /\ t.dr.ns = 0 /\ t.dr.pn = s.dr.ns /\ t.nhks = s.nhks
      /\ t.dr.rk = s.dr.rk /\ t.dr.dhs = s.dr.dhs /\ t.dr.cks = s.dr.cks
      /\ t.dr.dhRatchetPerformed = s.dr.dhRatchetPerformed
  <2>1. /\ t.dr = [s.dr EXCEPT !.pn = s.dr.ns, !.ns = 0] /\ t.nhks = s.nhks
        /\ t.hkr = s.hkr /\ t.nhkr = s.nhkr
    BY <1>1, <1>3 DEF DHRatchetSendHEFails, HEShape, HEFields, BaseShape, SessionFields
  <2> QED
    BY <1>1, <2>1 DEF ReceiveHalfKept, HEShape, BaseShape, SessionFields
<1>5. RatchetDue(t)
  BY <1>3, <1>4 DEF RatchetDue
<1>6. ShapeInv'
  <2>1. HEShape(t)
    BY <1>1, <1>3, SendShape
  <2> QED BY <1>3, <2>1, UpdateShapeInv DEF HEInv
<1>7. Counts'
  BY <1>1, <1>3 DEF Counts
<1>8. \A x \in Party : Performed(x)' = Performed(x) /\ Own(x)' = Own(x)
  BY <1>1, <1>3, <1>4, <1>t DEF Performed, Own, Newest
<1>9. \A x \in Party : Epoch(x)' = Epoch(x) /\ Heard(x)' = Heard(x)
  BY <1>8 DEF Epoch, Heard
<1>10. Adjacent'
  BY <1>1, <1>8, <1>9 DEF HEInv, Adjacent
<1>11. SentInv'
  <2>1. \A x \in network : MessageOK(x)'
    <3> SUFFICES ASSUME NEW x \in network PROVE MessageOK(x)'
      OBVIOUS
    <3>1. x.from \in Party
      BY DEF HEInv, SentInv, MessageOK
    <3>2. session'[q] = session[q]
      BY <1>1, <1>3
    <3> QED
      BY <3>1, <3>2, <1>1, <1>3, <1>5, <1>t, IdleMessages
  <2> QED BY <2>1, <1>3 DEF HEInv, SentInv, MessagesDiffer
<1>12. PartyInv(q)'
  <2>1. session'[q] = session[q] /\ sent[p] \in Nat
    BY <1>1, <1>3 DEF Counts
  <2> QED BY <2>1, <1>1, <1>3, OtherKept
<1>13. PartyInv(p)'
  <2>1. Standing(p)'
    BY <1>2, <1>4, <1>5, <1>8, <1>9, <1>t DEF Standing, ReceiveHalfKept
  <2>2. Holding(p)'
    BY <1>2, <1>4, <1>9, <1>t, HoldingKept
  <2>3. \A x : Behind(p, x) => Behind(p, x)'
    BY <1>4, <1>9, <1>t, BehindKept
  <2>4. Once(p)'
    BY <1>1, <1>3, <2>3 DEF Once, Taken
  <2> QED
    BY <1>2, <1>3, <2>1, <2>2, <2>4 DEF PartyInv
<1> QED
  BY <1>1, <1>6, <1>7, <1>10, <1>11, <1>12, <1>13 DEF HEInv

-----------------------------------------------------------------------------
(* Closing and rejecting.                                                  *)

(* Closing preserves the invariant, and so does EncryptHE on a closed      *)
(* session, which moves the chain before its header is refused.            *)
LEMMA CloseStep ==
  ASSUME HEInv, NEW p \in Party, HeaderNotSealed(p) \/ CloseSession(p)
  PROVE  HEInv'
<1> DEFINE q == Peer(p)
           s == session[p]
<1>1. /\ Counts /\ q \in Party /\ q # p /\ Peer(q) = p /\ Party = {p, q} /\ HEShape(s)
      /\ session = [x \in Party |-> session[x]] /\ Once(p)
  BY StandFacts
<1>t. PICK t : t = session'[p]
  OBVIOUS
<1>2. /\ session' = [session EXCEPT ![p] = t] /\ HEShape(t)
      /\ closed' = closed \cup {p} /\ UNCHANGED <<generated, sent, network, accepted, replayed>>
      /\ t.dr.dhRatchetPerformed = s.dr.dhRatchetPerformed /\ Erased(p)'
  <2>1. CASE CloseSession(p)
    <3>1. t = CloseHE(s)
      BY <1>1, <1>t, <2>1 DEF CloseSession
    <3>2. /\ t.dr = Close(s.dr) /\ t.hks.key = ZeroHeaderKey /\ t.hkr.key = ZeroHeaderKey
          /\ t.nhks.key = ZeroHeaderKey /\ t.nhkr.key = ZeroHeaderKey
      <4>1. CloseHE(s) = [s EXCEPT !.dr = Close(s.dr), !.hks = [s.hks EXCEPT !.key = ZeroHeaderKey],
                            !.hkr = [s.hkr EXCEPT !.key = ZeroHeaderKey],
                            !.nhks = [s.nhks EXCEPT !.key = ZeroHeaderKey],
                            !.nhkr = [s.nhkr EXCEPT !.key = ZeroHeaderKey]]
        BY <1>1 DEF CloseHE, HEShape, HEFields
      <4>2. "key" \in DOMAIN s.hks /\ "key" \in DOMAIN s.hkr
            /\ "key" \in DOMAIN s.nhks /\ "key" \in DOMAIN s.nhkr
        BY <1>1 DEF HEShape, KeyShape
      <4> QED BY <3>1, <4>1, <4>2, <1>1 DEF HEShape, HEFields
    <3>3. /\ t.dr.rk = ZeroRootKey /\ t.dr.cks = Zeroed(s.dr.cks) /\ t.dr.dhRSet = FALSE
          /\ t.dr.recvChains = NewReceiverChains /\ t.dr.mkSkipped = NewStorage
          /\ t.dr.dhRatchetPerformed = s.dr.dhRatchetPerformed
      BY <1>1, <3>2 DEF Close, HEShape, BaseShape, SessionFields
    <3>4. t.dr.cks # NoChainKey => t.dr.cks.root = ZeroRootKey
      BY <3>3 DEF Zeroed, FirstChainKey
    <3>5. HEShape(t)
      BY <1>1, <3>1, CloseShape
    <3> QED
      BY <1>t, <1>1, <2>1, <3>2, <3>3, <3>4, <3>5 DEF CloseSession, Erased
  <2>2. CASE HeaderNotSealed(p)
    <3>1. p \in closed
      BY <2>2, OpenHeaderSealed
    <3>2. Erased(p) /\ ~RatchetDue(s)
      BY <2>2, <3>1, StandFacts DEF HeaderNotSealed, HeaderKeyZeroed
    <3>3. t = [s EXCEPT !.dr = AdvanceSend(s.dr)] /\ session' = [session EXCEPT ![p] = t]
      BY <1>1, <1>t, <2>2 DEF HeaderNotSealed
    <3>4. /\ t.dr = AdvanceSend(s.dr) /\ t.hks = s.hks /\ t.hkr = s.hkr
          /\ t.nhks = s.nhks /\ t.nhkr = s.nhkr
      BY <1>1, <3>3 DEF HEShape, HEFields
    <3>5. /\ t.dr.rk = s.dr.rk /\ t.dr.cks = DeriveNextChainKey(s.dr.cks) /\ t.dr.dhRSet = s.dr.dhRSet
          /\ t.dr.recvChains = s.dr.recvChains /\ t.dr.mkSkipped = s.dr.mkSkipped
          /\ t.dr.dhRatchetPerformed = s.dr.dhRatchetPerformed
      BY <1>1, <3>4 DEF AdvanceSend, HEShape, BaseShape, SessionFields
    <3>6. t.dr.cks.root = ZeroRootKey
      BY <3>2, <3>5 DEF Erased, RatchetDue, DeriveNextChainKey
    <3>7. HEShape(t)
      BY <1>1, <3>3, CloseShape
    <3>8. closed' = closed \cup {p} /\ UNCHANGED <<generated, sent, network, accepted, replayed>>
      BY <2>2, <3>1 DEF HeaderNotSealed
    <3> QED
      BY <1>t, <3>2, <3>3, <3>4, <3>5, <3>6, <3>7, <3>8 DEF Erased
  <2> QED BY <2>1, <2>2
<1>3. ShapeInv'
  BY <1>2, UpdateShapeInv DEF HEInv
<1>4. Counts'
  BY <1>1, <1>2 DEF Counts
<1>5. \A x \in Party : Performed(x)' = Performed(x) /\ Own(x)' = Own(x)
  BY <1>1, <1>2, <1>t DEF Performed, Own, Newest
<1>6. \A x \in Party : Epoch(x)' = Epoch(x) /\ Heard(x)' = Heard(x)
  BY <1>5 DEF Epoch, Heard
<1>7. Adjacent'
  BY <1>1, <1>5, <1>6 DEF HEInv, Adjacent
<1>8. session'[q] = session[q] /\ sent[p] \in Nat /\ sent[q] \in Nat
  BY <1>1, <1>2 DEF Counts
<1>9. SentInv'
  <2>1. ASSUME NEW x \in network PROVE MessageOK(x)'
    <3>1. x.from \in Party
      BY DEF HEInv, SentInv, MessageOK
    <3>2. CASE x.from = q
      BY <3>2, <1>2, <1>8, IdleMessages
    <3>3. CASE x.from = p
      <4>1. Own(p) \in Nat
        BY <1>1, EpochFacts
      <4>2. p \in closed' /\ closed \subseteq closed'
        BY <1>2
      <4> QED BY <3>3, <1>2, <1>5, <1>8, <4>1, <4>2, MessageKept
    <3> QED BY <3>1, <3>2, <3>3, <1>1
  <2> QED BY <2>1, <1>2 DEF HEInv, SentInv, MessagesDiffer
<1>10. PartyInv(q)'
  BY <1>1, <1>2, <1>8, OtherKept
<1>11. PartyInv(p)'
  <2>1. Once(p)'
    BY <1>1, <1>2 DEF Once
  <2> QED BY <1>2, <2>1 DEF PartyInv
<1> QED
  BY <1>1, <1>3, <1>4, <1>7, <1>9, <1>10, <1>11 DEF HEInv

(* So does a step that changes nothing,                                    *)
LEMMA IdleStep ==
  ASSUME HEInv, UNCHANGED vars
  PROVE  HEInv'
<1>1. ShapeInv'
  BY DEF HEInv, ShapeInv, vars
<1>2. Counts'
  BY DEF HEInv, Counts, vars
<1>3. \A x \in Party : session'[x] = session[x] /\ generated'[x] = generated[x]
  BY DEF vars
<1>4. \A x \in Party : Performed(x)' = Performed(x) /\ Epoch(x)' = Epoch(x)
  BY <1>3, PartyKept
<1>5. Adjacent'
  BY <1>4, PeerFacts DEF HEInv, Adjacent
<1>6. SentInv'
  <2>1. ASSUME NEW x \in network PROVE MessageOK(x)'
    BY IdleMessages DEF vars
  <2> QED BY <2>1 DEF HEInv, SentInv, MessagesDiffer, vars
<1>7. ASSUME NEW x \in Party PROVE PartyInv(x)'
  <2>1. sent[Peer(x)] \in Nat
    BY StandFacts DEF Counts
  <2> QED BY <2>1, OtherKept DEF vars
<1> QED
  BY <1>1, <1>2, <1>5, <1>6, <1>7 DEF HEInv

(* ... as every rejection.                                                 *)
LEMMA RejectStep ==
  ASSUME HEInv, NEW p \in Party, DecryptHERejects(p)
  PROVE  UNCHANGED vars
<1>1. PICK a : session' = [session EXCEPT ![p] = DecryptArrival(p, a).s]
               /\ DecryptArrival(p, a).err # "ok"
               /\ UNCHANGED <<generated, sent, network, accepted, replayed, closed>>
  BY DEF DecryptHERejects
<1>2. DecryptArrival(p, a).s = session[p]
  BY <1>1, StandFacts, DecryptHEOutcome DEF DecryptArrival
<1>3. session' = session
  BY <1>1, <1>2, StandFacts
<1> QED
  BY <1>1, <1>3 DEF vars

-----------------------------------------------------------------------------
(* Accepting.                                                              *)

(* An accepted arrival is a message of the peer, accepted in one of the    *)
(* three ways.                                                             *)
LEMMA AcceptFacts ==
  ASSUME HEInv, NEW p \in Party, DecryptHEAccepts(p)
  PROVE  /\ p \notin closed
         /\ \E m \in network :
              LET s == session[p]
                  t == session'[p]
              IN  /\ m.from = Peer(p)
                  /\ session' = [session EXCEPT ![p] = t] /\ HEShape(t)
                  /\ SendHalfKept(s, t)
                  /\ TookStored(s, t, m.enc) \/ OnCurrent(s, t, m.enc) \/ OnNext(s, t, m.enc)
                  /\ accepted' = [accepted EXCEPT ![p] = @ \cup {m.box.text}]
                  /\ replayed' = [replayed EXCEPT ![p] = @ \cup ({m.box.text} \cap accepted[p])]
                  /\ UNCHANGED <<generated, sent, network, closed>>
<1> DEFINE s == session[p]
<1>1. p \notin closed
  BY ClosedSilent
<1>2. /\ Standing(p) /\ Holding(p) /\ HEShape(s) /\ Counts /\ SentInv
      /\ session = [x \in Party |-> session[x]] /\ Peer(p) \in Party /\ Peer(Peer(p)) = p
  BY <1>1, StandFacts DEF HEInv
<1>m. PICK m \in network : \E a \in Arrivals(m) :
         /\ m.from = Peer(p) /\ DecryptArrival(p, a).err = "ok"
         /\ session' = [session EXCEPT ![p] = DecryptArrival(p, a).s]
         /\ accepted' = [accepted EXCEPT ![p] = @ \cup {a.box.text}]
         /\ replayed' = [replayed EXCEPT ![p] = @ \cup ({a.box.text} \cap accepted[p])]
         /\ UNCHANGED <<generated, sent, network, closed>>
  BY DEF DecryptHEAccepts
<1>3. PICK a \in Arrivals(m) :
         /\ m.from = Peer(p) /\ DecryptArrival(p, a).err = "ok"
         /\ session' = [session EXCEPT ![p] = DecryptArrival(p, a).s]
         /\ accepted' = [accepted EXCEPT ![p] = @ \cup {a.box.text}]
         /\ replayed' = [replayed EXCEPT ![p] = @ \cup ({a.box.text} \cap accepted[p])]
         /\ UNCHANGED <<generated, sent, network, closed>>
  BY <1>m
<1>4. MessageOK(m) /\ a.enc.hdr = m.enc.hdr /\ a.enc.key \in {m.enc.key, ForeignKey}
  BY <1>2, ArrivalHeader DEF SentInv
<1>h. PICK h : h = Heard(p)
  OBVIOUS
<1>5. /\ h \in Int /\ h >= -1 /\ s.hkr.key = HeaderKeyOf(h) /\ s.nhkr.key = HeaderKeyOf(h + 2)
      /\ Own(p) \in Nat /\ (s.dr.dhRSet <=> Epoch(p) > 0) /\ (Epoch(p) > 0 => s.dr.dhr = PairOf(h))
      /\ (h > 0 => Epoch(p) > 0) /\ (~(Epoch(p) > 0) => h <= 0)
  BY <1>2, <1>h, EpochFacts DEF Standing, Epoch, Heard
<1>6. EpochOf(m) \in Nat \ {0} /\ m.enc.key = HeaderKeyOf(EpochOf(m)) /\ m.enc.hdr.pk = PairOf(EpochOf(m))
  BY <1>4 DEF MessageOK
<1>7. s.dr.dhRSet \/ s.hkr.key = ZeroHeaderKey
  BY <1>5, ZeroKeyFacts
<1>8. ASSUME s.dr.dhRSet, OpensHeader(s.hkr.key, a.enc) PROVE s.dr.dhr = a.enc.hdr.pk
  <2>1. a.enc.key = HeaderKeyOf(h) /\ HeaderKeyOf(h) # ForeignKey
    BY <1>5, <1>8, ZeroKeyFacts DEF OpensHeader
  <2>2. HeaderKeyOf(EpochOf(m)) = HeaderKeyOf(h)
    BY <1>4, <1>6, <2>1
  <2>3. EpochOf(m) = h
    BY <1>5, <1>6, <2>2, HeaderKeyFacts
  <2> QED BY <1>4, <1>5, <1>6, <1>8, <2>3
<1> DEFINE ad == BuildAD(Peer(p), p, a.enc)
           t == session'[p]
<1>9. t = DecryptHE(s, a.enc, ad, a.box).s /\ DecryptHE(s, a.enc, ad, a.box).err = "ok"
      /\ session' = [session EXCEPT ![p] = t]
  BY <1>2, <1>3 DEF DecryptArrival
<1> HIDE DEF s
<1>10. /\ a.box.ad = ad /\ SendHalfKept(s, t)
       /\ TookStored(s, t, a.enc) \/ OnCurrent(s, t, a.enc) \/ OnNext(s, t, a.enc)
  BY <1>2, <1>7, <1>8, <1>9, DecryptPaths DEF s
<1>11. HEShape(t)
  BY <1>2, <1>9, DecryptHEOutcome DEF s
<1>12. a.enc.key # ForeignKey
  <2>1. CASE TookStored(s, t, a.enc)
    <3>1. PICK id \in MatchingEntries(s.dr.mkSkipped, a.enc) : TRUE
      BY <2>1 DEF TookStored
    <3>2. id \in DOMAIN s.dr.mkSkipped.entries /\ id[1] = a.enc.key
      BY <3>1 DEF MatchingEntries, OpensHeader
    <3>3. PICK u \in 1 .. Heard(p), n \in Nat : id = StorageKey(HeaderKeyOf(u), n)
      BY <1>2, <3>2 DEF Holding, s
    <3>4. id[1] = HeaderKeyOf(u) /\ u \in Int
      BY <3>3 DEF StorageKey
    <3> QED BY <3>2, <3>4, ZeroKeyFacts
  <2>2. CASE OnCurrent(s, t, a.enc)
    BY <2>2, <1>5, ZeroKeyFacts DEF OnCurrent, OpensHeader, s
  <2>3. CASE OnNext(s, t, a.enc)
    <3>1. h + 2 \in Int
      BY <1>5
    <3> QED BY <2>3, <3>1, <1>5, ZeroKeyFacts DEF OnNext, OpensHeader, s
  <2> QED BY <1>10, <2>1, <2>2, <2>3
<1>13. a.enc = m.enc /\ a.box.text = m.box.text
  BY <1>2, <1>3, <1>10, <1>12, ArrivalGenuine
<1> QED
  BY <1>1, <1>3, <1>9, <1>10, <1>11, <1>13 DEF s

(* What advancing a chain past n adds to the chains and the skipped keys.  *)
LEMMA AdvancedFacts ==
  ASSUME NEW r, NEW t, NEW n \in Nat, RingOK(r.dr.recvChains), Advanced(r, t, n),
         t.dr.dhr = r.dr.dhr, Chain(r).nr \in Nat
  PROVE  /\ RingOK(t.dr.recvChains) /\ HasChain(t.dr.recvChains, t.dr.dhr) /\ Chain(t).nr = n + 1
         /\ HasChain(r.dr.recvChains, r.dr.dhr) /\ Chain(r).nr <= n
         /\ \A c \in Held(t.dr.recvChains) :
              c \in Held(r.dr.recvChains) \/ (c.pk = r.dr.dhr /\ c.nr = n + 1)
         /\ \A id \in DOMAIN t.dr.mkSkipped.entries :
              \/ id \in DOMAIN r.dr.mkSkipped.entries
              \/ \E k \in Chain(r).nr .. n - 1 : id = StorageKey(r.hkr.key, k)
<1>1. /\ HasChain(r.dr.recvChains, r.dr.dhr) /\ ~(n < Chain(r).nr)
      /\ t.dr.mkSkipped = StoreKeys(r.dr.mkSkipped, r.hkr.key, Chain(r).ck, Chain(r).nr, n)
  BY DEF Advanced
<1>2. PICK ck : t.dr.recvChains = PutChain(r.dr.recvChains, r.dr.dhr, ck, n + 1)
  BY DEF Advanced
<1>3. RingOK(t.dr.recvChains)
  BY <1>1, <1>2, PutChainFacts
<1>4. /\ HasChain(t.dr.recvChains, t.dr.dhr)
      /\ GetChain(t.dr.recvChains, t.dr.dhr) = [pk |-> r.dr.dhr, ck |-> ck, nr |-> n + 1]
  BY <1>1, <1>2, GetAfterPut
<1>5. Chain(t).nr = n + 1
  BY <1>4 DEF Chain
<1>6. \A c \in Held(t.dr.recvChains) :
              c \in Held(r.dr.recvChains) \/ (c.pk = r.dr.dhr /\ c.nr = n + 1)
  <2>1. Held(t.dr.recvChains) \subseteq
           Held(r.dr.recvChains) \cup {[pk |-> r.dr.dhr, ck |-> ck, nr |-> n + 1]}
    BY <1>1, <1>2, HeldAfterPut
  <2> QED BY <2>1
<1>7. \A id \in DOMAIN t.dr.mkSkipped.entries :
              \/ id \in DOMAIN r.dr.mkSkipped.entries
              \/ \E k \in Chain(r).nr .. n - 1 : id = StorageKey(r.hkr.key, k)
  <2>1. Chain(r).nr \in Int /\ n \in Int
    OBVIOUS
  <2> QED BY <1>1, <2>1, StoreKeysContents
<1> QED
  BY <1>1, <1>3, <1>4, <1>5, <1>6, <1>7

(* What the receiving half of a DH ratchet step adds to them.              *)
LEMMA TurnedFacts ==
  ASSUME NEW s, NEW r, NEW hdr, Turned(s, r, hdr), RingOK(s.dr.recvChains),
         ~HasChain(s.dr.recvChains, hdr.pk), hdr.pn \in Nat,
         HasPrevChain(s.dr) => Chain(s).nr \in Nat
  PROVE  /\ RingOK(r.dr.recvChains) /\ HasChain(r.dr.recvChains, r.dr.dhr) /\ Chain(r).nr = 0
         /\ \A c \in Held(r.dr.recvChains) :
              c \in Held(s.dr.recvChains) \/ (c.pk = hdr.pk /\ c.nr = 0)
         /\ \A id \in DOMAIN r.dr.mkSkipped.entries :
              \/ id \in DOMAIN s.dr.mkSkipped.entries
              \/ /\ HasPrevChain(s.dr)
                 /\ \E k \in Nat : Chain(s).nr <= k /\ id = StorageKey(s.hkr.key, k)
<1>1. PICK ck : r.dr.recvChains = Push(s.dr.recvChains, hdr.pk, ck)
  BY DEF Turned
<1>2. r.dr.dhr = hdr.pk /\ r.dr.mkSkipped = SkipPrevChainHE(s, hdr.pn)
  BY DEF Turned
<1>3. RingOK(r.dr.recvChains)
  BY <1>1, PushFacts
<1>4. HasChain(r.dr.recvChains, r.dr.dhr) /\ GetChain(r.dr.recvChains, r.dr.dhr) = NewChain(hdr.pk, ck)
  BY <1>1, <1>2, GetAfterPush
<1>5. Chain(r).nr = 0
  BY <1>4 DEF Chain, NewChain
<1>6. \A c \in Held(r.dr.recvChains) :
              c \in Held(s.dr.recvChains) \/ (c.pk = hdr.pk /\ c.nr = 0)
  <2>1. Held(r.dr.recvChains) \subseteq Held(s.dr.recvChains) \cup {NewChain(hdr.pk, ck)}
    BY <1>1, HeldAfterPush
  <2> QED BY <2>1 DEF NewChain
<1>7. ASSUME NEW id \in DOMAIN r.dr.mkSkipped.entries
      PROVE  \/ id \in DOMAIN s.dr.mkSkipped.entries
             \/ /\ HasPrevChain(s.dr)
                /\ \E k \in Nat : Chain(s).nr <= k /\ id = StorageKey(s.hkr.key, k)
  <2>1. CASE ~HasPrevChain(s.dr)
    BY <1>2, <1>7, <2>1 DEF SkipPrevChainHE
  <2>2. CASE HasPrevChain(s.dr)
    <3>1. r.dr.mkSkipped = StoreKeys(s.dr.mkSkipped, s.hkr.key, Chain(s).ck, Chain(s).nr, hdr.pn)
      BY <1>2, <2>2 DEF SkipPrevChainHE, PrevNr, Chain
    <3>2. Chain(s).nr \in Int /\ hdr.pn \in Int /\ Chain(s).nr \in Nat
      BY <2>2
    <3>3. \/ id \in DOMAIN s.dr.mkSkipped.entries
          \/ \E k \in Chain(s).nr .. hdr.pn - 1 : id = StorageKey(s.hkr.key, k)
      BY <3>1, <3>2, <1>7, StoreKeysContents
    <3> QED BY <3>2, <3>3, <2>2
  <2> QED BY <2>1, <2>2
<1> QED
  BY <1>3, <1>4, <1>5, <1>6, <1>7

(* What the invariant needs of an accepted message: the session stands,    *)
(* the message was not accepted before and is behind now.                  *)
Accepted(p, m) ==
  /\ Standing(p)' /\ Holding(p)' /\ Adjacent'
  /\ m \notin Taken(p) /\ Behind(p, m)'
  /\ \A x \in Taken(p) : Behind(p, x)'

(* Without a DH ratchet step the session stands where it stood.            *)
LEMMA StaysInEpoch ==
  ASSUME HEInv, NEW p \in Party, p \notin closed, generated' = generated, closed' = closed,
         session' = [session EXCEPT ![p] = session'[p]],
         SendHalfKept(session[p], session'[p]), EpochKept(session[p], session'[p])
  PROVE  Standing(p)' /\ Adjacent' /\ Heard(p)' = Heard(p)
<1> DEFINE q == Peer(p)
<1>1. Standing(p) /\ q \in Party /\ q # p /\ Party = {p, q} /\ Peer(q) = p
  BY StandFacts
<1>a. session'[q] = session[q]
  <2>1. PICK t : t = session'[p]
    OBVIOUS
  <2>2. session' = [session EXCEPT ![p] = t] /\ session = [x \in Party |-> session[x]]
    BY <2>1, StandFacts
  <2> QED BY <1>1, <2>2
<1>2. \A x \in Party : Performed(x)' = Performed(x) /\ Own(x)' = Own(x)
  BY <1>1, <1>a DEF Performed, Own, Newest, EpochKept
<1>3. \A x \in Party : Epoch(x)' = Epoch(x) /\ Heard(x)' = Heard(x)
  BY <1>2 DEF Epoch, Heard
<1>4. Adjacent'
  BY <1>1, <1>2, <1>3 DEF HEInv, Adjacent
<1>5. Standing(p)'
  BY <1>1, <1>2, <1>3 DEF Standing, SendHalfKept, EpochKept, RatchetDue
<1> QED
  BY <1>3, <1>4, <1>5

(* The header key of a message tells its epoch.                            *)
LEMMA SameHeaderKey ==
  ASSUME HEInv, NEW m \in network, NEW t \in Int, HeaderKeyOf(t) = m.enc.key
  PROVE  t = EpochOf(m)
<1>1. EpochOf(m) \in Nat \ {0} /\ m.enc.key = HeaderKeyOf(EpochOf(m))
  BY DEF HEInv, SentInv, MessageOK
<1> QED
  BY <1>1, HeaderKeyFacts

(* A message accepted with a stored key.                                   *)
LEMMA StoredPath ==
  ASSUME HEInv, NEW p \in Party, p \notin closed, NEW m \in network, m.from = Peer(p),
         generated' = generated, closed' = closed,
         session' = [session EXCEPT ![p] = session'[p]],
         SendHalfKept(session[p], session'[p]), TookStored(session[p], session'[p], m.enc)
  PROVE  Accepted(p, m)
<1> DEFINE s == session[p]
           t == session'[p]
           key == StorageKey(m.enc.key, m.enc.hdr.n)
<1>1. Standing(p) /\ Holding(p) /\ Once(p) /\ MessageOK(m)
  BY StandFacts DEF HEInv, SentInv
<1>2. Standing(p)' /\ Adjacent' /\ Heard(p)' = Heard(p)
  BY StaysInEpoch DEF TookStored
<1>3. PICK id \in MatchingEntries(s.dr.mkSkipped, m.enc) : t.dr.mkSkipped = Consume(s.dr.mkSkipped, id)
  BY DEF TookStored
<1>4. id \in DOMAIN s.dr.mkSkipped.entries /\ id[1] = m.enc.key /\ id[2] = m.enc.hdr.n
  BY <1>3 DEF MatchingEntries, OpensHeader
<1>5. PICK u \in 1 .. Heard(p), n \in Nat :
             /\ id = StorageKey(HeaderKeyOf(u), n)
             /\ u = Heard(p) => HasChain(s.dr.recvChains, s.dr.dhr) /\ n < Chain(s).nr
  BY <1>1, <1>4 DEF Holding
<1>6. id = key /\ n = m.enc.hdr.n /\ HeaderKeyOf(u) = m.enc.key
  BY <1>4, <1>5 DEF StorageKey
<1>7. u = EpochOf(m)
  <2>1. u \in Int
    OBVIOUS
  <2> QED BY <1>6, <2>1, SameHeaderKey
<1>8. /\ DOMAIN t.dr.mkSkipped.entries = DOMAIN s.dr.mkSkipped.entries \ {key}
      /\ t.dr.recvChains = s.dr.recvChains /\ t.dr.dhr = s.dr.dhr /\ Chain(t) = Chain(s)
  <2>1. DOMAIN t.dr.mkSkipped.entries = DOMAIN s.dr.mkSkipped.entries \ {key}
    BY <1>3, <1>6 DEF Consume, Without
  <2> QED BY <2>1 DEF TookStored, EpochKept, Chain
<1>9. Holding(p)'
  BY <1>1, <1>2, <1>8 DEF Holding, Chain
<1>10. m \notin Taken(p)
  BY <1>1, <1>4, <1>6 DEF Once, Behind
<1>11. Behind(p, m)'
  <2>1. EpochOf(m) <= Heard(p)
    BY <1>7
  <2>2. EpochOf(m) = Heard(p) => HasChain(s.dr.recvChains, s.dr.dhr) /\ m.enc.hdr.n < Chain(s).nr
    BY <1>5, <1>6, <1>7
  <2> QED BY <2>1, <2>2, <1>2, <1>8 DEF Behind, EpochOf, Chain
<1>12. \A x \in Taken(p) : Behind(p, x)'
  BY <1>1, <1>2, <1>8 DEF Once, Behind, EpochOf, Chain
<1> QED
  BY <1>2, <1>9, <1>10, <1>11, <1>12 DEF Accepted

(* The chain in force belongs to an epoch that was heard of.               *)
LEMMA ChainInForce ==
  ASSUME HEInv, NEW p \in Party, p \notin closed, HasPrevChain(session[p].dr)
  PROVE  Chain(session[p]).nr \in Nat /\ Heard(p) >= 1 /\ Chain(session[p]) \in Held(session[p].dr.recvChains)
<1> DEFINE s == session[p]
<1>1. Holding(p)
  BY StandFacts
<1>2. HasChain(s.dr.recvChains, s.dr.dhr) /\ RingOK(s.dr.recvChains)
  BY <1>1 DEF HasPrevChain, Holding
<1>3. Chain(s) \in Held(s.dr.recvChains)
  BY <1>2, HeldFacts DEF Chain
<1>4. Chain(s).nr \in Nat /\ \E u \in 1 .. Heard(p) : TRUE
  BY <1>1, <1>3 DEF Holding
<1>5. Heard(p) \in Int
  BY StandFacts, EpochFacts
<1> QED
  BY <1>3, <1>4, <1>5

(* A message accepted with the header key in force.                        *)
LEMMA CurrentPath ==
  ASSUME HEInv, NEW p \in Party, p \notin closed, NEW m \in network, m.from = Peer(p),
         generated' = generated, closed' = closed,
         session' = [session EXCEPT ![p] = session'[p]],
         SendHalfKept(session[p], session'[p]), OnCurrent(session[p], session'[p], m.enc)
  PROVE  Accepted(p, m)
<1> DEFINE s == session[p]
           n == m.enc.hdr.n
<1>t. PICK t : t = session'[p]
  OBVIOUS
<1>h. PICK h : h = Heard(p)
  OBVIOUS
<1>1. Standing(p) /\ Holding(p) /\ Once(p) /\ MessageOK(m) /\ Counts
  BY StandFacts DEF HEInv, SentInv
<1>2. Standing(p)' /\ Adjacent' /\ Heard(p)' = h
  BY <1>h, StaysInEpoch DEF OnCurrent
<1>3. /\ s.hkr.key = HeaderKeyOf(h) /\ m.enc.key = HeaderKeyOf(h) /\ h \in Int
      /\ Speaker(h) = Peer(p)
  BY <1>1, <1>h, EpochFacts DEF Standing, OnCurrent, OpensHeader
<1>4. h = EpochOf(m) /\ h \in 1 .. h /\ n \in Nat
  <2>1. h = EpochOf(m)
    BY <1>3, SameHeaderKey
  <2>2. EpochOf(m) \in Nat \ {0}
    BY <1>1 DEF MessageOK
  <2> QED BY <1>1, <2>1, <2>2 DEF MessageOK
<1>5. s.dr.dhr = PairOf(h) /\ s.dr.dhRSet
  <2>1. Epoch(p) > 0
    <3>1. Own(p) \in Nat
      BY <1>1, EpochFacts
    <3> QED BY <3>1, <1>4, <1>h DEF Epoch, Heard
  <2> QED BY <1>1, <1>h, <2>1 DEF Standing
<1>6. /\ MatchingEntries(s.dr.mkSkipped, m.enc) = {} /\ Advanced(s, t, n)
      /\ t.dr.dhr = s.dr.dhr /\ RingOK(s.dr.recvChains) /\ HasPrevChain(s.dr)
  BY <1>1, <1>5, <1>t DEF OnCurrent, EpochKept, Holding, HasPrevChain, Advanced
<1>7. Chain(s).nr \in Nat
  BY <1>6, ChainInForce
<1>8. /\ RingOK(t.dr.recvChains) /\ HasChain(t.dr.recvChains, t.dr.dhr) /\ Chain(t).nr = n + 1
      /\ HasChain(s.dr.recvChains, s.dr.dhr) /\ Chain(s).nr <= n
      /\ \A c \in Held(t.dr.recvChains) :
           c \in Held(s.dr.recvChains) \/ (c.pk = s.dr.dhr /\ c.nr = n + 1)
      /\ \A id \in DOMAIN t.dr.mkSkipped.entries :
           \/ id \in DOMAIN s.dr.mkSkipped.entries
           \/ \E k \in Chain(s).nr .. n - 1 : id = StorageKey(s.hkr.key, k)
  <2> HIDE DEF s, n
  <2> QED BY <1>4, <1>6, <1>7, AdvancedFacts DEF n
<1>9. Holding(p)'
  <2>1. \A c \in Held(t.dr.recvChains) : c.nr \in Nat /\ \E u \in 1 .. h : c.pk = PairOf(u)
    <3>1. \A c \in Held(s.dr.recvChains) : c.nr \in Nat /\ \E u \in 1 .. h : c.pk = PairOf(u)
      BY <1>1, <1>h DEF Holding
    <3> QED BY <3>1, <1>4, <1>5, <1>8
  <2>2. ASSUME NEW id \in DOMAIN t.dr.mkSkipped.entries
        PROVE  \E u \in 1 .. h, k \in Nat :
             /\ id = StorageKey(HeaderKeyOf(u), k) /\ Speaker(u) = Peer(p)
             /\ u = h => HasChain(t.dr.recvChains, t.dr.dhr) /\ k < Chain(t).nr
    <3>1. CASE id \in DOMAIN s.dr.mkSkipped.entries
      <4>1. PICK u \in 1 .. h, k \in Nat :
             /\ id = StorageKey(HeaderKeyOf(u), k) /\ Speaker(u) = Peer(p)
             /\ u = h => k < Chain(s).nr
        BY <1>1, <1>h, <3>1 DEF Holding
      <4>2. u = h => k < n + 1
        BY <4>1, <1>4, <1>7, <1>8
      <4> QED BY <4>1, <4>2, <1>8
    <3>2. CASE ~(id \in DOMAIN s.dr.mkSkipped.entries)
      <4>1. PICK k \in Chain(s).nr .. n - 1 : id = StorageKey(s.hkr.key, k)
        BY <1>8, <3>2
      <4>2. k \in Nat /\ k < n + 1
        BY <4>1, <1>4, <1>7
      <4> QED BY <4>1, <4>2, <1>3, <1>4, <1>8
    <3> QED BY <3>1, <3>2
  <2> QED
    BY <1>t, <1>2, <1>8, <2>1, <2>2 DEF Holding
<1>10. m \notin Taken(p)
  <2>1. ~(n < Chain(s).nr)
    BY <1>4, <1>7, <1>8
  <2> QED BY <1>1, <1>4, <1>h, <2>1 DEF Once, Behind
<1>11. ASSUME NEW x \in network, x.enc.hdr.n \in Nat, EpochOf(x) \in Nat,
              x.enc.key = HeaderKeyOf(EpochOf(x)), EpochOf(x) <= h,
              StorageKey(x.enc.key, x.enc.hdr.n) \notin DOMAIN s.dr.mkSkipped.entries,
              EpochOf(x) = h => x.enc.hdr.n < Chain(s).nr \/ x.enc.hdr.n = n
       PROVE  Behind(p, x)'
  <2>1. EpochOf(x) = h => x.enc.hdr.n < n + 1
    BY <1>4, <1>7, <1>8, <1>11
  <2>2. StorageKey(x.enc.key, x.enc.hdr.n) \notin DOMAIN t.dr.mkSkipped.entries
    <3> SUFFICES ASSUME NEW k \in Chain(s).nr .. n - 1,
                        StorageKey(x.enc.key, x.enc.hdr.n) = StorageKey(s.hkr.key, k)
                 PROVE  FALSE
      BY <1>8, <1>11
    <3>1. x.enc.key = HeaderKeyOf(h) /\ x.enc.hdr.n = k
      BY <1>3 DEF StorageKey
    <3>2. EpochOf(x) = h
      BY <3>1, <1>3, SameHeaderKey
    <3> QED BY <3>1, <3>2, <1>4, <1>7, <1>11
  <2>3. EpochOf(x)' = EpochOf(x)
    BY DEF EpochOf
  <2> QED
    BY <1>t, <1>2, <1>8, <1>11, <2>1, <2>2, <2>3 DEF Behind
<1>12. Behind(p, m)'
  <2>1. StorageKey(m.enc.key, n) \notin DOMAIN s.dr.mkSkipped.entries
    <3>1. OpensHeader(m.enc.key, m.enc)
      BY DEF OnCurrent, OpensHeader
    <3> QED BY <3>1, <1>6 DEF MatchingEntries, StorageKey
  <2>2. EpochOf(m) \in Nat /\ EpochOf(m) <= h /\ m.enc.key = HeaderKeyOf(EpochOf(m))
    BY <1>1, <1>3, <1>4 DEF MessageOK
  <2> QED BY <1>4, <1>11, <2>1, <2>2
<1>13. \A x \in Taken(p) : Behind(p, x)'
  <2> SUFFICES ASSUME NEW x \in Taken(p) PROVE Behind(p, x)'
    OBVIOUS
  <2>1. x \in network /\ Behind(p, x) /\ MessageOK(x)
    BY <1>1 DEF Once, Taken, HEInv, SentInv
  <2> QED BY <1>11, <1>h, <2>1 DEF Behind, MessageOK
<1> QED
  BY <1>2, <1>9, <1>10, <1>12, <1>13 DEF Accepted

(* Where the two parties are when a header opens with the next header key: *)
(* the sender is one epoch ahead.                                          *)
LEMMA NextEpochs ==
  ASSUME HEInv, NEW p \in Party, p \notin closed, NEW m \in network, m.from = Peer(p),
         OpensHeader(session[p].nhkr.key, m.enc)
  PROVE  /\ ~Performed(p) /\ EpochOf(m) = Own(p) + 1
         /\ ~Performed(Peer(p)) /\ Own(Peer(p)) = Own(p) + 1
<1> DEFINE q == Peer(p)
<1>1. Standing(p) /\ Counts /\ q \in Party /\ Peer(q) = p /\ MessageOK(m)
  BY StandFacts DEF HEInv, SentInv
<1>2. Own(p) \in Nat /\ Own(q) \in Nat /\ Heard(p) \in Int /\ Heard(p) >= -1
  BY <1>1, EpochFacts
<1>3. m.enc.key = HeaderKeyOf(Heard(p) + 2) /\ Heard(p) + 2 \in Int
  BY <1>1, <1>2 DEF Standing, OpensHeader
<1>4. EpochOf(m) = Heard(p) + 2
  BY <1>3, SameHeaderKey
<1>5. EpochOf(m) <= Own(q)
  BY <1>1 DEF MessageOK
<1>6. ~Performed(p)
  <2> SUFFICES ASSUME Performed(p) PROVE FALSE
    OBVIOUS
  <2>1. Heard(p) = Own(p) + 1 /\ Epoch(p) = Own(p) + 1
    BY DEF Heard, Epoch
  <2>2. Epoch(q) = Epoch(p) /\ ~Performed(q)
    BY <1>1 DEF HEInv, Adjacent
  <2>3. Own(q) = Own(p) + 1
    BY <2>1, <2>2 DEF Epoch
  <2> QED BY <1>2, <1>4, <1>5, <2>1, <2>3
<1>7. Heard(p) = Own(p) - 1 /\ Epoch(p) = Own(p) /\ Epoch(q) \in Own(p) - 1 .. Own(p) + 1
  BY <1>1, <1>6 DEF Heard, Epoch, HEInv, Adjacent
<1>8. ~Performed(q)
  <2> SUFFICES ASSUME Performed(q) PROVE FALSE
    OBVIOUS
  <2>1. Epoch(p) = Epoch(q)
    BY <1>1 DEF HEInv, Adjacent
  <2>2. Epoch(q) = Own(q) + 1
    BY DEF Epoch
  <2> QED BY <1>2, <1>4, <1>5, <1>7, <2>1, <2>2
<1>9. Own(q) = Own(p) + 1
  <2>1. Epoch(q) = Own(q)
    BY <1>8 DEF Epoch
  <2> QED BY <1>2, <1>4, <1>5, <1>7, <2>1
<1> QED
  BY <1>2, <1>4, <1>6, <1>7, <1>8, <1>9

(* A message accepted with the next header key.                            *)
LEMMA NextPath ==
  ASSUME HEInv, NEW p \in Party, p \notin closed, NEW m \in network, m.from = Peer(p),
         generated' = generated, closed' = closed,
         session' = [session EXCEPT ![p] = session'[p]],
         SendHalfKept(session[p], session'[p]), OnNext(session[p], session'[p], m.enc)
  PROVE  Accepted(p, m)
<1> DEFINE s == session[p]
           q == Peer(p)
           n == m.enc.hdr.n
<1>t. PICK t : t = session'[p]
  OBVIOUS
<1>o. PICK o : o = Own(p)
  OBVIOUS
<1>1. /\ Standing(p) /\ Holding(p) /\ Once(p) /\ MessageOK(m) /\ Counts
      /\ q \in Party /\ Peer(q) = p /\ p # q /\ Party = {p, q}
  BY StandFacts DEF HEInv, SentInv
<1>2. ~Performed(p) /\ EpochOf(m) = o + 1 /\ ~Performed(q) /\ Own(q) = o + 1
  BY <1>o, NextEpochs DEF OnNext
<1>3. o \in Nat /\ Epoch(p) = o /\ Heard(p) = o - 1 /\ n \in Nat /\ m.enc.hdr.pn \in Nat
  BY <1>1, <1>2, <1>o, EpochFacts DEF Epoch, Heard, MessageOK
<1>4. m.enc.hdr.pk = PairOf(o + 1) /\ m.enc.key = HeaderKeyOf(o + 1) /\ Speaker(o + 1) = q
  BY <1>1, <1>2 DEF MessageOK
<1>5. /\ s.dr.rk = Root[o] /\ s.dr.dhs = PairOf(o) /\ s.hkr.key = HeaderKeyOf(o - 1)
      /\ s.nhkr.key = HeaderKeyOf(o + 1) /\ s.nhks = FreshHeaderKey(HeaderKeyOf(o + 2))
      /\ s.dr.ns \in Nat /\ s.dr.pn \in Nat
  <2>1. (o - 1) + 2 = o + 1
    BY <1>3
  <2> QED BY <1>1, <1>3, <1>o, <2>1 DEF Standing
<1>6. PICK r : SendHalfKept(s, r) /\ Turned(s, r, m.enc.hdr) /\ EpochKept(r, t) /\ Advanced(r, t, n)
  BY <1>t DEF OnNext
<1>7. MatchingEntries(s.dr.mkSkipped, m.enc) = {} /\ OpensHeader(m.enc.key, m.enc)
  BY DEF OnNext, OpensHeader
<1>8. /\ RingOK(s.dr.recvChains)
      /\ \A c \in Held(s.dr.recvChains) : c.nr \in Nat /\ \E u \in 1 .. o - 1 : c.pk = PairOf(u)
  BY <1>1, <1>3 DEF Holding
<1>9. ~HasChain(s.dr.recvChains, m.enc.hdr.pk)
  <2> SUFFICES ASSUME HasChain(s.dr.recvChains, m.enc.hdr.pk) PROVE FALSE
    OBVIOUS
  <2>1. PICK c \in Held(s.dr.recvChains) : c.pk = PairOf(o + 1)
    BY <1>4, <1>8, HeldFacts
  <2>2. PICK u \in 1 .. o - 1 : c.pk = PairOf(u)
    BY <1>8
  <2>3. u \in Nat /\ o + 1 \in Nat /\ u # o + 1
    BY <1>3
  <2> QED BY <2>1, <2>2, <2>3, PairInjective
<1>10. HasPrevChain(s.dr) => Chain(s).nr \in Nat /\ o - 1 >= 1
  BY <1>3, ChainInForce
<1>11. /\ RingOK(r.dr.recvChains) /\ HasChain(r.dr.recvChains, r.dr.dhr) /\ Chain(r).nr = 0
       /\ \A c \in Held(r.dr.recvChains) :
            c \in Held(s.dr.recvChains) \/ (c.pk = m.enc.hdr.pk /\ c.nr = 0)
       /\ \A id \in DOMAIN r.dr.mkSkipped.entries :
            \/ id \in DOMAIN s.dr.mkSkipped.entries
            \/ /\ HasPrevChain(s.dr)
               /\ \E k \in Nat : Chain(s).nr <= k /\ id = StorageKey(s.hkr.key, k)
  <2>1. PICK hdr : hdr = m.enc.hdr
    OBVIOUS
  <2>2. Turned(s, r, hdr) /\ ~HasChain(s.dr.recvChains, hdr.pk) /\ hdr.pn \in Nat
    BY <1>3, <1>6, <1>9, <2>1
  <2> HIDE DEF s
  <2> QED BY <1>8, <1>10, <2>1, <2>2, TurnedFacts
<1>12. t.dr.dhr = r.dr.dhr /\ r.dr.dhr = m.enc.hdr.pk /\ r.hkr = s.nhkr
  BY <1>6 DEF EpochKept, Turned
<1>13. /\ RingOK(t.dr.recvChains) /\ HasChain(t.dr.recvChains, t.dr.dhr) /\ Chain(t).nr = n + 1
       /\ \A c \in Held(t.dr.recvChains) :
            c \in Held(r.dr.recvChains) \/ (c.pk = r.dr.dhr /\ c.nr = n + 1)
       /\ \A id \in DOMAIN t.dr.mkSkipped.entries :
            \/ id \in DOMAIN r.dr.mkSkipped.entries
            \/ \E k \in 0 .. n - 1 : id = StorageKey(r.hkr.key, k)
  <2> HIDE DEF n
  <2> QED BY <1>3, <1>6, <1>11, <1>12, AdvancedFacts
<1>14. Performed(p)' /\ Own(p)' = o /\ Epoch(p)' = o + 1 /\ Heard(p)' = o + 1
  <2>1. Performed(p)'
    BY <1>6, <1>t DEF Performed, Turned, EpochKept
  <2>2. Own(p)' = o
    BY <1>o DEF Own, Newest
  <2> QED BY <2>1, <2>2 DEF Epoch, Heard
<1>15. session'[q] = session[q]
  <2>1. session' = [session EXCEPT ![p] = t] /\ session = [x \in Party |-> session[x]]
    BY <1>t, StandFacts
  <2> QED BY <1>1, <2>1
<1>16. Adjacent'
  <2>1. Performed(q)' = Performed(q) /\ Own(q)' = Own(q)
    BY <1>15 DEF Performed, Own, Newest
  <2>2. ~Performed(q)' /\ Epoch(q)' = o + 1
    BY <1>2, <2>1 DEF Epoch
  <2>3. o + 1 \in (o + 1) - 1 .. (o + 1) + 1
    BY <1>3
  <2> QED BY <1>1, <1>14, <2>2, <2>3 DEF Adjacent
<1>17. Standing(p)'
  <2> DEFINE root == DeriveRoot(s.dr.rk, SharedSecret(s.dr.dhs, m.enc.hdr.pk))
  <2>1. root = Root[o + 1]
    <3>1. o + 1 \in Nat /\ o + 1 # 0 /\ (o + 1) - 1 = o
      BY <1>3
    <3>2. Root[o + 1] = DeriveRoot(Root[o], SharedSecret(PairOf(o + 1), PairOf(o)))
      BY <3>1, RootDef
    <3>3. \A a, b : SharedSecret(a, b) = SharedSecret(b, a)
      BY DEF SharedSecret
    <3> QED BY <1>4, <1>5, <3>2, <3>3
  <2>2. NextHeaderKey(root) = HeaderKeyOf((o + 1) + 2)
    <3>1. (o + 1) + 2 > 2 /\ ((o + 1) + 2) - 2 = o + 1 /\ (o + 1) + 2 \in Nat
      BY <1>3
    <3> QED BY <2>1, <3>1 DEF HeaderKeyOf
  <2>3. /\ t.hkr.key = HeaderKeyOf(o + 1) /\ t.nhkr.key = HeaderKeyOf((o + 1) + 2)
        /\ t.dr.rk = Root[o + 1] /\ t.dr.cks = NoChainKey /\ t.dr.dhr = PairOf(o + 1) /\ t.dr.dhRSet
        /\ t.dr.dhRatchetPerformed
    BY <1>4, <1>5, <1>6, <2>1, <2>2 DEF Turned, EpochKept, FreshHeaderKey
  <2>4. /\ t.nhks = s.nhks /\ t.dr.ns = s.dr.ns /\ t.dr.pn = s.dr.pn /\ t.dr.dhs = s.dr.dhs
    BY <1>t DEF SendHalfKept
  <2>5. o + 1 > 0
    BY <1>3
  <2> HIDE DEF root
  <2> QED
    BY <1>t, <1>5, <1>14, <2>3, <2>4, <2>5 DEF Standing, RatchetDue
<1>18. Holding(p)'
  <2>1. \A c \in Held(t.dr.recvChains) : c.nr \in Nat /\ \E u \in 1 .. o + 1 : c.pk = PairOf(u)
    <3> SUFFICES ASSUME NEW c \in Held(t.dr.recvChains)
                 PROVE  c.nr \in Nat /\ \E u \in 1 .. o + 1 : c.pk = PairOf(u)
      OBVIOUS
    <3>1. c \in Held(s.dr.recvChains) \/ (c.pk = m.enc.hdr.pk /\ c.nr \in {0, n + 1})
      BY <1>11, <1>12, <1>13
    <3>2. CASE c \in Held(s.dr.recvChains)
      <4>1. c.nr \in Nat /\ \E u \in 1 .. o - 1 : c.pk = PairOf(u)
        BY <1>8, <3>2
      <4>2. \A u \in 1 .. o - 1 : u \in 1 .. o + 1
        BY <1>3
      <4> QED BY <4>1, <4>2
    <3>3. CASE c.pk = m.enc.hdr.pk /\ c.nr \in {0, n + 1}
      <4>1. o + 1 \in 1 .. o + 1
        BY <1>3
      <4> QED BY <1>3, <1>4, <3>3, <4>1
    <3> QED BY <3>1, <3>2, <3>3
  <2>2. ASSUME NEW id \in DOMAIN t.dr.mkSkipped.entries
        PROVE  \E u \in 1 .. o + 1, k \in Nat :
             /\ id = StorageKey(HeaderKeyOf(u), k) /\ Speaker(u) = Peer(p)
             /\ u = o + 1 => HasChain(t.dr.recvChains, t.dr.dhr) /\ k < Chain(t).nr
    <3>1. CASE id \in DOMAIN s.dr.mkSkipped.entries
      <4>1. PICK u \in 1 .. o - 1, k \in Nat :
             id = StorageKey(HeaderKeyOf(u), k) /\ Speaker(u) = Peer(p)
        BY <1>1, <1>3, <3>1 DEF Holding
      <4>2. u \in 1 .. o + 1 /\ u # o + 1
        BY <1>3
      <4> QED BY <4>1, <4>2
    <3>2. CASE HasPrevChain(s.dr) /\ \E k \in Nat : Chain(s).nr <= k /\ id = StorageKey(s.hkr.key, k)
      <4>1. PICK k \in Nat : id = StorageKey(HeaderKeyOf(o - 1), k)
        BY <1>5, <3>2
      <4>2. o - 1 \in 1 .. o + 1 /\ o - 1 # o + 1
        BY <1>3, <1>10, <3>2
      <4>3. Speaker(o - 1) = Peer(p)
        <5>1. o - 1 \in Int /\ (o - 1) + 2 = o + 1
          BY <1>3
        <5> QED BY <5>1, <1>4, SpeakerFacts
      <4> QED BY <4>1, <4>2, <4>3
    <3>3. CASE \E k \in 0 .. n - 1 : id = StorageKey(r.hkr.key, k)
      <4>1. PICK k \in 0 .. n - 1 : id = StorageKey(HeaderKeyOf(o + 1), k)
        BY <1>5, <1>12, <3>3
      <4>2. k \in Nat /\ k < n + 1 /\ o + 1 \in 1 .. o + 1
        BY <1>3
      <4> QED BY <4>1, <4>2, <1>4, <1>13
    <3> QED BY <1>11, <1>13, <3>1, <3>2, <3>3
  <2> QED
    BY <1>t, <1>13, <1>14, <2>1, <2>2 DEF Holding
<1>19. m \notin Taken(p)
  <2>1. ~(o + 1 <= o - 1)
    BY <1>3
  <2> QED BY <1>1, <1>2, <1>3, <2>1 DEF Once, Behind
<1>20. ASSUME NEW x \in network, x.enc.hdr.n \in Nat, x.enc.key = HeaderKeyOf(EpochOf(x)),
              StorageKey(x.enc.key, x.enc.hdr.n) \notin DOMAIN s.dr.mkSkipped.entries,
              \/ /\ EpochOf(x) <= o - 1 /\ EpochOf(x) \in Nat
                 /\ EpochOf(x) = o - 1 /\ HasPrevChain(s.dr) => x.enc.hdr.n < Chain(s).nr
              \/ EpochOf(x) = o + 1 /\ x.enc.hdr.n = n
       PROVE  Behind(p, x)'
  <2>1. EpochOf(x) <= o + 1 /\ (EpochOf(x) = o + 1 => x.enc.hdr.n < n + 1)
    BY <1>3, <1>20
  <2>2. StorageKey(x.enc.key, x.enc.hdr.n) \notin DOMAIN t.dr.mkSkipped.entries
    <3> SUFFICES ASSUME StorageKey(x.enc.key, x.enc.hdr.n) \in DOMAIN t.dr.mkSkipped.entries
                 PROVE  FALSE
      OBVIOUS
    <3>1. CASE HasPrevChain(s.dr) /\ \E k \in Nat : Chain(s).nr <= k /\
                  StorageKey(x.enc.key, x.enc.hdr.n) = StorageKey(s.hkr.key, k)
      <4>1. x.enc.key = HeaderKeyOf(o - 1) /\ Chain(s).nr <= x.enc.hdr.n
        BY <1>5, <3>1 DEF StorageKey
      <4>2. o - 1 \in Int
        BY <1>3
      <4>3. EpochOf(x) = o - 1
        BY <4>1, <4>2, SameHeaderKey
      <4>4. x.enc.hdr.n < Chain(s).nr
        BY <1>3, <1>20, <3>1, <4>3
      <4> QED BY <1>10, <1>20, <3>1, <4>1, <4>4
    <3>2. CASE \E k \in 0 .. n - 1 : StorageKey(x.enc.key, x.enc.hdr.n) = StorageKey(r.hkr.key, k)
      <4>1. x.enc.key = HeaderKeyOf(o + 1) /\ x.enc.hdr.n \in 0 .. n - 1
        BY <1>5, <1>12, <3>2 DEF StorageKey
      <4>2. o + 1 \in Int
        BY <1>3
      <4>3. EpochOf(x) = o + 1
        BY <4>1, <4>2, SameHeaderKey
      <4> QED BY <1>3, <1>20, <4>1, <4>3
    <3> QED BY <1>11, <1>13, <1>20, <3>1, <3>2
  <2>3. EpochOf(x)' = EpochOf(x)
    BY DEF EpochOf
  <2> QED
    BY <1>t, <1>13, <1>14, <2>1, <2>2, <2>3 DEF Behind
<1>21. Behind(p, m)'
  <2>1. StorageKey(m.enc.key, n) \notin DOMAIN s.dr.mkSkipped.entries
    BY <1>7 DEF MatchingEntries, StorageKey
  <2> QED BY <1>2, <1>3, <1>4, <1>20, <2>1
<1>22. \A x \in Taken(p) : Behind(p, x)'
  <2> SUFFICES ASSUME NEW x \in Taken(p) PROVE Behind(p, x)'
    OBVIOUS
  <2>1. x \in network /\ Behind(p, x) /\ MessageOK(x)
    BY <1>1 DEF Once, Taken, HEInv, SentInv
  <2>2. EpochOf(x) \in Nat /\ x.enc.key = HeaderKeyOf(EpochOf(x)) /\ x.enc.hdr.n \in Nat
    BY <2>1 DEF MessageOK
  <2> QED BY <1>3, <1>20, <2>1, <2>2 DEF Behind
<1> QED
  BY <1>16, <1>17, <1>18, <1>19, <1>21, <1>22 DEF Accepted

(* Accepting a message preserves the invariant.                            *)
LEMMA AcceptStep ==
  ASSUME HEInv, NEW p \in Party, DecryptHEAccepts(p)
  PROVE  HEInv'
<1> DEFINE q == Peer(p)
<1>1. p \notin closed
  BY AcceptFacts
<1>2. PICK m \in network :
        /\ m.from = q
        /\ session' = [session EXCEPT ![p] = session'[p]] /\ HEShape(session'[p])
        /\ SendHalfKept(session[p], session'[p])
        /\ \/ TookStored(session[p], session'[p], m.enc) \/ OnCurrent(session[p], session'[p], m.enc)
           \/ OnNext(session[p], session'[p], m.enc)
        /\ accepted' = [accepted EXCEPT ![p] = @ \cup {m.box.text}]
        /\ replayed' = [replayed EXCEPT ![p] = @ \cup ({m.box.text} \cap accepted[p])]
        /\ UNCHANGED <<generated, sent, network, closed>>
  BY AcceptFacts
<1>3. Accepted(p, m)
  BY <1>1, <1>2, StoredPath, CurrentPath, NextPath
<1>4. /\ Counts /\ q \in Party /\ q # p /\ Peer(q) = p /\ Party = {p, q} /\ Once(p) /\ Standing(p)
      /\ session = [x \in Party |-> session[x]] /\ MessageOK(m)
  BY <1>1, StandFacts DEF HEInv, SentInv
<1>t. PICK t : t = session'[p]
  OBVIOUS
<1>5. session'[q] = session[q] /\ sent[q] \in Nat /\ sent[p] \in Nat
  <2>1. session' = [session EXCEPT ![p] = t]
    BY <1>2, <1>t
  <2> QED BY <1>4, <2>1 DEF Counts
<1>6. ShapeInv'
  BY <1>2, UpdateShapeInv DEF HEInv
<1>7. Counts'
  BY <1>2, <1>4 DEF Counts
<1>8. SentInv'
  <2>1. RatchetDue(session[p]) => RatchetDue(t)
    <3>1. CASE EpochKept(session[p], t)
      BY <3>1 DEF EpochKept, RatchetDue
    <3>2. CASE ~EpochKept(session[p], t)
      BY <1>2, <1>t, <3>2 DEF TookStored, OnCurrent, OnNext, Turned, EpochKept, RatchetDue
    <3> QED BY <3>1, <3>2
  <2>2. t.dr.ns = session[p].dr.ns
    BY <1>2, <1>t DEF SendHalfKept
  <2>3. ASSUME NEW x \in network PROVE MessageOK(x)'
    <3>1. x.from \in {p, q}
      BY <1>4 DEF HEInv, SentInv, MessageOK
    <3>2. RatchetDue(session[x.from]) => RatchetDue(session'[x.from])
      BY <1>5, <1>t, <2>1, <3>1
    <3>3. session'[x.from].dr.ns = session[x.from].dr.ns
      BY <1>5, <1>t, <2>2, <3>1
    <3> QED BY <1>2, <3>2, <3>3, IdleMessages
  <2> QED BY <1>2, <2>3 DEF HEInv, SentInv, MessagesDiffer
<1>9. m.box.text \notin accepted[p]
  BY <1>2, <1>3 DEF Accepted, Taken
<1>10. PartyInv(q)'
  <2>1. accepted'[q] = accepted[q] /\ replayed'[q] = replayed[q]
    BY <1>2, <1>4 DEF Counts
  <2> QED BY <1>2, <1>4, <1>5, <2>1, OtherKept
<1>11. PartyInv(p)'
  <2>1. accepted'[p] = accepted[p] \cup {m.box.text}
        /\ replayed'[p] = replayed[p] \cup ({m.box.text} \cap accepted[p])
    BY <1>2, <1>4 DEF Counts
  <2>2. replayed'[p] = {}
    BY <1>4, <1>9, <2>1 DEF Once
  <2>3. \A txt \in accepted'[p] : txt \in 0 .. sent'[q] - 1
    BY <1>2, <1>4, <2>1 DEF Once, MessageOK
  <2>4. ASSUME NEW x \in Taken(p)' PROVE Behind(p, x)'
    <3>1. x \in network /\ x.from = q /\ (x.box.text \in accepted[p] \/ x.box.text = m.box.text)
      BY <1>2, <2>1, <2>4 DEF Taken
    <3>2. x \in Taken(p) \/ x = m
      BY <1>2, <3>1 DEF Taken, HEInv, SentInv, MessagesDiffer
    <3> QED BY <1>3, <3>2 DEF Accepted
  <2>5. Once(p)'
    BY <2>2, <2>3, <2>4 DEF Once
  <2> QED
    BY <1>1, <1>2, <1>3, <2>5 DEF PartyInv, Accepted
<1> QED
  BY <1>3, <1>4, <1>6, <1>7, <1>8, <1>10, <1>11 DEF HEInv, Accepted

-----------------------------------------------------------------------------
(* The invariant and what follows from it.                                 *)

(* Every step preserves the invariant.                                     *)
LEMMA StepHEInv ==
  ASSUME HEInv, [Next]_vars
  PROVE  HEInv'
<1>1. ASSUME NEW p \in Party, EncryptHE(p)
      PROVE  HEInv'
  BY <1>1, EncryptStep
<1>2. ASSUME NEW p \in Party, HeaderNotSealed(p) \/ CloseSession(p)
      PROVE  HEInv'
  BY <1>2, CloseStep
<1>3. ASSUME NEW p \in Party, EncryptHEFails(p)
      PROVE  HEInv'
  BY <1>3, EncryptFailsStep
<1>4. ASSUME NEW p \in Party, DecryptHEAccepts(p)
      PROVE  HEInv'
  BY <1>4, AcceptStep
<1>5. ASSUME NEW p \in Party, DecryptHERejects(p)
      PROVE  HEInv'
  BY <1>5, RejectStep, IdleStep
<1>6. CASE UNCHANGED vars
  BY <1>6, IdleStep
<1> QED
  BY <1>1, <1>2, <1>3, <1>4, <1>5, <1>6 DEF Next

(* The invariant holds in every reachable state: the two sessions walk     *)
(* through one sequence of epochs, and every key either of them holds is   *)
(* that of an epoch near its own.                                          *)
THEOREM SpecHEInv == Spec => []HEInv
<1>1. Init => HEInv
  BY InitHEInv
<1>2. HEInv /\ [Next]_vars => HEInv'
  BY StepHEInv
<1> QED
  BY <1>1, <1>2, PTL DEF Spec

(* A header key and a nonce determine the epoch and the number in its      *)
(* chain.                                                                  *)
LEMMA HeaderNonces ==
  ASSUME HEInv
  PROVE  HeaderNonceNeverReused
<1> SUFFICES ASSUME NEW m1 \in network, NEW m2 \in network,
                    m1.enc.key = m2.enc.key, m1.enc.nonce = m2.enc.nonce
             PROVE  m1 = m2
  BY DEF HeaderNonceNeverReused
<1>1. MessageOK(m1) /\ MessageOK(m2)
  BY DEF HEInv, SentInv
<1>2. EpochOf(m1) \in Int /\ HeaderKeyOf(EpochOf(m1)) = m2.enc.key
  <2>1. Own(m1.from) \in Nat
    BY <1>1, EpochFacts DEF HEInv, MessageOK
  <2> QED BY <1>1, <2>1 DEF MessageOK
<1>3. EpochOf(m1) = EpochOf(m2)
  BY <1>2, SameHeaderKey
<1>4. m1.enc.hdr.pk = m2.enc.hdr.pk /\ m1.enc.hdr.n = m2.enc.hdr.n
  BY <1>1, <1>3 DEF MessageOK
<1> QED
  BY <1>4 DEF HEInv, SentInv, MessagesDiffer

(* The header keys a party holds for receiving are those of epochs of its  *)
(* peer.                                                                   *)
LEMMA DirectionsApart ==
  ASSUME HEInv
  PROVE  DirectionsSeparate
<1> SUFFICES ASSUME NEW m \in network
             PROVE  LET s == session[m.from]
                    IN  /\ m.enc.key \notin {s.hkr.key, s.nhkr.key}
                        /\ \A id \in DOMAIN s.dr.mkSkipped.entries : id[1] # m.enc.key
  BY DEF DirectionsSeparate
<1> DEFINE p == m.from
           s == session[p]
<1>1. /\ MessageOK(m) /\ p \in Party /\ Speaker(EpochOf(m)) = p
      /\ m.enc.key = HeaderKeyOf(EpochOf(m))
  BY DEF HEInv, SentInv, MessageOK
<1>2. Own(p) \in Nat /\ Heard(p) \in Int /\ Speaker(Heard(p)) = Peer(p)
  BY <1>1, EpochFacts DEF HEInv
<1>3. EpochOf(m) \in Int /\ EpochOf(m) >= 1
  BY <1>1, <1>2 DEF MessageOK
<1>4. ASSUME NEW t \in Int, Speaker(t) = Peer(p)
      PROVE  m.enc.key # HeaderKeyOf(t)
  BY <1>1, <1>3, <1>4, SameHeaderKey, ParityApart
<1>5. CASE p \in closed
  <2>1. Erased(p)
    BY <1>1, <1>5, StandFacts
  <2>2. m.enc.key # ZeroHeaderKey
    BY <1>1, <1>3, ZeroKeyFacts
  <2> QED
    BY <2>1, <2>2 DEF Erased, NewStorage
<1>6. CASE p \notin closed
  <2>1. Standing(p) /\ Holding(p)
    BY <1>1, <1>6, StandFacts
  <2>2. s.hkr.key = HeaderKeyOf(Heard(p)) /\ s.nhkr.key = HeaderKeyOf(Heard(p) + 2)
    BY <2>1 DEF Standing
  <2>3. Heard(p) + 2 \in Int /\ Speaker(Heard(p) + 2) = Peer(p)
    BY <1>2, SpeakerFacts
  <2>4. m.enc.key \notin {s.hkr.key, s.nhkr.key}
    BY <1>2, <1>4, <2>2, <2>3
  <2>5. ASSUME NEW id \in DOMAIN s.dr.mkSkipped.entries
        PROVE  id[1] # m.enc.key
    <3>1. PICK u \in 1 .. Heard(p) : \E n \in Nat : id = StorageKey(HeaderKeyOf(u), n) /\ Speaker(u) = Peer(p)
      BY <2>1 DEF Holding
    <3>2. u \in Int /\ id[1] = HeaderKeyOf(u) /\ Speaker(u) = Peer(p)
      BY <1>2, <3>1 DEF StorageKey
    <3> QED
      BY <1>4, <3>2
  <2> QED
    BY <2>4, <2>5
<1> QED
  BY <1>5, <1>6

(* The header key of the next message is that of an epoch which the peer   *)
(* has heard of or waits for.                                              *)
LEMMA HeadersOpen ==
  ASSUME HEInv
  PROVE  NextHeaderOpens
<1> SUFFICES ASSUME closed = {}, NEW p \in Party, CanSendHE(session[p])
             PROVE  LET s    == session[p]
                        peer == session[Peer(p)]
                        key  == IF RatchetDue(s) THEN s.nhks.key ELSE s.hks.key
                    IN  key # ZeroHeaderKey /\ key \in {peer.hkr.key, peer.nhkr.key}
  BY DEF NextHeaderOpens
<1> DEFINE q    == Peer(p)
           s    == session[p]
           peer == session[q]
<1>1. Counts /\ q \in Party /\ Peer(q) = p /\ Standing(p) /\ Standing(q) /\ Adjacent
  BY StandFacts DEF HEInv
<1>2. /\ Own(p) \in Nat /\ Own(q) \in Nat /\ Speaker(Own(p)) = p /\ Speaker(Own(q)) = q
      /\ Own(p) # Own(q)
  BY <1>1, EpochFacts, ParityApart
<1>3. /\ s.nhks.key = HeaderKeyOf(Own(p) + 2)
      /\ peer.hkr.key = HeaderKeyOf(Heard(q)) /\ peer.nhkr.key = HeaderKeyOf(Heard(q) + 2)
  BY <1>1 DEF Standing, FreshHeaderKey
<1>4. CASE RatchetDue(s)
  <2>1. Performed(p)
    <3>1. s.dr.dhRSet
      BY <1>4 DEF CanSendHE
    <3>2. Epoch(p) > 0 /\ Epoch(p) \in Nat
      BY <1>1, <3>1, EpochFacts DEF Standing
    <3>3. Performed(p) \/ Epoch(p) = 0
      BY <1>1, <1>4, DueWhen
    <3> QED
      BY <3>2, <3>3
  <2>2. ~Performed(q) /\ Own(q) = Own(p) + 1
    BY <1>1, <2>1 DEF Adjacent, Epoch
  <2>3. Heard(q) + 2 = Own(p) + 2
    BY <1>2, <2>2 DEF Heard
  <2>4. HeaderKeyOf(Own(p) + 2) # ZeroHeaderKey
    BY <1>2, ZeroKeyFacts
  <2> QED
    BY <1>3, <1>4, <2>3, <2>4
<1>5. CASE ~RatchetDue(s)
  <2>1. ~Performed(p) /\ Epoch(p) = Own(p) /\ Own(p) > 0
    BY <1>1, <1>2, <1>5, DueWhen DEF Epoch
  <2>2. s.hks.key = HeaderKeyOf(Own(p))
    BY <1>1, <1>5, <2>1 DEF Standing
  <2>3. CASE Performed(q)
    <3>1. Heard(q) = Own(p)
      BY <1>1, <2>1, <2>3 DEF Adjacent, Epoch, Heard
    <3> QED
      BY <1>2, <1>3, <1>5, <2>1, <2>2, <3>1, ZeroKeyFacts
  <2>4. CASE ~Performed(q)
    <3>1. Own(q) \in Own(p) - 1 .. Own(p) + 1 /\ Heard(q) = Own(q) - 1
      BY <1>1, <2>1, <2>4 DEF Adjacent, Epoch, Heard
    <3>2. Heard(q) = Own(p) \/ Heard(q) + 2 = Own(p)
      BY <1>2, <3>1
    <3> QED
      BY <1>2, <1>3, <1>5, <2>1, <2>2, <3>2, ZeroKeyFacts
  <2> QED BY <2>3, <2>4
<1> QED
  BY <1>4, <1>5

(* No header key ever seals two headers with one nonce, however often key  *)
(* generation fails, and however messages are lost, reordered or mixed up. *)
THEOREM HeaderNoncesNeverReused == Spec => []HeaderNonceNeverReused
BY SpecHEInv, HeaderNonces, PTL

(* No header key of one direction opens headers of the other, skipped keys *)
(* included.                                                               *)
THEOREM DirectionsStaySeparate == Spec => []DirectionsSeparate
BY SpecHEInv, DirectionsApart, PTL

(* While neither session is closed, the peer can open the header of the    *)
(* next message either party would send.                                   *)
THEOREM NextHeadersOpen == Spec => []NextHeaderOpens
BY SpecHEInv, HeadersOpen, PTL

(* DecryptHE accepts no message twice.                                     *)
THEOREM MessagesAcceptedOnce == Spec => []AcceptedAtMostOnce
<1>1. HEInv => AcceptedAtMostOnce
  BY DEF HEInv, PartyInv, Once, AcceptedAtMostOnce
<1> QED
  BY <1>1, SpecHEInv, PTL

(* A closed session never holds a key of the conversation again.           *)
THEOREM ClosedSessionsStayErased == Spec => []ErasedForGood
<1>1. HEInv => ErasedForGood
  BY DEF HEInv, Counts, PartyInv, Erased, ErasedForGood
<1> QED
  BY <1>1, SpecHEInv, PTL

(* In every reachable state, every arrival that DecryptHE would reject     *)
(* leaves the session with its header keys as it was.                      *)
THEOREM RejectionsLeaveSessions == Spec => []RejectionLeavesSession
<1>1. HEInv => RejectionLeavesSession
  <2> SUFFICES ASSUME HEInv, NEW p \in Party, NEW a, DecryptArrival(p, a).err # "ok"
               PROVE  DecryptArrival(p, a).s = session[p]
    BY DEF RejectionLeavesSession
  <2> QED
    BY DecryptHEOutcome DEF HEInv, ShapeInv, DecryptArrival
<1> QED
  BY <1>1, SpecHEInv, PTL

-----------------------------------------------------------------------------
(* The keys of the messages.                                               *)

(* The chain key of epoch t at number n, which is its message key too.     *)
ChainKeyOf(t, n) == [root |-> Root[t], step |-> n]

(* How a chain moves from number to number.                                *)
LEMMA ChainKeySteps ==
  ASSUME NEW t, NEW n \in Int, NEW k \in Int
  PROVE  /\ ChainKeyAt(ChainKeyOf(t, n), k) = ChainKeyOf(t, n + k)
         /\ DeriveNextChainKey(ChainKeyOf(t, n)) = ChainKeyOf(t, n + 1)
         /\ FirstChainKey(Root[t]) = ChainKeyOf(t, 0)
         /\ ChainKeyOf(t, n) # NoChainKey
BY DEF ChainKeyAt, ChainKeyOf, DeriveNextChainKey, FirstChainKey, NoChainKey

(* The name under which the key of a message is stored.                    *)
Name(m) == StorageKey(m.enc.key, m.enc.hdr.n)

(* A session has received number n on the chain of epoch e, which stood at *)
(* nr with chain key ck: the keys between are stored on top of st.         *)
MovesChain(t, e, n, st, ck, nr) ==
  /\ nr \in Nat /\ nr <= n
  /\ t.dr.mkSkipped = StoreKeys(st, HeaderKeyOf(e), ck, nr, n)
  /\ HasPrevChain(t.dr) /\ Chain(t).nr = n + 1
  /\ Chain(t).ck = DeriveNextChainKey(ChainKeyAt(ck, n - nr))

(* The three ways to accept m, in terms of the epochs.                     *)
TakesStored(p, m) ==
  LET s == session[p]
      t == session'[p]
  IN  /\ Heard(p)' = Heard(p) /\ EpochOf(m) <= Heard(p)
      /\ EpochOf(m) = Heard(p) => m.enc.hdr.n < Chain(s).nr
      /\ Name(m) \in DOMAIN s.dr.mkSkipped.entries
      /\ t.dr.mkSkipped = Consume(s.dr.mkSkipped, Name(m))
      /\ t.dr.recvChains = s.dr.recvChains /\ t.dr.dhr = s.dr.dhr /\ t.dr.dhRSet = s.dr.dhRSet

StaysOnChain(p, m) ==
  LET s == session[p]
      t == session'[p]
  IN  /\ Heard(p)' = Heard(p) /\ EpochOf(m) = Heard(p) /\ HasPrevChain(s.dr)
      /\ MovesChain(t, Heard(p), m.enc.hdr.n, s.dr.mkSkipped, Chain(s).ck, Chain(s).nr)

TurnsTo(p, m) ==
  LET s == session[p]
      t == session'[p]
      e == Heard(p) + 2
  IN  /\ Heard(p)' = e /\ EpochOf(m) = e
      /\ MovesChain(t, e, m.enc.hdr.n, SkipPrevChainHE(s, m.enc.hdr.pn), FirstChainKey(Root[e]), 0)

(* What DecryptHE has done when it accepted m.                             *)
Effects(p, m) ==
  LET s == session[p]
      t == session'[p]
  IN  /\ m.from = Peer(p) /\ m.box.text \notin accepted[p] /\ session'[Peer(p)] = session[Peer(p)]
      /\ t.dr.ns = s.dr.ns /\ t.dr.pn = s.dr.pn /\ t.dr.cks \in {s.dr.cks, NoChainKey} /\ Own(p)' = Own(p)
      /\ accepted' = [accepted EXCEPT ![p] = @ \cup {m.box.text}]
      /\ UNCHANGED <<generated, sent, network, closed>>
      /\ TakesStored(p, m) \/ StaysOnChain(p, m) \/ TurnsTo(p, m)

(* A stored key was taken,                                                 *)
LEMMA StoredEffects ==
  ASSUME HEInv, NEW p \in Party, p \notin closed, NEW m \in network, m.from = Peer(p),
         generated' = generated,  closed' = closed,
         session' = [session EXCEPT ![p] = session'[p]],
         SendHalfKept(session[p], session'[p]), TookStored(session[p], session'[p], m.enc)
  PROVE  TakesStored(p, m)
<1> DEFINE s == session[p]
           t == session'[p]
<1>1. Holding(p)
  BY StandFacts
<1>2. Heard(p)' = Heard(p)
  BY StaysInEpoch DEF TookStored
<1>3. PICK id \in MatchingEntries(s.dr.mkSkipped, m.enc) : t.dr.mkSkipped = Consume(s.dr.mkSkipped, id)
  BY DEF TookStored
<1>4. id \in DOMAIN s.dr.mkSkipped.entries /\ id[1] = m.enc.key /\ id[2] = m.enc.hdr.n
  BY <1>3 DEF MatchingEntries, OpensHeader
<1>5. PICK u \in 1 .. Heard(p), n \in Nat :
             /\ id = StorageKey(HeaderKeyOf(u), n)
             /\ u = Heard(p) => n < Chain(s).nr
  BY <1>1, <1>4 DEF Holding
<1>6. id = Name(m) /\ n = m.enc.hdr.n /\ HeaderKeyOf(u) = m.enc.key
  BY <1>4, <1>5 DEF StorageKey, Name
<1>7. u = EpochOf(m)
  <2>1. u \in Int
    OBVIOUS
  <2> QED BY <1>6, <2>1, SameHeaderKey
<1>8. t.dr.recvChains = s.dr.recvChains /\ t.dr.dhr = s.dr.dhr /\ t.dr.dhRSet = s.dr.dhRSet
  BY DEF TookStored, EpochKept
<1> QED
  BY <1>2, <1>3, <1>4, <1>5, <1>6, <1>7, <1>8 DEF TakesStored

(* What advancing a chain leaves in it.                                    *)
LEMMA AdvancedMoves ==
  ASSUME NEW r, NEW t, NEW n \in Nat, NEW e, RingOK(r.dr.recvChains), Advanced(r, t, n),
         t.dr.dhr = r.dr.dhr, t.dr.dhRSet, Chain(r).nr \in Nat, r.hkr.key = HeaderKeyOf(e)
  PROVE  MovesChain(t, e, n, r.dr.mkSkipped, Chain(r).ck, Chain(r).nr)
<1>1. /\ HasChain(r.dr.recvChains, r.dr.dhr) /\ ~(n < Chain(r).nr)
      /\ t.dr.mkSkipped = StoreKeys(r.dr.mkSkipped, r.hkr.key, Chain(r).ck, Chain(r).nr, n)
  BY DEF Advanced
<1>2. PICK ck : ck = DeriveNextChainKey(ChainKeyAt(Chain(r).ck, n - Chain(r).nr))
  OBVIOUS
<1>3. t.dr.recvChains = PutChain(r.dr.recvChains, r.dr.dhr, ck, n + 1)
  BY <1>2 DEF Advanced
<1>4. /\ HasChain(t.dr.recvChains, t.dr.dhr)
      /\ GetChain(t.dr.recvChains, t.dr.dhr) = [pk |-> r.dr.dhr, ck |-> ck, nr |-> n + 1]
  BY <1>1, <1>3, GetAfterPut
<1>5. Chain(t).nr = n + 1 /\ Chain(t).ck = ck
  BY <1>4 DEF Chain
<1> QED
  BY <1>1, <1>2, <1>4, <1>5 DEF MovesChain, HasPrevChain

(* the chain in force moved,                                               *)
LEMMA CurrentEffects ==
  ASSUME HEInv, NEW p \in Party, p \notin closed, NEW m \in network, m.from = Peer(p),
         generated' = generated, closed' = closed,
         session' = [session EXCEPT ![p] = session'[p]],
         SendHalfKept(session[p], session'[p]), OnCurrent(session[p], session'[p], m.enc)
  PROVE  StaysOnChain(p, m)
<1> DEFINE s == session[p]
<1>t. PICK t : t = session'[p]
  OBVIOUS
<1>n. PICK n : n = m.enc.hdr.n
  OBVIOUS
<1>h. PICK h : h = Heard(p)
  OBVIOUS
<1>1. Standing(p) /\ Holding(p) /\ MessageOK(m) /\ Counts
  BY StandFacts DEF HEInv, SentInv
<1>2. Heard(p)' = h
  BY <1>h, StaysInEpoch DEF OnCurrent
<1>3. s.hkr.key = HeaderKeyOf(h) /\ m.enc.key = HeaderKeyOf(h) /\ h \in Int
  BY <1>1, <1>h, EpochFacts DEF Standing, OnCurrent, OpensHeader
<1>4. h = EpochOf(m) /\ h \in Nat \ {0} /\ n \in Nat
  BY <1>1, <1>3, <1>n, SameHeaderKey DEF MessageOK
<1>5. s.dr.dhRSet
  <2>1. Epoch(p) > 0
    <3>1. Own(p) \in Nat
      BY <1>1, EpochFacts
    <3> QED BY <3>1, <1>4, <1>h DEF Epoch, Heard
  <2> QED BY <1>1, <2>1 DEF Standing
<1>6. /\ Advanced(s, t, n) /\ t.dr.dhr = s.dr.dhr /\ t.dr.dhRSet /\ RingOK(s.dr.recvChains)
      /\ HasPrevChain(s.dr)
  BY <1>1, <1>5, <1>t, <1>n DEF OnCurrent, EpochKept, Holding, HasPrevChain, Advanced
<1>7. Chain(s).nr \in Nat
  BY <1>6, ChainInForce
<1> HIDE DEF s
<1>8. MovesChain(t, h, n, s.dr.mkSkipped, Chain(s).ck, Chain(s).nr)
  BY <1>3, <1>4, <1>6, <1>7, AdvancedMoves
<1> QED
  BY <1>2, <1>4, <1>6, <1>8, <1>h, <1>n, <1>t DEF StaysOnChain, s

(* A message of the peer's next epoch finds no chain yet, and mixing its   *)
(* ratchet key in gives the root key of its epoch.                         *)
LEMMA NextRoot ==
  ASSUME HEInv, NEW p \in Party, p \notin closed, NEW m \in network, m.from = Peer(p),
         OpensHeader(session[p].nhkr.key, m.enc)
  PROVE  LET s == session[p]
             e == EpochOf(m)
         IN  /\ e \in Nat \ {0} /\ Heard(p) + 2 = e /\ Own(p) + 1 = e
             /\ m.enc.hdr.pk = PairOf(e) /\ s.nhkr.key = HeaderKeyOf(e)
             /\ RingOK(s.dr.recvChains) /\ ~HasChain(s.dr.recvChains, m.enc.hdr.pk)
             /\ DeriveRoot(s.dr.rk, SharedSecret(s.dr.dhs, m.enc.hdr.pk)) = Root[e]
<1> DEFINE s == session[p]
<1>n. PICK pk : pk = m.enc.hdr.pk
  OBVIOUS
<1>o. PICK o : o = Own(p)
  OBVIOUS
<1>1. /\ Standing(p) /\ Holding(p) /\ MessageOK(m) /\ Counts
  BY StandFacts DEF HEInv, SentInv
<1>2. ~Performed(p) /\ EpochOf(m) = o + 1
  BY <1>o, NextEpochs
<1>3. o \in Nat /\ Epoch(p) = o /\ Heard(p) = o - 1
  BY <1>1, <1>2, <1>o, EpochFacts DEF Epoch, Heard
<1>4. pk = PairOf(o + 1)
  BY <1>1, <1>2, <1>n DEF MessageOK
<1>5. s.dr.rk = Root[o] /\ s.dr.dhs = PairOf(o) /\ s.nhkr.key = HeaderKeyOf(o + 1)
  <2>1. (o - 1) + 2 = o + 1
    BY <1>3
  <2> QED BY <1>1, <1>3, <1>o, <2>1 DEF Standing
<1>6. /\ RingOK(s.dr.recvChains)
      /\ \A c \in Held(s.dr.recvChains) : \E u \in 1 .. o - 1 : c.pk = PairOf(u)
  BY <1>1, <1>3 DEF Holding
<1>7. ~HasChain(s.dr.recvChains, pk)
  <2> SUFFICES ASSUME HasChain(s.dr.recvChains, pk) PROVE FALSE
    OBVIOUS
  <2>1. PICK c \in Held(s.dr.recvChains) : c.pk = PairOf(o + 1)
    BY <1>4, <1>6, HeldFacts
  <2>2. PICK u \in 1 .. o - 1 : c.pk = PairOf(u)
    BY <1>6
  <2>3. u \in Nat /\ o + 1 \in Nat /\ u # o + 1
    BY <1>3
  <2> QED BY <2>1, <2>2, <2>3, PairInjective
<1>8. DeriveRoot(s.dr.rk, SharedSecret(s.dr.dhs, pk)) = Root[o + 1]
  <2>1. o + 1 \in Nat /\ o + 1 # 0 /\ (o + 1) - 1 = o
    BY <1>3
  <2>2. Root[o + 1] = DeriveRoot(Root[o], SharedSecret(PairOf(o + 1), PairOf(o)))
    BY <2>1, RootDef
  <2>3. \A a, b : SharedSecret(a, b) = SharedSecret(b, a)
    BY DEF SharedSecret
  <2> QED BY <1>4, <1>5, <2>2, <2>3
<1>9. o + 1 \in Nat \ {0} /\ Heard(p) + 2 = o + 1
  BY <1>3
<1> QED
  BY <1>2, <1>4, <1>5, <1>6, <1>7, <1>8, <1>9, <1>n, <1>o

(* or the first message of the peer's next epoch has begun its chain.      *)
LEMMA NextEffects ==
  ASSUME HEInv, NEW p \in Party, p \notin closed, NEW m \in network, m.from = Peer(p),
         generated' = generated, closed' = closed,
         session' = [session EXCEPT ![p] = session'[p]],
         SendHalfKept(session[p], session'[p]), OnNext(session[p], session'[p], m.enc)
  PROVE  TurnsTo(p, m)
<1> DEFINE s == session[p]
<1>t. PICK t : t = session'[p]
  OBVIOUS
<1>n. PICK n, hdr : n = m.enc.hdr.n /\ hdr = m.enc.hdr
  OBVIOUS
<1>o. PICK e : e = EpochOf(m)
  OBVIOUS
<1>1. /\ e \in Nat \ {0} /\ Heard(p) + 2 = e /\ Own(p) + 1 = e /\ s.nhkr.key = HeaderKeyOf(e)
      /\ RingOK(s.dr.recvChains) /\ ~HasChain(s.dr.recvChains, hdr.pk)
      /\ DeriveRoot(s.dr.rk, SharedSecret(s.dr.dhs, hdr.pk)) = Root[e]
  BY <1>n, <1>o, NextRoot DEF OnNext
<1>2. n \in Nat
  BY <1>n DEF HEInv, SentInv, MessageOK
<1>3. PICK r : Turned(s, r, hdr) /\ EpochKept(r, t) /\ Advanced(r, t, n)
  BY <1>t, <1>n DEF OnNext
<1>c. PICK ck : ck = FirstChainKey(Root[e])
  OBVIOUS
<1>4. /\ r.dr.recvChains = Push(s.dr.recvChains, hdr.pk, ck) /\ r.dr.dhr = hdr.pk /\ r.dr.dhRSet
      /\ r.dr.mkSkipped = SkipPrevChainHE(s, hdr.pn) /\ r.dr.dhRatchetPerformed
      /\ r.hkr = s.nhkr
  BY <1>1, <1>3, <1>c DEF Turned
<1>5. t.dr.dhr = r.dr.dhr /\ t.dr.dhRSet /\ t.dr.dhRatchetPerformed
  BY <1>3, <1>4 DEF EpochKept
<1>6. /\ RingOK(r.dr.recvChains) /\ HasChain(r.dr.recvChains, r.dr.dhr)
      /\ GetChain(r.dr.recvChains, r.dr.dhr) = NewChain(hdr.pk, ck)
  <2> HIDE DEF s
  <2> QED BY <1>1, <1>4, PushFacts, GetAfterPush
<1>7. Chain(r).nr = 0 /\ Chain(r).ck = ck
  BY <1>6 DEF Chain, NewChain
<1>8. MovesChain(t, e, n, r.dr.mkSkipped, Chain(r).ck, Chain(r).nr)
  <2>1. Chain(r).nr \in Nat /\ r.hkr.key = HeaderKeyOf(e)
    BY <1>1, <1>4, <1>7
  <2> HIDE DEF s
  <2> QED BY <1>2, <1>3, <1>5, <1>6, <2>1, AdvancedMoves
<1>9. Heard(p)' = e
  <2>1. Performed(p)'
    BY <1>5, <1>t DEF Performed
  <2>2. Own(p)' = Own(p)
    BY DEF Own, Newest
  <2> QED BY <1>1, <2>1, <2>2 DEF Heard
<1> QED
  BY <1>1, <1>4, <1>7, <1>8, <1>9, <1>c, <1>n, <1>o, <1>t DEF TurnsTo

(* Accepting in terms of the epochs.                                       *)
LEMMA AcceptEffects ==
  ASSUME HEInv, NEW p \in Party, DecryptHEAccepts(p)
  PROVE  p \notin closed /\ \E m \in network : Effects(p, m)
<1> DEFINE s == session[p]
           t == session'[p]
           q == Peer(p)
<1>1. p \notin closed
  BY AcceptFacts
<1>2. PICK m \in network :
        /\ m.from = q
        /\ session' = [session EXCEPT ![p] = session'[p]]
        /\ SendHalfKept(s, t)
        /\ TookStored(s, t, m.enc) \/ OnCurrent(s, t, m.enc) \/ OnNext(s, t, m.enc)
        /\ accepted' = [accepted EXCEPT ![p] = @ \cup {m.box.text}]
        /\ replayed' = [replayed EXCEPT ![p] = @ \cup ({m.box.text} \cap accepted[p])]
        /\ UNCHANGED <<generated, sent, network, closed>>
  BY AcceptFacts
<1>3. q \in Party /\ q # p /\ session = [x \in Party |-> session[x]] /\ Counts
  BY StandFacts
<1>4. session'[q] = session[q]
  <2>1. PICK u : u = session'[p]
    OBVIOUS
  <2>2. session' = [session EXCEPT ![p] = u]
    BY <1>2, <2>1
  <2> QED BY <1>3, <2>2
<1>5. m.box.text \notin accepted[p]
  <2>1. replayed'[p] = {}
    BY AcceptStep DEF HEInv, PartyInv, Once
  <2> QED BY <1>2, <1>3, <2>1 DEF Counts
<1>6. TakesStored(p, m) \/ StaysOnChain(p, m) \/ TurnsTo(p, m)
  BY <1>1, <1>2, StoredEffects, CurrentEffects, NextEffects
<1>7. t.dr.ns = s.dr.ns /\ t.dr.pn = s.dr.pn /\ t.dr.cks \in {s.dr.cks, NoChainKey}
  <2>1. t.dr.ns = s.dr.ns /\ t.dr.pn = s.dr.pn
    BY <1>2 DEF SendHalfKept
  <2>2. CASE EpochKept(s, t)
    BY <2>1, <2>2 DEF EpochKept
  <2>3. CASE ~EpochKept(s, t)
    <3>1. PICK r : Turned(s, r, m.enc.hdr) /\ EpochKept(r, t)
      BY <1>2, <2>3 DEF TookStored, OnCurrent, OnNext
    <3> QED BY <2>1, <3>1 DEF Turned, EpochKept
  <2> QED BY <2>2, <2>3
<1>8. Own(p)' = Own(p)
  BY <1>2 DEF Own, Newest
<1> QED
  BY <1>1, <1>2, <1>4, <1>5, <1>6, <1>7, <1>8 DEF Effects

(* The stored keys of the epochs are the ones those chains derive.         *)
StoreGenuine(st) ==
  \A u \in Nat \ {0}, n \in Nat :
    StorageKey(HeaderKeyOf(u), n) \in DOMAIN st.entries =>
      st.entries[StorageKey(HeaderKeyOf(u), n)] = ChainKeyOf(u, n)

(* A session in its epoch o that has heard of epoch h holds the chain keys *)
(* of these epochs, at the numbers they stand at.                          *)
KeysGenuine(s, o, h) ==
  /\ s.dr.cks # NoChainKey => s.dr.cks = ChainKeyOf(o, s.dr.ns)
  /\ HasPrevChain(s.dr) => Chain(s).ck = ChainKeyOf(h, Chain(s).nr)
  /\ StoreGenuine(s.dr.mkSkipped)

(* The chain of the epoch heard of is held, and the message before the     *)
(* number it stands at was sent.                                           *)
InReach(s, h, msgs) ==
  h >= 1 =>
    /\ HasPrevChain(s.dr)
    /\ \E x \in msgs : EpochOf(x) = h /\ x.enc.hdr.n = Chain(s).nr - 1

(* Every message is sealed under the key of its epoch at its number, and   *)
(* the open sessions hold the keys that open what they have heard of.      *)
HEKeyInv ==
  /\ \A m \in network : m.box.key = ChainKeyOf(EpochOf(m), m.enc.hdr.n)
  /\ \A p \in Party \ closed :
       KeysGenuine(session[p], Own(p), Heard(p)) /\ InReach(session[p], Heard(p), network)

(* Storing the keys of a chain keeps the store genuine,                    *)
LEMMA StoreKeysGenuine ==
  ASSUME NEW st, StoreGenuine(st), NEW e \in Nat \ {0}, NEW lo \in Nat, NEW hi \in Int
  PROVE  StoreGenuine(StoreKeys(st, HeaderKeyOf(e), ChainKeyOf(e, lo), lo, hi))
<1> DEFINE new == StoreKeys(st, HeaderKeyOf(e), ChainKeyOf(e, lo), lo, hi)
<1> SUFFICES ASSUME NEW u \in Nat \ {0}, NEW n \in Nat,
                    StorageKey(HeaderKeyOf(u), n) \in DOMAIN new.entries
             PROVE  new.entries[StorageKey(HeaderKeyOf(u), n)] = ChainKeyOf(u, n)
  BY DEF StoreGenuine
<1> DEFINE x == StorageKey(HeaderKeyOf(u), n)
<1>1. \/ x \in DOMAIN st.entries /\ new.entries[x] = st.entries[x]
      \/ \E k \in lo .. hi - 1 : x = StorageKey(HeaderKeyOf(e), k)
                                 /\ new.entries[x] = ChainKeyAt(ChainKeyOf(e, lo), k - lo)
  <2>1. lo \in Int
    OBVIOUS
  <2> QED BY <2>1, StoreKeysContents
<1>2. CASE x \in DOMAIN st.entries /\ new.entries[x] = st.entries[x]
  BY <1>2 DEF StoreGenuine
<1>3. ASSUME NEW k \in lo .. hi - 1, x = StorageKey(HeaderKeyOf(e), k),
             new.entries[x] = ChainKeyAt(ChainKeyOf(e, lo), k - lo)
      PROVE  new.entries[x] = ChainKeyOf(u, n)
  <2>1. HeaderKeyOf(e) = HeaderKeyOf(u) /\ k = n
    BY <1>3 DEF StorageKey
  <2>2. e = u
    BY <2>1, HeaderKeyFacts
  <2>3. ChainKeyAt(ChainKeyOf(e, lo), k - lo) = ChainKeyOf(e, lo + (k - lo)) /\ lo + (k - lo) = k
    BY ChainKeySteps
  <2> QED BY <1>3, <2>1, <2>2, <2>3
<1> QED
  BY <1>1, <1>2, <1>3

(* and so does taking one out.                                             *)
LEMMA ConsumeGenuine ==
  ASSUME NEW st, StoreGenuine(st), NEW id
  PROVE  StoreGenuine(Consume(st, id))
BY DEF StoreGenuine, Consume, Without

(* A chain that moves stays genuine, and so does the store.                *)
LEMMA MovesGenuine ==
  ASSUME NEW t, NEW e \in Nat \ {0}, NEW n \in Nat, NEW st, StoreGenuine(st), NEW nr,
         MovesChain(t, e, n, st, ChainKeyOf(e, nr), nr)
  PROVE  StoreGenuine(t.dr.mkSkipped) /\ Chain(t).ck = ChainKeyOf(e, Chain(t).nr)
         /\ HasPrevChain(t.dr) /\ Chain(t).nr - 1 = n
<1>1. /\ nr \in Nat /\ nr <= n
      /\ t.dr.mkSkipped = StoreKeys(st, HeaderKeyOf(e), ChainKeyOf(e, nr), nr, n)
      /\ HasPrevChain(t.dr) /\ Chain(t).nr = n + 1
      /\ Chain(t).ck = DeriveNextChainKey(ChainKeyAt(ChainKeyOf(e, nr), n - nr))
  BY DEF MovesChain
<1>2. n \in Int /\ n - nr \in Int /\ nr + (n - nr) = n /\ nr \in Int /\ (n + 1) - 1 = n
  BY <1>1
<1>3. DeriveNextChainKey(ChainKeyAt(ChainKeyOf(e, nr), n - nr)) = ChainKeyOf(e, n + 1)
  BY <1>2, ChainKeySteps
<1> QED
  BY <1>1, <1>2, <1>3, StoreKeysGenuine

(* The keys of the superseded chain are genuine.                           *)
LEMMA PrevGenuine ==
  ASSUME HEInv, HEKeyInv, NEW p \in Party, p \notin closed, NEW pn \in Nat
  PROVE  StoreGenuine(SkipPrevChainHE(session[p], pn))
<1> DEFINE s == session[p]
<1>h. PICK h : h = Heard(p)
  OBVIOUS
<1>2. StoreGenuine(s.dr.mkSkipped) /\ (HasPrevChain(s.dr) => Chain(s).ck = ChainKeyOf(h, Chain(s).nr))
  BY <1>h DEF HEKeyInv, KeysGenuine
<1>3. CASE ~HasPrevChain(s.dr)
  BY <1>2, <1>3 DEF SkipPrevChainHE
<1>4. CASE HasPrevChain(s.dr)
  <2>1. Chain(s).nr \in Nat /\ h >= 1 /\ h \in Int
    BY <1>4, <1>h, ChainInForce, StandFacts, EpochFacts
  <2>2. s.hkr.key = HeaderKeyOf(h)
    BY <1>h, StandFacts DEF Standing
  <2>3. SkipPrevChainHE(s, pn)
          = StoreKeys(s.dr.mkSkipped, HeaderKeyOf(h), ChainKeyOf(h, Chain(s).nr), Chain(s).nr, pn)
    BY <1>2, <1>4, <2>2 DEF SkipPrevChainHE, PrevNr, Chain
  <2>4. h \in Nat \ {0} /\ pn \in Int
    BY <2>1
  <2> HIDE DEF s
  <2> QED BY <1>2, <2>1, <2>3, <2>4, StoreKeysGenuine DEF s
<1> QED
  BY <1>3, <1>4

(* DecryptHE leaves genuine keys when it accepts,                          *)
LEMMA AcceptKeys ==
  ASSUME HEInv, HEKeyInv, NEW p \in Party, DecryptHEAccepts(p)
  PROVE  HEKeyInv'
<1> DEFINE s == session[p]
           q == Peer(p)
<1>t. PICK t : t = session'[p]
  OBVIOUS
<1>h. PICK h, o : h = Heard(p) /\ o = Own(p)
  OBVIOUS
<1>1. p \notin closed
  BY AcceptEffects
<1>2. PICK m \in network : Effects(p, m)
  BY AcceptEffects
<1>n. PICK n : n = m.enc.hdr.n
  OBVIOUS
<1>3. /\ session'[q] = session[q] /\ generated' = generated /\ network' = network /\ closed' = closed
      /\ t.dr.ns = s.dr.ns /\ t.dr.cks \in {s.dr.cks, NoChainKey} /\ Own(p)' = o
      /\ TakesStored(p, m) \/ StaysOnChain(p, m) \/ TurnsTo(p, m)
  BY <1>2, <1>t, <1>h DEF Effects
<1>4. MessageOK(m) /\ n \in Nat /\ m.enc.hdr.pn \in Nat /\ EpochOf(m) \in Nat \ {0}
  BY <1>n DEF HEInv, SentInv, MessageOK
<1>5. KeysGenuine(s, o, h) /\ InReach(s, h, network)
  BY <1>1, <1>h DEF HEKeyInv
<1>6. ASSUME NEW k, Heard(p)' = k,
             HasPrevChain(t.dr) => Chain(t).ck = ChainKeyOf(k, Chain(t).nr),
             StoreGenuine(t.dr.mkSkipped), InReach(t, k, network)
      PROVE  HEKeyInv'
  <2>1. KeysGenuine(t, o, k)
    BY <1>3, <1>5, <1>6 DEF KeysGenuine
  <2>2. KeysGenuine(session'[p], Own(p)', Heard(p)') /\ InReach(session'[p], Heard(p)', network')
    BY <1>3, <1>6, <1>t, <2>1
  <2>3. Own(q)' = Own(q) /\ Heard(q)' = Heard(q)
    BY <1>3 DEF Own, Newest, Heard, Performed
  <2>4. q \notin closed => KeysGenuine(session'[q], Own(q)', Heard(q)') /\ InReach(session'[q], Heard(q)', network')
    BY <1>3, <2>3, StandFacts DEF HEKeyInv
  <2>5. Party = {p, q}
    BY StandFacts
  <2>6. \A x \in Party \ closed' : (KeysGenuine(session[x], Own(x), Heard(x)) /\ InReach(session[x], Heard(x), network))'
    BY <1>3, <2>2, <2>4, <2>5
  <2>7. \A x \in network' : x.box.key = ChainKeyOf(EpochOf(x), x.enc.hdr.n)
    BY <1>3 DEF HEKeyInv
  <2> QED BY <2>6, <2>7 DEF HEKeyInv
<1>7. CASE TakesStored(p, m)
  <2>1. /\ Heard(p)' = h /\ t.dr.mkSkipped = Consume(s.dr.mkSkipped, Name(m))
        /\ t.dr.recvChains = s.dr.recvChains /\ t.dr.dhr = s.dr.dhr /\ t.dr.dhRSet = s.dr.dhRSet
    BY <1>7, <1>t, <1>h DEF TakesStored
  <2>2. Chain(t) = Chain(s) /\ HasPrevChain(t.dr) = HasPrevChain(s.dr)
    BY <2>1 DEF Chain, HasPrevChain
  <2> HIDE DEF s
  <2>3. StoreGenuine(t.dr.mkSkipped)
    BY <1>5, <2>1, ConsumeGenuine DEF KeysGenuine
  <2> QED BY <1>5, <1>6, <2>1, <2>2, <2>3 DEF KeysGenuine, InReach
<1>8. CASE StaysOnChain(p, m)
  <2>1. /\ Heard(p)' = h /\ EpochOf(m) = h /\ HasPrevChain(s.dr)
        /\ MovesChain(t, h, n, s.dr.mkSkipped, Chain(s).ck, Chain(s).nr)
    BY <1>8, <1>t, <1>h, <1>n DEF StaysOnChain
  <2>2. /\ StoreGenuine(t.dr.mkSkipped) /\ Chain(t).ck = ChainKeyOf(h, Chain(t).nr)
        /\ HasPrevChain(t.dr) /\ Chain(t).nr - 1 = n
    <3> HIDE DEF s
    <3> QED BY <1>4, <1>5, <2>1, MovesGenuine DEF KeysGenuine
  <2> QED BY <1>6, <1>n, <2>1, <2>2 DEF InReach
<1>9. CASE TurnsTo(p, m)
  <2>1. PICK e : e = h + 2
    OBVIOUS
  <2>2. /\ Heard(p)' = e /\ EpochOf(m) = e
        /\ MovesChain(t, e, n, SkipPrevChainHE(s, m.enc.hdr.pn), FirstChainKey(Root[e]), 0)
    BY <1>9, <1>t, <1>h, <1>n, <2>1 DEF TurnsTo
  <2>3. FirstChainKey(Root[e]) = ChainKeyOf(e, 0)
    BY DEF FirstChainKey, ChainKeyOf
  <2>4. StoreGenuine(SkipPrevChainHE(s, m.enc.hdr.pn))
    BY <1>1, <1>4, PrevGenuine
  <2>5. /\ StoreGenuine(t.dr.mkSkipped) /\ Chain(t).ck = ChainKeyOf(e, Chain(t).nr)
        /\ HasPrevChain(t.dr) /\ Chain(t).nr - 1 = n
    <3> HIDE DEF s
    <3>1. MovesChain(t, e, n, SkipPrevChainHE(s, m.enc.hdr.pn), ChainKeyOf(e, 0), 0)
      BY <2>2, <2>3
    <3>2. e \in Nat \ {0}
      BY <1>4, <2>2
    <3> QED BY <1>4, <2>4, <3>1, <3>2, MovesGenuine
  <2> QED BY <1>6, <1>n, <2>2, <2>5 DEF InReach
<1> QED
  BY <1>3, <1>7, <1>8, <1>9

(* The chain keys a message is sealed with and leaves behind.              *)
LEMMA SendKeys ==
  ASSUME NEW s, HEShape(s), NEW fresh
  PROVE  LET ready == ReadyToSendHE(s, fresh)
         IN  /\ AdvanceSendHE(ready).dr.cks = DeriveNextChainKey(ready.dr.cks)
             /\ RatchetDue(s) =>
                  ready.dr.cks = FirstChainKey(DeriveRoot(s.dr.rk, SharedSecret(fresh, s.dr.dhr)))
<1> DEFINE ready == ReadyToSendHE(s, fresh)
           dr == PerformDHRatchetSend(s.dr, fresh)
<1>1. BaseShape(dr) /\ dr.cks = FirstChainKey(DeriveRoot(s.dr.rk, SharedSecret(fresh, s.dr.dhr)))
  BY DEF PerformDHRatchetSend, HEShape, BaseShape, SessionFields
<1> HIDE DEF dr
<1>2. RatchetDue(s) => ready.dr = dr
  BY DEF ReadyToSendHE, PerformDHRatchetSendHE, HEShape, HEFields, dr
<1>3. DOMAIN ready = HEFields /\ BaseShape(ready.dr)
  <2>1. CASE RatchetDue(s)
    <3>1. DOMAIN ready = HEFields
      BY <2>1 DEF ReadyToSendHE, PerformDHRatchetSendHE, HEShape
    <3> QED BY <1>1, <1>2, <2>1, <3>1
  <2>2. CASE ~RatchetDue(s)
    BY <2>2 DEF ReadyToSendHE, HEShape
  <2> QED BY <2>1, <2>2
<1> HIDE DEF ready
<1>4. AdvanceSendHE(ready).dr = AdvanceSend(ready.dr)
  BY <1>3 DEF AdvanceSendHE, HEFields
<1>5. AdvanceSend(ready.dr).cks = DeriveNextChainKey(ready.dr.cks)
  BY <1>3 DEF AdvanceSend, BaseShape, SessionFields
<1> QED
  BY <1>1, <1>2, <1>4, <1>5 DEF ready
(* What EncryptHE has done when it sent m.                                 *)
Sends(p, m) ==
  LET s == session[p]
      t == session'[p]
      n == m.enc.hdr.n
  IN  /\ network' = network \cup {m} /\ m.from = p /\ m.box.text = sent[p]
      /\ EpochOf(m) = Own(p)' /\ Own(p)' \in Nat \ {0} /\ n \in Nat /\ m.enc.hdr.pn = t.dr.pn
      /\ m.box.key = ChainKeyOf(Own(p)', n) /\ t.dr.cks = ChainKeyOf(Own(p)', t.dr.ns)
      /\ t.dr.ns = n + 1 /\ Speaker(Own(p)') = p
      /\ \/ Own(p)' = Own(p) + 2 /\ n = 0 /\ t.dr.pn = s.dr.ns
         \/ Own(p)' = Own(p) /\ n = s.dr.ns /\ t.dr.pn = s.dr.pn
      /\ Heard(p)' = Heard(p) /\ ReceiveHalfKept(s, t)
      /\ session'[Peer(p)] = session[Peer(p)] /\ generated'[Peer(p)] = generated[Peer(p)]
      /\ UNCHANGED <<accepted, closed>>

(* Sending in terms of the epochs.                                         *)
LEMMA EncryptEffects ==
  ASSUME HEInv, HEKeyInv, NEW p \in Party, EncryptHE(p)
  PROVE  p \notin closed /\ \E m : Sends(p, m)
<1> DEFINE s == session[p]
           q == Peer(p)
           fresh == KeyPair(p, generated[p])
           ready == ReadyToSendHE(s, fresh)
<1>t. PICK t : t = session'[p]
  OBVIOUS
<1>o. PICK o, b : o = Own(p)' /\ b = Own(p)
  OBVIOUS
<1>1. /\ p \notin closed /\ Standing(p) /\ HEShape(s) /\ t = AdvanceSendHE(ready)
      /\ Heard(p)' = Heard(p) /\ Epoch(p)' = o
      /\ \/ /\ RatchetDue(s) /\ SentFirst(s, ready, t, fresh) /\ o = b + 2 /\ fresh = PairOf(o)
         \/ /\ ~RatchetDue(s) /\ SentNext(s, ready, t) /\ o = b /\ b > 0
  BY EncryptEpochs, <1>t, <1>o
<1>2. Counts /\ b \in Nat /\ Speaker(b) = p /\ q \in Party /\ q # p
      /\ session = [x \in Party |-> session[x]] /\ Newest(p) \in Nat
      /\ b = 2 * Newest(p) + Parity(p) /\ Parity(p) \in {0, 1} /\ Newest(p) = generated[p] - 1
      /\ PairOf(b) = KeyPair(p, Newest(p))
  BY <1>o, StandFacts, EpochFacts DEF Newest
<1>3. ReceiveHalfKept(s, t)
  BY <1>1, SendEffects
<1>4. o \in Nat \ {0} /\ Speaker(o) = p
  BY <1>1, <1>2, SpeakerFacts
<1>5. t.dr.rk = Root[o]
  BY EncryptStands, <1>1, <1>t DEF Standing
<1>6. t.dr.cks = DeriveNextChainKey(ready.dr.cks)
      /\ (RatchetDue(s) => ready.dr.cks = FirstChainKey(DeriveRoot(s.dr.rk, SharedSecret(fresh, s.dr.dhr))))
  <2> HIDE DEF s, fresh
  <2> QED BY <1>1, SendKeys
<1> DEFINE n == HeaderOf(ready.dr).n
<1>7. /\ HeaderOf(ready.dr) = [pk |-> PairOf(o), pn |-> t.dr.pn, n |-> n]
      /\ n \in Nat /\ t.dr.ns = n + 1 /\ ready.dr.cks = ChainKeyOf(o, n)
      /\ \/ o = b + 2 /\ n = 0 /\ t.dr.pn = s.dr.ns
         \/ o = b /\ n = s.dr.ns /\ t.dr.pn = s.dr.pn
  <2>1. CASE RatchetDue(s)
    <3>1. SentFirst(s, ready, t, fresh) /\ o = b + 2 /\ fresh = PairOf(o)
      BY <1>1, <2>1
    <3>2. /\ HeaderOf(ready.dr) = [pk |-> fresh, pn |-> s.dr.ns, n |-> 0]
          /\ t.dr.ns = 1 /\ t.dr.pn = s.dr.ns
          /\ t.dr.rk = DeriveRoot(s.dr.rk, SharedSecret(fresh, s.dr.dhr))
      BY <3>1 DEF SentFirst
    <3>3. ready.dr.cks = ChainKeyOf(o, 0)
      BY <1>5, <1>6, <2>1, <3>2 DEF ChainKeyOf, FirstChainKey
    <3> QED BY <3>1, <3>2, <3>3
  <2>2. CASE ~RatchetDue(s)
    <3>1. SentNext(s, ready, t) /\ o = b
      BY <1>1, <2>2
    <3>2. ready = s /\ t.dr.ns = s.dr.ns + 1 /\ t.dr.pn = s.dr.pn
      BY <3>1 DEF SentNext
    <3>3. s.dr.ns \in Nat /\ s.dr.dhs = PairOf(b)
      BY <1>1, <1>o DEF Standing
    <3>4. HeaderOf(ready.dr) = [pk |-> s.dr.dhs, pn |-> s.dr.pn, n |-> s.dr.ns]
      BY <3>2 DEF HeaderOf
    <3>5. s.dr.cks = ChainKeyOf(b, s.dr.ns)
      BY <1>1, <1>o, <2>2 DEF HEKeyInv, KeysGenuine, RatchetDue
    <3> QED BY <3>1, <3>2, <3>3, <3>4, <3>5
  <2> QED BY <2>1, <2>2
<1>m. PICK m : m = MessageOf(p, ready)
  OBVIOUS
<1>8. network' = network \cup {m}
  BY <1>m DEF EncryptHE
<1>9. /\ m.from = p /\ m.enc.hdr = HeaderOf(ready.dr) /\ m.box.text = sent[p]
      /\ m.box.key = ready.dr.cks
  BY <1>m DEF MessageOf, SealHeader, Seal, DeriveMessageKey
<1> HIDE DEF n, ready
<1>10. m.enc.hdr.pk = PairOf(o) /\ m.enc.hdr.n = n /\ m.enc.hdr.pn = t.dr.pn
  BY <1>7, <1>9
<1>11. EpochOf(m) = o
  <2>1. MessageOK(m)'
    <3>1. PICK x : /\ network' = network \cup {x} /\ MessageOK(x)'
                   /\ \A y \in network : ~(y.enc.hdr.pk = x.enc.hdr.pk /\ y.enc.hdr.n = x.enc.hdr.n)
      BY EncryptMessage
    <3>2. x \in network \cup {m} /\ x \notin network
      BY <1>8, <3>1
    <3> QED BY <3>1, <3>2
  <2>2. EpochOf(m) \in Nat /\ m.enc.hdr.pk = PairOf(EpochOf(m))
    <3>1. EpochOf(m)' = EpochOf(m)
      BY DEF EpochOf
    <3> QED BY <2>1, <3>1 DEF MessageOK
  <2> QED BY <1>4, <1>10, <2>2, PairInjective
<1>12. t.dr.cks = ChainKeyOf(o, t.dr.ns)
  BY <1>6, <1>7, ChainKeySteps
<1>13. /\ session'[q] = session[q] /\ generated'[q] = generated[q]
       /\ UNCHANGED <<accepted, closed>>
  <2>1. PICK x : session' = [session EXCEPT ![p] = x]
    BY DEF EncryptHE
  <2>2. session'[q] = session[q]
    BY <1>2, <2>1
  <2> QED BY <1>2, <2>2 DEF EncryptHE, Counts
<1> QED
  BY <1>1, <1>3, <1>4, <1>7, <1>8, <1>9, <1>10, <1>11, <1>12, <1>13, <1>t, <1>o DEF Sends

(* and so does EncryptHE when it sends.                                    *)
LEMMA EncryptKeys ==
  ASSUME HEInv, HEKeyInv, NEW p \in Party, EncryptHE(p)
  PROVE  HEKeyInv'
<1> DEFINE s == session[p]
           q == Peer(p)
<1>t. PICK t : t = session'[p]
  OBVIOUS
<1>h. PICK h, o : h = Heard(p) /\ o = Own(p)'
  OBVIOUS
<1>1. p \notin closed
  BY EncryptEffects
<1>2. PICK m : Sends(p, m)
  BY EncryptEffects
<1>3. /\ network' = network \cup {m} /\ EpochOf(m) = o /\ m.box.key = ChainKeyOf(o, m.enc.hdr.n)
      /\ t.dr.cks = ChainKeyOf(o, t.dr.ns) /\ Heard(p)' = h /\ ReceiveHalfKept(s, t)
      /\ session'[q] = session[q] /\ generated'[q] = generated[q] /\ closed' = closed
  BY <1>2, <1>t, <1>h DEF Sends
<1>4. KeysGenuine(s, Own(p), h) /\ InReach(s, h, network)
  BY <1>1, <1>h DEF HEKeyInv
<1>5. Chain(t) = Chain(s) /\ HasPrevChain(t.dr) = HasPrevChain(s.dr) /\ t.dr.mkSkipped = s.dr.mkSkipped
  BY <1>3 DEF ReceiveHalfKept, Chain, HasPrevChain
<1>6. KeysGenuine(t, o, h) /\ InReach(t, h, network')
  <2> HIDE DEF s
  <2> QED BY <1>3, <1>4, <1>5 DEF KeysGenuine, InReach
<1>7. KeysGenuine(session'[p], Own(p)', Heard(p)') /\ InReach(session'[p], Heard(p)', network')
  BY <1>3, <1>6, <1>t, <1>h
<1>8. q \notin closed => KeysGenuine(session'[q], Own(q)', Heard(q)') /\ InReach(session'[q], Heard(q)', network')
  <2>1. Own(q)' = Own(q) /\ Heard(q)' = Heard(q)
    BY <1>3 DEF Own, Newest, Heard, Performed
  <2>2. q \notin closed => KeysGenuine(session[q], Own(q), Heard(q)) /\ InReach(session[q], Heard(q), network)
    BY StandFacts DEF HEKeyInv
  <2> QED BY <1>3, <2>1, <2>2 DEF InReach
<1>9. Party = {p, q}
  BY StandFacts
<1>10. \A x \in Party \ closed' : (KeysGenuine(session[x], Own(x), Heard(x)) /\ InReach(session[x], Heard(x), network))'
  BY <1>3, <1>7, <1>8, <1>9
<1>11. \A x \in network' : x.box.key = ChainKeyOf(EpochOf(x), x.enc.hdr.n)
  BY <1>3 DEF HEKeyInv
<1> QED
  BY <1>10, <1>11 DEF HEKeyInv

(* The other steps add no message, and leave the session of a party as it  *)
(* is, without a sending chain, or closed.                                 *)
LEMMA QuietKeys ==
  ASSUME HEInv, HEKeyInv, NEW p \in Party, UNCHANGED <<generated, network>>,
         session' = [session EXCEPT ![p] = session'[p]], closed \subseteq closed',
         \/ p \in closed'
         \/ session'[p] = session[p]
         \/ /\ session'[p].dr.cks = NoChainKey /\ ReceiveHalfKept(session[p], session'[p])
            /\ Performed(p)' = Performed(p)
  PROVE  HEKeyInv'
<1> DEFINE s == session[p]
           q == Peer(p)
<1>t. PICK t : t = session'[p]
  OBVIOUS
<1>1. Party = {p, q} /\ q \in Party /\ q # p /\ session = [x \in Party |-> session[x]]
  BY StandFacts
<1>2. session'[q] = session[q]
  <2>1. session' = [session EXCEPT ![p] = t]
    BY <1>t
  <2> QED BY <1>1, <2>1
<1>3. q \notin closed => KeysGenuine(session'[q], Own(q)', Heard(q)') /\ InReach(session'[q], Heard(q)', network')
  <2>1. Own(q)' = Own(q) /\ Heard(q)' = Heard(q)
    BY <1>2 DEF Own, Newest, Heard, Performed
  <2> QED BY <1>1, <1>2, <2>1 DEF HEKeyInv
<1>4. p \notin closed' => KeysGenuine(session'[p], Own(p)', Heard(p)') /\ InReach(session'[p], Heard(p)', network')
  <2> SUFFICES ASSUME p \notin closed'
               PROVE  KeysGenuine(session'[p], Own(p)', Heard(p)') /\ InReach(session'[p], Heard(p)', network')
    OBVIOUS
  <2>1. KeysGenuine(s, Own(p), Heard(p)) /\ InReach(s, Heard(p), network)
    BY DEF HEKeyInv
  <2>2. Performed(p)' = Performed(p)
    BY DEF Performed
  <2>3. Own(p)' = Own(p) /\ Heard(p)' = Heard(p)
    BY <2>2 DEF Own, Newest, Heard
  <2>4. \/ t = s
        \/ /\ t.dr.cks = NoChainKey /\ Chain(t) = Chain(s)
           /\ HasPrevChain(t.dr) = HasPrevChain(s.dr) /\ t.dr.mkSkipped = s.dr.mkSkipped
    BY <1>t DEF ReceiveHalfKept, Chain, HasPrevChain
  <2>5. KeysGenuine(t, Own(p), Heard(p)) /\ InReach(t, Heard(p), network)
    <3> HIDE DEF s
    <3> QED BY <2>1, <2>4 DEF KeysGenuine, InReach
  <2> QED BY <2>3, <2>5, <1>t
<1>5. \A x \in Party \ closed' : (KeysGenuine(session[x], Own(x), Heard(x)) /\ InReach(session[x], Heard(x), network))'
  BY <1>1, <1>3, <1>4
<1> QED
  BY <1>5 DEF HEKeyInv

(* Every step keeps HEKeyInv.                                              *)
LEMMA StepHEKeyInv == HEInv /\ HEKeyInv /\ [Next]_vars => HEKeyInv'
<1> SUFFICES ASSUME HEInv, HEKeyInv, [Next]_vars PROVE HEKeyInv'
  OBVIOUS
<1>0. session = [x \in Party |-> session[x]]
  BY DEF HEInv, ShapeInv
<1>1. CASE UNCHANGED vars
  <2>1. \A p \in Party : Own(p)' = Own(p) /\ Heard(p)' = Heard(p)
    BY <1>1 DEF vars, Own, Newest, Heard, Performed
  <2> QED BY <1>1, <2>1 DEF vars, HEKeyInv
<1>2. ASSUME NEW p \in Party, HeaderNotSealed(p)
      PROVE  HEKeyInv'
  <2>1. p \in closed /\ UNCHANGED <<generated, network, closed>>
    BY <1>2, OpenHeaderSealed DEF HeaderNotSealed
  <2>2. session' = [session EXCEPT ![p] = session'[p]]
    <3>1. PICK x : session' = [session EXCEPT ![p].dr = x]
      BY <1>2 DEF HeaderNotSealed
    <3> QED BY <1>0, <3>1
  <2> QED BY <2>1, <2>2, QuietKeys
<1>3. ASSUME NEW p \in Party, EncryptHEFails(p)
      PROVE  HEKeyInv'
  <2> DEFINE s == session[p]
             t == DHRatchetSendHEFails(s)
  <2>1. p \notin closed
    BY <1>3, ClosedSilent
  <2>2. Standing(p) /\ Counts /\ HEShape(s)
    BY <2>1, StandFacts
  <2>3. session' = [session EXCEPT ![p] = t] /\ UNCHANGED <<generated, network, closed>>
    BY <1>3 DEF EncryptHEFails
  <2>4. session'[p] = t
    BY <1>0, <2>3
  <2>5. s.dr.cks = NoChainKey
    BY <1>3, <2>2, DueWhen DEF EncryptHEFails, Standing
  <2>6. /\ t.dr.cks = NoChainKey /\ ReceiveHalfKept(s, t)
        /\ t.dr.dhRatchetPerformed = s.dr.dhRatchetPerformed
    BY <2>2, <2>5 DEF DHRatchetSendHEFails, HEShape, HEFields, BaseShape, SessionFields, ReceiveHalfKept
  <2>7. Performed(p)' = Performed(p)
    BY <2>4, <2>6 DEF Performed
  <2> QED BY <2>3, <2>4, <2>6, <2>7, QuietKeys
<1>4. ASSUME NEW p \in Party, DecryptHERejects(p)
      PROVE  HEKeyInv'
  <2>1. UNCHANGED vars
    BY <1>4, RejectStep
  <2> QED BY <1>1, <2>1
<1>5. ASSUME NEW p \in Party, CloseSession(p)
      PROVE  HEKeyInv'
  <2>1. p \in closed' /\ closed \subseteq closed' /\ UNCHANGED <<generated, network>>
    BY <1>5 DEF CloseSession
  <2>2. session' = [session EXCEPT ![p] = session'[p]]
    <3>1. PICK x : session' = [session EXCEPT ![p] = x]
      BY <1>5 DEF CloseSession
    <3> QED BY <1>0, <3>1
  <2> QED BY <2>1, <2>2, QuietKeys
<1> QED
  BY <1>1, <1>2, <1>3, <1>4, <1>5, AcceptKeys, EncryptKeys DEF Next

(* It holds initially: the initiator's first sending chain is that of      *)
(* epoch 1, and nothing else is held.                                      *)
LEMMA InitHEKeyInv == Init => HEKeyInv
<1> SUFFICES ASSUME Init PROVE HEKeyInv
  OBVIOUS
<1>1. HEInv /\ network = {} /\ closed = {}
  BY InitHEInv DEF Init
<1>2. SUFFICES ASSUME NEW p \in Party
               PROVE  KeysGenuine(session[p], Own(p), Heard(p)) /\ InReach(session[p], Heard(p), network)
  BY <1>1 DEF HEKeyInv
<1> DEFINE s == session[p]
<1>3. s = IF p = Initiator THEN InitInitiatorHE(KeyPair(Initiator, 0), KeyPair(Responder, 0))
          ELSE InitResponderHE(KeyPair(Responder, 0))
  BY DEF Init
<1>4. /\ s.dr.recvChains = NewReceiverChains /\ s.dr.mkSkipped = NewStorage
      /\ s.dr.dhRatchetPerformed = FALSE /\ s.dr.ns = 0
      /\ p # Initiator => s.dr.cks = NoChainKey
      /\ p = Initiator => s.dr.cks = FirstChainKey(s.dr.rk)
  BY <1>3 DEF InitInitiatorHE, InitInitiator, InitResponderHE, InitResponder
<1>5. generated[p] = 1
  BY DEF Init
<1>6. Own(p) = Parity(p) /\ Heard(p) = Own(p) - 1 /\ Parity(p) \in {0, 1}
  BY <1>4, <1>5 DEF Own, Newest, Heard, Performed, Parity
<1>7. ~HasPrevChain(s.dr) /\ DOMAIN s.dr.mkSkipped.entries = {}
  BY <1>4 DEF HasPrevChain, HasChain, NewReceiverChains, NewStorage
<1>8. p = Initiator => s.dr.rk = Root[1] /\ Own(p) = 1
  <2> SUFFICES ASSUME p = Initiator PROVE s.dr.rk = Root[1] /\ Own(p) = 1
    OBVIOUS
  <2>1. Own(p) = 1
    BY <1>6 DEF Parity
  <2>2. Standing(p) /\ Epoch(p) = 1
    BY <1>1, <1>4, <2>1, StandFacts DEF Epoch, Performed
  <2> QED BY <2>1, <2>2 DEF Standing
<1>9. s.dr.cks # NoChainKey => s.dr.cks = ChainKeyOf(Own(p), s.dr.ns)
  BY <1>4, <1>8 DEF FirstChainKey, ChainKeyOf
<1> HIDE DEF s
<1>10. KeysGenuine(s, Own(p), Heard(p)) /\ InReach(s, Heard(p), network)
  <2>1. ~(Heard(p) >= 1)
    BY <1>6
  <2> QED BY <1>7, <1>9, <2>1 DEF KeysGenuine, InReach, StoreGenuine
<1> QED
  BY <1>10 DEF s

(* Whatever arrives or fails, a message is sealed under the key of its     *)
(* epoch at its number, and an open session holds the chain key of its own *)
(* epoch at ns, the one of the epoch it has heard of at Nr, and in its     *)
(* store none but the keys of the messages they are filed for: nothing is  *)
(* derived from a wrong root or filed under another chain's header key.    *)
THEOREM SpecHEKeyInv == Spec => []HEKeyInv
BY InitHEKeyInv, StepHEKeyInv, SpecHEInv, PTL DEF Spec

-----------------------------------------------------------------------------
(* No message is lost to a careful application.                            *)

(* The messages of epoch t are numbered from 0 to c - 1.                   *)
Numbered(msgs, t, c) ==
  /\ \A k \in 0 .. c - 1 : \E x \in msgs : EpochOf(x) = t /\ x.enc.hdr.n = k
  /\ \A x \in msgs : EpochOf(x) = t => x.enc.hdr.n < c

(* While no message is refused to its sender, ns counts the messages of    *)
(* the epoch a party is in and pn those of the one before, a message has   *)
(* all its predecessors, and its pn counts the messages of the last epoch. *)
GaplessInv ==
  /\ \A p \in Party :
       Numbered(network, Own(p), session[p].dr.ns) /\ Numbered(network, Own(p) - 2, session[p].dr.pn)
  /\ \A m \in network :
       /\ \A k \in 0 .. m.enc.hdr.n - 1 : \E x \in network : EpochOf(x) = EpochOf(m) /\ x.enc.hdr.n = k
       /\ Numbered(network, EpochOf(m) - 2, m.enc.hdr.pn)

(* A message is passed when the chain of the epoch heard of, or that of an *)
(* earlier epoch, has moved beyond its number; the keys of the passed      *)
(* messages that are outstanding, and no others, are in the store.         *)
Passed(h, nr, m) == EpochOf(m) < h \/ (EpochOf(m) = h /\ m.enc.hdr.n < nr)
NamesPassed(h, nr, msgs) == {Name(x) : x \in {y \in msgs : Passed(h, nr, y)}}
KeepsKeys(p) ==
  DOMAIN session[p].dr.mkSkipped.entries
    = NamesPassed(Heard(p), Chain(session[p]).nr, Outstanding(p))

(* What is known of every application, and what of a careful one.          *)
HEBase == HEInv /\ HEKeyInv /\ IsFiniteSet(network)
CarefulInv ==
  application = "careful" =>
    closed = {} /\ Window /\ GaplessInv /\ \A p \in Party : KeepsKeys(p)

(* An epoch has one speaker, who has not drawn a later ratchet key.        *)
LEMMA EpochSender ==
  ASSUME HEInv, NEW m \in network
  PROVE  /\ m.from \in Party /\ EpochOf(m) \in Nat \ {0} /\ Speaker(EpochOf(m)) = m.from
         /\ EpochOf(m) <= Own(m.from) /\ Own(m.from) \in Nat
         /\ m.enc.hdr.n \in Nat /\ m.enc.hdr.pn \in Nat
         /\ m.enc.key = HeaderKeyOf(EpochOf(m)) /\ m.enc.hdr.pk = PairOf(EpochOf(m))
<1>1. MessageOK(m) /\ Counts
  BY DEF HEInv, SentInv
<1>2. Own(m.from) \in Nat
  BY <1>1, EpochFacts DEF MessageOK
<1> QED
  BY <1>1, <1>2 DEF MessageOK

(* A message in another epoch changes no numbering,                        *)
LEMMA NumberedKept ==
  ASSUME NEW msgs, NEW t, NEW c, Numbered(msgs, t, c), NEW m, EpochOf(m) # t
  PROVE  Numbered(msgs \cup {m}, t, c)
BY DEF Numbered

(* and the next one of the epoch continues it.                             *)
LEMMA NumberedNext ==
  ASSUME NEW msgs, NEW t, NEW c \in Nat, Numbered(msgs, t, c),
         NEW m, EpochOf(m) = t, m.enc.hdr.n = c, \A x \in msgs : x.enc.hdr.n \in Nat
  PROVE  Numbered(msgs \cup {m}, t, c + 1)
<1>1. \A k \in 0 .. (c + 1) - 1 : k \in 0 .. c - 1 \/ k = c
  OBVIOUS
<1>2. \A x \in msgs : x.enc.hdr.n < c => x.enc.hdr.n < c + 1
  OBVIOUS
<1> QED
  BY <1>1, <1>2 DEF Numbered

(* EncryptHE continues the numbering.                                      *)
LEMMA EncryptGapless ==
  ASSUME HEInv, HEKeyInv, GaplessInv, NEW p \in Party, EncryptHE(p)
  PROVE  GaplessInv'
<1> DEFINE s == session[p]
           q == Peer(p)
<1>t. PICK t : t = session'[p]
  OBVIOUS
<1>o. PICK o, b : o = Own(p)' /\ b = Own(p)
  OBVIOUS
<1>1. PICK m : Sends(p, m)
  BY EncryptEffects
<1>n. PICK n, new : n = m.enc.hdr.n /\ new = network'
  OBVIOUS
<1>2. /\ new = network \cup {m} /\ EpochOf(m) = o /\ n \in Nat /\ m.enc.hdr.pn = t.dr.pn
      /\ t.dr.ns = n + 1 /\ Speaker(o) = p
      /\ \/ o = b + 2 /\ n = 0 /\ t.dr.pn = s.dr.ns
         \/ o = b /\ n = s.dr.ns /\ t.dr.pn = s.dr.pn
      /\ session'[q] = session[q] /\ generated'[q] = generated[q]
  BY <1>1, <1>t, <1>o, <1>n DEF Sends
<1>3. /\ q \in Party /\ q # p /\ Party = {p, q} /\ Counts /\ b \in Nat /\ o \in Nat
      /\ Own(q) \in Nat /\ Speaker(Own(q)) = q /\ Own(q)' = Own(q)
  BY <1>2, <1>o, StandFacts, EpochFacts DEF Own, Newest
<1>4. Speaker(Own(q) - 2) = q
  <2>1. Own(q) - 2 \in Int /\ (Own(q) - 2) + 2 = Own(q)
    BY <1>3
  <2> QED BY <1>3, <2>1, SpeakerFacts
<1>5. /\ Numbered(network, b, s.dr.ns) /\ Numbered(network, b - 2, s.dr.pn)
      /\ Numbered(network, Own(q), session[q].dr.ns) /\ Numbered(network, Own(q) - 2, session[q].dr.pn)
  BY <1>3, <1>o DEF GaplessInv
<1>6. \A x \in network : /\ EpochOf(x) \in Nat /\ x.enc.hdr.n \in Nat
                         /\ Speaker(EpochOf(x)) = p => EpochOf(x) <= b
  BY <1>o, EpochSender
<1>7. Numbered(new, Own(q), session[q].dr.ns) /\ Numbered(new, Own(q) - 2, session[q].dr.pn)
  BY <1>2, <1>3, <1>4, <1>5, NumberedKept
<1>8. Numbered(new, o, t.dr.ns) /\ Numbered(new, o - 2, t.dr.pn)
  <2>1. CASE o = b + 2 /\ n = 0 /\ t.dr.pn = s.dr.ns
    <3>1. \A x \in network : EpochOf(x) # o
      BY <1>2, <1>3, <1>6, <2>1
    <3>2. Numbered(network, o, 0)
      BY <3>1 DEF Numbered
    <3>3. Numbered(network \cup {m}, o, 0 + 1)
      <4>1. EpochOf(m) = o /\ m.enc.hdr.n = 0 /\ \A x \in network : x.enc.hdr.n \in Nat
        BY <1>2, <1>6, <1>n, <2>1
      <4> QED BY <3>2, <4>1, NumberedNext
    <3>4. o - 2 = b /\ o # b
      BY <1>3, <2>1
    <3> QED BY <1>2, <1>5, <2>1, <3>3, <3>4, NumberedKept
  <2>2. CASE o = b /\ n = s.dr.ns /\ t.dr.pn = s.dr.pn
    <3>1. Numbered(network \cup {m}, o, n + 1)
      <4>1. /\ EpochOf(m) = o /\ m.enc.hdr.n = n /\ \A x \in network : x.enc.hdr.n \in Nat
            /\ n \in Nat /\ Numbered(network, o, n)
        BY <1>2, <1>5, <1>6, <1>n, <2>2
      <4> QED BY <4>1, NumberedNext
    <3>2. o # b - 2
      BY <1>3, <2>2
    <3> QED BY <1>2, <1>5, <2>2, <3>1, <3>2, NumberedKept
  <2> QED BY <1>2, <2>1, <2>2
<1>9. ASSUME NEW x \in new
      PROVE  /\ \A k \in 0 .. x.enc.hdr.n - 1 : \E y \in new : EpochOf(y) = EpochOf(x) /\ y.enc.hdr.n = k
             /\ Numbered(new, EpochOf(x) - 2, x.enc.hdr.pn)
  <2>1. CASE x \in network
    <3>1. EpochOf(x) - 2 # o
      <4> SUFFICES ASSUME EpochOf(x) - 2 = o PROVE FALSE
        OBVIOUS
      <4>1. EpochOf(x) = o + 2 /\ EpochOf(x) \in Nat
        BY <1>3, <1>6, <2>1
      <4>2. Speaker(EpochOf(x)) = p
        BY <1>2, <1>3, <4>1, SpeakerFacts
      <4> QED BY <1>2, <1>3, <1>6, <2>1, <4>1, <4>2
    <3>2. Numbered(new, EpochOf(x) - 2, x.enc.hdr.pn)
      BY <1>2, <2>1, <3>1, NumberedKept DEF GaplessInv
    <3> QED BY <1>2, <2>1, <3>2 DEF GaplessInv
  <2>2. CASE x = m
    <3>1. \A k \in 0 .. n - 1 : \E y \in new : EpochOf(y) = o /\ y.enc.hdr.n = k
      <4>1. t.dr.ns - 1 = n
        BY <1>2
      <4>2. \A k \in 0 .. n - 1 : k \in 0 .. t.dr.ns - 1
        BY <1>2, <4>1
      <4> QED BY <1>8, <4>2 DEF Numbered
    <3> QED BY <1>2, <1>8, <1>n, <2>2, <3>1
  <2> QED BY <1>2, <2>1, <2>2
<1>10. \A x \in Party : (Numbered(network, Own(x), session[x].dr.ns)
                         /\ Numbered(network, Own(x) - 2, session[x].dr.pn))'
  BY <1>2, <1>3, <1>7, <1>8, <1>n, <1>o, <1>t
<1> QED
  BY <1>9, <1>10, <1>n DEF GaplessInv

(* Accepting a message counts nothing.                                     *)
LEMMA GaplessKept ==
  ASSUME GaplessInv, UNCHANGED <<generated, network>>,
         \A p \in Party : session'[p].dr.ns = session[p].dr.ns /\ session'[p].dr.pn = session[p].dr.pn
  PROVE  GaplessInv'
<1>1. \A p \in Party : Own(p)' = Own(p)
  BY DEF Own, Newest
<1>2. \A p \in Party : (Numbered(network, Own(p), session[p].dr.ns)
                         /\ Numbered(network, Own(p) - 2, session[p].dr.pn))'
  BY <1>1 DEF GaplessInv
<1> QED
  BY <1>2 DEF GaplessInv

(* No more names than messages.                                            *)
LEMMA NamesBound ==
  ASSUME NEW h, NEW nr, NEW msgs, IsFiniteSet(msgs)
  PROVE  /\ IsFiniteSet(NamesPassed(h, nr, msgs))
         /\ Cardinality(NamesPassed(h, nr, msgs)) \in Nat
         /\ Cardinality(NamesPassed(h, nr, msgs)) <= Cardinality(msgs)
<1> DEFINE T == {x \in msgs : Passed(h, nr, x)}
           N == NamesPassed(h, nr, msgs)
           f == [x \in T |-> Name(x)]
<1>1. IsFiniteSet(T) /\ Cardinality(T) <= Cardinality(msgs)
  BY FS_Subset
<1>2. f \in Surjection(T, N)
  BY DEF Surjection, NamesPassed
<1> HIDE DEF T, N, f
<1>3. IsFiniteSet(N) /\ Cardinality(N) <= Cardinality(T)
  BY <1>1, <1>2, FS_Surjection
<1>4. Cardinality(N) \in Nat /\ Cardinality(T) \in Nat /\ Cardinality(msgs) \in Nat
  BY <1>1, <1>3, FS_CardinalityType
<1>5. Cardinality(N) <= Cardinality(msgs)
  BY <1>1, <1>3, <1>4
<1> QED
  BY <1>3, <1>4, <1>5 DEF N

(* A set with a message for each number of a run has as many messages.     *)
LEMMA RunBound ==
  ASSUME NEW msgs, IsFiniteSet(msgs), NEW lo \in Int, NEW hi \in Int,
         \A k \in lo .. hi : \E x \in msgs : x.enc.hdr.n = k
  PROVE  hi - lo + 1 <= Cardinality(msgs)
<1> DEFINE f == [k \in lo .. hi |-> CHOOSE x \in msgs : x.enc.hdr.n = k]
<1>0. Cardinality(msgs) \in Nat
  BY FS_CardinalityType
<1>1. CASE lo > hi
  BY <1>0, <1>1
<1>2. CASE lo <= hi
  <2>1. \A k \in lo .. hi : f[k] \in msgs /\ f[k].enc.hdr.n = k
    OBVIOUS
  <2>2. f \in [lo .. hi -> msgs]
    BY <2>1
  <2> HIDE DEF f
  <2>3. f \in Injection(lo .. hi, msgs)
    BY <2>1, <2>2 DEF Injection, IsInjective
  <2>4. Cardinality(lo .. hi) <= Cardinality(msgs)
    BY <2>3, FS_Injection
  <2>5. Cardinality(lo .. hi) = hi - lo + 1
    BY <1>2, FS_Interval
  <2> QED BY <2>4, <2>5
<1> QED
  BY <1>1, <1>2

(* What is known of a message that is outstanding.                         *)
LEMMA OutstandingFacts ==
  ASSUME HEInv, NEW p \in Party, NEW m \in Outstanding(p)
  PROVE  /\ m \in network /\ m.from = Peer(p) /\ m.box.text \notin accepted[p]
         /\ m.enc.hdr.n \in Nat /\ m.enc.hdr.pn \in Nat
         /\ EpochOf(m) \in Nat \ {0} /\ Speaker(EpochOf(m)) = Peer(p)
         /\ m.enc.key = HeaderKeyOf(EpochOf(m)) /\ m.enc.hdr.pk = PairOf(EpochOf(m))
         /\ \A x \in network : Name(x) = Name(m) => x = m
<1>1. m \in network /\ m.from = Peer(p) /\ m.box.text \notin accepted[p]
  BY DEF Outstanding
<1>2. ASSUME NEW x \in network, Name(x) = Name(m) PROVE x = m
  <2>1. x.enc.key = m.enc.key /\ x.enc.hdr.n = m.enc.hdr.n
    BY <1>2 DEF Name, StorageKey
  <2>2. EpochOf(x) = EpochOf(m)
    BY <1>1, <2>1, EpochSender, HeaderKeyFacts
  <2>3. x.enc.hdr.pk = m.enc.hdr.pk
    BY <1>1, <2>2, EpochSender
  <2> QED BY <1>1, <2>1, <2>3 DEF HEInv, SentInv, MessagesDiffer
<1> QED
  BY <1>1, <1>2, EpochSender

(* The messages of epoch e from lo to hi - 1, which are all outstanding,   *)
(* have the names of that run.                                             *)
LEMMA RunNames ==
  ASSUME HEInv, NEW p \in Party, NEW e \in Nat \ {0}, NEW lo, NEW hi,
         \A k \in lo .. hi - 1 : \E x \in Outstanding(p) : EpochOf(x) = e /\ x.enc.hdr.n = k
  PROVE  RunOfNames(HeaderKeyOf(e), lo, hi) =
           {Name(x) : x \in {y \in Outstanding(p) : EpochOf(y) = e /\ y.enc.hdr.n \in lo .. hi - 1}}
<1>1. \A x \in Outstanding(p) : EpochOf(x) = e => Name(x) = StorageKey(HeaderKeyOf(e), x.enc.hdr.n)
  BY OutstandingFacts DEF Name
<1> QED
  BY <1>1 DEF RunOfNames

(* How far apart the parties are.                                          *)
LEMMA HeardBound ==
  ASSUME HEInv, NEW p \in Party
  PROVE  Heard(p) <= Own(Peer(p)) /\ Own(Peer(p)) <= Heard(p) + 2
<1> DEFINE q == Peer(p)
<1>1. /\ q \in Party /\ Peer(q) = p /\ Adjacent /\ Own(p) \in Nat /\ Own(q) \in Nat
  BY StandFacts, EpochFacts DEF HEInv
<1>2. /\ Performed(p) => Epoch(q) = Epoch(p) /\ ~Performed(q)
      /\ Performed(q) => Epoch(p) = Epoch(q) /\ ~Performed(p)
      /\ ~Performed(p) => Epoch(q) \in Epoch(p) - 1 .. Epoch(p) + 1
  BY <1>1 DEF Adjacent
<1> QED
  BY <1>1, <1>2 DEF Epoch, Heard

(* Where an open session is: it has heard of epoch h, whose chain stands   *)
(* at nr, nothing of it from nr on has been accepted, and no message is of *)
(* a later epoch than the next one of the peer.                            *)
AtEpoch(p, h, nr) ==
  LET s == session[p]
      q == Peer(p)
  IN  /\ h = Heard(p) /\ nr = Chain(s).nr /\ h \in Int /\ h >= -1
      /\ s.hkr.key = HeaderKeyOf(h) /\ s.nhkr.key = HeaderKeyOf(h + 2)
      /\ h >= 1 => nr \in Nat /\ HasPrevChain(s.dr) /\ s.dr.dhr = PairOf(h) /\ RingOK(s.dr.recvChains)
      /\ HasPrevChain(s.dr) => h >= 1
      /\ \A x \in network :
           x.from = q =>
             /\ EpochOf(x) < h \/ EpochOf(x) = h \/ EpochOf(x) = h + 2
             /\ EpochOf(x) = h /\ ~(x.enc.hdr.n < nr) => x \in Outstanding(p)
             /\ EpochOf(x) = h + 2 => x \in Outstanding(p)

(* Every open session is somewhere.                                        *)
LEMMA EpochReached ==
  ASSUME HEBase, NEW p \in Party, p \notin closed
  PROVE  \E h, nr : AtEpoch(p, h, nr)
<1> DEFINE s == session[p]
           q == Peer(p)
<1>h. PICK h, nr : h = Heard(p) /\ nr = Chain(s).nr
  OBVIOUS
<1>1. /\ HEInv /\ Standing(p) /\ Once(p) /\ Holding(p) /\ h \in Int /\ h >= -1 /\ Speaker(h) = q
      /\ q \in Party
  BY <1>h, StandFacts, EpochFacts DEF HEBase
<1>2. h <= Own(q) /\ Own(q) <= h + 2 /\ Own(q) \in Nat
  BY <1>1, <1>h, HeardBound, StandFacts, EpochFacts
<1>3. s.hkr.key = HeaderKeyOf(h) /\ s.nhkr.key = HeaderKeyOf(h + 2)
  BY <1>1, <1>h DEF Standing
<1>4. ASSUME h >= 1
      PROVE  nr \in Nat /\ HasPrevChain(s.dr) /\ s.dr.dhr = PairOf(h) /\ RingOK(s.dr.recvChains)
  <2>1. HasPrevChain(s.dr)
    BY <1>4, <1>h DEF HEBase, HEKeyInv, InReach
  <2>2. nr \in Nat
    BY <1>1, <1>h, <2>1, ChainInForce
  <2>3. s.dr.dhr = PairOf(h)
    BY <1>1, <1>h, <2>1 DEF Standing, HasPrevChain
  <2> QED BY <1>1, <2>1, <2>2, <2>3 DEF Holding
<1>5. HasPrevChain(s.dr) => h >= 1
  BY <1>1, <1>h, ChainInForce
<1>6. ASSUME NEW x \in network, x.from = q
      PROVE  /\ EpochOf(x) < h \/ EpochOf(x) = h \/ EpochOf(x) = h + 2
             /\ EpochOf(x) = h /\ ~(x.enc.hdr.n < nr) => x \in Outstanding(p)
             /\ EpochOf(x) = h + 2 => x \in Outstanding(p)
  <2>1. EpochOf(x) \in Nat /\ EpochOf(x) <= Own(q) /\ Speaker(EpochOf(x)) = q
    BY <1>1, <1>6, EpochSender
  <2>2. EpochOf(x) # h + 1
    <3>1. Speaker(h + 1) = p
      BY <1>1, SpeakerFacts, StandFacts
    <3> QED BY <1>1, <2>1, <3>1, StandFacts
  <2>3. x \notin Outstanding(p) => Behind(p, x)
    BY <1>1, <1>6 DEF Outstanding, Taken, Once
  <2>4. Behind(p, x) => EpochOf(x) <= h /\ (EpochOf(x) = h => x.enc.hdr.n < nr)
    BY <1>h DEF Behind
  <2> QED BY <1>1, <1>2, <2>1, <2>2, <2>3, <2>4
<1>7. AtEpoch(p, h, nr)
  BY <1>1, <1>3, <1>4, <1>5, <1>6, <1>h DEF AtEpoch
<1> QED
  BY <1>7

(* What the store must hold once m has been accepted.                      *)
KeptAfter(p, m) ==
  DOMAIN session'[p].dr.mkSkipped.entries
    = NamesPassed(Heard(p)', Chain(session'[p]).nr, Outstanding(p) \ {m})

(* A stored key is taken out with its message,                             *)
LEMMA KeepsStored ==
  ASSUME HEBase, NEW p \in Party, p \notin closed, KeepsKeys(p), NEW m \in Outstanding(p),
         TakesStored(p, m)
  PROVE  KeptAfter(p, m)
<1> DEFINE s == session[p]
           O == Outstanding(p)
<1>t. PICK t : t = session'[p]
  OBVIOUS
<1>1. PICK h, nr : AtEpoch(p, h, nr)
  BY EpochReached
<1>2. h = Heard(p) /\ nr = Chain(s).nr
  BY <1>1 DEF AtEpoch
<1>3. /\ Heard(p)' = h /\ t.dr.mkSkipped = Consume(s.dr.mkSkipped, Name(m))
      /\ t.dr.recvChains = s.dr.recvChains /\ t.dr.dhr = s.dr.dhr
  BY <1>t, <1>2 DEF TakesStored
<1>4. Chain(t).nr = nr
  BY <1>2, <1>3 DEF Chain
<1>5. DOMAIN t.dr.mkSkipped.entries = DOMAIN s.dr.mkSkipped.entries \ {Name(m)}
  BY <1>3 DEF Consume, Without
<1>6. DOMAIN s.dr.mkSkipped.entries = NamesPassed(h, nr, O)
  BY <1>2 DEF KeepsKeys
<1>7. \A x \in O : Name(x) = Name(m) <=> x = m
  BY OutstandingFacts DEF HEBase
<1> HIDE DEF O, s
<1>8. NamesPassed(h, nr, O \ {m}) = NamesPassed(h, nr, O) \ {Name(m)}
  BY <1>7 DEF NamesPassed
<1> QED
  BY <1>3, <1>4, <1>5, <1>6, <1>8, <1>t DEF KeptAfter, O

(* At most MaxSkip names are left when one message of the window is taken. *)
LEMMA NamesLeft ==
  ASSUME HEBase, NEW p \in Party, NEW m \in Outstanding(p),
         Cardinality(Outstanding(p)) <= MaxSkip + 1, NEW h, NEW nr
  PROVE  /\ IsFiniteSet(NamesPassed(h, nr, Outstanding(p) \ {m}))
         /\ Cardinality(NamesPassed(h, nr, Outstanding(p) \ {m})) <= MaxSkip
<1> DEFINE O == Outstanding(p)
           N == NamesPassed(h, nr, O \ {m})
<1>1. IsFiniteSet(O) /\ Cardinality(O) \in Nat
  BY FS_Subset, FS_CardinalityType DEF Outstanding, HEBase
<1>2. IsFiniteSet(O \ {m}) /\ Cardinality(O \ {m}) = Cardinality(O) - 1
  BY <1>1, FS_RemoveElement
<1>3. IsFiniteSet(N) /\ Cardinality(N) \in Nat /\ Cardinality(N) <= Cardinality(O \ {m})
  BY <1>2, NamesBound
<1> HIDE DEF N, O
<1> QED
  BY <1>1, <1>2, <1>3, MaxSkipAssumption DEF O, N

(* the chain in force stores the keys it passes over,                      *)
LEMMA KeepsCurrent ==
  ASSUME HEBase, GaplessInv, NEW p \in Party, p \notin closed, KeepsKeys(p), NEW m \in Outstanding(p),
         Cardinality(Outstanding(p)) <= MaxSkip + 1, StaysOnChain(p, m)
  PROVE  KeptAfter(p, m)
<1> DEFINE s == session[p]
           q == Peer(p)
           O == Outstanding(p)
<1>t. PICK t, n : t = session'[p] /\ n = m.enc.hdr.n
  OBVIOUS
<1>1. PICK h, nr : AtEpoch(p, h, nr)
  BY EpochReached
<1>2. h = Heard(p) /\ nr = Chain(s).nr
  BY <1>1 DEF AtEpoch
<1>3. /\ Heard(p)' = h /\ EpochOf(m) = h /\ nr \in Nat /\ nr <= n /\ n \in Nat /\ h \in Nat \ {0}
      /\ t.dr.mkSkipped = StoreKeys(s.dr.mkSkipped, HeaderKeyOf(h), Chain(s).ck, nr, n)
      /\ Chain(t).nr = n + 1
  BY <1>t, <1>2, OutstandingFacts DEF StaysOnChain, MovesChain, HEBase
<1>4. DOMAIN s.dr.mkSkipped.entries = NamesPassed(h, nr, O)
  BY <1>2 DEF KeepsKeys
<1>5. \A x \in O : /\ x \in network /\ x.from = q /\ x.enc.hdr.n \in Nat /\ EpochOf(x) \in Nat
                   /\ EpochOf(x) = h /\ x.enc.hdr.n = n => x = m
  <2>1. \A x \in O : EpochOf(x) = h /\ x.enc.hdr.n = n => Name(x) = Name(m)
    BY <1>3, <1>t, OutstandingFacts DEF Name, HEBase
  <2> QED BY <2>1, OutstandingFacts DEF HEBase
<1>6. \A k \in nr .. n - 1 : \E x \in O : EpochOf(x) = h /\ x.enc.hdr.n = k
  <2> SUFFICES ASSUME NEW k \in nr .. n - 1
               PROVE  \E x \in O : EpochOf(x) = h /\ x.enc.hdr.n = k
    OBVIOUS
  <2>1. k \in 0 .. n - 1 /\ ~(k < nr)
    BY <1>3
  <2>2. PICK x \in network : EpochOf(x) = h /\ x.enc.hdr.n = k
    BY <1>3, <1>5, <1>t, <2>1 DEF GaplessInv
  <2>3. x.from = q
    BY <1>3, <2>2, EpochSender, OutstandingFacts DEF HEBase
  <2> QED BY <1>1, <2>1, <2>2, <2>3 DEF AtEpoch
<1> DEFINE New == NamesPassed(h, n + 1, O \ {m})
           Run == RunOfNames(HeaderKeyOf(h), nr, n)
<1>7. New = NamesPassed(h, nr, O) \cup Run
  <2>1. ASSUME NEW x \in O
        PROVE  x # m /\ Passed(h, n + 1, x) <=>
                 Passed(h, nr, x) \/ (EpochOf(x) = h /\ x.enc.hdr.n \in nr .. n - 1)
    BY <1>3, <1>5, <1>t DEF Passed
  <2>2. Run = {Name(x) : x \in {y \in O : EpochOf(y) = h /\ y.enc.hdr.n \in nr .. n - 1}}
    BY <1>3, <1>6, RunNames DEF HEBase
  <2> HIDE DEF Run, O
  <2> QED BY <2>1, <2>2 DEF NamesPassed
<1>8. IsFiniteSet(New) /\ Cardinality(New) <= MaxSkip
  BY NamesLeft
<1> HIDE DEF New, s, O
<1>9. DOMAIN t.dr.mkSkipped.entries = New
  <2>1. nr \in Int /\ n \in Int
    BY <1>3
  <2>2. DOMAIN s.dr.mkSkipped.entries \subseteq New /\ Run \subseteq New
    BY <1>4, <1>7
  <2> QED BY <1>3, <1>4, <1>7, <1>8, <2>1, <2>2, StoreKeysEvictsNothing
<1> QED
  BY <1>3, <1>9, <1>t DEF KeptAfter, New, O

(* The names of the outstanding messages of the epochs before m's.         *)
Before(p, m) == {Name(x) : x \in {y \in Outstanding(p) : EpochOf(y) < EpochOf(m)}}

(* A message of the next epoch first stores the keys of the superseded     *)
(* chain that it announces,                                                *)
LEMMA KeepsPrevious ==
  ASSUME HEBase, GaplessInv, NEW p \in Party, p \notin closed, KeepsKeys(p), NEW m \in Outstanding(p),
         EpochOf(m) = Heard(p) + 2,
         NEW F, IsFiniteSet(F), Cardinality(F) <= MaxSkip, Before(p, m) \subseteq F
  PROVE  DOMAIN SkipPrevChainHE(session[p], m.enc.hdr.pn).entries = Before(p, m)
<1> DEFINE s == session[p]
           q == Peer(p)
           O == Outstanding(p)
<1>n. PICK pn : pn = m.enc.hdr.pn
  OBVIOUS
<1>1. PICK h, nr : AtEpoch(p, h, nr)
  BY EpochReached
<1>2. /\ h = Heard(p) /\ nr = Chain(s).nr /\ h \in Int /\ s.hkr.key = HeaderKeyOf(h)
      /\ EpochOf(m) = h + 2 /\ h < h + 2 /\ (h + 2) - 2 = h
  BY <1>1 DEF AtEpoch
<1>3. pn \in Nat /\ m \in network /\ Speaker(h + 2) = q /\ Speaker(h) = q
  BY <1>2, <1>n, OutstandingFacts, SpeakerFacts DEF HEBase
<1>4. DOMAIN s.dr.mkSkipped.entries = NamesPassed(h, nr, O)
  BY <1>2 DEF KeepsKeys
<1>5. \A x \in O : /\ x \in network /\ x.from = q /\ x.enc.hdr.n \in Nat /\ EpochOf(x) \in Nat \ {0}
                   /\ EpochOf(x) < h + 2 <=> EpochOf(x) < h \/ EpochOf(x) = h
  <2>1. ASSUME NEW x \in O
        PROVE  /\ x \in network /\ x.from = q /\ x.enc.hdr.n \in Nat /\ EpochOf(x) \in Nat \ {0}
    BY OutstandingFacts DEF HEBase
  <2>2. ASSUME NEW x \in O
        PROVE  EpochOf(x) < h \/ EpochOf(x) = h \/ EpochOf(x) = h + 2
    BY <1>1, <2>1 DEF AtEpoch
  <2>3. ASSUME NEW x \in O
        PROVE  EpochOf(x) < h + 2 <=> EpochOf(x) < h \/ EpochOf(x) = h
    BY <1>2, <2>1, <2>2
  <2> QED BY <2>1, <2>3
<1>6. CASE h < 1
  <2>1. ~HasPrevChain(s.dr)
    BY <1>1, <1>2, <1>6 DEF AtEpoch
  <2>2. \A x \in O : ~(EpochOf(x) < h \/ EpochOf(x) = h)
    BY <1>2, <1>5, <1>6
  <2>3. Before(p, m) = {} /\ NamesPassed(h, nr, O) = {}
    BY <1>2, <1>5, <2>2 DEF Before, NamesPassed, Passed
  <2> QED BY <1>4, <2>1, <2>3 DEF SkipPrevChainHE
<1>7. CASE h >= 1
  <2>1. nr \in Nat /\ HasPrevChain(s.dr) /\ h \in Nat \ {0}
    BY <1>1, <1>2, <1>7 DEF AtEpoch
  <2>2. Numbered(network, h, pn)
    BY <1>2, <1>3, <1>n DEF GaplessInv
  <2>3. \A k \in nr .. pn - 1 : \E x \in O : EpochOf(x) = h /\ x.enc.hdr.n = k
    <3> SUFFICES ASSUME NEW k \in nr .. pn - 1
                 PROVE  \E x \in O : EpochOf(x) = h /\ x.enc.hdr.n = k
      OBVIOUS
    <3>1. k \in 0 .. pn - 1 /\ ~(k < nr)
      BY <1>3, <2>1
    <3>2. PICK x \in network : EpochOf(x) = h /\ x.enc.hdr.n = k
      BY <2>2, <3>1 DEF Numbered
    <3>3. x.from = q
      BY <1>3, <3>2, EpochSender DEF HEBase
    <3> QED BY <1>1, <3>1, <3>2, <3>3 DEF AtEpoch
  <2> DEFINE Run == RunOfNames(HeaderKeyOf(h), nr, pn)
  <2>4. Before(p, m) = NamesPassed(h, nr, O) \cup Run
    <3>1. ASSUME NEW x \in O
          PROVE  EpochOf(x) < EpochOf(m) <=>
                   Passed(h, nr, x) \/ (EpochOf(x) = h /\ x.enc.hdr.n \in nr .. pn - 1)
      <4>1. EpochOf(x) = h => x.enc.hdr.n < pn
        BY <1>5, <2>2 DEF Numbered
      <4> QED BY <1>2, <1>3, <1>5, <2>1, <4>1 DEF Passed
    <3>2. Run = {Name(x) : x \in {y \in O : EpochOf(y) = h /\ y.enc.hdr.n \in nr .. pn - 1}}
      BY <2>1, <2>3, RunNames DEF HEBase
    <3> HIDE DEF Run, O
    <3> QED BY <3>1, <3>2 DEF NamesPassed, Before, O
  <2>5. SkipPrevChainHE(s, pn) = StoreKeys(s.dr.mkSkipped, HeaderKeyOf(h), Chain(s).ck, nr, pn)
    BY <1>2, <2>1 DEF SkipPrevChainHE, PrevNr, Chain
  <2> HIDE DEF s, O
  <2>6. nr \in Int /\ pn \in Int
    BY <1>3, <2>1
  <2>7. DOMAIN s.dr.mkSkipped.entries \subseteq F /\ Run \subseteq F
    BY <1>4, <2>4
  <2>8. DOMAIN SkipPrevChainHE(s, pn).entries = Before(p, m)
    BY <1>4, <2>4, <2>5, <2>6, <2>7, StoreKeysEvictsNothing
  <2> QED BY <1>n, <2>8 DEF s
<1> QED
  BY <1>2, <1>6, <1>7

(* and then those of its own that it passes over.                          *)
LEMMA KeepsTurn ==
  ASSUME HEBase, GaplessInv, NEW p \in Party, p \notin closed, KeepsKeys(p), NEW m \in Outstanding(p),
         Cardinality(Outstanding(p)) <= MaxSkip + 1, TurnsTo(p, m)
  PROVE  KeptAfter(p, m)
<1> DEFINE q == Peer(p)
           O == Outstanding(p)
<1>t. PICK t, n, prev : t = session'[p] /\ n = m.enc.hdr.n
                        /\ prev = SkipPrevChainHE(session[p], m.enc.hdr.pn)
  OBVIOUS
<1>e. PICK e : e = EpochOf(m)
  OBVIOUS
<1>1. PICK h, nr : AtEpoch(p, h, nr)
  BY EpochReached
<1>2. h = Heard(p)
  BY <1>1 DEF AtEpoch
<1>3. /\ Heard(p)' = e /\ e = h + 2 /\ n \in Nat /\ e \in Nat \ {0} /\ Speaker(e) = q
      /\ m \in network /\ m.from = q
      /\ t.dr.mkSkipped = StoreKeys(prev, HeaderKeyOf(e), FirstChainKey(Root[e]), 0, n)
      /\ Chain(t).nr = n + 1
  BY <1>t, <1>e, <1>2, OutstandingFacts DEF TurnsTo, MovesChain, HEBase
<1>4. \A x \in O : /\ x \in network /\ x.from = q /\ x.enc.hdr.n \in Nat /\ EpochOf(x) \in Nat
                   /\ EpochOf(x) = e /\ x.enc.hdr.n = n => x = m
  <2>1. \A x \in O : EpochOf(x) = e /\ x.enc.hdr.n = n => Name(x) = Name(m)
    BY <1>e, <1>t, OutstandingFacts DEF Name, HEBase
  <2> QED BY <2>1, OutstandingFacts DEF HEBase
<1>5. \A k \in 0 .. n - 1 : \E x \in O : EpochOf(x) = e /\ x.enc.hdr.n = k
  <2> SUFFICES ASSUME NEW k \in 0 .. n - 1
               PROVE  \E x \in O : EpochOf(x) = e /\ x.enc.hdr.n = k
    OBVIOUS
  <2>1. PICK x \in network : EpochOf(x) = e /\ x.enc.hdr.n = k
    BY <1>3, <1>t, <1>e DEF GaplessInv
  <2>2. x.from = q
    BY <1>3, <2>1, EpochSender DEF HEBase
  <2> QED BY <1>1, <1>3, <2>1, <2>2 DEF AtEpoch
<1> DEFINE New == NamesPassed(e, n + 1, O \ {m})
           Run == RunOfNames(HeaderKeyOf(e), 0, n)
<1>6. New = Before(p, m) \cup Run
  <2>1. ASSUME NEW x \in O
        PROVE  x # m /\ Passed(e, n + 1, x) <=>
                 EpochOf(x) < EpochOf(m) \/ (EpochOf(x) = e /\ x.enc.hdr.n \in 0 .. n - 1)
    BY <1>3, <1>4, <1>e, <1>t DEF Passed
  <2>2. Run = {Name(x) : x \in {y \in O : EpochOf(y) = e /\ y.enc.hdr.n \in 0 .. n - 1}}
    BY <1>3, <1>5, RunNames DEF HEBase
  <2> HIDE DEF Run, O
  <2> QED BY <2>1, <2>2 DEF NamesPassed, Before, O
<1>7. IsFiniteSet(New) /\ Cardinality(New) <= MaxSkip
  BY NamesLeft
<1> HIDE DEF New, O
<1>8. DOMAIN prev.entries = Before(p, m)
  <2>1. Before(p, m) \subseteq New /\ EpochOf(m) = Heard(p) + 2
    BY <1>2, <1>3, <1>6, <1>e
  <2> QED BY <1>7, <1>t, <2>1, KeepsPrevious
<1>9. DOMAIN t.dr.mkSkipped.entries = New
  <2>1. 0 \in Int /\ n \in Int
    BY <1>3
  <2>2. DOMAIN prev.entries \subseteq New /\ RunOfNames(HeaderKeyOf(e), 0, n) \subseteq New
    BY <1>6, <1>8 DEF Run
  <2> QED BY <1>3, <1>6, <1>7, <1>8, <2>1, <2>2, StoreKeysEvictsNothing DEF Run
<1> QED
  BY <1>3, <1>9, <1>t DEF KeptAfter, New, O

(* However an outstanding message is accepted.                             *)
LEMMA AcceptKeeps ==
  ASSUME HEBase, GaplessInv, NEW p \in Party, p \notin closed, KeepsKeys(p), NEW m \in Outstanding(p),
         Cardinality(Outstanding(p)) <= MaxSkip + 1,
         TakesStored(p, m) \/ StaysOnChain(p, m) \/ TurnsTo(p, m)
  PROVE  KeptAfter(p, m)
BY KeepsStored, KeepsCurrent, KeepsTurn

(* A party keeps its keys while it accepts nothing and what is sent to it  *)
(* is not passed already.                                                  *)
LEMMA KeepsKept ==
  ASSUME NEW p \in Party, KeepsKeys(p), network \subseteq network', accepted'[p] = accepted[p],
         \A x \in network' \ network :
           x.from = Peer(p) => ~Passed(Heard(p), Chain(session[p]).nr, x),
         Heard(p)' = Heard(p),
         session'[p].dr.recvChains = session[p].dr.recvChains,
         session'[p].dr.mkSkipped = session[p].dr.mkSkipped,
         session'[p].dr.dhr = session[p].dr.dhr
  PROVE  KeepsKeys(p)'
<1>t. PICK t, O, h, nr : /\ t = session'[p] /\ O = Outstanding(p)'
                         /\ h = Heard(p) /\ nr = Chain(session[p]).nr
  OBVIOUS
<1>1. Chain(t).nr = nr
  BY <1>t DEF Chain
<1>2. {x \in O : Passed(h, nr, x)} = {x \in Outstanding(p) : Passed(h, nr, x)}
  <2>1. ASSUME NEW x \in O, Passed(h, nr, x) PROVE x \in Outstanding(p)
    BY <1>t, <2>1 DEF Outstanding
  <2>2. Outstanding(p) \subseteq O
    BY <1>t DEF Outstanding
  <2> QED BY <2>1, <2>2
<1>3. NamesPassed(h, nr, O) = NamesPassed(h, nr, Outstanding(p))
  BY <1>2 DEF NamesPassed
<1>4. NamesPassed(Heard(p), Chain(session[p]).nr, Outstanding(p))' = NamesPassed(h, nr, O)
  <2>1. Chain(session[p])' = Chain(t)
    BY <1>t DEF Chain
  <2> QED BY <1>1, <1>t, <2>1 DEF NamesPassed, Passed, EpochOf, Parity, Name
<1> QED
  BY <1>3, <1>4, <1>t DEF KeepsKeys

(* What EncryptHE sends is beyond all that its receiver has passed.        *)
LEMMA EncryptKeeps ==
  ASSUME HEBase, GaplessInv, closed = {}, NEW p \in Party, EncryptHE(p), \A x \in Party : KeepsKeys(x)
  PROVE  \A x \in Party : KeepsKeys(x)'
<1> DEFINE q == Peer(p)
           s == session[p]
<1>t. PICK t, o, b : t = session'[p] /\ o = Own(p)' /\ b = Own(p)
  OBVIOUS
<1>0. HEInv /\ HEKeyInv
  BY DEF HEBase
<1>1. PICK m : Sends(p, m)
  BY <1>0, EncryptEffects
<1>n. PICK n : n = m.enc.hdr.n
  OBVIOUS
<1>2. /\ network' = network \cup {m} /\ m.from = p /\ EpochOf(m) = o /\ o \in Nat \ {0} /\ n \in Nat
      /\ (o = b + 2 \/ (o = b /\ n = s.dr.ns))
      /\ Heard(p)' = Heard(p) /\ ReceiveHalfKept(s, t)
      /\ session'[q] = session[q] /\ generated'[q] = generated[q] /\ accepted' = accepted
  BY <1>1, <1>t, <1>n DEF Sends
<1>3. Party = {p, q} /\ q \in Party /\ q # p /\ Peer(q) = p /\ b \in Nat
  BY <1>0, <1>t, StandFacts, EpochFacts
<1>4. KeepsKeys(p)'
  BY <1>2, <1>3, <1>t, KeepsKept DEF ReceiveHalfKept
<1>5. PICK h, nr : AtEpoch(q, h, nr)
  BY <1>3, EpochReached
<1>6. /\ h = Heard(q) /\ nr = Chain(session[q]).nr /\ h \in Int /\ (h >= 1 => nr \in Nat)
      /\ h <= b
  BY <1>0, <1>3, <1>5, <1>t, HeardBound DEF AtEpoch
<1>7. ~Passed(h, nr, m)
  <2>1. ~(EpochOf(m) < h)
    BY <1>2, <1>3, <1>6
  <2>2. ASSUME EpochOf(m) = h PROVE ~(n < nr)
    <3>1. o = b /\ n = s.dr.ns /\ h >= 1
      BY <1>2, <1>3, <1>6, <2>2
    <3>2. PICK x \in network : EpochOf(x) = h /\ x.enc.hdr.n = nr - 1
      BY <1>3, <1>6, <3>1 DEF HEBase, HEKeyInv, InReach
    <3>3. Numbered(network, b, n)
      BY <1>t, <3>1 DEF GaplessInv
    <3>4. nr - 1 < n
      BY <1>2, <2>2, <3>1, <3>2, <3>3 DEF Numbered
    <3> QED BY <1>2, <1>6, <3>1, <3>4
  <2> QED BY <1>n, <2>1, <2>2 DEF Passed
<1>8. Heard(q)' = Heard(q)
  BY <1>2 DEF Heard, Own, Newest, Performed
<1>9. KeepsKeys(q)'
  BY <1>2, <1>3, <1>6, <1>7, <1>8, KeepsKept
<1> QED
  BY <1>3, <1>4, <1>9

(* Accepting a message within the window.                                  *)
LEMMA DecryptAcceptsKeeps ==
  ASSUME HEBase, GaplessInv, NEW p \in Party, DecryptHEAccepts(p), \A x \in Party : KeepsKeys(x),
         Window
  PROVE  GaplessInv' /\ \A x \in Party : KeepsKeys(x)'
<1> DEFINE q == Peer(p)
           s == session[p]
<1>t. PICK t : t = session'[p]
  OBVIOUS
<1>0. HEInv /\ p \notin closed
  BY AcceptEffects DEF HEBase
<1>1. PICK m \in network : Effects(p, m)
  BY <1>0, AcceptEffects
<1>2. /\ m.from = q /\ m.box.text \notin accepted[p] /\ session'[q] = session[q]
      /\ t.dr.ns = s.dr.ns /\ t.dr.pn = s.dr.pn
      /\ accepted' = [accepted EXCEPT ![p] = @ \cup {m.box.text}]
      /\ UNCHANGED <<generated, network>>
      /\ TakesStored(p, m) \/ StaysOnChain(p, m) \/ TurnsTo(p, m)
  BY <1>1, <1>t DEF Effects
<1>3. /\ Party = {p, q} /\ q \in Party /\ q # p
      /\ accepted = [x \in Party |-> accepted[x]]
  BY <1>0, StandFacts DEF Counts
<1>4. accepted'[p] = accepted[p] \cup {m.box.text} /\ accepted'[q] = accepted[q]
  BY <1>2, <1>3
<1>5. m \in Outstanding(p)
  BY <1>2 DEF Outstanding
<1>6. Outstanding(p)' = Outstanding(p) \ {m}
  <2>1. \A x \in network : x.from = q /\ x.box.text = m.box.text => x = m
    BY <1>0, <1>2 DEF HEInv, SentInv, MessagesDiffer
  <2> QED BY <1>2, <1>4, <2>1 DEF Outstanding
<1>7. KeptAfter(p, m)
  BY <1>0, <1>2, <1>5, AcceptKeeps DEF Window
<1>8. KeepsKeys(p)'
  <2>1. PICK O : O = Outstanding(p)'
    OBVIOUS
  <2>2. NamesPassed(Heard(p), Chain(session[p]).nr, Outstanding(p))'
          = NamesPassed(Heard(p)', Chain(session'[p]).nr, O)
    BY <2>1 DEF NamesPassed, Passed, EpochOf, Parity, Name, Chain
  <2> QED BY <1>6, <1>7, <2>1, <2>2 DEF KeepsKeys, KeptAfter
<1>9. KeepsKeys(q)'
  <2>1. Heard(q)' = Heard(q)
    BY <1>2 DEF Heard, Own, Newest, Performed
  <2> QED BY <1>2, <1>3, <1>4, <2>1, KeepsKept
<1>10. GaplessInv'
  BY <1>2, <1>3, <1>t, GaplessKept
<1> QED
  BY <1>3, <1>8, <1>9, <1>10

(* There are finitely many messages.                                       *)
FiniteInv == IsFiniteSet(network)

(* It holds initially, and a step sends one message at most.               *)
LEMMA SpecFiniteInv == Spec => []FiniteInv
<1>1. Init => FiniteInv
  BY FS_EmptySet DEF Init, FiniteInv
<1>2. FiniteInv /\ [Next]_vars => FiniteInv'
  <2> SUFFICES ASSUME FiniteInv, [Next]_vars PROVE FiniteInv'
    OBVIOUS
  <2>1. network' = network \/ \E m : network' = network \cup {m}
    BY DEF Next, vars, EncryptHE, HeaderNotSealed, EncryptHEFails, DecryptHEAccepts, DecryptHERejects,
           CloseSession
  <2> QED BY <2>1, FS_AddElement DEF FiniteInv
<1> QED
  BY <1>1, <1>2, PTL DEF Spec

(* Every step of the application keeps CarefulInv.                         *)
LEMMA StepCarefulInv ==
  HEBase /\ CarefulInv /\ [MCNext]_<<vars, application>> => CarefulInv'
<1> SUFFICES ASSUME HEBase, CarefulInv, [MCNext]_<<vars, application>>, application' = "careful"
             PROVE  (closed = {} /\ Window /\ GaplessInv /\ \A p \in Party : KeepsKeys(p))'
  BY DEF CarefulInv
<1>0. HEInv /\ HEKeyInv
  BY DEF HEBase
<1>1. application = "careful"
  BY DEF MCNext
<1>2. closed = {} /\ Window /\ GaplessInv /\ \A p \in Party : KeepsKeys(p)
  BY <1>1 DEF CarefulInv
<1>3. ASSUME UNCHANGED vars
      PROVE  (closed = {} /\ Window /\ GaplessInv /\ \A p \in Party : KeepsKeys(p))'
  <2>1. \A p \in Party : Heard(p)' = Heard(p)
    BY <1>3 DEF vars, Heard, Own, Newest, Performed
  <2>2. \A p \in Party : KeepsKeys(p)'
    BY <1>2, <1>3, <2>1, KeepsKept DEF vars
  <2>3. GaplessInv'
    BY <1>2, <1>3, GaplessKept DEF vars
  <2> QED BY <1>2, <1>3, <2>2, <2>3 DEF vars, Window, Outstanding
<1>4. CASE UNCHANGED <<vars, application>>
  BY <1>3, <1>4
<1>5. CASE MCNext
  <2>1. Next /\ Window' /\ (\A p \in Party : ~EncryptHEFails(p)) /\ closed' = {}
    BY <1>1, <1>5 DEF MCNext, Careful
  <2>2. ASSUME NEW p \in Party, EncryptHE(p)
        PROVE  GaplessInv' /\ \A x \in Party : KeepsKeys(x)'
    BY <1>0, <1>2, <2>2, EncryptGapless, EncryptKeeps
  <2>3. ASSUME NEW p \in Party, DecryptHEAccepts(p)
        PROVE  GaplessInv' /\ \A x \in Party : KeepsKeys(x)'
    BY <1>2, <2>3, DecryptAcceptsKeeps
  <2>4. ASSUME NEW p \in Party, DecryptHERejects(p)
        PROVE  GaplessInv' /\ \A x \in Party : KeepsKeys(x)'
    BY <1>0, <1>3, <2>4, RejectStep
  <2>5. \A p \in Party : ~CloseSession(p)
    BY <2>1 DEF CloseSession
  <2>6. \A p \in Party : ~HeaderNotSealed(p)
    BY <1>0, <1>2, OpenHeaderSealed
  <2> QED BY <2>1, <2>2, <2>3, <2>4, <2>5, <2>6 DEF Next
<1> QED
  BY <1>4, <1>5

(* A message whose key is found is accepted: where it arrives, the header  *)
(* in its associated data is its own.                                      *)
LEMMA AcceptsWith ==
  ASSUME HEInv, HEKeyInv, NEW p \in Party, NEW m \in network, m.from = Peer(p),
         ReceiveKeyHE(session[p], m.enc).err = "ok",
         ReceiveKeyHE(session[p], m.enc).key = ChainKeyOf(EpochOf(m), m.enc.hdr.n)
  PROVE  Accepts(p, m)
<1>1. m.box.key = ChainKeyOf(EpochOf(m), m.enc.hdr.n)
  BY DEF HEKeyInv
<1>2. m.box.ad = BuildAD(Peer(p), p, m.enc)
  BY PeerFacts DEF HEInv, SentInv, MessageOK
<1> QED
  BY <1>1, <1>2 DEF Accepts, DecryptArrival, DecryptHE, Opens

(* The stored key that opens the header of a message is the one of its     *)
(* name.                                                                   *)
LEMMA MatchingName ==
  ASSUME HEInv, NEW p \in Party, p \notin closed, NEW m \in network
  PROVE  MatchingEntries(session[p].dr.mkSkipped, m.enc)
           = {Name(m)} \cap DOMAIN session[p].dr.mkSkipped.entries
<1> DEFINE E == DOMAIN session[p].dr.mkSkipped.entries
<1>1. m.enc.key # ZeroHeaderKey
  BY EpochSender, HeaderKeyFacts
<1>2. \A id \in E : id = StorageKey(id[1], id[2])
  BY StandFacts DEF Holding, StorageKey
<1>3. \A id \in E : OpensHeader(id[1], m.enc) /\ id[2] = m.enc.hdr.n <=> id = Name(m)
  BY <1>1, <1>2 DEF OpensHeader, Name, StorageKey
<1> QED
  BY <1>3 DEF MatchingEntries

(* A message is accepted when its key is stored,                           *)
LEMMA AcceptsStored ==
  ASSUME HEInv, HEKeyInv, NEW p \in Party, p \notin closed, NEW m \in network, m.from = Peer(p),
         Name(m) \in DOMAIN session[p].dr.mkSkipped.entries
  PROVE  Accepts(p, m)
<1> DEFINE st == session[p].dr.mkSkipped
<1>1. MatchingEntries(st, m.enc) = {Name(m)}
  BY MatchingName
<1>2. (CHOOSE id \in MatchingEntries(st, m.enc) : TRUE) = Name(m)
  BY <1>1
<1>3. st.entries[Name(m)] = ChainKeyOf(EpochOf(m), m.enc.hdr.n)
  <2>1. EpochOf(m) \in Nat \ {0} /\ m.enc.hdr.n \in Nat /\ Name(m) = StorageKey(HeaderKeyOf(EpochOf(m)), m.enc.hdr.n)
    BY EpochSender DEF Name
  <2>2. StoreGenuine(st)
    BY DEF HEKeyInv, KeysGenuine
  <2> QED BY <2>1, <2>2 DEF StoreGenuine
<1>4. ReceiveKeyHE(session[p], m.enc) = TakeSkippedHE(session[p], m.enc)
  BY <1>1 DEF ReceiveKeyHE
<1>5. TakeSkippedHE(session[p], m.enc).err = "ok" /\ TakeSkippedHE(session[p], m.enc).key = st.entries[Name(m)]
  BY <1>2 DEF TakeSkippedHE, Outcome, Lookup
<1> QED
  BY <1>3, <1>4, <1>5, AcceptsWith

(* when the chain in force has not passed it,                              *)
LEMMA AcceptsCurrent ==
  ASSUME HEInv, HEKeyInv, NEW p \in Party, p \notin closed, NEW m \in network, m.from = Peer(p),
         NEW h, NEW nr, AtEpoch(p, h, nr), EpochOf(m) = h, ~(m.enc.hdr.n < nr),
         m.enc.hdr.n - nr <= MaxSkip,
         Name(m) \notin DOMAIN session[p].dr.mkSkipped.entries
  PROVE  Accepts(p, m)
<1> DEFINE s == session[p]
<1>n. PICK n : n = m.enc.hdr.n
  OBVIOUS
<1>1. h \in Nat \ {0} /\ n \in Nat /\ m.enc.key = HeaderKeyOf(h) /\ m.enc.hdr.pk = PairOf(h)
  BY <1>n, EpochSender
<1>2. /\ h = Heard(p) /\ nr = Chain(s).nr /\ s.hkr.key = HeaderKeyOf(h) /\ nr \in Nat
      /\ HasPrevChain(s.dr) /\ s.dr.dhr = PairOf(h)
  BY <1>1 DEF AtEpoch
<1>3. MatchingEntries(s.dr.mkSkipped, m.enc) = {}
  BY MatchingName
<1>4. OpensHeader(s.hkr.key, m.enc)
  BY <1>1, <1>2, HeaderKeyFacts DEF OpensHeader
<1>5. s.dr.dhRSet /\ s.dr.dhr = m.enc.hdr.pk
  BY <1>1, <1>2 DEF HasPrevChain
<1>6. ReceiveKeyHE(s, m.enc) = ReceiveOnChainHE(s, n)
  <2>1. Outcome("ok", s, NoKey).err = "ok" /\ Outcome("ok", s, NoKey).s = s
    BY DEF Outcome
  <2> HIDE DEF s
  <2> QED BY <1>3, <1>4, <1>5, <1>n, <2>1 DEF ReceiveKeyHE
<1>7. ~TooManySkipped(Chain(s).nr, n) /\ ~(n < Chain(s).nr) /\ HasChain(s.dr.recvChains, s.dr.dhr)
  BY <1>1, <1>2, <1>n, MaxSkipAssumption DEF TooManySkipped, HasPrevChain
<1>8. Chain(s).ck = ChainKeyOf(h, nr)
  BY <1>2 DEF HEKeyInv, KeysGenuine
<1>9. ReceiveOnChainHE(s, n).err = "ok" /\ ReceiveOnChainHE(s, n).key = ChainKeyAt(ChainKeyOf(h, nr), n - nr)
  BY <1>2, <1>7, <1>8 DEF ReceiveOnChainHE, Outcome, DeriveMessageKey, Chain
<1>10. ChainKeyAt(ChainKeyOf(h, nr), n - nr) = ChainKeyOf(h, n)
  <2>1. nr \in Int /\ n - nr \in Int /\ nr + (n - nr) = n
    BY <1>1, <1>2
  <2> QED BY <2>1, ChainKeySteps
<1> QED
  BY <1>6, <1>9, <1>10, <1>n, AcceptsWith

(* and when it is of the next epoch and neither the rest of the chain in   *)
(* force nor its own begins with too long a gap.                           *)
LEMMA AcceptsNext ==
  ASSUME HEInv, HEKeyInv, NEW p \in Party, p \notin closed, NEW m \in network, m.from = Peer(p),
         NEW h, NEW nr, AtEpoch(p, h, nr), EpochOf(m) = h + 2, m.enc.hdr.n <= MaxSkip,
         HasPrevChain(session[p].dr) => ~TooManySkipped(nr, m.enc.hdr.pn),
         Name(m) \notin DOMAIN session[p].dr.mkSkipped.entries
  PROVE  Accepts(p, m)
<1> DEFINE s == session[p]
<1>n. PICK n, hdr, e : n = m.enc.hdr.n /\ hdr = m.enc.hdr /\ e = EpochOf(m)
  OBVIOUS
<1>1. e \in Nat \ {0} /\ n \in Nat /\ m.enc.key = HeaderKeyOf(e) /\ hdr.pk = PairOf(e)
  BY <1>n, EpochSender
<1>2. /\ h = Heard(p) /\ nr = Chain(s).nr /\ s.hkr.key = HeaderKeyOf(h) /\ s.nhkr.key = HeaderKeyOf(e)
      /\ h \in Int /\ e = h + 2 /\ e # h
  BY <1>n DEF AtEpoch
<1>3. MatchingEntries(s.dr.mkSkipped, m.enc) = {}
  BY MatchingName
<1>4. OpensHeader(s.nhkr.key, m.enc) /\ ~OpensHeader(s.hkr.key, m.enc)
  BY <1>1, <1>2, HeaderKeyFacts DEF OpensHeader
<1>5. /\ RingOK(s.dr.recvChains) /\ ~HasChain(s.dr.recvChains, hdr.pk)
      /\ DeriveRoot(s.dr.rk, SharedSecret(s.dr.dhs, hdr.pk)) = Root[e]
  BY <1>4, <1>n, NextRoot
<1>6. VerifyPublicKey(hdr.pk)
  BY <1>1, SpeakerFacts, DivMod, KeyAssumption DEF VerifyPublicKey, PairOf, KeyPair, Party
<1>7. PerformDHRatchetRecvHE(s, hdr, TRUE).err = "ok"
  <2>1. HasPrevChain(s.dr) => ~TooManySkipped(PrevNr(s.dr), hdr.pn)
    BY <1>2, <1>n DEF PrevNr, Chain
  <2> QED BY <1>6, <2>1 DEF PerformDHRatchetRecvHE, Outcome
<1>r. PICK r, ck : r = PerformDHRatchetRecvHE(s, hdr, TRUE).s /\ ck = FirstChainKey(Root[e])
  OBVIOUS
<1>8. r.dr.recvChains = Push(s.dr.recvChains, hdr.pk, ck) /\ r.dr.dhr = hdr.pk
  <2>1. HEShape(s)
    BY StandFacts
  <2>2. Turned(s, r, hdr)
    BY <1>7, <1>r, <2>1, TurnedBy
  <2> QED BY <1>5, <1>r, <2>2 DEF Turned
<1>9. ReceiveKeyHE(s, m.enc) = ReceiveOnChainHE(r, n)
  <2> HIDE DEF s
  <2> QED BY <1>3, <1>4, <1>7, <1>n, <1>r DEF ReceiveKeyHE
<1>10. HasChain(r.dr.recvChains, r.dr.dhr) /\ GetChain(r.dr.recvChains, r.dr.dhr) = NewChain(hdr.pk, ck)
  <2> HIDE DEF s
  <2> QED BY <1>5, <1>8, GetAfterPush DEF s
<1>11. GetChain(r.dr.recvChains, r.dr.dhr).nr = 0 /\ GetChain(r.dr.recvChains, r.dr.dhr).ck = ck
  BY <1>10 DEF NewChain
<1>12. ~TooManySkipped(0, n) /\ ~(n < 0) /\ n - 0 = n
  BY <1>1, <1>n, MaxSkipAssumption DEF TooManySkipped
<1>13. ReceiveOnChainHE(r, n).err = "ok" /\ ReceiveOnChainHE(r, n).key = ChainKeyAt(ck, n)
  BY <1>10, <1>11, <1>12 DEF ReceiveOnChainHE, Outcome, DeriveMessageKey
<1>14. ChainKeyAt(ck, n) = ChainKeyOf(e, n)
  <2>1. 0 + n = n /\ ck = ChainKeyOf(e, 0)
    BY <1>1, <1>r, ChainKeySteps
  <2> QED BY <1>1, <2>1, ChainKeySteps
<1> QED
  BY <1>9, <1>13, <1>14, <1>n, AcceptsWith

(* With the window kept, what is outstanding is decryptable: a passed      *)
(* message has its key in the store, and the gap before any other consists *)
(* of outstanding messages.                                                *)
LEMMA WindowSuffices ==
  ASSUME HEBase, GaplessInv, NEW p \in Party, p \notin closed, KeepsKeys(p),
         Cardinality(Outstanding(p)) <= MaxSkip + 1, NEW m \in Outstanding(p)
  PROVE  Accepts(p, m)
<1> DEFINE s == session[p]
           q == Peer(p)
           O == Outstanding(p)
<1>n. PICK n, pn, e : n = m.enc.hdr.n /\ pn = m.enc.hdr.pn /\ e = EpochOf(m)
  OBVIOUS
<1>1. /\ HEInv /\ HEKeyInv /\ m \in network /\ m.from = q /\ n \in Nat /\ pn \in Nat
      /\ e \in Nat \ {0} /\ Speaker(e) = q
      /\ \A x \in network : Name(x) = Name(m) => x = m
  BY <1>n, OutstandingFacts DEF HEBase
<1>2. IsFiniteSet(O) /\ Cardinality(O) \in Nat /\ MaxSkip \in Nat
  BY MaxSkipAssumption, FS_Subset, FS_CardinalityType DEF Outstanding, HEBase
<1>3. PICK h, nr : AtEpoch(p, h, nr)
  BY EpochReached
<1>4. /\ h = Heard(p) /\ nr = Chain(s).nr /\ h \in Int
      /\ e < h \/ e = h \/ e = h + 2
      /\ h >= 1 => nr \in Nat
      /\ HasPrevChain(s.dr) => h >= 1
  BY <1>1, <1>3, <1>n DEF AtEpoch
<1>5. DOMAIN s.dr.mkSkipped.entries = NamesPassed(h, nr, O)
  BY <1>4 DEF KeepsKeys
<1>6. CASE Passed(h, nr, m)
  <2>1. Name(m) \in DOMAIN s.dr.mkSkipped.entries
    BY <1>5, <1>6 DEF NamesPassed
  <2> QED BY <1>1, <2>1, AcceptsStored
<1>7. ASSUME ~Passed(h, nr, m)
      PROVE  Name(m) \notin DOMAIN s.dr.mkSkipped.entries
  <2>1. \A x \in O : Passed(h, nr, x) => Name(x) # Name(m)
    BY <1>1, <1>7 DEF Outstanding
  <2> QED BY <1>5, <2>1 DEF NamesPassed
<1>8. ASSUME NEW lo \in Nat, \A y \in network : y.from = q /\ EpochOf(y) = e /\ ~(y.enc.hdr.n < lo) => y \in O
      PROVE  n - lo <= MaxSkip
  <2>1. \A k \in lo .. n : \E y \in O : y.enc.hdr.n = k
    <3> SUFFICES ASSUME NEW k \in lo .. n PROVE \E y \in O : y.enc.hdr.n = k
      OBVIOUS
    <3>1. k = n \/ k \in 0 .. n - 1
      BY <1>1
    <3>2. PICK y \in network : EpochOf(y) = e /\ y.enc.hdr.n = k
      BY <1>1, <1>n, <3>1 DEF GaplessInv
    <3>3. ~(y.enc.hdr.n < lo) /\ y.from = q
      BY <1>1, <3>2, EpochSender
    <3> QED BY <1>8, <3>2, <3>3
  <2>2. n \in Int /\ lo \in Int /\ IsFiniteSet(O)
    BY <1>1, <1>2
  <2> HIDE DEF O
  <2>3. n - lo + 1 <= Cardinality(O)
    BY <2>1, <2>2, RunBound
  <2> QED BY <1>1, <1>2, <2>3 DEF O
<1>9. CASE ~Passed(h, nr, m) /\ e = h
  <2>1. ~(n < nr) /\ nr \in Nat
    BY <1>1, <1>4, <1>9, <1>n DEF Passed
  <2>2. \A y \in network : y.from = q /\ EpochOf(y) = e /\ ~(y.enc.hdr.n < nr) => y \in O
    BY <1>3, <1>9 DEF AtEpoch
  <2>3. n - nr <= MaxSkip
    BY <1>8, <2>1, <2>2
  <2> QED BY <1>1, <1>3, <1>7, <1>9, <1>n, <2>1, <2>3, AcceptsCurrent
<1>10. CASE ~Passed(h, nr, m) /\ e = h + 2
  <2>1. n <= MaxSkip
    <3>1. \A y \in network : y.from = q /\ EpochOf(y) = e /\ ~(y.enc.hdr.n < 0) => y \in O
      BY <1>3, <1>10 DEF AtEpoch
    <3>2. n - 0 <= MaxSkip
      BY <1>8, <3>1
    <3> QED BY <1>1, <3>2
  <2>2. ASSUME HasPrevChain(s.dr) PROVE ~TooManySkipped(nr, pn)
    <3>1. nr \in Nat /\ h \in Nat \ {0} /\ e - 2 = h /\ e # h /\ Speaker(h) = q
      BY <1>1, <1>4, <1>10, <2>2, SpeakerFacts
    <3>2. Numbered(network, h, pn)
      BY <1>1, <1>n, <3>1 DEF GaplessInv
    <3>3. \A k \in nr .. pn - 1 : \E x \in O \ {m} : x.enc.hdr.n = k
      <4> SUFFICES ASSUME NEW k \in nr .. pn - 1 PROVE \E x \in O \ {m} : x.enc.hdr.n = k
        OBVIOUS
      <4>1. k \in 0 .. pn - 1 /\ ~(k < nr)
        BY <1>1, <3>1
      <4>2. PICK x \in network : EpochOf(x) = h /\ x.enc.hdr.n = k
        BY <3>2, <4>1 DEF Numbered
      <4>3. x.from = q /\ x # m
        BY <1>1, <1>n, <3>1, <4>2, EpochSender
      <4> QED BY <1>3, <4>1, <4>2, <4>3 DEF AtEpoch
    <3> HIDE DEF O
    <3>4. IsFiniteSet(O \ {m}) /\ Cardinality(O \ {m}) = Cardinality(O) - 1
      BY <1>2, FS_RemoveElement DEF O
    <3>5. (pn - 1) - nr + 1 <= Cardinality(O \ {m})
      <4>1. pn - 1 \in Int /\ nr \in Int
        BY <1>1, <3>1
      <4> QED BY <3>3, <3>4, <4>1, RunBound
    <3>6. pn - nr <= MaxSkip
      BY <1>1, <1>2, <3>1, <3>4, <3>5 DEF O
    <3> QED BY <1>1, <1>2, <3>1, <3>6 DEF TooManySkipped
  <2> QED BY <1>1, <1>3, <1>7, <1>10, <1>n, <2>1, <2>2, AcceptsNext
<1>11. e < h => Passed(h, nr, m)
  BY <1>n DEF Passed
<1> QED
  BY <1>4, <1>6, <1>9, <1>10, <1>11

(* No message is lost to a careful application, whatever else arrives: one *)
(* not yet accepted would be accepted now, also where only a stored header *)
(* key, of a chain two or more DH ratchet steps old, still opens its       *)
(* header.                                                                 *)
THEOREM CarefulKeepsMessages == MCSpec => []OutstandingDecryptableIfCareful
<1>1. MCSpec => Spec
  <2>1. MCInit => Init
    BY DEF MCInit
  <2>2. [MCNext]_<<vars, application>> => [Next]_vars
    BY DEF MCNext
  <2> QED BY <2>1, <2>2, PTL DEF MCSpec, Spec
<1>2. HEInv /\ HEKeyInv /\ FiniteInv => HEBase
  BY DEF HEBase, FiniteInv
<1>3. Spec => []HEBase
  BY <1>2, SpecHEInv, SpecHEKeyInv, SpecFiniteInv, PTL
<1>4. MCInit => CarefulInv
  <2> SUFFICES ASSUME MCInit PROVE CarefulInv
    OBVIOUS
  <2>1. Init /\ network = {} /\ closed = {} /\ HEInv
    BY InitHEInv DEF MCInit, Init
  <2>2. \A p \in Party : Outstanding(p) = {}
    BY <2>1 DEF Outstanding
  <2>3. Window
    BY <2>2, FS_EmptySet, MaxSkipAssumption DEF Window
  <2>4. GaplessInv
    <3> SUFFICES ASSUME NEW p \in Party
                 PROVE  Numbered(network, Own(p), session[p].dr.ns) /\ Numbered(network, Own(p) - 2, session[p].dr.pn)
      BY <2>1 DEF GaplessInv
    <3>1. session[p].dr.ns = 0 /\ session[p].dr.pn = 0
      BY <2>1 DEF Init, InitInitiatorHE, InitInitiator, InitResponderHE, InitResponder
    <3> QED BY <2>1, <3>1 DEF Numbered
  <2>5. \A p \in Party : KeepsKeys(p)
    <3> SUFFICES ASSUME NEW p \in Party PROVE KeepsKeys(p)
      OBVIOUS
    <3>1. session[p].dr.mkSkipped = NewStorage
      BY <2>1 DEF Init, InitInitiatorHE, InitInitiator, InitResponderHE, InitResponder
    <3>2. DOMAIN session[p].dr.mkSkipped.entries = {}
      BY <3>1 DEF NewStorage
    <3> QED BY <2>2, <3>2 DEF KeepsKeys, NamesPassed
  <2> QED BY <2>1, <2>3, <2>4, <2>5 DEF CarefulInv
<1>5. HEBase /\ CarefulInv => OutstandingDecryptableIfCareful
  BY WindowSuffices DEF CarefulInv, Window, OutstandingDecryptableIfCareful, OutstandingDecryptable
<1> QED
  BY <1>1, <1>3, <1>4, <1>5, StepCarefulInv, PTL DEF MCSpec
=============================================================================
