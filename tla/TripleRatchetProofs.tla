----------------------- MODULE TripleRatchetProofs --------------------------
(***************************************************************************)
(* Theorems about the pair of Triple Ratchet sessions, for every bound and *)
(* every value of the other constants. A call that fails in either half    *)
(* leaves both halves and the provider as they were: RollbackBoth assigns  *)
(* some fields of each half, and no path to it changes another one. The    *)
(* pair implements SecureChannel, and closed sessions stay erased, by the  *)
(* invariant PQInv of the SPQR halves alone. Neither half reuses a key:    *)
(* the SPQR half by PQInv, the EC half because it takes the steps of a     *)
(* base Double Ratchet, whose invariant carries over. The last part shows  *)
(* that the open halves are what they are made of, a pair of base sessions *)
(* and a pair of SPQR sessions, and takes over what is proved of those.    *)
(***************************************************************************)
EXTENDS TripleRatchetInvariant, MCTripleRatchet

(* The direction of an SPQR session is not part of its snapshot.           *)
SamePQ(q, t) == PQShape(t) /\ t.direction = q.direction

-----------------------------------------------------------------------------
(* The rollback of both halves restores the whole session.                 *)
LEMMA RollbackBothRestores ==
  ASSUME NEW s, NEW t, TRShape(s), ECShape(t.dr), SamePQ(s.spqr, t.spqr)
  PROVE  RollbackBoth(t, s) = s
<1>1. EC!Rollback(t.dr, EC!Record(s.dr)) = s.dr
  BY DEF EC!Rollback, EC!Record, ECShape, TRShape, EC!SessionFields
<1>2. PQ!Restore(t.spqr, s.spqr) = s.spqr
  BY DEF PQ!Restore, PQShape, SamePQ, TRShape, PQFields
<1> QED
  BY <1>1, <1>2 DEF RollbackBoth, TRShape

-----------------------------------------------------------------------------
(* The base half keeps its shape on every path of a send.                  *)
LEMMA RatchetSendKeyShape ==
  ASSUME NEW d, NEW fresh, ECShape(d)
  PROVE  ECShape(RatchetSendKey(d, fresh).s)
<1>1. ECShape(EC!ReadyToSend(d, fresh))
  BY DEF EC!ReadyToSend, EC!PerformDHRatchetSend, ECShape, EC!SessionFields
<1>2. ECShape(EC!AdvanceSend(EC!ReadyToSend(d, fresh)))
  BY <1>1 DEF EC!AdvanceSend, ECShape, EC!SessionFields
<1>3. ECShape(EC!DHRatchetSendFails(d))
  BY DEF EC!DHRatchetSendFails, ECShape, EC!SessionFields
<1> QED
  BY <1>2, <1>3 DEF RatchetSendKey, EC!Outcome, EC!Failure

(* A receive keeps the shape too, and touches no field of the sending half *)
(* but dhr and the flag.                                                   *)
ECKept(d, t, pk) ==
  /\ ECShape(t)
  /\ t.cks = d.cks /\ t.ns = d.ns /\ t.pn = d.pn /\ t.dhs = d.dhs
  /\ \/ t.dhr = d.dhr /\ t.dhRatchetPerformed = d.dhRatchetPerformed
     \/ t.dhr = pk /\ t.dhRatchetPerformed = TRUE

(* ratchetReceiveKey, whatever it returns, leaves such a session.          *)
LEMMA RatchetReceiveKeyKeeps ==
  ASSUME NEW d, NEW hdr, ECShape(d)
  PROVE  ECKept(d, EC!RatchetReceiveKey(d, hdr).s, hdr.pk)
<1> DEFINE ratchet == IF EC!IsNewEpoch(d, hdr) THEN EC!PerformDHRatchetRecv(d, hdr)
                      ELSE EC!Outcome("ok", d, NoKey)
<1>1. ECKept(d, EC!PerformDHRatchetRecv(d, hdr).s, hdr.pk)
  BY DEF EC!PerformDHRatchetRecv, ECKept, ECShape, EC!SessionFields, EC!Outcome, EC!Failure
<1>2. ECKept(d, ratchet.s, hdr.pk)
  BY <1>1 DEF ECKept, EC!Outcome
<1>3. ASSUME NEW t, ECKept(d, t, hdr.pk) PROVE ECKept(d, EC!ReceiveOnChain(t, hdr).s, hdr.pk)
  BY <1>3 DEF EC!ReceiveOnChain, ECKept, ECShape, EC!SessionFields, EC!Outcome, EC!Failure
<1>4. ASSUME NEW id PROVE ECKept(d, EC!TakeSkipped(d, id).s, hdr.pk)
  BY DEF EC!TakeSkipped, ECKept, ECShape, EC!SessionFields, EC!Outcome
<1> HIDE DEF ratchet
<1> QED
  BY <1>2, <1>3, <1>4 DEF EC!RatchetReceiveKey, ratchet

-----------------------------------------------------------------------------
(* Starting an epoch and clearing old ones keeps shape and direction.      *)
LEMMA EpochStepSame ==
  ASSUME NEW q, NEW keyEpoch, NEW inEpoch, PQShape(q)
  PROVE  SamePQ(q, PQ!EpochStep(q, keyEpoch, inEpoch))
<1>1. SamePQ(q, PQ!AdvanceEpoch(q, keyEpoch))
  BY DEF PQ!AdvanceEpoch, SamePQ, PQShape, PQFields
<1>2. ASSUME NEW t, SamePQ(q, t) PROVE SamePQ(q, PQ!ClearOldEpochs(t, inEpoch))
  BY <1>2 DEF PQ!ClearOldEpochs, SamePQ, PQShape, PQFields
<1> QED
  BY <1>1, <1>2 DEF PQ!EpochStep, SamePQ

(* So does every path of sendKey, the provider's refusal included.         *)
LEMMA SendKeyPQSame ==
  ASSUME NEW q, NEW providerAnswers, PQShape(q)
  PROVE  SamePQ(q, SendKeyPQ(q, providerAnswers).s)
<1> DEFINE sp    == PQ!ProviderSend(q.scka)
           told  == [q EXCEPT !.scka = sp.st]
           step  == PQ!EpochStep(told, sp.keyEpoch, sp.sendingEpoch)
           ready == PQ!DropSendChainBefore(step, sp.sendingEpoch)
<1>1. SamePQ(q, told)
  <2> HIDE DEF sp
  <2> QED
    BY DEF SamePQ, PQShape, PQFields
<1>2. SamePQ(q, step)
  BY <1>1, EpochStepSame DEF SamePQ
<1>3. SamePQ(q, ready)
  <2> HIDE DEF step, sp
  <2> QED
    BY <1>2 DEF PQ!DropSendChainBefore, SamePQ, PQShape, PQFields
<1>4. SamePQ(q, PQ!StepSendChain(ready, sp.sendingEpoch))
  <2> HIDE DEF ready, sp
  <2> QED
    BY <1>3 DEF PQ!StepSendChain, SamePQ, PQShape, PQFields
<1>5. PQ!SendKey(q).s \in {told, ready, PQ!StepSendChain(ready, sp.sendingEpoch)}
  BY DEF PQ!SendKey, PQ!Outcome, PQ!Failure
<1>6. SamePQ(q, PQ!SendKey(q).s)
  <2> HIDE DEF told, ready, sp
  <2> QED
    BY <1>1, <1>3, <1>4, <1>5
<1>7. SamePQ(q, PQ!Failure("ErrProvider", q).s)
  BY DEF PQ!Failure, PQ!Outcome, SamePQ
<1> QED
  BY <1>6, <1>7 DEF SendKeyPQ

(* Receiving on the chain of an epoch, keys skipped or not.                *)
LEMMA ReceiveOnChainSame ==
  ASSUME NEW q, NEW epoch, NEW n, PQShape(q)
  PROVE  SamePQ(q, PQ!ReceiveOnChain(q, epoch, n).s)
<1> DEFINE there == PQ!SkipTo(q, epoch, n)
           after == [there EXCEPT !.kdfChains[epoch].receive =
                                     PQ!ChainAt(there.kdfChains[epoch].receive, 1)]
<1>1. SamePQ(q, there)
  BY DEF PQ!SkipTo, SamePQ, PQShape, PQFields
<1>2. SamePQ(q, after)
  <2> HIDE DEF there
  <2> QED
    BY <1>1 DEF SamePQ, PQShape, PQFields
<1>3. PQ!ReceiveOnChain(q, epoch, n).s \in {q, there, after}
  BY DEF PQ!ReceiveOnChain, PQ!Outcome, PQ!Failure
<1> HIDE DEF there, after
<1> QED
  BY <1>1, <1>2, <1>3 DEF SamePQ

(* And every path of receiveKey.                                           *)
LEMMA ReceiveKeySame ==
  ASSUME NEW q, NEW hdr, PQShape(q)
  PROVE  SamePQ(q, PQ!ReceiveKey(q, hdr).s)
<1> DEFINE rp   == PQ!ProviderReceive(q.scka, hdr.msg)
           told == [q EXCEPT !.scka = rp.st]
           here == PQ!EpochStep(told, rp.keyEpoch, rp.receivingEpoch)
           id   == <<rp.receivingEpoch, hdr.n>>
<1>1. SamePQ(q, told)
  <2> HIDE DEF rp
  <2> QED
    BY DEF SamePQ, PQShape, PQFields
<1>2. SamePQ(q, here)
  BY <1>1, EpochStepSame DEF SamePQ
<1>3. SamePQ(q, PQ!TakeSkipped(here, id).s)
  <2> HIDE DEF here, id
  <2> QED
    BY <1>2 DEF PQ!TakeSkipped, PQ!Outcome, SamePQ, PQShape, PQFields
<1>4. SamePQ(q, PQ!ReceiveOnChain(here, rp.receivingEpoch, hdr.n).s)
  <2> HIDE DEF here, rp
  <2> QED
    BY <1>2, ReceiveOnChainSame DEF SamePQ
<1>5. PQ!ReceiveKey(q, hdr).s \in
        {q, told, PQ!TakeSkipped(here, id).s,
         PQ!ReceiveOnChain(here, rp.receivingEpoch, hdr.n).s}
  BY DEF PQ!ReceiveKey, PQ!Outcome, PQ!Failure
<1> HIDE DEF told, here, id, rp
<1> QED
  BY <1>1, <1>3, <1>4, <1>5 DEF SamePQ

-----------------------------------------------------------------------------
(* Encrypt either fails and returns the session it was given, or returns   *)
(* one of the same shape.                                                  *)
LEMMA EncryptKeyOutcome ==
  ASSUME NEW s, NEW fresh, NEW providerAnswers, TRShape(s)
  PROVE  LET out == EncryptKey(s, fresh, providerAnswers)
         IN  (out.err # "ok" => out.s = s) /\ TRShape(out.s)
<1> DEFINE ec == RatchetSendKey(s.dr, fresh)
           pq == SendKeyPQ(s.spqr, providerAnswers)
<1>1. ECShape(ec.s)
  BY RatchetSendKeyShape DEF TRShape
<1>2. SamePQ(s.spqr, pq.s)
  BY SendKeyPQSame DEF TRShape
<1> HIDE DEF ec, pq
<1>3. RollbackBoth([s EXCEPT !.dr = ec.s], s) = s
  <2>1. SamePQ(s.spqr, s.spqr)
    BY DEF SamePQ, TRShape
  <2>2. [s EXCEPT !.dr = ec.s].dr = ec.s /\ [s EXCEPT !.dr = ec.s].spqr = s.spqr
    BY DEF TRShape
  <2> QED
    BY <1>1, <2>1, <2>2, RollbackBothRestores
<1>4. RollbackBoth([dr |-> ec.s, spqr |-> pq.s], s) = s
  BY <1>1, <1>2, RollbackBothRestores
<1>5. TRShape([dr |-> ec.s, spqr |-> pq.s])
  BY <1>1, <1>2 DEF TRShape, SamePQ
<1> QED
  BY <1>3, <1>4, <1>5 DEF EncryptKey, Outcome, ec, pq

(* The same of Decrypt.                                                    *)
LEMMA DecryptOutcome ==
  ASSUME NEW s, NEW hdr, NEW ad, NEW box, TRShape(s)
  PROVE  LET out == Decrypt(s, hdr, ad, box)
         IN  (out.err # "ok" => out.s = s) /\ TRShape(out.s)
<1> DEFINE ec == EC!RatchetReceiveKey(s.dr, hdr.ec)
           pq == PQ!ReceiveKey(s.spqr, hdr.scka)
<1>1. ECShape(ec.s)
  BY RatchetReceiveKeyKeeps DEF TRShape, ECKept
<1>2. SamePQ(s.spqr, pq.s)
  BY ReceiveKeySame DEF TRShape
<1> HIDE DEF ec, pq
<1>3. RollbackBoth([s EXCEPT !.dr = ec.s], s) = s
  <2>1. SamePQ(s.spqr, s.spqr)
    BY DEF SamePQ, TRShape
  <2>2. [s EXCEPT !.dr = ec.s].dr = ec.s /\ [s EXCEPT !.dr = ec.s].spqr = s.spqr
    BY DEF TRShape
  <2> QED
    BY <1>1, <2>1, <2>2, RollbackBothRestores
<1>4. RollbackBoth([dr |-> ec.s, spqr |-> pq.s], s) = s
  BY <1>1, <1>2, RollbackBothRestores
<1>5. TRShape([dr |-> ec.s, spqr |-> pq.s])
  BY <1>1, <1>2 DEF TRShape, SamePQ
<1> QED
  BY <1>3, <1>4, <1>5 DEF Decrypt, Outcome, ec, pq

(* Close zeroes fields and removes none.                                   *)
LEMMA CloseBothShape ==
  ASSUME NEW s, TRShape(s)
  PROVE  TRShape(CloseBoth(s))
<1>1. ECShape(EC!Close(s.dr))
  BY DEF EC!Close, ECShape, TRShape, EC!SessionFields
<1>2. PQShape(PQ!Close(s.spqr))
  BY DEF PQ!Close, PQShape, TRShape, PQFields
<1> QED
  BY <1>1, <1>2 DEF CloseBoth, TRShape

-----------------------------------------------------------------------------
(* Both parties have a session, of the shape of the structs.               *)
ShapeInv ==
  /\ session = [p \in Party |-> session[p]]
  /\ \A p \in Party : TRShape(session[p])

(* Both constructors fill in every field.                                  *)
LEMMA InitShapeInv == Init => ShapeInv
<1> SUFFICES ASSUME Init PROVE ShapeInv
  OBVIOUS
<1>1. TRShape(InitInitiatorTripleRatchet(KeyPair(Initiator, 0), KeyPair(Responder, 0)))
  BY DEF InitInitiatorTripleRatchet, EC!InitInitiator, PQ!InitSCKA, TRShape, ECShape, PQShape,
         EC!SessionFields, PQFields
<1>2. TRShape(InitResponderTripleRatchet(KeyPair(Responder, 0)))
  BY DEF InitResponderTripleRatchet, EC!InitResponder, PQ!InitSCKA, TRShape, ECShape, PQShape,
         EC!SessionFields, PQFields
<1> QED
  BY <1>1, <1>2 DEF Init, ShapeInv

(* Replacing one party's session by one of the right shape is enough.      *)
LEMMA UpdateShapeInv ==
  ASSUME ShapeInv, NEW p \in Party, NEW t, TRShape(t),
         session' = [session EXCEPT ![p] = t]
  PROVE  ShapeInv'
BY DEF ShapeInv

(* Every call leaves the caller a session of the right shape.              *)
LEMMA StepShapeInv == ShapeInv /\ [Next]_vars => ShapeInv'
<1> SUFFICES ASSUME ShapeInv, [Next]_vars PROVE ShapeInv'
  OBVIOUS
<1>1. ASSUME NEW p \in Party PROVE TRShape(session[p])
  BY DEF ShapeInv
<1>2. ASSUME NEW p \in Party, Encrypt(p) PROVE ShapeInv'
  BY <1>1, <1>2, EncryptKeyOutcome, UpdateShapeInv DEF Encrypt
<1>3. ASSUME NEW p \in Party, EncryptFails(p) PROVE ShapeInv'
  <2>1. PICK out \in FailedEncrypts(p) : session' = [session EXCEPT ![p] = out.s]
    BY <1>3 DEF EncryptFails
  <2>2. TRShape(out.s)
    BY <1>1, EncryptKeyOutcome DEF FailedEncrypts
  <2> QED
    BY <2>1, <2>2, UpdateShapeInv
<1>4. ASSUME NEW p \in Party, DecryptAccepts(p) \/ DecryptRejects(p) PROVE ShapeInv'
  <2>1. PICK a : session' = [session EXCEPT ![p] = DecryptArrival(p, a).s]
    BY <1>4 DEF DecryptAccepts, DecryptRejects
  <2>2. TRShape(DecryptArrival(p, a).s)
    BY <1>1, DecryptOutcome DEF DecryptArrival
  <2> QED
    BY <2>1, <2>2, UpdateShapeInv
<1>5. ASSUME NEW p \in Party, CloseSession(p) PROVE ShapeInv'
  BY <1>1, <1>5, CloseBothShape, UpdateShapeInv DEF CloseSession
<1>6. CASE UNCHANGED vars
  BY <1>6 DEF vars, ShapeInv
<1> QED
  BY <1>2, <1>3, <1>4, <1>5, <1>6 DEF Next

(* Sessions have the shape of the structs throughout.                      *)
LEMMA SpecShapeInv == Spec => []ShapeInv
BY InitShapeInv, StepShapeInv, PTL DEF Spec

(* In every reachable state, an Encrypt that would fail, in whichever half *)
(* and for whatever reason, leaves both halves as they were.               *)
THEOREM FailedEncryptsLeaveSession == Spec => []FailedEncryptLeavesSession
<1>1. ShapeInv => FailedEncryptLeavesSession
  <2> SUFFICES ASSUME ShapeInv, NEW p \in Party, NEW out \in FailedEncrypts(p)
               PROVE  out.s = session[p]
    BY DEF FailedEncryptLeavesSession
  <2>1. TRShape(session[p])
    BY DEF ShapeInv
  <2>2. \A fresh, answers :
          LET e == EncryptKey(session[p], fresh, answers)
          IN  e.err # "ok" => e.s = session[p]
    BY <2>1, EncryptKeyOutcome
  <2> QED
    BY <2>2 DEF FailedEncrypts
<1> QED
  BY <1>1, SpecShapeInv, PTL

(* In every reachable state, every arrival that Decrypt would reject       *)
(* leaves both halves and the provider as they were.                       *)
THEOREM RejectionsLeaveSession == Spec => []RejectionLeavesSession
<1>1. ShapeInv => RejectionLeavesSession
  <2> SUFFICES ASSUME ShapeInv, NEW p \in Party, NEW a, DecryptArrival(p, a).err # "ok"
               PROVE  DecryptArrival(p, a).s = session[p]
    BY DEF RejectionLeavesSession
  <2> QED
    BY DecryptOutcome DEF ShapeInv, DecryptArrival
<1> QED
  BY <1>1, SpecShapeInv, PTL

-----------------------------------------------------------------------------
(* SPQRProofs speaks of its own instances of the operators of an SPQR      *)
(* session; they are the same operators.                                   *)
LEMMA SamePQOperators ==
  /\ \A dir : PQ!InitSCKA(dir) = PQL!InitSCKA(dir)
  /\ \A s : PQ!SendKey(s) = PQL!SendKey(s)
  /\ \A s, hdr : PQ!ReceiveKey(s, hdr) = PQL!ReceiveKey(s, hdr)
<1>1. /\ \A root, dir : PQ!ChainPair(root, dir) = PQL!ChainPair(root, dir)
      /\ \A odd : PQ!InitProvider(odd) = PQL!InitProvider(odd)
  BY DEF PQ!ChainPair, PQL!ChainPair, PQ!KDFChain, PQL!KDFChain, PQ!Opposite, PQL!Opposite,
         PQ!InitProvider, PQL!InitProvider
<1>2. \A dir : PQ!InitSCKA(dir) = PQL!InitSCKA(dir)
  BY <1>1 DEF PQ!InitSCKA, PQL!InitSCKA, PQ!InitialRootKey, PQL!InitialRootKey
<1>3. \A s, e : PQ!AdvanceEpoch(s, e) = PQL!AdvanceEpoch(s, e)
  BY <1>1 DEF PQ!AdvanceEpoch, PQL!AdvanceEpoch, PQ!DeriveRoot, PQL!DeriveRoot,
              PQ!OutputKey, PQL!OutputKey
<1>4. \A s, e : PQ!ClearOldEpochs(s, e) = PQL!ClearOldEpochs(s, e)
  BY DEF PQ!ClearOldEpochs, PQL!ClearOldEpochs
<1>5. \A s, k, e : /\ PQ!EpochStep(s, k, e) = PQL!EpochStep(s, k, e)
                   /\ PQ!EpochMismatch(s, k) <=> PQL!EpochMismatch(s, k)
  BY <1>3, <1>4 DEF PQ!EpochStep, PQL!EpochStep, PQ!EpochMismatch, PQL!EpochMismatch,
                    PQ!NoEpoch, PQL!NoEpoch
<1>6. \A st : PQ!ProviderSend(st) = PQL!ProviderSend(st)
  BY DEF PQ!ProviderSend, PQL!ProviderSend, PQ!Offers, PQL!Offers, PQ!NoEpoch, PQL!NoEpoch
<1>7. \A st, msg : PQ!ProviderReceive(st, msg) = PQL!ProviderReceive(st, msg)
  BY DEF PQ!ProviderReceive, PQL!ProviderReceive, PQ!LaterOf, PQL!LaterOf,
         PQ!EarlierOf, PQL!EarlierOf, PQ!NoEpoch, PQL!NoEpoch
<1>8. /\ \A err, s, hdr, key : PQ!Outcome(err, s, hdr, key) = PQL!Outcome(err, s, hdr, key)
      /\ \A err, s : PQ!Failure(err, s) = PQL!Failure(err, s)
      /\ PQ!BadMsg = PQL!BadMsg /\ \A msg : PQ!Understands(msg) <=> PQL!Understands(msg)
  BY DEF PQ!Outcome, PQL!Outcome, PQ!Failure, PQL!Failure, PQ!BadMsg, PQL!BadMsg,
         PQ!Understands, PQL!Understands
<1>9. /\ \A chain, k : PQ!ChainAt(chain, k) = PQL!ChainAt(chain, k)
      /\ \A chain : PQ!MessageKeyOf(chain) = PQL!MessageKeyOf(chain)
  BY DEF PQ!ChainAt, PQL!ChainAt, PQ!MessageKeyOf, PQL!MessageKeyOf
<1>10. /\ \A s, e : PQ!DropSendChainBefore(s, e) = PQL!DropSendChainBefore(s, e)
       /\ \A s, e : PQ!CanSendIn(s, e) <=> PQL!CanSendIn(s, e)
       /\ \A s, e : PQ!StepSendChain(s, e) = PQL!StepSendChain(s, e)
  BY <1>9 DEF PQ!DropSendChainBefore, PQL!DropSendChainBefore, PQ!CanSendIn, PQL!CanSendIn,
              PQ!StepSendChain, PQL!StepSendChain, PQ!NoChainKey, PQL!NoChainKey
<1>11. \A s : PQ!SendKey(s) = PQL!SendKey(s)
  BY <1>5, <1>6, <1>8, <1>9, <1>10 DEF PQ!SendKey, PQL!SendKey
<1>12. /\ \A s, id : PQ!TakeSkipped(s, id) = PQL!TakeSkipped(s, id)
       /\ \A s, e, n : PQ!SkipTo(s, e, n) = PQL!SkipTo(s, e, n)
       /\ \A a, b : PQ!TooManySkipped(a, b) <=> PQL!TooManySkipped(a, b)
  <2>1. \A s, id : PQ!TakeSkipped(s, id) = PQL!TakeSkipped(s, id)
    BY <1>8 DEF PQ!TakeSkipped, PQL!TakeSkipped
  <2>2. \A s, e, n : PQ!SkipTo(s, e, n) = PQL!SkipTo(s, e, n)
    BY DEF PQ!SkipTo, PQL!SkipTo, PQ!ChainAt, PQL!ChainAt, PQ!MessageKeyOf, PQL!MessageKeyOf
  <2>3. \A a, b : PQ!TooManySkipped(a, b) <=> PQL!TooManySkipped(a, b)
    BY DEF PQ!TooManySkipped, PQL!TooManySkipped
  <2> QED
    BY <2>1, <2>2, <2>3
<1>13. \A s, e, n : PQ!ReceiveOnChain(s, e, n) = PQL!ReceiveOnChain(s, e, n)
  BY <1>8, <1>9, <1>12 DEF PQ!ReceiveOnChain, PQL!ReceiveOnChain
<1>14. \A s, hdr : PQ!ReceiveKey(s, hdr) = PQL!ReceiveKey(s, hdr)
  BY <1>5, <1>7, <1>8, <1>12, <1>13 DEF PQ!ReceiveKey, PQL!ReceiveKey
<1> QED
  BY <1>2, <1>11, <1>14

(* There are two parties, each the peer of the other.                      *)
LEMMA Parties ==
  \A p \in Party : /\ Peer(p) \in Party /\ Peer(p) # p /\ Peer(Peer(p)) = p
                   /\ \A x \in Party : x = p \/ x = Peer(p)
BY PartyAssumption DEF Party, Peer

(* A root names one epoch.                                                 *)
LEMMA NamedOnce ==
  ASSUME NEW root, NEW e \in Nat, NEW f \in Nat, Named(root, e), Named(root, f)
  PROVE  e = f
BY DEF Named, PQL!InitialRootKey, PQL!DeriveRoot, PQL!OutputKey

(* Roots stay named when a session moves to the next epoch or drops old    *)
(* ones.                                                                   *)
LEMMA RootsStayNamed ==
  ASSUME NEW s, NEW t, s.epoch \in Nat, PQL!EpochsMoved(s, t),
         \A e \in DOMAIN s.kdfChains : Named(PQL!RootIn(s, e), e)
  PROVE  \A e \in DOMAIN t.kdfChains : Named(PQL!RootIn(t, e), e)
<1> SUFFICES ASSUME NEW x \in DOMAIN t.kdfChains PROVE Named(PQL!RootIn(t, x), x)
  OBVIOUS
<1>1. CASE x \in DOMAIN s.kdfChains
  BY <1>1 DEF PQL!EpochsMoved
<1>2. CASE x \notin DOMAIN s.kdfChains
  <2>1. x = t.epoch /\ t.epoch = s.epoch + 1
        /\ PQL!RootIn(t, t.epoch) = PQL!DeriveRoot(PQL!RootIn(s, s.epoch), PQL!OutputKey(t.epoch))
    BY <1>2 DEF PQL!EpochsMoved
  <2> QED
    BY <2>1 DEF Named
<1> QED
  BY <1>1, <1>2

-----------------------------------------------------------------------------
(* An epoch that the provider of an erased session starts opens no chain   *)
(* of a known epoch and brings no skipped key back.                        *)
LEMMA ErasedEpochStep ==
  ASSUME NEW s, PQErased(s), NEW new, NEW keyEpoch, NEW inEpoch \in Nat,
         PQL!ProviderMoved(s.scka, new, keyEpoch), inEpoch <= s.epoch
  PROVE  LET t == PQL!EpochStep([s EXCEPT !.scka = new], keyEpoch, inEpoch)
         IN  inEpoch \notin DOMAIN t.kdfChains /\ t.mkSkipped = << >>
<1> DEFINE t == PQL!EpochStep([s EXCEPT !.scka = new], keyEpoch, inEpoch)
<1>1. s.epoch \in Nat /\ PQL!SPQRShape(s)
  BY DEF PQErased, PQL!ProviderOK
<1>2. CASE keyEpoch = PQL!NoEpoch
  BY <1>2 DEF PQL!EpochStep, PQErased, PQL!SPQRShape, PQL!SPQRFields
<1>3. CASE keyEpoch # PQL!NoEpoch
  <2>1. keyEpoch = s.epoch + 1 /\ keyEpoch \in Nat \ {0}
    BY <1>1, <1>3 DEF PQL!ProviderMoved, PQErased
  <2>2. PQL!EpochStepped(s, t, new, keyEpoch, inEpoch)
    BY <1>1, <2>1, PQL!EpochStepValue, MaxSkipAssumption, BoundAssumption, PartyAssumption
  <2> HIDE DEF t
  <2>3. inEpoch \notin DOMAIN t.kdfChains
    BY <1>1, <2>1, <2>2 DEF PQL!EpochStepped, PQErased
  <2>4. t.mkSkipped = << >>
    <3>1. DOMAIN t.mkSkipped = {}
      BY <2>2 DEF PQL!EpochStepped, PQErased
    <3>2. t.mkSkipped = [id \in {x \in DOMAIN s.mkSkipped : x[1] >= inEpoch - 1} |->
                           s.mkSkipped[id]]
      BY <1>1, <1>3 DEF t, PQL!EpochStep, PQL!ClearOldEpochs, PQL!AdvanceEpoch,
                             PQL!SPQRShape, PQL!SPQRFields
    <3> QED
      BY <3>2 DEF PQErased
  <2> QED
    BY <2>3, <2>4 DEF t
<1> QED
  BY <1>2, <1>3

(* So the SPQR half of a closed session can not send,                      *)
LEMMA ErasedCannotSend ==
  ASSUME NEW s, PQErased(s)
  PROVE  PQL!SendKey(s).err # "ok"
<1> DEFINE sp == PQL!ProviderSend(s.scka)
           step == PQL!EpochStep([s EXCEPT !.scka = sp.st], sp.keyEpoch, sp.sendingEpoch)
<1>1. /\ PQL!ProviderMoved(s.scka, sp.st, sp.keyEpoch)
      /\ sp.sendingEpoch \in Nat /\ sp.sendingEpoch <= s.epoch
  BY PQL!ProviderSends, MaxSkipAssumption, BoundAssumption, PartyAssumption
     DEF PQErased, PQL!ProviderOK
<1> HIDE DEF sp
<1>2. sp.sendingEpoch \notin DOMAIN step.kdfChains
  BY <1>1, ErasedEpochStep
<1> HIDE DEF step
<1>3. ~PQL!CanSendIn(PQL!DropSendChainBefore(step, sp.sendingEpoch), sp.sendingEpoch)
  <2>1. CASE sp.sendingEpoch > 0 /\ sp.sendingEpoch - 1 \in DOMAIN step.kdfChains
    <3> DEFINE r == [step EXCEPT !.kdfChains[sp.sendingEpoch - 1].send = PQL!NoChainKey]
    <3>1. DOMAIN r.kdfChains = DOMAIN step.kdfChains \/ r.kdfChains = step.kdfChains
      OBVIOUS
    <3> QED
      BY <1>2, <2>1 DEF PQL!DropSendChainBefore, PQL!CanSendIn
  <2>2. CASE ~(sp.sendingEpoch > 0 /\ sp.sendingEpoch - 1 \in DOMAIN step.kdfChains)
    BY <1>2, <2>2 DEF PQL!DropSendChainBefore, PQL!CanSendIn
  <2> QED
    BY <2>1, <2>2
<1> QED
  BY <1>3 DEF PQL!SendKey, PQL!Failure, PQL!Outcome, sp, step

(* nor receive a message of an epoch it knows.                             *)
LEMMA ErasedCannotReceive ==
  ASSUME NEW s, PQErased(s), NEW hdr, hdr.msg.epoch \in Nat, hdr.msg.answer \in Nat,
         hdr.msg.epoch <= s.epoch
  PROVE  PQL!ReceiveKey(s, hdr).err # "ok"
<1> DEFINE rp == PQL!ProviderReceive(s.scka, hdr.msg)
           here == PQL!EpochStep([s EXCEPT !.scka = rp.st], rp.keyEpoch, rp.receivingEpoch)
<1>1. /\ PQL!ProviderMoved(s.scka, rp.st, rp.keyEpoch)
      /\ rp.receivingEpoch = hdr.msg.epoch
  BY PQL!ProviderReceives, MaxSkipAssumption, BoundAssumption, PartyAssumption DEF PQErased
<1> HIDE DEF rp
<1>2. rp.receivingEpoch \notin DOMAIN here.kdfChains /\ here.mkSkipped = << >>
  BY <1>1, ErasedEpochStep
<1> HIDE DEF here
<1>3. <<rp.receivingEpoch, hdr.n>> \notin DOMAIN here.mkSkipped
  BY <1>2
<1>4. PQL!ReceiveOnChain(here, rp.receivingEpoch, hdr.n).err # "ok"
  BY <1>2 DEF PQL!ReceiveOnChain, PQL!Failure, PQL!Outcome
<1> QED
  BY <1>3, <1>4 DEF PQL!ReceiveKey, PQL!Failure, PQL!Outcome, rp, here

-----------------------------------------------------------------------------
(* What a successful Encrypt did: each half gave a key, and both moved.    *)
EncryptedBy(s, fresh, answers, ec, pq) ==
  /\ ec.err = "ok" /\ pq.err = "ok"
  /\ EncryptKey(s, fresh, answers).s = [dr |-> ec.s, spqr |-> pq.s]
  /\ EncryptKey(s, fresh, answers).hdr = [ec |-> SentHeader(s.dr, fresh), scka |-> pq.hdr]
  /\ EncryptKey(s, fresh, answers).key = Hybrid(pq.key, ec.key)

(* EncryptKey succeeds only when both halves do.                           *)
LEMMA EncryptedBoth ==
  ASSUME NEW s, NEW fresh, NEW answers, EncryptKey(s, fresh, answers).err = "ok"
  PROVE  EncryptedBy(s, fresh, answers, RatchetSendKey(s.dr, fresh), PQL!SendKey(s.spqr))
<1>1. PQ!SendKey(s.spqr) = PQL!SendKey(s.spqr)
  BY SamePQOperators
<1> QED
  BY <1>1 DEF EncryptKey, EncryptedBy, SendKeyPQ, Outcome, PQ!Failure, PQ!Outcome

(* What a successful Decrypt did: each half gave a key, the two together   *)
(* opened the box, and both halves moved.                                  *)
DecryptedBy(s, hdr, ad, box, ec, pq) ==
  /\ ec.err = "ok" /\ pq.err = "ok" /\ hdr.scka # NilHeader
  /\ Decrypt(s, hdr, ad, box).s = [dr |-> ec.s, spqr |-> pq.s]
  /\ EC!Opens(Hybrid(pq.key, ec.key), ad, box)

(* Decrypt succeeds only when both halves do and the body opens under both *)
(* keys together.                                                          *)
LEMMA DecryptedBoth ==
  ASSUME NEW s, NEW hdr, NEW ad, NEW box, Decrypt(s, hdr, ad, box).err = "ok"
  PROVE  DecryptedBy(s, hdr, ad, box, EC!RatchetReceiveKey(s.dr, hdr.ec),
                     PQL!ReceiveKey(s.spqr, hdr.scka))
<1>1. PQ!ReceiveKey(s.spqr, hdr.scka) = PQL!ReceiveKey(s.spqr, hdr.scka)
  BY SamePQOperators
<1> QED
  BY <1>1 DEF Decrypt, DecryptedBy, Outcome

-----------------------------------------------------------------------------
(* What PQInv says of one session, open or closed.                         *)
LEMMA HalfFacts ==
  ASSUME PQInv, NEW p \in Party
  PROVE  LET s == session[p].spqr
         IN  /\ s.epoch \in Nat /\ s.scka.peer \in Nat /\ s.scka.peer <= s.epoch
             /\ s.scka.peer <= session[Peer(p)].spqr.epoch
             /\ p \notin closed => PQOpen(s, sent[p], p)
             /\ p \in closed => PQErased(s) /\ ECErased(session[p].dr)
             /\ TRShape(session[p]) /\ sent[p] \in Nat
<1>1. CASE p \in closed
  BY <1>1 DEF PQInv, TypeInv, HalvesOK, PeersKnown, PQErased, PQL!ProviderOK
<1>2. CASE p \notin closed
  BY <1>2, PQL!SessionFacts, MaxSkipAssumption, BoundAssumption, PartyAssumption
     DEF PQInv, TypeInv, HalvesOK, PeersKnown, PQOpen
<1> QED
  BY <1>1, <1>2

(* Fresh sessions have sent nothing and know the root key of epoch 0       *)
(* alone.                                                                  *)
LEMMA InitPQInv == Init => PQInv
<1> SUFFICES ASSUME Init PROVE PQInv
  OBVIOUS
<1>0. ShapeInv
  BY InitShapeInv
<1>1. ASSUME NEW dir, NEW s, s = PQL!InitSCKA(dir)
      PROVE  /\ PQL!SessionOK(s, 0) /\ s.direction = dir /\ s.scka.peer = 0 /\ s.epoch = 0
             /\ \A e \in DOMAIN s.kdfChains : Named(PQL!RootIn(s, e), e)
  <2>1. /\ PQL!SPQRShape(s) /\ s.rk = PQL!InitialRootKey /\ s.epoch = 0 /\ s.direction = dir
        /\ s.kdfChains = [e \in {0} |-> PQL!ChainPair(PQL!InitialRootKey, dir)]
        /\ s.mkSkipped = << >> /\ s.scka = PQL!InitProvider(dir = "A2B")
    BY <1>1 DEF PQL!InitSCKA, PQL!SPQRShape, PQL!SPQRFields
  <2>2. /\ DOMAIN s.kdfChains[0] = {"send", "receive"}
        /\ s.kdfChains[0].send = PQL!ChainOf(PQL!InitialRootKey, dir, 0)
        /\ s.kdfChains[0].receive = PQL!ChainOf(PQL!InitialRootKey, PQL!Opposite(dir), 0)
    BY <2>1 DEF PQL!ChainPair, PQL!KDFChain, PQL!ChainOf
  <2>3. PQL!RootIn(s, 0) = PQL!InitialRootKey /\ PQL!ReceivedIn(s, 0) = 0
    BY <2>2 DEF PQL!RootIn, PQL!ReceivedIn, PQL!ChainOf
  <2>4. PQL!ProviderOK(s.scka) /\ s.scka.peer = 0 /\ s.scka.epoch = 0
    BY <2>1 DEF PQL!InitProvider, PQL!ProviderOK
  <2>5. PQL!EpochOK(s, 0, 0)
    BY <2>1, <2>2, <2>3 DEF PQL!EpochOK
  <2>6. PQL!SessionOK(s, 0)
    BY <2>1, <2>3, <2>4, <2>5 DEF PQL!SessionOK, PQL!ChainsOK
  <2> QED
    BY <2>1, <2>3, <2>4, <2>6 DEF Named
<1>2. ASSUME NEW p \in Party
      PROVE  session[p].spqr = PQL!InitSCKA(Direction(p)) /\ sent[p] = 0 /\ accepted[p] = {}
  BY SamePQOperators DEF Init, InitInitiatorTripleRatchet, InitResponderTripleRatchet, Direction
<1>3. TypeInv
  BY <1>0 DEF Init, TypeInv, ShapeInv
<1>4. \A p \in Party : /\ PQOpen(session[p].spqr, sent[p], p)
                       /\ session[p].spqr.scka.peer = 0 /\ session[p].spqr.epoch = 0
  BY <1>1, <1>2 DEF PQOpen
<1>5. network = {} /\ closed = {}
  BY DEF Init
<1> QED
  BY <1>3, <1>4, <1>5, Parties
  DEF PQInv, HalvesOK, PeersKnown, MessagesOK, Distinct, AcceptedSpent

-----------------------------------------------------------------------------
(* Encrypt keeps the invariant: its message has the next number of the     *)
(* epoch it is sent in, under that epoch's root, and a closed session does *)
(* not get there.                                                          *)
LEMMA EncryptPQInv ==
  ASSUME PQInv, NEW p \in Party, Encrypt(p)
  PROVE  PQInv'
<1>0. PICK s, fr, a, q, ec, pq, out, b, e, n, new, num :
        /\ s = session[p] /\ fr = NextPair(p) /\ a = s.spqr /\ q = Peer(p)
        /\ ec = RatchetSendKey(s.dr, fr) /\ pq = PQL!SendKey(a)
        /\ out = EncryptKey(s, fr, TRUE) /\ b = out.s.spqr
        /\ e = s.spqr.scka.peer /\ n = out.hdr.scka.n /\ num = sent[p]
        /\ new = [from |-> p, hdr |-> out.hdr,
                  box |-> EC!Seal(out.key, BuildAD(p, Peer(p), out.hdr), num)]
  OBVIOUS
<1>1. q \in Party /\ q # p /\ Peer(q) = p /\ \A x \in Party : x = p \/ x = q
  BY <1>0, Parties
<1>2. /\ out.err = "ok" /\ session' = [session EXCEPT ![p] = out.s]
      /\ sent' = [sent EXCEPT ![p] = @ + 1] /\ network' = network \cup {new}
      /\ accepted' = accepted /\ replayed' = replayed /\ closed' = closed
  BY <1>0 DEF Encrypt
<1>3. /\ TypeInv /\ sent \in [Party -> Nat] /\ num \in Nat /\ TRShape(s)
      /\ a.epoch \in Nat /\ e \in Nat /\ e <= session[q].spqr.epoch
      /\ session[q].spqr.scka.peer <= a.epoch /\ session[q].spqr.scka.peer \in Nat
  <2>1. /\ s.spqr.epoch \in Nat /\ s.spqr.scka.peer \in Nat
        /\ s.spqr.scka.peer <= session[Peer(p)].spqr.epoch
        /\ TRShape(s) /\ sent[p] \in Nat
    BY <1>0, HalfFacts
  <2>2. /\ session[q].spqr.scka.peer \in Nat
        /\ session[q].spqr.scka.peer <= session[Peer(q)].spqr.epoch
    BY <1>1, HalfFacts
  <2>3. TypeInv /\ sent \in [Party -> Nat]
    BY DEF PQInv, TypeInv
  <2> QED
    BY <1>0, <1>1, <2>1, <2>2, <2>3
<1>4. /\ PQL!SendKey(a).err = "ok" /\ out.s = [dr |-> ec.s, spqr |-> pq.s] /\ b = pq.s
      /\ out.hdr = [ec |-> SentHeader(s.dr, fr), scka |-> pq.hdr]
      /\ out.hdr.scka = pq.hdr /\ out.key = Hybrid(pq.key, ec.key) /\ out.key.pq = pq.key
  <2>1. EncryptKey(s, fr, TRUE).err = "ok"
    BY <1>0, <1>2
  <2>2. /\ pq.err = "ok" /\ out.s = [dr |-> ec.s, spqr |-> pq.s]
        /\ out.hdr = [ec |-> SentHeader(s.dr, fr), scka |-> pq.hdr]
        /\ out.key = Hybrid(pq.key, ec.key)
    <3>1. EncryptedBy(s, fr, TRUE, RatchetSendKey(s.dr, fr), PQL!SendKey(s.spqr))
      BY <2>1, EncryptedBoth
    <3>2. EncryptedBy(s, fr, TRUE, ec, pq)
      BY <1>0, <3>1
    <3> QED
      BY <1>0, <3>2 DEF EncryptedBy
  <2>3. \A x, y : Hybrid(x, y).pq = x
    BY DEF Hybrid
  <2>4. out.hdr.scka = pq.hdr
    BY <2>2
  <2>5. b = pq.s
    <3>1. b = out.s.spqr
      BY <1>0
    <3> QED
      BY <2>2, <3>1
  <2>6. out.key.pq = pq.key
    BY <2>2, <2>3
  <2>7. PQL!SendKey(a).err = "ok"
    BY <1>0, <2>2
  <2> QED
    BY <2>2, <2>4, <2>5, <2>6, <2>7
<1>5. p \notin closed /\ PQOpen(a, num, p)
  BY <1>0, <1>4, HalfFacts, ErasedCannotSend
<1>6. /\ PQL!SessionOK(b, num + 1) /\ PQL!EpochsMoved(a, b) /\ PQL!AvailableKept(a, b)
      /\ b.scka.peer = e /\ e \in DOMAIN a.kdfChains
      /\ DOMAIN out.hdr.scka = {"msg", "n"} /\ n \in 0 .. num
      /\ DOMAIN out.hdr.scka.msg = {"epoch", "offer", "answer"} /\ out.hdr.scka.msg.epoch = e
      /\ out.hdr.scka.msg.answer \in Nat /\ out.hdr.scka.msg.answer <= b.epoch
      /\ PQL!SentIn(a, e) = n /\ PQL!SentIn(b, e) = n + 1
      /\ out.key.pq = PQL!KeyOf(PQL!RootIn(a, e), a.direction, n)
  <2>1. /\ PQL!SessionOK(pq.s, num + 1) /\ PQL!EpochsMoved(a, pq.s)
        /\ PQL!AvailableKept(a, pq.s)
        /\ pq.s.scka.peer = a.scka.peer /\ a.scka.peer \in DOMAIN a.kdfChains
        /\ pq.hdr = [msg |-> pq.hdr.msg, n |-> pq.hdr.n] /\ pq.hdr.n \in 0 .. num
        /\ pq.hdr.msg = [epoch |-> a.scka.peer, offer |-> pq.hdr.msg.offer,
                         answer |-> pq.hdr.msg.answer]
        /\ pq.hdr.msg.answer \in Nat /\ pq.hdr.msg.answer <= pq.s.epoch
        /\ PQL!SentIn(a, a.scka.peer) = pq.hdr.n
        /\ PQL!SentIn(pq.s, a.scka.peer) = pq.hdr.n + 1
        /\ pq.key = PQL!KeyOf(PQL!RootIn(a, a.scka.peer), a.direction, pq.hdr.n)
    BY <1>0, <1>3, <1>5, PQL!SendKeyFacts, MaxSkipAssumption, BoundAssumption, PartyAssumption
       DEF PQOpen
  <2>2. b = pq.s /\ out.hdr.scka = pq.hdr /\ out.key.pq = pq.key
    BY <1>4
  <2>3. e = a.scka.peer
    BY <1>0
  <2>4. /\ DOMAIN out.hdr.scka = {"msg", "n"}
        /\ DOMAIN out.hdr.scka.msg = {"epoch", "offer", "answer"}
    <3>1. pq.hdr = [msg |-> pq.hdr.msg, n |-> pq.hdr.n] => DOMAIN pq.hdr = {"msg", "n"}
      OBVIOUS
    <3>2. pq.hdr.msg = [epoch |-> a.scka.peer, offer |-> pq.hdr.msg.offer,
                        answer |-> pq.hdr.msg.answer]
          => DOMAIN pq.hdr.msg = {"epoch", "offer", "answer"} /\ pq.hdr.msg.epoch = a.scka.peer
      OBVIOUS
    <3> QED
      BY <2>1, <2>2, <3>1, <3>2
  <2>5. out.hdr.scka.msg.epoch = e /\ n = pq.hdr.n
    <3>1. pq.hdr.msg = [epoch |-> a.scka.peer, offer |-> pq.hdr.msg.offer,
                        answer |-> pq.hdr.msg.answer]
          => pq.hdr.msg.epoch = a.scka.peer
      OBVIOUS
    <3> QED
      BY <1>0, <2>1, <2>2, <2>3, <3>1
  <2> QED
    BY <2>1, <2>2, <2>3, <2>4, <2>5
<1>7. /\ session' = [x \in Party |-> session'[x]] /\ session'[p] = out.s
      /\ session'[q] = session[q] /\ out.s.spqr = b
      /\ sent' \in [Party -> Nat] /\ sent'[p] = num + 1 /\ sent'[q] = sent[q] /\ sent[q] \in Nat
  <2>1. session = [x \in Party |-> session[x]] /\ sent \in [Party -> Nat]
    BY <1>3 DEF TypeInv
  <2>2. out.s.spqr = b /\ sent[q] \in Nat
    BY <1>0, <1>1, <2>1
  <2>3. /\ session' = [x \in Party |-> session'[x]] /\ session'[p] = out.s
        /\ session'[q] = session[q]
    BY <1>1, <1>2, <2>1
  <2>4. sent' \in [Party -> Nat] /\ sent'[p] = num + 1 /\ sent'[q] = sent[q]
    BY <1>0, <1>1, <1>2, <1>3, <2>1
  <2> QED
    BY <2>2, <2>3, <2>4
<1>8. TRShape(out.s)
  BY <1>0, <1>3, EncryptKeyOutcome
<1>9. TypeInv'
  <2>1. \A x \in Party : TRShape(session'[x])
    BY <1>1, <1>3, <1>7, <1>8 DEF TypeInv
  <2>2. \A x \in Party : \A y \in accepted'[x] : y \in Nat /\ y < sent'[Peer(x)]
    BY <1>1, <1>2, <1>3, <1>7 DEF TypeInv, PQInv
  <2> QED
    BY <1>2, <1>3, <1>7, <2>1, <2>2 DEF TypeInv
<1>10. /\ a.direction = Direction(p) /\ b.direction = Direction(p)
       /\ \A x \in DOMAIN a.kdfChains : Named(PQL!RootIn(a, x), x)
  BY <1>5, <1>6 DEF PQOpen, PQL!EpochsMoved
<1>11. PQOpen(b, num + 1, p)
  <2>1. \A x \in DOMAIN b.kdfChains : Named(PQL!RootIn(b, x), x)
    BY <1>3, <1>6, <1>10, RootsStayNamed
  <2> QED
    BY <1>6, <1>10, <2>1 DEF PQOpen
<1>12. HalvesOK'
  BY <1>1, <1>2, <1>5, <1>7, <1>11 DEF HalvesOK, PQInv
<1>13. b.epoch \in Nat /\ b.epoch >= a.epoch
  BY <1>3, <1>6, PQL!SessionFacts, MaxSkipAssumption, BoundAssumption, PartyAssumption
     DEF PQL!EpochsMoved
<1>14. PeersKnown'
  <2>1. session[q].spqr.scka.peer <= b.epoch
    BY <1>3, <1>13
  <2> QED
    <3>1. \A x \in Party : x = p \/ x = q
      BY <1>1
    <3>2. Peer(p) = q /\ Peer(q) = p
      BY <1>0, <1>1
    <3>3. session'[p].spqr.scka.peer <= session'[q].spqr.epoch
      BY <1>3, <1>6, <1>7
    <3>4. session'[q].spqr.scka.peer <= session'[p].spqr.epoch
      BY <1>7, <2>1
    <3> QED
      BY <3>1, <3>2, <3>3, <3>4 DEF PeersKnown
<1>15. /\ new.from = p /\ new.hdr = out.hdr /\ EpochOf(new) = e /\ new.hdr.scka.n = n
       /\ new.box.text = num /\ new.box.key = out.key
  BY <1>0, <1>6 DEF EpochOf, EC!Seal
<1>16. WellFormed(new)
  <2>1. DOMAIN new = {"from", "hdr", "box"} /\ DOMAIN new.box = {"key", "ad", "text"}
        /\ new.box.ad = BuildAD(p, q, new.hdr)
    BY <1>0 DEF EC!Seal
  <2> QED
    <3>1. Peer(p) = q /\ p \in Party /\ new.hdr.scka = out.hdr.scka /\ n \in Nat
      <4>1. n \in Nat
        BY <1>3, <1>6
      <4>2. Peer(p) = q /\ new.hdr.scka = out.hdr.scka
        BY <1>0, <1>15
      <4> QED
        BY <4>1, <4>2
    <3> QED
      BY <1>3, <1>6, <1>15, <2>1, <3>1 DEF WellFormed
<1>17. KeyNamed(new)
  <2>1. Named(PQL!RootIn(a, e), e) /\ out.key.pq = PQL!KeyOf(PQL!RootIn(a, e), Direction(p), n)
    BY <1>6, <1>10
  <2> QED
    BY <1>15, <2>1 DEF KeyNamed
<1>18. SentBefore(new)'
  <2>1. num < num + 1 /\ n < n + 1 /\ e <= b.scka.peer
    BY <1>3, <1>6
  <2> QED
    BY <1>6, <1>7, <1>15, <2>1 DEF SentBefore, EpochOf
<1>19. ASSUME NEW m \in network PROVE WellFormed(m) /\ SentBefore(m)' /\ KeyNamed(m)
  <2>1. WellFormed(m) /\ SentBefore(m) /\ KeyNamed(m) /\ m.from \in Party
    BY DEF PQInv, MessagesOK, WellFormed
  <2>2. CASE m.from = q
    BY <1>1, <1>2, <1>7, <2>1, <2>2 DEF SentBefore, EpochOf
  <2>3. CASE m.from = p
    <3>1. /\ m.box.text < num /\ EpochOf(m) <= e /\ m.hdr.scka.msg.answer <= a.epoch
          /\ EpochOf(m) = e => m.hdr.scka.n < n
      BY <1>0, <1>5, <1>6, <2>1, <2>3 DEF SentBefore
    <3>2. m.hdr.scka.n \in Nat /\ m.box.text \in Nat /\ m.hdr.scka.msg.answer \in Nat
      BY <2>1 DEF WellFormed
    <3>3. /\ m.box.text < num + 1 /\ m.hdr.scka.msg.answer <= b.epoch
          /\ EpochOf(m) = e => m.hdr.scka.n < n + 1
      BY <1>3, <1>6, <1>13, <3>1, <3>2
    <3> QED
      BY <1>6, <1>7, <2>1, <2>3, <3>1, <3>3 DEF SentBefore, EpochOf
  <2> QED
    BY <1>1, <2>1, <2>2, <2>3
<1>20. MessagesOK'
  BY <1>2, <1>16, <1>17, <1>18, <1>19 DEF MessagesOK, WellFormed, KeyNamed, EpochOf
<1>21. Distinct'
  <2>1. ASSUME NEW m \in network, m.from = p
        PROVE  m.box.text # num /\ ~(EpochOf(m) = e /\ m.hdr.scka.n = n)
    <3>1. WellFormed(m) /\ SentBefore(m)
      BY DEF PQInv, MessagesOK
    <3>2. /\ m.box.text \in Nat /\ m.box.text < num /\ m.hdr.scka.n \in Nat
          /\ EpochOf(m) = e => m.hdr.scka.n < n
      <4>1. sent[p] = num /\ session[p].spqr = a /\ a.scka.peer = e
        BY <1>0
      <4> QED
        BY <1>5, <1>6, <2>1, <3>1, <4>1 DEF WellFormed, SentBefore
    <3> QED
      BY <1>3, <1>6, <3>2
  <2>2. Distinct
    BY DEF PQInv
  <2> QED
    BY <1>2, <1>15, <2>1, <2>2 DEF Distinct, EpochOf
<1>22. AcceptedSpent'
  <2> SUFFICES ASSUME NEW m \in network', Peer(m.from) \notin closed,
                      m.box.text \in accepted[Peer(m.from)]
               PROVE  ~PQL!Available(session'[Peer(m.from)].spqr, EpochOf(m), m.hdr.scka.n)
    BY <1>2 DEF AcceptedSpent, EpochOf
  <2>1. CASE m = new
    <3>1. num \notin accepted[q]
      BY <1>0, <1>1, <1>3 DEF TypeInv
    <3> QED
      BY <1>0, <1>15, <2>1, <3>1
  <2>2. CASE m \in network
    <3>1. ~PQL!Available(session[Peer(m.from)].spqr, EpochOf(m), m.hdr.scka.n)
      BY <2>2 DEF PQInv, AcceptedSpent
    <3>2. WellFormed(m) /\ SentBefore(m) /\ m.from \in Party
      BY <2>2 DEF PQInv, MessagesOK, WellFormed
    <3>3. CASE m.from = p
      <4>1. session'[q] = session[q] /\ Peer(m.from) = q
        BY <1>0, <1>7, <3>3
      <4> QED
        BY <3>1, <4>1
    <3>4. CASE m.from = q
      <4>1. EpochOf(m) \in Nat /\ EpochOf(m) <= a.epoch /\ m.hdr.scka.n \in Nat
        <5>1. /\ EpochOf(m) \in Nat /\ EpochOf(m) <= session[q].spqr.scka.peer
              /\ m.hdr.scka.n \in Nat
          BY <3>2, <3>4 DEF SentBefore, WellFormed
        <5> QED
          BY <1>3, <5>1
      <4>2. EpochOf(m) \in DOMAIN b.kdfChains => EpochOf(m) \in DOMAIN a.kdfChains
        BY <1>3, <1>6, <4>1 DEF PQL!EpochsMoved
      <4>3. ~PQL!Available(b, EpochOf(m), m.hdr.scka.n)
        <5>1. ~PQL!Available(a, EpochOf(m), m.hdr.scka.n)
          BY <1>0, <1>1, <3>1, <3>4
        <5> QED
          BY <1>6, <4>1, <4>2, <5>1 DEF PQL!AvailableKept, PQL!Available
      <4> QED
        BY <1>1, <1>7, <3>4, <4>3
    <3> QED
      BY <1>1, <3>2, <3>3, <3>4
  <2> QED
    BY <1>2, <2>1, <2>2
<1> QED
  BY <1>9, <1>12, <1>14, <1>20, <1>21, <1>22 DEF PQInv

-----------------------------------------------------------------------------
(* No damage to a message changes the associated data or the text of its   *)
(* box: what is damaged is the headers next to it and the key.             *)
LEMMA ArrivalBody ==
  ASSUME NEW m, WellFormed(m), NEW a \in Arrivals(m)
  PROVE  a.box.ad = m.box.ad /\ a.box.text = m.box.text
BY DEF Arrivals, Intact, DamagedEC, DamagedSCKA, DamagedBody, Recombined, WellFormed

(* So a box opens only next to the two headers it was sealed with,         *)
(* whatever headers arrive with it.                                        *)
LEMMA OpensOwnHeader ==
  ASSUME PQInv, NEW p \in Party, NEW m \in network, m.from = Peer(p), NEW a \in Arrivals(m),
         DecryptArrival(p, a).err = "ok"
  PROVE  a.hdr = m.hdr /\ a.box.text = m.box.text
<1>1. WellFormed(m)
  BY DEF PQInv, MessagesOK
<1>2. a.box.ad = m.box.ad /\ a.box.text = m.box.text
  BY <1>1, ArrivalBody
<1>3. a.box.ad = BuildAD(Peer(p), p, a.hdr)
  <2>1. Decrypt(session[p], a.hdr, BuildAD(Peer(p), p, a.hdr), a.box).err = "ok"
    BY DEF DecryptArrival
  <2>2. \E key : EC!Opens(key, BuildAD(Peer(p), p, a.hdr), a.box)
    <3>1. DecryptedBy(session[p], a.hdr, BuildAD(Peer(p), p, a.hdr), a.box,
                      EC!RatchetReceiveKey(session[p].dr, a.hdr.ec),
                      PQL!ReceiveKey(session[p].spqr, a.hdr.scka))
      BY <2>1, DecryptedBoth
    <3>2. EC!Opens(Hybrid(PQL!ReceiveKey(session[p].spqr, a.hdr.scka).key,
                          EC!RatchetReceiveKey(session[p].dr, a.hdr.ec).key),
                   BuildAD(Peer(p), p, a.hdr), a.box)
      BY <3>1 DEF DecryptedBy
    <3> QED
      BY <3>2
  <2> QED
    BY <2>2 DEF EC!Opens
<1>4. m.box.ad = BuildAD(Peer(p), p, m.hdr)
  BY <1>1, Parties DEF WellFormed
<1>5. \A x, y, h, k : BuildAD(x, y, h) = BuildAD(x, y, k) => h = k
  BY DEF BuildAD
<1>6. BuildAD(Peer(p), p, a.hdr) = BuildAD(Peer(p), p, m.hdr)
  BY <1>2, <1>3, <1>4
<1>7. a.hdr = m.hdr
  BY <1>5, <1>6
<1> QED
  BY <1>2, <1>7

(* A provider understands the header of a message that was sent.           *)
LEMMA UnderstandsWellFormed ==
  ASSUME NEW m, WellFormed(m)
  PROVE  PQL!Understands(m.hdr.scka.msg)
<1>1. DOMAIN m.hdr.scka.msg # DOMAIN PQL!BadMsg
  BY DEF WellFormed, PQL!BadMsg
<1> QED
  BY <1>1 DEF PQL!Understands

(* What an accepted message did to the SPQR half of the session that took  *)
(* it: the key of its epoch and number was available and is not any more.  *)
Took(p, m, s, t) ==
  /\ p \notin closed /\ PQOpen(t, sent[p], p)
  /\ PQL!EpochsMoved(s, t) /\ PQL!SendingKept(s, t)
  /\ t.scka.peer \in {s.scka.peer, EpochOf(m), m.hdr.scka.msg.answer}
  /\ PQL!Available(s, EpochOf(m), m.hdr.scka.n) /\ PQL!TookOne(s, t, EpochOf(m), m.hdr.scka.n)

(* Decrypt accepts a message only while its SPQR key is available, and     *)
(* takes that key.                                                         *)
LEMMA AcceptTakes ==
  ASSUME PQInv, NEW p \in Party, NEW m \in network, m.from = Peer(p), NEW a \in Arrivals(m),
         DecryptArrival(p, a).err = "ok"
  PROVE  Took(p, m, session[p].spqr, DecryptArrival(p, a).s.spqr)
<1>1. PICK s, hdr, q, pq, out, num :
        /\ s = session[p].spqr /\ hdr = m.hdr.scka /\ q = Peer(p) /\ pq = PQL!ReceiveKey(s, hdr)
        /\ out = DecryptArrival(p, a) /\ num = sent[p]
  OBVIOUS
<1>2. a.hdr = m.hdr /\ a.box.text = m.box.text
  BY OpensOwnHeader
<1>3. WellFormed(m) /\ SentBefore(m) /\ PQL!Understands(hdr.msg)
  BY <1>1, UnderstandsWellFormed DEF PQInv, MessagesOK
<1>4. /\ hdr.msg.epoch = EpochOf(m) /\ hdr.msg.epoch \in Nat
      /\ hdr.msg.answer \in Nat /\ hdr.n \in Nat
  BY <1>1, <1>3 DEF WellFormed, EpochOf
<1>5. q \in Party /\ Peer(q) = p
  BY <1>1, Parties
<1>6. hdr.msg.epoch <= s.epoch /\ s.epoch \in Nat /\ num \in Nat
  <2>1. session[q].spqr.scka.peer \in Nat /\ session[q].spqr.scka.peer <= session[p].spqr.epoch
    BY <1>5, HalfFacts
  <2>2. EpochOf(m) <= session[q].spqr.scka.peer
    BY <1>1, <1>3 DEF SentBefore
  <2>3. session[p].spqr.epoch \in Nat /\ sent[p] \in Nat
    BY HalfFacts
  <2> QED
    BY <1>1, <1>4, <2>1, <2>2, <2>3
<1>7. pq.err = "ok" /\ out.s.spqr = pq.s
  <2>1. /\ PQL!ReceiveKey(session[p].spqr, a.hdr.scka).err = "ok"
        /\ DecryptArrival(p, a).s =
             [dr |-> EC!RatchetReceiveKey(session[p].dr, a.hdr.ec).s,
              spqr |-> PQL!ReceiveKey(session[p].spqr, a.hdr.scka).s]
    <3>1. /\ Decrypt(session[p], a.hdr, BuildAD(Peer(p), p, a.hdr), a.box).err = "ok"
          /\ DecryptArrival(p, a) = Decrypt(session[p], a.hdr, BuildAD(Peer(p), p, a.hdr), a.box)
      BY DEF DecryptArrival
    <3>2. /\ PQL!ReceiveKey(session[p].spqr, a.hdr.scka).err = "ok"
          /\ Decrypt(session[p], a.hdr, BuildAD(Peer(p), p, a.hdr), a.box).s =
               [dr |-> EC!RatchetReceiveKey(session[p].dr, a.hdr.ec).s,
                spqr |-> PQL!ReceiveKey(session[p].spqr, a.hdr.scka).s]
      BY <3>1, DecryptedBoth DEF DecryptedBy
    <3> QED
      BY <3>1, <3>2
  <2>2. a.hdr.scka = hdr
    BY <1>1, <1>2
  <2>3. PQL!ReceiveKey(session[p].spqr, a.hdr.scka) = pq
    BY <1>1, <2>2
  <2>4. /\ pq.err = "ok"
        /\ out.s = [dr |-> EC!RatchetReceiveKey(session[p].dr, a.hdr.ec).s, spqr |-> pq.s]
    BY <1>1, <2>1, <2>3
  <2> QED
    BY <2>4
<1>8. p \notin closed /\ PQOpen(s, num, p)
  <2>1. p \in closed => PQErased(s)
    BY <1>1, HalfFacts
  <2>2. p \notin closed => PQOpen(s, num, p)
    BY <1>1, HalfFacts
  <2>3. ~PQErased(s)
    BY <1>1, <1>4, <1>6, <1>7, ErasedCannotReceive
  <2> QED
    BY <2>1, <2>2, <2>3
<1>9. PQL!Received(s, num, hdr, pq)
  BY <1>1, <1>3, <1>4, <1>6, <1>8, PQL!ReceiveKeyFacts, MaxSkipAssumption,
     BoundAssumption, PartyAssumption DEF PQOpen
<1>10. /\ PQL!SessionOK(pq.s, num) /\ PQL!EpochsMoved(s, pq.s) /\ PQL!SendingKept(s, pq.s)
       /\ pq.s.scka.peer \in {s.scka.peer, hdr.msg.epoch, hdr.msg.answer}
       /\ PQL!Available(s, hdr.msg.epoch, hdr.n) /\ PQL!TookOne(s, pq.s, hdr.msg.epoch, hdr.n)
  BY <1>7, <1>9 DEF PQL!Received
<1>11. PQOpen(pq.s, num, p)
  <2>1. s.direction = Direction(p) /\ pq.s.direction = s.direction
    BY <1>8, <1>10 DEF PQOpen, PQL!EpochsMoved
  <2>2. \A e \in DOMAIN pq.s.kdfChains : Named(PQL!RootIn(pq.s, e), e)
    BY <1>6, <1>8, <1>10, RootsStayNamed DEF PQOpen
  <2> QED
    BY <1>10, <2>1, <2>2 DEF PQOpen
<1> QED
  BY <1>1, <1>4, <1>7, <1>8, <1>10, <1>11 DEF Took

(* Decrypt keeps the invariant when it returns a message: the message was  *)
(* not accepted before, for its SPQR key was available, and it is spent    *)
(* now.                                                                    *)
LEMMA AcceptPQInv ==
  ASSUME PQInv, NEW p \in Party, DecryptAccepts(p)
  PROVE  PQInv'
<1>1. PICK m, c, s, t, q, e, n, num, text :
        /\ m \in network /\ c \in Arrivals(m) /\ m.from = Peer(p)
        /\ DecryptArrival(p, c).err = "ok"
        /\ session' = [session EXCEPT ![p] = DecryptArrival(p, c).s]
        /\ accepted' = [accepted EXCEPT ![p] = @ \cup {c.box.text}]
        /\ replayed' = [replayed EXCEPT ![p] = @ \cup ({c.box.text} \cap accepted[p])]
        /\ generated' = generated /\ sent' = sent /\ network' = network /\ closed' = closed
        /\ s = session[p].spqr /\ t = DecryptArrival(p, c).s.spqr
        /\ q = Peer(p) /\ e = EpochOf(m) /\ n = m.hdr.scka.n
        /\ num = sent[p] /\ text = c.box.text
  BY DEF DecryptAccepts
<1>2. q \in Party /\ q # p /\ Peer(q) = p /\ Peer(p) = q /\ \A x \in Party : x = p \/ x = q
  BY <1>1, Parties
<1>3. text = m.box.text /\ c.hdr = m.hdr
  BY <1>1, OpensOwnHeader
<1>4. Took(p, m, s, t)
  BY <1>1, AcceptTakes
<1>5. /\ p \notin closed /\ PQOpen(t, num, p)
      /\ PQL!EpochsMoved(s, t) /\ PQL!SendingKept(s, t)
      /\ t.scka.peer \in {s.scka.peer, e, m.hdr.scka.msg.answer}
      /\ PQL!Available(s, e, n) /\ PQL!TookOne(s, t, e, n)
  BY <1>1, <1>4 DEF Took
<1>6. WellFormed(m) /\ SentBefore(m) /\ e \in Nat /\ n \in Nat /\ text \in Nat
  BY <1>1, <1>3 DEF PQInv, MessagesOK, WellFormed, EpochOf
<1>7. /\ s.epoch \in Nat /\ s.scka.peer \in Nat /\ s.scka.peer <= s.epoch
      /\ s.scka.peer <= session[q].spqr.epoch /\ TRShape(session[p]) /\ num \in Nat
  BY <1>1, HalfFacts
<1>8. /\ session[q].spqr.epoch \in Nat /\ session[q].spqr.scka.peer \in Nat
      /\ session[q].spqr.scka.peer <= session[q].spqr.epoch
      /\ session[q].spqr.scka.peer <= s.epoch /\ sent[q] \in Nat
  <2>1. session[Peer(q)].spqr = s
    BY <1>1, <1>2
  <2> QED
    BY <1>2, <2>1, HalfFacts
<1>9. t.epoch \in Nat /\ t.scka.peer \in Nat /\ t.scka.peer <= t.epoch /\ t.epoch >= s.epoch
  <2>1. PQL!SessionOK(t, num)
    BY <1>5 DEF PQOpen
  <2>2. t.epoch \in Nat /\ t.scka.peer \in Nat /\ t.scka.peer <= t.epoch
    BY <2>1, PQL!SessionFacts, MaxSkipAssumption, BoundAssumption, PartyAssumption
  <2> QED
    BY <1>5, <1>7, <2>2 DEF PQL!EpochsMoved
<1>10. text \notin accepted[p]
  <2>1. Peer(m.from) = p
    BY <1>1, <1>2
  <2> QED
    BY <1>1, <1>3, <1>5, <2>1 DEF PQInv, AcceptedSpent
<1>11. /\ session' = [x \in Party |-> session'[x]] /\ session'[p] = DecryptArrival(p, c).s
       /\ session'[q] = session[q]
  <2>1. session = [x \in Party |-> session[x]]
    BY DEF PQInv, TypeInv
  <2> QED
    BY <1>1, <1>2, <2>1
<1>12. /\ accepted' = [x \in Party |-> accepted'[x]] /\ accepted'[p] = accepted[p] \cup {text}
       /\ accepted'[q] = accepted[q]
  <2>1. accepted = [x \in Party |-> accepted[x]]
    BY DEF PQInv, TypeInv
  <2> QED
    BY <1>1, <1>2, <2>1
<1>13. replayed' = [x \in Party |-> {}]
  <2>1. replayed = [x \in Party |-> {}]
    BY DEF PQInv, TypeInv
  <2>2. {c.box.text} \cap accepted[p] = {}
    BY <1>1, <1>10
  <2> QED
    BY <1>1, <2>1, <2>2
<1>14. session'[p].spqr = t
  BY <1>1, <1>11
<1>15. text < sent[q]
  BY <1>1, <1>3, <1>6 DEF SentBefore
<1>16. TypeInv'
  <2>1. TRShape(DecryptArrival(p, c).s)
    BY <1>7, DecryptOutcome DEF DecryptArrival
  <2>2. \A x \in Party : TRShape(session'[x])
    <3>1. TRShape(session[q])
      BY <1>2 DEF PQInv, TypeInv
    <3> QED
      BY <1>2, <1>11, <2>1, <3>1
  <2>3. \A x \in Party : \A y \in accepted'[x] : y \in Nat /\ y < sent'[Peer(x)]
    <3>1. \A x \in Party : \A y \in accepted[x] : y \in Nat /\ y < sent[Peer(x)]
      BY DEF PQInv, TypeInv
    <3> QED
      BY <1>1, <1>2, <1>6, <1>12, <1>15, <3>1
  <2> QED
    BY <1>1, <1>11, <1>12, <1>13, <2>2, <2>3 DEF PQInv, TypeInv
<1>17. HalvesOK'
  <2>1. ASSUME NEW x \in Party
        PROVE  IF x \in closed THEN PQErased(session'[x].spqr) /\ ECErased(session'[x].dr)
               ELSE PQOpen(session'[x].spqr, sent[x], x)
    <3>1. CASE x = p
      BY <1>1, <1>5, <1>14, <3>1
    <3>2. CASE x = q
      BY <1>2, <1>11, <3>2 DEF PQInv, HalvesOK
    <3> QED
      BY <1>2, <3>1, <3>2
  <2> QED
    BY <1>1, <2>1 DEF HalvesOK
<1>18. PeersKnown'
  <2>1. m.hdr.scka.msg.answer <= session[q].spqr.epoch /\ e <= session[q].spqr.epoch
    <3>1. e <= session[q].spqr.scka.peer /\ m.hdr.scka.msg.answer <= session[q].spqr.epoch
      BY <1>1, <1>6 DEF SentBefore
    <3> QED
      BY <1>6, <1>8, <3>1
  <2>2. t.scka.peer <= session[q].spqr.epoch
    BY <1>5, <1>7, <2>1
  <2>3. session[q].spqr.scka.peer <= t.epoch
    BY <1>7, <1>8, <1>9
  <2> QED
    BY <1>2, <1>11, <1>14, <2>2, <2>3 DEF PeersKnown
<1>19. MessagesOK'
  <2>1. ASSUME NEW x \in network PROVE SentBefore(x)'
    <3>1. WellFormed(x) /\ SentBefore(x) /\ x.from \in Party
      BY DEF PQInv, MessagesOK, WellFormed
    <3>2. CASE x.from = q
      BY <1>1, <1>11, <3>1, <3>2 DEF SentBefore, EpochOf
    <3>3. CASE x.from = p
      <4>1. /\ x.box.text < num /\ EpochOf(x) <= s.scka.peer /\ x.hdr.scka.msg.answer <= s.epoch
            /\ EpochOf(x) = s.scka.peer => x.hdr.scka.n < PQL!SentIn(s, EpochOf(x))
        BY <1>1, <1>5, <3>1, <3>3 DEF SentBefore
      <4>2. EpochOf(x) \in Nat /\ x.hdr.scka.msg.answer \in Nat
        BY <3>1 DEF WellFormed
      <4>3. EpochOf(x) <= t.scka.peer /\ x.hdr.scka.msg.answer <= t.epoch
        BY <1>5, <1>7, <1>9, <4>1, <4>2 DEF PQL!SendingKept
      <4>4. ASSUME EpochOf(x) = t.scka.peer
            PROVE  x.hdr.scka.n < PQL!SentIn(t, EpochOf(x))
        <5>1. t.scka.peer = s.scka.peer
          BY <1>5, <1>7, <1>9, <4>1, <4>4 DEF PQL!SendingKept
        <5> QED
          BY <1>5, <4>1, <4>4, <5>1 DEF PQL!SendingKept
      <4>5. SentBefore(x)' <=>
              /\ x.box.text < sent'[p] /\ EpochOf(x) <= t.scka.peer
              /\ x.hdr.scka.msg.answer <= t.epoch
              /\ p \notin closed' /\ EpochOf(x) = t.scka.peer =>
                   x.hdr.scka.n < PQL!SentIn(t, EpochOf(x))
        BY <1>14, <3>3 DEF SentBefore, EpochOf
      <4> QED
        BY <1>1, <4>1, <4>3, <4>4, <4>5
    <3> QED
      BY <1>2, <3>1, <3>2, <3>3
  <2>2. \A x \in network : WellFormed(x) /\ KeyNamed(x)
    BY DEF PQInv, MessagesOK
  <2> QED
    BY <1>1, <2>1, <2>2 DEF MessagesOK, WellFormed, KeyNamed, EpochOf
<1>20. Distinct'
  BY <1>1 DEF PQInv, Distinct, EpochOf
<1>21. AcceptedSpent'
  <2> SUFFICES ASSUME NEW x \in network, Peer(x.from) \notin closed,
                      x.box.text \in accepted'[Peer(x.from)]
               PROVE  ~PQL!Available(session'[Peer(x.from)].spqr, EpochOf(x), x.hdr.scka.n)
    BY <1>1 DEF AcceptedSpent, EpochOf
  <2>1. /\ WellFormed(x) /\ SentBefore(x) /\ x.from \in Party
        /\ EpochOf(x) \in Nat /\ x.hdr.scka.n \in Nat
    BY DEF PQInv, MessagesOK, WellFormed
  <2>2. CASE x.from = p
    <3>1. ~PQL!Available(session[q].spqr, EpochOf(x), x.hdr.scka.n)
      BY <1>2, <1>12, <2>2 DEF PQInv, AcceptedSpent
    <3> QED
      BY <1>2, <1>11, <2>2, <3>1
  <2>3. CASE x.from = q
    <3>1. Peer(x.from) = p /\ x.from = m.from
      BY <1>1, <1>2, <2>3
    <3>2. CASE x.box.text = text
      <4>1. x = m
        <5>1. m \in network /\ x.from = m.from /\ x.box.text = m.box.text /\ Distinct
          BY <1>1, <1>3, <3>1, <3>2 DEF PQInv
        <5> QED
          BY <5>1 DEF Distinct
      <4>2. ~PQL!Available(t, e, n)
        BY <1>5, <1>6 DEF PQL!TookOne, PQL!Available
      <4> QED
        BY <1>1, <1>14, <3>1, <4>1, <4>2
    <3>3. CASE x.box.text # text
      <4>1. x.box.text \in accepted[p]
        BY <1>12, <3>1, <3>3
      <4>2. ~PQL!Available(s, EpochOf(x), x.hdr.scka.n)
        BY <1>1, <1>5, <3>1, <4>1 DEF PQInv, AcceptedSpent
      <4>3. EpochOf(x) <= s.epoch
        <5>1. EpochOf(x) <= session[q].spqr.scka.peer
          BY <2>1, <2>3 DEF SentBefore
        <5> QED
          BY <1>7, <1>8, <2>1, <5>1
      <4>4. EpochOf(x) \in DOMAIN t.kdfChains => EpochOf(x) \in DOMAIN s.kdfChains
        BY <1>5, <1>7, <2>1, <4>3 DEF PQL!EpochsMoved
      <4>5. ~PQL!Available(t, EpochOf(x), x.hdr.scka.n)
        BY <1>5, <2>1, <4>2, <4>4 DEF PQL!TookOne, PQL!Available
      <4> QED
        BY <1>14, <3>1, <4>5
    <3> QED
      BY <3>2, <3>3
  <2> QED
    BY <1>2, <2>1, <2>2, <2>3
<1> QED
  BY <1>16, <1>17, <1>18, <1>19, <1>20, <1>21 DEF PQInv

-----------------------------------------------------------------------------
(* Close erases both halves; the provider stays where it was.              *)
LEMMA ClosedBoth ==
  ASSUME NEW s, TRShape(s), PQL!ProviderOK(s.spqr.scka), s.spqr.epoch = s.spqr.scka.epoch
  PROVE  LET t == CloseBoth(s)
         IN  /\ PQErased(t.spqr) /\ ECErased(t.dr) /\ TRShape(t)
             /\ t.spqr.scka = s.spqr.scka /\ t.spqr.epoch = s.spqr.epoch
<1>1. /\ CloseBoth(s).spqr = PQ!Close(s.spqr) /\ CloseBoth(s).dr = EC!Close(s.dr)
      /\ PQShape(s.spqr) /\ ECShape(s.dr)
  BY DEF CloseBoth, TRShape
<1>2. /\ PQ!Close(s.spqr).scka = s.spqr.scka /\ PQ!Close(s.spqr).epoch = s.spqr.epoch
      /\ PQ!Close(s.spqr).rk = PQ!ZeroRootKey /\ PQ!Close(s.spqr).kdfChains = << >>
      /\ PQ!Close(s.spqr).mkSkipped = << >> /\ PQL!SPQRShape(PQ!Close(s.spqr))
  BY <1>1 DEF PQ!Close, PQShape, PQFields, PQL!SPQRShape, PQL!SPQRFields
<1>3. ECErased(EC!Close(s.dr))
  BY <1>1 DEF EC!Close, ECShape, EC!SessionFields, ECErased
<1>4. TRShape(CloseBoth(s))
  BY CloseBothShape
<1> QED
  BY <1>1, <1>2, <1>3, <1>4 DEF PQErased

(* A session that is closed has both halves erased, and no peer depends on *)
(* it.                                                                     *)
LEMMA ClosePQInv ==
  ASSUME PQInv, NEW p \in Party, CloseSession(p)
  PROVE  PQInv'
<1>1. PICK s, t, q :
        /\ s = session[p] /\ t = CloseBoth(s) /\ q = Peer(p)
        /\ session' = [session EXCEPT ![p] = t] /\ closed' = closed \cup {p}
        /\ sent' = sent /\ network' = network /\ accepted' = accepted /\ replayed' = replayed
        /\ p \notin closed
  BY DEF CloseSession
<1>2. q \in Party /\ q # p /\ Peer(q) = p /\ Peer(p) = q /\ \A x \in Party : x = p \/ x = q
  BY <1>1, Parties
<1>3. TRShape(s) /\ PQL!ProviderOK(s.spqr.scka) /\ s.spqr.epoch = s.spqr.scka.epoch
  <2>1. TRShape(s) /\ PQOpen(s.spqr, sent[p], p)
    BY <1>1, HalfFacts
  <2>2. PQL!SessionOK(s.spqr, sent[p])
    BY <2>1 DEF PQOpen
  <2> QED
    BY <2>1, <2>2, PQL!SessionFacts, MaxSkipAssumption, BoundAssumption, PartyAssumption
<1>4. /\ PQErased(t.spqr) /\ ECErased(t.dr) /\ TRShape(t)
      /\ t.spqr.scka = s.spqr.scka /\ t.spqr.epoch = s.spqr.epoch
  BY <1>1, <1>3, ClosedBoth
<1>5. session' = [x \in Party |-> session'[x]] /\ session'[p] = t /\ session'[q] = session[q]
  <2>1. session = [x \in Party |-> session[x]]
    BY DEF PQInv, TypeInv
  <2> QED
    BY <1>1, <1>2, <2>1
<1>6. TypeInv'
  <2>1. \A x \in Party : TRShape(session'[x])
    BY <1>2, <1>4, <1>5 DEF PQInv, TypeInv
  <2> QED
    BY <1>1, <1>5, <2>1 DEF PQInv, TypeInv
<1>7. HalvesOK'
  <2>1. ASSUME NEW x \in Party
        PROVE  IF x \in closed' THEN PQErased(session'[x].spqr) /\ ECErased(session'[x].dr)
               ELSE PQOpen(session'[x].spqr, sent[x], x)
    <3>1. CASE x = p
      BY <1>1, <1>4, <1>5, <3>1
    <3>2. CASE x = q
      <4>1. x \in closed' <=> x \in closed
        BY <1>1, <1>2, <3>2
      <4> QED
        BY <1>2, <1>5, <3>2, <4>1 DEF PQInv, HalvesOK
    <3> QED
      BY <1>2, <3>1, <3>2
  <2> QED
    BY <1>1, <2>1 DEF HalvesOK
<1>8. ASSUME NEW x \in Party
      PROVE  /\ session'[x].spqr.scka = session[x].spqr.scka
             /\ session'[x].spqr.epoch = session[x].spqr.epoch
  BY <1>1, <1>2, <1>4, <1>5
<1>9. PeersKnown'
  BY <1>2, <1>8 DEF PQInv, PeersKnown
<1>10. MessagesOK'
  <2>1. ASSUME NEW m \in network PROVE SentBefore(m)'
    <3>1. WellFormed(m) /\ SentBefore(m) /\ m.from \in Party
      BY DEF PQInv, MessagesOK, WellFormed
    <3>2. CASE m.from = p
      BY <1>1, <1>4, <1>5, <3>1, <3>2 DEF SentBefore, EpochOf
    <3>3. CASE m.from = q
      BY <1>1, <1>2, <1>5, <3>1, <3>3 DEF SentBefore, EpochOf
    <3> QED
      BY <1>2, <3>1, <3>2, <3>3
  <2>2. \A x \in network : WellFormed(x) /\ KeyNamed(x)
    BY DEF PQInv, MessagesOK
  <2> QED
    BY <1>1, <2>1, <2>2 DEF MessagesOK, WellFormed, KeyNamed, EpochOf
<1>11. Distinct'
  BY <1>1 DEF PQInv, Distinct, EpochOf
<1>12. AcceptedSpent'
  <2> SUFFICES ASSUME NEW m \in network, Peer(m.from) \notin closed',
                      m.box.text \in accepted[Peer(m.from)]
               PROVE  ~PQL!Available(session'[Peer(m.from)].spqr, EpochOf(m), m.hdr.scka.n)
    BY <1>1 DEF AcceptedSpent, EpochOf
  <2>1. Peer(m.from) = q /\ q \notin closed
    <3>1. m.from \in Party
      BY DEF PQInv, MessagesOK, WellFormed
    <3> QED
      BY <1>1, <1>2, <3>1
  <2> QED
    BY <1>5, <2>1 DEF PQInv, AcceptedSpent
<1> QED
  BY <1>6, <1>7, <1>9, <1>10, <1>11, <1>12 DEF PQInv

(* Nothing depends on how many pairs were generated.                       *)
LEMMA UnchangedPQInv ==
  ASSUME PQInv, session' = session, sent' = sent, network' = network, accepted' = accepted,
         replayed' = replayed, closed' = closed
  PROVE  PQInv'
BY DEF PQInv, TypeInv, HalvesOK, PeersKnown, MessagesOK, WellFormed, SentBefore, KeyNamed,
       Distinct, AcceptedSpent, EpochOf

(* A call that returns an error changes nothing at all.                    *)
LEMMA FailureChangesNothing ==
  ASSUME PQInv, NEW p \in Party, EncryptFails(p) \/ DecryptRejects(p)
  PROVE  /\ session' = session /\ sent' = sent /\ network' = network
         /\ accepted' = accepted /\ replayed' = replayed /\ closed' = closed
         /\ generated' = generated
<1>1. TRShape(session[p]) /\ session = [x \in Party |-> session[x]]
  BY DEF PQInv, TypeInv
<1>2. CASE EncryptFails(p)
  <2>1. PICK out \in FailedEncrypts(p) : session' = [session EXCEPT ![p] = out.s]
    BY <1>2 DEF EncryptFails
  <2>2. \A fresh, answers :
          LET e == EncryptKey(session[p], fresh, answers)
          IN  e.err # "ok" => e.s = session[p]
    BY <1>1, EncryptKeyOutcome
  <2>3. out.s = session[p]
    BY <2>2 DEF FailedEncrypts
  <2>4. session' = session
    BY <1>1, <2>1, <2>3
  <2> QED
    BY <1>2, <2>4 DEF EncryptFails
<1>3. CASE DecryptRejects(p)
  <2>1. PICK c : /\ DecryptArrival(p, c).err # "ok"
                 /\ session' = [session EXCEPT ![p] = DecryptArrival(p, c).s]
    BY <1>3 DEF DecryptRejects
  <2>2. DecryptArrival(p, c).s = session[p]
    BY <1>1, <2>1, DecryptOutcome DEF DecryptArrival
  <2>3. session' = session
    BY <1>1, <2>1, <2>2
  <2> QED
    BY <1>3, <2>3 DEF DecryptRejects
<1> QED
  BY <1>2, <1>3

(* The invariant of the SPQR halves holds after every call.                *)
LEMMA StepPQInv == PQInv /\ [Next]_vars => PQInv'
<1> SUFFICES ASSUME PQInv, [Next]_vars PROVE PQInv'
  OBVIOUS
<1>1. ASSUME NEW p \in Party, Encrypt(p) PROVE PQInv'
  BY <1>1, EncryptPQInv
<1>2. ASSUME NEW p \in Party, EncryptFails(p) \/ DecryptRejects(p) PROVE PQInv'
  BY <1>2, FailureChangesNothing, UnchangedPQInv
<1>3. ASSUME NEW p \in Party, DecryptAccepts(p) PROVE PQInv'
  BY <1>3, AcceptPQInv
<1>4. ASSUME NEW p \in Party, CloseSession(p) PROVE PQInv'
  BY <1>4, ClosePQInv
<1>5. CASE UNCHANGED vars
  BY <1>5, UnchangedPQInv DEF vars
<1> QED
  BY <1>1, <1>2, <1>3, <1>4, <1>5 DEF Next

(* In every reachable state the SPQR halves are in step with each other    *)
(* and with the messages, and the accepted messages are spent.             *)
THEOREM SpecPQInv == Spec => []PQInv
BY InitPQInv, StepPQInv, PTL DEF Spec

(* In every reachable state, a closed session holds no root key, chain or  *)
(* skipped key of the conversation in either half: no call after Close     *)
(* brings one back, although the provider goes on starting epochs.         *)
THEOREM ClosedSessionsStayErased == Spec => []ErasedForGood
<1>1. PQInv => ErasedForGood
  <2> SUFFICES ASSUME PQInv, NEW p \in closed
               PROVE  LET s == session[p]
                      IN  /\ s.dr.rk = EC!ZeroRootKey /\ s.spqr.rk = PQ!ZeroRootKey
                          /\ s.dr.recvChains = EC!NewReceiverChains
                          /\ s.dr.mkSkipped = EC!NewStorage
                          /\ s.spqr.kdfChains = << >> /\ s.spqr.mkSkipped = << >>
    BY DEF ErasedForGood
  <2>1. p \in Party
    BY DEF PQInv, TypeInv
  <2> QED
    BY <2>1 DEF PQInv, HalvesOK, PQErased, ECErased
<1> QED
  BY <1>1, SpecPQInv, PTL

-----------------------------------------------------------------------------
(* The deliveries as SecureChannel counts them.                            *)
Delivered == [p \in Party |-> [i \in accepted[p] |-> IF i \in replayed[p] THEN 2 ELSE 1]]

(* At first nothing was sent and nothing delivered.                        *)
LEMMA InitChannel == Init => Channel!Init
<1> SUFFICES ASSUME Init PROVE Channel!Init
  OBVIOUS
<1>1. Party = Channel!Party
  BY DEF Party, Channel!Party
<1>2. [p \in Party |-> [i \in accepted[p] |-> IF i \in replayed[p] THEN 2 ELSE 1]]
        = [p \in Party |-> << >>]
  BY DEF Init
<1> QED
  BY <1>1, <1>2 DEF Init, Channel!Init

(* Every step is a step of the channel or leaves the channel as it was: an *)
(* accepted message was sent by the peer and not delivered before.         *)
LEMMA ChannelStep ==
  ASSUME PQInv, PQInv', [Next]_vars
  PROVE  [Channel!Next]_<<sent, Delivered>>
<1>1. Party = Channel!Party /\ \A x : Peer(x) = Channel!Peer(x)
  BY DEF Party, Channel!Party, Peer, Channel!Peer
<1>2. /\ Delivered = [x \in Party |-> [i \in accepted[x] |-> 1]]
      /\ Delivered' = [x \in Party |-> [i \in accepted'[x] |-> 1]]
  <2>1. replayed = [x \in Party |-> {}] /\ replayed' = [x \in Party |-> {}]
    BY DEF PQInv, TypeInv
  <2> QED
    BY <2>1 DEF Delivered
<1>3. ASSUME NEW p \in Party, Encrypt(p) PROVE Channel!Send(p)
  <2>1. sent' = [sent EXCEPT ![p] = @ + 1] /\ accepted' = accepted
    BY <1>3 DEF Encrypt
  <2>2. Delivered' = Delivered
    BY <1>2, <2>1
  <2> QED
    BY <2>1, <2>2 DEF Channel!Send, Delivered
<1>4. ASSUME NEW p \in Party, DecryptAccepts(p) PROVE Channel!Deliver(p)
  <2>1. PICK m, c : /\ m \in network /\ c \in Arrivals(m) /\ m.from = Peer(p)
                    /\ DecryptArrival(p, c).err = "ok" /\ sent' = sent
                    /\ accepted' = [accepted EXCEPT ![p] = @ \cup {c.box.text}]
    BY <1>4 DEF DecryptAccepts
  <2>2. PICK text : text = c.box.text
    OBVIOUS
  <2>3. text = m.box.text
    BY <2>1, <2>2, OpensOwnHeader
  <2>4. Took(p, m, session[p].spqr, DecryptArrival(p, c).s.spqr)
    BY <2>1, AcceptTakes
  <2>5. text \notin accepted[p]
    <3>1. Peer(m.from) = p
      BY <2>1, Parties
    <3> QED
      BY <2>1, <2>3, <2>4, <3>1 DEF Took, PQInv, AcceptedSpent
  <2>6. text \in 0 .. sent[Peer(p)] - 1
    <3>1. WellFormed(m) /\ SentBefore(m)
      BY <2>1 DEF PQInv, MessagesOK
    <3>2. text \in Nat /\ text < sent[Peer(p)] /\ sent[Peer(p)] \in Nat
      BY <2>1, <2>3, <3>1, Parties DEF WellFormed, SentBefore, PQInv, TypeInv
    <3> QED
      BY <3>2
  <2>7. /\ accepted'[p] = accepted[p] \cup {text}
        /\ \A x \in Party : x # p => accepted'[x] = accepted[x]
    BY <2>1, <2>2 DEF PQInv, TypeInv
  <2>8. Delivered' = [Delivered EXCEPT ![p] =
                        [j \in DOMAIN @ \cup {text} |-> IF j = text THEN 1 ELSE @[j]]]
    <3>1. Delivered[p] = [i \in accepted[p] |-> 1] /\ DOMAIN Delivered[p] = accepted[p]
      BY <1>2
    <3>2. [j \in DOMAIN Delivered[p] \cup {text} |-> IF j = text THEN 1 ELSE Delivered[p][j]]
            = [i \in accepted'[p] |-> 1]
      BY <2>7, <3>1
    <3> QED
      BY <1>2, <2>7, <3>2
  <2>9. p \in Party /\ text \notin DOMAIN Delivered[p]
    BY <1>2, <2>5
  <2> QED
    BY <1>1, <2>1, <2>6, <2>8, <2>9 DEF Channel!Deliver, Channel!TimesDelivered, Delivered
<1>5. ASSUME NEW p \in Party, EncryptFails(p) \/ DecryptRejects(p) \/ CloseSession(p)
      PROVE  UNCHANGED <<sent, Delivered>>
  <2>1. sent' = sent /\ accepted' = accepted
    BY <1>5 DEF EncryptFails, DecryptRejects, CloseSession
  <2> QED
    BY <1>2, <2>1
<1>6. CASE UNCHANGED vars
  BY <1>2, <1>6 DEF vars
<1> QED
  BY <1>1, <1>3, <1>4, <1>5, <1>6 DEF Next, Channel!Next

(* A pair of Triple Ratchet sessions implements SecureChannel: whatever    *)
(* the transport repeats, reorders, damages or recombines, Decrypt         *)
(* delivers only what the peer sent, each message at most once.            *)
THEOREM ImplementsSecureChannel == Spec => ImplementsChannel
<1>1. ASSUME PQInv, PQInv', [Next]_vars
      PROVE  [Channel!Next]_<<sent, [p \in Party |-> [i \in accepted[p] |->
                                      IF i \in replayed[p] THEN 2 ELSE 1]]>>
  BY <1>1, ChannelStep DEF Delivered
<1> QED
  BY <1>1, InitChannel, SpecPQInv, PTL DEF Spec, Channel!Spec, ImplementsChannel

-----------------------------------------------------------------------------
(* DoubleRatchetProofs speaks of its own instances of the operators of a   *)
(* base session; they are the same operators.                              *)
LEMMA SameECOperators ==
  /\ \A dhs, bobPK : EC!InitInitiator(dhs, bobPK) = Base!InitInitiator(dhs, bobPK)
  /\ \A bobPair : EC!InitResponder(bobPair) = Base!InitResponder(bobPair)
  /\ \A s, fresh : EC!ReadyToSend(s, fresh) = Base!ReadyToSend(s, fresh)
  /\ \A s : (EC!CanSend(s) <=> Base!CanSend(s)) /\ EC!HeaderOf(s) = Base!HeaderOf(s)
  /\ \A s : EC!AdvanceSend(s) = Base!AdvanceSend(s)
  /\ \A ck : EC!DeriveMessageKey(ck) = Base!DeriveMessageKey(ck)
  /\ \A key, ad, text : EC!Seal(key, ad, text) = Base!Seal(key, ad, text)
  /\ \A x, y, hdr : EC!BuildAD(x, y, hdr) = Base!BuildAD(x, y, hdr)
  /\ EC!NoChainKey = Base!NoChainKey /\ EC!SessionFields = Base!SessionFields
  /\ Party = Base!Party /\ \A p : Peer(p) = Base!Peer(p)
  /\ \A p, i : KeyPair(p, i) = Base!KeyPair(p, i)
<1>1. /\ \A rk, dh : EC!DeriveRoot(rk, dh) = Base!DeriveRoot(rk, dh)
      /\ \A x, y : EC!SharedSecret(x, y) = Base!SharedSecret(x, y)
      /\ \A root : EC!FirstChainKey(root) = Base!FirstChainKey(root)
      /\ \A ck : EC!DeriveNextChainKey(ck) = Base!DeriveNextChainKey(ck)
      /\ EC!NoChainKey = Base!NoChainKey /\ EC!InitialRootKey = Base!InitialRootKey
  BY DEF EC!DeriveRoot, Base!DeriveRoot, EC!SharedSecret, Base!SharedSecret, EC!FirstChainKey,
         Base!FirstChainKey, EC!DeriveNextChainKey, Base!DeriveNextChainKey, EC!NoChainKey,
         Base!NoChainKey, EC!InitialRootKey, Base!InitialRootKey
<1>2. EC!NewReceiverChains = Base!NewReceiverChains /\ EC!NewStorage = Base!NewStorage
  BY DEF EC!NewReceiverChains, Base!NewReceiverChains, EC!NewStorage, Base!NewStorage,
         EC!Slots, Base!Slots, EC!EmptySlot, Base!EmptySlot
<1>3. /\ \A dhs, bobPK : EC!InitInitiator(dhs, bobPK) = Base!InitInitiator(dhs, bobPK)
      /\ \A bobPair : EC!InitResponder(bobPair) = Base!InitResponder(bobPair)
  BY <1>1, <1>2 DEF EC!InitInitiator, Base!InitInitiator, EC!InitResponder, Base!InitResponder
<1>4. /\ \A s, fresh : EC!ReadyToSend(s, fresh) = Base!ReadyToSend(s, fresh)
      /\ \A s : (EC!CanSend(s) <=> Base!CanSend(s)) /\ EC!HeaderOf(s) = Base!HeaderOf(s)
      /\ \A s : EC!AdvanceSend(s) = Base!AdvanceSend(s)
  BY <1>1 DEF EC!ReadyToSend, Base!ReadyToSend, EC!PerformDHRatchetSend,
              Base!PerformDHRatchetSend, EC!CanSend, Base!CanSend, EC!HeaderOf, Base!HeaderOf,
              EC!AdvanceSend, Base!AdvanceSend
<1>5. /\ \A ck : EC!DeriveMessageKey(ck) = Base!DeriveMessageKey(ck)
      /\ \A key, ad, text : EC!Seal(key, ad, text) = Base!Seal(key, ad, text)
      /\ \A x, y, hdr : EC!BuildAD(x, y, hdr) = Base!BuildAD(x, y, hdr)
      /\ EC!SessionFields = Base!SessionFields
  BY DEF EC!DeriveMessageKey, Base!DeriveMessageKey, EC!Seal, Base!Seal, EC!BuildAD, Base!BuildAD,
         EC!IdentityADPrefix, Base!IdentityADPrefix, EC!SessionFields, Base!SessionFields
<1>6. /\ Party = Base!Party /\ \A p : Peer(p) = Base!Peer(p)
      /\ \A p, i : KeyPair(p, i) = Base!KeyPair(p, i)
  BY DEF Party, Base!Party, Peer, Base!Peer, KeyPair, Base!KeyPair
<1> QED
  BY <1>1, <1>3, <1>4, <1>5, <1>6

(* What one party does leaves the EC half of the other alone.              *)
LEMMA OtherHalfKept ==
  ASSUME NEW x \in Party, session'[x] = session[x], generated'[x] = generated[x],
         x \in closed' <=> x \in closed
  PROVE  ECHalf(x)' = ECHalf(x)
<1>1. (x \in closed)' <=> x \in closed
  OBVIOUS
<1>2. ECHalf(x)' = IF x \in closed
                   THEN [session[x].dr EXCEPT !.dhs = KeyPair(x, generated[x] - 1),
                                              !.dhr = ZeroKey, !.cks = EC!NoChainKey,
                                              !.dhRatchetPerformed = FALSE]
                   ELSE session[x].dr
  BY <1>1 DEF ECHalf, KeyPair
<1> QED
  BY <1>2 DEF ECHalf

(* The EC halves start as the sessions of a base Double Ratchet.           *)
LEMMA InitECInv == Init => Base!IInv
<1> SUFFICES ASSUME Init PROVE Base!Init
  BY Base!InitIInv, BoundAssumption, PartyAssumption, KeyAssumption, CapacityAssumption,
     MaxSkipAssumption
<1>1. [p \in Party |-> ECHalf(p)] =
        [p \in Party |-> IF p = Initiator
                         THEN EC!InitInitiator(KeyPair(Initiator, 0), KeyPair(Responder, 0))
                         ELSE EC!InitResponder(KeyPair(Responder, 0))]
  BY DEF Init, ECHalf, InitInitiatorTripleRatchet, InitResponderTripleRatchet
<1>2. {ECMessage(m) : m \in network} = {}
  BY DEF Init
<1> QED
  BY <1>1, <1>2, SameECOperators DEF Init, Base!Init

(* Encrypt is an Encrypt of the base session in the EC half, and keeps its *)
(* invariant.                                                              *)
LEMMA EncryptECInv ==
  ASSUME PQInv, Base!IInv, NEW p \in Party, Encrypt(p)
  PROVE  Base!IInv'
<1>0. PICK d, fr, ready, out, new :
        /\ d = session[p].dr /\ fr = NextPair(p) /\ ready = EC!ReadyToSend(d, fr)
        /\ out = EncryptKey(session[p], fr, TRUE)
        /\ new = [from |-> p, hdr |-> out.hdr,
                  box |-> EC!Seal(out.key, BuildAD(p, Peer(p), out.hdr), sent[p])]
  OBVIOUS
<1>1. /\ sent[p] < MaxSends /\ out.err = "ok" /\ session' = [session EXCEPT ![p] = out.s]
      /\ sent' = [sent EXCEPT ![p] = @ + 1] /\ network' = network \cup {new}
      /\ generated' = IF d.dhRatchetPerformed THEN [generated EXCEPT ![p] = @ + 1] ELSE generated
      /\ accepted' = accepted /\ replayed' = replayed /\ closed' = closed
  BY <1>0 DEF Encrypt, Draws
<1>2. /\ RatchetSendKey(d, fr).err = "ok" /\ out.s.dr = RatchetSendKey(d, fr).s
      /\ out.hdr.ec = SentHeader(d, fr) /\ out.key.ec = RatchetSendKey(d, fr).key
      /\ PQL!SendKey(session[p].spqr).err = "ok"
  <2>1. EncryptKey(session[p], fr, TRUE).err = "ok"
    BY <1>0, <1>1
  <2>2. EncryptedBy(session[p], fr, TRUE, RatchetSendKey(session[p].dr, fr),
                    PQL!SendKey(session[p].spqr))
    BY <2>1, EncryptedBoth
  <2>3. EncryptedBy(session[p], fr, TRUE, RatchetSendKey(d, fr), PQL!SendKey(session[p].spqr))
    BY <1>0, <2>2
  <2>4. /\ RatchetSendKey(d, fr).err = "ok" /\ PQL!SendKey(session[p].spqr).err = "ok"
        /\ out.s = [dr |-> RatchetSendKey(d, fr).s, spqr |-> PQL!SendKey(session[p].spqr).s]
        /\ out.hdr = [ec |-> SentHeader(d, fr), scka |-> PQL!SendKey(session[p].spqr).hdr]
        /\ out.key = Hybrid(PQL!SendKey(session[p].spqr).key, RatchetSendKey(d, fr).key)
    BY <1>0, <2>3 DEF EncryptedBy
  <2>5. \A x, y : Hybrid(x, y).ec = y
    BY DEF Hybrid
  <2>6. out.hdr.ec = SentHeader(d, fr)
    <3>1. \A x, y : out.hdr = [ec |-> x, scka |-> y] => out.hdr.ec = x
      OBVIOUS
    <3> QED
      BY <2>4, <3>1
  <2> QED
    BY <2>4, <2>5, <2>6
<1>3. /\ EC!CanSend(d) /\ out.s.dr = EC!AdvanceSend(ready)
      /\ out.key.ec = EC!DeriveMessageKey(ready.cks) /\ out.hdr.ec = EC!HeaderOf(ready)
  BY <1>0, <1>2 DEF RatchetSendKey, SentHeader, EC!Outcome, EC!Failure
<1>4. p \notin closed
  BY <1>2, HalfFacts, ErasedCannotSend
<1>5. session = [x \in Party |-> session[x]]
  BY DEF PQInv, TypeInv
<1>6. Base!ReadyToSend([x \in Party |-> ECHalf(x)][p], Base!KeyPair(p, generated[p])) = ready
  BY <1>0, <1>4, SameECOperators DEF ECHalf, NextPair
<1>7. [x \in Party |-> ECHalf(x)]' =
        [[x \in Party |-> ECHalf(x)] EXCEPT ![p] = EC!AdvanceSend(ready)]
  <2>1. ECHalf(p)' = EC!AdvanceSend(ready)
    BY <1>1, <1>3, <1>4, <1>5 DEF ECHalf
  <2>2. ASSUME NEW x \in Party, x # p PROVE ECHalf(x)' = ECHalf(x)
    <3>1. generated \in [Party -> Nat \ {0}]
      BY SameECOperators DEF Base!IInv, Base!SendHalfInv
    <3>2. generated'[x] = generated[x] /\ session'[x] = session[x] /\ closed' = closed
      BY <1>1, <1>5, <2>2, <3>1
    <3> QED
      BY <3>2, OtherHalfKept
  <2> QED
    BY <2>1, <2>2
<1>8. ECMessage(new) =
        [from |-> p, hdr |-> EC!HeaderOf(ready),
         box |-> EC!Seal(EC!DeriveMessageKey(ready.cks),
                         EC!BuildAD(p, Peer(p), EC!HeaderOf(ready)), sent[p])]
  BY <1>0, <1>3 DEF ECMessage, EC!Seal
<1>9. ECMessage(new) = Base!MessageOf(p, ready)
  BY <1>8, SameECOperators DEF Base!MessageOf
<1>10. {ECMessage(m) : m \in network}' =
         {ECMessage(m) : m \in network} \cup {Base!MessageOf(p, ready)}
  BY <1>1, <1>9 DEF ECMessage
<1>11. Base!Encrypt(p)
  BY <1>0, <1>1, <1>3, <1>4, <1>6, <1>7, <1>10, SameECOperators DEF Base!Encrypt, ECHalf
<1>12. p \in Base!Party
  BY SameECOperators
<1> QED
  BY <1>11, <1>12, Base!EncryptInv, BoundAssumption, PartyAssumption, KeyAssumption,
     CapacityAssumption, MaxSkipAssumption

(* Decrypt leaves the sending half of the EC session alone but for the     *)
(* public key of the peer, which is one the peer generated: the header is  *)
(* that of a message it sent.                                              *)
LEMMA AcceptECInv ==
  ASSUME PQInv, Base!IInv, NEW p \in Party, DecryptAccepts(p)
  PROVE  Base!IInv'
<1>1. PICK m, c, d, t :
        /\ m \in network /\ c \in Arrivals(m) /\ m.from = Peer(p)
        /\ DecryptArrival(p, c).err = "ok"
        /\ session' = [session EXCEPT ![p] = DecryptArrival(p, c).s]
        /\ generated' = generated /\ sent' = sent /\ network' = network /\ closed' = closed
        /\ d = session[p].dr /\ t = DecryptArrival(p, c).s.dr
  BY DEF DecryptAccepts
<1>2. c.hdr = m.hdr
  BY <1>1, OpensOwnHeader
<1>3. p \notin closed
  BY <1>1, AcceptTakes DEF Took
<1>4. session = [x \in Party |-> session[x]] /\ ECShape(d)
  BY <1>1 DEF PQInv, TypeInv, TRShape
<1>5. ECKept(d, t, m.hdr.ec.pk)
  <2>1. DecryptedBy(session[p], c.hdr, BuildAD(Peer(p), p, c.hdr), c.box,
                    EC!RatchetReceiveKey(session[p].dr, c.hdr.ec),
                    PQL!ReceiveKey(session[p].spqr, c.hdr.scka))
    BY <1>1, DecryptedBoth DEF DecryptArrival
  <2>2. DecryptArrival(p, c).s.dr = EC!RatchetReceiveKey(session[p].dr, c.hdr.ec).s
    BY <2>1 DEF DecryptedBy, DecryptArrival
  <2>3. t = EC!RatchetReceiveKey(d, m.hdr.ec).s
    BY <1>1, <1>2, <2>2
  <2> QED
    BY <1>4, <2>3, RatchetReceiveKeyKeeps
<1>6. session'[p].dr = t /\ \A x \in Party : x # p => session'[x] = session[x]
  BY <1>1, <1>4
<1>7. ECHalf(p) = d /\ ECHalf(p)' = t
  BY <1>1, <1>3, <1>6 DEF ECHalf
<1>8. [x \in Party |-> ECHalf(x)]' = [[x \in Party |-> ECHalf(x)] EXCEPT ![p] = t]
  <2>1. ASSUME NEW x \in Party, x # p PROVE ECHalf(x)' = ECHalf(x)
    <3>1. generated' = generated /\ session'[x] = session[x] /\ (x \in closed' <=> x \in closed)
      BY <1>1, <1>6, <2>1
    <3> QED
      BY <3>1, OtherHalfKept
  <2> QED
    BY <1>7, <2>1
<1>9. {ECMessage(x) : x \in network}' = {ECMessage(x) : x \in network}
  BY <1>1 DEF ECMessage
<1>10. m.hdr.ec.pk \in Base!OwnKeys(Base!Peer(p))
  <2>1. ECMessage(m) \in {ECMessage(x) : x \in network}
    BY <1>1
  <2>2. ECMessage(m).hdr.pk \in Base!OwnKeys(ECMessage(m).from)
    BY <2>1 DEF Base!IInv, Base!MessageInv
  <2>3. ECMessage(m).hdr = m.hdr.ec /\ ECMessage(m).from = m.from
    BY DEF ECMessage
  <2> QED
    BY <1>1, <2>2, <2>3, SameECOperators
<1>11. /\ d.dhr \in Base!OwnKeys(Base!Peer(p)) \cup {ZeroKey}
       /\ d.dhRatchetPerformed => d.dhr \in Base!OwnKeys(Base!Peer(p))
  BY <1>7, SameECOperators DEF Base!IInv, Base!SendHalfInv
<1>12. /\ Base!SessionShape(t) /\ t.cks \in {d.cks, Base!NoChainKey}
       /\ t.ns = d.ns /\ t.dhs = d.dhs
       /\ t.dhr \in Base!OwnKeys(Base!Peer(p)) \cup {ZeroKey}
       /\ t.dhRatchetPerformed => t.dhr \in Base!OwnKeys(Base!Peer(p))
  <2>1. Base!SessionShape(t)
    BY <1>5, SameECOperators DEF ECKept, ECShape, Base!SessionShape
  <2> QED
    BY <1>5, <1>10, <1>11, <2>1 DEF ECKept
<1>13. p \in Base!Party
  BY SameECOperators
<1>14. [x \in Party |-> ECHalf(x)][p] = d /\ [x \in Party |-> ECHalf(x)]'[p] = t
  BY <1>7, <1>8
<1> QED
  BY <1>1, <1>8, <1>9, <1>12, <1>13, <1>14, Base!SendHalfKept, BoundAssumption, PartyAssumption,
     KeyAssumption, CapacityAssumption, MaxSkipAssumption

(* Close leaves no sending chain behind.                                   *)
LEMMA CloseECInv ==
  ASSUME PQInv, Base!IInv, NEW p \in Party, CloseSession(p)
  PROVE  Base!IInv'
<1>1. PICK d, t :
        /\ d = session[p].dr
        /\ t = [EC!Close(d) EXCEPT !.dhs = KeyPair(p, generated[p] - 1), !.dhr = ZeroKey,
                                   !.cks = EC!NoChainKey, !.dhRatchetPerformed = FALSE]
  OBVIOUS
<1>2. /\ session' = [session EXCEPT ![p] = CloseBoth(session[p])] /\ closed' = closed \cup {p}
      /\ generated' = generated /\ sent' = sent /\ network' = network /\ p \notin closed
  BY DEF CloseSession
<1>3. session = [x \in Party |-> session[x]] /\ ECShape(d)
  BY <1>1 DEF PQInv, TypeInv, TRShape
<1>4. session'[p].dr = EC!Close(d) /\ \A x \in Party : x # p => session'[x] = session[x]
  BY <1>1, <1>2, <1>3 DEF CloseBoth
<1>5. ECHalf(p) = d /\ ECHalf(p)' = t
  <2>1. p \in closed' /\ generated' = generated
    BY <1>2
  <2> QED
    BY <1>1, <1>2, <1>4, <2>1 DEF ECHalf, KeyPair
<1>6. [x \in Party |-> ECHalf(x)]' = [[x \in Party |-> ECHalf(x)] EXCEPT ![p] = t]
  <2>1. ASSUME NEW x \in Party, x # p PROVE ECHalf(x)' = ECHalf(x)
    <3>1. generated' = generated /\ session'[x] = session[x] /\ (x \in closed' <=> x \in closed)
      BY <1>2, <1>4, <2>1
    <3> QED
      BY <3>1, OtherHalfKept
  <2> QED
    BY <1>5, <2>1
<1>7. {ECMessage(x) : x \in network}' = {ECMessage(x) : x \in network}
  BY <1>2 DEF ECMessage
<1>8. d.dhs = KeyPair(p, generated[p] - 1)
  BY <1>5, SameECOperators DEF Base!IInv, Base!SendHalfInv
<1>9. /\ ECShape(t) /\ t.cks = EC!NoChainKey /\ t.ns = d.ns
      /\ t.dhs = KeyPair(p, generated[p] - 1)
      /\ t.dhr = ZeroKey /\ t.dhRatchetPerformed = FALSE
  BY <1>1, <1>3 DEF EC!Close, ECShape, EC!SessionFields
<1>10. /\ Base!SessionShape(t) /\ t.cks \in {d.cks, Base!NoChainKey}
       /\ t.ns = d.ns /\ t.dhs = d.dhs
       /\ t.dhr \in Base!OwnKeys(Base!Peer(p)) \cup {ZeroKey}
       /\ t.dhRatchetPerformed => t.dhr \in Base!OwnKeys(Base!Peer(p))
  <2>1. Base!SessionShape(t)
    BY <1>9, SameECOperators DEF ECShape, Base!SessionShape
  <2> QED
    BY <1>8, <1>9, <2>1, SameECOperators
<1>11. p \in Base!Party
  BY SameECOperators
<1>12. [x \in Party |-> ECHalf(x)][p] = d /\ [x \in Party |-> ECHalf(x)]'[p] = t
  BY <1>5, <1>6
<1> QED
  BY <1>2, <1>6, <1>7, <1>10, <1>11, <1>12, Base!SendHalfKept, BoundAssumption, PartyAssumption,
     KeyAssumption, CapacityAssumption, MaxSkipAssumption

(* A call that changes nothing the EC halves are read from keeps their     *)
(* invariant.                                                              *)
LEMMA UnchangedECInv ==
  ASSUME Base!IInv, session' = session, generated' = generated, sent' = sent,
         network' = network, closed' = closed
  PROVE  Base!IInv'
<1>1. [x \in Party |-> ECHalf(x)]' = [x \in Party |-> ECHalf(x)]
  BY DEF ECHalf, KeyPair
<1>2. {ECMessage(x) : x \in network}' = {ECMessage(x) : x \in network}
  BY DEF ECMessage
<1>3. Initiator \in Base!Party /\ Initiator \in Party
  BY SameECOperators DEF Party
<1>4. LET d == [x \in Party |-> ECHalf(x)][Initiator]
      IN  /\ Base!SessionShape(d)
          /\ d.dhr \in Base!OwnKeys(Base!Peer(Initiator)) \cup {ZeroKey}
          /\ d.dhRatchetPerformed => d.dhr \in Base!OwnKeys(Base!Peer(Initiator))
  BY <1>3 DEF Base!IInv, Base!SendHalfInv
<1> QED
  BY <1>1, <1>2, <1>3, <1>4, Base!SendHalfKept, BoundAssumption, PartyAssumption, KeyAssumption,
     CapacityAssumption, MaxSkipAssumption

(* The invariant of the base Double Ratchet, read on the EC halves, holds  *)
(* after every call.                                                       *)
LEMMA StepECInv == PQInv /\ Base!IInv /\ [Next]_vars => Base!IInv'
<1> SUFFICES ASSUME PQInv, Base!IInv, [Next]_vars PROVE Base!IInv'
  OBVIOUS
<1>1. ASSUME NEW p \in Party, Encrypt(p) PROVE Base!IInv'
  BY <1>1, EncryptECInv
<1>2. ASSUME NEW p \in Party, EncryptFails(p) \/ DecryptRejects(p) PROVE Base!IInv'
  BY <1>2, FailureChangesNothing, UnchangedECInv
<1>3. ASSUME NEW p \in Party, DecryptAccepts(p) PROVE Base!IInv'
  BY <1>3, AcceptECInv
<1>4. ASSUME NEW p \in Party, CloseSession(p) PROVE Base!IInv'
  BY <1>4, CloseECInv
<1>5. CASE UNCHANGED vars
  BY <1>5, UnchangedECInv DEF vars
<1> QED
  BY <1>1, <1>2, <1>3, <1>4, <1>5 DEF Next

(* Equal EC keys belong to one message by the uniqueness of base message   *)
(* keys; equal SPQR keys name the same epoch, direction and number.        *)
LEMMA HalvesKeysUnique == PQInv /\ Base!IInv => EachHalfNeverReusesKey
<1> SUFFICES ASSUME PQInv, Base!IInv, NEW m1 \in network, NEW m2 \in network,
                    m1.box.key.ec = m2.box.key.ec \/ m1.box.key.pq = m2.box.key.pq
             PROVE  m1 = m2
  BY DEF EachHalfNeverReusesKey
<1>1. /\ WellFormed(m1) /\ WellFormed(m2) /\ KeyNamed(m1) /\ KeyNamed(m2) /\ Distinct
  BY DEF PQInv, MessagesOK
<1>2. CASE m1.box.key.ec = m2.box.key.ec
  <2>1. Base!MessageKeyNeverReused
    BY Base!KeysUnique, BoundAssumption, PartyAssumption, KeyAssumption, CapacityAssumption,
       MaxSkipAssumption
  <2>2. /\ ECMessage(m1).box.key = m1.box.key.ec /\ ECMessage(m1).from = m1.from
        /\ ECMessage(m1).box.text = m1.box.text
        /\ ECMessage(m2).box.key = m2.box.key.ec /\ ECMessage(m2).from = m2.from
        /\ ECMessage(m2).box.text = m2.box.text
    BY DEF ECMessage, EC!Seal
  <2>3. /\ ECMessage(m1) \in {ECMessage(m) : m \in network}
        /\ ECMessage(m2) \in {ECMessage(m) : m \in network}
    OBVIOUS
  <2>4. ECMessage(m1) = ECMessage(m2)
    BY <1>2, <2>1, <2>2, <2>3 DEF Base!MessageKeyNeverReused
  <2>5. m1.from = m2.from /\ m1.box.text = m2.box.text
    BY <2>2, <2>4
  <2> QED
    BY <1>1, <2>5 DEF Distinct
<1>3. CASE m1.box.key.pq = m2.box.key.pq
  <2>1. PICK r1 : /\ Named(r1, EpochOf(m1))
                  /\ m1.box.key.pq = PQL!KeyOf(r1, Direction(m1.from), m1.hdr.scka.n)
    BY <1>1 DEF KeyNamed
  <2>2. PICK r2 : /\ Named(r2, EpochOf(m2))
                  /\ m2.box.key.pq = PQL!KeyOf(r2, Direction(m2.from), m2.hdr.scka.n)
    BY <1>1 DEF KeyNamed
  <2>3. r1 = r2 /\ Direction(m1.from) = Direction(m2.from) /\ m1.hdr.scka.n = m2.hdr.scka.n
    <3>1. \A r, d, n : /\ PQL!KeyOf(r, d, n).ck.root = r /\ PQL!KeyOf(r, d, n).ck.dir = d
                       /\ PQL!KeyOf(r, d, n).ctr = n
      BY DEF PQL!KeyOf
    <3>2. PQL!KeyOf(r1, Direction(m1.from), m1.hdr.scka.n)
            = PQL!KeyOf(r2, Direction(m2.from), m2.hdr.scka.n)
      BY <1>3, <2>1, <2>2
    <3> QED
      BY <3>1, <3>2
  <2>4. m1.from = m2.from
    BY <1>1, <2>3 DEF WellFormed, Party, Direction
  <2>5. EpochOf(m1) = EpochOf(m2)
    BY <1>1, <2>1, <2>2, <2>3, NamedOnce DEF WellFormed
  <2> QED
    BY <1>1, <2>3, <2>4, <2>5 DEF Distinct
<1> QED
  BY <1>2, <1>3

(* In every reachable state, no two messages have the same key in either   *)
(* half, so a hybrid key stays fresh as long as one half is sound.         *)
THEOREM HalvesNeverReuseKeys == Spec => []EachHalfNeverReusesKey
<1>1. Init => PQInv /\ Base!IInv
  BY InitPQInv, InitECInv
<1>2. (PQInv /\ Base!IInv) /\ [Next]_vars => (PQInv /\ Base!IInv)'
  BY StepPQInv, StepECInv
<1> QED
  BY <1>1, <1>2, HalvesKeysUnique, PTL DEF Spec

-----------------------------------------------------------------------------
(* The two halves of the system, while the sessions are open: the sessions *)
(* as the history has them, and the messages as each half sealed them.     *)
ECSessions == [p \in Party |-> open[p].dr]
PQSessions == [p \in Party |-> open[p].spqr]
ECNetwork == {ECMessage(m) : m \in network}
PQNetwork == {PQMessage(m) : m \in network}

(* The refinements: what is proved of a pair of base Double Ratchet        *)
(* sessions, and of a pair of SPQR sessions, is to hold of the halves.     *)
ECPair == INSTANCE DoubleRatchetProofs WITH
  session <- ECSessions, network <- ECNetwork, windowed <- TRUE
PQPair == INSTANCE SPQRProofs WITH session <- PQSessions, network <- PQNetwork

(* The modules of the pairs speak of their own instances of the operators  *)
(* of a session; they are the same operators. Those of an SPQR session:    *)
LEMMA SamePQPairOperators ==
  /\ \A dir : PQ!InitSCKA(dir) = PQPair!InitSCKA(dir)
  /\ \A s : PQ!SendKey(s) = PQPair!SendKey(s)
  /\ \A s, hdr : PQ!ReceiveKey(s, hdr) = PQPair!ReceiveKey(s, hdr)
  /\ \A key, ad, text : PQ!Seal(key, ad, text) = PQPair!Seal(key, ad, text)
  /\ \A x, y, hdr : BuildAD(x, y, hdr) = PQPair!BuildAD(x, y, hdr)
  /\ Party = PQPair!Party /\ \A p : Peer(p) = PQPair!Peer(p)
<1>1. /\ \A root, dir : PQ!ChainPair(root, dir) = PQPair!ChainPair(root, dir)
      /\ \A odd : PQ!InitProvider(odd) = PQPair!InitProvider(odd)
  BY DEF PQ!ChainPair, PQPair!ChainPair, PQ!KDFChain, PQPair!KDFChain, PQ!Opposite, PQPair!Opposite,
         PQ!InitProvider, PQPair!InitProvider
<1>2. \A dir : PQ!InitSCKA(dir) = PQPair!InitSCKA(dir)
  BY <1>1 DEF PQ!InitSCKA, PQPair!InitSCKA, PQ!InitialRootKey, PQPair!InitialRootKey
<1>3. \A s, e : PQ!AdvanceEpoch(s, e) = PQPair!AdvanceEpoch(s, e)
  BY <1>1 DEF PQ!AdvanceEpoch, PQPair!AdvanceEpoch, PQ!DeriveRoot, PQPair!DeriveRoot,
              PQ!OutputKey, PQPair!OutputKey
<1>4. \A s, e : PQ!ClearOldEpochs(s, e) = PQPair!ClearOldEpochs(s, e)
  BY DEF PQ!ClearOldEpochs, PQPair!ClearOldEpochs
<1>5. \A s, k, e : /\ PQ!EpochStep(s, k, e) = PQPair!EpochStep(s, k, e)
                   /\ PQ!EpochMismatch(s, k) <=> PQPair!EpochMismatch(s, k)
  BY <1>3, <1>4 DEF PQ!EpochStep, PQPair!EpochStep, PQ!EpochMismatch, PQPair!EpochMismatch,
                    PQ!NoEpoch, PQPair!NoEpoch
<1>6. \A st : PQ!ProviderSend(st) = PQPair!ProviderSend(st)
  BY DEF PQ!ProviderSend, PQPair!ProviderSend, PQ!Offers, PQPair!Offers, PQ!NoEpoch, PQPair!NoEpoch
<1>7. \A st, msg : PQ!ProviderReceive(st, msg) = PQPair!ProviderReceive(st, msg)
  BY DEF PQ!ProviderReceive, PQPair!ProviderReceive, PQ!LaterOf, PQPair!LaterOf,
         PQ!EarlierOf, PQPair!EarlierOf, PQ!NoEpoch, PQPair!NoEpoch
<1>8. /\ \A err, s, hdr, key : PQ!Outcome(err, s, hdr, key) = PQPair!Outcome(err, s, hdr, key)
      /\ \A err, s : PQ!Failure(err, s) = PQPair!Failure(err, s)
      /\ PQ!BadMsg = PQPair!BadMsg /\ \A msg : PQ!Understands(msg) <=> PQPair!Understands(msg)
  BY DEF PQ!Outcome, PQPair!Outcome, PQ!Failure, PQPair!Failure, PQ!BadMsg, PQPair!BadMsg,
         PQ!Understands, PQPair!Understands
<1>9. /\ \A chain, k : PQ!ChainAt(chain, k) = PQPair!ChainAt(chain, k)
      /\ \A chain : PQ!MessageKeyOf(chain) = PQPair!MessageKeyOf(chain)
  BY DEF PQ!ChainAt, PQPair!ChainAt, PQ!MessageKeyOf, PQPair!MessageKeyOf
<1>10. /\ \A s, e : PQ!DropSendChainBefore(s, e) = PQPair!DropSendChainBefore(s, e)
       /\ \A s, e : PQ!CanSendIn(s, e) <=> PQPair!CanSendIn(s, e)
       /\ \A s, e : PQ!StepSendChain(s, e) = PQPair!StepSendChain(s, e)
  BY <1>9 DEF PQ!DropSendChainBefore, PQPair!DropSendChainBefore, PQ!CanSendIn, PQPair!CanSendIn,
              PQ!StepSendChain, PQPair!StepSendChain, PQ!NoChainKey, PQPair!NoChainKey
<1>11. \A s : PQ!SendKey(s) = PQPair!SendKey(s)
  BY <1>5, <1>6, <1>8, <1>9, <1>10 DEF PQ!SendKey, PQPair!SendKey
<1>12. /\ \A s, id : PQ!TakeSkipped(s, id) = PQPair!TakeSkipped(s, id)
       /\ \A s, e, n : PQ!SkipTo(s, e, n) = PQPair!SkipTo(s, e, n)
       /\ \A a, b : PQ!TooManySkipped(a, b) <=> PQPair!TooManySkipped(a, b)
  <2>1. \A s, id : PQ!TakeSkipped(s, id) = PQPair!TakeSkipped(s, id)
    BY <1>8 DEF PQ!TakeSkipped, PQPair!TakeSkipped
  <2>2. \A s, e, n : PQ!SkipTo(s, e, n) = PQPair!SkipTo(s, e, n)
    BY DEF PQ!SkipTo, PQPair!SkipTo, PQ!ChainAt, PQPair!ChainAt, PQ!MessageKeyOf,
           PQPair!MessageKeyOf
  <2>3. \A a, b : PQ!TooManySkipped(a, b) <=> PQPair!TooManySkipped(a, b)
    BY DEF PQ!TooManySkipped, PQPair!TooManySkipped
  <2> QED
    BY <2>1, <2>2, <2>3
<1>13. \A s, e, n : PQ!ReceiveOnChain(s, e, n) = PQPair!ReceiveOnChain(s, e, n)
  BY <1>8, <1>9, <1>12 DEF PQ!ReceiveOnChain, PQPair!ReceiveOnChain
<1>14. \A s, hdr : PQ!ReceiveKey(s, hdr) = PQPair!ReceiveKey(s, hdr)
  BY <1>5, <1>7, <1>8, <1>12, <1>13 DEF PQ!ReceiveKey, PQPair!ReceiveKey
<1>15. /\ \A key, ad, text : PQ!Seal(key, ad, text) = PQPair!Seal(key, ad, text)
       /\ \A x, y, hdr : BuildAD(x, y, hdr) = PQPair!BuildAD(x, y, hdr)
       /\ Party = PQPair!Party /\ \A p : Peer(p) = PQPair!Peer(p)
  BY DEF PQ!Seal, PQPair!Seal, BuildAD, PQPair!BuildAD, Party, PQPair!Party, Peer, PQPair!Peer
<1> QED
  BY <1>2, <1>11, <1>14, <1>15

(* those with which a base session is started and sends,                   *)
LEMMA SameECPairOperators ==
  /\ \A dhs, bobPK : EC!InitInitiator(dhs, bobPK) = ECPair!InitInitiator(dhs, bobPK)
  /\ \A bobPair : EC!InitResponder(bobPair) = ECPair!InitResponder(bobPair)
  /\ \A s, fresh : EC!ReadyToSend(s, fresh) = ECPair!ReadyToSend(s, fresh)
  /\ \A s : (EC!CanSend(s) <=> ECPair!CanSend(s)) /\ EC!HeaderOf(s) = ECPair!HeaderOf(s)
  /\ \A s : EC!AdvanceSend(s) = ECPair!AdvanceSend(s)
  /\ \A ck : EC!DeriveMessageKey(ck) = ECPair!DeriveMessageKey(ck)
  /\ \A key, ad, text : EC!Seal(key, ad, text) = ECPair!Seal(key, ad, text)
  /\ \A x, y, hdr : EC!BuildAD(x, y, hdr) = ECPair!BuildAD(x, y, hdr)
  /\ EC!NoChainKey = ECPair!NoChainKey /\ EC!SessionFields = ECPair!SessionFields
  /\ Party = ECPair!Party /\ \A p : Peer(p) = ECPair!Peer(p)
  /\ \A p, i : KeyPair(p, i) = ECPair!KeyPair(p, i)
<1>1. /\ \A rk, dh : EC!DeriveRoot(rk, dh) = ECPair!DeriveRoot(rk, dh)
      /\ \A x, y : EC!SharedSecret(x, y) = ECPair!SharedSecret(x, y)
      /\ \A root : EC!FirstChainKey(root) = ECPair!FirstChainKey(root)
      /\ \A ck : EC!DeriveNextChainKey(ck) = ECPair!DeriveNextChainKey(ck)
      /\ EC!NoChainKey = ECPair!NoChainKey /\ EC!InitialRootKey = ECPair!InitialRootKey
  BY DEF EC!DeriveRoot, ECPair!DeriveRoot, EC!SharedSecret, ECPair!SharedSecret, EC!FirstChainKey,
         ECPair!FirstChainKey, EC!DeriveNextChainKey, ECPair!DeriveNextChainKey, EC!NoChainKey,
         ECPair!NoChainKey, EC!InitialRootKey, ECPair!InitialRootKey
<1>2. EC!NewReceiverChains = ECPair!NewReceiverChains /\ EC!NewStorage = ECPair!NewStorage
  BY DEF EC!NewReceiverChains, ECPair!NewReceiverChains, EC!NewStorage, ECPair!NewStorage,
         EC!Slots, ECPair!Slots, EC!EmptySlot, ECPair!EmptySlot
<1>3. /\ \A dhs, bobPK : EC!InitInitiator(dhs, bobPK) = ECPair!InitInitiator(dhs, bobPK)
      /\ \A bobPair : EC!InitResponder(bobPair) = ECPair!InitResponder(bobPair)
  BY <1>1, <1>2 DEF EC!InitInitiator, ECPair!InitInitiator, EC!InitResponder, ECPair!InitResponder
<1>4. /\ \A s, fresh : EC!ReadyToSend(s, fresh) = ECPair!ReadyToSend(s, fresh)
      /\ \A s : (EC!CanSend(s) <=> ECPair!CanSend(s)) /\ EC!HeaderOf(s) = ECPair!HeaderOf(s)
      /\ \A s : EC!AdvanceSend(s) = ECPair!AdvanceSend(s)
  BY <1>1 DEF EC!ReadyToSend, ECPair!ReadyToSend, EC!PerformDHRatchetSend,
              ECPair!PerformDHRatchetSend, EC!CanSend, ECPair!CanSend, EC!HeaderOf, ECPair!HeaderOf,
              EC!AdvanceSend, ECPair!AdvanceSend
<1>5. /\ \A ck : EC!DeriveMessageKey(ck) = ECPair!DeriveMessageKey(ck)
      /\ \A key, ad, text : EC!Seal(key, ad, text) = ECPair!Seal(key, ad, text)
      /\ \A x, y, hdr : EC!BuildAD(x, y, hdr) = ECPair!BuildAD(x, y, hdr)
      /\ EC!SessionFields = ECPair!SessionFields
  BY DEF EC!DeriveMessageKey, ECPair!DeriveMessageKey, EC!Seal, ECPair!Seal, EC!BuildAD,
         ECPair!BuildAD,
         EC!IdentityADPrefix, ECPair!IdentityADPrefix, EC!SessionFields, ECPair!SessionFields
<1>6. /\ Party = ECPair!Party /\ \A p : Peer(p) = ECPair!Peer(p)
      /\ \A p, i : KeyPair(p, i) = ECPair!KeyPair(p, i)
  BY DEF Party, ECPair!Party, Peer, ECPair!Peer, KeyPair, ECPair!KeyPair
<1> QED
  BY <1>1, <1>3, <1>4, <1>5, <1>6

(* and those with which it receives, the store and the buffer of chains    *)
(* included.                                                               *)
LEMMA SameECReceive ==
  \A s, hdr : EC!RatchetReceiveKey(s, hdr) = ECPair!RatchetReceiveKey(s, hdr)
<1>1. /\ \A rk, dh : EC!DeriveRoot(rk, dh) = ECPair!DeriveRoot(rk, dh)
      /\ \A x, y : EC!SharedSecret(x, y) = ECPair!SharedSecret(x, y)
      /\ \A root : EC!FirstChainKey(root) = ECPair!FirstChainKey(root)
      /\ \A ck : EC!DeriveNextChainKey(ck) = ECPair!DeriveNextChainKey(ck)
      /\ \A ck : EC!DeriveMessageKey(ck) = ECPair!DeriveMessageKey(ck)
      /\ \A ck, k : EC!ChainKeyAt(ck, k) = ECPair!ChainKeyAt(ck, k)
      /\ \A pk : EC!VerifyPublicKey(pk) <=> ECPair!VerifyPublicKey(pk)
      /\ \A pk, n : EC!StorageKey(pk, n) = ECPair!StorageKey(pk, n)
  BY DEF EC!DeriveRoot, ECPair!DeriveRoot, EC!SharedSecret, ECPair!SharedSecret,
         EC!FirstChainKey, ECPair!FirstChainKey, EC!DeriveNextChainKey,
         ECPair!DeriveNextChainKey, EC!DeriveMessageKey, ECPair!DeriveMessageKey, EC!ChainKeyAt,
         ECPair!ChainKeyAt, EC!VerifyPublicKey, ECPair!VerifyPublicKey, EC!StorageKey,
         ECPair!StorageKey
<1>2. ASSUME NEW st, NEW id
      PROVE  /\ EC!HasKey(st, id) <=> ECPair!HasKey(st, id)
             /\ EC!Lookup(st, id) = ECPair!Lookup(st, id)
             /\ EC!Consume(st, id) = ECPair!Consume(st, id)
  <2>1. EC!HasKey(st, id) <=> ECPair!HasKey(st, id)
    BY DEF EC!HasKey, ECPair!HasKey
  <2>2. EC!Lookup(st, id) = ECPair!Lookup(st, id)
    BY DEF EC!Lookup, ECPair!Lookup
  <2>3. EC!RemoveFirst(st.order, id) = ECPair!RemoveFirst(st.order, id)
    BY DEF EC!RemoveFirst, ECPair!RemoveFirst, EC!RemoveAt, ECPair!RemoveAt, EC!SelectInSeq,
           ECPair!SelectInSeq, EC!Min, ECPair!Min
  <2>4. EC!Consume(st, id) = ECPair!Consume(st, id)
    BY <2>3 DEF EC!Consume, ECPair!Consume, EC!Without, ECPair!Without
  <2> QED
    BY <2>1, <2>2, <2>4
<1>2a. ASSUME NEW st, NEW max, NEW id, NEW mk
       PROVE  EC!Store(st, max, id, mk) = ECPair!Store(st, max, id, mk)
  <2>1. EC!MakeRoom(st, max) = ECPair!MakeRoom(st, max)
    BY DEF EC!MakeRoom, ECPair!MakeRoom, EC!EvictOldest, ECPair!EvictOldest, EC!Without,
           ECPair!Without, EC!Cardinality, ECPair!Cardinality
  <2>2. EC!Insert(EC!MakeRoom(st, max), id, mk) = ECPair!Insert(EC!MakeRoom(st, max), id, mk)
    BY DEF EC!Insert, ECPair!Insert
  <2> QED
    BY <1>2, <2>1, <2>2 DEF EC!Store, ECPair!Store
<1>3. ASSUME NEW r, NEW i, NEW pk
      PROVE /\ EC!SlotAt(r, i) = ECPair!SlotAt(r, i)
            /\ EC!Holds(r, i, pk) <=> ECPair!Holds(r, i, pk)
            /\ EC!HasChain(r, pk) <=> ECPair!HasChain(r, pk)
            /\ EC!PositionOf(r, pk) = ECPair!PositionOf(r, pk)
  <2>1. EC!HasChain(r, pk) <=> ECPair!HasChain(r, pk)
    BY DEF EC!HasChain, ECPair!HasChain, EC!Holds, ECPair!Holds, EC!SlotAt, ECPair!SlotAt
  <2>2. EC!PositionOf(r, pk) = ECPair!PositionOf(r, pk)
    BY DEF EC!PositionOf, ECPair!PositionOf, EC!Holds, ECPair!Holds, EC!SlotAt, ECPair!SlotAt
  <2>3. EC!SlotAt(r, i) = ECPair!SlotAt(r, i) /\ (EC!Holds(r, i, pk) <=> ECPair!Holds(r, i, pk))
    BY DEF EC!Holds, ECPair!Holds, EC!SlotAt, ECPair!SlotAt
  <2> QED
    BY <2>1, <2>2, <2>3
<1>4. ASSUME NEW r, NEW pk, NEW ck, NEW nr
      PROVE  /\ EC!GetChain(r, pk) = ECPair!GetChain(r, pk)
             /\ EC!PutChain(r, pk, ck, nr) = ECPair!PutChain(r, pk, ck, nr)
             /\ EC!Push(r, pk, ck) = ECPair!Push(r, pk, ck)
  <2>1. EC!GetChain(r, pk) = ECPair!GetChain(r, pk)
    BY <1>3 DEF EC!GetChain, ECPair!GetChain
  <2>2. EC!PutChain(r, pk, ck, nr) = ECPair!PutChain(r, pk, ck, nr)
    BY <1>3 DEF EC!PutChain, ECPair!PutChain
  <2>3. EC!EvictHead(r) = ECPair!EvictHead(r)
    BY DEF EC!EvictHead, ECPair!EvictHead, EC!EmptySlot, ECPair!EmptySlot
  <2>4. EC!NewChain(pk, ck) = ECPair!NewChain(pk, ck)
    BY DEF EC!NewChain, ECPair!NewChain
  <2>5. EC!Push(r, pk, ck) = ECPair!Push(r, pk, ck)
    BY <1>3, <2>3, <2>4 DEF EC!Push, ECPair!Push
  <2> QED
    BY <2>1, <2>2, <2>5
<1>5. ASSUME NEW st, NEW pk, NEW ck, NEW lo, NEW hi
      PROVE EC!StoreKeys(st, pk, ck, lo, hi) = ECPair!StoreKeys(st, pk, ck, lo, hi)
  BY DEF EC!StoreKeys, ECPair!StoreKeys, EC!Store, ECPair!Store, EC!HasKey, ECPair!HasKey,
         EC!MakeRoom, ECPair!MakeRoom, EC!EvictOldest, ECPair!EvictOldest, EC!Insert,
         ECPair!Insert, EC!Without, ECPair!Without, EC!StorageKey, ECPair!StorageKey,
         EC!DeriveMessageKey, ECPair!DeriveMessageKey, EC!ChainKeyAt, ECPair!ChainKeyAt,
         EC!Cardinality, ECPair!Cardinality
<1>6. /\ \A err, s, key : EC!Outcome(err, s, key) = ECPair!Outcome(err, s, key)
      /\ \A err, s : EC!Failure(err, s) = ECPair!Failure(err, s)
      /\ \A a, b : EC!TooManySkipped(a, b) <=> ECPair!TooManySkipped(a, b)
  BY DEF EC!Outcome, ECPair!Outcome, EC!Failure, ECPair!Failure, EC!TooManySkipped,
         ECPair!TooManySkipped
<1>7. ASSUME NEW s, NEW pn
      PROVE  /\ EC!HasPrevChain(s) <=> ECPair!HasPrevChain(s)
             /\ EC!PrevNr(s) = ECPair!PrevNr(s)
             /\ EC!SkipPrevChain(s, pn) = ECPair!SkipPrevChain(s, pn)
  BY <1>3, <1>4, <1>5
     DEF EC!HasPrevChain, ECPair!HasPrevChain, EC!PrevNr, ECPair!PrevNr, EC!SkipPrevChain,
         ECPair!SkipPrevChain
<1>8. ASSUME NEW s, NEW hdr
      PROVE  EC!PerformDHRatchetRecv(s, hdr) = ECPair!PerformDHRatchetRecv(s, hdr)
  <2>1. /\ EC!VerifyPublicKey(hdr.pk) <=> ECPair!VerifyPublicKey(hdr.pk)
        /\ EC!HasPrevChain(s) <=> ECPair!HasPrevChain(s)
        /\ EC!TooManySkipped(EC!PrevNr(s), hdr.pn) <=>
             ECPair!TooManySkipped(ECPair!PrevNr(s), hdr.pn)
        /\ EC!SkipPrevChain(s, hdr.pn) = ECPair!SkipPrevChain(s, hdr.pn)
    BY <1>1, <1>6, <1>7
  <2>2. EC!DeriveRoot(s.rk, EC!SharedSecret(s.dhs, hdr.pk)) =
          ECPair!DeriveRoot(s.rk, ECPair!SharedSecret(s.dhs, hdr.pk))
    BY <1>1
  <2>3. ASSUME NEW root
        PROVE  EC!Push(s.recvChains, hdr.pk, EC!FirstChainKey(root)) =
                 ECPair!Push(s.recvChains, hdr.pk, ECPair!FirstChainKey(root))
    BY <1>1, <1>4
  <2> QED
    BY <1>6, <2>1, <2>2, <2>3 DEF EC!PerformDHRatchetRecv, ECPair!PerformDHRatchetRecv
<1>9. ASSUME NEW s, NEW hdr PROVE EC!IsNewEpoch(s, hdr) <=> ECPair!IsNewEpoch(s, hdr)
  BY <1>3 DEF EC!IsNewEpoch, ECPair!IsNewEpoch, EC!IsCurrentChain, ECPair!IsCurrentChain
<1>10. ASSUME NEW s, NEW hdr PROVE EC!ReceiveOnChain(s, hdr) = ECPair!ReceiveOnChain(s, hdr)
  BY <1>1, <1>3, <1>4, <1>5, <1>6 DEF EC!ReceiveOnChain, ECPair!ReceiveOnChain
<1>11. ASSUME NEW s, NEW id PROVE EC!TakeSkipped(s, id) = ECPair!TakeSkipped(s, id)
  BY <1>2, <1>6 DEF EC!TakeSkipped, ECPair!TakeSkipped
<1> SUFFICES ASSUME NEW s, NEW hdr
             PROVE  EC!RatchetReceiveKey(s, hdr) = ECPair!RatchetReceiveKey(s, hdr)
  OBVIOUS
<1> QED
  BY <1>1, <1>2, <1>6, <1>8, <1>9, <1>10, <1>11 DEF EC!RatchetReceiveKey, ECPair!RatchetReceiveKey

-----------------------------------------------------------------------------
(* The history of an open session is the session.                          *)
OpenKept ==
  /\ open = [p \in Party |-> open[p]]
  /\ \A p \in Party \ closed : open[p] = session[p]

(* The history of a step, whatever the step does.                          *)
Recorded == open' = [p \in Party |-> IF p \in closed' THEN open[p] ELSE session'[p]]

(* The history holds the open sessions from the start,                     *)
LEMMA InitOpenKept == HistoryInit => OpenKept
BY DEF HistoryInit, Init, OpenKept

(* and every step keeps it so.                                             *)
LEMMA StepOpenKept == OpenKept /\ [HistoryNext]_<<vars, open>> => OpenKept'
<1> SUFFICES ASSUME OpenKept, [HistoryNext]_<<vars, open>> PROVE OpenKept'
  OBVIOUS
<1>1. CASE HistoryNext
  BY <1>1 DEF HistoryNext, OpenKept
<1>2. CASE UNCHANGED <<vars, open>>
  BY <1>2 DEF vars, OpenKept
<1> QED
  BY <1>1, <1>2

(* A step that gives the open session of p the value s moves both halves   *)
(* of the history, and nothing else of it.                                 *)
LEMMA OpenMoved ==
  ASSUME PQInv, OpenKept, Recorded, NEW p \in Party, p \notin closed, NEW s,
         session' = [session EXCEPT ![p] = s], closed' = closed
  PROVE  /\ ECSessions' = [ECSessions EXCEPT ![p] = s.dr]
         /\ PQSessions' = [PQSessions EXCEPT ![p] = s.spqr]
         /\ ECSessions[p] = session[p].dr /\ PQSessions[p] = session[p].spqr
<1>1. session = [x \in Party |-> session[x]]
  BY DEF PQInv, TypeInv
<1>2. open'[p] = s
  BY <1>1 DEF Recorded
<1>3. ASSUME NEW x \in Party, x # p PROVE open'[x] = open[x]
  BY <1>1, <1>3 DEF Recorded, OpenKept
<1>4. open[p] = session[p]
  BY DEF OpenKept
<1> QED
  BY <1>2, <1>3, <1>4 DEF ECSessions, PQSessions

(* A step that changes no open session changes nothing of the history.     *)
LEMMA OpenStays ==
  ASSUME PQInv, OpenKept, Recorded, closed \subseteq closed',
         \A p \in Party \ closed' : session'[p] = session[p]
  PROVE  ECSessions' = ECSessions /\ PQSessions' = PQSessions
<1>1. \A p \in Party : open'[p] = open[p]
  BY DEF Recorded, OpenKept
<1> QED
  BY <1>1 DEF ECSessions, PQSessions

(* A hybrid key is made of one key of each half.                           *)
HybridKeys == \A m \in network : m.box.key = Hybrid(m.box.key.pq, m.box.key.ec)

(* Every message is sealed under a hybrid key, from the start              *)
LEMMA InitHybridKeys == Init => HybridKeys
BY DEF Init, HybridKeys

(* and after every step.                                                   *)
LEMMA StepHybridKeys == HybridKeys /\ [Next]_vars => HybridKeys'
<1> SUFFICES ASSUME HybridKeys, [Next]_vars PROVE HybridKeys'
  OBVIOUS
<1>1. ASSUME NEW p \in Party, Encrypt(p) PROVE HybridKeys'
  <2>1. PICK out, new :
          /\ out = EncryptKey(session[p], NextPair(p), TRUE)
          /\ new = [from |-> p, hdr |-> out.hdr,
                    box |-> EC!Seal(out.key, BuildAD(p, Peer(p), out.hdr), sent[p])]
    OBVIOUS
  <2>2. out.err = "ok" /\ network' = network \cup {new}
    BY <1>1, <2>1 DEF Encrypt
  <2>3. EncryptKey(session[p], NextPair(p), TRUE).err = "ok"
    BY <2>1, <2>2
  <2>4. out.key = Hybrid(PQL!SendKey(session[p].spqr).key,
                         RatchetSendKey(session[p].dr, NextPair(p)).key)
    <3>1. EncryptedBy(session[p], NextPair(p), TRUE, RatchetSendKey(session[p].dr, NextPair(p)),
                      PQL!SendKey(session[p].spqr))
      BY <2>3, EncryptedBoth
    <3> QED
      BY <2>1, <3>1 DEF EncryptedBy
  <2>5. new.box.key = Hybrid(new.box.key.pq, new.box.key.ec)
    BY <2>1, <2>4 DEF Hybrid, EC!Seal
  <2> QED
    BY <2>2, <2>5 DEF HybridKeys
<1>2. ASSUME network' = network PROVE HybridKeys'
  BY <1>2 DEF HybridKeys
<1>3. CASE Next
  BY <1>1, <1>2, <1>3 DEF Next, EncryptFails, DecryptAccepts, DecryptRejects, CloseSession
<1> QED
  BY <1>2, <1>3 DEF vars

-----------------------------------------------------------------------------
(* Encrypt is an Encrypt of the pair of base sessions,                     *)
LEMMA EncryptRefinesEC ==
  ASSUME PQInv, OpenKept, Recorded, NEW p \in Party, Encrypt(p)
  PROVE  ECPair!Encrypt(p)
<1>0. PICK d, fr, ready, out, new :
        /\ d = session[p].dr /\ fr = NextPair(p) /\ ready = EC!ReadyToSend(d, fr)
        /\ out = EncryptKey(session[p], fr, TRUE)
        /\ new = [from |-> p, hdr |-> out.hdr,
                  box |-> EC!Seal(out.key, BuildAD(p, Peer(p), out.hdr), sent[p])]
  OBVIOUS
<1>1. /\ sent[p] < MaxSends /\ out.err = "ok" /\ session' = [session EXCEPT ![p] = out.s]
      /\ sent' = [sent EXCEPT ![p] = @ + 1] /\ network' = network \cup {new}
      /\ generated' = IF d.dhRatchetPerformed THEN [generated EXCEPT ![p] = @ + 1] ELSE generated
      /\ accepted' = accepted /\ replayed' = replayed /\ closed' = closed
  BY <1>0 DEF Encrypt, Draws
<1>2. /\ RatchetSendKey(d, fr).err = "ok" /\ out.s.dr = RatchetSendKey(d, fr).s
      /\ out.hdr.ec = SentHeader(d, fr) /\ out.key.ec = RatchetSendKey(d, fr).key
      /\ PQL!SendKey(session[p].spqr).err = "ok"
  <2>1. EncryptedBy(session[p], fr, TRUE, RatchetSendKey(d, fr), PQL!SendKey(session[p].spqr))
    BY <1>0, <1>1, EncryptedBoth
  <2>2. /\ RatchetSendKey(d, fr).err = "ok" /\ PQL!SendKey(session[p].spqr).err = "ok"
        /\ out.s = [dr |-> RatchetSendKey(d, fr).s, spqr |-> PQL!SendKey(session[p].spqr).s]
        /\ out.hdr = [ec |-> SentHeader(d, fr), scka |-> PQL!SendKey(session[p].spqr).hdr]
        /\ out.key = Hybrid(PQL!SendKey(session[p].spqr).key, RatchetSendKey(d, fr).key)
    BY <1>0, <2>1 DEF EncryptedBy
  <2>3. /\ \A x, y : Hybrid(x, y).ec = y
        /\ \A x, y : out.hdr = [ec |-> x, scka |-> y] => out.hdr.ec = x
    BY DEF Hybrid
  <2> QED
    BY <2>2, <2>3
<1>3. /\ EC!CanSend(d) /\ out.s.dr = EC!AdvanceSend(ready)
      /\ out.key.ec = EC!DeriveMessageKey(ready.cks) /\ out.hdr.ec = EC!HeaderOf(ready)
  BY <1>0, <1>2 DEF RatchetSendKey, SentHeader, EC!Outcome, EC!Failure
<1>4. p \notin closed
  BY <1>2, HalfFacts, ErasedCannotSend
<1>5. ECSessions' = [ECSessions EXCEPT ![p] = EC!AdvanceSend(ready)] /\ ECSessions[p] = d
  <2>1. session' = [session EXCEPT ![p] = out.s] /\ closed' = closed
    BY <1>1
  <2>2. ECSessions' = [ECSessions EXCEPT ![p] = out.s.dr] /\ ECSessions[p] = session[p].dr
    BY <2>1, <1>4, OpenMoved
  <2> QED
    BY <2>2, <1>0, <1>3
<1>6. ECMessage(new) =
        [from |-> p, hdr |-> EC!HeaderOf(ready),
         box |-> EC!Seal(EC!DeriveMessageKey(ready.cks),
                         EC!BuildAD(p, Peer(p), EC!HeaderOf(ready)), sent[p])]
  BY <1>0, <1>3 DEF ECMessage, EC!Seal
<1>7. ECMessage(new) = ECPair!MessageOf(p, ready)
  BY <1>6, SameECPairOperators DEF ECPair!MessageOf
<1>8. ECNetwork' = ECNetwork \cup {ECPair!MessageOf(p, ready)}
  BY <1>1, <1>7 DEF ECNetwork, ECMessage
<1>9. ECPair!ReadyToSend(ECSessions[p], ECPair!KeyPair(p, generated[p])) = ready
  BY <1>0, <1>5, SameECPairOperators DEF NextPair
<1>10. ECSessions[p].dhRatchetPerformed = d.dhRatchetPerformed /\ ECPair!CanSend(ECSessions[p])
  BY <1>3, <1>5, SameECPairOperators
<1> QED
  BY <1>1, <1>5, <1>8, <1>9, <1>10, SameECPairOperators DEF ECPair!Encrypt

(* and one of the pair of SPQR sessions.                                   *)
LEMMA EncryptRefinesPQ ==
  ASSUME PQInv, OpenKept, Recorded, NEW p \in Party, Encrypt(p)
  PROVE  PQPair!Encrypt(p)
<1>0. PICK q, fr, pq, out, new :
        /\ q = session[p].spqr /\ fr = NextPair(p) /\ pq = PQL!SendKey(q)
        /\ out = EncryptKey(session[p], fr, TRUE)
        /\ new = [from |-> p, hdr |-> out.hdr,
                  box |-> EC!Seal(out.key, BuildAD(p, Peer(p), out.hdr), sent[p])]
  OBVIOUS
<1>1. /\ sent[p] < MaxSends /\ out.err = "ok" /\ session' = [session EXCEPT ![p] = out.s]
      /\ sent' = [sent EXCEPT ![p] = @ + 1] /\ network' = network \cup {new}
      /\ accepted' = accepted /\ replayed' = replayed /\ closed' = closed
  BY <1>0 DEF Encrypt
<1>2. pq.err = "ok" /\ out.s.spqr = pq.s /\ out.hdr.scka = pq.hdr /\ out.key.pq = pq.key
  <2>1. EncryptedBy(session[p], fr, TRUE, RatchetSendKey(session[p].dr, fr), pq)
    BY <1>0, <1>1, EncryptedBoth
  <2>2. /\ pq.err = "ok"
        /\ out.s = [dr |-> RatchetSendKey(session[p].dr, fr).s, spqr |-> pq.s]
        /\ out.hdr = [ec |-> SentHeader(session[p].dr, fr), scka |-> pq.hdr]
        /\ out.key = Hybrid(pq.key, RatchetSendKey(session[p].dr, fr).key)
    BY <1>0, <2>1 DEF EncryptedBy
  <2>3. /\ \A x, y : Hybrid(x, y).pq = x
        /\ \A x, y : out.hdr = [ec |-> x, scka |-> y] => out.hdr.scka = y
    BY DEF Hybrid
  <2> QED
    BY <2>2, <2>3
<1>3. p \notin closed
  BY <1>0, <1>2, HalfFacts, ErasedCannotSend
<1>4. PQSessions' = [PQSessions EXCEPT ![p] = pq.s] /\ PQSessions[p] = q
  <2>1. session' = [session EXCEPT ![p] = out.s] /\ closed' = closed
    BY <1>1
  <2>2. PQSessions' = [PQSessions EXCEPT ![p] = out.s.spqr] /\ PQSessions[p] = session[p].spqr
    BY <2>1, <1>3, OpenMoved
  <2> QED
    BY <2>2, <1>0, <1>2
<1>5. PQPair!SendKey(PQSessions[p]) = pq
  BY <1>0, <1>4, SamePQOperators, SamePQPairOperators
<1>6. PQMessage(new) =
        [from |-> p, hdr |-> pq.hdr,
         box |-> PQPair!Seal(pq.key, PQPair!BuildAD(p, PQPair!Peer(p), pq.hdr), sent[p])]
  BY <1>0, <1>2, SamePQPairOperators DEF PQMessage, EC!Seal
<1>7. PQNetwork' =
        PQNetwork \cup
          {[from |-> p, hdr |-> pq.hdr,
            box |-> PQPair!Seal(pq.key, PQPair!BuildAD(p, PQPair!Peer(p), pq.hdr), sent[p])]}
  BY <1>1, <1>6 DEF PQNetwork, PQMessage
<1> QED
  BY <1>1, <1>2, <1>4, <1>5, <1>7 DEF PQPair!Encrypt

(* What an accepted message shows: it was taken whole, by both halves of   *)
(* an open session, each with its part of the key.                         *)
TookWhole(p, m, t, ec, pq) ==
  /\ p \notin closed /\ ec.err = "ok" /\ pq.err = "ok"
  /\ m.box.key.ec = ec.key /\ m.box.key.pq = pq.key
  /\ t = [dr |-> ec.s, spqr |-> pq.s]

(* The message that Decrypt accepts is one that was sent, undamaged.       *)
LEMMA AcceptTakesWhole ==
  ASSUME PQInv, HybridKeys, NEW p \in Party, NEW m \in network, m.from = Peer(p),
         NEW a \in Arrivals(m), DecryptArrival(p, a).err = "ok"
  PROVE  TookWhole(p, m, DecryptArrival(p, a).s, EC!RatchetReceiveKey(session[p].dr, m.hdr.ec),
                   PQL!ReceiveKey(session[p].spqr, m.hdr.scka))
<1>1. a.hdr = m.hdr
  BY OpensOwnHeader
<1>2. p \notin closed
  BY AcceptTakes DEF Took
<1>3. PICK ec, pq : /\ ec = EC!RatchetReceiveKey(session[p].dr, m.hdr.ec)
                    /\ pq = PQL!ReceiveKey(session[p].spqr, m.hdr.scka)
  OBVIOUS
<1>4. /\ ec.err = "ok" /\ pq.err = "ok" /\ DecryptArrival(p, a).s = [dr |-> ec.s, spqr |-> pq.s]
      /\ EC!Opens(Hybrid(pq.key, ec.key), BuildAD(Peer(p), p, m.hdr), a.box)
  <2>1. /\ Decrypt(session[p], m.hdr, BuildAD(Peer(p), p, m.hdr), a.box).err = "ok"
        /\ DecryptArrival(p, a) = Decrypt(session[p], m.hdr, BuildAD(Peer(p), p, m.hdr), a.box)
    BY <1>1 DEF DecryptArrival
  <2>2. DecryptedBy(session[p], m.hdr, BuildAD(Peer(p), p, m.hdr), a.box, ec, pq)
    BY <1>3, <2>1, DecryptedBoth
  <2> QED
    BY <2>1, <2>2 DEF DecryptedBy
<1>5. a.box.key = Hybrid(pq.key, ec.key)
  BY <1>4 DEF EC!Opens
<1>6. a.box.key = m.box.key
  <2>1. WellFormed(m)
    BY DEF PQInv, MessagesOK
  <2>2. a.box.key \in {m.box.key, EC!ForeignKey}
    BY <2>1 DEF Arrivals, Intact, DamagedEC, DamagedSCKA, DamagedBody, Recombined, WellFormed
  <2>3. DOMAIN Hybrid(pq.key, ec.key) # DOMAIN EC!ForeignKey
    BY DEF Hybrid, EC!ForeignKey
  <2> QED
    BY <1>5, <2>2, <2>3
<1>7. m.box.key.ec = ec.key /\ m.box.key.pq = pq.key
  BY <1>5, <1>6 DEF Hybrid
<1> QED
  BY <1>2, <1>3, <1>4, <1>7 DEF TookWhole

(* A Decrypt that returns a message is one of the pair of base sessions,   *)
LEMMA AcceptRefinesEC ==
  ASSUME PQInv, HybridKeys, OpenKept, Recorded, NEW p \in Party, DecryptAccepts(p)
  PROVE  ECPair!DecryptAccepts(p)
<1>1. PICK m, a, t, x, ec :
        /\ m \in network /\ a \in Arrivals(m) /\ m.from = Peer(p)
        /\ DecryptArrival(p, a).err = "ok" /\ t = DecryptArrival(p, a).s
        /\ session' = [session EXCEPT ![p] = t]
        /\ accepted' = [accepted EXCEPT ![p] = @ \cup {a.box.text}]
        /\ replayed' = [replayed EXCEPT ![p] = @ \cup ({a.box.text} \cap accepted[p])]
        /\ generated' = generated /\ sent' = sent /\ network' = network /\ closed' = closed
        /\ x = ECMessage(m) /\ ec = EC!RatchetReceiveKey(session[p].dr, m.hdr.ec)
  BY DEF DecryptAccepts
<1>2. TookWhole(p, m, t, ec, PQL!ReceiveKey(session[p].spqr, m.hdr.scka)) /\ a.box.text = m.box.text
  BY <1>1, AcceptTakesWhole, OpensOwnHeader
<1>3. /\ p \notin closed /\ ec.err = "ok" /\ m.box.key.ec = ec.key
      /\ t = [dr |-> ec.s, spqr |-> PQL!ReceiveKey(session[p].spqr, m.hdr.scka).s]
  BY <1>2 DEF TookWhole
<1>4. ECSessions' = [ECSessions EXCEPT ![p] = ec.s] /\ ECSessions[p] = session[p].dr
  <2>1. ECSessions' = [ECSessions EXCEPT ![p] = t.dr] /\ ECSessions[p] = session[p].dr
    BY <1>1, <1>3, OpenMoved
  <2> QED
    BY <1>3, <2>1
<1>5. /\ x \in ECNetwork /\ x.from = ECPair!Peer(p) /\ x.hdr = m.hdr.ec
      /\ x.box.text = a.box.text /\ x.box.key = ec.key
      /\ x.box.ad = ECPair!BuildAD(ECPair!Peer(p), p, x.hdr)
  BY <1>1, <1>2, <1>3, Parties, SameECPairOperators DEF ECNetwork, ECMessage, EC!Seal
<1>6. x \in ECPair!Arrivals(x)
  BY DEF ECPair!Arrivals, ECPair!Intact
<1>7. ECPair!DecryptArrival(p, x) = ec
  <2>1. ECPair!RatchetReceiveKey(ECSessions[p], x.hdr) = ec
    BY <1>1, <1>4, <1>5, SameECReceive
  <2>2. ECPair!Opens(ec.key, ECPair!BuildAD(ECPair!Peer(p), p, x.hdr), x.box)
    BY <1>5 DEF ECPair!Opens
  <2>3. ECPair!Decrypt(ECSessions[p], x.hdr, ECPair!BuildAD(ECPair!Peer(p), p, x.hdr), x.box) = ec
    BY <1>3, <2>1, <2>2 DEF ECPair!Decrypt
  <2> QED
    BY <2>3 DEF ECPair!DecryptArrival
<1>8. ECNetwork' = ECNetwork
  BY <1>1 DEF ECNetwork, ECMessage
<1> QED
  BY <1>1, <1>3, <1>4, <1>5, <1>6, <1>7, <1>8 DEF ECPair!DecryptAccepts

(* and one of the pair of SPQR sessions.                                   *)
LEMMA AcceptRefinesPQ ==
  ASSUME PQInv, HybridKeys, OpenKept, Recorded, NEW p \in Party, DecryptAccepts(p)
  PROVE  PQPair!DecryptAccepts(p)
<1>1. PICK m, a, t, x, pq :
        /\ m \in network /\ a \in Arrivals(m) /\ m.from = Peer(p)
        /\ DecryptArrival(p, a).err = "ok" /\ t = DecryptArrival(p, a).s
        /\ session' = [session EXCEPT ![p] = t]
        /\ accepted' = [accepted EXCEPT ![p] = @ \cup {a.box.text}]
        /\ replayed' = [replayed EXCEPT ![p] = @ \cup ({a.box.text} \cap accepted[p])]
        /\ generated' = generated /\ sent' = sent /\ network' = network /\ closed' = closed
        /\ x = PQMessage(m) /\ pq = PQL!ReceiveKey(session[p].spqr, m.hdr.scka)
  BY DEF DecryptAccepts
<1>2. /\ TookWhole(p, m, t, EC!RatchetReceiveKey(session[p].dr, m.hdr.ec), pq)
      /\ a.box.text = m.box.text
  BY <1>1, AcceptTakesWhole, OpensOwnHeader
<1>3. /\ p \notin closed /\ pq.err = "ok" /\ m.box.key.pq = pq.key
      /\ t = [dr |-> EC!RatchetReceiveKey(session[p].dr, m.hdr.ec).s, spqr |-> pq.s]
  BY <1>2 DEF TookWhole
<1>4. PQSessions' = [PQSessions EXCEPT ![p] = pq.s] /\ PQSessions[p] = session[p].spqr
  <2>1. PQSessions' = [PQSessions EXCEPT ![p] = t.spqr] /\ PQSessions[p] = session[p].spqr
    BY <1>1, <1>3, OpenMoved
  <2> QED
    BY <1>3, <2>1
<1>5. /\ x \in PQNetwork /\ x.from = PQPair!Peer(p) /\ x.hdr = m.hdr.scka
      /\ x.box.text = a.box.text /\ x.box.key = pq.key
      /\ x.box.ad = PQPair!BuildAD(PQPair!Peer(p), p, x.hdr)
  BY <1>1, <1>2, <1>3, Parties, SamePQPairOperators DEF PQNetwork, PQMessage, PQ!Seal
<1>6. x \in PQPair!Arrivals(x)
  BY DEF PQPair!Arrivals, PQPair!Intact
<1>7. PQPair!DecryptArrival(p, x) = pq
  <2>1. PQPair!ReceiveKey(PQSessions[p], x.hdr) = pq
    BY <1>1, <1>4, <1>5, SamePQOperators, SamePQPairOperators
  <2>2. PQPair!Opens(pq.key, PQPair!BuildAD(PQPair!Peer(p), p, x.hdr), x.box)
    BY <1>5 DEF PQPair!Opens
  <2>3. PQPair!Decrypt(PQSessions[p], x.hdr, PQPair!BuildAD(PQPair!Peer(p), p, x.hdr), x.box) = pq
    BY <1>3, <2>1, <2>2 DEF PQPair!Decrypt
  <2> QED
    BY <2>3 DEF PQPair!DecryptArrival
<1>8. PQNetwork' = PQNetwork
  BY <1>1 DEF PQNetwork, PQMessage
<1> QED
  BY <1>1, <1>3, <1>4, <1>5, <1>6, <1>7, <1>8 DEF PQPair!DecryptAccepts

-----------------------------------------------------------------------------
(* The halves start as pairs of sessions of their kind.                    *)
LEMMA HistoryInitRefines == HistoryInit => ECPair!Init /\ PQPair!Init
<1> SUFFICES ASSUME HistoryInit PROVE ECPair!Init /\ PQPair!Init
  OBVIOUS
<1>1. ECPair!Init
  <2>1. ECSessions = [p \in Party |-> IF p = Initiator
                                      THEN EC!InitInitiator(KeyPair(Initiator, 0),
                                                            KeyPair(Responder, 0))
                                      ELSE EC!InitResponder(KeyPair(Responder, 0))]
    BY DEF HistoryInit, Init, ECSessions, InitInitiatorTripleRatchet, InitResponderTripleRatchet
  <2>2. ECNetwork = {}
    BY DEF HistoryInit, Init, ECNetwork
  <2> QED
    BY <2>1, <2>2, SameECPairOperators DEF HistoryInit, Init, ECPair!Init
<1>2. PQPair!Init
  <2>1. PQSessions = [p \in Party |-> PQ!InitSCKA(Direction(p))]
    BY PartyAssumption DEF HistoryInit, Init, PQSessions, Party, Direction,
       InitInitiatorTripleRatchet, InitResponderTripleRatchet
  <2>2. PQNetwork = {}
    BY DEF HistoryInit, Init, PQNetwork
  <2>3. \A p : Direction(p) = PQPair!Direction(p)
    BY DEF Direction, PQPair!Direction
  <2> QED
    BY <2>1, <2>2, <2>3, SamePQPairOperators DEF HistoryInit, Init, PQPair!Init
<1> QED
  BY <1>1, <1>2

(* What the refinement rests on.                                           *)
HistoryInv == PQInv /\ HybridKeys /\ OpenKept

(* Every step is one of either pair, or changes neither: what fails in a   *)
(* session of this kind leaves no trace, and what is done with a closed    *)
(* one is not recorded.                                                    *)
LEMMA HistoryStepRefines ==
  HistoryInv /\ [HistoryNext]_<<vars, open>> =>
    [ECPair!Next]_(ECPair!vars) /\ [PQPair!Next]_(PQPair!vars)
<1> SUFFICES ASSUME PQInv, HybridKeys, OpenKept, [HistoryNext]_<<vars, open>>
             PROVE  [ECPair!Next]_(ECPair!vars) /\ [PQPair!Next]_(PQPair!vars)
  BY DEF HistoryInv
<1>1. CASE UNCHANGED <<vars, open>>
  <2>1. ECSessions' = ECSessions /\ PQSessions' = PQSessions
    BY <1>1 DEF ECSessions, PQSessions
  <2>2. ECNetwork' = ECNetwork /\ PQNetwork' = PQNetwork
    BY <1>1 DEF ECNetwork, PQNetwork, vars, ECMessage, PQMessage
  <2> QED
    BY <1>1, <2>1, <2>2 DEF vars, ECPair!vars, PQPair!vars
<1>2. CASE HistoryNext
  <2>1. Recorded /\ Next
    BY <1>2 DEF HistoryNext, Recorded
  <2>2. PICK p \in Party : \/ Encrypt(p) \/ EncryptFails(p)
                           \/ DecryptAccepts(p) \/ DecryptRejects(p) \/ CloseSession(p)
    BY <2>1 DEF Next
  <2>3. p \in ECPair!Party /\ p \in PQPair!Party
    BY SameECPairOperators, SamePQPairOperators
  <2>4. CASE Encrypt(p)
    BY <2>1, <2>3, <2>4, EncryptRefinesEC, EncryptRefinesPQ DEF ECPair!Next, PQPair!Next
  <2>5. CASE DecryptAccepts(p)
    BY <2>1, <2>3, <2>5, AcceptRefinesEC, AcceptRefinesPQ DEF ECPair!Next, PQPair!Next
  <2>6. ASSUME closed \subseteq closed', \A x \in Party \ closed' : session'[x] = session[x],
               generated' = generated, sent' = sent, network' = network, accepted' = accepted,
               replayed' = replayed
        PROVE  [ECPair!Next]_(ECPair!vars) /\ [PQPair!Next]_(PQPair!vars)
    <3>1. ECSessions' = ECSessions /\ PQSessions' = PQSessions
      BY <2>1, <2>6, OpenStays
    <3>2. ECNetwork' = ECNetwork /\ PQNetwork' = PQNetwork
      BY <2>6 DEF ECNetwork, PQNetwork, ECMessage, PQMessage
    <3> QED
      BY <2>6, <3>1, <3>2 DEF ECPair!vars, PQPair!vars
  <2>7. CASE EncryptFails(p) \/ DecryptRejects(p)
    <3>1. /\ session' = session /\ sent' = sent /\ network' = network
          /\ accepted' = accepted /\ replayed' = replayed /\ closed' = closed
          /\ generated' = generated
      BY <2>7, FailureChangesNothing
    <3> QED
      BY <2>6, <3>1
  <2>8. CASE CloseSession(p)
    <3>1. /\ session' = [session EXCEPT ![p] = CloseBoth(session[p])] /\ closed' = closed \cup {p}
          /\ generated' = generated /\ sent' = sent /\ network' = network
          /\ accepted' = accepted /\ replayed' = replayed
      BY <2>8 DEF CloseSession
    <3>2. session = [x \in Party |-> session[x]]
      BY DEF PQInv, TypeInv
    <3>3. \A x \in Party \ closed' : session'[x] = session[x]
      BY <3>1, <3>2
    <3> QED
      BY <2>6, <3>1, <3>3
  <2> QED
    BY <2>2, <2>4, <2>5, <2>7, <2>8
<1> QED
  BY <1>1, <1>2

(* The history adds nothing to what the system does.                       *)
LEMMA HistoryKeepsSpec == HistorySpec => Spec
<1>1. HistoryInit => Init
  BY DEF HistoryInit
<1>2. [HistoryNext]_<<vars, open>> => [Next]_vars
  BY DEF HistoryNext
<1> QED
  BY <1>1, <1>2, PTL DEF HistorySpec, Spec

(* What the refinement rests on holds in every reachable state.            *)
LEMMA SpecHistoryInv == HistorySpec => []HistoryInv
<1>1. Spec => []HybridKeys
  BY InitHybridKeys, StepHybridKeys, PTL DEF Spec
<1>2. HistorySpec => []OpenKept
  BY InitOpenKept, StepOpenKept, PTL DEF HistorySpec
<1> QED
  BY <1>1, <1>2, HistoryKeepsSpec, SpecPQInv, PTL DEF HistoryInv

(* While their sessions are open the EC halves are a pair of base Double   *)
(* Ratchet sessions: every step of the system is a step of that            *)
(* specification or none.                                                  *)
THEOREM ECHalvesRefine == HistorySpec => ECPair!Spec
<1>1. HistoryInit => ECPair!Init
  BY HistoryInitRefines
<1>2. HistoryInv /\ [HistoryNext]_<<vars, open>> => [ECPair!Next]_(ECPair!vars)
  BY HistoryStepRefines
<1> QED
  BY <1>1, <1>2, SpecHistoryInv, PTL DEF HistorySpec, ECPair!Spec

(* While their sessions are open the PQ halves are a pair of SPQR          *)
(* sessions.                                                               *)
THEOREM PQHalvesRefine == HistorySpec => PQPair!Spec
<1>1. HistoryInit => PQPair!Init
  BY HistoryInitRefines
<1>2. HistoryInv /\ [HistoryNext]_<<vars, open>> => [PQPair!Next]_(PQPair!vars)
  BY HistoryStepRefines
<1> QED
  BY <1>1, <1>2, SpecHistoryInv, PTL DEF HistorySpec, PQPair!Spec

(* A session that has the keys of both halves of a message has the         *)
(* message.                                                                *)
LEMMA HalvesAccept ==
  ASSUME HistoryInv, NEW p \in Party, p \notin closed, NEW m \in network, m.from = Peer(p),
         ECPair!Accepts(p, ECMessage(m)), PQPair!Accepts(p, PQMessage(m))
  PROVE  Accepts(p, m)
<1>1. ECSessions[p] = session[p].dr /\ PQSessions[p] = session[p].spqr
  BY DEF HistoryInv, OpenKept, ECSessions, PQSessions
<1>2. WellFormed(m) /\ m.box.key = Hybrid(m.box.key.pq, m.box.key.ec)
  BY DEF HistoryInv, PQInv, MessagesOK, HybridKeys
<1>3. PICK ec, pq : /\ ec = EC!RatchetReceiveKey(session[p].dr, m.hdr.ec)
                    /\ pq = PQ!ReceiveKey(session[p].spqr, m.hdr.scka)
  OBVIOUS
<1>4. ec.err = "ok" /\ ec.key = m.box.key.ec
  <2>1. /\ ECMessage(m).hdr = m.hdr.ec /\ ECMessage(m).box.key = m.box.key.ec
    BY DEF ECMessage, EC!Seal
  <2>2. ECPair!RatchetReceiveKey(ECSessions[p], ECMessage(m).hdr) = ec
    BY <1>1, <1>3, <2>1, SameECReceive
  <2>3. ECPair!Decrypt(ECSessions[p], ECMessage(m).hdr,
                       ECPair!BuildAD(ECPair!Peer(p), p, ECMessage(m).hdr),
                       ECMessage(m).box).err = "ok"
    BY DEF ECPair!Accepts, ECPair!DecryptArrival
  <2> QED
    BY <2>1, <2>2, <2>3 DEF ECPair!Decrypt, ECPair!Opens, ECPair!Failure, ECPair!Outcome
<1>5. pq.err = "ok" /\ pq.key = m.box.key.pq
  <2>1. /\ PQMessage(m).hdr = m.hdr.scka /\ PQMessage(m).box.key = m.box.key.pq
    BY DEF PQMessage, PQ!Seal
  <2>2. PQPair!ReceiveKey(PQSessions[p], PQMessage(m).hdr) = pq
    BY <1>1, <1>3, <2>1, SamePQPairOperators
  <2>3. PQPair!Decrypt(PQSessions[p], PQMessage(m).hdr,
                       PQPair!BuildAD(PQPair!Peer(p), p, PQMessage(m).hdr),
                       PQMessage(m).box).err = "ok"
    BY DEF PQPair!Accepts, PQPair!DecryptArrival
  <2> QED
    BY <2>1, <2>2, <2>3 DEF PQPair!Decrypt, PQPair!Opens, PQPair!Failure, PQPair!Outcome
<1>6. EC!Opens(Hybrid(pq.key, ec.key), BuildAD(Peer(p), p, m.hdr), m.box)
  BY <1>2, <1>4, <1>5, Parties DEF EC!Opens, WellFormed
<1>7. m.hdr.scka # NilHeader
  <2>1. DOMAIN m.hdr.scka # DOMAIN NilHeader
    BY <1>2 DEF WellFormed, NilHeader
  <2> QED
    BY <2>1
<1>8. Decrypt(session[p], m.hdr, BuildAD(Peer(p), p, m.hdr), m.box).err = "ok"
  BY <1>3, <1>4, <1>5, <1>6, <1>7 DEF Decrypt, Outcome
<1> QED
  BY <1>8 DEF Accepts, DecryptArrival

(* An outstanding message is outstanding in both halves.                   *)
LEMMA HalvesOutstanding ==
  ASSUME HistoryInv, NEW p \in Party, NEW m \in Outstanding(p)
  PROVE  ECMessage(m) \in ECPair!Outstanding(p) /\ PQMessage(m) \in PQPair!Outstanding(p)
<1>1. m \in network /\ m.from = Peer(p) /\ m.box.text \notin accepted[p]
  BY DEF Outstanding
<1>2. /\ ECMessage(m) \in ECNetwork /\ ECMessage(m).from = m.from
      /\ ECMessage(m).box.text = m.box.text
  BY <1>1 DEF ECNetwork, ECMessage, EC!Seal
<1>3. /\ PQMessage(m) \in PQNetwork /\ PQMessage(m).from = m.from
      /\ PQMessage(m).box.text = m.box.text
  BY <1>1 DEF PQNetwork, PQMessage, PQ!Seal
<1> QED
  BY <1>1, <1>2, <1>3, SameECPairOperators, SamePQPairOperators
  DEF ECPair!Outstanding, PQPair!Outstanding

(* In a conversation in which nobody sends more than MaxSkip + 1 messages, *)
(* every message of the three newest epochs that was sent to an open       *)
(* session and not yet accepted would be accepted now: whatever arrives,   *)
(* the halves never part company.                                          *)
THEOREM RecentMessagesDecryptable ==
  ASSUME MaxSends <= MaxSkip + 1
  PROVE  HistorySpec => []RecentOutstandingDecryptable
<1>1. ECPair!Spec => [](ECPair!NoReplays => ECPair!OutstandingDecryptable)
  BY ECPair!ShortConversationsKeepMessages, BoundAssumption, PartyAssumption, KeyAssumption,
     CapacityAssumption, MaxSkipAssumption
<1>2. PQPair!Spec => []PQPair!RecentOutstandingDecryptable
  BY PQPair!RecentMessagesDecryptable, BoundAssumption, PartyAssumption, MaxSkipAssumption
<1>3. /\ HistoryInv /\ (ECPair!NoReplays => ECPair!OutstandingDecryptable)
      /\ PQPair!RecentOutstandingDecryptable
      => RecentOutstandingDecryptable
  <2> SUFFICES ASSUME HistoryInv, ECPair!NoReplays => ECPair!OutstandingDecryptable,
                      PQPair!RecentOutstandingDecryptable,
                      NEW p \in Party \ closed, NEW m \in Outstanding(p),
                      m.hdr.scka.msg.epoch >= session[p].spqr.epoch - 2
               PROVE  Accepts(p, m)
    BY DEF RecentOutstandingDecryptable
  <2>1. ECPair!NoReplays
    BY SameECPairOperators DEF HistoryInv, PQInv, TypeInv, ECPair!NoReplays
  <2>2. ECPair!Accepts(p, ECMessage(m))
    BY <2>1, HalvesOutstanding, SameECPairOperators DEF ECPair!OutstandingDecryptable
  <2>3. PQMessage(m).hdr.msg.epoch >= PQSessions[p].epoch - 2
    BY DEF PQMessage, PQSessions, HistoryInv, OpenKept
  <2>4. PQPair!Accepts(p, PQMessage(m))
    BY <2>3, HalvesOutstanding, SamePQPairOperators DEF PQPair!RecentOutstandingDecryptable
  <2>5. m \in network /\ m.from = Peer(p)
    BY DEF Outstanding
  <2> QED
    BY <2>2, <2>4, <2>5, HalvesAccept
<1> QED
  BY <1>1, <1>2, <1>3, ECHalvesRefine, PQHalvesRefine, SpecHistoryInv, PTL
=============================================================================
