------------------------- MODULE DoubleRatchetProofs -------------------------
(***************************************************************************)
(* Theorems about the pair of base sessions, for every bound, every buffer *)
(* capacity and every MaxSkip. The first part is about what a session      *)
(* sends, and holds whatever the receiving loops compute. In the second    *)
(* part these matter: the keys of the receiver are those of the sender,    *)
(* and the counts a sender announces are right. The third is about the     *)
(* order in which messages are accepted, and needs who answers whom: the   *)
(* parties take turns at the DH ratchet, messages are named in the order   *)
(* in which they are sent, and the receiver stands right after the newest  *)
(* message it accepted. The fourth part counts: what the bounded store     *)
(* holds is bounded by what the application has in flight, so nothing is   *)
(* evicted.                                                                *)
(***************************************************************************)
EXTENDS SessionLemmas, MCDoubleRatchet, FiniteSetTheorems, TLAPS

(* A session value has exactly the fields of the struct.  Nothing is said  *)
(* about the receiving chains and the skipped keys: the theorems hold      *)
(* whatever the receiving loops compute.                                   *)
SessionShape(s) == s = [f \in SessionFields |-> s[f]]

(* What receiving leaves alone, and what it may do to dhr and the flag.    *)
KeepsSendHalf(s, t, pk) ==
  /\ SessionShape(t)
  /\ t.cks = s.cks /\ t.ns = s.ns /\ t.pn = s.pn /\ t.dhs = s.dhs
  /\ \/ t.dhr = s.dhr /\ t.dhRatchetPerformed = s.dhRatchetPerformed
     \/ t.dhr = pk /\ t.dhRatchetPerformed = TRUE

-----------------------------------------------------------------------------
(* Field by field, rollback() restores the whole snapshot.                 *)
LEMMA RollbackRestores ==
  ASSUME NEW s, NEW t, SessionShape(s), SessionShape(t)
  PROVE  Rollback(t, s) = s
BY DEF Rollback, SessionShape, SessionFields

(* performDHRatchetRecv touches no field of the sending half but rk.       *)
LEMMA RatchetRecvKeepsSendHalf ==
  ASSUME NEW s, NEW hdr, SessionShape(s)
  PROVE  KeepsSendHalf(s, PerformDHRatchetRecv(s, hdr).s, hdr.pk)
BY DEF PerformDHRatchetRecv, KeepsSendHalf, SessionShape, SessionFields,
       Outcome, Failure

(* Skipping and deriving on a chain touch no field of the sending half.    *)
LEMMA ReceiveOnChainKeepsSendHalf ==
  ASSUME NEW s, NEW hdr, SessionShape(s)
  PROVE  LET t == ReceiveOnChain(s, hdr).s
         IN  /\ SessionShape(t)
             /\ t.cks = s.cks /\ t.ns = s.ns /\ t.pn = s.pn /\ t.dhs = s.dhs
             /\ t.dhr = s.dhr /\ t.dhRatchetPerformed = s.dhRatchetPerformed
BY DEF ReceiveOnChain, SessionShape, SessionFields, Outcome, Failure

(* Nor does any path of ratchetReceiveKey but for rk, dhr and the flag.    *)
LEMMA ReceiveKeyKeepsSendHalf ==
  ASSUME NEW s, NEW hdr, SessionShape(s)
  PROVE  KeepsSendHalf(s, RatchetReceiveKey(s, hdr).s, hdr.pk)
<1> DEFINE ratchet == IF IsNewEpoch(s, hdr) THEN PerformDHRatchetRecv(s, hdr)
                      ELSE Outcome("ok", s, NoKey)
<1>1. KeepsSendHalf(s, ratchet.s, hdr.pk)
  BY RatchetRecvKeepsSendHalf DEF KeepsSendHalf, Outcome
<1>2. KeepsSendHalf(s, ReceiveOnChain(ratchet.s, hdr).s, hdr.pk)
  BY <1>1, ReceiveOnChainKeepsSendHalf DEF KeepsSendHalf
<1>3. KeepsSendHalf(s, TakeSkipped(s, StorageKey(hdr.pk, hdr.n)).s, hdr.pk)
  BY DEF TakeSkipped, KeepsSendHalf, SessionShape, SessionFields, Outcome
<1> QED
  BY <1>1, <1>2, <1>3 DEF RatchetReceiveKey

(* Decrypt either fails and returns the session it was given, or succeeds, *)
(* having opened the box under the associated data it was given.           *)
LEMMA DecryptOutcome ==
  ASSUME NEW s, NEW hdr, NEW ad, NEW box, SessionShape(s)
  PROVE  LET out == Decrypt(s, hdr, ad, box)
         IN  /\ out.err # "ok" => out.s = s
             /\ out.err = "ok" => KeepsSendHalf(s, out.s, hdr.pk) /\ box.ad = ad
<1> DEFINE got == RatchetReceiveKey(s, hdr)
<1>1. KeepsSendHalf(s, got.s, hdr.pk)
  BY ReceiveKeyKeepsSendHalf
<1>2. Rollback(got.s, Record(s)) = s
  BY <1>1, RollbackRestores DEF KeepsSendHalf, Record, SessionShape
<1> QED
  BY <1>1, <1>2 DEF Decrypt, Failure, Outcome, Opens

-----------------------------------------------------------------------------
(* The inductive invariant of the sending halves.                          *)

(* The public keys party p has generated so far.                           *)
OwnKeys(p) == {KeyPair(p, i) : i \in 0 .. generated[p] - 1}

(* ck is position n of a chain started with the sender's key pk: the last  *)
(* thing mixed into the root is the DH of pk with one of the given keys.   *)
ChainOf(pk, keys, n, ck) ==
  \E r : \E k \in keys :
    ck = [root |-> DeriveRoot(r, SharedSecret(pk, k)), step |-> n]

(* Both sessions are well shaped; dhs is the newest key of its owner, dhr  *)
(* one of the peer's, and the sending chain stands at ns.                  *)
SendHalfInv ==
  /\ DOMAIN session = Party /\ session = [p \in Party |-> session[p]]
  /\ generated \in [Party -> Nat \ {0}] /\ sent \in [Party -> Nat]
  /\ \A p \in Party :
       LET s == session[p]
       IN  /\ SessionShape(s)
           /\ s.ns \in Nat
           /\ s.dhs = KeyPair(p, generated[p] - 1)
           /\ s.dhr \in OwnKeys(Peer(p)) \cup {ZeroKey}
           /\ s.dhRatchetPerformed => s.dhr \in OwnKeys(Peer(p))
           /\ s.cks # NoChainKey => ChainOf(s.dhs, OwnKeys(Peer(p)), s.ns, s.cks)

(* A sent message was sealed at position N of the chain of its ratchet     *)
(* key; those of the chain in force lie before ns.                         *)
MessageInv ==
  \A m \in network :
    /\ DOMAIN m = {"from", "hdr", "box"}
    /\ m.from \in Party
    /\ m.hdr.n \in Nat
    /\ m.hdr.pk \in OwnKeys(m.from)
    /\ m.box.ad = BuildAD(m.from, Peer(m.from), m.hdr)
    /\ ChainOf(m.hdr.pk, OwnKeys(Peer(m.from)), m.hdr.n, m.box.key)
    /\ m.hdr.pk = session[m.from].dhs => m.hdr.n < session[m.from].ns

(* No root seeds sending chains of both parties.                           *)
RootsInUse(p) ==
  {m.box.key.root : m \in {x \in network : x.from = p}} \cup
  {session[p].cks.root : c \in {session[p].cks} \ {NoChainKey}}
RootsDisjoint == RootsInUse(Initiator) \cap RootsInUse(Responder) = {}

IInv == SendHalfInv /\ MessageInv /\ HeaderNamesMessage /\ RootsDisjoint

-----------------------------------------------------------------------------
(* There are two parties, each the peer of the other.                      *)
LEMMA PeerFacts ==
  ASSUME NEW p \in Party
  PROVE  /\ Peer(p) \in Party /\ Peer(p) # p /\ Peer(Peer(p)) = p
         /\ Party = {p, Peer(p)}
BY PartyAssumption DEF Party, Peer

(* A root of a chain of one party, seeded with a key pair that the peer    *)
(* has not generated yet, seeds no chain of the peer.                      *)
LEMMA FreshRoot ==
  ASSUME NEW p \in Party, NEW r1, NEW r2, NEW k1, NEW i \in Nat, NEW j \in 0 .. i - 1,
         NEW n \in Nat,
         DeriveRoot(r1, SharedSecret(KeyPair(p, i), k1))
           = DeriveRoot(r2, SharedSecret(KeyPair(Peer(p), n), KeyPair(p, j)))
  PROVE  FALSE
<1>1. SharedSecret(KeyPair(p, i), k1)
        = SharedSecret(KeyPair(Peer(p), n), KeyPair(p, j))
  BY DEF DeriveRoot
<1>2. KeyPair(p, i) \in {KeyPair(Peer(p), n), KeyPair(p, j)}
  BY <1>1 DEF SharedSecret
<1> QED
  BY <1>2, PeerFacts DEF KeyPair

(* The sessions InitInitiator and InitResponder return satisfy IInv.       *)
LEMMA InitIInv == Init => IInv
<1> SUFFICES ASSUME Init PROVE IInv
  OBVIOUS
<1>1. SessionShape(InitInitiator(KeyPair(Initiator, 0), KeyPair(Responder, 0)))
  BY DEF InitInitiator, SessionShape, SessionFields
<1>2. SessionShape(InitResponder(KeyPair(Responder, 0)))
  BY DEF InitResponder, SessionShape, SessionFields
<1>3. \A p \in Party : OwnKeys(p) = {KeyPair(p, 0)}
  BY DEF Init, OwnKeys
<1>4. ChainOf(KeyPair(Initiator, 0), OwnKeys(Responder), 0,
             InitInitiator(KeyPair(Initiator, 0), KeyPair(Responder, 0)).cks)
  BY <1>3 DEF ChainOf, InitInitiator, FirstChainKey, Peer, Party
<1>5. SendHalfInv
  BY <1>1, <1>2, <1>3, <1>4, PartyAssumption
  DEF Init, SendHalfInv, InitInitiator, InitResponder, Party, Peer
<1>6. MessageInv /\ HeaderNamesMessage
  BY DEF Init, MessageInv, HeaderNamesMessage
<1>7. RootsInUse(Responder) = {}
  BY PartyAssumption DEF Init, RootsInUse, InitResponder, Party
<1> QED
  BY <1>5, <1>6, <1>7 DEF IInv, RootsDisjoint

-----------------------------------------------------------------------------
(* A chain of a ratchet key stays one as the peer generates more keys.     *)
LEMMA ChainMonotone ==
  ASSUME NEW pk, NEW K, NEW L, NEW n, NEW ck, K \subseteq L, ChainOf(pk, K, n, ck)
  PROVE  ChainOf(pk, L, n, ck)
BY DEF ChainOf

(* KDF_CK moves a chain one number on and keeps its root.                  *)
LEMMA ChainStep ==
  ASSUME NEW pk, NEW K, NEW n, NEW ck, ChainOf(pk, K, n, ck)
  PROVE  /\ ChainOf(pk, K, n + 1, DeriveNextChainKey(ck))
         /\ DeriveNextChainKey(ck).root = ck.root
BY DEF ChainOf, DeriveNextChainKey

(* A generated key names its owner and was generated before now.           *)
LEMMA KeyOwner ==
  ASSUME NEW p, NEW i, NEW q, KeyPair(p, i) \in OwnKeys(q)
  PROVE  p = q /\ i \in 0 .. generated[q] - 1
BY DEF OwnKeys, KeyPair

(* What IInv says of one session.                                          *)
LEMMA SessionFacts ==
  ASSUME IInv, NEW p \in Party
  PROVE  LET s == session[p]
         IN  /\ Peer(p) \in Party /\ Peer(p) # p /\ Peer(Peer(p)) = p
             /\ generated[p] \in Nat \ {0} /\ generated[Peer(p)] \in Nat \ {0}
             /\ SessionShape(s)
             /\ s.ns \in Nat
             /\ s.dhs = KeyPair(p, generated[p] - 1)
             /\ s.dhr \in OwnKeys(Peer(p)) \cup {ZeroKey}
             /\ s.dhRatchetPerformed => s.dhr \in OwnKeys(Peer(p))
             /\ s.cks # NoChainKey => ChainOf(s.dhs, OwnKeys(Peer(p)), s.ns, s.cks)
BY PeerFacts DEF IInv, SendHalfInv

(* What IInv says of one sent message.                                     *)
LEMMA MessageFacts ==
  ASSUME IInv, NEW m \in network
  PROVE  /\ DOMAIN m = {"from", "hdr", "box"}
         /\ m.from \in Party
         /\ m.hdr.n \in Nat
         /\ m.hdr.pk \in OwnKeys(m.from)
         /\ m.box.ad = BuildAD(m.from, Peer(m.from), m.hdr)
         /\ ChainOf(m.hdr.pk, OwnKeys(Peer(m.from)), m.hdr.n, m.box.key)
         /\ m.hdr.pk = session[m.from].dhs => m.hdr.n < session[m.from].ns
BY DEF IInv, MessageInv

(* Every root in use by q has a key of q and a generated key of its peer   *)
(* mixed in last.                                                          *)
LEMMA RootInUse ==
  ASSUME IInv, NEW q \in Party, NEW root \in RootsInUse(q)
  PROVE  \E n \in Nat, k \in OwnKeys(Peer(q)) : \E r :
            root = DeriveRoot(r, SharedSecret(KeyPair(q, n), k))
<1>1. CASE \E m \in network : m.from = q /\ root = m.box.key.root
  <2>1. PICK m \in network : m.from = q /\ root = m.box.key.root
    BY <1>1
  <2>2. PICK n \in 0 .. generated[q] - 1 : m.hdr.pk = KeyPair(q, n)
    BY <2>1, MessageFacts DEF OwnKeys
  <2>3. ChainOf(KeyPair(q, n), OwnKeys(Peer(q)), m.hdr.n, m.box.key)
    BY <2>1, <2>2, MessageFacts
  <2>4. n \in Nat
    BY <2>2, SessionFacts
  <2> QED
    BY <2>1, <2>3, <2>4 DEF ChainOf
<1>2. CASE session[q].cks # NoChainKey /\ root = session[q].cks.root
  <2>1. ChainOf(KeyPair(q, generated[q] - 1), OwnKeys(Peer(q)), session[q].ns,
                session[q].cks)
    BY <1>2, SessionFacts
  <2>2. generated[q] - 1 \in Nat
    BY SessionFacts
  <2> QED
    BY <1>2, <2>1, <2>2 DEF ChainOf
<1> QED
  BY <1>1, <1>2 DEF RootsInUse

GeneratedAfter(p) ==
  IF session[p].dhRatchetPerformed THEN generated[p] + 1 ELSE generated[p]

(* When Encrypt is about to seal, the session stands on a chain of its     *)
(* newest key, at a number no sent message has, under a root the peer does *)
(* not use: either the chain it was on, or a fresh one.                    *)
ReadyInv(p, s) ==
  /\ SessionShape(s)
  /\ s.ns \in Nat
  /\ s.dhs = KeyPair(p, GeneratedAfter(p) - 1)
  /\ s.dhr = session[p].dhr
  /\ ~s.dhRatchetPerformed
  /\ ChainOf(s.dhs, OwnKeys(Peer(p)), s.ns, s.cks)
  /\ \A m \in network : m.hdr.pk = s.dhs => m.hdr.n < s.ns
  /\ s.cks.root \notin RootsInUse(Peer(p))

(* performDHRatchetSend starts a chain nobody has used; without it the     *)
(* chain in force is still good at ns.                                     *)
LEMMA ReadyToSendInv ==
  ASSUME IInv, NEW p \in Party, CanSend(session[p])
  PROVE  ReadyInv(p, ReadyToSend(session[p], KeyPair(p, generated[p])))
<1> DEFINE s == session[p]
           q == Peer(p)
           fresh == KeyPair(p, generated[p])
           t == PerformDHRatchetSend(s, fresh)
<1>1. /\ q \in Party /\ q # p /\ Peer(q) = p
      /\ generated[p] \in Nat \ {0} /\ generated[q] \in Nat \ {0}
      /\ SessionShape(s)
  BY SessionFacts
<1>2. CASE s.dhRatchetPerformed
  <2>1. /\ SessionShape(t) /\ t.ns = 0 /\ t.dhs = fresh /\ t.dhr = s.dhr
        /\ t.dhRatchetPerformed = FALSE
        /\ t.cks = [root |-> DeriveRoot(s.rk, SharedSecret(fresh, s.dhr)), step |-> 0]
    BY <1>1 DEF PerformDHRatchetSend, SessionShape, SessionFields, FirstChainKey
  <2>2. s.dhr \in OwnKeys(q)
    BY <1>2, SessionFacts
  <2>3. ChainOf(t.dhs, OwnKeys(q), t.ns, t.cks)
    BY <2>1, <2>2 DEF ChainOf
  <2>4. ASSUME NEW m \in network
        PROVE  m.hdr.pk # fresh
    <3>1. fresh \notin OwnKeys(m.from)
      BY <1>1, KeyOwner
    <3> QED
      BY <3>1, MessageFacts
  <2>5. ASSUME NEW root \in RootsInUse(q)
        PROVE  root # t.cks.root
    <3>1. PICK n \in Nat, k \in OwnKeys(p) :
            \E r : root = DeriveRoot(r, SharedSecret(KeyPair(q, n), k))
      BY <1>1, RootInUse
    <3>2. PICK j \in 0 .. generated[p] - 1 : k = KeyPair(p, j)
      BY DEF OwnKeys
    <3>3. t.cks.root = DeriveRoot(s.rk, SharedSecret(KeyPair(p, generated[p]), s.dhr))
      BY <2>1
    <3> HIDE DEF t
    <3> QED
      BY <1>1, <3>1, <3>2, <3>3, FreshRoot
  <2>6. GeneratedAfter(p) - 1 = generated[p]
    BY <1>1, <1>2 DEF GeneratedAfter
  <2> HIDE DEF t
  <2>7. ReadyInv(p, t)
    BY <2>1, <2>3, <2>4, <2>5, <2>6 DEF ReadyInv
  <2> QED
    BY <1>2, <2>7 DEF ReadyToSend, t
<1>3. CASE ~s.dhRatchetPerformed
  <2>1. s.cks # NoChainKey
    BY <1>3 DEF CanSend
  <2>2. s.cks.root \in RootsInUse(p)
    BY <2>1 DEF RootsInUse
  <2>3. s.cks.root \notin RootsInUse(q)
    BY <2>2, <1>1 DEF IInv, RootsDisjoint, Party
  <2>4. ASSUME NEW m \in network, m.hdr.pk = s.dhs
        PROVE  m.hdr.n < s.ns
    <3>1. m.from = p
      BY <2>4, SessionFacts, MessageFacts, KeyOwner
    <3> QED
      BY <2>4, <3>1, MessageFacts
  <2>5. GeneratedAfter(p) = generated[p]
    BY <1>3 DEF GeneratedAfter
  <2>6. ReadyInv(p, s)
    BY <1>3, <2>1, <2>3, <2>4, <2>5, SessionFacts DEF ReadyInv
  <2> QED
    BY <1>3, <2>6 DEF ReadyToSend
<1> QED
  BY <1>2, <1>3

-----------------------------------------------------------------------------
(* Encrypt preserves the invariant.                                        *)
LEMMA EncryptInv ==
  ASSUME IInv, NEW p \in Party, Encrypt(p)
  PROVE  IInv'
<1> DEFINE q == Peer(p)
           s == ReadyToSend(session[p], KeyPair(p, generated[p]))
           new == MessageOf(p, s)
           u == AdvanceSend(s)
<1>1. /\ q \in Party /\ q # p /\ Peer(q) = p /\ Party = {p, q}
      /\ generated[p] \in Nat \ {0} /\ generated[q] \in Nat \ {0}
      /\ generated \in [Party -> Nat \ {0}] /\ sent \in [Party -> Nat]
      /\ session = [x \in Party |-> session[x]]
  BY PeerFacts DEF IInv, SendHalfInv
<1>2. ReadyInv(p, s)
  BY ReadyToSendInv DEF Encrypt
<1>3. /\ generated'[p] = GeneratedAfter(p) /\ generated'[q] = generated[q]
      /\ generated' \in [Party -> Nat \ {0}]
      /\ generated[p] <= generated'[p]
  BY <1>1 DEF Encrypt, GeneratedAfter
<1>4. /\ network' = network \cup {new}
      /\ session' = [session EXCEPT ![p] = u]
      /\ sent' \in [Party -> Nat]
  BY <1>1 DEF Encrypt
<1>5. session'[p] = u /\ session'[q] = session[q] /\ session' = [x \in Party |-> session'[x]]
      /\ DOMAIN session' = Party
  BY <1>1, <1>4
<1>6. OwnKeys(q)' = OwnKeys(q) /\ OwnKeys(p) \subseteq OwnKeys(p)'
  BY <1>1, <1>3 DEF OwnKeys
<1>7. /\ SessionShape(u) /\ u.ns = s.ns + 1 /\ u.cks = DeriveNextChainKey(s.cks)
      /\ u.dhs = s.dhs /\ u.dhr = s.dhr /\ u.dhRatchetPerformed = s.dhRatchetPerformed
  BY <1>2 DEF ReadyInv, AdvanceSend, SessionShape, SessionFields
<1>8. /\ DOMAIN new = {"from", "hdr", "box"}
      /\ new.from = p /\ new.hdr.pk = s.dhs /\ new.hdr.n = s.ns
      /\ new.box.ad = BuildAD(p, q, new.hdr) /\ new.box.key = s.cks
  BY DEF MessageOf, HeaderOf, Seal, DeriveMessageKey
<1> HIDE DEF q, s, new, u
<1>9. SendHalfInv'
  <2>1. ASSUME NEW x \in Party
        PROVE  /\ SessionShape(session'[x])
               /\ session'[x].ns \in Nat
               /\ session'[x].dhs = KeyPair(x, generated'[x] - 1)
               /\ session'[x].dhr \in OwnKeys(Peer(x))' \cup {ZeroKey}
               /\ session'[x].dhRatchetPerformed => session'[x].dhr \in OwnKeys(Peer(x))'
               /\ session'[x].cks # NoChainKey =>
                    ChainOf(session'[x].dhs, OwnKeys(Peer(x))', session'[x].ns, session'[x].cks)
    <3>1. CASE x = p
      <4>1. s.dhr \in OwnKeys(q)' \cup {ZeroKey}
        BY <1>2, <1>6, SessionFacts DEF ReadyInv, q
      <4>2. ChainOf(u.dhs, OwnKeys(q)', u.ns, u.cks)
        BY <1>2, <1>6, <1>7, ChainStep DEF ReadyInv, q
      <4>3. u.ns \in Nat /\ u.dhs = KeyPair(p, generated'[p] - 1) /\ ~u.dhRatchetPerformed
        BY <1>2, <1>3, <1>7 DEF ReadyInv
      <4> QED
        BY <3>1, <4>1, <4>2, <4>3, <1>5, <1>7 DEF q
    <3>2. CASE x = q
      <4>1. session'[x] = session[x] /\ generated'[x] = generated[x]
        BY <3>2, <1>3, <1>5
      <4>2. OwnKeys(Peer(x)) \subseteq OwnKeys(Peer(x))'
        BY <3>2, <1>1, <1>6
      <4>3. /\ SessionShape(session[x]) /\ session[x].ns \in Nat
            /\ session[x].dhs = KeyPair(x, generated[x] - 1)
            /\ session[x].dhr \in OwnKeys(Peer(x)) \cup {ZeroKey}
            /\ session[x].dhRatchetPerformed => session[x].dhr \in OwnKeys(Peer(x))
            /\ session[x].cks # NoChainKey =>
                  ChainOf(session[x].dhs, OwnKeys(Peer(x)), session[x].ns, session[x].cks)
        BY SessionFacts
      <4>4. session[x].cks # NoChainKey =>
              ChainOf(session[x].dhs, OwnKeys(Peer(x))', session[x].ns, session[x].cks)
        BY <4>2, <4>3, ChainMonotone
      <4> QED
        BY <4>1, <4>2, <4>3, <4>4
    <3> QED
      BY <1>1, <3>1, <3>2
  <2> QED
    BY <2>1, <1>3, <1>4, <1>5 DEF SendHalfInv
<1>10. MessageInv'
  <2> SUFFICES ASSUME NEW m \in network'
               PROVE  /\ DOMAIN m = {"from", "hdr", "box"}
                      /\ m.from \in Party
                      /\ m.hdr.n \in Nat
                      /\ m.hdr.pk \in OwnKeys(m.from)'
                      /\ m.box.ad = BuildAD(m.from, Peer(m.from), m.hdr)
                      /\ ChainOf(m.hdr.pk, OwnKeys(Peer(m.from))', m.hdr.n, m.box.key)
                      /\ m.hdr.pk = session'[m.from].dhs => m.hdr.n < session'[m.from].ns
    BY DEF MessageInv
  <2>1. CASE m = new
    <3>1. s.dhs \in OwnKeys(p)'
      BY <1>1, <1>2, <1>3 DEF ReadyInv, OwnKeys
    <3>2. ChainOf(s.dhs, OwnKeys(q)', s.ns, s.cks) /\ s.ns \in Nat
      BY <1>2, <1>6 DEF ReadyInv, q
    <3>3. s.ns < session'[p].ns
      BY <3>2, <1>5, <1>7
    <3> QED
      BY <2>1, <3>1, <3>2, <3>3, <1>8 DEF q
  <2>2. CASE m \in network
    <3>1. /\ DOMAIN m = {"from", "hdr", "box"}
          /\ m.from \in Party /\ m.hdr.n \in Nat /\ m.hdr.pk \in OwnKeys(m.from)
          /\ m.box.ad = BuildAD(m.from, Peer(m.from), m.hdr)
          /\ ChainOf(m.hdr.pk, OwnKeys(Peer(m.from)), m.hdr.n, m.box.key)
          /\ m.hdr.pk = session[m.from].dhs => m.hdr.n < session[m.from].ns
      BY <2>2, MessageFacts
    <3>2. ASSUME NEW x \in Party PROVE OwnKeys(x) \subseteq OwnKeys(x)' /\ Peer(x) \in Party
      BY <1>1, <1>6, PeerFacts
    <3>3. ChainOf(m.hdr.pk, OwnKeys(Peer(m.from))', m.hdr.n, m.box.key)
      BY <3>1, <3>2, ChainMonotone
    <3>4. m.hdr.pk = session'[m.from].dhs => m.hdr.n < session'[m.from].ns
      <4>1. CASE m.from = p
        <5>1. s.ns \in Nat /\ (m.hdr.pk = s.dhs => m.hdr.n < s.ns)
          BY <2>2, <1>2 DEF ReadyInv
        <5> QED
          BY <4>1, <5>1, <3>1, <1>5, <1>7
      <4>2. CASE m.from = q
        BY <4>2, <3>1, <1>5
      <4> QED
        BY <3>1, <4>1, <4>2, <1>1
    <3> QED
      BY <3>1, <3>2, <3>3, <3>4
  <2> QED
    BY <1>4, <2>1, <2>2
<1>11. HeaderNamesMessage'
  <2>1. ASSUME NEW m \in network
        PROVE  ~(m.hdr.pk = new.hdr.pk /\ m.hdr.n = new.hdr.n)
    <3>1. m.hdr.pk = s.dhs => m.hdr.n < s.ns
      BY <1>2 DEF ReadyInv
    <3>2. s.ns \in Nat
      BY <1>2 DEF ReadyInv
    <3> QED
      BY <3>1, <3>2, <1>8
  <2>2. HeaderNamesMessage
    BY DEF IInv
  <2> QED
    BY <1>4, <2>1, <2>2 DEF HeaderNamesMessage
<1>12. RootsDisjoint'
  <2>1. RootsInUse(p)' \subseteq RootsInUse(p) \cup {s.cks.root}
    <3>1. u.cks.root = s.cks.root
      BY <1>2, <1>7, ChainStep DEF ReadyInv
    <3> QED
      BY <3>1, <1>4, <1>5, <1>8 DEF RootsInUse
  <2>2. RootsInUse(q)' = RootsInUse(q)
    <3>1. {x \in network' : x.from = q} = {x \in network : x.from = q}
      BY <1>1, <1>4, <1>8
    <3> QED
      BY <3>1, <1>5 DEF RootsInUse
  <2>3. s.cks.root \notin RootsInUse(q)
    BY <1>2 DEF ReadyInv, q
  <2>4. RootsInUse(p) \cap RootsInUse(q) = {}
    BY <1>1 DEF IInv, RootsDisjoint, Party
  <2>5. RootsInUse(p)' \cap RootsInUse(q)' = {}
    BY <2>1, <2>2, <2>3, <2>4
  <2> QED
    BY <2>5, <1>1 DEF RootsDisjoint, Party
<1> QED
  BY <1>9, <1>10, <1>11, <1>12 DEF IInv

-----------------------------------------------------------------------------
(* A step that changes one session but none of what the invariant says of  *)
(* its sending half, or takes its sending chain away, and sends nothing,   *)
(* preserves the invariant.                                                *)
LEMMA SendHalfKept ==
  ASSUME IInv, NEW p \in Party,
         session' = [session EXCEPT ![p] = session'[p]],
         UNCHANGED <<generated, sent, network>>,
         SessionShape(session'[p]),
         session'[p].cks \in {session[p].cks, NoChainKey}, session'[p].ns = session[p].ns,
         session'[p].dhs = session[p].dhs,
         session'[p].dhr \in OwnKeys(Peer(p)) \cup {ZeroKey},
         session'[p].dhRatchetPerformed => session'[p].dhr \in OwnKeys(Peer(p))
  PROVE  IInv'
<1>1. \A x \in Party : OwnKeys(x)' = OwnKeys(x)
  BY DEF OwnKeys
<1>2. /\ session = [x \in Party |-> session[x]]
      /\ generated \in [Party -> Nat \ {0}] /\ sent \in [Party -> Nat]
  BY DEF IInv, SendHalfInv
<1>3. /\ \A x \in Party : x # p => session'[x] = session[x]
      /\ session' = [x \in Party |-> session'[x]] /\ DOMAIN session' = Party
  BY <1>2
<1>4. \A x \in Party : /\ session'[x].cks \in {session[x].cks, NoChainKey}
                       /\ session'[x].ns = session[x].ns
                       /\ session'[x].dhs = session[x].dhs
  BY <1>3
<1>5. SendHalfInv'
  <2>1. ASSUME NEW x \in Party
        PROVE  /\ SessionShape(session'[x])
               /\ session'[x].ns \in Nat
               /\ session'[x].dhs = KeyPair(x, generated[x] - 1)
               /\ session'[x].dhr \in OwnKeys(Peer(x)) \cup {ZeroKey}
               /\ session'[x].dhRatchetPerformed => session'[x].dhr \in OwnKeys(Peer(x))
               /\ session'[x].cks # NoChainKey =>
                    ChainOf(session'[x].dhs, OwnKeys(Peer(x)), session'[x].ns, session'[x].cks)
    <3>1. CASE x = p
      BY <3>1, <1>4, SessionFacts
    <3>2. CASE x # p
      BY <3>2, <1>3, SessionFacts
    <3> QED
      BY <3>1, <3>2
  <2>2. \A x \in Party : OwnKeys(Peer(x))' = OwnKeys(Peer(x))
    BY <1>1, PeerFacts
  <2> QED
    BY <2>1, <2>2, <1>2, <1>3 DEF SendHalfInv
<1>6. MessageInv'
  <2>1. ASSUME NEW m \in network
        PROVE  /\ DOMAIN m = {"from", "hdr", "box"}
               /\ m.from \in Party
               /\ m.hdr.n \in Nat
               /\ m.hdr.pk \in OwnKeys(m.from)'
               /\ m.box.ad = BuildAD(m.from, Peer(m.from), m.hdr)
               /\ ChainOf(m.hdr.pk, OwnKeys(Peer(m.from))', m.hdr.n, m.box.key)
               /\ m.hdr.pk = session'[m.from].dhs => m.hdr.n < session'[m.from].ns
    BY <1>1, <1>4, MessageFacts, PeerFacts
  <2> QED
    BY <2>1 DEF MessageInv
<1>7. HeaderNamesMessage'
  BY DEF IInv, HeaderNamesMessage
<1>8. \A x \in Party : RootsInUse(x)' \subseteq RootsInUse(x)
  BY <1>4 DEF RootsInUse
<1>9. RootsDisjoint'
  BY <1>8 DEF IInv, RootsDisjoint, Party
<1> QED
  BY <1>5, <1>6, <1>7, <1>9 DEF IInv

(* An accepted arrival carries the header its sender sealed.               *)
LEMMA AcceptedHeaderGenuine ==
  ASSUME IInv, NEW p \in Party, NEW m \in network, NEW a \in Arrivals(m),
         m.from = Peer(p), DecryptArrival(p, a).err = "ok"
  PROVE  a.hdr.pk \in OwnKeys(Peer(p))
<1>1. a.box.ad = BuildAD(Peer(p), p, a.hdr)
  BY SessionFacts, DecryptOutcome DEF DecryptArrival
<1>2. m.box.ad = BuildAD(Peer(p), p, m.hdr)
  BY MessageFacts, SessionFacts
<1>3. a.hdr = m.hdr \/ a.box = m.box
  BY MessageFacts DEF Arrivals, Intact, DamagedHeader, DamagedBody
<1>4. a.hdr = m.hdr
  BY <1>1, <1>2, <1>3 DEF BuildAD
<1> QED
  BY <1>4, MessageFacts

(* A message that Decrypt accepts moves dhr to a key its sender generated, *)
(* and leaves the sending half alone.                                      *)
LEMMA DecryptAcceptsInv ==
  ASSUME IInv, NEW p \in Party, DecryptAccepts(p)
  PROVE  IInv'
<1>0. PICK m \in network : \E a \in Arrivals(m) :
        /\ m.from = Peer(p)
        /\ DecryptArrival(p, a).err = "ok"
        /\ session' = [session EXCEPT ![p] = DecryptArrival(p, a).s]
        /\ UNCHANGED <<generated, sent, network>>
  BY DEF DecryptAccepts
<1>1. PICK a \in Arrivals(m) :
        /\ m.from = Peer(p)
        /\ DecryptArrival(p, a).err = "ok"
        /\ session' = [session EXCEPT ![p] = DecryptArrival(p, a).s]
        /\ UNCHANGED <<generated, sent, network>>
  BY <1>0
<1>2. session = [x \in Party |-> session[x]]
  BY DEF IInv, SendHalfInv
<1>3. session'[p] = DecryptArrival(p, a).s
  BY <1>1, <1>2
<1>4. KeepsSendHalf(session[p], session'[p], a.hdr.pk)
  BY <1>1, <1>3, SessionFacts, DecryptOutcome DEF DecryptArrival
<1>5. a.hdr.pk \in OwnKeys(Peer(p))
  BY <1>1, AcceptedHeaderGenuine
<1> QED
  BY <1>1, <1>3, <1>4, <1>5, SessionFacts, SendHalfKept DEF KeepsSendHalf

(* A message that Decrypt rejects changes nothing.                         *)
LEMMA DecryptRejectsInv ==
  ASSUME IInv, NEW p \in Party, DecryptRejects(p)
  PROVE  IInv'
<1>0. PICK m \in network : \E a \in Arrivals(m) :
        /\ DecryptArrival(p, a).err # "ok"
        /\ session' = [session EXCEPT ![p] = DecryptArrival(p, a).s]
        /\ UNCHANGED <<generated, sent, network>>
  BY DEF DecryptRejects
<1>1. PICK a \in Arrivals(m) :
        /\ DecryptArrival(p, a).err # "ok"
        /\ session' = [session EXCEPT ![p] = DecryptArrival(p, a).s]
        /\ UNCHANGED <<generated, sent, network>>
  BY <1>0
<1>2. session = [x \in Party |-> session[x]]
  BY DEF IInv, SendHalfInv
<1>3. DecryptArrival(p, a).s = session[p]
  BY <1>1, SessionFacts, DecryptOutcome DEF DecryptArrival
<1>4. session' = [session EXCEPT ![p] = session[p]] /\ session'[p] = session[p]
  BY <1>1, <1>2, <1>3
<1> QED
  BY <1>1, <1>4, SessionFacts, SendHalfKept

(* An Encrypt that fails for want of a key pair changes pn only, of which  *)
(* the invariant says nothing.                                             *)
LEMMA EncryptFailsInv ==
  ASSUME IInv, NEW p \in Party, EncryptFails(p)
  PROVE  IInv'
<1>1. /\ session' = [session EXCEPT ![p] = DHRatchetSendFails(session[p])]
      /\ UNCHANGED <<generated, sent, network>>
  BY DEF EncryptFails
<1>2. session = [x \in Party |-> session[x]] /\ SessionShape(session[p])
  BY SessionFacts DEF IInv, SendHalfInv
<1>3. session'[p] = DHRatchetSendFails(session[p])
  BY <1>1, <1>2
<1>4. /\ SessionShape(session'[p])
      /\ session'[p].cks = session[p].cks /\ session'[p].ns = session[p].ns
      /\ session'[p].dhs = session[p].dhs /\ session'[p].dhr = session[p].dhr
      /\ session'[p].dhRatchetPerformed = session[p].dhRatchetPerformed
  BY <1>2, <1>3 DEF DHRatchetSendFails, SessionShape, SessionFields
<1> QED
  BY <1>1, <1>3, <1>4, SessionFacts, SendHalfKept

(* Every step preserves the invariant.                                     *)
LEMMA StepIInv == IInv /\ [Next]_vars => IInv'
<1> SUFFICES ASSUME IInv, [Next]_vars PROVE IInv'
  OBVIOUS
<1>1. CASE Next
  BY <1>1, EncryptInv, EncryptFailsInv, DecryptAcceptsInv, DecryptRejectsInv DEF Next
<1>2. CASE UNCHANGED vars
  <2>1. Initiator \in Party /\ session = [x \in Party |-> session[x]]
    BY DEF IInv, SendHalfInv, Party
  <2>2. session' = [session EXCEPT ![Initiator] = session'[Initiator]]
    BY <1>2, <2>1 DEF vars
  <2> QED
    BY <1>2, <2>1, <2>2, SessionFacts, SendHalfKept DEF vars
<1> QED
  BY <1>1, <1>2

(* The inductive invariant holds in every reachable state.                 *)
THEOREM SpecIInv == Spec => []IInv
BY InitIInv, StepIInv, PTL DEF Spec

-----------------------------------------------------------------------------
(* A ratchet public key and a message number name one message.             *)
THEOREM HeadersNameMessages == Spec => []HeaderNamesMessage
BY SpecIInv, PTL DEF IInv

(* One message key seals one message: within a party because the root ties *)
(* the key to the ratchet key and the step to N, across the parties        *)
(* because no root seeds chains of both.                                   *)
LEMMA KeysUnique == IInv => MessageKeyNeverReused
<1> SUFFICES ASSUME IInv, NEW m1 \in network, NEW m2 \in network,
                    m1.box.key = m2.box.key
             PROVE  m1 = m2
  BY DEF MessageKeyNeverReused
<1>1. m1.from = m2.from
  <2>1. /\ m1.box.key.root \in RootsInUse(m1.from)
        /\ m1.box.key.root \in RootsInUse(m2.from)
    BY DEF RootsInUse
  <2> QED
    BY <2>1, MessageFacts DEF IInv, RootsDisjoint, Party
<1> DEFINE p == m1.from
<1>2. p \in Party /\ Peer(p) \in Party /\ Peer(p) # p
  BY MessageFacts, SessionFacts
<1>3. /\ ChainOf(m1.hdr.pk, OwnKeys(Peer(p)), m1.hdr.n, m1.box.key)
      /\ ChainOf(m2.hdr.pk, OwnKeys(Peer(p)), m2.hdr.n, m1.box.key)
      /\ m1.hdr.pk \in OwnKeys(p) /\ m2.hdr.pk \in OwnKeys(p)
  BY <1>1, MessageFacts
<1>4. PICK r1 : \E k \in OwnKeys(Peer(p)) :
        m1.box.key = [root |-> DeriveRoot(r1, SharedSecret(m1.hdr.pk, k)),
                      step |-> m1.hdr.n]
  BY <1>3 DEF ChainOf
<1>5. PICK k1 \in OwnKeys(Peer(p)) :
        m1.box.key = [root |-> DeriveRoot(r1, SharedSecret(m1.hdr.pk, k1)),
                      step |-> m1.hdr.n]
  BY <1>4
<1>6. PICK r2 : \E k \in OwnKeys(Peer(p)) :
        m1.box.key = [root |-> DeriveRoot(r2, SharedSecret(m2.hdr.pk, k)),
                      step |-> m2.hdr.n]
  BY <1>3 DEF ChainOf
<1>7. PICK k2 \in OwnKeys(Peer(p)) :
        m1.box.key = [root |-> DeriveRoot(r2, SharedSecret(m2.hdr.pk, k2)),
                      step |-> m2.hdr.n]
  BY <1>6
<1>8. m1.hdr.n = m2.hdr.n /\ {m1.hdr.pk, k1} = {m2.hdr.pk, k2}
  BY <1>5, <1>7 DEF DeriveRoot, SharedSecret
<1>9. m1.hdr.pk # k2
  BY <1>2, <1>3 DEF OwnKeys, KeyPair
<1>10. m1.hdr.pk = m2.hdr.pk
  BY <1>8, <1>9
<1> QED
  BY <1>8, <1>10 DEF IInv, HeaderNamesMessage

(* No message key ever seals two messages, whatever the parties do and     *)
(* whatever arrives.                                                       *)
THEOREM NoMessageKeyReuse == Spec => []MessageKeyNeverReused
BY SpecIInv, KeysUnique, PTL

(* A Decrypt that fails, wherever it fails, leaves the session unchanged.  *)
LEMMA RejectionsExact == IInv => RejectionLeavesSession
BY SessionFacts, DecryptOutcome DEF RejectionLeavesSession, DecryptArrival

(* In every reachable state, every arrival that Decrypt would reject leaves*)
(* the session as it was.                                                  *)
THEOREM RejectionsLeaveSessions == Spec => []RejectionLeavesSession
BY SpecIInv, RejectionsExact, PTL
-----------------------------------------------------------------------------
(* The type invariant. The sending halves come from IInv; what is added    *)
(* here is the receiving halves, the counters and the history variables.   *)

ReceiveHalfOK(s) ==
  /\ SessionShape(s)
  /\ s.pn \in Nat
  /\ {s.dhRSet, s.dhRatchetPerformed} \subseteq BOOLEAN
  /\ ChainsOK(s.recvChains)

MessageOK(m) ==
  /\ DOMAIN m.box = {"key", "ad", "text"}
  /\ m.hdr.pn \in Nat /\ m.box.text \in 0 .. MaxSends

(* What TypeOK says beyond IInv, in inductive form: a party generates at   *)
(* most one key pair per message it sends.                                 *)
TypeInv ==
  /\ \A p \in Party : ReceiveHalfOK(session[p])
  /\ sent \in [Party -> 0 .. MaxSends]
  /\ generated \in [Party -> Nat] /\ \A p \in Party : generated[p] <= sent[p] + 1
  /\ \A m \in network : MessageOK(m)
  /\ accepted \in [Party -> SUBSET (0 .. MaxSends)]
  /\ replayed \in [Party -> SUBSET (0 .. MaxSends)]
  /\ \A p \in Party : replayed[p] \subseteq accepted[p]

-----------------------------------------------------------------------------
(* Push keeps the buffer's indices in range, full or not.                  *)
LEMMA PushOK ==
  ASSUME NEW r, NEW pk, NEW ck, ChainsOK(r)
  PROVE  ChainsOK(Push(r, pk, ck))
<1> DEFINE room == IF r.count = ReceiverChainsMax THEN EvictHead(r) ELSE r
           i == SlotAt(room, room.count)
<1>1. ChainsOK(room) /\ room.count + 1 \in 0 .. ReceiverChainsMax
  BY CapacityAssumption DEF ChainsOK, EvictHead, Slots
<1>2. Push(r, pk, ck) = [room EXCEPT !.slots[i] = NewChain(pk, ck), !.count = @ + 1]
  BY DEF Push
<1> HIDE DEF room, i
<1> QED
  BY <1>1, <1>2 DEF ChainsOK

(* So does moving a chain on in place.                                     *)
LEMMA PutChainOK ==
  ASSUME NEW r, NEW pk, NEW ck, NEW nr, ChainsOK(r)
  PROVE  ChainsOK(PutChain(r, pk, ck, nr))
BY DEF PutChain, ChainsOK

(* A DH ratchet step on the receiving side keeps the types.                *)
LEMMA RatchetRecvOK ==
  ASSUME NEW s, NEW hdr, ReceiveHalfOK(s)
  PROVE  ReceiveHalfOK(PerformDHRatchetRecv(s, hdr).s)
<1> DEFINE root == DeriveRoot(s.rk, SharedSecret(s.dhs, hdr.pk))
           moved == [s EXCEPT !.rk = root]
           ring == Push(s.recvChains, hdr.pk, FirstChainKey(root))
           skipped == SkipPrevChain(s, hdr.pn)
           new == [moved EXCEPT !.mkSkipped = skipped, !.recvChains = ring,
                                !.dhr = hdr.pk, !.dhRSet = TRUE,
                                !.dhRatchetPerformed = TRUE]
<1>1. ChainsOK(ring)
  BY PushOK DEF ReceiveHalfOK
<1>2. PerformDHRatchetRecv(s, hdr).s \in {s, moved, new}
  BY DEF PerformDHRatchetRecv, Outcome, Failure
<1> HIDE DEF root, ring, skipped
<1>3. ReceiveHalfOK(moved) /\ ReceiveHalfOK(new)
  BY <1>1 DEF ReceiveHalfOK, SessionShape, SessionFields
<1> QED
  BY <1>2, <1>3

(* So does receiving on a chain.                                           *)
LEMMA ReceiveOnChainOK ==
  ASSUME NEW s, NEW hdr, ReceiveHalfOK(s)
  PROVE  ReceiveHalfOK(ReceiveOnChain(s, hdr).s)
<1> DEFINE chain == GetChain(s.recvChains, hdr.pk)
           at == ChainKeyAt(chain.ck, hdr.n - chain.nr)
           ring == PutChain(s.recvChains, hdr.pk, DeriveNextChainKey(at), hdr.n + 1)
           skipped == StoreKeys(s.mkSkipped, hdr.pk, chain.ck, chain.nr, hdr.n)
           new == [s EXCEPT !.mkSkipped = skipped, !.recvChains = ring]
<1>1. ChainsOK(ring)
  BY PutChainOK DEF ReceiveHalfOK
<1>2. ReceiveOnChain(s, hdr).s \in {s, new}
  BY DEF ReceiveOnChain, Outcome, Failure
<1> HIDE DEF ring, skipped
<1>3. ReceiveHalfOK(new)
  BY <1>1 DEF ReceiveHalfOK, SessionShape, SessionFields
<1> QED
  BY <1>2, <1>3

(* A Decrypt that succeeds keeps the types, on each of its three paths.    *)
LEMMA DecryptOK ==
  ASSUME NEW s, NEW hdr, NEW ad, NEW box, ReceiveHalfOK(s),
         Decrypt(s, hdr, ad, box).err = "ok"
  PROVE  ReceiveHalfOK(Decrypt(s, hdr, ad, box).s)
<1> DEFINE ratchet == IF IsNewEpoch(s, hdr) THEN PerformDHRatchetRecv(s, hdr)
                      ELSE Outcome("ok", s, NoKey)
           taken == TakeSkipped(s, StorageKey(hdr.pk, hdr.n))
<1>1. ReceiveHalfOK(ratchet.s)
  BY RatchetRecvOK DEF Outcome
<1>2. ReceiveHalfOK(ReceiveOnChain(ratchet.s, hdr).s)
  BY <1>1, ReceiveOnChainOK
<1>3. ReceiveHalfOK(taken.s)
  BY DEF TakeSkipped, Outcome, ReceiveHalfOK, SessionShape, SessionFields
<1>4. RatchetReceiveKey(s, hdr) \in {taken, ratchet, ReceiveOnChain(ratchet.s, hdr)}
  BY DEF RatchetReceiveKey
<1>5. Decrypt(s, hdr, ad, box) = RatchetReceiveKey(s, hdr)
  BY DEF Decrypt, Failure, Outcome
<1> QED
  BY <1>1, <1>2, <1>3, <1>4, <1>5

-----------------------------------------------------------------------------
(* The first sessions have their types.                                    *)
LEMMA InitTypeInv == Init => TypeInv
<1> SUFFICES ASSUME Init PROVE TypeInv
  OBVIOUS
<1>1. ChainsOK(NewReceiverChains)
  BY CapacityAssumption DEF ChainsOK, NewReceiverChains, Slots
<1>2. /\ ReceiveHalfOK(InitInitiator(KeyPair(Initiator, 0), KeyPair(Responder, 0)))
      /\ ReceiveHalfOK(InitResponder(KeyPair(Responder, 0)))
  BY <1>1 DEF ReceiveHalfOK, InitInitiator, InitResponder, SessionShape, SessionFields
<1>3. \A p \in Party : ReceiveHalfOK(session[p])
  BY <1>2 DEF Init, Party
<1> QED
  BY <1>3, BoundAssumption DEF Init, TypeInv

(* Encrypt keeps the types; it is where the counters move.                 *)
LEMMA EncryptTypeInv ==
  ASSUME IInv, TypeInv, NEW p \in Party, Encrypt(p)
  PROVE  TypeInv'
<1> DEFINE s == ReadyToSend(session[p], KeyPair(p, generated[p]))
           u == AdvanceSend(s)
           new == MessageOf(p, s)
<1>1. /\ sent[p] < MaxSends
      /\ network' = network \cup {new}
      /\ sent' = [sent EXCEPT ![p] = @ + 1]
      /\ session' = [session EXCEPT ![p] = u]
      /\ generated' = IF session[p].dhRatchetPerformed
                      THEN [generated EXCEPT ![p] = @ + 1] ELSE generated
      /\ UNCHANGED <<accepted, replayed>>
  BY DEF Encrypt
<1>2. session[p].ns \in Nat /\ ReceiveHalfOK(session[p])
  BY SessionFacts DEF TypeInv
<1>3. ReceiveHalfOK(s)
  <2>1. ReceiveHalfOK(PerformDHRatchetSend(session[p], KeyPair(p, generated[p])))
    BY <1>2 DEF ReceiveHalfOK, PerformDHRatchetSend, SessionShape, SessionFields
  <2> QED
    BY <1>2, <2>1 DEF ReadyToSend
<1>4. ReceiveHalfOK(u)
  BY <1>3 DEF ReceiveHalfOK, AdvanceSend, SessionShape, SessionFields
<1>5. /\ new.hdr.pn = s.pn /\ new.box.text = sent[p]
      /\ DOMAIN new.box = {"key", "ad", "text"}
  BY DEF MessageOf, HeaderOf, Seal
<1>6. MessageOK(new)
  BY <1>1, <1>3, <1>5 DEF TypeInv, ReceiveHalfOK, MessageOK
<1>7. session = [x \in Party |-> session[x]]
  BY DEF IInv, SendHalfInv
<1> HIDE DEF s, u, new
<1>8. \A x \in Party : ReceiveHalfOK(session'[x])
  BY <1>1, <1>4, <1>7 DEF TypeInv
<1>9. \A m \in network' : MessageOK(m)
  BY <1>1, <1>6 DEF TypeInv
<1>10. /\ sent' \in [Party -> 0 .. MaxSends] /\ generated' \in [Party -> Nat]
       /\ \A x \in Party : generated'[x] <= sent'[x] + 1
  BY <1>1, BoundAssumption DEF TypeInv
<1> QED
  BY <1>1, <1>8, <1>9, <1>10 DEF TypeInv

(* An accepted message moves one receiving half and the history.           *)
LEMMA DecryptAcceptsTypeInv ==
  ASSUME IInv, TypeInv, NEW p \in Party, DecryptAccepts(p)
  PROVE  TypeInv'
<1>1. PICK m \in network : \E a \in Arrivals(m) :
        /\ DecryptArrival(p, a).err = "ok"
        /\ session' = [session EXCEPT ![p] = DecryptArrival(p, a).s]
        /\ accepted' = [accepted EXCEPT ![p] = @ \cup {a.box.text}]
        /\ replayed' = [replayed EXCEPT ![p] = @ \cup ({a.box.text} \cap accepted[p])]
        /\ UNCHANGED <<generated, sent, network>>
  BY DEF DecryptAccepts
<1>2. PICK a \in Arrivals(m) :
        /\ DecryptArrival(p, a).err = "ok"
        /\ session' = [session EXCEPT ![p] = DecryptArrival(p, a).s]
        /\ accepted' = [accepted EXCEPT ![p] = @ \cup {a.box.text}]
        /\ replayed' = [replayed EXCEPT ![p] = @ \cup ({a.box.text} \cap accepted[p])]
        /\ UNCHANGED <<generated, sent, network>>
  BY <1>1
<1>3. ReceiveHalfOK(DecryptArrival(p, a).s)
  BY <1>2, DecryptOK DEF TypeInv, DecryptArrival
<1>4. session = [x \in Party |-> session[x]]
  BY DEF IInv, SendHalfInv
<1>5. \A x \in Party : ReceiveHalfOK(session'[x])
  BY <1>2, <1>3, <1>4 DEF TypeInv
<1>6. a.box.text \in 0 .. MaxSends
  <2>1. a.box.text = m.box.text
    BY MessageFacts DEF TypeInv, MessageOK, Arrivals, Intact, DamagedHeader, DamagedBody
  <2> QED
    BY <2>1 DEF TypeInv, MessageOK
<1>7. /\ accepted' \in [Party -> SUBSET (0 .. MaxSends)]
      /\ replayed' \in [Party -> SUBSET (0 .. MaxSends)]
      /\ \A x \in Party : replayed'[x] \subseteq accepted'[x]
  BY <1>2, <1>6 DEF TypeInv
<1> QED
  BY <1>2, <1>5, <1>7 DEF TypeInv

(* A rejected message moves nothing.                                       *)
LEMMA DecryptRejectsUnchanged ==
  ASSUME IInv, NEW p \in Party, DecryptRejects(p)
  PROVE  UNCHANGED vars
<1>1. PICK m \in network : \E a \in Arrivals(m) :
        /\ DecryptArrival(p, a).err # "ok"
        /\ session' = [session EXCEPT ![p] = DecryptArrival(p, a).s]
        /\ UNCHANGED <<generated, sent, network, accepted, replayed>>
  BY DEF DecryptRejects
<1>2. PICK a \in Arrivals(m) :
        /\ DecryptArrival(p, a).err # "ok"
        /\ session' = [session EXCEPT ![p] = DecryptArrival(p, a).s]
        /\ UNCHANGED <<generated, sent, network, accepted, replayed>>
  BY <1>1
<1>3. DecryptArrival(p, a).s = session[p]
  BY <1>2, SessionFacts, DecryptOutcome DEF DecryptArrival
<1>4. session' = session
  BY <1>2, <1>3 DEF IInv, SendHalfInv
<1> QED
  BY <1>2, <1>4 DEF vars

(* A key pair that could not be generated moves pn only.                   *)
LEMMA EncryptFailsTypeInv ==
  ASSUME IInv, TypeInv, NEW p \in Party, EncryptFails(p)
  PROVE  TypeInv'
<1> DEFINE u == DHRatchetSendFails(session[p])
<1>1. /\ session' = [session EXCEPT ![p] = u]
      /\ UNCHANGED <<generated, sent, network, accepted, replayed>>
  BY DEF EncryptFails
<1>2. ReceiveHalfOK(u)
  <2>1. ReceiveHalfOK(session[p]) /\ session[p].ns \in Nat
    BY SessionFacts DEF TypeInv
  <2> QED
    BY <2>1 DEF ReceiveHalfOK, DHRatchetSendFails, SessionShape, SessionFields
<1> HIDE DEF u
<1>3. \A x \in Party : ReceiveHalfOK(session'[x])
  BY <1>1, <1>2 DEF IInv, SendHalfInv, TypeInv
<1> QED
  BY <1>1, <1>3 DEF TypeInv

(* Every step keeps the types.                                             *)
LEMMA StepTypeInv == IInv /\ TypeInv /\ [Next]_vars => TypeInv'
<1> SUFFICES ASSUME IInv, TypeInv, [Next]_vars PROVE TypeInv'
  OBVIOUS
<1>1. CASE UNCHANGED vars
  BY <1>1 DEF vars, TypeInv
<1>2. ASSUME NEW p \in Party, DecryptRejects(p)
      PROVE  TypeInv'
  BY <1>1, <1>2, DecryptRejectsUnchanged
<1> QED
  BY <1>1, <1>2, EncryptTypeInv, EncryptFailsTypeInv, DecryptAcceptsTypeInv DEF Next

(* The two invariants together give every conjunct of TypeOK.              *)
LEMMA TypeInvSuffices == IInv /\ TypeInv => TypeOK
<1> SUFFICES ASSUME IInv, TypeInv PROVE TypeOK
  OBVIOUS
<1>1. \A p \in Party : generated[p] \in 1 .. MaxSends + 1
  BY SessionFacts, BoundAssumption DEF TypeInv
<1>2. ASSUME NEW p \in Party
      PROVE  OwnKeys(p) \subseteq PublicKey
  BY <1>1, BoundAssumption DEF OwnKeys, PublicKey
<1>3. ASSUME NEW p \in Party
      PROVE  SessionOK(session[p])
  <2> DEFINE s == session[p]
  <2> HIDE DEF s
  <2>0. /\ s.dhs = KeyPair(p, generated[p] - 1) /\ generated[p] \in Nat \ {0}
        /\ s.ns \in Nat
        /\ s.cks # NoChainKey => ChainOf(s.dhs, OwnKeys(Peer(p)), s.ns, s.cks)
    BY SessionFacts DEF s
  <2>1. ASSUME s.cks # NoChainKey
        PROVE  ChainKeyOK(s.cks)
    <3>1. PICK r : \E k \in OwnKeys(Peer(p)) :
            s.cks = [root |-> DeriveRoot(r, SharedSecret(s.dhs, k)), step |-> s.ns]
      BY <2>0, <2>1 DEF ChainOf
    <3>2. \E root : s.cks = [root |-> root, step |-> s.ns]
      BY <3>1
    <3> QED
      BY <2>0, <3>2 DEF ChainKeyOK
  <2>2. s.dhs \in OwnKeys(p)
    BY <2>0 DEF OwnKeys
  <2>3. s.dhs \in PublicKey /\ s.dhr \in PublicKey \cup {ZeroKey}
    BY <1>2, <2>2, SessionFacts DEF s
  <2>4. DOMAIN s = SessionFields /\ s.ns \in Nat
    BY SessionFacts DEF s, SessionShape
  <2> QED
    BY <2>1, <2>3, <2>4 DEF s, SessionOK, TypeInv, ReceiveHalfOK
<1>4. ASSUME NEW m \in network
      PROVE  /\ m.from \in Party /\ m.hdr.pk \in PublicKey
             /\ m.hdr.pn \in Nat /\ m.hdr.n \in Nat
  BY <1>2, MessageFacts DEF TypeInv, MessageOK
<1>5. generated \in [Party -> 1 .. MaxSends + 1]
  BY <1>1 DEF TypeInv
<1> QED
  BY <1>3, <1>4, <1>5 DEF TypeInv, TypeOK

(* What TypeOK says beyond IInv holds in every reachable state.            *)
THEOREM SpecTypeInv == Spec => []TypeInv
BY InitTypeInv, StepTypeInv, SpecIInv, PTL DEF Spec

(* The fields of both sessions, the messages and the history keep their    *)
(* shapes through every call.                                              *)
THEOREM TypeCorrect == Spec => []TypeOK
BY SpecIInv, SpecTypeInv, TypeInvSuffices, PTL

-----------------------------------------------------------------------------
(* Decrypt leaves the sending half of the session alone.                   *)
SendHalfSame(s, t) == t.cks = s.cks /\ t.ns = s.ns /\ t.pn = s.pn /\ t.dhs = s.dhs
(* No DH ratchet step was taken.                                           *)
EpochSame(s, t) ==
  /\ t.rk = s.rk /\ t.dhr = s.dhr /\ t.dhRSet = s.dhRSet
  /\ t.dhRatchetPerformed = s.dhRatchetPerformed

(* The three ways in which Decrypt succeeds, from session s to t under     *)
(* key: with the stored key of a message that was skipped over,            *)
TookSkipped(s, t, hdr, key) ==
  LET id == StorageKey(hdr.pk, hdr.n)
  IN  /\ HasKey(s.mkSkipped, id) /\ key = Lookup(s.mkSkipped, id)
      /\ t.mkSkipped = Consume(s.mkSkipped, id) /\ t.recvChains = s.recvChains
      /\ EpochSame(s, t)

(* on a chain the buffer holds,                                            *)
OnHeldChain(s, t, hdr, key) ==
  LET c == GetChain(s.recvChains, hdr.pk)
  IN  /\ ~HasKey(s.mkSkipped, StorageKey(hdr.pk, hdr.n))
      /\ HasChain(s.recvChains, hdr.pk) /\ ~(hdr.n < c.nr)
      /\ key = ChainKeyAt(c.ck, hdr.n - c.nr)
      /\ t.mkSkipped = StoreKeys(s.mkSkipped, hdr.pk, c.ck, c.nr, hdr.n)
      /\ t.recvChains = PutChain(s.recvChains, hdr.pk, DeriveNextChainKey(key), hdr.n + 1)
      /\ EpochSame(s, t)

(* or on the chain that a DH ratchet step begins.                          *)
OnNewChain(s, t, hdr, key) ==
  LET first == FirstChainKey(t.rk)
  IN  /\ ~HasKey(s.mkSkipped, StorageKey(hdr.pk, hdr.n))
      /\ ~HasChain(s.recvChains, hdr.pk) /\ ~IsCurrentChain(s, hdr)
      /\ t.rk = DeriveRoot(s.rk, SharedSecret(s.dhs, hdr.pk))
      /\ key = ChainKeyAt(first, hdr.n)
      /\ t.mkSkipped = StoreKeys(SkipPrevChain(s, hdr.pn), hdr.pk, first, 0, hdr.n)
      /\ t.recvChains = PutChain(Push(s.recvChains, hdr.pk, first), hdr.pk,
                                 DeriveNextChainKey(key), hdr.n + 1)
      /\ t.dhr = hdr.pk /\ t.dhRSet = TRUE /\ t.dhRatchetPerformed = TRUE

(* Field by field, what a successful ReceiveOnChain returns.               *)
LEMMA ReceiveOnChainFields ==
  ASSUME NEW s, NEW hdr, SessionShape(s), ReceiveOnChain(s, hdr).err = "ok"
  PROVE  LET out == ReceiveOnChain(s, hdr)
             t == out.s
             c == GetChain(s.recvChains, hdr.pk)
         IN  /\ HasChain(s.recvChains, hdr.pk) /\ ~(hdr.n < c.nr)
             /\ out.key = ChainKeyAt(c.ck, hdr.n - c.nr)
             /\ t.mkSkipped = StoreKeys(s.mkSkipped, hdr.pk, c.ck, c.nr, hdr.n)
             /\ t.recvChains = PutChain(s.recvChains, hdr.pk, DeriveNextChainKey(out.key), hdr.n + 1)
             /\ SendHalfSame(s, t) /\ EpochSame(s, t)
<1> DEFINE c == GetChain(s.recvChains, hdr.pk)
           at == ChainKeyAt(c.ck, hdr.n - c.nr)
           skipped == StoreKeys(s.mkSkipped, hdr.pk, c.ck, c.nr, hdr.n)
           ring == PutChain(s.recvChains, hdr.pk, DeriveNextChainKey(at), hdr.n + 1)
           t == [s EXCEPT !.mkSkipped = skipped, !.recvChains = ring]
<1>1. /\ HasChain(s.recvChains, hdr.pk) /\ ~(hdr.n < c.nr)
      /\ ReceiveOnChain(s, hdr) = Outcome("ok", t, at)
  BY DEF ReceiveOnChain, Failure, Outcome, DeriveMessageKey
<1> HIDE DEF skipped, ring, at
<1>2. /\ t.mkSkipped = skipped /\ t.recvChains = ring
      /\ SendHalfSame(s, t) /\ EpochSame(s, t)
  BY DEF SessionShape, SessionFields, SendHalfSame, EpochSame
<1> HIDE DEF t
<1>3. ReceiveOnChain(s, hdr).s = t /\ ReceiveOnChain(s, hdr).key = at
  BY <1>1 DEF Outcome
<1> QED
  BY <1>1, <1>2, <1>3 DEF skipped, ring, at

(* Field by field, what a successful DH ratchet step returns.              *)
LEMMA RatchetRecvFields ==
  ASSUME NEW s, NEW hdr, SessionShape(s), PerformDHRatchetRecv(s, hdr).err = "ok"
  PROVE  LET t == PerformDHRatchetRecv(s, hdr).s
             root == DeriveRoot(s.rk, SharedSecret(s.dhs, hdr.pk))
         IN  /\ SessionShape(t) /\ SendHalfSame(s, t)
             /\ t.rk = root /\ t.mkSkipped = SkipPrevChain(s, hdr.pn)
             /\ t.recvChains = Push(s.recvChains, hdr.pk, FirstChainKey(root))
             /\ t.dhr = hdr.pk /\ t.dhRSet = TRUE /\ t.dhRatchetPerformed = TRUE
<1> DEFINE root == DeriveRoot(s.rk, SharedSecret(s.dhs, hdr.pk))
           ring == Push(s.recvChains, hdr.pk, FirstChainKey(root))
           skipped == SkipPrevChain(s, hdr.pn)
           moved == [s EXCEPT !.rk = root]
           t == [moved EXCEPT !.mkSkipped = skipped, !.recvChains = ring,
                              !.dhr = hdr.pk, !.dhRSet = TRUE, !.dhRatchetPerformed = TRUE]
<1>1. PerformDHRatchetRecv(s, hdr).s = t
  BY DEF PerformDHRatchetRecv, Failure, Outcome
<1> HIDE DEF root, ring, skipped
<1>2. /\ SessionShape(t) /\ SendHalfSame(s, t)
      /\ t.rk = root /\ t.mkSkipped = skipped /\ t.recvChains = ring
      /\ t.dhr = hdr.pk /\ t.dhRSet = TRUE /\ t.dhRatchetPerformed = TRUE
  BY DEF SessionShape, SessionFields, SendHalfSame
<1> HIDE DEF t
<1> QED
  BY <1>1, <1>2 DEF root, ring, skipped

(* A Decrypt that succeeds does one of the three, under the key that the   *)
(* box was sealed with.                                                    *)
LEMMA DecryptPaths ==
  ASSUME NEW s, NEW hdr, NEW ad, NEW box, SessionShape(s), RingOK(s.recvChains), hdr.n \in Nat,
         Decrypt(s, hdr, ad, box).err = "ok"
  PROVE  LET t == Decrypt(s, hdr, ad, box).s
         IN  /\ SendHalfSame(s, t)
             /\ \/ TookSkipped(s, t, hdr, box.key)
                \/ OnHeldChain(s, t, hdr, box.key)
                \/ OnNewChain(s, t, hdr, box.key)
<1> DEFINE ratchet == IF IsNewEpoch(s, hdr) THEN PerformDHRatchetRecv(s, hdr)
                      ELSE Outcome("ok", s, NoKey)
           id == StorageKey(hdr.pk, hdr.n)
           out == RatchetReceiveKey(s, hdr)
           t == out.s
<1>1. Decrypt(s, hdr, ad, box) = out /\ out.err = "ok" /\ box.key = out.key
  BY DEF Decrypt, Failure, Outcome, Opens
<1>2. CASE HasKey(s.mkSkipped, id)
  <2>1. out = TakeSkipped(s, id)
    BY <1>2 DEF RatchetReceiveKey
  <2>2. /\ t = [s EXCEPT !.mkSkipped = Consume(s.mkSkipped, id)]
        /\ out.key = Lookup(s.mkSkipped, id)
    BY <2>1 DEF TakeSkipped, Outcome, SessionShape, SessionFields
  <2>3. SendHalfSame(s, t) /\ EpochSame(s, t) /\ t.recvChains = s.recvChains
        /\ t.mkSkipped = Consume(s.mkSkipped, id)
    BY <2>2 DEF SessionShape, SessionFields, SendHalfSame, EpochSame
  <2> HIDE DEF out
  <2>4. TookSkipped(s, t, hdr, box.key)
    BY <1>1, <1>2, <2>2, <2>3 DEF TookSkipped
  <2> QED BY <1>1, <2>3, <2>4
<1>3. CASE ~HasKey(s.mkSkipped, id) /\ ~IsNewEpoch(s, hdr)
  <2>1. out = ReceiveOnChain(s, hdr)
    BY <1>3 DEF RatchetReceiveKey, Outcome
  <2> HIDE DEF out
  <2>2. OnHeldChain(s, t, hdr, box.key) /\ SendHalfSame(s, t)
    BY <1>1, <1>3, <2>1, ReceiveOnChainFields DEF OnHeldChain
  <2> QED BY <1>1, <2>2
<1>4. CASE ~HasKey(s.mkSkipped, id) /\ IsNewEpoch(s, hdr)
  <2> DEFINE u == PerformDHRatchetRecv(s, hdr).s
  <2>1. PerformDHRatchetRecv(s, hdr).err = "ok" /\ out = ReceiveOnChain(u, hdr)
    BY <1>1, <1>4 DEF RatchetReceiveKey, Outcome
  <2> HIDE DEF out
  <2>2. /\ SessionShape(u) /\ SendHalfSame(s, u)
        /\ u.rk = DeriveRoot(s.rk, SharedSecret(s.dhs, hdr.pk))
        /\ u.mkSkipped = SkipPrevChain(s, hdr.pn)
        /\ u.recvChains = Push(s.recvChains, hdr.pk, FirstChainKey(u.rk))
        /\ u.dhr = hdr.pk /\ u.dhRSet = TRUE /\ u.dhRatchetPerformed = TRUE
    BY <2>1, RatchetRecvFields
  <2> DEFINE c == GetChain(u.recvChains, hdr.pk)
  <2> HIDE DEF u
  <2>3. /\ ~(hdr.n < c.nr)
        /\ out.key = ChainKeyAt(c.ck, hdr.n - c.nr)
        /\ t.mkSkipped = StoreKeys(u.mkSkipped, hdr.pk, c.ck, c.nr, hdr.n)
        /\ t.recvChains = PutChain(u.recvChains, hdr.pk, DeriveNextChainKey(out.key), hdr.n + 1)
        /\ SendHalfSame(u, t) /\ EpochSame(u, t)
    BY <1>1, <2>1, <2>2, ReceiveOnChainFields
  <2>4. c = NewChain(hdr.pk, FirstChainKey(u.rk)) /\ ~HasChain(s.recvChains, hdr.pk)
    BY <1>4, <2>2, GetAfterPush DEF IsNewEpoch
  <2>5. c.nr = 0 /\ c.ck = FirstChainKey(u.rk) /\ hdr.n - c.nr = hdr.n
    BY <2>4 DEF NewChain
  <2> HIDE DEF c
  <2>6. t.rk = u.rk /\ t.dhr = u.dhr /\ t.dhRSet = u.dhRSet /\ t.dhRatchetPerformed = u.dhRatchetPerformed
    BY <2>3 DEF EpochSame
  <2>7. ~IsCurrentChain(s, hdr)
    BY <1>4 DEF IsNewEpoch
  <2>8. OnNewChain(s, t, hdr, box.key)
    BY <1>1, <1>4, <2>2, <2>3, <2>4, <2>5, <2>6, <2>7 DEF OnNewChain
  <2>9. SendHalfSame(s, t)
    BY <2>2, <2>3 DEF SendHalfSame
  <2> QED BY <1>1, <2>8, <2>9
<1> QED
  BY <1>2, <1>3, <1>4

-----------------------------------------------------------------------------
(* key is the n-th key of the chain that q started with pk: that chain has *)
(* the root of the messages q sent under pk.                               *)
GenuineKey(q, pk, n, key) ==
  /\ n \in Nat
  /\ \E m \in network :
       m.from = q /\ m.hdr.pk = pk /\ key = [root |-> m.box.key.root, step |-> n]

(* Every receiving chain and every skipped key is the sender's.            *)
ChainsGenuine(q, r) == \A c \in Held(r) : GenuineKey(q, c.pk, c.nr, c.ck)
EntriesGenuine(q, st) ==
  \A id \in DOMAIN st.entries :
    id = StorageKey(id[1], id[2]) /\ GenuineKey(q, id[1], id[2], st.entries[id])
(* What party p could decrypt with is its peer's.                          *)
KeysGenuine(p) ==
  /\ ChainsGenuine(Peer(p), session[p].recvChains)
  /\ EntriesGenuine(Peer(p), session[p].mkSkipped)

(* All messages under one ratchet key come from one chain, and so do those *)
(* that are still to be sent under it.                                     *)
OneRootPerKey ==
  \A m \in network :
    /\ \A x \in network : x.hdr.pk = m.hdr.pk => x.box.key.root = m.box.key.root
    /\ m.hdr.pk = session[m.from].dhs => session[m.from].cks.root = m.box.key.root

(* The inductive invariant behind ReceiverKeysMatchSender. It is about the *)
(* keys a receiver holds for numbers nobody has sent yet as well: a chain  *)
(* stands at the number after the last, and there ReceiverKeysMatchSender  *)
(* says nothing.                                                           *)
KeyInv == OneRootPerKey /\ \A p \in Party : KeysGenuine(p)

(* A message was received in one of the three ways.                        *)
Receives(s, t, m) ==
  \/ TookSkipped(s, t, m.hdr, m.box.key)
  \/ OnHeldChain(s, t, m.hdr, m.box.key)
  \/ OnNewChain(s, t, m.hdr, m.box.key)

(* A message is sealed with the key of its number.                         *)
LEMMA MessageKey ==
  ASSUME IInv, NEW m \in network
  PROVE  m.box.key = [root |-> m.box.key.root, step |-> m.hdr.n]
<1>1. PICK r : \E k \in OwnKeys(Peer(m.from)) :
        m.box.key = [root |-> DeriveRoot(r, SharedSecret(m.hdr.pk, k)), step |-> m.hdr.n]
  BY MessageFacts DEF ChainOf
<1>2. \E root : m.box.key = [root |-> root, step |-> m.hdr.n]
  BY <1>1
<1> QED
  BY <1>2

(* Both buffers have their shape.                                          *)
LEMMA RingsOK ==
  ASSUME TypeInv, NEW p \in Party
  PROVE  RingOK(session[p].recvChains)
BY DEF TypeInv, ReceiveHalfOK, ChainsOK, RingOK

(* What Decrypt accepts is a message as it was sent: a damaged header no   *)
(* longer fits the associated data, and a damaged body was sealed under a  *)
(* key that no chain and no store holds.                                   *)
LEMMA AcceptedGenuine ==
  ASSUME IInv, TypeInv, KeyInv, NEW p \in Party, NEW m \in network, NEW a \in Arrivals(m),
         m.from = Peer(p), DecryptArrival(p, a).err = "ok"
  PROVE  /\ a.box.text = m.box.text
         /\ SendHalfSame(session[p], DecryptArrival(p, a).s)
         /\ Receives(session[p], DecryptArrival(p, a).s, m)
<1> DEFINE s == session[p]
           t == DecryptArrival(p, a).s
<1>1. a.box.ad = BuildAD(Peer(p), p, a.hdr)
  BY SessionFacts, DecryptOutcome DEF DecryptArrival
<1>2. m.box.ad = BuildAD(Peer(p), p, m.hdr)
  BY MessageFacts, SessionFacts
<1>3. a.hdr = m.hdr \/ a.box = m.box
  BY MessageFacts DEF Arrivals, Intact, DamagedHeader, DamagedBody
<1>4. a.hdr = m.hdr
  BY <1>1, <1>2, <1>3 DEF BuildAD
<1>5. a.box.text = m.box.text /\ (a.box = m.box \/ a.box.key = ForeignKey)
  BY MessageFacts DEF TypeInv, MessageOK, Arrivals, Intact, DamagedHeader, DamagedBody
<1>6. /\ SendHalfSame(s, t)
      /\ \/ TookSkipped(s, t, m.hdr, a.box.key)
         \/ OnHeldChain(s, t, m.hdr, a.box.key)
         \/ OnNewChain(s, t, m.hdr, a.box.key)
  <2>1. m.hdr.n \in Nat /\ SessionShape(s) /\ RingOK(s.recvChains)
    BY MessageFacts, SessionFacts, RingsOK
  <2>2. DecryptArrival(p, a) = Decrypt(s, m.hdr, BuildAD(Peer(p), p, m.hdr), a.box)
    BY <1>4 DEF DecryptArrival
  <2> HIDE DEF s
  <2> QED BY <2>1, <2>2, DecryptPaths
<1>7. a.box.key # ForeignKey
  <2>1. CASE TookSkipped(s, t, m.hdr, a.box.key)
    <3> DEFINE id == StorageKey(m.hdr.pk, m.hdr.n)
    <3>1. id \in DOMAIN s.mkSkipped.entries /\ a.box.key = s.mkSkipped.entries[id]
      BY <2>1 DEF TookSkipped, HasKey, Lookup
    <3>2. GenuineKey(Peer(p), id[1], id[2], s.mkSkipped.entries[id])
      BY <3>1 DEF KeyInv, KeysGenuine, EntriesGenuine
    <3>3. PICK x \in network : a.box.key = [root |-> x.box.key.root, step |-> id[2]]
      BY <3>1, <3>2 DEF GenuineKey
    <3>4. \E n : \E root : a.box.key = [root |-> root, step |-> n]
      BY <3>3
    <3> QED BY <3>4 DEF ForeignKey
  <2>2. CASE OnHeldChain(s, t, m.hdr, a.box.key) \/ OnNewChain(s, t, m.hdr, a.box.key)
    <3>1. \E n : \E root : a.box.key = [root |-> root, step |-> n]
      BY <2>2 DEF OnHeldChain, OnNewChain, ChainKeyAt
    <3> QED BY <3>1 DEF ForeignKey
  <2> QED BY <1>6, <2>1, <2>2
<1> QED
  BY <1>5, <1>6, <1>7 DEF Receives

(* DecryptAccepts as the three ways see it.                                *)
LEMMA AcceptStep ==
  ASSUME IInv, TypeInv, KeyInv, NEW p \in Party, DecryptAccepts(p)
  PROVE  \E m \in network :
           /\ m.from = Peer(p)
           /\ session' = [session EXCEPT ![p] = session'[p]]
           /\ session'[Peer(p)] = session[Peer(p)]
           /\ accepted' = [accepted EXCEPT ![p] = @ \cup {m.box.text}]
           /\ replayed' = [replayed EXCEPT ![p] = @ \cup ({m.box.text} \cap accepted[p])]
           /\ UNCHANGED <<generated, sent, network>>
           /\ SendHalfSame(session[p], session'[p])
           /\ Receives(session[p], session'[p], m)
<1>1. PICK m \in network : \E a \in Arrivals(m) :
        /\ m.from = Peer(p)
        /\ DecryptArrival(p, a).err = "ok"
        /\ session' = [session EXCEPT ![p] = DecryptArrival(p, a).s]
        /\ accepted' = [accepted EXCEPT ![p] = @ \cup {a.box.text}]
        /\ replayed' = [replayed EXCEPT ![p] = @ \cup ({a.box.text} \cap accepted[p])]
        /\ UNCHANGED <<generated, sent, network>>
  BY DEF DecryptAccepts
<1>2. PICK a \in Arrivals(m) :
        /\ m.from = Peer(p)
        /\ DecryptArrival(p, a).err = "ok"
        /\ session' = [session EXCEPT ![p] = DecryptArrival(p, a).s]
        /\ accepted' = [accepted EXCEPT ![p] = @ \cup {a.box.text}]
        /\ replayed' = [replayed EXCEPT ![p] = @ \cup ({a.box.text} \cap accepted[p])]
        /\ UNCHANGED <<generated, sent, network>>
  BY <1>1
<1>3. session = [x \in Party |-> session[x]]
  BY DEF IInv, SendHalfInv
<1>4. session'[p] = DecryptArrival(p, a).s /\ session'[Peer(p)] = session[Peer(p)]
  BY <1>2, <1>3, PeerFacts
<1>5. /\ a.box.text = m.box.text
      /\ SendHalfSame(session[p], DecryptArrival(p, a).s)
      /\ Receives(session[p], DecryptArrival(p, a).s, m)
  BY <1>2, AcceptedGenuine
<1> QED
  BY <1>2, <1>4, <1>5

(* Encrypt sends m and takes the session from s to t,                      *)
Sends(s, t, p, m) ==
  /\ m.from = p /\ m.hdr.pk = t.dhs /\ m.hdr.n = t.ns - 1 /\ m.hdr.pn = t.pn
  /\ m.box.text = sent[p] /\ m.box.key.root = t.cks.root
  /\ t.recvChains = s.recvChains /\ t.mkSkipped = s.mkSkipped
  /\ t.dhr = s.dhr /\ t.dhRSet = s.dhRSet /\ t.dhRatchetPerformed = FALSE

(* on the sending chain it has,                                            *)
SameChain(s, t) ==
  /\ ~s.dhRatchetPerformed /\ s.cks # NoChainKey
  /\ t.dhs = s.dhs /\ t.cks.root = s.cks.root /\ t.ns = s.ns + 1 /\ t.pn = s.pn
  /\ t.rk = s.rk

(* or on one that starts with a fresh key pair.                            *)
FreshChain(s, t, fresh) ==
  /\ s.dhRatchetPerformed
  /\ t.dhs = fresh /\ t.rk = DeriveRoot(s.rk, SharedSecret(fresh, s.dhr))
  /\ t.cks.root = t.rk /\ t.ns = 1 /\ t.pn = s.ns

(* Encrypt does one of the two.                                            *)
LEMMA EncryptStep ==
  ASSUME IInv, TypeInv, NEW p \in Party, Encrypt(p)
  PROVE  /\ session' = [session EXCEPT ![p] = session'[p]]
         /\ session'[Peer(p)] = session[Peer(p)]
         /\ sent' = [sent EXCEPT ![p] = @ + 1] /\ UNCHANGED <<accepted, replayed>>
         /\ \E m : network' = network \cup {m} /\ Sends(session[p], session'[p], p, m)
         /\ \/ SameChain(session[p], session'[p]) /\ generated' = generated
            \/ /\ FreshChain(session[p], session'[p], KeyPair(p, generated[p]))
               /\ generated' = [generated EXCEPT ![p] = @ + 1]
         /\ \A x \in network : x.hdr.pk = session'[p].dhs => x.hdr.n < session'[p].ns - 1
<1> DEFINE s == session[p]
           ready == ReadyToSend(s, KeyPair(p, generated[p]))
           t == AdvanceSend(ready)
           m == MessageOf(p, ready)
<1>1. /\ session' = [session EXCEPT ![p] = t]
      /\ sent' = [sent EXCEPT ![p] = @ + 1]
      /\ network' = network \cup {m} /\ UNCHANGED <<accepted, replayed>>
      /\ generated' = IF s.dhRatchetPerformed
                      THEN [generated EXCEPT ![p] = @ + 1] ELSE generated
      /\ CanSend(s)
  BY DEF Encrypt
<1>2. session = [x \in Party |-> session[x]]
  BY DEF IInv, SendHalfInv
<1>3. session'[p] = t /\ session'[Peer(p)] = session[Peer(p)]
  BY <1>1, <1>2, PeerFacts
<1>4. ReadyInv(p, ready)
  BY <1>1, ReadyToSendInv
<1>5. SessionShape(s) /\ s.dhRatchetPerformed \in BOOLEAN /\ s.ns \in Nat
  BY SessionFacts DEF TypeInv, ReceiveHalfOK
<1>6. /\ ready.recvChains = s.recvChains /\ ready.mkSkipped = s.mkSkipped
      /\ ready.dhr = s.dhr /\ ready.dhRSet = s.dhRSet /\ ready.dhRatchetPerformed = FALSE
      /\ ready.ns \in Nat /\ SessionShape(ready)
  BY <1>4, <1>5 DEF ReadyToSend, PerformDHRatchetSend, SessionShape, SessionFields, ReadyInv
<1>7. \/ /\ ~s.dhRatchetPerformed /\ s.cks # NoChainKey /\ ready = s
      \/ /\ s.dhRatchetPerformed
         /\ ready.dhs = KeyPair(p, generated[p]) /\ ready.rk = DeriveRoot(s.rk, SharedSecret(ready.dhs, s.dhr))
         /\ ready.cks.root = ready.rk /\ ready.ns = 0 /\ ready.pn = s.ns
  <2>1. CASE s.dhRatchetPerformed
    BY <2>1, <1>5 DEF ReadyToSend, PerformDHRatchetSend, SessionShape, SessionFields, FirstChainKey
  <2>2. CASE ~s.dhRatchetPerformed
    BY <2>2, <1>1 DEF ReadyToSend, CanSend
  <2> QED BY <2>1, <2>2
<1> HIDE DEF ready
<1>8. /\ t.cks = DeriveNextChainKey(ready.cks) /\ t.ns = ready.ns + 1
      /\ t.pn = ready.pn /\ t.dhs = ready.dhs /\ t.rk = ready.rk
      /\ t.recvChains = s.recvChains /\ t.mkSkipped = s.mkSkipped
      /\ t.dhr = s.dhr /\ t.dhRSet = s.dhRSet /\ t.dhRatchetPerformed = FALSE
  BY <1>6 DEF AdvanceSend, SessionShape, SessionFields
<1>9. t.cks.root = ready.cks.root
  BY <1>8 DEF DeriveNextChainKey
<1>10. /\ m.from = p /\ m.hdr.pk = ready.dhs /\ m.hdr.n = ready.ns /\ m.hdr.pn = ready.pn
       /\ m.box.text = sent[p] /\ m.box.key = ready.cks
  BY DEF MessageOf, HeaderOf, Seal, DeriveMessageKey
<1> HIDE DEF t, m
<1>11. Sends(s, t, p, m)
  BY <1>6, <1>8, <1>9, <1>10 DEF Sends
<1>12. \A x \in network : x.hdr.pk = t.dhs => x.hdr.n < t.ns - 1
  BY <1>4, <1>6, <1>8 DEF ReadyInv
<1>13. \/ SameChain(s, t) /\ generated' = generated
       \/ FreshChain(s, t, KeyPair(p, generated[p])) /\ generated' = [generated EXCEPT ![p] = @ + 1]
  <2>1. CASE ~s.dhRatchetPerformed /\ s.cks # NoChainKey /\ ready = s
    BY <2>1, <1>1, <1>8, <1>9 DEF SameChain
  <2>2. CASE ~(~s.dhRatchetPerformed /\ s.cks # NoChainKey /\ ready = s)
    <3>1. /\ s.dhRatchetPerformed
         /\ ready.dhs = KeyPair(p, generated[p]) /\ ready.rk = DeriveRoot(s.rk, SharedSecret(ready.dhs, s.dhr))
         /\ ready.cks.root = ready.rk /\ ready.ns = 0 /\ ready.pn = s.ns
      BY <2>2, <1>7
    <3> QED
      BY <3>1, <1>1, <1>8, <1>9 DEF FreshChain
  <2> QED BY <2>1, <2>2
<1> QED
  BY <1>1, <1>3, <1>11, <1>12, <1>13

(* An Encrypt that fails changes pn and nothing else.                      *)
LEMMA EncryptFailsStep ==
  ASSUME IInv, TypeInv, NEW p \in Party, EncryptFails(p)
  PROVE  LET s == session[p] t == session'[p]
         IN  /\ session' = [session EXCEPT ![p] = t]
             /\ session'[Peer(p)] = session[Peer(p)]
             /\ UNCHANGED <<generated, sent, network, accepted, replayed>>
             /\ t.cks = s.cks /\ t.ns = s.ns /\ t.dhs = s.dhs /\ EpochSame(s, t)
             /\ t.recvChains = s.recvChains /\ t.mkSkipped = s.mkSkipped
             /\ s.dhRatchetPerformed
<1>1. /\ session' = [session EXCEPT ![p] = DHRatchetSendFails(session[p])]
      /\ UNCHANGED <<generated, sent, network, accepted, replayed>>
      /\ session[p].dhRatchetPerformed
  BY DEF EncryptFails
<1>2. session = [x \in Party |-> session[x]] /\ SessionShape(session[p])
  BY SessionFacts DEF IInv, SendHalfInv
<1>3. session'[p] = DHRatchetSendFails(session[p]) /\ session'[Peer(p)] = session[Peer(p)]
  BY <1>1, <1>2, PeerFacts
<1> QED
  BY <1>1, <1>2, <1>3 DEF DHRatchetSendFails, SessionShape, SessionFields, EpochSame

(* The keys that a genuine chain reaches are genuine.                      *)
LEMMA GenuineRun ==
  ASSUME NEW q, NEW pk, NEW lo, NEW ck, GenuineKey(q, pk, lo, ck), NEW n \in Nat, lo <= n
  PROVE  /\ lo \in Nat /\ GenuineKey(q, pk, n, ChainKeyAt(ck, n - lo))
         /\ GenuineKey(q, pk, n + 1, DeriveNextChainKey(ChainKeyAt(ck, n - lo)))
<1>1. PICK m \in network : m.from = q /\ m.hdr.pk = pk /\ ck = [root |-> m.box.key.root, step |-> lo]
  BY DEF GenuineKey
<1>2. lo \in Nat
  BY DEF GenuineKey
<1>3. ck.root = m.box.key.root /\ lo + (n - lo) = n /\ ck.step = lo
  BY <1>1, <1>2
<1>4. ChainKeyAt(ck, n - lo) = [root |-> m.box.key.root, step |-> n]
  BY <1>3 DEF ChainKeyAt
<1>5. DeriveNextChainKey(ChainKeyAt(ck, n - lo)) = [root |-> m.box.key.root, step |-> n + 1]
  BY <1>4 DEF DeriveNextChainKey
<1>6. GenuineKey(q, pk, n, ChainKeyAt(ck, n - lo))
  BY <1>1, <1>4 DEF GenuineKey
<1>7. GenuineKey(q, pk, n + 1, DeriveNextChainKey(ChainKeyAt(ck, n - lo)))
  BY <1>1, <1>5 DEF GenuineKey
<1> QED
  BY <1>2, <1>6, <1>7

(* So are those the skipping loop stores.                                  *)
LEMMA StoreKeysGenuine ==
  ASSUME NEW q, NEW st, NEW pk, NEW ck, NEW lo, NEW hi \in Nat,
         EntriesGenuine(q, st), GenuineKey(q, pk, lo, ck)
  PROVE  EntriesGenuine(q, StoreKeys(st, pk, ck, lo, hi))
<1> DEFINE new == StoreKeys(st, pk, ck, lo, hi)
<1>0. lo \in Nat
  BY DEF GenuineKey
<1>1. \A x \in DOMAIN new.entries :
         \/ x \in DOMAIN st.entries /\ new.entries[x] = st.entries[x]
         \/ \E n \in lo .. hi - 1 :
              x = StorageKey(pk, n) /\ new.entries[x] = ChainKeyAt(ck, n - lo)
  BY <1>0, StoreKeysContents
<1> HIDE DEF new
<1>2. ASSUME NEW n \in lo .. hi - 1
      PROVE  GenuineKey(q, pk, n, ChainKeyAt(ck, n - lo))
  BY <1>0, GenuineRun
<1>3. ASSUME NEW x \in DOMAIN new.entries
      PROVE  x = StorageKey(x[1], x[2]) /\ GenuineKey(q, x[1], x[2], new.entries[x])
  <2>1. CASE x \in DOMAIN st.entries /\ new.entries[x] = st.entries[x]
    BY <2>1 DEF EntriesGenuine
  <2>2. CASE \E n \in lo .. hi - 1 :
               x = StorageKey(pk, n) /\ new.entries[x] = ChainKeyAt(ck, n - lo)
    <3>1. PICK n \in lo .. hi - 1 : x = StorageKey(pk, n) /\ new.entries[x] = ChainKeyAt(ck, n - lo)
      BY <2>2
    <3>2. x[1] = pk /\ x[2] = n
      BY <3>1 DEF StorageKey
    <3> QED BY <1>2, <3>1, <3>2
  <2> QED BY <1>1, <2>1, <2>2
<1> QED
  BY <1>3 DEF EntriesGenuine, new

(* And those a DH ratchet step stores of the chain it supersedes.          *)
LEMMA SkipPrevGenuine ==
  ASSUME TypeInv, NEW p \in Party, KeysGenuine(p), NEW pn \in Nat
  PROVE  EntriesGenuine(Peer(p), SkipPrevChain(session[p], pn))
<1> DEFINE s == session[p]
           c == GetChain(s.recvChains, s.dhr)
<1>1. CASE ~HasPrevChain(s)
  BY <1>1 DEF SkipPrevChain, KeysGenuine
<1>2. CASE HasPrevChain(s)
  <2>1. HasChain(s.recvChains, s.dhr) /\ RingOK(s.recvChains)
    BY <1>2, RingsOK DEF HasPrevChain
  <2>2. c \in Held(s.recvChains) /\ c.pk = s.dhr
    BY <2>1, HeldFacts
  <2>3. GenuineKey(Peer(p), s.dhr, c.nr, c.ck) /\ EntriesGenuine(Peer(p), s.mkSkipped)
    BY <2>2 DEF KeysGenuine, ChainsGenuine
  <2>4. SkipPrevChain(s, pn) = StoreKeys(s.mkSkipped, s.dhr, c.ck, c.nr, pn)
    BY <1>2 DEF SkipPrevChain, PrevNr
  <2> HIDE DEF s, c
  <2>5. EntriesGenuine(Peer(p), SkipPrevChain(s, pn))
    BY <2>3, <2>4, StoreKeysGenuine
  <2> QED BY <2>5 DEF s
<1> QED
  BY <1>1, <1>2

(* A message received in any of the three ways leaves genuine keys: the    *)
(* chain it was received on is the sender's, because the box opened.       *)
LEMMA ReceiveGenuine ==
  ASSUME IInv, TypeInv, NEW p \in Party, KeysGenuine(p), NEW m \in network, m.from = Peer(p),
         NEW t, Receives(session[p], t, m)
  PROVE  ChainsGenuine(Peer(p), t.recvChains) /\ EntriesGenuine(Peer(p), t.mkSkipped)
<1> DEFINE s == session[p]
           q == Peer(p)
           pk == m.hdr.pk
           n == m.hdr.n
<1>0. n \in Nat /\ m.hdr.pn \in Nat /\ RingOK(s.recvChains)
  BY MessageFacts, RingsOK DEF TypeInv, MessageOK
<1>g. /\ ChainsGenuine(q, s.recvChains) /\ EntriesGenuine(q, s.mkSkipped)
  BY DEF KeysGenuine
<1>k. GenuineKey(q, pk, n, m.box.key)
  BY <1>0, MessageKey DEF GenuineKey
<1>n. DeriveNextChainKey(m.box.key) = [root |-> m.box.key.root, step |-> n + 1]
  <2>1. PICK r : r = m.box.key.root /\ m.box.key = [root |-> r, step |-> n]
    BY MessageKey
  <2> QED BY <2>1 DEF DeriveNextChainKey
<1>l. GenuineKey(q, pk, n + 1, DeriveNextChainKey(m.box.key))
  BY <1>0, <1>n DEF GenuineKey
<1>1. CASE TookSkipped(s, t, m.hdr, m.box.key)
  <2>1. t.recvChains = s.recvChains
        /\ t.mkSkipped.entries = Without(s.mkSkipped.entries, StorageKey(pk, n))
    BY <1>1 DEF TookSkipped, Consume
  <2> QED
    BY <1>g, <2>1 DEF EntriesGenuine, Without
<1>2. CASE OnHeldChain(s, t, m.hdr, m.box.key)
  <2> DEFINE c == GetChain(s.recvChains, pk)
  <2>1. /\ HasChain(s.recvChains, pk) /\ ~(n < c.nr)
        /\ t.mkSkipped = StoreKeys(s.mkSkipped, pk, c.ck, c.nr, n)
        /\ t.recvChains = PutChain(s.recvChains, pk, DeriveNextChainKey(m.box.key), n + 1)
    BY <1>2 DEF OnHeldChain
  <2>2. c \in Held(s.recvChains) /\ c.pk = pk
    BY <1>0, <2>1, HeldFacts
  <2> HIDE DEF c, s, q, pk, n
  <2>3. GenuineKey(q, pk, c.nr, c.ck)
    BY <1>g, <2>2 DEF ChainsGenuine
  <2>4. EntriesGenuine(q, t.mkSkipped)
    BY <1>0, <1>g, <2>1, <2>3, StoreKeysGenuine
  <2>5. Held(t.recvChains) \subseteq
          Held(s.recvChains) \cup {[pk |-> pk, ck |-> DeriveNextChainKey(m.box.key), nr |-> n + 1]}
    BY <1>0, <2>1, HeldAfterPut
  <2>6. ChainsGenuine(q, t.recvChains)
    BY <1>g, <1>l, <2>5 DEF ChainsGenuine
  <2> QED BY <2>4, <2>6 DEF q
<1>3. CASE OnNewChain(s, t, m.hdr, m.box.key)
  <2> DEFINE first == FirstChainKey(t.rk)
             pushed == Push(s.recvChains, pk, first)
  <2>1. /\ ~HasChain(s.recvChains, pk)
        /\ m.box.key = ChainKeyAt(first, n)
        /\ t.mkSkipped = StoreKeys(SkipPrevChain(s, m.hdr.pn), pk, first, 0, n)
        /\ t.recvChains = PutChain(pushed, pk, DeriveNextChainKey(m.box.key), n + 1)
    BY <1>3 DEF OnNewChain
  <2>2. first = [root |-> m.box.key.root, step |-> 0]
    BY <2>1 DEF ChainKeyAt, FirstChainKey
  <2>3. GenuineKey(q, pk, 0, first)
    BY <2>2 DEF GenuineKey
  <2>4. EntriesGenuine(q, SkipPrevChain(s, m.hdr.pn))
    BY <1>0, SkipPrevGenuine
  <2> HIDE DEF s, q, pk, n, first
  <2>5. EntriesGenuine(q, t.mkSkipped)
    BY <1>0, <2>1, <2>3, <2>4, StoreKeysGenuine
  <2>6. RingOK(pushed) /\ HasChain(pushed, pk)
    BY <1>0, <2>1, PushFacts, GetAfterPush
  <2>7. Held(t.recvChains) \subseteq
          Held(pushed) \cup {[pk |-> pk, ck |-> DeriveNextChainKey(m.box.key), nr |-> n + 1]}
    BY <2>1, <2>6, HeldAfterPut
  <2>8. Held(pushed) \subseteq Held(s.recvChains) \cup {NewChain(pk, first)}
    BY <1>0, HeldAfterPush
  <2>9. ChainsGenuine(q, t.recvChains)
    <3> HIDE DEF pushed
    <3> QED BY <1>g, <1>l, <2>3, <2>7, <2>8 DEF ChainsGenuine, NewChain
  <2> QED BY <2>5, <2>9 DEF q
<1> QED
  BY <1>1, <1>2, <1>3 DEF Receives

(* Sending does not touch them.                                            *)
LEMMA GenuineKept ==
  ASSUME NEW p \in Party, KeysGenuine(p), network \subseteq network',
         session'[p].recvChains = session[p].recvChains,
         session'[p].mkSkipped = session[p].mkSkipped
  PROVE  KeysGenuine(p)'
<1>1. ASSUME NEW q, NEW pk, NEW n, NEW key, GenuineKey(q, pk, n, key)
      PROVE  GenuineKey(q, pk, n, key)'
  BY <1>1 DEF GenuineKey
<1>2. ChainsGenuine(Peer(p), session[p].recvChains)'
  BY <1>1 DEF KeysGenuine, ChainsGenuine
<1>3. EntriesGenuine(Peer(p), session[p].mkSkipped)'
  BY <1>1 DEF KeysGenuine, EntriesGenuine
<1> QED
  BY <1>2, <1>3 DEF KeysGenuine

(* A session starts without any.                                           *)
LEMMA InitKeyInv == Init => KeyInv
<1> SUFFICES ASSUME Init PROVE KeyInv
  OBVIOUS
<1>1. \A p \in Party : /\ session[p].recvChains = NewReceiverChains
                       /\ session[p].mkSkipped = NewStorage
  BY DEF Init, InitInitiator, InitResponder
<1>2. Held(NewReceiverChains) = {} /\ DOMAIN NewStorage.entries = {}
  BY DEF Held, NewReceiverChains, NewStorage
<1>3. \A p \in Party : KeysGenuine(p)
  BY <1>1, <1>2 DEF KeysGenuine, ChainsGenuine, EntriesGenuine
<1> QED
  BY <1>3 DEF Init, KeyInv, OneRootPerKey

(* Encrypt seals every message under a ratchet key with one chain.         *)
LEMMA EncryptKeyInv ==
  ASSUME IInv, TypeInv, KeyInv, NEW p \in Party, Encrypt(p)
  PROVE  KeyInv'
<1> DEFINE q == Peer(p)
           s == session[p]
           t == session'[p]
<1>1. /\ session'[q] = session[q] /\ q \in Party /\ Party = {p, q} /\ q # p
      /\ SameChain(s, t) \/ FreshChain(s, t, KeyPair(p, generated[p]))
      /\ \A x \in network : x.hdr.pk = t.dhs => x.hdr.n < t.ns - 1
  BY EncryptStep, PeerFacts
<1>2. PICK m : network' = network \cup {m} /\ Sends(s, t, p, m)
  BY EncryptStep
<1>3. m.from = p /\ m.hdr.pk = t.dhs /\ m.box.key.root = t.cks.root
      /\ t.recvChains = s.recvChains /\ t.mkSkipped = s.mkSkipped
  BY <1>2 DEF Sends
<1>4. ASSUME NEW x \in network, x.hdr.pk = t.dhs
      PROVE  x.box.key.root = t.cks.root
  <2>1. CASE SameChain(s, t)
    <3>1. s.dhs = KeyPair(p, generated[p] - 1) /\ t.dhs = s.dhs /\ t.cks.root = s.cks.root
      BY <2>1, SessionFacts DEF SameChain
    <3>2. x.from = p
      BY <1>4, <3>1, MessageFacts, KeyOwner
    <3> QED
      BY <1>4, <3>1, <3>2 DEF KeyInv, OneRootPerKey
  <2>2. CASE FreshChain(s, t, KeyPair(p, generated[p]))
    <3>1. t.ns = 1 /\ x.hdr.n \in Nat /\ x.hdr.n < t.ns - 1
      BY <1>1, <1>4, <2>2, MessageFacts DEF FreshChain
    <3> QED
      BY <3>1
  <2> QED BY <1>1, <2>1, <2>2
<1> HIDE DEF s, t
<1>5. OneRootPerKey'
  <2> SUFFICES ASSUME NEW a \in network'
               PROVE  /\ \A x \in network' : x.hdr.pk = a.hdr.pk => x.box.key.root = a.box.key.root
                      /\ a.hdr.pk = session'[a.from].dhs =>
                           session'[a.from].cks.root = a.box.key.root
    BY DEF OneRootPerKey
  <2>1. ASSUME NEW x \in network', x.hdr.pk = a.hdr.pk
        PROVE  x.box.key.root = a.box.key.root
    BY <1>2, <1>3, <1>4, <2>1 DEF KeyInv, OneRootPerKey
  <2>2. ASSUME a.hdr.pk = session'[a.from].dhs
        PROVE  session'[a.from].cks.root = a.box.key.root
    <3>1. CASE a = m
      BY <3>1, <1>3 DEF t
    <3>2. CASE a \in network /\ a.from = p
      BY <3>2, <2>2, <1>4 DEF t
    <3>3. CASE a \in network /\ a.from = q
      BY <3>3, <2>2, <1>1 DEF KeyInv, OneRootPerKey
    <3> QED
      BY <1>1, <1>2, <3>1, <3>2, <3>3, MessageFacts
  <2> QED BY <2>1, <2>2
<1>6. KeysGenuine(p)' /\ KeysGenuine(q)'
  BY <1>1, <1>2, <1>3, GenuineKept DEF KeyInv, s, t
<1> QED
  BY <1>1, <1>5, <1>6 DEF KeyInv

(* Receiving does not change what was sent.                                *)
LEMMA RootsKept ==
  ASSUME IInv, OneRootPerKey, UNCHANGED network,
         \A x \in Party : session'[x].dhs = session[x].dhs /\ session'[x].cks = session[x].cks
  PROVE  OneRootPerKey'
BY MessageFacts DEF OneRootPerKey

(* Nor does an Encrypt that fails.                                         *)
LEMMA EncryptFailsKeyInv ==
  ASSUME IInv, TypeInv, KeyInv, NEW p \in Party, EncryptFails(p)
  PROVE  KeyInv'
<1>1. UNCHANGED network /\ Party = {p, Peer(p)} /\ Peer(p) \in Party
  BY EncryptFailsStep, PeerFacts
<1>2. \A x \in Party : /\ session'[x].dhs = session[x].dhs /\ session'[x].cks = session[x].cks
                       /\ session'[x].recvChains = session[x].recvChains
                       /\ session'[x].mkSkipped = session[x].mkSkipped
  BY <1>1, EncryptFailsStep
<1> QED
  BY <1>1, <1>2, RootsKept, GenuineKept DEF KeyInv

(* A message that is accepted leaves the keys genuine.                     *)
LEMMA DecryptAcceptsKeyInv ==
  ASSUME IInv, TypeInv, KeyInv, NEW p \in Party, DecryptAccepts(p)
  PROVE  KeyInv'
<1> DEFINE q == Peer(p)
           t == session'[p]
<1>1. PICK m \in network :
        /\ m.from = q /\ session'[q] = session[q]
        /\ UNCHANGED <<generated, sent, network>>
        /\ SendHalfSame(session[p], t)
        /\ Receives(session[p], t, m)
  BY AcceptStep
<1>2. Party = {p, q} /\ q \in Party
  BY PeerFacts
<1>3. \A x \in Party : session'[x].dhs = session[x].dhs /\ session'[x].cks = session[x].cks
  BY <1>1, <1>2 DEF SendHalfSame
<1>4. OneRootPerKey'
  BY <1>1, <1>3, RootsKept DEF KeyInv
<1>5. ChainsGenuine(q, t.recvChains) /\ EntriesGenuine(q, t.mkSkipped)
  BY <1>1, ReceiveGenuine DEF KeyInv
<1>6. KeysGenuine(p)'
  BY <1>1, <1>5 DEF KeysGenuine, ChainsGenuine, EntriesGenuine, GenuineKey
<1>7. KeysGenuine(q)'
  BY <1>1, <1>2, GenuineKept DEF KeyInv
<1> QED
  BY <1>2, <1>4, <1>6, <1>7 DEF KeyInv

(* Every step keeps KeyInv.                                                *)
LEMMA StepKeyInv == IInv /\ TypeInv /\ KeyInv /\ [Next]_vars => KeyInv'
<1> SUFFICES ASSUME IInv, TypeInv, KeyInv, [Next]_vars PROVE KeyInv'
  OBVIOUS
<1>1. CASE UNCHANGED vars
  BY <1>1, RootsKept, GenuineKept DEF vars, KeyInv
<1>2. ASSUME NEW p \in Party, DecryptRejects(p)
      PROVE  KeyInv'
  BY <1>1, <1>2, DecryptRejectsUnchanged
<1> QED
  BY <1>1, <1>2, EncryptKeyInv, EncryptFailsKeyInv, DecryptAcceptsKeyInv DEF Next

(* KeyInv holds in every reachable state.                                  *)
THEOREM SpecKeyInv == Spec => []KeyInv
BY InitKeyInv, StepKeyInv, SpecIInv, SpecTypeInv, PTL DEF Spec

(* A genuine key for the name of a message is the key of that message.     *)
LEMMA KeysMatch ==
  ASSUME IInv, TypeInv, KeyInv, NEW m \in network
  PROVE  LET s  == session[Peer(m.from)]
             id == StorageKey(m.hdr.pk, m.hdr.n)
             c  == GetChain(s.recvChains, m.hdr.pk)
         IN  /\ HasKey(s.mkSkipped, id) => Lookup(s.mkSkipped, id) = m.box.key
             /\ HasChain(s.recvChains, m.hdr.pk) =>
                  /\ c.nr \in Nat
                  /\ m.hdr.n >= c.nr => ChainKeyAt(c.ck, m.hdr.n - c.nr) = m.box.key
<1> DEFINE p == Peer(m.from)
           s == session[p]
           id == StorageKey(m.hdr.pk, m.hdr.n)
           c == GetChain(s.recvChains, m.hdr.pk)
<1>1. p \in Party /\ Peer(p) = m.from
  BY MessageFacts, PeerFacts
<1>2. ASSUME NEW ck, GenuineKey(Peer(p), m.hdr.pk, m.hdr.n, ck)
      PROVE  ck = m.box.key
  <2>1. PICK x \in network : x.hdr.pk = m.hdr.pk /\ ck = [root |-> x.box.key.root, step |-> m.hdr.n]
    BY <1>2 DEF GenuineKey
  <2>2. x.box.key.root = m.box.key.root
    BY <2>1 DEF KeyInv, OneRootPerKey
  <2> QED BY <2>1, <2>2, MessageKey
<1>3. ASSUME HasKey(s.mkSkipped, id) PROVE Lookup(s.mkSkipped, id) = m.box.key
  <2>1. id[1] = m.hdr.pk /\ id[2] = m.hdr.n
    BY DEF StorageKey
  <2>2. GenuineKey(Peer(p), id[1], id[2], s.mkSkipped.entries[id])
    BY <1>1, <1>3 DEF HasKey, KeyInv, KeysGenuine, EntriesGenuine
  <2> QED
    BY <1>2, <2>1, <2>2 DEF Lookup
<1>4. ASSUME HasChain(s.recvChains, m.hdr.pk)
      PROVE  /\ c.nr \in Nat
             /\ m.hdr.n >= c.nr => ChainKeyAt(c.ck, m.hdr.n - c.nr) = m.box.key
  <2>1. c \in Held(s.recvChains) /\ c.pk = m.hdr.pk
    BY <1>1, <1>4, RingsOK, HeldFacts
  <2>2. GenuineKey(Peer(p), m.hdr.pk, c.nr, c.ck)
    BY <1>1, <2>1 DEF KeyInv, KeysGenuine, ChainsGenuine
  <2> HIDE DEF c
  <2>3. c.nr \in Nat /\ m.hdr.n \in Nat
    BY <2>2, MessageFacts DEF GenuineKey
  <2> QED BY <1>2, <2>2, <2>3, GenuineRun
<1> QED
  BY <1>3, <1>4

(* KeyInv is strong enough.                                                *)
LEMMA KeyInvSuffices == IInv /\ TypeInv /\ KeyInv => ReceiverKeysMatchSender
BY KeysMatch DEF ReceiverKeysMatchSender

(* The key that a receiver would try for a message, out of its store of    *)
(* skipped keys or out of a receiving chain, is the one the message was    *)
(* sealed with, whatever was received, damaged, replayed or skipped        *)
(* before.                                                                 *)
THEOREM ReceiversHoldSendersKeys == Spec => []ReceiverKeysMatchSender
BY SpecIInv, SpecTypeInv, SpecKeyInv, KeyInvSuffices, PTL

-----------------------------------------------------------------------------
(* The index of the newest key pair of a party.                            *)
Newest(p) == generated[p] - 1

(* The messages sent under a ratchet key.                                  *)
SentUnder(pk) == {x \in network : x.hdr.pk = pk}

(* The inductive invariant behind PNCountsPreviousChain. ns counts the     *)
(* messages sent under the newest key. pn counts those under the key       *)
(* before it, except while a DH ratchet step is pending: an Encrypt that   *)
(* failed has then overwritten it.                                         *)
CountInv ==
  /\ IsFiniteSet(network)
  /\ \A p \in Party :
       LET s == session[p]
       IN  /\ Cardinality(SentUnder(KeyPair(p, Newest(p)))) = s.ns
           /\ ~s.dhRatchetPerformed /\ Newest(p) > 0 =>
                s.pn = Cardinality(SentUnder(KeyPair(p, Newest(p) - 1)))
  /\ \A m \in network :
       m.hdr.pk[2] > 0 =>
         m.hdr.pn = Cardinality(SentUnder(KeyPair(m.from, m.hdr.pk[2] - 1)))

(* Nothing is sent at first.                                               *)
LEMMA InitCountInv == Init => CountInv
<1> SUFFICES ASSUME Init PROVE CountInv
  OBVIOUS
<1>1. network = {} /\ \A p \in Party : session[p].ns = 0 /\ Newest(p) = 0
  BY DEF Init, InitInitiator, InitResponder, Newest
<1>2. \A pk : SentUnder(pk) = {}
  BY <1>1 DEF SentUnder
<1> QED
  BY <1>1, <1>2, FS_EmptySet DEF CountInv

(* Encrypt announces the count and goes on counting.                       *)
LEMMA EncryptCountInv ==
  ASSUME IInv, TypeInv, CountInv, NEW p \in Party, Encrypt(p)
  PROVE  CountInv'
<1> DEFINE q == Peer(p)
           s == session[p]
           g == Newest(p)
<1>t. PICK t : t = session'[p]
  OBVIOUS
<1>1. /\ session'[q] = session[q] /\ q \in Party /\ Party = {p, q} /\ q # p
      /\ \/ SameChain(s, t) /\ generated' = generated
         \/ FreshChain(s, t, KeyPair(p, generated[p])) /\ generated' = [generated EXCEPT ![p] = @ + 1]
      /\ \A x \in network : x.hdr.pk = t.dhs => x.hdr.n < t.ns - 1
  BY <1>t, EncryptStep, PeerFacts
<1>2. PICK m : network' = network \cup {m} /\ Sends(s, t, p, m)
  BY <1>t, EncryptStep
<1>3. m.from = p /\ m.hdr.pk = t.dhs /\ m.hdr.n = t.ns - 1 /\ m.hdr.pn = t.pn
      /\ t.dhRatchetPerformed = FALSE
  BY <1>2 DEF Sends
<1>4. /\ generated \in [Party -> Nat \ {0}] /\ g \in Nat /\ Newest(q) \in Nat
      /\ s.ns \in Nat /\ s.dhs = KeyPair(p, g)
      /\ \A x \in network : /\ x.from \in Party
                           /\ \E i \in 0 .. generated[x.from] - 1 : x.hdr.pk = KeyPair(x.from, i)
  <2>1. ASSUME NEW x \in network
        PROVE  x.from \in Party /\ \E i \in 0 .. generated[x.from] - 1 : x.hdr.pk = KeyPair(x.from, i)
    <3>1. x.from \in Party /\ x.hdr.pk \in OwnKeys(x.from)
      BY MessageFacts
    <3> QED BY <3>1 DEF OwnKeys
  <2>2. s.ns \in Nat /\ s.dhs = KeyPair(p, g) /\ g \in Nat /\ Newest(q) \in Nat
    BY <1>1, SessionFacts DEF Newest
  <2>3. generated \in [Party -> Nat \ {0}]
    BY DEF IInv, SendHalfInv
  <2> QED BY <2>1, <2>2, <2>3
<1>5. m \notin network
  <2> SUFFICES ASSUME m \in network PROVE FALSE
    OBVIOUS
  <2>1. m.hdr.n < m.hdr.n /\ m.hdr.n \in Nat
    BY <1>1, <1>3, MessageFacts
  <2> QED BY <2>1
<1>6. \A pk : /\ pk # t.dhs => SentUnder(pk)' = SentUnder(pk)
              /\ pk = t.dhs => SentUnder(pk)' = SentUnder(pk) \cup {m}
  BY <1>2, <1>3 DEF SentUnder
<1>7. IsFiniteSet(network') /\ \A pk : IsFiniteSet(SentUnder(pk))
  BY <1>2, FS_AddElement, FS_Subset DEF CountInv, SentUnder
<1>8. Cardinality(SentUnder(t.dhs)') = Cardinality(SentUnder(t.dhs)) + 1
  <2>1. m \notin SentUnder(t.dhs) /\ IsFiniteSet(SentUnder(t.dhs))
    BY <1>5, <1>7 DEF SentUnder
  <2>2. SentUnder(t.dhs)' = SentUnder(t.dhs) \cup {m}
    BY <1>6
  <2>3. Cardinality(SentUnder(t.dhs) \cup {m}) = Cardinality(SentUnder(t.dhs)) + 1
    BY <2>1, FS_AddElement
  <2> QED BY <2>2, <2>3
<1>9. PICK h \in {g, g + 1} : h = Newest(p)' /\ t.dhs = KeyPair(p, h)
  BY <1>1, <1>4 DEF SameChain, FreshChain, Newest
<1>0. Newest(q)' = Newest(q)
  BY <1>1, <1>4 DEF Newest
<1> HIDE DEF s, g
<1>10. /\ Cardinality(SentUnder(t.dhs)') = t.ns
       /\ h > 0 => t.pn = Cardinality(SentUnder(KeyPair(p, h - 1))')
  <2>1. CASE SameChain(s, t) /\ generated' = generated
    <3>1. h = g /\ t.ns = s.ns + 1 /\ t.pn = s.pn /\ ~s.dhRatchetPerformed /\ t.dhs = s.dhs
      BY <2>1, <1>4, <1>9 DEF SameChain, g, Newest
    <3>2. KeyPair(p, g - 1) # t.dhs
      BY <1>4, <3>1 DEF KeyPair
    <3>3. Cardinality(SentUnder(s.dhs)) = s.ns
      BY <1>4 DEF CountInv, s, g
    <3>4. g > 0 => s.pn = Cardinality(SentUnder(KeyPair(p, g - 1)))
      BY <3>1 DEF CountInv, s, g
    <3> QED
      BY <1>6, <1>8, <3>1, <3>2, <3>3, <3>4
  <2>2. CASE FreshChain(s, t, KeyPair(p, generated[p])) /\ generated' = [generated EXCEPT ![p] = @ + 1]
    <3>1. h = g + 1 /\ t.ns = 1 /\ t.pn = s.ns /\ t.dhs = KeyPair(p, g + 1)
      BY <2>2, <1>4, <1>9 DEF FreshChain, g, Newest
    <3>2. SentUnder(t.dhs) = {}
      <4> SUFFICES ASSUME NEW x \in network, x.hdr.pk = KeyPair(p, g + 1) PROVE FALSE
        BY <3>1 DEF SentUnder
      <4>1. PICK i \in 0 .. generated[x.from] - 1 : x.hdr.pk = KeyPair(x.from, i)
        BY <1>4
      <4> QED BY <1>4, <4>1 DEF KeyPair, g, Newest
    <3>3. KeyPair(p, h - 1) = KeyPair(p, g) /\ KeyPair(p, g) # t.dhs
      BY <1>4, <3>1 DEF KeyPair
    <3>4. Cardinality(SentUnder(KeyPair(p, g))) = s.ns
      BY <1>4 DEF CountInv, s, g
    <3> QED
      BY <1>6, <1>8, <3>1, <3>2, <3>3, <3>4, FS_EmptySet
  <2> QED BY <1>1, <2>1, <2>2 DEF s
<1>11. /\ Cardinality(SentUnder(KeyPair(q, Newest(q)))') = session[q].ns
       /\ ~session[q].dhRatchetPerformed /\ Newest(q) > 0 =>
            session[q].pn = Cardinality(SentUnder(KeyPair(q, Newest(q) - 1))')
  <2>1. \A i : KeyPair(q, i) # t.dhs
    BY <1>1, <1>9 DEF KeyPair
  <2>2. \A i : SentUnder(KeyPair(q, i))' = SentUnder(KeyPair(q, i))
    BY <1>6, <2>1
  <2>3. /\ Cardinality(SentUnder(KeyPair(q, Newest(q)))) = session[q].ns
        /\ ~session[q].dhRatchetPerformed /\ Newest(q) > 0 =>
             session[q].pn = Cardinality(SentUnder(KeyPair(q, Newest(q) - 1)))
    BY <1>1 DEF CountInv
  <2>4. PICK i : i = Newest(q)
    OBVIOUS
  <2>5. SentUnder(KeyPair(q, i))' = SentUnder(KeyPair(q, i))
        /\ SentUnder(KeyPair(q, i - 1))' = SentUnder(KeyPair(q, i - 1))
    BY <2>2
  <2> QED
    BY <1>0, <2>3, <2>4, <2>5
<1>12. ASSUME NEW x \in network', x.hdr.pk[2] > 0
       PROVE  x.hdr.pn = Cardinality(SentUnder(KeyPair(x.from, x.hdr.pk[2] - 1))')
  <2>1. CASE x = m
    <3>1. x.hdr.pk[2] = h
      BY <2>1, <1>3, <1>9 DEF KeyPair
    <3> QED BY <2>1, <3>1, <1>3, <1>10, <1>12
  <2>2. CASE x \in network
    <3>1. PICK i \in 0 .. generated[x.from] - 1 : x.hdr.pk = KeyPair(x.from, i)
      BY <2>2, <1>4
    <3>2. x.hdr.pk[2] = i /\ i \in Nat /\ x.from \in Party /\ generated[x.from] \in Nat
      BY <2>2, <3>1, <1>4 DEF KeyPair
    <3>3. KeyPair(x.from, i - 1) # t.dhs
      <4> SUFFICES ASSUME KeyPair(x.from, i - 1) = t.dhs PROVE FALSE
        OBVIOUS
      <4>1. x.from = p /\ i - 1 = h
        BY <1>9 DEF KeyPair
      <4> QED BY <3>1, <3>2, <4>1, <1>4, <1>9 DEF g, Newest
    <3>4. x.hdr.pn = Cardinality(SentUnder(KeyPair(x.from, i - 1)))
      BY <2>2, <3>2, <1>12 DEF CountInv
    <3> QED BY <1>6, <3>2, <3>3, <3>4
  <2> QED BY <1>2, <2>1, <2>2
<1>13. ASSUME NEW x \in Party
       PROVE  /\ Cardinality(SentUnder(KeyPair(x, Newest(x))))' = session'[x].ns
              /\ ~session'[x].dhRatchetPerformed /\ Newest(x)' > 0 =>
                   session'[x].pn = Cardinality(SentUnder(KeyPair(x, Newest(x) - 1)))'
  <2>1. CASE x = p
    BY <2>1, <1>t, <1>9, <1>10
  <2>2. CASE x = q
    BY <2>2, <1>0, <1>1, <1>11
  <2> QED BY <1>1, <2>1, <2>2
<1> QED
  BY <1>0, <1>1, <1>7, <1>9, <1>10, <1>11, <1>12, <1>13 DEF CountInv

(* Receiving keeps the counts, and a step that leaves a DH ratchet step    *)
(* pending may overwrite pn.                                               *)
LEMMA CountKept ==
  ASSUME IInv, CountInv, UNCHANGED <<network, generated>>,
         \A x \in Party : /\ session'[x].ns = session[x].ns
                         /\ \/ session[x].dhRatchetPerformed /\ session'[x].dhRatchetPerformed
                            \/ session'[x].dhRatchetPerformed = TRUE
                            \/ session'[x].pn = session[x].pn /\ session'[x].dhRatchetPerformed = session[x].dhRatchetPerformed
  PROVE  CountInv'
<1>1. \A pk : SentUnder(pk)' = SentUnder(pk)
  BY DEF SentUnder
<1>2. \A x \in Party : Newest(x)' = Newest(x)
  BY DEF Newest
<1> QED
  BY <1>1, <1>2 DEF CountInv

(* Every step keeps CountInv.                                              *)
LEMMA StepCountInv == IInv /\ TypeInv /\ KeyInv /\ CountInv /\ [Next]_vars => CountInv'
<1> SUFFICES ASSUME IInv, TypeInv, KeyInv, CountInv, [Next]_vars PROVE CountInv'
  OBVIOUS
<1>1. CASE UNCHANGED vars
  BY <1>1, CountKept DEF vars
<1>2. ASSUME NEW p \in Party, DecryptRejects(p)
      PROVE  CountInv'
  BY <1>1, <1>2, DecryptRejectsUnchanged
<1>3. ASSUME NEW p \in Party, EncryptFails(p)
      PROVE  CountInv'
  <2>1. /\ session'[Peer(p)] = session[Peer(p)] /\ UNCHANGED <<network, generated>>
        /\ session'[p].ns = session[p].ns
        /\ session[p].dhRatchetPerformed /\ session'[p].dhRatchetPerformed
    BY <1>3, EncryptFailsStep DEF EpochSame
  <2>2. Party = {p, Peer(p)}
    BY PeerFacts
  <2> QED BY <2>1, <2>2, CountKept
<1>4. ASSUME NEW p \in Party, DecryptAccepts(p)
      PROVE  CountInv'
  <2>1. PICK m \in network :
          /\ session'[Peer(p)] = session[Peer(p)] /\ UNCHANGED <<network, generated>>
          /\ SendHalfSame(session[p], session'[p])
          /\ Receives(session[p], session'[p], m)
    BY <1>4, AcceptStep
  <2>2. Party = {p, Peer(p)}
    BY PeerFacts
  <2>3. \/ session'[p].dhRatchetPerformed = TRUE
        \/ session'[p].dhRatchetPerformed = session[p].dhRatchetPerformed
    BY <2>1 DEF Receives, TookSkipped, OnHeldChain, OnNewChain, EpochSame
  <2> QED BY <2>1, <2>2, <2>3, CountKept DEF SendHalfSame
<1> QED
  BY <1>1, <1>2, <1>3, <1>4, EncryptCountInv DEF Next

(* CountInv is strong enough.                                              *)
LEMMA CountInvSuffices == CountInv => PNCountsPreviousChain
BY DEF CountInv, PNCountsPreviousChain, SentUnder

(* The PN of a message is the number of messages its sender sent under the *)
(* ratchet key before, whatever Encrypt failed in between.                 *)
THEOREM PNCountsPreviousChains == Spec => []PNCountsPreviousChain
<1>1. Spec => []CountInv
  BY InitCountInv, StepCountInv, SpecIInv, SpecTypeInv, SpecKeyInv, PTL DEF Spec
<1> QED
  BY <1>1, CountInvSuffices, PTL
-----------------------------------------------------------------------------
(* The order of deliveries.                                                *)

(* The responder learns the initiator's first ratchet key before it draws  *)
(* its second one: the i-th key of a party answers key i - Lag of its      *)
(* peer.                                                                   *)
Lag(p) == IF p = Initiator THEN 0 ELSE 1
(* Which of its sender's ratchet keys a message goes under.                *)
Index(m) == m.hdr.pk[2]

(* r is the root that the i-th key of p was mixed into: that of the chain  *)
(* of the peer which the key answers.                                      *)
Follows(p, i, r) ==
  IF i = 0 THEN r = InitialRootKey
  ELSE \E x \in network : x.hdr.pk = KeyPair(Peer(p), i - Lag(p)) /\ r = x.box.key.root

(* root is the one that the i-th key of p seeds.                           *)
RootOf(p, i, root) ==
  /\ Lag(p) <= i /\ Follows(p, i, root[1])
  /\ root = DeriveRoot(root[1], SharedSecret(KeyPair(p, i), KeyPair(Peer(p), i - Lag(p))))

(* The roots of the chains form one sequence, to which the two parties     *)
(* contribute in turn.                                                     *)
RootsAlternate ==
  /\ \A m \in network : RootOf(m.from, Index(m), m.box.key.root)
  /\ \A p \in Party : Lag(p) <= Newest(p) => RootOf(p, Newest(p), session[p].cks.root)

(* Whose turn it is, seen by p. With a DH ratchet step pending, dhr is the *)
(* peer's answer to dhs; otherwise dhs is the answer to dhr, or p is the   *)
(* responder and has heard of no key yet.                                  *)
Turn(p) ==
  LET s == session[p]
      q == Peer(p)
      g == Newest(p)
  IN  IF s.dhRatchetPerformed
      THEN /\ s.dhRSet /\ s.dhr = KeyPair(q, g + Lag(q))
           /\ \E m \in network : m.hdr.pk = s.dhr /\ s.rk = m.box.key.root
      ELSE IF g < Lag(p)
      THEN ~s.dhRSet /\ s.rk = InitialRootKey /\ s.cks = NoChainKey
      ELSE s.dhRSet /\ s.dhr = KeyPair(q, g - Lag(p)) /\ s.rk = s.cks.root

(* The parties take turns.                                                 *)
TurnInv == RootsAlternate /\ \A p \in Party : Turn(p)

(* One party lags.                                                         *)
LEMMA LagFacts ==
  ASSUME NEW p \in Party
  PROVE  Lag(p) \in {0, 1} /\ Lag(p) + Lag(Peer(p)) = 1 /\ Peer(p) \in Party
BY PartyAssumption DEF Party, Peer, Lag

(* A root shows what it was derived from.                                  *)
LEMMA RootStep ==
  ASSUME NEW rk, NEW dh
  PROVE  DeriveRoot(rk, dh)[1] = rk
BY DEF DeriveRoot

(* A message goes under a key that its sender has drawn.                   *)
LEMMA MessageIndex ==
  ASSUME IInv, NEW m \in network
  PROVE  /\ m.from \in Party /\ Index(m) \in 0 .. Newest(m.from) /\ Index(m) \in Nat
         /\ Newest(m.from) \in Nat /\ m.hdr.pk = KeyPair(m.from, Index(m))
<1>1. m.from \in Party /\ m.hdr.pk \in OwnKeys(m.from)
  BY MessageFacts
<1>2. PICK i \in 0 .. generated[m.from] - 1 : m.hdr.pk = KeyPair(m.from, i)
  BY <1>1 DEF OwnKeys
<1>3. Index(m) = i /\ Newest(m.from) \in Nat
  BY <1>1, <1>2, SessionFacts DEF Index, KeyPair, Newest
<1> QED
  BY <1>1, <1>2, <1>3 DEF Newest

(* Where a root comes from does not change.                                *)
LEMMA RootOfKept ==
  ASSUME NEW p, NEW i, NEW root, RootOf(p, i, root), network \subseteq network'
  PROVE  RootOf(p, i, root)'
BY DEF RootOf, Follows

(* The initiator starts with the root its first key seeds.                 *)
LEMMA InitTurnInv == Init => TurnInv
<1> SUFFICES ASSUME Init PROVE TurnInv
  OBVIOUS
<1>1. network = {} /\ Initiator \in Party /\ Responder \in Party
  BY DEF Init, Party
<1>2. /\ Newest(Initiator) = 0 /\ Newest(Responder) = 0
      /\ Lag(Initiator) = 0 /\ Lag(Responder) = 1 /\ Peer(Initiator) = Responder
  BY PartyAssumption, <1>1 DEF Init, Newest, Lag, Peer
<1>3. /\ session[Initiator] = InitInitiator(KeyPair(Initiator, 0), KeyPair(Responder, 0))
      /\ session[Responder] = InitResponder(KeyPair(Responder, 0))
  BY PartyAssumption, <1>1 DEF Init
<1> DEFINE root == DeriveRoot(InitialRootKey, SharedSecret(KeyPair(Initiator, 0), KeyPair(Responder, 0)))
<1>4. session[Initiator].cks.root = root /\ session[Initiator].rk = root
  BY <1>3 DEF InitInitiator, FirstChainKey
<1>5. RootOf(Initiator, 0, root)
  BY <1>2, RootStep DEF RootOf, Follows
<1>6. RootsAlternate
  <2>1. \A p \in Party : Lag(p) <= Newest(p) => p = Initiator
    BY <1>2 DEF Party
  <2> QED BY <1>1, <1>2, <1>4, <1>5, <2>1 DEF RootsAlternate
<1>7. Turn(Initiator)
  BY <1>2, <1>3, <1>4 DEF Turn, InitInitiator
<1>8. Turn(Responder)
  BY <1>2, <1>3 DEF Turn, InitResponder
<1> QED
  BY <1>6, <1>7, <1>8 DEF TurnInv, Party

(* The turn of a party whose keys and root stay is the same.               *)
LEMMA TurnKept ==
  ASSUME NEW p \in Party, Turn(p), network \subseteq network', generated'[p] = generated[p],
         EpochSame(session[p], session'[p]), session'[p].cks = session[p].cks
  PROVE  Turn(p)'
BY DEF Turn, EpochSame, Newest

(* Encrypt takes the turn when a DH ratchet step is pending.               *)
LEMMA EncryptTurnInv ==
  ASSUME IInv, TypeInv, TurnInv, NEW p \in Party, Encrypt(p)
  PROVE  TurnInv'
<1> DEFINE q == Peer(p)
           s == session[p]
           g == Newest(p)
<1>t. PICK t : t = session'[p]
  OBVIOUS
<1>1. /\ session'[q] = session[q] /\ q \in Party /\ Party = {p, q} /\ q # p
      /\ \/ SameChain(s, t) /\ generated' = generated
         \/ FreshChain(s, t, KeyPair(p, generated[p])) /\ generated' = [generated EXCEPT ![p] = @ + 1]
  BY <1>t, EncryptStep, PeerFacts
<1>2. PICK m : network' = network \cup {m} /\ Sends(s, t, p, m)
  BY <1>t, EncryptStep
<1>3. /\ m.from = p /\ m.hdr.pk = t.dhs /\ m.box.key.root = t.cks.root
      /\ t.dhr = s.dhr /\ t.dhRSet = s.dhRSet /\ t.dhRatchetPerformed = FALSE
  BY <1>2 DEF Sends
<1>4. /\ generated \in [Party -> Nat \ {0}] /\ g \in Nat /\ Newest(q) \in Nat
      /\ s.dhs = KeyPair(p, g) /\ Turn(p) /\ Turn(q)
      /\ Lag(p) \in {0, 1} /\ Lag(p) + Lag(q) = 1 /\ Lag(q) \in {0, 1}
  BY <1>1, SessionFacts, LagFacts DEF TurnInv, IInv, SendHalfInv, Newest
<1>5. PICK h : h = Newest(p)'
  OBVIOUS
<1>6. /\ h \in Nat /\ t.dhs = KeyPair(p, h) /\ Lag(p) <= h
      /\ RootOf(p, h, t.cks.root)
      /\ t.dhRSet /\ t.dhr = KeyPair(q, h - Lag(p)) /\ t.rk = t.cks.root
  <2>1. CASE SameChain(s, t) /\ generated' = generated
    <3>1. /\ h = g /\ ~s.dhRatchetPerformed /\ s.cks # NoChainKey
          /\ t.dhs = s.dhs /\ t.cks.root = s.cks.root /\ t.rk = s.rk
      BY <2>1, <1>5 DEF SameChain, Newest
    <3>2. Lag(p) <= g /\ s.dhRSet /\ s.dhr = KeyPair(q, g - Lag(p)) /\ s.rk = s.cks.root
      <4> HIDE DEF g, s, q
      <4> QED BY <1>4, <3>1 DEF Turn, g, s, q
    <3>3. RootOf(p, g, s.cks.root)
      BY <3>2 DEF TurnInv, RootsAlternate
    <3> QED BY <1>3, <1>4, <3>1, <3>2, <3>3
  <2>2. CASE FreshChain(s, t, KeyPair(p, generated[p])) /\ generated' = [generated EXCEPT ![p] = @ + 1]
    <3>1. /\ h = g + 1 /\ generated[p] = g + 1 /\ s.dhRatchetPerformed
      BY <2>2, <1>4, <1>5 DEF FreshChain, Newest
    <3>2. /\ t.dhs = KeyPair(p, h) /\ t.rk = DeriveRoot(s.rk, SharedSecret(KeyPair(p, h), s.dhr))
          /\ t.cks.root = t.rk
      BY <2>2, <3>1 DEF FreshChain
    <3>3. /\ s.dhRSet /\ s.dhr = KeyPair(q, g + Lag(q))
          /\ \E x \in network : x.hdr.pk = s.dhr /\ s.rk = x.box.key.root
      BY <1>4, <3>1 DEF Turn
    <3>4. g + Lag(q) = h - Lag(p) /\ h # 0 /\ Lag(p) <= h /\ h \in Nat
      BY <1>4, <3>1
    <3>5. t.rk[1] = s.rk
      BY <3>2, RootStep
    <3>6. RootOf(p, h, t.cks.root)
      BY <3>2, <3>3, <3>4, <3>5 DEF RootOf, Follows
    <3> QED BY <1>3, <3>2, <3>3, <3>4, <3>6
  <2> QED BY <1>1, <2>1, <2>2
<1> HIDE DEF s, g
<1>7. Newest(q)' = Newest(q) /\ generated'[q] = generated[q]
  BY <1>1, <1>4 DEF Newest
<1>8. RootsAlternate'
  <2>1. ASSUME NEW x \in network'
        PROVE  RootOf(x.from, Index(x), x.box.key.root)'
    <3>1. CASE x = m
      <4>1. Index(x) = h /\ x.from = p /\ x.box.key.root = t.cks.root
        BY <3>1, <1>3, <1>6 DEF Index, KeyPair
      <4>2. RootOf(p, h, t.cks.root)'
        BY <1>2, <1>6, RootOfKept
      <4> QED BY <4>1, <4>2
    <3>2. CASE x \in network
      <4>1. RootOf(x.from, Index(x), x.box.key.root)
        BY <3>2 DEF TurnInv, RootsAlternate
      <4> QED BY <4>1, <1>2, RootOfKept
    <3> QED BY <1>2, <3>1, <3>2
  <2>2. RootOf(p, Newest(p), session[p].cks.root)'
    <3>1. RootOf(p, h, t.cks.root)'
      BY <1>2, <1>6, RootOfKept
    <3> QED BY <3>1, <1>5, <1>t
  <2>3. (Lag(q) <= Newest(q) => RootOf(q, Newest(q), session[q].cks.root))'
    <3>0. PICK j : j = Newest(q)
      OBVIOUS
    <3>r. PICK r : r = session[q].cks.root
      OBVIOUS
    <3>1. Lag(q) <= j => RootOf(q, j, r)
      BY <1>1, <3>0, <3>r DEF TurnInv, RootsAlternate
    <3>2. Lag(q) <= j => RootOf(q, j, r)'
      BY <3>1, <1>2, RootOfKept
    <3> QED BY <3>0, <3>r, <3>2, <1>1, <1>7
  <2> QED BY <1>1, <2>1, <2>2, <2>3 DEF RootsAlternate
<1>9. Turn(p)'
  <2>1. ~(h < Lag(p))
    BY <1>4, <1>6
  <2> QED BY <1>t, <1>3, <1>5, <1>6, <2>1 DEF Turn
<1>10. Turn(q)'
  BY <1>1, <1>2, <1>4, <1>7, TurnKept DEF EpochSame
<1> QED
  BY <1>1, <1>8, <1>9, <1>10 DEF TurnInv

(* Receiving adds no root.                                                 *)
LEMMA AlternateKept ==
  ASSUME RootsAlternate, UNCHANGED <<network, generated>>,
         \A x \in Party : session'[x].cks = session[x].cks
  PROVE  RootsAlternate'
BY DEF RootsAlternate, RootOf, Follows, Newest

(* A message that Decrypt accepts by a DH ratchet step goes under the key  *)
(* after those the receiver has answered, neither an older nor a later     *)
(* one: the root it was sealed under tells the key it answers.             *)
LEMMA NewChainIndex ==
  ASSUME IInv, TurnInv, NEW p \in Party, NEW m \in network, m.from = Peer(p), NEW t,
         OnNewChain(session[p], t, m.hdr, m.box.key)
  PROVE  m.hdr.pk = KeyPair(Peer(p), Newest(p) + Lag(Peer(p))) /\ t.rk = m.box.key.root
<1> DEFINE q == Peer(p)
           s == session[p]
           i == Index(m)
<1>1. /\ q \in Party /\ q # p /\ Peer(q) = p /\ s.dhs = KeyPair(p, Newest(p)) /\ Newest(p) \in Nat
      /\ m.hdr.pk = KeyPair(q, i) /\ i \in Nat /\ Lag(q) \in {0, 1}
  BY SessionFacts, MessageIndex, LagFacts DEF Newest
<1>2. t.rk = DeriveRoot(s.rk, SharedSecret(s.dhs, m.hdr.pk)) /\ m.box.key = ChainKeyAt(FirstChainKey(t.rk), m.hdr.n)
  BY DEF OnNewChain
<1>3. t.rk = m.box.key.root
  BY <1>2 DEF ChainKeyAt, FirstChainKey
<1>4. PICK r : m.box.key.root = DeriveRoot(r, SharedSecret(KeyPair(q, i), KeyPair(p, i - Lag(q))))
  BY <1>1 DEF TurnInv, RootsAlternate, RootOf
<1>5. SharedSecret(KeyPair(p, Newest(p)), KeyPair(q, i)) = SharedSecret(KeyPair(q, i), KeyPair(p, i - Lag(q)))
  BY <1>1, <1>2, <1>3, <1>4 DEF DeriveRoot
<1>6. KeyPair(p, Newest(p)) # KeyPair(q, i)
  BY <1>1 DEF KeyPair
<1>7. KeyPair(p, Newest(p)) = KeyPair(p, i - Lag(q))
  BY <1>5, <1>6 DEF SharedSecret
<1>8. Newest(p) = i - Lag(q)
  BY <1>7 DEF KeyPair
<1> QED
  BY <1>1, <1>3, <1>8

(* A message that is accepted gives the turn to its receiver, or leaves    *)
(* it.                                                                     *)
LEMMA DecryptAcceptsTurnInv ==
  ASSUME IInv, TypeInv, KeyInv, TurnInv, NEW p \in Party, DecryptAccepts(p)
  PROVE  TurnInv'
<1> DEFINE q == Peer(p)
           s == session[p]
<1>t. PICK t : t = session'[p]
  OBVIOUS
<1>1. PICK m \in network :
        /\ m.from = q /\ session'[q] = session[q]
        /\ UNCHANGED <<generated, sent, network>>
        /\ SendHalfSame(s, t) /\ Receives(s, t, m)
  BY <1>t, AcceptStep
<1>2. Party = {p, q} /\ q \in Party /\ t.cks = s.cks
  BY <1>1, PeerFacts DEF SendHalfSame
<1>3. RootsAlternate'
  BY <1>t, <1>1, <1>2, AlternateKept DEF TurnInv
<1>4. Turn(q)'
  BY <1>1, <1>2, TurnKept DEF TurnInv, EpochSame
<1>5. Turn(p)'
  <2>1. CASE TookSkipped(s, t, m.hdr, m.box.key) \/ OnHeldChain(s, t, m.hdr, m.box.key)
    <3>1. EpochSame(s, t)
      BY <2>1 DEF TookSkipped, OnHeldChain
    <3> QED BY <3>1, <1>t, <1>1, <1>2, TurnKept DEF TurnInv
  <2>2. CASE OnNewChain(s, t, m.hdr, m.box.key)
    <3>1. m.hdr.pk = KeyPair(q, Newest(p) + Lag(q)) /\ t.rk = m.box.key.root
      BY <2>2, <1>1, NewChainIndex
    <3>2. t.dhr = m.hdr.pk /\ t.dhRSet = TRUE /\ t.dhRatchetPerformed = TRUE
      BY <2>2 DEF OnNewChain
    <3>3. Newest(p)' = Newest(p)
      BY <1>1 DEF Newest
    <3> QED BY <1>t, <1>1, <3>1, <3>2, <3>3 DEF Turn
  <2> QED BY <1>1, <2>1, <2>2 DEF Receives
<1> QED
  BY <1>2, <1>3, <1>4, <1>5 DEF TurnInv

(* Every step keeps TurnInv.                                               *)
LEMMA StepTurnInv == IInv /\ TypeInv /\ KeyInv /\ TurnInv /\ [Next]_vars => TurnInv'
<1> SUFFICES ASSUME IInv, TypeInv, KeyInv, TurnInv, [Next]_vars PROVE TurnInv'
  OBVIOUS
<1>1. CASE UNCHANGED vars
  BY <1>1, AlternateKept, TurnKept DEF vars, TurnInv, EpochSame
<1>2. ASSUME NEW p \in Party, DecryptRejects(p)
      PROVE  TurnInv'
  BY <1>1, <1>2, DecryptRejectsUnchanged
<1>3. ASSUME NEW p \in Party, EncryptFails(p)
      PROVE  TurnInv'
  <2>1. /\ session'[Peer(p)] = session[Peer(p)] /\ UNCHANGED <<network, generated>>
        /\ session'[p].cks = session[p].cks /\ EpochSame(session[p], session'[p])
        /\ Party = {p, Peer(p)} /\ Peer(p) \in Party
    BY <1>3, EncryptFailsStep, PeerFacts
  <2>2. Turn(p)'
    BY <2>1, TurnKept DEF TurnInv
  <2>3. Turn(Peer(p))'
    BY <2>1, TurnKept DEF TurnInv, EpochSame
  <2>4. RootsAlternate'
    BY <2>1, AlternateKept DEF TurnInv
  <2> QED BY <2>1, <2>2, <2>3, <2>4 DEF TurnInv
<1> QED
  BY <1>1, <1>2, <1>3, EncryptTurnInv, DecryptAcceptsTurnInv DEF Next

(* TurnInv holds in every reachable state.                                 *)
THEOREM SpecTurnInv == Spec => []TurnInv
BY InitTurnInv, StepTurnInv, SpecIInv, SpecTypeInv, SpecKeyInv, PTL DEF Spec

-----------------------------------------------------------------------------
(* Texts number the messages of a party. In that order the ratchet keys    *)
(* never go back, numbers rise under one key, and of two messages in a row *)
(* the second has the next number, or begins the next key and announces    *)
(* what the first completed.                                               *)
SentInOrder ==
  \A m1 \in network :
    /\ m1.box.text \in 0 .. sent[m1.from] - 1
    /\ m1.box.text = 0 => m1.hdr.n = 0 /\ Index(m1) = Lag(m1.from)
    /\ \A m2 \in network : m1.from = m2.from =>
         /\ m1.box.text = m2.box.text => m1 = m2
         /\ m1.box.text < m2.box.text =>
              Index(m1) < Index(m2) \/ (m1.hdr.pk = m2.hdr.pk /\ m1.hdr.n < m2.hdr.n)
         /\ m2.box.text = m1.box.text + 1 =>
              \/ m2.hdr.pk = m1.hdr.pk /\ m2.hdr.n = m1.hdr.n + 1
              \/ Index(m2) = Index(m1) + 1 /\ m2.hdr.n = 0 /\ m2.hdr.pn = m1.hdr.n + 1

(* The sending half of a session stands right after its last message.      *)
LastSent ==
  \A p \in Party :
    IF sent[p] = 0 THEN session[p].ns = 0 /\ Newest(p) = 0
    ELSE \E m \in network : /\ m.from = p /\ m.box.text = sent[p] - 1
                            /\ m.hdr.pk = session[p].dhs /\ m.hdr.n = session[p].ns - 1

(* Messages are named in the order in which they are sent.                 *)
OrderInv == SentInOrder /\ LastSent

(* Nothing is sent at first.                                               *)
LEMMA InitOrderInv == Init => OrderInv
BY DEF Init, OrderInv, SentInOrder, LastSent, InitInitiator, InitResponder, Newest

(* Receiving changes neither.                                              *)
LEMMA OrderKept ==
  ASSUME OrderInv, UNCHANGED <<network, generated, sent>>,
         \A x \in Party : session'[x].ns = session[x].ns /\ session'[x].dhs = session[x].dhs
  PROVE  OrderInv'
BY DEF OrderInv, SentInOrder, LastSent, Newest

(* The first message of a party has number 0 and goes under its first key, *)
(* or, when it comes from the responder, under its second.                 *)
LEMMA FirstSent ==
  ASSUME IInv, TypeInv, TurnInv, OrderInv, NEW p \in Party, sent[p] = 0, NEW t,
         \/ SameChain(session[p], t)
         \/ FreshChain(session[p], t, KeyPair(p, generated[p]))
  PROVE  t.ns = 1 /\ t.dhs = KeyPair(p, Lag(p))
<1> DEFINE q == Peer(p)
           s == session[p]
<1>1. /\ s.ns = 0 /\ Newest(p) = 0 /\ generated[p] = 1 /\ s.dhs = KeyPair(p, 0)
      /\ q \in Party /\ Peer(q) = p /\ Lag(p) \in {0, 1} /\ Lag(p) + Lag(q) = 1 /\ Turn(p)
  BY SessionFacts, LagFacts DEF OrderInv, LastSent, Newest, TurnInv
<1>2. \A m \in network : m.from # p
  <2> SUFFICES ASSUME NEW m \in network, m.from = p PROVE FALSE
    OBVIOUS
  <2>1. m.box.text \in 0 .. sent[p] - 1
    BY DEF OrderInv, SentInOrder
  <2> QED BY <2>1
<1>3. CASE SameChain(s, t)
  <2>1. ~s.dhRatchetPerformed /\ s.cks # NoChainKey /\ t.dhs = s.dhs /\ t.ns = s.ns + 1
    BY <1>3 DEF SameChain
  <2>2. ~(0 < Lag(p))
    BY <1>1, <2>1 DEF Turn
  <2> QED BY <1>1, <2>1, <2>2
<1>4. CASE FreshChain(s, t, KeyPair(p, generated[p]))
  <2>1. s.dhRatchetPerformed /\ t.ns = 1 /\ t.dhs = KeyPair(p, 1)
    BY <1>1, <1>4 DEF FreshChain
  <2>a. \E m \in network : m.hdr.pk = KeyPair(q, 0 + Lag(q))
    BY <1>1, <2>1 DEF Turn
  <2>2. PICK m \in network : m.hdr.pk = KeyPair(q, Lag(q))
    <3>1. 0 + Lag(q) = Lag(q)
      BY <1>1, LagFacts
    <3> QED BY <2>a, <3>1
  <2>3. m.from = q /\ Index(m) = Lag(q)
    BY <2>2, MessageIndex DEF KeyPair
  <2>4. Follows(q, Lag(q), m.box.key.root[1])
    BY <1>1, <2>3 DEF TurnInv, RootsAlternate, RootOf
  <2>5. Lag(q) = 0
    <3> SUFFICES ASSUME Lag(q) # 0 PROVE FALSE
      OBVIOUS
    <3>1. PICK x \in network : x.hdr.pk = KeyPair(p, Lag(q) - Lag(q))
      BY <1>1, <2>4 DEF Follows
    <3>2. x.from = p
      BY <3>1, MessageIndex DEF KeyPair
    <3> QED BY <1>2, <3>2
  <2> QED BY <1>1, <2>1, <2>5
<1> QED
  BY <1>3, <1>4

(* Encrypt sends the next message in that order.                           *)
LEMMA EncryptOrderInv ==
  ASSUME IInv, TypeInv, TurnInv, OrderInv, NEW p \in Party, Encrypt(p)
  PROVE  OrderInv'
<1> DEFINE q == Peer(p)
           s == session[p]
           g == Newest(p)
<1>t. PICK t : t = session'[p]
  OBVIOUS
<1>1. /\ session'[q] = session[q] /\ q \in Party /\ Party = {p, q} /\ q # p
      /\ \/ SameChain(s, t) /\ generated' = generated
         \/ FreshChain(s, t, KeyPair(p, generated[p])) /\ generated' = [generated EXCEPT ![p] = @ + 1]
      /\ \A x \in network : x.hdr.pk = t.dhs => x.hdr.n < t.ns - 1
      /\ sent' = [sent EXCEPT ![p] = @ + 1]
  BY <1>t, EncryptStep, PeerFacts
<1>2. PICK m : network' = network \cup {m} /\ Sends(s, t, p, m)
  BY <1>t, EncryptStep
<1>3. m.from = p /\ m.hdr.pk = t.dhs /\ m.hdr.n = t.ns - 1 /\ m.hdr.pn = t.pn /\ m.box.text = sent[p]
  BY <1>2 DEF Sends
<1>4. /\ generated \in [Party -> Nat \ {0}] /\ g \in Nat /\ s.ns \in Nat
      /\ s.dhs = KeyPair(p, g) /\ sent \in [Party -> Nat]
      /\ sent'[p] = sent[p] + 1 /\ sent'[q] = sent[q] /\ sent[p] \in Nat
      /\ Newest(q)' = Newest(q)
  BY <1>1, SessionFacts DEF IInv, SendHalfInv, Newest
<1>5. PICK h : h = Index(m)
  OBVIOUS
<1>6. /\ h \in {g, g + 1} /\ t.dhs = KeyPair(p, h) /\ t.ns \in Nat
      /\ \/ h = g /\ t.ns = s.ns + 1
         \/ h = g + 1 /\ t.ns = 1 /\ t.pn = s.ns
  <2>1. CASE SameChain(s, t)
    BY <2>1, <1>3, <1>4, <1>5 DEF SameChain, Index, KeyPair
  <2>2. CASE FreshChain(s, t, KeyPair(p, generated[p]))
    BY <2>2, <1>3, <1>4, <1>5 DEF FreshChain, Index, KeyPair, Newest
  <2> QED BY <1>1, <2>1, <2>2
<1> HIDE DEF g
<1>7. sent[p] = 0 => t.ns = 1 /\ h = Lag(p)
  <2>1. sent[p] = 0 => t.ns = 1 /\ t.dhs = KeyPair(p, Lag(p))
    BY <1>1, FirstSent
  <2> QED BY <2>1, <1>6 DEF KeyPair
<1>8. ASSUME NEW x \in network, x.from = p
      PROVE  /\ x.box.text \in Nat /\ x.box.text < sent[p]
             /\ Index(x) < h \/ (x.hdr.pk = m.hdr.pk /\ x.hdr.n < m.hdr.n)
             /\ sent[p] = x.box.text + 1 =>
                  \/ m.hdr.pk = x.hdr.pk /\ m.hdr.n = x.hdr.n + 1
                  \/ h = Index(x) + 1 /\ m.hdr.n = 0 /\ m.hdr.pn = x.hdr.n + 1
  <2>1. x.box.text \in Nat /\ x.box.text < sent[p]
    BY <1>4, <1>8 DEF OrderInv, SentInOrder
  <2>2. Index(x) \in 0 .. g /\ x.hdr.pk = KeyPair(p, Index(x)) /\ g \in Nat
    BY <1>8, MessageIndex DEF g
  <2>3. Index(x) < h \/ (x.hdr.pk = m.hdr.pk /\ x.hdr.n < m.hdr.n)
    <3>1. CASE Index(x) # h
      BY <3>1, <2>2, <1>6
    <3>2. CASE Index(x) = h
      BY <3>2, <2>2, <1>1, <1>3, <1>6
    <3> QED BY <3>1, <3>2
  <2>4. ASSUME sent[p] = x.box.text + 1
        PROVE  \/ m.hdr.pk = x.hdr.pk /\ m.hdr.n = x.hdr.n + 1
               \/ h = Index(x) + 1 /\ m.hdr.n = 0 /\ m.hdr.pn = x.hdr.n + 1
    <3>1. sent[p] # 0
      BY <2>1, <2>4
    <3>2. PICK y \in network : /\ y.from = p /\ y.box.text = sent[p] - 1
                               /\ y.hdr.pk = s.dhs /\ y.hdr.n = s.ns - 1
      BY <3>1 DEF OrderInv, LastSent
    <3>3. y.box.text = x.box.text
      BY <2>1, <2>4, <3>2
    <3>4. y = x
      BY <3>2, <3>3, <1>8 DEF OrderInv, SentInOrder
    <3>5. x.hdr.pk = KeyPair(p, g) /\ x.hdr.n = s.ns - 1 /\ Index(x) = g
      BY <3>2, <3>4, <1>4 DEF Index, KeyPair
    <3> QED BY <3>5, <1>3, <1>4, <1>6
  <2> QED BY <2>1, <2>3, <2>4
<1>9. SentInOrder'
  <2>1. ASSUME NEW a \in network'
        PROVE  /\ a.box.text \in 0 .. sent'[a.from] - 1
               /\ a.box.text = 0 => a.hdr.n = 0 /\ Index(a) = Lag(a.from)
    <3>1. CASE a = m
      BY <3>1, <1>3, <1>4, <1>5, <1>6, <1>7
    <3>2. CASE a \in network
      <4>1. /\ a.box.text \in 0 .. sent[a.from] - 1 /\ sent[a.from] \in Nat
            /\ sent'[a.from] \in {sent[a.from], sent[a.from] + 1}
        BY <3>2, <1>1, <1>4, MessageFacts DEF OrderInv, SentInOrder
      <4>2. a.box.text = 0 => a.hdr.n = 0 /\ Index(a) = Lag(a.from)
        BY <3>2 DEF OrderInv, SentInOrder
      <4> QED BY <4>1, <4>2
    <3> QED BY <1>2, <3>1, <3>2
  <2>2. ASSUME NEW a \in network', NEW b \in network', a.from = b.from
        PROVE  /\ a.box.text = b.box.text => a = b
               /\ a.box.text < b.box.text =>
                    Index(a) < Index(b) \/ (a.hdr.pk = b.hdr.pk /\ a.hdr.n < b.hdr.n)
               /\ b.box.text = a.box.text + 1 =>
                    \/ b.hdr.pk = a.hdr.pk /\ b.hdr.n = a.hdr.n + 1
                    \/ Index(b) = Index(a) + 1 /\ b.hdr.n = 0 /\ b.hdr.pn = a.hdr.n + 1
    <3>1. CASE a \in network /\ b \in network
      BY <3>1, <2>2 DEF OrderInv, SentInOrder
    <3>2. CASE a \in network /\ b = m
      BY <3>2, <2>2, <1>3, <1>4, <1>5, <1>8
    <3>3. CASE a = m /\ b \in network
      BY <3>3, <2>2, <1>3, <1>4, <1>8
    <3>4. CASE a = m /\ b = m
      BY <3>4, <1>3, <1>4
    <3> QED BY <1>2, <3>1, <3>2, <3>3, <3>4
  <2> QED BY <2>1, <2>2 DEF SentInOrder, Index
<1>10. LastSent'
  <2>1. \E y \in network' : /\ y.from = p /\ y.box.text = sent'[p] - 1
                            /\ y.hdr.pk = t.dhs /\ y.hdr.n = t.ns - 1
    BY <1>2, <1>3, <1>4
  <2>2. sent'[p] # 0
    BY <1>4
  <2>3. IF sent[q] = 0 THEN session[q].ns = 0 /\ Newest(q) = 0
        ELSE \E y \in network : /\ y.from = q /\ y.box.text = sent[q] - 1
                                /\ y.hdr.pk = session[q].dhs /\ y.hdr.n = session[q].ns - 1
    BY <1>1 DEF OrderInv, LastSent
  <2> QED BY <1>t, <1>1, <1>2, <1>4, <2>1, <2>2, <2>3 DEF LastSent
<1> QED
  BY <1>9, <1>10 DEF OrderInv

(* Every step keeps OrderInv.                                              *)
LEMMA StepOrderInv == IInv /\ TypeInv /\ KeyInv /\ TurnInv /\ OrderInv /\ [Next]_vars => OrderInv'
<1> SUFFICES ASSUME IInv, TypeInv, KeyInv, TurnInv, OrderInv, [Next]_vars PROVE OrderInv'
  OBVIOUS
<1>1. CASE UNCHANGED vars
  BY <1>1, OrderKept DEF vars
<1>2. ASSUME NEW p \in Party, DecryptRejects(p)
      PROVE  OrderInv'
  BY <1>1, <1>2, DecryptRejectsUnchanged
<1>3. ASSUME NEW p \in Party, EncryptFails(p)
      PROVE  OrderInv'
  BY <1>3, EncryptFailsStep, PeerFacts, OrderKept
<1>4. ASSUME NEW p \in Party, DecryptAccepts(p)
      PROVE  OrderInv'
  BY <1>4, AcceptStep, PeerFacts, OrderKept DEF SendHalfSame
<1> QED
  BY <1>1, <1>2, <1>3, <1>4, EncryptOrderInv DEF Next

(* OrderInv holds in every reachable state.                                *)
THEOREM SpecOrderInv == Spec => []OrderInv
BY InitOrderInv, StepOrderInv, SpecIInv, SpecTypeInv, SpecKeyInv, SpecTurnInv, PTL DEF Spec

-----------------------------------------------------------------------------
(* The messages that p has accepted.                                       *)
Taken(p) == {m \in network : m.from = Peer(p) /\ m.box.text \in accepted[p]}

(* A session that has accepted nothing holds no key to receive with.       *)
Fresh(p) ==
  LET s == session[p]
  IN  /\ Held(s.recvChains) = {} /\ DOMAIN s.mkSkipped.entries = {}
      /\ s.dhRatchetPerformed = FALSE /\ Newest(p) = 0

(* The chain in force, that of dhr, is in the buffer and stands after the  *)
(* last of the accepted messages msgs that went under dhr. No chain, no    *)
(* skipped key and no accepted message is of a later ratchet key, and no   *)
(* skipped key is of a message that was accepted under dhr.                *)
ChainInForce(s, msgs) ==
  LET c == GetChain(s.recvChains, s.dhr)
  IN  /\ s.dhRSet /\ HasChain(s.recvChains, s.dhr)
      /\ \A h \in Held(s.recvChains) : h.pk[2] <= s.dhr[2]
      /\ \A id \in DOMAIN s.mkSkipped.entries :
           id[1][2] <= s.dhr[2] /\ (id[1] = s.dhr => id[2] < c.nr)
      /\ \A m \in msgs :
           /\ Index(m) <= s.dhr[2]
           /\ m.hdr.pk = s.dhr =>
                m.hdr.n < c.nr /\ ~HasKey(s.mkSkipped, StorageKey(m.hdr.pk, m.hdr.n))
      /\ \E m \in msgs : m.hdr.pk = s.dhr /\ m.hdr.n = c.nr - 1

(* A party that has accepted a message has a chain in force.               *)
InForce(p) ==
  /\ \A x \in accepted[p] : \E m \in Taken(p) : m.box.text = x
  /\ IF accepted[p] = {} THEN Fresh(p) ELSE ChainInForce(session[p], Taken(p))

(* The inductive invariant behind CurrentChainAtMostOnce and               *)
(* NextInOrderDecryptable.                                                 *)
ForceInv == \A p \in Party : InForce(p)

(* Nothing is accepted at first.                                           *)
LEMMA InitForceInv == Init => ForceInv
<1> SUFFICES ASSUME Init PROVE ForceInv
  OBVIOUS
<1>1. \A p \in Party : /\ session[p].recvChains = NewReceiverChains
                       /\ session[p].mkSkipped = NewStorage
                       /\ session[p].dhRatchetPerformed = FALSE
                       /\ accepted[p] = {} /\ Newest(p) = 0
  BY DEF Init, InitInitiator, InitResponder, Newest
<1>2. Held(NewReceiverChains) = {} /\ DOMAIN NewStorage.entries = {}
  BY DEF Held, NewReceiverChains, NewStorage
<1> QED
  BY <1>1, <1>2 DEF ForceInv, InForce, Fresh

(* Sending touches none of it, and a message that was just sent is not     *)
(* accepted yet.                                                           *)
LEMMA ForceKept ==
  ASSUME NEW p \in Party, InForce(p), network \subseteq network', accepted'[p] = accepted[p],
         \A x \in network' \ network : x.from = Peer(p) => x.box.text \notin accepted[p],
         session'[p].recvChains = session[p].recvChains,
         session'[p].mkSkipped = session[p].mkSkipped,
         session'[p].dhr = session[p].dhr, session'[p].dhRSet = session[p].dhRSet,
         accepted[p] = {} => session'[p].dhRatchetPerformed = FALSE /\ Newest(p)' = 0
  PROVE  InForce(p)'
<1>1. Taken(p)' = Taken(p)
  BY DEF Taken
<1>t. PICK t : t = session'[p]
  OBVIOUS
<1>2. CASE accepted[p] = {}
  BY <1>1, <1>2 DEF InForce, Fresh
<1>3. CASE accepted[p] # {}
  <2>1. ChainInForce(session[p], Taken(p))
    BY <1>3 DEF InForce
  <2>2. ChainInForce(t, Taken(p))
    BY <1>t, <2>1 DEF ChainInForce
  <2>3. ChainInForce(session[p], Taken(p))'
    BY <1>t, <1>1, <2>2 DEF ChainInForce, Index
  <2> QED BY <1>1, <1>3, <2>3 DEF InForce
<1> QED
  BY <1>2, <1>3

(* The index of the ratchet key in force, counted from the party's own     *)
(* keys.                                                                   *)
LEMMA EpochOf ==
  ASSUME IInv, TypeInv, TurnInv, NEW p \in Party, session[p].dhRSet
  PROVE  \E e \in Nat : /\ session[p].dhr = KeyPair(Peer(p), e) /\ session[p].dhr[2] = e
                        /\ ~session[p].dhRatchetPerformed =>
                             Lag(p) <= Newest(p) /\ e = Newest(p) - Lag(p)
                        /\ session[p].dhRatchetPerformed => e = Newest(p) + Lag(Peer(p))
<1> DEFINE s == session[p]
<1>1. /\ Turn(p) /\ Newest(p) \in Nat /\ Lag(p) \in {0, 1} /\ Lag(Peer(p)) \in {0, 1}
      /\ s.dhRatchetPerformed \in BOOLEAN
  BY SessionFacts, LagFacts DEF TurnInv, Newest, TypeInv, ReceiveHalfOK
<1>2. CASE s.dhRatchetPerformed
  <2>1. s.dhr = KeyPair(Peer(p), Newest(p) + Lag(Peer(p))) /\ Newest(p) + Lag(Peer(p)) \in Nat
    BY <1>1, <1>2 DEF Turn
  <2> QED BY <1>2, <2>1 DEF KeyPair
<1>3. CASE ~s.dhRatchetPerformed
  <2>1. ~(Newest(p) < Lag(p)) /\ s.dhr = KeyPair(Peer(p), Newest(p) - Lag(p))
    BY <1>1, <1>3 DEF Turn
  <2>2. Newest(p) - Lag(p) \in Nat /\ Lag(p) <= Newest(p)
    BY <1>1, <2>1
  <2> QED BY <1>3, <2>1, <2>2 DEF KeyPair
<1> QED
  BY <1>2, <1>3

(* Taking a skipped key leaves the chain in force where it is and removes  *)
(* the key.                                                                *)
LEMMA ForceSkipped ==
  ASSUME NEW s, NEW t, NEW msgs, NEW m, ChainInForce(s, msgs), m.hdr.n \in Nat,
         TookSkipped(s, t, m.hdr, m.box.key)
  PROVE  ChainInForce(t, msgs \cup {m})
<1> DEFINE id == StorageKey(m.hdr.pk, m.hdr.n)
<1>1. /\ id \in DOMAIN s.mkSkipped.entries /\ t.recvChains = s.recvChains
      /\ DOMAIN t.mkSkipped.entries = DOMAIN s.mkSkipped.entries \ {id}
      /\ t.dhr = s.dhr /\ t.dhRSet = s.dhRSet
  BY DEF TookSkipped, EpochSame, Consume, Without, HasKey
<1>2. id[1] = m.hdr.pk /\ id[2] = m.hdr.n
  BY DEF StorageKey
<1> HIDE DEF id
<1>3. /\ Index(m) <= s.dhr[2]
      /\ m.hdr.pk = s.dhr => m.hdr.n < GetChain(s.recvChains, s.dhr).nr
  BY <1>1, <1>2 DEF ChainInForce, Index
<1>4. ~HasKey(t.mkSkipped, StorageKey(m.hdr.pk, m.hdr.n))
  BY <1>1 DEF HasKey, id
<1> QED
  BY <1>1, <1>3, <1>4 DEF ChainInForce, HasKey

(* So does receiving on another chain that is held; on the chain in force  *)
(* it moves that chain past the message.                                   *)
LEMMA ForceHeld ==
  ASSUME NEW s, NEW t, NEW msgs, NEW m, ChainInForce(s, msgs), m.hdr.n \in Nat,
         RingOK(s.recvChains), s.dhr[2] \in Nat,
         \A c \in Held(s.recvChains) : c.nr \in Nat,
         \A x \in msgs : x.hdr.n \in Nat,
         \A id \in DOMAIN s.mkSkipped.entries : id[2] \in Nat,
         OnHeldChain(s, t, m.hdr, m.box.key)
  PROVE  ChainInForce(t, msgs \cup {m})
<1> DEFINE pk == m.hdr.pk
           n == m.hdr.n
           r == s.recvChains
           c == GetChain(r, pk)
           d == GetChain(r, s.dhr)
           next == [pk |-> pk, ck |-> DeriveNextChainKey(m.box.key), nr |-> n + 1]
           e == GetChain(t.recvChains, s.dhr)
<1>1. /\ ~HasKey(s.mkSkipped, StorageKey(pk, n)) /\ HasChain(r, pk) /\ ~(n < c.nr)
      /\ t.mkSkipped = StoreKeys(s.mkSkipped, pk, c.ck, c.nr, n)
      /\ t.recvChains = PutChain(r, pk, DeriveNextChainKey(m.box.key), n + 1)
      /\ t.dhr = s.dhr /\ t.dhRSet = s.dhRSet
  BY DEF OnHeldChain, EpochSame
<1>2. /\ s.dhRSet /\ HasChain(r, s.dhr)
      /\ c \in Held(r) /\ c.pk = pk /\ c.nr \in Nat
      /\ d \in Held(r) /\ d.nr \in Nat /\ Index(m) <= s.dhr[2]
  BY <1>1, HeldFacts DEF ChainInForce, Index
<1>3. /\ HasChain(t.recvChains, s.dhr)
      /\ pk = s.dhr => e = next
      /\ pk # s.dhr => e = d
      /\ Held(t.recvChains) \subseteq Held(r) \cup {next}
  BY <1>1, <1>2, GetAfterPut, HeldAfterPut
<1>4. d.nr <= e.nr /\ e.nr \in Nat /\ (pk = s.dhr => e.nr = n + 1 /\ c = d)
  BY <1>1, <1>2, <1>3
<1>5. \A x \in DOMAIN t.mkSkipped.entries :
        \/ x \in DOMAIN s.mkSkipped.entries
        \/ \E k \in c.nr .. n - 1 : x = StorageKey(pk, k)
  BY <1>1, <1>2, StoreKeysContents
<1> HIDE DEF c, e, next
<1>6. ASSUME NEW h \in Held(t.recvChains) PROVE h.pk[2] <= s.dhr[2]
  BY <1>2, <1>3 DEF ChainInForce, Index, next
<1>7. ASSUME NEW x \in DOMAIN t.mkSkipped.entries
      PROVE  x[1][2] <= s.dhr[2] /\ (x[1] = s.dhr => x[2] < e.nr)
  <2>1. CASE x \in DOMAIN s.mkSkipped.entries
    <3>1. x[1][2] <= s.dhr[2] /\ (x[1] = s.dhr => x[2] < d.nr) /\ x[2] \in Nat
      BY <2>1 DEF ChainInForce
    <3> QED BY <3>1, <1>2, <1>4
  <2>2. CASE \E k \in c.nr .. n - 1 : x = StorageKey(pk, k)
    <3>1. PICK k \in c.nr .. n - 1 : x = StorageKey(pk, k)
      BY <2>2
    <3>2. x[1] = pk /\ x[2] = k
      BY <3>1 DEF StorageKey
    <3> QED BY <3>2, <1>2, <1>4 DEF Index
  <2> QED BY <1>5, <2>1, <2>2
<1>8. ASSUME NEW x \in msgs \cup {m}
      PROVE  /\ Index(x) <= s.dhr[2]
             /\ x.hdr.pk = s.dhr =>
                  x.hdr.n < e.nr /\ ~HasKey(t.mkSkipped, StorageKey(x.hdr.pk, x.hdr.n))
  <2>1. Index(x) <= s.dhr[2]
    BY <1>2 DEF ChainInForce
  <2>2. ASSUME x.hdr.pk = s.dhr
        PROVE  x.hdr.n < e.nr /\ x.hdr.n \in Nat
    <3>1. CASE x = m
      BY <3>1, <2>2, <1>4
    <3>2. CASE x \in msgs
      <4>1. x.hdr.n < d.nr /\ x.hdr.n \in Nat
        BY <3>2, <2>2 DEF ChainInForce
      <4> QED BY <4>1, <1>2, <1>4
    <3> QED BY <3>1, <3>2
  <2>3. ASSUME x.hdr.pk = s.dhr, HasKey(t.mkSkipped, StorageKey(x.hdr.pk, x.hdr.n))
        PROVE  FALSE
    <3>1. ~HasKey(s.mkSkipped, StorageKey(x.hdr.pk, x.hdr.n))
      BY <2>3, <1>1 DEF ChainInForce
    <3>2. PICK k \in c.nr .. n - 1 : StorageKey(x.hdr.pk, x.hdr.n) = StorageKey(pk, k)
      BY <2>3, <3>1, <1>5 DEF HasKey
    <3>3. pk = s.dhr /\ x.hdr.n = k
      BY <2>3, <3>2 DEF StorageKey
    <3>4. c = d /\ x # m
      BY <3>2, <3>3, <1>4
    <3>5. x.hdr.n < d.nr
      BY <2>3, <3>4 DEF ChainInForce
    <3> QED BY <3>2, <3>3, <3>4, <3>5, <1>2
  <2> QED BY <2>1, <2>2, <2>3
<1>9. \E x \in msgs \cup {m} : x.hdr.pk = s.dhr /\ x.hdr.n = e.nr - 1
  <2>1. CASE pk = s.dhr
    <3>1. m.hdr.n = e.nr - 1
      BY <2>1, <1>4
    <3> QED BY <2>1, <3>1
  <2>2. CASE pk # s.dhr
    BY <2>2, <1>3 DEF ChainInForce
  <2> QED BY <2>1, <2>2
<1> QED
  BY <1>1, <1>2, <1>3, <1>6, <1>7, <1>8, <1>9 DEF ChainInForce, e

(* A DH ratchet step puts a chain in force that is newer than all there    *)
(* is.                                                                     *)
LEMMA ForceNew ==
  ASSUME NEW s, NEW t, NEW msgs, NEW m, m.hdr.n \in Nat, m.hdr.pn \in Nat, Index(m) \in Nat,
         RingOK(s.recvChains),
         \A c \in Held(s.recvChains) : c.nr \in Nat /\ c.pk[2] \in Nat,
         \A id \in DOMAIN s.mkSkipped.entries : id[1][2] \in Nat /\ id[2] \in Nat,
         \A x \in msgs : Index(x) \in Nat,
         \/ Held(s.recvChains) = {} /\ DOMAIN s.mkSkipped.entries = {} /\ msgs = {}
         \/ ChainInForce(s, msgs) /\ s.dhr[2] \in Nat /\ s.dhr[2] < Index(m),
         OnNewChain(s, t, m.hdr, m.box.key)
  PROVE  ChainInForce(t, msgs \cup {m})
<1> DEFINE pk == m.hdr.pk
           n == m.hdr.n
           i == Index(m)
           r == s.recvChains
           first == FirstChainKey(t.rk)
           pushed == Push(r, pk, first)
           kept == SkipPrevChain(s, m.hdr.pn)
           next == [pk |-> pk, ck |-> DeriveNextChainKey(m.box.key), nr |-> n + 1]
           e == GetChain(t.recvChains, pk)
<1>1. /\ ~HasKey(s.mkSkipped, StorageKey(pk, n)) /\ ~HasChain(r, pk)
      /\ t.mkSkipped = StoreKeys(kept, pk, first, 0, n)
      /\ t.recvChains = PutChain(pushed, pk, DeriveNextChainKey(m.box.key), n + 1)
      /\ t.dhr = pk /\ t.dhRSet = TRUE
  BY DEF OnNewChain
<1>2. pk[2] = i
  BY DEF Index
<1>3. RingOK(pushed) /\ HasChain(pushed, pk)
  BY <1>1, PushFacts, GetAfterPush
<1>4. /\ HasChain(t.recvChains, pk) /\ e = next
      /\ Held(t.recvChains) \subseteq Held(r) \cup {NewChain(pk, first), next}
  BY <1>1, <1>3, GetAfterPut, HeldAfterPut, HeldAfterPush
<1> HIDE DEF i, pushed, kept, first, e
<1>5. /\ \A h \in Held(r) : h.pk[2] < i
      /\ \A x \in DOMAIN s.mkSkipped.entries : x[1][2] < i
      /\ \A x \in msgs : Index(x) < i
      /\ HasPrevChain(s) => s.dhr[2] < i /\ s.dhr[2] \in Nat
  <2>1. CASE Held(r) = {} /\ DOMAIN s.mkSkipped.entries = {} /\ msgs = {}
    BY <2>1, HeldFacts DEF HasPrevChain
  <2>2. CASE ChainInForce(s, msgs) /\ s.dhr[2] \in Nat /\ s.dhr[2] < i
    BY <2>2 DEF ChainInForce, i
  <2> QED BY <2>1, <2>2 DEF i
<1>6. ASSUME NEW x \in DOMAIN kept.entries PROVE x[1][2] < i /\ x[1][2] \in Nat
  <2>1. CASE ~HasPrevChain(s)
    BY <2>1, <1>5 DEF kept, SkipPrevChain
  <2>2. CASE HasPrevChain(s)
    <3> DEFINE d == GetChain(r, s.dhr)
    <3>1. d \in Held(r)
      BY <2>2, HeldFacts DEF HasPrevChain
    <3>2. kept = StoreKeys(s.mkSkipped, s.dhr, d.ck, d.nr, m.hdr.pn) /\ d.nr \in Int /\ m.hdr.pn \in Int
      BY <2>2, <3>1 DEF kept, SkipPrevChain, PrevNr
    <3> HIDE DEF d, r
    <3>3. \/ x \in DOMAIN s.mkSkipped.entries
          \/ \E k \in d.nr .. m.hdr.pn - 1 : x = StorageKey(s.dhr, k)
      BY <3>2, StoreKeysContents
    <3> QED BY <2>2, <3>3, <1>5 DEF StorageKey
  <2> QED BY <2>1, <2>2
<1>7. \A x \in DOMAIN t.mkSkipped.entries :
        x \in DOMAIN kept.entries \/ \E k \in 0 .. n - 1 : x = StorageKey(pk, k)
  BY <1>1, StoreKeysContents
<1>8. ASSUME NEW h \in Held(t.recvChains) PROVE h.pk[2] <= i
  <2>1. CASE h \in Held(r)
    BY <2>1, <1>5 DEF i
  <2>2. CASE h \in {NewChain(pk, first), next}
    <3>1. h.pk = pk
      BY <2>2 DEF NewChain
    <3> QED BY <3>1, <1>2 DEF i
  <2> QED BY <1>4, <2>1, <2>2
<1>9. ASSUME NEW x \in DOMAIN t.mkSkipped.entries
      PROVE  x[1][2] <= i /\ (x[1] = pk => x[2] < n + 1)
  <2>1. CASE x \in DOMAIN kept.entries
    <3>1. x[1][2] < i /\ x[1][2] \in Nat
      BY <2>1, <1>6
    <3>2. x[1] # pk
      BY <3>1, <1>2 DEF i
    <3> QED BY <3>1, <3>2 DEF i
  <2>2. CASE \E k \in 0 .. n - 1 : x = StorageKey(pk, k)
    BY <2>2, <1>2 DEF StorageKey, i
  <2> QED BY <1>7, <2>1, <2>2
<1>10. ASSUME NEW x \in msgs \cup {m}
       PROVE  /\ Index(x) <= i
              /\ x.hdr.pk = pk =>
                   x.hdr.n < n + 1 /\ ~HasKey(t.mkSkipped, StorageKey(x.hdr.pk, x.hdr.n))
  <2>1. CASE x \in msgs
    <3>1. Index(x) < i
      BY <2>1, <1>5
    <3>2. x.hdr.pk # pk
      BY <3>1, <1>2 DEF Index, i
    <3> QED BY <2>1, <3>1, <3>2 DEF i
  <2>2. CASE x = m
    <3>1. ASSUME HasKey(t.mkSkipped, StorageKey(pk, n)) PROVE FALSE
      <4>1. StorageKey(pk, n)[1] = pk /\ StorageKey(pk, n)[2] = n
        BY DEF StorageKey
      <4>2. StorageKey(pk, n) \notin DOMAIN kept.entries
        BY <4>1, <1>2, <1>6 DEF i
      <4>3. \A k \in 0 .. n - 1 : StorageKey(pk, n) # StorageKey(pk, k)
        BY DEF StorageKey
      <4> QED BY <3>1, <4>2, <4>3, <1>7 DEF HasKey
    <3> QED BY <2>2, <3>1 DEF i
  <2> QED BY <2>1, <2>2
<1>11. e.nr = n + 1 /\ n = e.nr - 1
  BY <1>4
<1> QED
  BY <1>1, <1>2, <1>4, <1>8, <1>9, <1>10, <1>11 DEF ChainInForce, e

(* What the steps rely on.                                                 *)
ForceBase == IInv /\ TypeInv /\ KeyInv /\ TurnInv /\ OrderInv

(* Keys and numbers that a session holds have their types.                 *)
LEMMA HeldTypes ==
  ASSUME IInv, TypeInv, KeyInv, NEW p \in Party
  PROVE  /\ \A c \in Held(session[p].recvChains) : c.nr \in Nat /\ c.pk[2] \in Nat
         /\ \A id \in DOMAIN session[p].mkSkipped.entries : id[1][2] \in Nat /\ id[2] \in Nat
<1>1. ASSUME NEW q, NEW pk, NEW n, NEW key, GenuineKey(q, pk, n, key)
      PROVE  n \in Nat /\ pk[2] \in Nat
  BY <1>1, MessageIndex DEF GenuineKey, Index
<1> QED
  BY <1>1 DEF KeyInv, KeysGenuine, ChainsGenuine, EntriesGenuine

(* However a message is accepted, there is a chain in force afterwards.    *)
LEMMA AcceptForce ==
  ASSUME ForceBase, NEW p \in Party, InForce(p), NEW m \in network, m.from = Peer(p),
         NEW t, Receives(session[p], t, m)
  PROVE  ChainInForce(t, Taken(p) \cup {m})
<1> DEFINE s == session[p]
           q == Peer(p)
           g == Newest(p)
<1>1. IInv /\ TypeInv /\ KeyInv /\ TurnInv /\ OrderInv
  BY DEF ForceBase
<1>2. /\ RingOK(s.recvChains) /\ m.hdr.n \in Nat /\ m.hdr.pn \in Nat /\ Index(m) \in Nat
      /\ \A x \in Taken(p) : x.hdr.n \in Nat /\ Index(x) \in Nat
  BY <1>1, RingsOK, MessageFacts, MessageIndex DEF TypeInv, MessageOK, Taken
<1>3. /\ \A c \in Held(s.recvChains) : c.nr \in Nat /\ c.pk[2] \in Nat
      /\ \A id \in DOMAIN s.mkSkipped.entries : id[1][2] \in Nat /\ id[2] \in Nat
  BY <1>1, HeldTypes
<1>4. accepted[p] = {} =>
        Held(s.recvChains) = {} /\ DOMAIN s.mkSkipped.entries = {} /\ Taken(p) = {}
  BY DEF InForce, Fresh, Taken
<1>5. accepted[p] # {} => ChainInForce(s, Taken(p)) /\ s.dhRSet
  BY DEF InForce, ChainInForce
<1>6. PICK e : accepted[p] # {} =>
        /\ e \in Nat /\ s.dhr = KeyPair(q, e) /\ s.dhr[2] = e
        /\ ~s.dhRatchetPerformed => Lag(p) <= g /\ e = g - Lag(p)
        /\ s.dhRatchetPerformed => e = g + Lag(q)
  BY <1>1, <1>5, EpochOf
<1>7. CASE TookSkipped(s, t, m.hdr, m.box.key)
  <2>1. accepted[p] # {}
    BY <1>4, <1>7 DEF TookSkipped, HasKey
  <2> HIDE DEF s
  <2> QED BY <1>2, <1>5, <1>7, <2>1, ForceSkipped
<1>8. CASE OnHeldChain(s, t, m.hdr, m.box.key)
  <2>1. accepted[p] # {}
    BY <1>2, <1>4, <1>8, HeldFacts DEF OnHeldChain
  <2>2. s.dhr[2] \in Nat
    BY <1>6, <2>1
  <2> HIDE DEF s
  <2> QED BY <1>2, <1>3, <1>5, <1>8, <2>1, <2>2, ForceHeld
<1>9. CASE OnNewChain(s, t, m.hdr, m.box.key)
  <2>1. m.hdr.pk = KeyPair(q, g + Lag(q))
    BY <1>1, <1>9, NewChainIndex
  <2>2. Index(m) = g + Lag(q) /\ g \in Nat /\ Lag(p) \in {0, 1} /\ Lag(p) + Lag(q) = 1
        /\ Lag(q) \in {0, 1}
    BY <1>1, <2>1, SessionFacts, LagFacts DEF Index, KeyPair, Newest
  <2>3. ASSUME accepted[p] # {} PROVE s.dhr[2] \in Nat /\ s.dhr[2] < Index(m)
    <3>1. HasChain(s.recvChains, s.dhr) /\ ~HasChain(s.recvChains, m.hdr.pk)
      BY <1>5, <1>9, <2>3 DEF ChainInForce, OnNewChain
    <3>2. s.dhr # KeyPair(q, g + Lag(q))
      BY <3>1, <2>1
    <3>3. ~s.dhRatchetPerformed
      BY <3>2, <2>3, <1>6
    <3>4. e = g - Lag(p) /\ e \in Nat /\ s.dhr[2] = e
      BY <3>3, <2>3, <1>6
    <3> HIDE DEF g
    <3> QED BY <3>4, <2>2
  <2> HIDE DEF s
  <2> QED BY <1>2, <1>3, <1>4, <1>5, <1>9, <2>3, ForceNew
<1> QED
  BY <1>7, <1>8, <1>9 DEF Receives

(* So DecryptAccepts keeps the invariant,                                  *)
LEMMA DecryptAcceptsForceInv ==
  ASSUME ForceBase, ForceInv, NEW p \in Party, DecryptAccepts(p)
  PROVE  ForceInv'
<1> DEFINE q == Peer(p)
           s == session[p]
<1>t. PICK t : t = session'[p]
  OBVIOUS
<1>0. IInv /\ TypeInv /\ KeyInv /\ OrderInv
  BY DEF ForceBase
<1>1. PICK m \in network :
        /\ m.from = q /\ session'[q] = session[q]
        /\ UNCHANGED <<generated, sent, network>>
        /\ accepted' = [accepted EXCEPT ![p] = @ \cup {m.box.text}]
        /\ Receives(s, t, m)
  BY <1>t, <1>0, AcceptStep
<1>2. Party = {p, q} /\ q \in Party /\ q # p
  BY PeerFacts
<1>3. accepted'[p] = accepted[p] \cup {m.box.text} /\ accepted'[q] = accepted[q]
  BY <1>0, <1>1, <1>2 DEF TypeInv
<1>4. Taken(p)' = Taken(p) \cup {m}
  BY <1>0, <1>1, <1>3 DEF Taken, OrderInv, SentInOrder
<1>5. InForce(p)'
  <2>1. ChainInForce(t, Taken(p) \cup {m})
    BY <1>1, AcceptForce DEF ForceInv
  <2>2. ChainInForce(session[p], Taken(p))'
    BY <1>t, <1>4, <2>1 DEF ChainInForce, Index
  <2>3. \A x \in accepted[p] \cup {m.box.text} : \E y \in Taken(p) \cup {m} : y.box.text = x
    BY DEF ForceInv, InForce
  <2> QED BY <1>3, <1>4, <2>2, <2>3 DEF InForce
<1>6. InForce(q)'
  <2>1. accepted[q] = {} => session'[q].dhRatchetPerformed = FALSE /\ Newest(q)' = 0
    BY <1>1, <1>2 DEF ForceInv, InForce, Fresh, Newest
  <2> QED BY <1>1, <1>2, <1>3, <2>1, ForceKept DEF ForceInv
<1> QED
  BY <1>2, <1>5, <1>6 DEF ForceInv

(* and Encrypt does, whose message is new to the peer.                     *)
LEMMA EncryptForceInv ==
  ASSUME ForceBase, ForceInv, NEW p \in Party, Encrypt(p)
  PROVE  ForceInv'
<1> DEFINE q == Peer(p)
           s == session[p]
<1>t. PICK t : t = session'[p]
  OBVIOUS
<1>0. IInv /\ TypeInv /\ OrderInv
  BY DEF ForceBase
<1>1. /\ session'[q] = session[q] /\ UNCHANGED accepted
      /\ \/ SameChain(s, t) /\ generated' = generated
         \/ FreshChain(s, t, KeyPair(p, generated[p])) /\ generated' = [generated EXCEPT ![p] = @ + 1]
  BY <1>t, <1>0, EncryptStep
<1>2. PICK m : network' = network \cup {m} /\ Sends(s, t, p, m)
  BY <1>t, <1>0, EncryptStep
<1>3. Party = {p, q} /\ q \in Party /\ q # p /\ Peer(q) = p
  BY PeerFacts
<1>4. /\ m.from = p /\ m.box.text = sent[p]
      /\ t.recvChains = s.recvChains /\ t.mkSkipped = s.mkSkipped
      /\ t.dhr = s.dhr /\ t.dhRSet = s.dhRSet /\ t.dhRatchetPerformed = FALSE
  BY <1>2 DEF Sends
<1>5. InForce(p)'
  <2>1. accepted[p] = {} => t.dhRatchetPerformed = FALSE /\ Newest(p)' = 0
    BY <1>1, <1>4 DEF ForceInv, InForce, Fresh, FreshChain, Newest
  <2> QED BY <1>t, <1>1, <1>2, <1>3, <1>4, <2>1, ForceKept DEF ForceInv
<1>6. sent[p] \notin accepted[q]
  <2> SUFFICES ASSUME sent[p] \in accepted[q] PROVE FALSE
    OBVIOUS
  <2>1. PICK x \in network : x.from = p /\ x.box.text = sent[p]
    BY <1>3 DEF ForceInv, InForce, Taken
  <2>2. sent[p] \in 0 .. sent[p] - 1 /\ sent[p] \in Nat
    BY <1>0, <2>1, SessionFacts DEF OrderInv, SentInOrder, TypeInv
  <2> QED BY <2>2
<1>7. InForce(q)'
  <2>1. Newest(q)' = Newest(q)
    BY <1>0, <1>1, <1>3 DEF Newest, TypeInv
  <2>2. accepted[q] = {} => session'[q].dhRatchetPerformed = FALSE /\ Newest(q)' = 0
    BY <1>1, <1>3, <2>1 DEF ForceInv, InForce, Fresh
  <2> QED BY <1>1, <1>2, <1>3, <1>4, <1>6, <2>2, ForceKept DEF ForceInv
<1> QED
  BY <1>3, <1>5, <1>7 DEF ForceInv

(* Every step keeps ForceInv.                                              *)
LEMMA StepForceInv == ForceBase /\ ForceInv /\ [Next]_vars => ForceInv'
<1> SUFFICES ASSUME ForceBase, ForceInv, [Next]_vars PROVE ForceInv'
  OBVIOUS
<1>0. IInv /\ TypeInv
  BY DEF ForceBase
<1>1. CASE UNCHANGED vars
  <2>1. ASSUME NEW p \in Party PROVE InForce(p)'
    BY <1>1, ForceKept DEF vars, ForceInv, InForce, Fresh, Newest
  <2> QED BY <2>1 DEF ForceInv
<1>2. ASSUME NEW p \in Party, DecryptRejects(p)
      PROVE  ForceInv'
  BY <1>0, <1>1, <1>2, DecryptRejectsUnchanged
<1>3. ASSUME NEW p \in Party, EncryptFails(p)
      PROVE  ForceInv'
  <2>1. /\ session'[Peer(p)] = session[Peer(p)] /\ UNCHANGED <<network, generated, accepted>>
        /\ EpochSame(session[p], session'[p])
        /\ session'[p].recvChains = session[p].recvChains
        /\ session'[p].mkSkipped = session[p].mkSkipped
        /\ session[p].dhRatchetPerformed
        /\ Party = {p, Peer(p)} /\ Peer(p) \in Party
    BY <1>0, <1>3, EncryptFailsStep, PeerFacts
  <2>2. InForce(p)'
    BY <2>1, ForceKept DEF ForceInv, InForce, Fresh, EpochSame
  <2>3. InForce(Peer(p))'
    BY <2>1, ForceKept DEF ForceInv, InForce, Fresh, Newest
  <2> QED BY <2>1, <2>2, <2>3 DEF ForceInv
<1> QED
  BY <1>1, <1>2, <1>3, EncryptForceInv, DecryptAcceptsForceInv DEF Next

(* ForceInv holds in every reachable state.                                *)
THEOREM SpecForceInv == Spec => [](ForceBase /\ ForceInv)
<1>1. Spec => []ForceBase
  BY SpecIInv, SpecTypeInv, SpecKeyInv, SpecTurnInv, SpecOrderInv, PTL DEF ForceBase
<1> QED
  BY <1>1, InitForceInv, StepForceInv, PTL DEF Spec

-----------------------------------------------------------------------------
(* In none of the three ways a message of the chain in force is received a *)
(* second time.                                                            *)
LEMMA InForceOnce ==
  ASSUME ForceBase, ForceInv, NEW p \in Party, NEW m \in network, m.from = Peer(p),
         m.box.text \in accepted[p], m.hdr.pk = session[p].dhr,
         NEW t, Receives(session[p], t, m)
  PROVE  FALSE
<1> DEFINE s == session[p]
<1>1. ChainInForce(s, Taken(p)) /\ m \in Taken(p)
  BY DEF ForceInv, InForce, Taken
<1>2. /\ HasChain(s.recvChains, m.hdr.pk)
      /\ m.hdr.n < GetChain(s.recvChains, m.hdr.pk).nr
      /\ ~HasKey(s.mkSkipped, StorageKey(m.hdr.pk, m.hdr.n))
  BY <1>1 DEF ChainInForce
<1> QED
  BY <1>2 DEF Receives, TookSkipped, OnHeldChain, OnNewChain

(* So a message that is replayed with success was of another chain.        *)
LEMMA OnceStep ==
  ASSUME ForceBase, ForceInv, [Next]_vars, NEW p \in Party, NEW m \in network,
         m.from = Peer(p), m.box.text \in replayed'[p] \ replayed[p]
  PROVE  m.hdr.pk # session[p].dhr
<1>0. IInv /\ TypeInv /\ KeyInv /\ OrderInv
  BY DEF ForceBase
<1>1. PICK b \in Party : DecryptAccepts(b)
  <2>1. replayed' # replayed
    OBVIOUS
  <2>2. \A b \in Party : ~Encrypt(b) /\ ~EncryptFails(b) /\ ~DecryptRejects(b)
    BY <2>1 DEF Encrypt, EncryptFails, DecryptRejects
  <2> QED BY <2>1, <2>2 DEF Next, vars
<1>2. PICK x \in network :
        /\ x.from = Peer(b)
        /\ replayed' = [replayed EXCEPT ![b] = @ \cup ({x.box.text} \cap accepted[b])]
        /\ Receives(session[b], session'[b], x)
  BY <1>0, <1>1, AcceptStep
<1>3. b = p /\ m.box.text = x.box.text /\ m.box.text \in accepted[p]
  BY <1>0, <1>2 DEF TypeInv
<1>4. m = x
  BY <1>0, <1>2, <1>3 DEF OrderInv, SentInOrder
<1> QED
  BY <1>2, <1>3, <1>4, InForceOnce

(* Within the chain in force and its skipped keys Decrypt is at-most-once; *)
(* a message that is accepted twice comes from a superseded chain.         *)
THEOREM ChainInForceAtMostOnce == Spec => CurrentChainAtMostOnce
<1>1. ForceBase /\ ForceInv /\ [Next]_vars =>
        [\A p \in Party, m \in network :
           (m.from = Peer(p) /\ m.box.text \in replayed'[p] \ replayed[p])
             => m.hdr.pk # session[p].dhr]_vars
  BY OnceStep
<1> QED
  BY <1>1, SpecForceInv, PTL DEF Spec, CurrentChainAtMostOnce

-----------------------------------------------------------------------------
(* A message is accepted when the receiver finds its key.                  *)
LEMMA AcceptsWith ==
  ASSUME IInv, NEW p \in Party, NEW m \in network, m.from = Peer(p),
         RatchetReceiveKey(session[p], m.hdr).err = "ok",
         RatchetReceiveKey(session[p], m.hdr).key = m.box.key
  PROVE  Accepts(p, m)
<1>1. m.box.ad = BuildAD(Peer(p), p, m.hdr)
  BY MessageFacts, SessionFacts
<1> QED
  BY <1>1 DEF Accepts, DecryptArrival, Decrypt, Opens

(* It is when its key was skipped over and is still there,                 *)
LEMMA AcceptsSkipped ==
  ASSUME IInv, TypeInv, KeyInv, NEW p \in Party, NEW m \in network, m.from = Peer(p),
         HasKey(session[p].mkSkipped, StorageKey(m.hdr.pk, m.hdr.n))
  PROVE  Accepts(p, m)
<1>1. Lookup(session[p].mkSkipped, StorageKey(m.hdr.pk, m.hdr.n)) = m.box.key
  BY KeysMatch, PeerFacts
<1> QED
  BY <1>1, AcceptsWith DEF RatchetReceiveKey, TakeSkipped, Outcome

(* when its chain is held and has not passed it,                           *)
LEMMA AcceptsHeld ==
  ASSUME IInv, TypeInv, KeyInv, NEW p \in Party, NEW m \in network, m.from = Peer(p),
         HasChain(session[p].recvChains, m.hdr.pk),
         m.hdr.n >= GetChain(session[p].recvChains, m.hdr.pk).nr,
         ~TooManySkipped(GetChain(session[p].recvChains, m.hdr.pk).nr, m.hdr.n)
  PROVE  Accepts(p, m)
<1> DEFINE s == session[p]
           c == GetChain(s.recvChains, m.hdr.pk)
<1>1. CASE HasKey(s.mkSkipped, StorageKey(m.hdr.pk, m.hdr.n))
  BY <1>1, AcceptsSkipped
<1>2. CASE ~HasKey(s.mkSkipped, StorageKey(m.hdr.pk, m.hdr.n))
  <2>1. c.nr \in Nat /\ m.hdr.n \in Nat /\ ChainKeyAt(c.ck, m.hdr.n - c.nr) = m.box.key
    BY KeysMatch, PeerFacts, MessageFacts
  <2>2. RatchetReceiveKey(s, m.hdr) = ReceiveOnChain(s, m.hdr)
    BY <1>2 DEF RatchetReceiveKey, IsNewEpoch, Outcome
  <2>3. ~(m.hdr.n < c.nr)
    BY <2>1
  <2>4. ReceiveOnChain(s, m.hdr).err = "ok" /\ ReceiveOnChain(s, m.hdr).key = m.box.key
    BY <2>1, <2>3 DEF ReceiveOnChain, Outcome, DeriveMessageKey
  <2> QED BY <2>2, <2>4, AcceptsWith
<1> QED
  BY <1>1, <1>2

(* The key that a DH ratchet step leads to,                                *)
LEMMA NewEpochKey ==
  ASSUME NEW s, NEW hdr, SessionShape(s), RingOK(s.recvChains),
         ~HasKey(s.mkSkipped, StorageKey(hdr.pk, hdr.n)),
         IsNewEpoch(s, hdr), VerifyPublicKey(hdr.pk),
         HasPrevChain(s) => ~TooManySkipped(PrevNr(s), hdr.pn),
         hdr.n \in Nat, hdr.n <= MaxSkip
  PROVE  LET root == DeriveRoot(s.rk, SharedSecret(s.dhs, hdr.pk))
         IN  /\ RatchetReceiveKey(s, hdr).err = "ok"
             /\ RatchetReceiveKey(s, hdr).key = ChainKeyAt(FirstChainKey(root), hdr.n)
<1> DEFINE root == DeriveRoot(s.rk, SharedSecret(s.dhs, hdr.pk))
           first == FirstChainKey(root)
           out == PerformDHRatchetRecv(s, hdr)
           u == out.s
           c == GetChain(u.recvChains, hdr.pk)
<1>1. out.err = "ok"
  BY DEF PerformDHRatchetRecv, Outcome
<1>2. RatchetReceiveKey(s, hdr) = ReceiveOnChain(u, hdr)
  BY <1>1 DEF RatchetReceiveKey, Outcome
<1>3. u.recvChains = Push(s.recvChains, hdr.pk, first)
  BY <1>1, RatchetRecvFields
<1> HIDE DEF u, first
<1>4. HasChain(u.recvChains, hdr.pk) /\ c = NewChain(hdr.pk, first)
  BY <1>3, GetAfterPush DEF IsNewEpoch
<1>5. c.nr = 0 /\ c.ck = first
  BY <1>4 DEF NewChain
<1>6. ~(hdr.n < 0) /\ ~TooManySkipped(0, hdr.n) /\ hdr.n - 0 = hdr.n
  BY MaxSkipAssumption DEF TooManySkipped
<1>7. /\ ReceiveOnChain(u, hdr).err = "ok"
      /\ ReceiveOnChain(u, hdr).key = ChainKeyAt(first, hdr.n)
  BY <1>4, <1>5, <1>6 DEF ReceiveOnChain, Outcome, DeriveMessageKey
<1> QED
  BY <1>2, <1>7 DEF first

(* and when it was sealed on the chain that the step begins.               *)
LEMMA AcceptsNew ==
  ASSUME IInv, TypeInv, KeyInv, NEW p \in Party, NEW m \in network, m.from = Peer(p),
         IsNewEpoch(session[p], m.hdr),
         HasPrevChain(session[p]) => ~TooManySkipped(PrevNr(session[p]), m.hdr.pn),
         m.hdr.n <= MaxSkip,
         m.box.key.root = DeriveRoot(session[p].rk, SharedSecret(session[p].dhs, m.hdr.pk))
  PROVE  Accepts(p, m)
<1> DEFINE s == session[p]
<1>1. CASE HasKey(s.mkSkipped, StorageKey(m.hdr.pk, m.hdr.n))
  BY <1>1, AcceptsSkipped
<1>2. CASE ~HasKey(s.mkSkipped, StorageKey(m.hdr.pk, m.hdr.n))
  <2>1. VerifyPublicKey(m.hdr.pk)
    BY MessageIndex, KeyAssumption DEF VerifyPublicKey, KeyPair, Party
  <2>2. SessionShape(s) /\ RingOK(s.recvChains) /\ m.hdr.n \in Nat
    BY SessionFacts, RingsOK, MessageFacts
  <2>3. ChainKeyAt(FirstChainKey(m.box.key.root), m.hdr.n) = m.box.key
    <3>1. PICK r : r = m.box.key.root /\ m.box.key = [root |-> r, step |-> m.hdr.n]
      BY MessageKey
    <3>2. 0 + m.hdr.n = m.hdr.n
      BY <2>2
    <3> QED BY <3>1, <3>2 DEF ChainKeyAt, FirstChainKey
  <2> HIDE DEF s
  <2>4. RatchetReceiveKey(s, m.hdr).err = "ok" /\ RatchetReceiveKey(s, m.hdr).key = m.box.key
    BY <1>2, <2>1, <2>2, <2>3, NewEpochKey DEF s
  <2> QED BY <2>4, AcceptsWith DEF s
<1> QED
  BY <1>1, <1>2

(* A receiver that is not waiting to send derives the root of the first    *)
(* key it has not seen.                                                    *)
LEMMA NextEpochRoot ==
  ASSUME IInv, TypeInv, KeyInv, TurnInv, NEW p \in Party, NEW m \in network, m.from = Peer(p),
         ~session[p].dhRatchetPerformed, Index(m) = Newest(p) + Lag(Peer(p))
  PROVE  m.box.key.root = DeriveRoot(session[p].rk, SharedSecret(session[p].dhs, m.hdr.pk))
<1> DEFINE s == session[p]
           q == Peer(p)
           g == Newest(p)
           i == Index(m)
<1>1. /\ q \in Party /\ Peer(q) = p /\ s.dhs = KeyPair(p, g) /\ g \in Nat
      /\ m.hdr.pk = KeyPair(q, i) /\ i \in Nat
      /\ Lag(p) \in {0, 1} /\ Lag(q) \in {0, 1} /\ Lag(p) + Lag(q) = 1 /\ Turn(p)
  BY SessionFacts, MessageIndex, LagFacts, PeerFacts DEF Newest, TurnInv
<1>2. RootOf(q, i, m.box.key.root)
  BY DEF TurnInv, RootsAlternate
<1>3. i - Lag(q) = g
  BY <1>1
<1> HIDE DEF g, i
<1>4. PICK r : /\ m.box.key.root = DeriveRoot(r, SharedSecret(KeyPair(q, i), KeyPair(p, g)))
               /\ Follows(q, i, r)
  BY <1>1, <1>2, <1>3 DEF RootOf
<1>5. r = s.rk
  <2>1. CASE i = 0
    <3>1. g < Lag(p)
      BY <2>1, <1>1, <1>3
    <3>2. s.rk = InitialRootKey
      BY <1>1, <3>1 DEF Turn, g
    <3> QED BY <2>1, <3>2, <1>4 DEF Follows
  <2>2. CASE i # 0
    <3>1. PICK x \in network : x.hdr.pk = KeyPair(p, g) /\ r = x.box.key.root
      BY <2>2, <1>1, <1>3, <1>4 DEF Follows
    <3>2. x.from = p
      BY <3>1, MessageIndex DEF KeyPair
    <3>3. s.cks.root = r
      BY <1>1, <3>1, <3>2 DEF KeyInv, OneRootPerKey
    <3>4. ~(g < Lag(p))
      BY <2>2, <1>1, <1>3
    <3>5. s.rk = s.cks.root
      BY <1>1, <3>4 DEF Turn, g
    <3> QED BY <3>3, <3>5
  <2> QED BY <2>1, <2>2
<1>6. SharedSecret(KeyPair(q, i), KeyPair(p, g)) = SharedSecret(s.dhs, m.hdr.pk)
  BY <1>1 DEF SharedSecret
<1> QED
  BY <1>4, <1>5, <1>6

(* The newest of a set of texts.                                           *)
LEMMA MaxIs ==
  ASSUME NEW S, S \subseteq Nat, NEW n \in S, \A x \in S : x <= n
  PROVE  Max({-1} \cup S) = n
<1> DEFINE T == {-1} \cup S
<1>1. n \in T /\ T \subseteq Int /\ \A x \in T : n >= x
  OBVIOUS
<1>2. \A m \in T : (\A x \in T : m >= x) => m = n
  BY <1>1
<1> HIDE DEF T
<1>3. Max(T) = n
  BY <1>1, <1>2 DEF Max
<1> QED
  BY <1>3 DEF T

(* A party that has accepted nothing would accept the first message,       *)
LEMMA FirstAccepted ==
  ASSUME ForceBase, ForceInv, NEW p \in Party, accepted[p] = {},
         NEW m \in network, m.from = Peer(p), m.box.text = 0
  PROVE  Accepts(p, m)
<1> DEFINE s == session[p]
           q == Peer(p)
<1>1. /\ IInv /\ TypeInv /\ KeyInv /\ TurnInv /\ Turn(p)
      /\ m.hdr.n = 0 /\ Index(m) = Lag(q)
      /\ Held(s.recvChains) = {} /\ ~s.dhRatchetPerformed /\ Newest(p) = 0
      /\ Lag(p) \in {0, 1} /\ Lag(q) \in {0, 1} /\ Lag(p) + Lag(q) = 1
  BY LagFacts DEF ForceBase, OrderInv, SentInOrder, ForceInv, InForce, Fresh, TurnInv
<1>2. \A pk : ~HasChain(s.recvChains, pk)
  BY <1>1, RingsOK, HeldFacts
<1>3. ~IsCurrentChain(s, m.hdr)
  <2> SUFFICES ASSUME s.dhRSet, s.dhr = m.hdr.pk PROVE FALSE
    BY DEF IsCurrentChain
  <2>1. ~(0 < Lag(p)) /\ s.dhr = KeyPair(q, 0 - Lag(p))
    BY <1>1 DEF Turn
  <2>2. m.hdr.pk = KeyPair(q, Lag(q))
    BY <1>1, MessageIndex
  <2>3. 0 - Lag(p) = Lag(q)
    <3>1. \A a, b : KeyPair(q, a) = KeyPair(q, b) => a = b
      BY DEF KeyPair
    <3> QED BY <2>1, <2>2, <3>1
  <2> QED BY <1>1, <2>1, <2>3
<1>4. Index(m) = Newest(p) + Lag(q)
  BY <1>1
<1>5. m.hdr.n <= MaxSkip
  BY <1>1, MaxSkipAssumption
<1>6. ~HasPrevChain(s)
  BY <1>2 DEF HasPrevChain
<1>7. IsNewEpoch(s, m.hdr)
  BY <1>2, <1>3 DEF IsNewEpoch
<1> QED
  BY <1>1, <1>4, <1>5, <1>6, <1>7, NextEpochRoot, AcceptsNew

(* and any other the one sent right after the last it accepted under the   *)
(* ratchet key in force: the next of that chain, or the first of the next  *)
(* one, whose PN leaves nothing to skip. In the second case the receiver   *)
(* cannot be waiting to send, since the sender has answered a key that the *)
(* receiver has only then to draw.                                         *)
LEMMA SuccessorAccepted ==
  ASSUME ForceBase, ForceInv, NEW p \in Party,
         NEW w \in Taken(p), w.hdr.pk = session[p].dhr,
         w.hdr.n = GetChain(session[p].recvChains, session[p].dhr).nr - 1,
         NEW m \in network, m.from = Peer(p), m.box.text = w.box.text + 1
  PROVE  Accepts(p, m)
<1> DEFINE s == session[p]
           q == Peer(p)
           g == Newest(p)
           c == GetChain(s.recvChains, s.dhr)
           e == Index(w)
<1>1. /\ IInv /\ TypeInv /\ KeyInv /\ TurnInv /\ OrderInv
      /\ ChainInForce(s, Taken(p)) /\ w \in network /\ w.from = q
  BY DEF ForceBase, ForceInv, InForce, Taken
<1>2. /\ s.dhRSet /\ HasChain(s.recvChains, s.dhr) /\ s.dhr[2] = e
      /\ c \in Held(s.recvChains) /\ c.nr \in Nat
  BY <1>1, RingsOK, HeldFacts, HeldTypes DEF ChainInForce, Index
<1>3. w.hdr.n \in Nat /\ w.hdr.n + 1 = c.nr
  BY <1>1, <1>2, MessageFacts
<1>4. \/ m.hdr.pk = w.hdr.pk /\ m.hdr.n = c.nr
      \/ Index(m) = e + 1 /\ m.hdr.n = 0 /\ m.hdr.pn = c.nr
  BY <1>1, <1>3 DEF OrderInv, SentInOrder
<1>5. CASE m.hdr.pk = w.hdr.pk /\ m.hdr.n = c.nr
  <2>1. m.hdr.n >= c.nr /\ ~TooManySkipped(c.nr, m.hdr.n)
    BY <1>2, <1>5 DEF TooManySkipped
  <2> QED BY <1>1, <1>2, <1>5, <2>1, AcceptsHeld
<1>6. CASE Index(m) = e + 1 /\ m.hdr.n = 0 /\ m.hdr.pn = c.nr
  <2>1. e \in Nat /\ e + 1 > e
    BY <1>1, MessageIndex
  <2>2. ~HasChain(s.recvChains, m.hdr.pk) /\ s.dhr # m.hdr.pk
    <3>1. m.hdr.pk[2] = e + 1
      BY <1>6 DEF Index
    <3>2. \A h \in Held(s.recvChains) : h.pk # m.hdr.pk
      BY <1>1, <1>2, <2>1, <3>1 DEF ChainInForce
    <3> QED BY <1>1, <1>2, <2>1, <3>1, <3>2, RingsOK, HeldFacts
  <2>3. IsNewEpoch(s, m.hdr)
    BY <2>2 DEF IsNewEpoch, IsCurrentChain
  <2>4. ~TooManySkipped(PrevNr(s), m.hdr.pn)
    BY <1>2, <1>6 DEF TooManySkipped, PrevNr, HasPrevChain
  <2>5. m.hdr.n <= MaxSkip
    BY <1>6, MaxSkipAssumption
  <2>6. /\ g \in Nat /\ Lag(p) \in {0, 1} /\ Lag(q) \in {0, 1} /\ Lag(p) + Lag(q) = 1
        /\ ~s.dhRatchetPerformed => e = g - Lag(p)
        /\ s.dhRatchetPerformed => e = g + Lag(q)
    BY <1>1, <1>2, SessionFacts, LagFacts, EpochOf DEF Newest
  <2>7. ~s.dhRatchetPerformed
    <3> SUFFICES ASSUME s.dhRatchetPerformed PROVE FALSE
      OBVIOUS
    <3>1. Follows(q, e + 1, m.box.key.root[1])
      BY <1>1, <1>6 DEF TurnInv, RootsAlternate, RootOf
    <3>2. e + 1 # 0 /\ (e + 1) - Lag(q) = g + 1
      BY <2>1, <2>6
    <3>3. PICK x \in network : x.hdr.pk = KeyPair(p, g + 1)
      BY <3>1, <3>2, PeerFacts DEF Follows
    <3>4. x.from = p /\ Index(x) = g + 1
      BY <1>1, <3>3, MessageIndex DEF KeyPair, Index
    <3>5. Index(x) \in 0 .. g
      BY <1>1, <3>4, MessageIndex
    <3> QED BY <2>6, <3>4, <3>5
  <2>8. Index(m) = g + Lag(q)
    BY <1>6, <2>6, <2>7
  <2> QED
    BY <1>1, <2>3, <2>4, <2>5, <2>7, <2>8, NextEpochRoot, AcceptsNew
<1> QED
  BY <1>4, <1>5, <1>6

(* That last one is the newest of all it has accepted.                     *)
LEMMA NewestAccepted ==
  ASSUME ForceBase, ForceInv, NEW p \in Party, NEW w \in Taken(p),
         w.hdr.pk = session[p].dhr,
         w.hdr.n = GetChain(session[p].recvChains, session[p].dhr).nr - 1
  PROVE  Max({-1} \cup accepted[p]) = w.box.text
<1> DEFINE s == session[p]
           c == GetChain(s.recvChains, s.dhr)
<1>1. /\ IInv /\ TypeInv /\ KeyInv /\ OrderInv /\ ChainInForce(s, Taken(p))
      /\ w \in network /\ w.from = Peer(p) /\ w.box.text \in accepted[p]
      /\ accepted[p] \subseteq Nat
  <2>1. accepted[p] \in SUBSET (0 .. MaxSends)
    BY DEF ForceBase, TypeInv
  <2>2. accepted[p] # {}
    BY DEF Taken
  <2>3. accepted[p] \subseteq Nat
    BY <2>1, BoundAssumption
  <2> QED BY <2>2, <2>3 DEF ForceBase, ForceInv, InForce, Taken
<1>2. c \in Held(s.recvChains) /\ c.nr \in Nat
  BY <1>1, RingsOK, HeldFacts, HeldTypes DEF ChainInForce
<1>3. ASSUME NEW y \in accepted[p] PROVE y <= w.box.text
  <2> SUFFICES ASSUME w.box.text < y PROVE FALSE
    BY <1>1
  <2>1. PICK x \in Taken(p) : x.box.text = y
    BY DEF ForceInv, InForce
  <2>2. x \in network /\ x.from = w.from
    BY <1>1 DEF Taken
  <2>3. Index(w) < Index(x) \/ (w.hdr.pk = x.hdr.pk /\ w.hdr.n < x.hdr.n)
    BY <1>1, <2>1, <2>2 DEF OrderInv, SentInOrder
  <2>4. Index(x) <= Index(w) /\ (x.hdr.pk = w.hdr.pk => x.hdr.n < c.nr)
    BY <1>1 DEF ChainInForce, Index
  <2>5. Index(x) \in Nat /\ Index(w) \in Nat /\ x.hdr.n \in Nat /\ w.hdr.n \in Nat
    BY <1>1, <2>2, MessageIndex, MessageFacts
  <2> QED BY <1>2, <2>3, <2>4, <2>5
<1> QED
  BY <1>1, <1>3, MaxIs

(* ForceInv is strong enough.                                              *)
LEMMA ForceInvSuffices == ForceBase /\ ForceInv => NextInOrderDecryptable
<1> SUFFICES ASSUME ForceBase, ForceInv, NEW p \in Party, NEW m \in network, m.from = Peer(p),
                    m.box.text = Max({-1} \cup accepted[p]) + 1
             PROVE  Accepts(p, m)
  BY DEF NextInOrderDecryptable
<1>1. CASE accepted[p] = {}
  <2>1. Max({-1} \cup accepted[p]) = -1
    BY <1>1 DEF Max
  <2>2. m.box.text = 0
    BY <2>1
  <2> QED BY <1>1, <2>2, FirstAccepted
<1>2. CASE accepted[p] # {}
  <2>1. PICK w \in Taken(p) :
          /\ w.hdr.pk = session[p].dhr
          /\ w.hdr.n = GetChain(session[p].recvChains, session[p].dhr).nr - 1
    BY <1>2 DEF ForceInv, InForce, ChainInForce
  <2> QED BY <2>1, NewestAccepted, SuccessorAccepted
<1> QED
  BY <1>1, <1>2

(* Whatever was lost, replayed, reordered or damaged, the message sent     *)
(* right after the newest accepted one would be accepted: no history       *)
(* closes a direction for a transport that goes on in order.               *)
THEOREM NextInOrderAccepted == Spec => []NextInOrderDecryptable
BY SpecForceInv, ForceInvSuffices, PTL

-----------------------------------------------------------------------------
(* The messages sent under pk are exactly those numbered below c.          *)
Numbered(pk, c) ==
  /\ \A k \in 0 .. c - 1 : \E x \in network : x.hdr.pk = pk /\ x.hdr.n = k
  /\ \A x \in network : x.hdr.pk = pk => x.hdr.n < c

(* No chain has a gap: ns counts the numbers in use, pn does while no DH   *)
(* ratchet step is pending, and so does every PN that was sent.            *)
GaplessInv ==
  /\ \A p \in Party :
       LET s == session[p]
       IN  /\ Numbered(KeyPair(p, Newest(p)), s.ns)
           /\ ~s.dhRatchetPerformed /\ Newest(p) > 0 => Numbered(KeyPair(p, Newest(p) - 1), s.pn)
  /\ \A m \in network :
       /\ \A k \in 0 .. m.hdr.n - 1 : \E x \in network : x.hdr.pk = m.hdr.pk /\ x.hdr.n = k
       /\ Index(m) > 0 => Numbered(KeyPair(m.from, Index(m) - 1), m.hdr.pn)

(* Nothing has been sent at first.                                         *)
LEMMA InitGaplessInv == Init => GaplessInv
<1> SUFFICES ASSUME Init PROVE GaplessInv
  OBVIOUS
<1>1. network = {} /\ \A p \in Party : session[p].ns = 0 /\ Newest(p) = 0
  BY DEF Init, InitInitiator, InitResponder, Newest
<1> QED
  BY <1>1 DEF GaplessInv, Numbered

(* A chain whose key is not the one sent under keeps its numbers.          *)
LEMMA NumberedKept ==
  ASSUME NEW pk, NEW c, Numbered(pk, c), network \subseteq network',
         \A x \in network' \ network : x.hdr.pk # pk
  PROVE  Numbered(pk, c)'
BY DEF Numbered

(* Encrypt sends the next number of the chain it is in.                    *)
LEMMA EncryptGaplessInv ==
  ASSUME IInv, TypeInv, GaplessInv, NEW p \in Party, Encrypt(p)
  PROVE  GaplessInv'
<1> DEFINE q == Peer(p)
           s == session[p]
           g == Newest(p)
<1>t. PICK t : t = session'[p]
  OBVIOUS
<1>1. /\ session'[q] = session[q] /\ q \in Party /\ Party = {p, q} /\ q # p
      /\ \/ SameChain(s, t) /\ generated' = generated
         \/ FreshChain(s, t, KeyPair(p, generated[p])) /\ generated' = [generated EXCEPT ![p] = @ + 1]
      /\ \A x \in network : x.hdr.pk = t.dhs => x.hdr.n < t.ns - 1
  BY <1>t, EncryptStep, PeerFacts
<1>2. PICK m : network' = network \cup {m} /\ Sends(s, t, p, m)
  BY <1>t, EncryptStep
<1>3. m.from = p /\ m.hdr.pk = t.dhs /\ m.hdr.n = t.ns - 1 /\ m.hdr.pn = t.pn
      /\ t.dhRatchetPerformed = FALSE
  BY <1>2 DEF Sends
<1>4. /\ generated \in [Party -> Nat \ {0}] /\ g \in Nat /\ Newest(q) \in Nat
      /\ s.ns \in Nat /\ s.dhs = KeyPair(p, g)
  <2>1. s.ns \in Nat /\ s.dhs = KeyPair(p, g) /\ g \in Nat /\ Newest(q) \in Nat
    BY <1>1, SessionFacts DEF Newest
  <2> QED BY <2>1 DEF IInv, SendHalfInv
<1>5. PICK h \in {g, g + 1} : h = Newest(p)' /\ t.dhs = KeyPair(p, h)
  BY <1>1, <1>4 DEF SameChain, FreshChain, Newest
<1>6. Newest(q)' = Newest(q)
  BY <1>1, <1>4 DEF Newest
<1>7. Numbered(s.dhs, s.ns) /\ \A x \in network : x.from = p => Index(x) <= g
  <2>1. ASSUME NEW x \in network, x.from = p PROVE Index(x) <= g
    BY <2>1, MessageIndex
  <2> QED BY <1>4, <2>1 DEF GaplessInv
<1> HIDE DEF s, g
<1>8. /\ \A k \in 0 .. m.hdr.n - 1 : \E x \in network : x.hdr.pk = t.dhs /\ x.hdr.n = k
      /\ t.ns \in Nat /\ t.ns > 0
      /\ h > 0 => Numbered(KeyPair(p, h - 1), t.pn) /\ h - 1 # h
  <2>1. CASE SameChain(s, t) /\ generated' = generated
    <3>1. h = g /\ t.ns = s.ns + 1 /\ t.pn = s.pn /\ ~s.dhRatchetPerformed /\ t.dhs = s.dhs
      BY <2>1, <1>4, <1>5 DEF SameChain, g, Newest
    <3>2. g > 0 => Numbered(KeyPair(p, g - 1), s.pn)
      BY <3>1 DEF GaplessInv, s, g
    <3>3. m.hdr.n = s.ns
      BY <1>3, <1>4, <3>1
    <3> QED BY <1>4, <1>7, <3>1, <3>2, <3>3 DEF Numbered
  <2>2. CASE FreshChain(s, t, KeyPair(p, generated[p])) /\ generated' = [generated EXCEPT ![p] = @ + 1]
    <3>1. h = g + 1 /\ t.ns = 1 /\ t.pn = s.ns
      BY <2>2, <1>4, <1>5 DEF FreshChain, g, Newest
    <3>2. m.hdr.n = 0 /\ KeyPair(p, h - 1) = s.dhs
      BY <1>3, <1>4, <3>1
    <3> QED BY <1>4, <1>7, <3>1, <3>2
  <2> QED BY <1>1, <2>1, <2>2 DEF s
<1>9. Numbered(KeyPair(p, h), t.ns)'
  <2>1. m.hdr.n = t.ns - 1 /\ m.hdr.pk = KeyPair(p, h)
    BY <1>3, <1>5
  <2>2. \A k \in 0 .. t.ns - 1 : \E x \in network' : x.hdr.pk = KeyPair(p, h) /\ x.hdr.n = k
    <3> SUFFICES ASSUME NEW k \in 0 .. t.ns - 1
                 PROVE  \E x \in network' : x.hdr.pk = KeyPair(p, h) /\ x.hdr.n = k
      OBVIOUS
    <3>1. CASE k = t.ns - 1
      BY <1>2, <2>1, <3>1
    <3>2. CASE k # t.ns - 1
      <4>1. k \in 0 .. m.hdr.n - 1
        BY <1>8, <2>1, <3>2
      <4> QED BY <1>2, <1>5, <1>8, <4>1
    <3> QED BY <3>1, <3>2
  <2>3. \A x \in network' : x.hdr.pk = KeyPair(p, h) => x.hdr.n < t.ns
    <3> SUFFICES ASSUME NEW x \in network', x.hdr.pk = KeyPair(p, h) PROVE x.hdr.n < t.ns
      OBVIOUS
    <3>1. CASE x = m
      BY <1>8, <2>1, <3>1
    <3>2. CASE x # m
      <4>1. x \in network /\ x.hdr.n < t.ns - 1 /\ x.hdr.n \in Nat
        BY <1>1, <1>2, <1>5, <3>2, MessageFacts
      <4> QED BY <1>8, <4>1
    <3> QED BY <3>1, <3>2
  <2> QED BY <2>2, <2>3 DEF Numbered
<1>10. ASSUME NEW pk, NEW c, Numbered(pk, c), pk # t.dhs PROVE Numbered(pk, c)'
  BY <1>2, <1>3, <1>10, NumberedKept
<1>11. h > 0 => Numbered(KeyPair(p, h - 1), t.pn)'
  <2>1. h > 0 => KeyPair(p, h - 1) # t.dhs
    BY <1>5, <1>8 DEF KeyPair
  <2> QED BY <1>8, <1>10, <2>1
<1>12. /\ Numbered(KeyPair(q, Newest(q)), session[q].ns)'
       /\ ~session[q].dhRatchetPerformed /\ Newest(q) > 0 =>
            Numbered(KeyPair(q, Newest(q) - 1), session[q].pn)'
  <2>1. \A i : KeyPair(q, i) # t.dhs
    BY <1>1, <1>5 DEF KeyPair
  <2>2. PICK i, ns, pn, f : i = Newest(q) /\ ns = session[q].ns /\ pn = session[q].pn
                            /\ f = session[q].dhRatchetPerformed
    OBVIOUS
  <2>3. Numbered(KeyPair(q, i), ns) /\ (~f /\ i > 0 => Numbered(KeyPair(q, i - 1), pn))
    BY <1>1, <2>2 DEF GaplessInv
  <2>4. Numbered(KeyPair(q, i), ns)' /\ (~f /\ i > 0 => Numbered(KeyPair(q, i - 1), pn)')
    BY <1>10, <2>1, <2>3
  <2>5. /\ Numbered(KeyPair(q, Newest(q)), session[q].ns)' = Numbered(KeyPair(q, i), ns)'
        /\ Numbered(KeyPair(q, Newest(q) - 1), session[q].pn)' = Numbered(KeyPair(q, i - 1), pn)'
    BY <1>1, <1>6, <2>2 DEF Numbered
  <2> QED BY <2>2, <2>4, <2>5
<1>13. ASSUME NEW x \in network'
       PROVE  /\ \A k \in 0 .. x.hdr.n - 1 : \E y \in network' : y.hdr.pk = x.hdr.pk /\ y.hdr.n = k
              /\ Index(x) > 0 => Numbered(KeyPair(x.from, Index(x) - 1), x.hdr.pn)'
  <2>1. CASE x = m
    <3>1. Index(x) = h /\ x.from = p /\ x.hdr.pk = t.dhs /\ x.hdr.pn = t.pn
      BY <1>3, <1>5, <2>1 DEF Index, KeyPair
    <3> QED BY <1>2, <1>8, <1>11, <2>1, <3>1
  <2>2. CASE x \in network
    <3>1. Index(x) \in Nat /\ x.from \in Party /\ (x.from = p => Index(x) <= g)
      BY <1>7, <2>2, MessageIndex
    <3>2. Index(x) > 0 => KeyPair(x.from, Index(x) - 1) # t.dhs
      BY <1>4, <1>5, <3>1 DEF KeyPair
    <3>3. Index(x) > 0 => Numbered(KeyPair(x.from, Index(x) - 1), x.hdr.pn)
      BY <2>2 DEF GaplessInv
    <3>4. \A k \in 0 .. x.hdr.n - 1 : \E y \in network : y.hdr.pk = x.hdr.pk /\ y.hdr.n = k
      BY <2>2 DEF GaplessInv
    <3> QED BY <1>2, <1>10, <3>2, <3>3, <3>4
  <2> QED BY <1>2, <2>1, <2>2
<1>14. ASSUME NEW x \in Party
       PROVE  /\ Numbered(KeyPair(x, Newest(x)), session[x].ns)'
              /\ ~session'[x].dhRatchetPerformed /\ Newest(x)' > 0 =>
                   Numbered(KeyPair(x, Newest(x) - 1), session[x].pn)'
  <2>1. CASE x = p
    <3>1. /\ Numbered(KeyPair(p, Newest(p)), session[p].ns)' = Numbered(KeyPair(p, h), t.ns)'
          /\ Numbered(KeyPair(p, Newest(p) - 1), session[p].pn)' = Numbered(KeyPair(p, h - 1), t.pn)'
      BY <1>t, <1>5 DEF Numbered
    <3> QED BY <1>5, <1>9, <1>11, <2>1, <3>1
  <2>2. CASE x = q
    BY <1>1, <1>6, <1>12, <2>2
  <2> QED BY <1>1, <2>1, <2>2
<1> QED
  BY <1>13, <1>14 DEF GaplessInv, Index

(* Receiving sends nothing, and a step that leaves a DH ratchet step       *)
(* pending may overwrite pn.                                               *)
LEMMA GaplessKept ==
  ASSUME GaplessInv, UNCHANGED <<network, generated>>,
         \A x \in Party : /\ session'[x].ns = session[x].ns
                         /\ \/ session'[x].dhRatchetPerformed
                            \/ session'[x].pn = session[x].pn /\ ~session[x].dhRatchetPerformed
  PROVE  GaplessInv'
<1>1. \A x \in Party : Newest(x)' = Newest(x)
  BY DEF Newest
<1>2. \A pk, c : Numbered(pk, c)' = Numbered(pk, c)
  BY DEF Numbered
<1>3. ASSUME NEW x \in Party
      PROVE  /\ Numbered(KeyPair(x, Newest(x)), session[x].ns)'
             /\ ~session'[x].dhRatchetPerformed /\ Newest(x)' > 0 =>
                   Numbered(KeyPair(x, Newest(x) - 1), session[x].pn)'
  <2>1. /\ Numbered(KeyPair(x, Newest(x)), session[x].ns)
        /\ ~session[x].dhRatchetPerformed /\ Newest(x) > 0 =>
             Numbered(KeyPair(x, Newest(x) - 1), session[x].pn)
    BY DEF GaplessInv
  <2>2. Numbered(KeyPair(x, Newest(x)), session[x].ns)'
    BY <1>1, <2>1 DEF Numbered
  <2>3. CASE session'[x].dhRatchetPerformed
    BY <2>2, <2>3
  <2>4. CASE session'[x].pn = session[x].pn /\ ~session[x].dhRatchetPerformed
    BY <1>1, <2>1, <2>2, <2>4 DEF Numbered
  <2> QED BY <2>3, <2>4
<1> QED
  BY <1>2, <1>3 DEF GaplessInv, Index

(* Every step keeps GaplessInv.                                            *)
LEMMA StepGaplessInv == IInv /\ TypeInv /\ KeyInv /\ GaplessInv /\ [Next]_vars => GaplessInv'
<1> SUFFICES ASSUME IInv, TypeInv, KeyInv, GaplessInv, [Next]_vars PROVE GaplessInv'
  OBVIOUS
<1>1. ASSUME UNCHANGED vars PROVE GaplessInv'
  <2>1. \A x \in Party : Newest(x)' = Newest(x)
    BY <1>1 DEF Newest, vars
  <2> QED BY <1>1, <2>1 DEF vars, GaplessInv, Numbered, Index
<1>2. ASSUME NEW p \in Party, DecryptRejects(p)
      PROVE  GaplessInv'
  BY <1>1, <1>2, DecryptRejectsUnchanged
<1>3. ASSUME NEW p \in Party, EncryptFails(p)
      PROVE  GaplessInv'
  <2>1. /\ session'[Peer(p)] = session[Peer(p)] /\ UNCHANGED <<network, generated>>
        /\ session'[p].ns = session[p].ns /\ session'[p].dhRatchetPerformed
        /\ session[Peer(p)].dhRatchetPerformed \in BOOLEAN /\ Party = {p, Peer(p)}
    BY <1>3, EncryptFailsStep, PeerFacts DEF EpochSame, TypeInv, ReceiveHalfOK
  <2> QED BY <2>1, GaplessKept
<1>4. ASSUME NEW p \in Party, DecryptAccepts(p)
      PROVE  GaplessInv'
  <2>1. PICK m \in network :
          /\ session'[Peer(p)] = session[Peer(p)] /\ UNCHANGED <<network, generated>>
          /\ SendHalfSame(session[p], session'[p]) /\ Receives(session[p], session'[p], m)
          /\ Party = {p, Peer(p)}
    BY <1>4, AcceptStep, PeerFacts
  <2>2. session'[p].dhRatchetPerformed = session[p].dhRatchetPerformed
          \/ session'[p].dhRatchetPerformed = TRUE
    BY <2>1 DEF Receives, TookSkipped, OnHeldChain, OnNewChain, EpochSame
  <2>3. session[p].dhRatchetPerformed \in BOOLEAN /\ session[Peer(p)].dhRatchetPerformed \in BOOLEAN
    BY <2>1 DEF TypeInv, ReceiveHalfOK
  <2> QED BY <2>1, <2>2, <2>3, GaplessKept DEF SendHalfSame
<1> QED
  BY <1>1, <1>2, <1>3, <1>4, EncryptGaplessInv DEF Next

(* GaplessInv holds in every reachable state.                              *)
THEOREM SpecGaplessInv == Spec => []GaplessInv
BY InitGaplessInv, StepGaplessInv, SpecIInv, SpecTypeInv, SpecKeyInv, PTL DEF Spec

-----------------------------------------------------------------------------
(* What the window is about. A message is passed when the chain in force   *)
(* or an earlier one has moved beyond its number; the keys of the passed   *)
(* messages that are outstanding, and no others, are in the store.         *)
Name(m) == StorageKey(m.hdr.pk, m.hdr.n)
Passed(s, m) ==
  \/ Index(m) < s.dhr[2]
  \/ m.hdr.pk = s.dhr /\ m.hdr.n < GetChain(s.recvChains, s.dhr).nr
NamesPassed(s, msgs) == {Name(m) : m \in {x \in msgs : Passed(s, x)}}
KeepsKeys(p) ==
  accepted[p] # {} =>
    DOMAIN session[p].mkSkipped.entries = NamesPassed(session[p], Outstanding(p))

NoReplays == \A p \in Party : replayed[p] = {}
WindowBase == ForceBase /\ ForceInv /\ GaplessInv /\ IsFiniteSet(network)
WindowInv ==
  /\ windowed => Window
  /\ windowed /\ NoReplays => \A p \in Party : KeepsKeys(p)

(* No more names than messages.                                            *)
LEMMA NamesBound ==
  ASSUME NEW s, NEW msgs, IsFiniteSet(msgs)
  PROVE  /\ IsFiniteSet(NamesPassed(s, msgs))
         /\ Cardinality(NamesPassed(s, msgs)) \in Nat
         /\ Cardinality(NamesPassed(s, msgs)) <= Cardinality(msgs)
<1> DEFINE T == {x \in msgs : Passed(s, x)}
           N == NamesPassed(s, msgs)
           f == [x \in T |-> Name(x)]
<1>1. IsFiniteSet(T) /\ Cardinality(T) <= Cardinality(msgs)
  BY FS_Subset
<1>2. f \in Surjection(T, N)
  BY DEF Surjection, NamesPassed
<1> HIDE DEF T, N, f
<1>3. IsFiniteSet(N) /\ Cardinality(N) <= Cardinality(T)
  BY <1>1, <1>2, FS_Surjection
<1>4. Cardinality(N) \in Nat /\ Cardinality(T) \in Nat /\ Cardinality(msgs) \in Nat
  BY <1>1, <1>3, FS_CardinalityType
<1>5. Cardinality(N) <= Cardinality(msgs)
  BY <1>1, <1>3, <1>4
<1> QED
  BY <1>3, <1>4, <1>5 DEF N

(* A set with a message for each number of a run has as many messages.     *)
LEMMA RunBound ==
  ASSUME NEW msgs, IsFiniteSet(msgs), NEW lo \in Int, NEW hi \in Int,
         \A k \in lo .. hi : \E x \in msgs : x.hdr.n = k
  PROVE  hi - lo + 1 <= Cardinality(msgs)
<1> DEFINE f == [k \in lo .. hi |-> CHOOSE x \in msgs : x.hdr.n = k]
<1>0. Cardinality(msgs) \in Nat
  BY FS_CardinalityType
<1>1. CASE lo > hi
  BY <1>0, <1>1
<1>2. CASE lo <= hi
  <2>1. \A k \in lo .. hi : f[k] \in msgs /\ f[k].hdr.n = k
    OBVIOUS
  <2>2. f \in [lo .. hi -> msgs]
    BY <2>1
  <2> HIDE DEF f
  <2>3. f \in Injection(lo .. hi, msgs)
    BY <2>1, <2>2 DEF Injection, IsInjective
  <2>4. Cardinality(lo .. hi) <= Cardinality(msgs)
    BY <2>3, FS_Injection
  <2>5. Cardinality(lo .. hi) = hi - lo + 1
    BY <1>2, FS_Interval
  <2> QED BY <2>4, <2>5
<1> QED
  BY <1>1, <1>2

(* A peer is at most one ratchet key ahead: it answers keys that exist.    *)
LEMMA IndexBounds ==
  ASSUME IInv, TurnInv, NEW p \in Party, NEW m \in network, m.from = Peer(p)
  PROVE  Lag(Peer(p)) <= Index(m) /\ Index(m) <= Newest(p) + Lag(Peer(p))
<1> DEFINE q == Peer(p)
           i == Index(m)
           g == Newest(p)
<1>1. /\ q \in Party /\ Peer(q) = p /\ i \in Nat /\ g \in Nat /\ Lag(q) \in {0, 1}
  BY SessionFacts, PeerFacts, LagFacts, MessageIndex DEF Newest
<1>2. Lag(q) <= i /\ Follows(q, i, m.box.key.root[1])
  BY DEF TurnInv, RootsAlternate, RootOf
<1> HIDE DEF g, i
<1>3. CASE i = 0
  BY <1>1, <1>2, <1>3 DEF i, g
<1>4. CASE i # 0
  <2>1. PICK x \in network : x.hdr.pk = KeyPair(p, i - Lag(q))
    BY <1>1, <1>2, <1>4 DEF Follows
  <2>2. x.from = p /\ Index(x) = i - Lag(q)
    BY <2>1, MessageIndex DEF KeyPair, Index
  <2>3. i - Lag(q) <= g
    BY <2>2, MessageIndex DEF g
  <2> QED BY <1>1, <1>2, <2>3 DEF i, g
<1> QED
  BY <1>3, <1>4

(* What is known of a message that is outstanding.                         *)
LEMMA OutstandingFacts ==
  ASSUME ForceBase, NEW p \in Party, NEW m \in Outstanding(p)
  PROVE  /\ m \in network /\ m.from = Peer(p) /\ m.hdr.n \in Nat /\ m.hdr.pn \in Nat
         /\ Index(m) \in Nat /\ m.hdr.pk = KeyPair(Peer(p), Index(m))
         /\ \A x \in network : Name(x) = Name(m) => x = m
<1>1. m \in network /\ m.from = Peer(p) /\ IInv /\ TypeInv
  BY DEF ForceBase, Outstanding
<1>2. ASSUME NEW x \in network, Name(x) = Name(m) PROVE x = m
  <2>1. x.hdr.pk = m.hdr.pk /\ x.hdr.n = m.hdr.n
    BY <1>2 DEF Name, StorageKey
  <2> QED BY <1>1, <2>1 DEF IInv, HeaderNamesMessage
<1> QED
  BY <1>1, <1>2, MessageIndex, MessageFacts DEF TypeInv, MessageOK

(* The epoch of a party that has accepted a message: nothing of its chain  *)
(* from nr on has been accepted, and no message is more than one key ahead.*)
AtEpoch(p, e, nr) ==
  LET s == session[p]
      q == Peer(p)
  IN  /\ e \in Nat /\ s.dhr = KeyPair(q, e) /\ s.dhr[2] = e /\ nr \in Nat
      /\ s.dhRSet /\ HasChain(s.recvChains, s.dhr)
      /\ nr = GetChain(s.recvChains, s.dhr).nr
      /\ \A h \in Held(s.recvChains) : h.pk[2] <= e
      /\ \A x \in network :
           x.from = q =>
             /\ Index(x) <= e + 1
             /\ Index(x) = e + 1 => ~s.dhRatchetPerformed /\ Index(x) = Newest(p) + Lag(q)
             /\ x.hdr.pk = s.dhr /\ ~(x.hdr.n < nr) => x \in Outstanding(p)
             /\ Index(x) = e + 1 => x \in Outstanding(p)

(* Such an epoch exists.                                                   *)
LEMMA EpochReached ==
  ASSUME ForceBase, ForceInv, NEW p \in Party, accepted[p] # {}
  PROVE  \E e, nr : AtEpoch(p, e, nr)
<1> DEFINE s == session[p]
           q == Peer(p)
           g == Newest(p)
           c == GetChain(s.recvChains, s.dhr)
<1>1. IInv /\ TypeInv /\ KeyInv /\ TurnInv /\ ChainInForce(s, Taken(p))
  BY DEF ForceBase, ForceInv, InForce
<1>2. s.dhRSet /\ HasChain(s.recvChains, s.dhr)
      /\ \A h \in Held(s.recvChains) : h.pk[2] <= s.dhr[2]
  BY <1>1 DEF ChainInForce
<1>3. c.nr \in Nat
  BY <1>1, <1>2, RingsOK, HeldFacts, HeldTypes
<1>4. PICK e \in Nat : /\ s.dhr = KeyPair(q, e) /\ s.dhr[2] = e
                       /\ ~s.dhRatchetPerformed => Lag(p) <= g /\ e = g - Lag(p)
                       /\ s.dhRatchetPerformed => e = g + Lag(q)
  BY <1>1, <1>2, EpochOf
<1>5. g \in Nat /\ Lag(p) \in {0, 1} /\ Lag(q) \in {0, 1} /\ Lag(p) + Lag(q) = 1
  BY <1>1, SessionFacts, LagFacts DEF Newest
<1>6. ASSUME NEW x \in network, x.from = q
      PROVE  /\ Index(x) <= e + 1
             /\ Index(x) = e + 1 => ~s.dhRatchetPerformed /\ Index(x) = g + Lag(q)
             /\ x.hdr.pk = s.dhr /\ ~(x.hdr.n < c.nr) => x \in Outstanding(p)
             /\ Index(x) = e + 1 => x \in Outstanding(p)
  <2>1. Index(x) <= g + Lag(q) /\ Index(x) \in Nat
    BY <1>1, <1>6, IndexBounds, MessageIndex
  <2>2. x \notin Outstanding(p) => x \in Taken(p)
    BY <1>6 DEF Outstanding, Taken
  <2>3. x \in Taken(p) => Index(x) <= e /\ (x.hdr.pk = s.dhr => x.hdr.n < c.nr)
    BY <1>1, <1>4 DEF ChainInForce
  <2>4. /\ Index(x) <= e + 1
        /\ Index(x) = e + 1 => ~s.dhRatchetPerformed /\ Index(x) = g + Lag(q)
    <3> HIDE DEF g, s, q
    <3> QED BY <1>4, <1>5, <2>1
  <2> QED BY <2>1, <2>2, <2>3, <2>4
<1>7. AtEpoch(p, e, c.nr)
  BY <1>2, <1>3, <1>4, <1>6 DEF AtEpoch
<1> QED
  BY <1>7

(* What the store must hold once m has been accepted.                      *)
KeptAfter(t, p, m) ==
  DOMAIN t.mkSkipped.entries = NamesPassed(t, Outstanding(p) \ {m})

(* A skipped key is taken out with its message,                            *)
LEMMA KeepsSkipped ==
  ASSUME WindowBase, NEW p \in Party, KeepsKeys(p), NEW m \in Outstanding(p),
         NEW t, TookSkipped(session[p], t, m.hdr, m.box.key)
  PROVE  KeptAfter(t, p, m)
<1> DEFINE s == session[p]
           O == Outstanding(p)
<1>1. accepted[p] # {}
  BY DEF TookSkipped, HasKey, WindowBase, ForceInv, InForce, Fresh
<1>2. DOMAIN s.mkSkipped.entries = NamesPassed(s, O)
  BY <1>1 DEF KeepsKeys
<1>3. /\ t.dhr = s.dhr /\ t.recvChains = s.recvChains
      /\ t.mkSkipped = Consume(s.mkSkipped, Name(m))
  BY DEF TookSkipped, EpochSame, Name
<1>4. DOMAIN t.mkSkipped.entries = DOMAIN s.mkSkipped.entries \ {Name(m)}
  BY <1>3 DEF Consume, Without
<1>5. \A x \in O : (Passed(t, x) <=> Passed(s, x)) /\ (Name(x) = Name(m) <=> x = m)
  <2>1. \A x \in O : x \in network /\ (Name(x) = Name(m) => x = m)
    BY OutstandingFacts DEF WindowBase
  <2> QED BY <1>3, <2>1 DEF Passed
<1> HIDE DEF O, s
<1>6. NamesPassed(t, O \ {m}) = NamesPassed(s, O) \ {Name(m)}
  BY <1>5 DEF NamesPassed
<1> QED
  BY <1>2, <1>4, <1>6 DEF KeptAfter, O

(* The messages of one chain from lo to hi - 1, which are all outstanding, *)
(* have the names of that run.                                             *)
LEMMA RunNames ==
  ASSUME NEW pk, NEW lo, NEW hi, NEW msgs,
         \A k \in lo .. hi - 1 : \E x \in msgs : x.hdr.pk = pk /\ x.hdr.n = k
  PROVE  RunOfNames(pk, lo, hi) =
           {Name(x) : x \in {y \in msgs : y.hdr.pk = pk /\ y.hdr.n \in lo .. hi - 1}}
BY DEF RunOfNames, Name

(* the chain in force stores the keys it passes over,                      *)
LEMMA KeepsHeld ==
  ASSUME WindowBase, NEW p \in Party, KeepsKeys(p), NEW m \in Outstanding(p),
         Cardinality(Outstanding(p)) <= MaxSkip + 1,
         NEW t, OnHeldChain(session[p], t, m.hdr, m.box.key)
  PROVE  KeptAfter(t, p, m)
<1> DEFINE s == session[p]
           q == Peer(p)
           O == Outstanding(p)
           c == GetChain(s.recvChains, m.hdr.pk)
<1>1. /\ ForceBase /\ ForceInv /\ GaplessInv /\ IsFiniteSet(network) /\ IInv /\ TypeInv
      /\ m \in network /\ m.from = q /\ m.hdr.n \in Nat
      /\ Index(m) \in Nat /\ m.hdr.pk = KeyPair(q, Index(m)) /\ RingOK(s.recvChains)
  BY OutstandingFacts, RingsOK DEF WindowBase, ForceBase
<1>2. /\ ~HasKey(s.mkSkipped, Name(m))
      /\ HasChain(s.recvChains, m.hdr.pk) /\ ~(m.hdr.n < c.nr)
      /\ t.mkSkipped = StoreKeys(s.mkSkipped, m.hdr.pk, c.ck, c.nr, m.hdr.n)
      /\ t.recvChains = PutChain(s.recvChains, m.hdr.pk, DeriveNextChainKey(m.box.key), m.hdr.n + 1)
      /\ t.dhr = s.dhr
  BY DEF OnHeldChain, EpochSame, Name
<1>3. c \in Held(s.recvChains) /\ c.pk = m.hdr.pk
  BY <1>1, <1>2, HeldFacts
<1>4. accepted[p] # {}
  BY <1>1, <1>3 DEF ForceInv, InForce, Fresh
<1>5. PICK e, nr : AtEpoch(p, e, nr)
  BY <1>1, <1>4, EpochReached
<1>6. DOMAIN s.mkSkipped.entries = NamesPassed(s, O)
  BY <1>4 DEF KeepsKeys
<1>7. m.hdr.pk = s.dhr /\ c.nr = nr /\ nr \in Nat
  <2>1. Index(m) <= e /\ e \in Nat /\ s.dhr = KeyPair(q, e) /\ s.dhr[2] = e
        /\ nr = GetChain(s.recvChains, s.dhr).nr /\ nr \in Nat
    BY <1>3, <1>5 DEF AtEpoch, Index
  <2>2. ~Passed(s, m)
    BY <1>2, <1>6 DEF NamesPassed, HasKey
  <2>3. Index(m) = e
    BY <1>1, <2>1, <2>2 DEF Passed
  <2> QED BY <1>1, <2>1, <2>3
<1>8. GetChain(t.recvChains, t.dhr).nr = m.hdr.n + 1
  BY <1>1, <1>2, <1>7, GetAfterPut
<1>9. \A x \in O : x \in network /\ x.from = q /\ x.hdr.n \in Nat /\ Index(x) \in Nat
                   /\ (Name(x) = Name(m) => x = m)
  BY <1>1, OutstandingFacts
<1>10. \A k \in nr .. m.hdr.n - 1 : \E x \in O : x.hdr.pk = s.dhr /\ x.hdr.n = k
  <2> SUFFICES ASSUME NEW k \in nr .. m.hdr.n - 1
               PROVE  \E x \in O : x.hdr.pk = s.dhr /\ x.hdr.n = k
    OBVIOUS
  <2>1. k \in 0 .. m.hdr.n - 1 /\ ~(k < nr)
    BY <1>1, <1>7
  <2>2. PICK x \in network : x.hdr.pk = s.dhr /\ x.hdr.n = k
    BY <1>1, <1>7, <2>1 DEF GaplessInv
  <2>3. x.from = q
    BY <1>1, <1>7, <2>2, MessageIndex DEF KeyPair
  <2> QED BY <1>5, <2>1, <2>2, <2>3 DEF AtEpoch
<1> DEFINE New == NamesPassed(t, O \ {m})
           Run == RunOfNames(s.dhr, nr, m.hdr.n)
<1>11. New = NamesPassed(s, O) \cup Run
  <2>1. \A x \in O : Passed(t, x) <=> Index(x) < s.dhr[2] \/ (x.hdr.pk = s.dhr /\ x.hdr.n < m.hdr.n + 1)
    BY <1>2, <1>8 DEF Passed
  <2>2. \A x \in O : Passed(s, x) <=> Index(x) < s.dhr[2] \/ (x.hdr.pk = s.dhr /\ x.hdr.n < nr)
    BY <1>7 DEF Passed
  <2>3. ~Passed(s, m)
    BY <1>2, <1>6 DEF NamesPassed, HasKey
  <2>4. \A x \in O : x.hdr.pk = s.dhr /\ x.hdr.n = m.hdr.n => x = m
    BY <1>7, <1>9 DEF Name
  <2>5. nr <= m.hdr.n
    BY <1>1, <1>2, <1>7
  <2>6. ASSUME NEW x \in O
        PROVE  x # m /\ Passed(t, x) <=>
                 Passed(s, x) \/ (x.hdr.pk = s.dhr /\ x.hdr.n \in nr .. m.hdr.n - 1)
    <3>1. x.hdr.n \in Nat /\ m.hdr.n \in Nat /\ nr \in Nat
      BY <1>1, <1>7, <1>9
    <3>2. x # m /\ Passed(t, x) => Passed(s, x) \/ (x.hdr.pk = s.dhr /\ x.hdr.n \in nr .. m.hdr.n - 1)
      BY <3>1, <2>1, <2>2, <2>4
    <3>3. Passed(s, x) => x # m /\ Passed(t, x)
      BY <3>1, <2>1, <2>2, <2>3, <2>5
    <3>4. x.hdr.pk = s.dhr /\ x.hdr.n \in nr .. m.hdr.n - 1 => x # m /\ Passed(t, x)
      BY <3>1, <2>1
    <3> QED BY <3>2, <3>3, <3>4
  <2>7. Run = {Name(x) : x \in {y \in O : y.hdr.pk = s.dhr /\ y.hdr.n \in nr .. m.hdr.n - 1}}
    <3> HIDE DEF O, s
    <3>1. RunOfNames(s.dhr, nr, m.hdr.n)
            = {Name(x) : x \in {y \in O : y.hdr.pk = s.dhr /\ y.hdr.n \in nr .. m.hdr.n - 1}}
      BY <1>10, RunNames
    <3> QED BY <3>1
  <2> HIDE DEF Run, O, s
  <2> QED BY <2>6, <2>7 DEF NamesPassed
<1>12. IsFiniteSet(New) /\ Cardinality(New) <= MaxSkip
  <2>1. IsFiniteSet(O) /\ Cardinality(O) \in Nat
    BY <1>1, FS_Subset, FS_CardinalityType DEF Outstanding
  <2>2. IsFiniteSet(O \ {m}) /\ Cardinality(O \ {m}) = Cardinality(O) - 1
    BY <2>1, FS_RemoveElement
  <2>3. IsFiniteSet(New) /\ Cardinality(New) \in Nat /\ Cardinality(New) <= Cardinality(O \ {m})
    BY <2>2, NamesBound
  <2> HIDE DEF New, O
  <2> QED BY <2>1, <2>2, <2>3, MaxSkipAssumption DEF O
<1>13. DOMAIN t.mkSkipped.entries = New
  <2>1. t.mkSkipped = StoreKeys(s.mkSkipped, s.dhr, c.ck, nr, m.hdr.n)
    BY <1>2, <1>7
  <2> HIDE DEF New, s, c, O
  <2>2. nr \in Int /\ m.hdr.n \in Int
    BY <1>1, <1>7
  <2>3. DOMAIN s.mkSkipped.entries \subseteq New /\ Run \subseteq New
    BY <1>6, <1>11
  <2> QED BY <1>6, <1>11, <1>12, <2>1, <2>2, <2>3, StoreKeysEvictsNothing
<1> QED
  BY <1>13 DEF KeptAfter

(* The messages of earlier ratchet keys that are outstanding when m comes. *)
Before(p, m) == {Name(x) : x \in {y \in Outstanding(p) : Index(y) < Index(m)}}

(* and a new chain stores first those of the chain it supersedes           *)
LEMMA KeepsPrevious ==
  ASSUME WindowBase, NEW p \in Party, KeepsKeys(p), NEW m \in Outstanding(p),
         NEW t, OnNewChain(session[p], t, m.hdr, m.box.key),
         NEW F, IsFiniteSet(F), Cardinality(F) <= MaxSkip, Before(p, m) \subseteq F
  PROVE  DOMAIN SkipPrevChain(session[p], m.hdr.pn).entries = Before(p, m)
<1> DEFINE s == session[p]
           q == Peer(p)
           O == Outstanding(p)
           c == GetChain(s.recvChains, s.dhr)
<1>1. /\ ForceBase /\ ForceInv /\ GaplessInv /\ IInv /\ TypeInv /\ TurnInv
      /\ m \in network /\ m.from = q /\ m.hdr.pn \in Nat
      /\ Index(m) \in Nat /\ m.hdr.pk = KeyPair(q, Index(m)) /\ RingOK(s.recvChains)
  BY OutstandingFacts, RingsOK DEF WindowBase, ForceBase
<1>2. ~HasKey(s.mkSkipped, Name(m)) /\ ~HasChain(s.recvChains, m.hdr.pk)
  BY DEF OnNewChain, Name
<1>3. \A x \in O : x \in network /\ x.from = q /\ x.hdr.n \in Nat /\ Index(x) \in Nat
                   /\ x.hdr.pk = KeyPair(q, Index(x))
  BY <1>1, OutstandingFacts
<1>4. CASE accepted[p] = {}
  <2>1. Held(s.recvChains) = {} /\ DOMAIN s.mkSkipped.entries = {} /\ Newest(p) = 0
    BY <1>1, <1>4 DEF ForceInv, InForce, Fresh
  <2>2. SkipPrevChain(s, m.hdr.pn) = s.mkSkipped
    BY <1>1, <2>1, HeldFacts DEF SkipPrevChain, HasPrevChain
  <2>3. \A x \in O : Lag(q) <= Index(x) /\ Index(m) <= Lag(q) /\ Lag(q) \in Nat
    BY <1>1, <1>3, <2>1, IndexBounds, LagFacts
  <2>4. \A x \in O : ~(Index(x) < Index(m))
    BY <1>1, <1>3, <2>3
  <2>5. Before(p, m) = {}
    BY <2>4 DEF Before
  <2> QED BY <2>1, <2>2, <2>5
<1>5. CASE accepted[p] # {}
  <2>1. PICK e, nr : AtEpoch(p, e, nr)
    BY <1>1, <1>5, EpochReached
  <2>2. DOMAIN s.mkSkipped.entries = NamesPassed(s, O)
    BY <1>5 DEF KeepsKeys
  <2>3. /\ e \in Nat /\ s.dhr = KeyPair(q, e) /\ s.dhr[2] = e /\ nr \in Nat
        /\ s.dhRSet /\ HasChain(s.recvChains, s.dhr) /\ nr = c.nr
    BY <2>1 DEF AtEpoch
  <2>4. Index(m) = e + 1
    <3>1. ~Passed(s, m)
      BY <1>2, <2>2 DEF NamesPassed, HasKey
    <3>2. Index(m) # e
      BY <1>1, <1>2, <2>3
    <3>3. Index(m) <= e + 1
      BY <1>1, <2>1 DEF AtEpoch
    <3> QED BY <1>1, <2>3, <3>1, <3>2, <3>3 DEF Passed
  <2>5. Numbered(s.dhr, m.hdr.pn)
    <3>1. Index(m) > 0 /\ Index(m) - 1 = e
      BY <2>3, <2>4
    <3> QED BY <1>1, <2>3, <3>1 DEF GaplessInv
  <2>6. \A k \in nr .. m.hdr.pn - 1 : \E x \in O : x.hdr.pk = s.dhr /\ x.hdr.n = k
    <3> SUFFICES ASSUME NEW k \in nr .. m.hdr.pn - 1
                 PROVE  \E x \in O : x.hdr.pk = s.dhr /\ x.hdr.n = k
      OBVIOUS
    <3>1. k \in 0 .. m.hdr.pn - 1 /\ ~(k < nr)
      BY <1>1, <2>3
    <3>2. PICK x \in network : x.hdr.pk = s.dhr /\ x.hdr.n = k
      BY <2>5, <3>1 DEF Numbered
    <3>3. x.from = q
      BY <1>1, <2>3, <3>2, MessageIndex DEF KeyPair
    <3> QED BY <2>1, <3>1, <3>2, <3>3 DEF AtEpoch
  <2> DEFINE Run == RunOfNames(s.dhr, nr, m.hdr.pn)
  <2>7. Before(p, m) = NamesPassed(s, O) \cup Run
    <3>1. ASSUME NEW x \in O
          PROVE  Index(x) < Index(m) <=>
                   Passed(s, x) \/ (x.hdr.pk = s.dhr /\ x.hdr.n \in nr .. m.hdr.pn - 1)
      <4>1. /\ x.hdr.n \in Nat /\ Index(x) \in Nat /\ m.hdr.pn \in Nat /\ nr \in Nat /\ e \in Nat
            /\ Passed(s, x) <=> Index(x) < e \/ (x.hdr.pk = s.dhr /\ x.hdr.n < nr)
            /\ x.hdr.pk = s.dhr <=> Index(x) = e
        <5>1. x.hdr.pk = s.dhr <=> Index(x) = e
          BY <1>3, <2>3 DEF KeyPair
        <5>2. Passed(s, x) <=> Index(x) < e \/ (x.hdr.pk = s.dhr /\ x.hdr.n < nr)
          BY <2>3 DEF Passed
        <5> QED BY <1>1, <1>3, <2>3, <5>1, <5>2
      <4>2. x.hdr.pk = s.dhr => x.hdr.n < m.hdr.pn
        BY <1>3, <2>5 DEF Numbered
      <4> QED BY <2>4, <4>1, <4>2
    <3>2. Run = {Name(x) : x \in {y \in O : y.hdr.pk = s.dhr /\ y.hdr.n \in nr .. m.hdr.pn - 1}}
      <4> HIDE DEF O, s
      <4>1. RunOfNames(s.dhr, nr, m.hdr.pn)
              = {Name(x) : x \in {y \in O : y.hdr.pk = s.dhr /\ y.hdr.n \in nr .. m.hdr.pn - 1}}
        BY <2>6, RunNames
      <4> QED BY <4>1
    <3> HIDE DEF Run, s
    <3> QED BY <3>1, <3>2 DEF NamesPassed, Before
  <2>8. SkipPrevChain(s, m.hdr.pn) = StoreKeys(s.mkSkipped, s.dhr, c.ck, nr, m.hdr.pn)
    BY <2>3 DEF SkipPrevChain, HasPrevChain, PrevNr
  <2> HIDE DEF s, O, c
  <2>9. nr \in Int /\ m.hdr.pn \in Int
    BY <1>1, <2>3
  <2>10. DOMAIN s.mkSkipped.entries \subseteq F /\ Run \subseteq F
    BY <2>2, <2>7
  <2>11. DOMAIN SkipPrevChain(s, m.hdr.pn).entries = Before(p, m)
    BY <2>2, <2>7, <2>8, <2>9, <2>10, StoreKeysEvictsNothing
  <2> QED BY <2>11 DEF s
<1> QED
  BY <1>4, <1>5

(* and then those of its own that it passes over.                          *)
LEMMA KeepsNew ==
  ASSUME WindowBase, NEW p \in Party, KeepsKeys(p), NEW m \in Outstanding(p),
         Cardinality(Outstanding(p)) <= MaxSkip + 1,
         NEW t, OnNewChain(session[p], t, m.hdr, m.box.key)
  PROVE  KeptAfter(t, p, m)
<1> DEFINE s == session[p]
           q == Peer(p)
           O == Outstanding(p)
           first == FirstChainKey(t.rk)
           prev == SkipPrevChain(s, m.hdr.pn)
           New == NamesPassed(t, O \ {m})
           Run == RunOfNames(m.hdr.pk, 0, m.hdr.n)
<1>1. /\ ForceBase /\ ForceInv /\ GaplessInv /\ IsFiniteSet(network) /\ IInv /\ TypeInv
      /\ m \in network /\ m.from = q /\ m.hdr.n \in Nat
      /\ Index(m) \in Nat /\ m.hdr.pk = KeyPair(q, Index(m)) /\ RingOK(s.recvChains)
  BY OutstandingFacts, RingsOK DEF WindowBase, ForceBase
<1>2. /\ ~HasChain(s.recvChains, m.hdr.pk) /\ t.dhr = m.hdr.pk
      /\ t.mkSkipped = StoreKeys(prev, m.hdr.pk, first, 0, m.hdr.n)
      /\ t.recvChains = PutChain(Push(s.recvChains, m.hdr.pk, first), m.hdr.pk,
                                 DeriveNextChainKey(m.box.key), m.hdr.n + 1)
  BY DEF OnNewChain
<1>3. GetChain(t.recvChains, t.dhr).nr = m.hdr.n + 1
  <2> HIDE DEF first
  <2>1. /\ RingOK(Push(s.recvChains, m.hdr.pk, first))
        /\ HasChain(Push(s.recvChains, m.hdr.pk, first), m.hdr.pk)
    BY <1>1, <1>2, PushFacts, GetAfterPush
  <2> QED BY <1>2, <2>1, GetAfterPut
<1>4. \A x \in O : x \in network /\ x.from = q /\ x.hdr.n \in Nat /\ Index(x) \in Nat
                   /\ x.hdr.pk = KeyPair(q, Index(x)) /\ (Name(x) = Name(m) => x = m)
  BY <1>1, OutstandingFacts
<1>5. \A x \in network : x.hdr.pk = m.hdr.pk => x \in O
  <2> SUFFICES ASSUME NEW x \in network, x.hdr.pk = m.hdr.pk PROVE x \in O
    OBVIOUS
  <2>1. x.from = q
    BY <1>1, MessageIndex DEF KeyPair
  <2>2. CASE accepted[p] = {}
    BY <2>1, <2>2 DEF Outstanding
  <2>3. CASE accepted[p] # {}
    <3>1. PICK e, nr : AtEpoch(p, e, nr)
      BY <1>1, <2>3, EpochReached
    <3>2. m.hdr.pk # s.dhr /\ s.dhr = KeyPair(q, e) /\ Index(m) # e
      BY <1>1, <1>2, <3>1 DEF AtEpoch
    <3>3. ~Passed(s, m)
      BY <2>3 DEF KeepsKeys, NamesPassed, OnNewChain, HasKey, Name
    <3>4. Index(m) = e + 1
      BY <1>1, <3>1, <3>2, <3>3 DEF AtEpoch, Passed
    <3>5. Index(x) = e + 1
      BY <3>4 DEF Index
    <3> QED BY <2>1, <3>1, <3>5 DEF AtEpoch
  <2> QED BY <2>2, <2>3
<1>6. \A k \in 0 .. m.hdr.n - 1 : \E x \in O : x.hdr.pk = m.hdr.pk /\ x.hdr.n = k
  BY <1>1, <1>5 DEF GaplessInv
<1>7. New = Before(p, m) \cup Run
  <2>1. ASSUME NEW x \in O
        PROVE  x # m /\ Passed(t, x) <=>
                 Index(x) < Index(m) \/ (x.hdr.pk = m.hdr.pk /\ x.hdr.n \in 0 .. m.hdr.n - 1)
    <3>1. x.hdr.n \in Nat /\ Index(x) \in Nat /\ m.hdr.n \in Nat /\ Index(m) \in Nat
      BY <1>1, <1>4
    <3>2. Passed(t, x) <=> Index(x) < Index(m) \/ (x.hdr.pk = m.hdr.pk /\ x.hdr.n < m.hdr.n + 1)
      BY <1>2, <1>3 DEF Passed, Index
    <3>3. x.hdr.pk = m.hdr.pk /\ x.hdr.n = m.hdr.n => x = m
      BY <1>4 DEF Name
    <3> HIDE DEF O
    <3> QED BY <3>1, <3>2, <3>3
  <2>2. Run = {Name(x) : x \in {y \in O : y.hdr.pk = m.hdr.pk /\ y.hdr.n \in 0 .. m.hdr.n - 1}}
    <3> HIDE DEF O
    <3>1. RunOfNames(m.hdr.pk, 0, m.hdr.n)
            = {Name(x) : x \in {y \in O : y.hdr.pk = m.hdr.pk /\ y.hdr.n \in 0 .. m.hdr.n - 1}}
      BY <1>6, RunNames
    <3> QED BY <3>1
  <2> HIDE DEF Run
  <2> QED BY <2>1, <2>2 DEF NamesPassed, Before
<1>8. IsFiniteSet(New) /\ Cardinality(New) <= MaxSkip
  <2>1. IsFiniteSet(O) /\ Cardinality(O) \in Nat
    BY <1>1, FS_Subset, FS_CardinalityType DEF Outstanding
  <2>2. IsFiniteSet(O \ {m}) /\ Cardinality(O \ {m}) = Cardinality(O) - 1
    BY <2>1, FS_RemoveElement
  <2>3. IsFiniteSet(New) /\ Cardinality(New) \in Nat /\ Cardinality(New) <= Cardinality(O \ {m})
    BY <2>2, NamesBound
  <2> HIDE DEF New, O
  <2> QED BY <2>1, <2>2, <2>3, MaxSkipAssumption DEF O
<1> HIDE DEF s, O, New, Run, first
<1>9. DOMAIN prev.entries = Before(p, m)
  BY <1>7, <1>8, KeepsPrevious DEF s
<1> HIDE DEF prev
<1>10. DOMAIN t.mkSkipped.entries = New
  <2>1. DOMAIN prev.entries \subseteq New /\ RunOfNames(m.hdr.pk, 0, m.hdr.n) \subseteq New
    BY <1>7, <1>9 DEF Run
  <2>2. m.hdr.n \in Int
    BY <1>1
  <2> QED BY <1>2, <1>7, <1>8, <1>9, <2>1, <2>2, StoreKeysEvictsNothing DEF Run
<1> QED
  BY <1>10 DEF KeptAfter, New, O

(* However an outstanding message is accepted.                             *)
LEMMA AcceptKeeps ==
  ASSUME WindowBase, NEW p \in Party, KeepsKeys(p), NEW m \in Outstanding(p),
         Cardinality(Outstanding(p)) <= MaxSkip + 1,
         NEW t, Receives(session[p], t, m)
  PROVE  KeptAfter(t, p, m)
BY KeepsSkipped, KeepsHeld, KeepsNew DEF Receives

(* A party keeps its keys while it accepts nothing and what is sent to it  *)
(* is not passed already.                                                  *)
LEMMA KeepsKept ==
  ASSUME NEW p \in Party, KeepsKeys(p), network \subseteq network', accepted'[p] = accepted[p],
         accepted[p] # {} =>
           \A x \in network' \ network : x.from = Peer(p) => ~Passed(session[p], x),
         session'[p].recvChains = session[p].recvChains,
         session'[p].mkSkipped = session[p].mkSkipped,
         session'[p].dhr = session[p].dhr
  PROVE  KeepsKeys(p)'
<1> SUFFICES ASSUME accepted[p] # {}
             PROVE  DOMAIN session[p].mkSkipped.entries = NamesPassed(session[p], Outstanding(p))'
  BY DEF KeepsKeys
<1> DEFINE s == session[p]
           T == {x \in Outstanding(p) : Passed(s, x)}
<1>t. PICK t, O : t = session'[p] /\ O = Outstanding(p)'
  OBVIOUS
<1>1. \A x : Passed(t, x) <=> Passed(s, x)
  BY <1>t DEF Passed
<1>2. {x \in O : Passed(t, x)} = T
  <2>1. ASSUME NEW x \in O, Passed(s, x) PROVE x \in Outstanding(p)
    BY <1>t, <2>1 DEF Outstanding
  <2>2. Outstanding(p) \subseteq O
    BY <1>t DEF Outstanding
  <2> HIDE DEF s
  <2> QED BY <1>1, <2>1, <2>2
<1>3. NamesPassed(t, O) = NamesPassed(s, Outstanding(p))
  BY <1>2 DEF NamesPassed
<1>4. NamesPassed(session[p], Outstanding(p))' = NamesPassed(t, O)
  BY <1>t DEF NamesPassed, Passed, Index, Name
<1> QED
  BY <1>3, <1>4 DEF KeepsKeys

(* What Encrypt sends is beyond all that its receiver has passed.          *)
LEMMA EncryptKeeps ==
  ASSUME WindowBase, NEW p \in Party, Encrypt(p), \A x \in Party : KeepsKeys(x)
  PROVE  \A x \in Party : KeepsKeys(x)'
<1> DEFINE q == Peer(p)
           s == session[p]
<1>t. PICK t : t = session'[p]
  OBVIOUS
<1>0. IInv /\ TypeInv /\ KeyInv /\ OrderInv /\ ForceInv
  BY DEF ForceBase, WindowBase
<1>1. /\ session'[q] = session[q] /\ UNCHANGED accepted
      /\ \/ SameChain(s, t) /\ generated' = generated
         \/ FreshChain(s, t, KeyPair(p, generated[p])) /\ generated' = [generated EXCEPT ![p] = @ + 1]
      /\ \A x \in network : x.hdr.pk = t.dhs => x.hdr.n < t.ns - 1
  BY <1>t, <1>0, EncryptStep
<1>2. PICK m : network' = network \cup {m} /\ Sends(s, t, p, m)
  BY <1>t, <1>0, EncryptStep
<1>3. Party = {p, q} /\ q \in Party /\ q # p /\ Peer(q) = p
  BY PeerFacts
<1>4. /\ m.from = p /\ m.hdr.pk = t.dhs /\ m.hdr.n = t.ns - 1
      /\ t.recvChains = s.recvChains /\ t.mkSkipped = s.mkSkipped /\ t.dhr = s.dhr
  BY <1>2 DEF Sends
<1>5. KeepsKeys(p)'
  BY <1>t, <1>1, <1>2, <1>3, <1>4, KeepsKept
<1>6. ASSUME accepted[q] # {} PROVE ~Passed(session[q], m)
  <2>1. PICK e, nr : AtEpoch(q, e, nr)
    BY <1>0, <1>3, <1>6, EpochReached DEF WindowBase
  <2>2. /\ session[q].dhr = KeyPair(p, e) /\ session[q].dhr[2] = e /\ nr \in Nat /\ e \in Nat
        /\ nr = GetChain(session[q].recvChains, session[q].dhr).nr
    BY <1>3, <2>1 DEF AtEpoch
  <2>3. PICK w \in Taken(q) : w.hdr.pk = session[q].dhr /\ w.hdr.n = nr - 1
    BY <1>0, <1>3, <1>6, <2>2 DEF ForceInv, InForce, ChainInForce
  <2>4. /\ w \in network /\ w.from = p /\ w.hdr.n \in Nat
        /\ Index(w) = e /\ Index(w) <= Newest(p) /\ Newest(p) \in Nat
    BY <1>0, <1>3, <2>2, <2>3, MessageIndex, MessageFacts DEF Taken, Index
  <2>5. PICK h \in {Newest(p), Newest(p) + 1} : m.hdr.pk = KeyPair(p, h) /\ Index(m) = h
    <3>1. s.dhs = KeyPair(p, Newest(p)) /\ generated[p] = Newest(p) + 1
      BY <1>0, SessionFacts DEF Newest
    <3>2. m.hdr.pk = KeyPair(p, Newest(p)) \/ m.hdr.pk = KeyPair(p, Newest(p) + 1)
      BY <1>1, <1>4, <3>1 DEF SameChain, FreshChain
    <3> QED BY <3>2 DEF Index, KeyPair
  <2>6. ~(Index(m) < e)
    BY <2>2, <2>4, <2>5
  <2>7. m.hdr.pk = session[q].dhr => ~(m.hdr.n < nr)
    <3> SUFFICES ASSUME m.hdr.pk = session[q].dhr PROVE ~(m.hdr.n < nr)
      OBVIOUS
    <3>1. w.hdr.n < m.hdr.n
      BY <1>1, <1>4, <2>3, <2>4
    <3>2. m.hdr.n \in Int
      <4>1. t.ns \in Int
        BY <1>0, <1>1, SessionFacts DEF SameChain, FreshChain
      <4> QED BY <1>4, <4>1
    <3> QED BY <2>2, <2>3, <2>4, <3>1, <3>2
  <2> QED BY <2>2, <2>6, <2>7 DEF Passed
<1>7. KeepsKeys(q)'
  BY <1>1, <1>2, <1>3, <1>6, KeepsKept
<1> QED
  BY <1>3, <1>5, <1>7

(* Accepting a message within the window, for the first time.              *)
LEMMA DecryptAcceptsKeeps ==
  ASSUME WindowBase, NEW p \in Party, DecryptAccepts(p), \A x \in Party : KeepsKeys(x),
         Window, NoReplays'
  PROVE  \A x \in Party : KeepsKeys(x)'
<1> DEFINE q == Peer(p)
           s == session[p]
<1>t. PICK t : t = session'[p]
  OBVIOUS
<1>0. IInv /\ TypeInv /\ KeyInv /\ OrderInv
  BY DEF ForceBase, WindowBase
<1>1. PICK m \in network :
        /\ m.from = q /\ session'[q] = session[q] /\ UNCHANGED network
        /\ accepted' = [accepted EXCEPT ![p] = @ \cup {m.box.text}]
        /\ replayed' = [replayed EXCEPT ![p] = @ \cup ({m.box.text} \cap accepted[p])]
        /\ Receives(s, t, m)
  BY <1>t, <1>0, AcceptStep
<1>2. Party = {p, q} /\ q \in Party /\ q # p
  BY PeerFacts
<1>3. accepted'[p] = accepted[p] \cup {m.box.text} /\ accepted'[q] = accepted[q]
  BY <1>0, <1>1, <1>2 DEF TypeInv
<1>4. m \in Outstanding(p)
  <2>1. replayed'[p] = replayed[p] \cup ({m.box.text} \cap accepted[p])
    BY <1>0, <1>1 DEF TypeInv
  <2>2. m.box.text \notin accepted[p]
    BY <2>1 DEF NoReplays
  <2> QED BY <1>1, <2>2 DEF Outstanding
<1>5. Outstanding(p)' = Outstanding(p) \ {m}
  <2>1. \A x \in network : x.from = q /\ x.box.text = m.box.text => x = m
    BY <1>0, <1>1 DEF OrderInv, SentInOrder
  <2> QED BY <1>1, <1>3, <2>1 DEF Outstanding
<1>6. KeptAfter(t, p, m)
  BY <1>1, <1>4, AcceptKeeps DEF Window
<1>7. KeepsKeys(p)'
  <2>1. NamesPassed(session[p], Outstanding(p))' = NamesPassed(t, Outstanding(p) \ {m})
    <3>1. PICK O : O = Outstanding(p)'
      OBVIOUS
    <3>2. NamesPassed(session[p], Outstanding(p))' = NamesPassed(t, O)
      BY <1>t, <3>1 DEF NamesPassed, Passed, Index, Name
    <3> QED BY <1>5, <3>1, <3>2
  <2> QED BY <1>t, <1>6, <2>1 DEF KeepsKeys, KeptAfter
<1>8. KeepsKeys(q)'
  BY <1>1, <1>2, <1>3, KeepsKept
<1> QED
  BY <1>2, <1>7, <1>8

(* With the window kept and no replay, every step keeps the keys of what   *)
(* was jumped over.                                                        *)
LEMMA StepKeepsKeys ==
  ASSUME WindowBase, Window, NoReplays => \A p \in Party : KeepsKeys(p),
         [Next]_vars, NoReplays'
  PROVE  \A x \in Party : KeepsKeys(x)'
<1> SUFFICES ASSUME NEW x \in Party PROVE KeepsKeys(x)'
  OBVIOUS
<1>0. IInv /\ TypeInv /\ KeyInv
  BY DEF WindowBase, ForceBase
<1>1. \A p \in Party : replayed[p] \subseteq replayed'[p]
  <2>1. CASE UNCHANGED replayed
    BY <2>1
  <2>2. ASSUME NEW p \in Party, DecryptAccepts(p) PROVE \A y \in Party : replayed[y] \subseteq replayed'[y]
    BY <1>0, <2>2, AcceptStep DEF TypeInv
  <2> QED BY <2>1, <2>2 DEF Next, vars, Encrypt, EncryptFails, DecryptRejects
<1>2. \A p \in Party : KeepsKeys(p)
  BY <1>1 DEF NoReplays
<1>3. ASSUME UNCHANGED vars PROVE KeepsKeys(x)'
  BY <1>2, <1>3, KeepsKept DEF vars
<1>4. ASSUME NEW p \in Party, DecryptRejects(p)
      PROVE  KeepsKeys(x)'
  BY <1>0, <1>3, <1>4, DecryptRejectsUnchanged
<1>5. ASSUME NEW p \in Party, EncryptFails(p)
      PROVE  KeepsKeys(x)'
  <2>1. /\ session'[Peer(p)] = session[Peer(p)] /\ UNCHANGED <<network, accepted>>
        /\ EpochSame(session[p], session'[p])
        /\ session'[p].recvChains = session[p].recvChains
        /\ session'[p].mkSkipped = session[p].mkSkipped
        /\ Party = {p, Peer(p)}
    BY <1>0, <1>5, EncryptFailsStep, PeerFacts
  <2> QED BY <1>2, <2>1, KeepsKept DEF EpochSame
<1> QED
  BY <1>2, <1>3, <1>4, <1>5, EncryptKeeps, DecryptAcceptsKeeps DEF Next

(* Every step of the application keeps WindowInv.                          *)
LEMMA StepWindowInv == WindowBase /\ WindowInv /\ [MCNext]_<<vars, windowed>> => WindowInv'
<1> SUFFICES ASSUME WindowBase, WindowInv, [MCNext]_<<vars, windowed>> PROVE WindowInv'
  OBVIOUS
<1>1. windowed' => windowed /\ Window'
  <2>1. CASE UNCHANGED <<vars, windowed>>
    BY <2>1 DEF vars, Window, Outstanding, WindowInv
  <2>2. CASE MCNext
    BY <2>2 DEF MCNext
  <2> QED BY <2>1, <2>2
<1>2. [Next]_vars
  BY DEF MCNext
<1>3. windowed' /\ NoReplays' => \A x \in Party : KeepsKeys(x)'
  BY <1>1, <1>2, StepKeepsKeys DEF WindowInv
<1> QED
  BY <1>1, <1>3 DEF WindowInv

-----------------------------------------------------------------------------
(* With the window kept, what is outstanding is decryptable: a passed      *)
(* message has its key in the store, and the gap before any other consists *)
(* of outstanding messages.                                                *)
LEMMA WindowSuffices ==
  ASSUME WindowBase, NEW p \in Party, KeepsKeys(p),
         Cardinality(Outstanding(p)) <= MaxSkip + 1, NEW m \in Outstanding(p)
  PROVE  Accepts(p, m)
<1> DEFINE s == session[p]
           q == Peer(p)
           O == Outstanding(p)
<1>1. /\ ForceBase /\ ForceInv /\ GaplessInv /\ IsFiniteSet(network)
      /\ IInv /\ TypeInv /\ KeyInv /\ TurnInv
      /\ m \in network /\ m.from = q /\ m.hdr.n \in Nat /\ m.hdr.pn \in Nat
      /\ Index(m) \in Nat /\ m.hdr.pk = KeyPair(q, Index(m)) /\ RingOK(s.recvChains)
  BY OutstandingFacts, RingsOK DEF WindowBase, ForceBase
<1>2. IsFiniteSet(O) /\ Cardinality(O) \in Nat /\ MaxSkip \in Nat
  BY <1>1, MaxSkipAssumption, FS_Subset, FS_CardinalityType DEF Outstanding
<1>3. ASSUME NEW lo \in Nat, \A y \in network : y.hdr.pk = m.hdr.pk /\ ~(y.hdr.n < lo) => y \in O
      PROVE  m.hdr.n - lo <= MaxSkip
  <2>1. \A k \in lo .. m.hdr.n : \E y \in O : y.hdr.n = k
    <3> SUFFICES ASSUME NEW k \in lo .. m.hdr.n PROVE \E y \in O : y.hdr.n = k
      OBVIOUS
    <3>1. k = m.hdr.n \/ k \in 0 .. m.hdr.n - 1
      BY <1>1
    <3>2. PICK y \in network : y.hdr.pk = m.hdr.pk /\ y.hdr.n = k
      BY <1>1, <3>1 DEF GaplessInv
    <3>3. ~(y.hdr.n < lo)
      BY <3>2
    <3> QED BY <1>3, <3>2, <3>3
  <2>2. m.hdr.n \in Int /\ lo \in Int /\ IsFiniteSet(O)
    BY <1>1, <1>2
  <2> HIDE DEF O
  <2>3. m.hdr.n - lo + 1 <= Cardinality(O)
    BY <2>1, <2>2, RunBound
  <2> QED BY <1>1, <1>2, <2>3 DEF O
<1>4. ASSUME ~HasChain(s.recvChains, m.hdr.pk), ~IsCurrentChain(s, m.hdr),
             HasPrevChain(s) => ~TooManySkipped(PrevNr(s), m.hdr.pn),
             ~s.dhRatchetPerformed, Index(m) = Newest(p) + Lag(q),
             \A y \in network : y.hdr.pk = m.hdr.pk => y \in O
      PROVE  Accepts(p, m)
  <2>1. m.hdr.n <= MaxSkip
    <3>1. m.hdr.n - 0 <= MaxSkip
      BY <1>3, <1>4
    <3> QED BY <1>1, <3>1
  <2>2. IsNewEpoch(s, m.hdr)
    BY <1>4 DEF IsNewEpoch
  <2> QED BY <1>1, <1>4, <2>1, <2>2, NextEpochRoot, AcceptsNew
<1>5. CASE accepted[p] = {}
  <2>1. /\ Held(s.recvChains) = {} /\ ~s.dhRatchetPerformed /\ Newest(p) = 0
        /\ Lag(p) \in {0, 1} /\ Lag(q) \in {0, 1} /\ Lag(p) + Lag(q) = 1 /\ Turn(p)
    BY <1>1, <1>5, LagFacts DEF ForceInv, InForce, Fresh, TurnInv
  <2>2. \A pk : ~HasChain(s.recvChains, pk)
    BY <1>1, <2>1, HeldFacts
  <2>3. Index(m) = Newest(p) + Lag(q)
    <3>1. Lag(q) <= Index(m) /\ Index(m) <= Newest(p) + Lag(q)
      BY <1>1, IndexBounds
    <3> QED BY <1>1, <2>1, <3>1
  <2>4. ~IsCurrentChain(s, m.hdr)
    <3> SUFFICES ASSUME s.dhRSet, s.dhr = m.hdr.pk PROVE FALSE
      BY DEF IsCurrentChain
    <3>1. ~(0 < Lag(p)) /\ s.dhr = KeyPair(q, 0 - Lag(p))
      BY <2>1 DEF Turn
    <3>2. 0 - Lag(p) = Index(m)
      <4>1. \A a, b : KeyPair(q, a) = KeyPair(q, b) => a = b
        BY DEF KeyPair
      <4> QED BY <1>1, <3>1, <4>1
    <3> QED BY <2>1, <2>3, <3>1, <3>2
  <2>5. \A y \in network : y.hdr.pk = m.hdr.pk => y \in O
    <3>1. ASSUME NEW y \in network, y.hdr.pk = m.hdr.pk PROVE y.from = q
      BY <1>1, <3>1, MessageIndex DEF KeyPair
    <3> QED BY <1>5, <3>1 DEF Outstanding
  <2>6. ~HasPrevChain(s)
    BY <2>2 DEF HasPrevChain
  <2> QED BY <1>4, <2>1, <2>2, <2>3, <2>4, <2>5, <2>6
<1>6. CASE accepted[p] # {}
  <2>1. PICK e, nr : AtEpoch(p, e, nr)
    BY <1>1, <1>6, EpochReached
  <2>2. /\ e \in Nat /\ s.dhr = KeyPair(q, e) /\ s.dhr[2] = e /\ nr \in Nat
        /\ s.dhRSet /\ HasChain(s.recvChains, s.dhr)
        /\ nr = GetChain(s.recvChains, s.dhr).nr
        /\ \A h \in Held(s.recvChains) : h.pk[2] <= e
    BY <2>1 DEF AtEpoch
  <2>3. CASE Passed(s, m)
    <3>1. Name(m) \in DOMAIN s.mkSkipped.entries
      BY <1>6, <2>3 DEF KeepsKeys, NamesPassed
    <3> QED BY <1>1, <3>1, AcceptsSkipped DEF HasKey, Name
  <2>4. CASE ~Passed(s, m) /\ Index(m) = e
    <3>1. m.hdr.pk = s.dhr /\ ~(m.hdr.n < nr)
      BY <1>1, <2>2, <2>4 DEF Passed
    <3>2. \A y \in network : y.hdr.pk = m.hdr.pk /\ ~(y.hdr.n < nr) => y \in O
      <4>1. ASSUME NEW y \in network, y.hdr.pk = m.hdr.pk PROVE y.from = q
        BY <1>1, <4>1, MessageIndex DEF KeyPair
      <4> QED BY <2>1, <3>1, <4>1 DEF AtEpoch
    <3>3. m.hdr.n - nr <= MaxSkip
      BY <1>3, <2>2, <3>2
    <3>4. ~TooManySkipped(nr, m.hdr.n) /\ m.hdr.n >= nr
      BY <1>1, <1>2, <2>2, <3>1, <3>3 DEF TooManySkipped
    <3> QED BY <1>1, <2>2, <3>1, <3>4, AcceptsHeld
  <2>5. CASE ~Passed(s, m) /\ Index(m) # e
    <3>1. Index(m) = e + 1
      BY <1>1, <2>1, <2>2, <2>5 DEF AtEpoch, Passed
    <3>2. ~s.dhRatchetPerformed /\ Index(m) = Newest(p) + Lag(q)
      BY <1>1, <2>1, <3>1 DEF AtEpoch
    <3>3. ~HasChain(s.recvChains, m.hdr.pk) /\ ~IsCurrentChain(s, m.hdr)
      <4>1. m.hdr.pk[2] = e + 1
        BY <3>1 DEF Index
      <4>2. \A h \in Held(s.recvChains) : h.pk # m.hdr.pk
        BY <2>2, <4>1
      <4> QED BY <1>1, <2>2, <4>1, <4>2, HeldFacts DEF IsCurrentChain
    <3>4. \A y \in network : y.hdr.pk = m.hdr.pk => y \in O
      <4>1. ASSUME NEW y \in network, y.hdr.pk = m.hdr.pk PROVE y.from = q /\ Index(y) = e + 1
        BY <1>1, <3>1, <4>1, MessageIndex DEF KeyPair, Index
      <4> QED BY <2>1, <4>1 DEF AtEpoch
    <3>5. ~TooManySkipped(PrevNr(s), m.hdr.pn)
      <4>1. PrevNr(s) = nr
        BY <2>2 DEF PrevNr, HasPrevChain
      <4>2. Numbered(s.dhr, m.hdr.pn)
        <5>1. Index(m) > 0 /\ Index(m) - 1 = e
          BY <2>2, <3>1
        <5> QED BY <1>1, <2>2, <5>1 DEF GaplessInv
      <4>3. \A k \in nr .. m.hdr.pn - 1 : \E y \in O \ {m} : y.hdr.n = k
        <5> SUFFICES ASSUME NEW k \in nr .. m.hdr.pn - 1 PROVE \E y \in O \ {m} : y.hdr.n = k
          OBVIOUS
        <5>1. k \in 0 .. m.hdr.pn - 1 /\ ~(k < nr)
          BY <1>1, <2>2
        <5>2. PICK y \in network : y.hdr.pk = s.dhr /\ y.hdr.n = k
          BY <4>2, <5>1 DEF Numbered
        <5>3. y.from = q
          BY <1>1, <2>2, <5>2, MessageIndex DEF KeyPair
        <5>4. y # m
          BY <2>2, <3>1, <5>2 DEF Index
        <5> QED BY <2>1, <5>1, <5>2, <5>3, <5>4 DEF AtEpoch
      <4> HIDE DEF O
      <4>4. IsFiniteSet(O \ {m}) /\ Cardinality(O \ {m}) = Cardinality(O) - 1
        BY <1>2, FS_RemoveElement DEF O
      <4>5. (m.hdr.pn - 1) - nr + 1 <= Cardinality(O \ {m})
        <5>1. m.hdr.pn - 1 \in Int /\ nr \in Int
          BY <1>1, <2>2
        <5> QED BY <4>3, <4>4, <5>1, RunBound
      <4>6. m.hdr.pn - nr <= MaxSkip
        BY <1>1, <1>2, <2>2, <4>4, <4>5 DEF O
      <4> QED BY <1>1, <1>2, <2>2, <4>1, <4>6 DEF TooManySkipped
    <3> QED BY <1>4, <3>2, <3>3, <3>4, <3>5
  <2> QED BY <2>3, <2>4, <2>5
<1> QED
  BY <1>5, <1>6

(* What WindowInv rests on holds in every reachable state.                 *)
LEMMA SpecWindowBase == Spec => []WindowBase
<1>1. Spec => []CountInv
  BY InitCountInv, StepCountInv, SpecIInv, SpecTypeInv, SpecKeyInv, PTL DEF Spec
<1>2. ForceBase /\ ForceInv /\ GaplessInv /\ CountInv => WindowBase
  BY DEF WindowBase, CountInv
<1> QED
  BY <1>1, <1>2, SpecForceInv, SpecGaplessInv, PTL

(* No message is lost as long as no more are in flight than a chain may    *)
(* jump over and no superseded chain has accepted a replay: what was sent  *)
(* and not yet accepted would be accepted now, however late it comes.      *)
THEOREM WindowKeepsMessages == MCSpec => []OutstandingDecryptableInWindow
<1>1. MCSpec => Spec
  <2>1. MCInit => Init
    BY DEF MCInit
  <2>2. [MCNext]_<<vars, windowed>> => [Next]_vars
    BY DEF MCNext
  <2> QED BY <2>1, <2>2, PTL DEF MCSpec, Spec
<1>2. MCInit => WindowInv
  <2> SUFFICES ASSUME MCInit PROVE WindowInv
    OBVIOUS
  <2>1. \A p \in Party : accepted[p] = {} /\ Outstanding(p) = {}
    BY DEF MCInit, Init, Outstanding
  <2>2. Cardinality({}) <= MaxSkip + 1
    BY FS_EmptySet, MaxSkipAssumption
  <2> QED BY <2>1, <2>2 DEF WindowInv, Window, KeepsKeys
<1>3. WindowBase /\ WindowInv => OutstandingDecryptableInWindow
  BY WindowSuffices DEF WindowInv, Window, NoReplays, OutstandingDecryptableInWindow,
                        OutstandingDecryptable
<1> QED
  BY <1>1, <1>2, <1>3, SpecWindowBase, StepWindowInv, PTL DEF MCSpec

(* A conversation in which nobody sends more than MaxSkip + 1 messages     *)
(* never has more of them in flight.                                       *)
LEMMA FewSentInWindow ==
  ASSUME IInv, TypeInv, OrderInv, MaxSends <= MaxSkip + 1
  PROVE  Window
<1> SUFFICES ASSUME NEW p \in Party
             PROVE  Cardinality(Outstanding(p)) <= MaxSkip + 1
  BY DEF Window
<1> DEFINE q == Peer(p)
           f == [m \in Outstanding(p) |-> m.box.text]
<1>1. q \in Party /\ sent[q] \in Nat /\ sent[q] <= MaxSends
  BY PeerFacts, BoundAssumption DEF TypeInv
<1>2. \A m, x \in Outstanding(p) :
        /\ m.box.text \in 0 .. sent[q] - 1
        /\ m.box.text = x.box.text => m = x
  BY DEF OrderInv, SentInOrder, Outstanding
<1>3. f \in [Outstanding(p) -> 0 .. sent[q] - 1]
  BY <1>2
<1>4. f \in Injection(Outstanding(p), 0 .. sent[q] - 1)
  BY <1>2, <1>3 DEF Injection, IsInjective
<1>5. IsFiniteSet(0 .. sent[q] - 1) /\ Cardinality(0 .. sent[q] - 1) = sent[q]
  <2>1. PICK n \in Nat : n = sent[q]
    BY <1>1
  <2>2. n - 1 \in Int /\ 0 \in Int
    OBVIOUS
  <2>3. IsFiniteSet(0 .. n - 1) /\ Cardinality(0 .. n - 1) = IF 0 > n - 1 THEN 0 ELSE n - 1 - 0 + 1
    BY <2>2, FS_Interval
  <2> QED BY <2>1, <2>3
<1> HIDE DEF f
<1>6. Cardinality(Outstanding(p)) <= Cardinality(0 .. sent[q] - 1)
  BY <1>4, <1>5, FS_Injection
<1>7. Cardinality(Outstanding(p)) \in Nat
  BY <1>4, <1>5, FS_Injection, FS_CardinalityType
<1> QED
  BY <1>1, <1>5, <1>6, <1>7, MaxSkipAssumption, BoundAssumption

(* In a conversation in which nobody sends more than MaxSkip + 1 messages, *)
(* every message sent and not yet accepted would be accepted now, in every *)
(* reachable state before the first replay that a superseded chain takes.  *)
THEOREM ShortConversationsKeepMessages ==
  ASSUME MaxSends <= MaxSkip + 1
  PROVE  Spec => [](NoReplays => OutstandingDecryptable)
<1> DEFINE Kept == NoReplays => \A p \in Party : KeepsKeys(p)
<1>1. WindowBase => Window
  BY FewSentInWindow DEF WindowBase, ForceBase
<1>2. Init => Kept
  BY DEF Init, KeepsKeys
<1>3. WindowBase /\ Kept /\ [Next]_vars => Kept'
  BY <1>1, StepKeepsKeys
<1>4. WindowBase /\ Kept => (NoReplays => OutstandingDecryptable)
  BY <1>1, WindowSuffices DEF Window, OutstandingDecryptable
<1> QED
  BY <1>2, <1>3, <1>4, SpecWindowBase, PTL DEF Spec
=============================================================================
