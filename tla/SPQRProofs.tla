--------------------------- MODULE SPQRProofs ------------------------------
(***************************************************************************)
(* Theorems about the pair of SPQR sessions, for every bound and every     *)
(* value of the other constants. The first part says what the operations   *)
(* of one session do to it, for every session value, provider state and    *)
(* message: a session value says in which epochs it has chains, at which   *)
(* numbers they are and which keys it has skipped; the lemmas say what     *)
(* each operation takes from that and what it keeps. The second part is    *)
(* about two sessions: they are in the same epoch or one apart, and either *)
(* may be ahead; the invariant says what each may rely on of the other.    *)
(***************************************************************************)
EXTENDS SPQRProperties, TLAPS

(* The fields of SPQRSession (src/session_spqr.go) the model keeps.        *)
SPQRFields == {"rk", "epoch", "direction", "kdfChains", "mkSkipped", "scka"}

(* A session value has exactly the fields of the struct.                   *)
SPQRShape(q) == q = [f \in SPQRFields |-> q[f]]

(* The symmetric chain of a root in a direction, at its k-th step, and the *)
(* message key it gives there.                                             *)
ChainOf(root, dir, k) == [ck |-> [root |-> root, dir |-> dir, step |-> k], n |-> k]

KeyOf(root, dir, k) == [ck |-> [root |-> root, dir |-> dir, step |-> k], ctr |-> k]

(* The root that a session derived the chains of an epoch from, and the    *)
(* numbers it receives at and sends at next.                               *)
RootIn(s, e) == s.kdfChains[e].receive.ck.root

ReceivedIn(s, e) == s.kdfChains[e].receive.n

SentIn(s, e) == s.kdfChains[e].send.n

(* What the contract of the provider makes of its state: the peer is known *)
(* to have reached this epoch or the one before, and the party that offers *)
(* for an epoch begins it only when the peer is known to have answered.    *)
ProviderOK(st) ==
  /\ st = [odd |-> st.odd, epoch |-> st.epoch, peer |-> st.peer, offered |-> st.offered]
  /\ st.odd \in BOOLEAN /\ st.epoch \in Nat /\ st.peer \in Nat
  /\ st.peer <= st.epoch /\ st.epoch <= st.peer + 1
  /\ Offers(st, st.epoch) => st.peer = st.epoch

(* One call of the provider: it begins the next epoch and hands out its    *)
(* key, or hands out none.                                                 *)
ProviderMoved(st, new, keyEpoch) ==
  /\ ProviderOK(new) /\ new.odd = st.odd /\ new.peer >= st.peer
  /\ \/ keyEpoch = NoEpoch /\ new.epoch = st.epoch
     \/ keyEpoch = st.epoch + 1 /\ new.epoch = st.epoch + 1

(* The two chains of an epoch have one root; the send chain is there from  *)
(* the epoch in which the provider sends, and has not gone further than    *)
(* the session has encrypted.                                              *)
EpochOK(s, e, past) ==
  LET c == s.kdfChains[e]
  IN  /\ DOMAIN c = {"send", "receive"} /\ ReceivedIn(s, e) \in Nat
      /\ c.receive = ChainOf(RootIn(s, e), Opposite(s.direction), ReceivedIn(s, e))
      /\ e >= s.scka.peer =>
           \E k \in 0 .. past : c.send = ChainOf(RootIn(s, e), s.direction, k)

(* A skipped key is the key of its own epoch and number, below the number  *)
(* the chain of the epoch is at.                                           *)
SkippedOK(s, id) ==
  \E e \in DOMAIN s.kdfChains, k \in Nat :
    /\ id = <<e, k>> /\ k < ReceivedIn(s, e)
    /\ s.mkSkipped[id] = KeyOf(RootIn(s, e), Opposite(s.direction), k)

(* The three newest epochs have chains, and the root key is the root of    *)
(* the newest, derived from the one before.                                *)
ChainsOK(s, past) ==
  /\ \A e \in DOMAIN s.kdfChains : e \in 0 .. s.epoch /\ EpochOK(s, e, past)
  /\ \A e \in 0 .. s.epoch : e >= s.epoch - 2 => e \in DOMAIN s.kdfChains
  /\ \A id \in DOMAIN s.mkSkipped : SkippedOK(s, id)
  /\ s.rk = RootIn(s, s.epoch)
  /\ s.epoch > 0 => s.rk = DeriveRoot(RootIn(s, s.epoch - 1), OutputKey(s.epoch))

(* A session after sent Encrypts, and after any arrivals that its peer's   *)
(* epoch bounds.                                                           *)
SessionOK(s, past) ==
  /\ SPQRShape(s) /\ ProviderOK(s.scka) /\ s.epoch = s.scka.epoch
  /\ ChainsOK(s, past)

-----------------------------------------------------------------------------
(* From s to t: no epoch, or the next one, has begun; old epochs may have  *)
(* been cleared; no root has changed.                                      *)
EpochsMoved(s, t) ==
  /\ t.direction = s.direction /\ t.scka.odd = s.scka.odd
  /\ \/ t.epoch = s.epoch /\ DOMAIN t.kdfChains \subseteq DOMAIN s.kdfChains
     \/ /\ t.epoch = s.epoch + 1 /\ DOMAIN t.kdfChains \subseteq DOMAIN s.kdfChains \cup {t.epoch}
        /\ RootIn(t, t.epoch) = DeriveRoot(RootIn(s, s.epoch), OutputKey(t.epoch))
  /\ \A e \in DOMAIN s.kdfChains \cap DOMAIN t.kdfChains : RootIn(t, e) = RootIn(s, e)

(* The key of number n of the epoch can still be had: skipped and stored,  *)
(* or not reached yet.                                                     *)
Available(s, e, n) ==
  e \in DOMAIN s.kdfChains /\ (<<e, n>> \in DOMAIN s.mkSkipped \/ n >= ReceivedIn(s, e))

(* From s to t the same keys are available, of the epochs not cleared; or  *)
(* all of those but one, the key <<e, n>>.                                 *)
AvailableKept(s, t) ==
  \A e \in DOMAIN t.kdfChains, n \in Nat :
    Available(t, e, n) <=> (e \in DOMAIN s.kdfChains => Available(s, e, n))

TookOne(s, t, e, n) ==
  \A x \in DOMAIN t.kdfChains, k \in Nat :
    Available(t, x, k) <=>
      (x \in DOMAIN s.kdfChains => Available(s, x, k)) /\ <<x, k>> # <<e, n>>

(* Receiving on a chain leaves epochs, roots and send chains alone.        *)
SameEpochs(s, t) ==
  /\ SPQRShape(t) /\ t.scka = s.scka /\ t.epoch = s.epoch
  /\ t.direction = s.direction /\ t.rk = s.rk
  /\ DOMAIN t.kdfChains = DOMAIN s.kdfChains
  /\ \A x \in DOMAIN s.kdfChains : RootIn(t, x) = RootIn(s, x) /\ SentIn(t, x) = SentIn(s, x)

(* What a party sends next does not move while its peer stays where it is. *)
SendingKept(s, t) ==
  /\ t.scka.peer >= s.scka.peer
  /\ t.scka.peer = s.scka.peer => SentIn(t, t.scka.peer) = SentIn(s, s.scka.peer)

(* The value of EpochStep at the begin of an epoch: the chains and skipped *)
(* keys from inEpoch - 1 on, and the new pair of chains.                   *)
EpochStepped(s, t, new, keyEpoch, inEpoch) ==
  LET root == DeriveRoot(s.rk, OutputKey(keyEpoch))
  IN  /\ SPQRShape(t) /\ t.scka = new /\ t.direction = s.direction
      /\ t.epoch = keyEpoch /\ t.rk = root
      /\ DOMAIN t.kdfChains = {e \in DOMAIN s.kdfChains \cup {keyEpoch} : e >= inEpoch - 1}
      /\ \A e \in DOMAIN t.kdfChains :
           t.kdfChains[e] = IF e = keyEpoch THEN ChainPair(root, s.direction) ELSE s.kdfChains[e]
      /\ DOMAIN t.mkSkipped = {id \in DOMAIN s.mkSkipped : id[1] >= inEpoch - 1}
      /\ \A id \in DOMAIN t.mkSkipped : t.mkSkipped[id] = s.mkSkipped[id]

(* What ReceiveKey makes of a session and a header: whatever it answers,   *)
(* the session stays a session and nothing available is lost; the key it   *)
(* answers with was available and is not any more; and it answers with a   *)
(* key whenever one was available within MaxSkip.                          *)
Received(s, past, hdr, out) ==
  LET t == out.s
      e == hdr.msg.epoch
      n == hdr.n
  IN  /\ SessionOK(t, past) /\ EpochsMoved(s, t) /\ SendingKept(s, t)
      /\ t.scka.peer \in {s.scka.peer, e, hdr.msg.answer}
      /\ out.err # "ErrAuthFailure"
      /\ out.err # "ok" => AvailableKept(s, t)
      /\ out.err = "ok" =>
           /\ out.key = KeyOf(RootIn(s, e), Opposite(s.direction), n)
           /\ Available(s, e, n) /\ TookOne(s, t, e, n)
      /\ Available(s, e, n) /\ n <= MaxSkip => out.err = "ok"

(* The same of Decrypt, where the key must also open the box, and which    *)
(* rolls an authentication failure back.                                   *)
Decrypted(s, past, hdr, ad, box, out) ==
  LET t   == out.s
      e   == hdr.msg.epoch
      n   == hdr.n
      key == KeyOf(RootIn(s, e), Opposite(s.direction), n)
  IN  /\ SessionOK(t, past) /\ EpochsMoved(s, t) /\ SendingKept(s, t)
      /\ t.scka.peer \in {s.scka.peer, e, hdr.msg.answer}
      /\ out.err = "ErrAuthFailure" => t = s
      /\ out.err # "ok" => AvailableKept(s, t)
      /\ out.err = "ok" => Opens(key, ad, box) /\ Available(s, e, n) /\ TookOne(s, t, e, n)
      /\ Available(s, e, n) /\ n <= MaxSkip /\ Opens(key, ad, box) => out.err = "ok"

-----------------------------------------------------------------------------
(* The two parties take turns in offering.                                 *)
LEMMA OffersAlternate ==
  ASSUME NEW st, st.odd \in BOOLEAN, NEW e \in Nat
  PROVE  Offers(st, e + 1) <=> ~Offers(st, e)
<1>1. (e + 1) % 2 = 1 - (e % 2) /\ e % 2 \in {0, 1}
  OBVIOUS
<1> QED
  BY <1>1 DEF Offers

(* Send() of the provider: the epoch it sends in is the one the peer is    *)
(* known to have reached, and what it answers is within the contract.      *)
LEMMA ProviderSends ==
  ASSUME NEW st, ProviderOK(st)
  PROVE  LET sp == ProviderSend(st)
         IN  /\ ProviderMoved(st, sp.st, sp.keyEpoch) /\ sp.st.peer = st.peer
             /\ sp.sendingEpoch = st.peer /\ sp.msg.epoch = st.peer
             /\ sp.msg.answer \in Nat /\ sp.msg.answer <= sp.st.epoch
             /\ sp.msg = [epoch |-> sp.msg.epoch, offer |-> sp.msg.offer, answer |-> sp.msg.answer]
<1> DEFINE next    == st.epoch + 1
           answers == st.offered = next /\ ~Offers(st, next)
           epoch   == IF answers THEN next ELSE st.epoch
           new     == [st EXCEPT !.epoch = epoch]
           sp      == ProviderSend(st)
<1>1. /\ sp.st = new /\ sp.sendingEpoch = st.peer /\ sp.keyEpoch = IF answers THEN next ELSE NoEpoch
      /\ sp.msg.epoch = st.peer /\ sp.msg.answer = IF Offers(st, epoch) THEN NoEpoch ELSE epoch
      /\ sp.msg = [epoch |-> sp.msg.epoch, offer |-> sp.msg.offer, answer |-> sp.msg.answer]
  BY DEF ProviderSend
<1>2. /\ new.odd = st.odd /\ new.epoch = epoch /\ new.peer = st.peer /\ new.offered = st.offered
      /\ new = [odd |-> new.odd, epoch |-> new.epoch, peer |-> new.peer, offered |-> new.offered]
  BY DEF ProviderOK
<1>3. epoch \in Nat /\ next \in Nat
  BY DEF ProviderOK
<1>4. answers => st.peer = st.epoch
  BY OffersAlternate DEF ProviderOK
<1>5. Offers(new, epoch) => st.peer = epoch
  <2>1. Offers(new, epoch) <=> Offers(st, epoch)
    BY <1>2 DEF Offers
  <2> QED
    BY <2>1 DEF ProviderOK
<1>6. ProviderOK(new)
  BY <1>2, <1>3, <1>4, <1>5 DEF ProviderOK
<1> HIDE DEF new, epoch, next, sp
<1>7. sp.msg.answer \in Nat /\ sp.msg.answer <= epoch
  BY <1>1, <1>3 DEF NoEpoch
<1> QED
  BY <1>1, <1>2, <1>3, <1>6, <1>7 DEF ProviderMoved, ProviderOK, epoch, next, sp

(* Receive() of the provider, for a message of an epoch it knows.          *)
LEMMA ProviderReceives ==
  ASSUME NEW st, ProviderOK(st), NEW msg, msg.epoch \in Nat, msg.answer \in Nat,
         msg.epoch <= st.epoch
  PROVE  LET rp == ProviderReceive(st, msg)
         IN  /\ ProviderMoved(st, rp.st, rp.keyEpoch) /\ rp.receivingEpoch = msg.epoch
             /\ rp.st.peer \in {st.peer, msg.epoch, msg.answer}
<1> DEFINE answered == msg.answer = st.epoch + 1
           epoch    == IF answered THEN msg.answer ELSE st.epoch
           peer     == LaterOf(st.peer, IF answered THEN epoch ELSE msg.epoch)
           offered  == LaterOf(st.offered, EarlierOf(msg.offer, epoch + 1))
           new      == [st EXCEPT !.epoch = epoch, !.peer = peer,
                                  !.offered = offered]
           rp       == ProviderReceive(st, msg)
<1>1. /\ rp.st = new /\ rp.receivingEpoch = msg.epoch
      /\ rp.keyEpoch = IF answered THEN epoch ELSE NoEpoch
  BY DEF ProviderReceive, ProviderOK
<1> HIDE DEF offered
<1>2. /\ new.odd = st.odd /\ new.epoch = epoch /\ new.peer = peer
      /\ new = [odd |-> new.odd, epoch |-> new.epoch, peer |-> new.peer, offered |-> new.offered]
  <2>1. DOMAIN st = {"odd", "epoch", "peer", "offered"}
    BY DEF ProviderOK
  <2> HIDE DEF peer, epoch
  <2>2. DOMAIN new = {"odd", "epoch", "peer", "offered"} /\ new = [f \in DOMAIN new |-> new[f]]
    BY <2>1
  <2>3. new.odd = st.odd /\ new.epoch = epoch /\ new.peer = peer
    BY <2>1
  <2> HIDE DEF new
  <2> QED
    BY <2>2, <2>3
<1>3. epoch \in Nat /\ peer \in {st.peer, msg.epoch, msg.answer} /\ peer >= st.peer /\ peer <= epoch
      /\ peer \in Nat /\ (answered => peer = epoch)
  BY DEF ProviderOK, LaterOf
<1>4. ASSUME Offers(new, epoch) PROVE peer = epoch
  <2>1. Offers(st, epoch)
    BY <1>2, <1>4 DEF Offers
  <2> QED
    BY <1>3, <2>1 DEF ProviderOK
<1>5. ProviderOK(new)
  <2>1. epoch <= peer + 1
    BY <1>3 DEF ProviderOK
  <2> QED
    BY <1>2, <1>3, <1>4, <2>1 DEF ProviderOK
<1> HIDE DEF new, peer, rp
<1> QED
  BY <1>1, <1>2, <1>3, <1>5 DEF ProviderMoved, ProviderOK, rp

-----------------------------------------------------------------------------
(* Stepping a chain.                                                       *)
LEMMA ChainFacts ==
  ASSUME NEW root, NEW dir, NEW n \in Nat, NEW k \in Nat
  PROVE  /\ ChainAt(ChainOf(root, dir, n), k) = ChainOf(root, dir, n + k)
         /\ MessageKeyOf(ChainOf(root, dir, n)) = KeyOf(root, dir, n)
         /\ KDFChain(root, dir) = ChainOf(root, dir, 0)
         /\ ChainOf(root, dir, n).ck.root = root /\ ChainOf(root, dir, n).n = n
         /\ ChainOf(root, dir, n) # NoChainKey
<1>1. ChainOf(root, dir, n) # NoChainKey
  <2>1. DOMAIN ChainOf(root, dir, n) # DOMAIN NoChainKey
    BY DEF ChainOf, NoChainKey
  <2> QED
    BY <2>1
<1>2. ChainAt(ChainOf(root, dir, n), k) = ChainOf(root, dir, n + k)
  BY DEF ChainAt, ChainOf
<1> QED
  BY <1>1, <1>2 DEF ChainOf, KeyOf, MessageKeyOf, KDFChain

(* SessionOK, conjunct by conjunct.                                        *)
LEMMA SessionFacts ==
  ASSUME NEW s, NEW past, SessionOK(s, past)
  PROVE  /\ SPQRShape(s) /\ ProviderOK(s.scka) /\ s.epoch = s.scka.epoch
         /\ s.epoch \in Nat /\ s.scka.peer \in Nat
         /\ s.scka.peer <= s.epoch /\ s.epoch <= s.scka.peer + 1
         /\ \A e \in DOMAIN s.kdfChains : e \in 0 .. s.epoch /\ EpochOK(s, e, past)
         /\ \A e \in 0 .. s.epoch : e >= s.epoch - 2 => e \in DOMAIN s.kdfChains
         /\ \A id \in DOMAIN s.mkSkipped : SkippedOK(s, id)
         /\ s.rk = RootIn(s, s.epoch)
         /\ s.epoch > 0 => s.rk = DeriveRoot(RootIn(s, s.epoch - 1), OutputKey(s.epoch))
BY DEF SessionOK, ChainsOK, ProviderOK

(* A session that stays as it is.                                          *)
LEMMA Unmoved ==
  ASSUME NEW s, NEW past, SessionOK(s, past)
  PROVE  EpochsMoved(s, s) /\ SendingKept(s, s) /\ AvailableKept(s, s)
BY SessionFacts DEF EpochsMoved, SendingKept, AvailableKept

(* Starting an epoch and clearing old ones, field by field.                *)
LEMMA EpochStepValue ==
  ASSUME NEW s, SPQRShape(s), NEW new, NEW keyEpoch \in Nat \ {0}, NEW inEpoch \in Nat
  PROVE  EpochStepped(s, EpochStep([s EXCEPT !.scka = new], keyEpoch, inEpoch),
                      new, keyEpoch, inEpoch)
<1> DEFINE root == DeriveRoot(s.rk, OutputKey(keyEpoch))
           told == [s EXCEPT !.scka = new]
           next == AdvanceEpoch(told, keyEpoch)
           t    == ClearOldEpochs(next, inEpoch)
<1>1. /\ SPQRShape(told) /\ told.scka = new /\ told.direction = s.direction /\ told.rk = s.rk
      /\ told.kdfChains = s.kdfChains /\ told.mkSkipped = s.mkSkipped
  BY DEF SPQRShape, SPQRFields
<1> HIDE DEF told, root
<1>2. /\ SPQRShape(next) /\ next.scka = new /\ next.direction = s.direction
      /\ next.epoch = keyEpoch /\ next.rk = root /\ next.mkSkipped = s.mkSkipped
      /\ next.kdfChains = [e \in DOMAIN s.kdfChains \cup {keyEpoch} |->
                             IF e = keyEpoch THEN ChainPair(root, s.direction) ELSE s.kdfChains[e]]
  BY <1>1 DEF AdvanceEpoch, SPQRShape, SPQRFields, root
<1> HIDE DEF next
<1>3. /\ SPQRShape(t) /\ t.scka = new /\ t.direction = s.direction
      /\ t.epoch = keyEpoch /\ t.rk = root
      /\ t.kdfChains = [e \in {x \in DOMAIN next.kdfChains : x >= inEpoch - 1} |->
                          next.kdfChains[e]]
      /\ t.mkSkipped = [id \in {x \in DOMAIN next.mkSkipped : x[1] >= inEpoch - 1} |->
                          next.mkSkipped[id]]
  BY <1>2 DEF ClearOldEpochs, SPQRShape, SPQRFields
<1> HIDE DEF t
<1>4. EpochStep(told, keyEpoch, inEpoch) = t
  BY DEF EpochStep, NoEpoch, t, next
<1>5. EpochStep([s EXCEPT !.scka = new], keyEpoch, inEpoch) = t
  BY <1>4 DEF told
<1>6. /\ DOMAIN t.kdfChains = {e \in DOMAIN s.kdfChains \cup {keyEpoch} : e >= inEpoch - 1}
      /\ \A e \in DOMAIN t.kdfChains :
                  t.kdfChains[e] = IF e = keyEpoch THEN ChainPair(root, s.direction)
                                   ELSE s.kdfChains[e]
  BY <1>2, <1>3
<1>7. /\ DOMAIN t.mkSkipped = {id \in DOMAIN s.mkSkipped : id[1] >= inEpoch - 1}
      /\ \A id \in DOMAIN t.mkSkipped : t.mkSkipped[id] = s.mkSkipped[id]
  BY <1>2, <1>3
<1> QED
  BY <1>3, <1>5, <1>6, <1>7 DEF EpochStepped, root

(* A session follows its provider through any call, and nothing available  *)
(* in an epoch that it keeps is lost: of the epochs before the one in use, *)
(* it keeps the last.                                                      *)
LEMMA ProviderStep ==
  ASSUME NEW s, NEW past \in Nat, SessionOK(s, past), NEW new, NEW keyEpoch, NEW inEpoch \in Nat,
         inEpoch <= s.epoch, ProviderMoved(s.scka, new, keyEpoch)
  PROVE  LET t == EpochStep([s EXCEPT !.scka = new], keyEpoch, inEpoch)
         IN  /\ ~EpochMismatch(s, keyEpoch)
             /\ SessionOK(t, past) /\ t.scka = new /\ EpochsMoved(s, t) /\ AvailableKept(s, t)
             /\ \A e \in DOMAIN s.kdfChains :
                  /\ e >= inEpoch - 1 => e \in DOMAIN t.kdfChains
                  /\ e \in DOMAIN t.kdfChains => t.kdfChains[e] = s.kdfChains[e]
<1> DEFINE t == EpochStep([s EXCEPT !.scka = new], keyEpoch, inEpoch)
<1>1. /\ SPQRShape(s) /\ ProviderOK(s.scka) /\ s.epoch = s.scka.epoch /\ s.epoch \in Nat
      /\ ProviderOK(new) /\ new.odd = s.scka.odd /\ new.peer >= s.scka.peer
      /\ new.peer \in Nat /\ s.scka.peer \in Nat /\ new.epoch \in Nat
  BY DEF SessionOK, ProviderMoved, ProviderOK
<1>2. ~EpochMismatch(s, keyEpoch)
  BY <1>1 DEF EpochMismatch, ProviderMoved
<1>3. CASE keyEpoch = NoEpoch
  <2>1. t = [s EXCEPT !.scka = new] /\ new.epoch = s.epoch
    BY <1>1, <1>3 DEF EpochStep, ProviderMoved, NoEpoch
  <2>2. /\ SPQRShape(t) /\ t.scka = new /\ t.direction = s.direction /\ t.rk = s.rk /\ t.epoch = s.epoch
        /\ t.kdfChains = s.kdfChains /\ t.mkSkipped = s.mkSkipped
    BY <1>1, <2>1 DEF SPQRShape, SPQRFields
  <2> HIDE DEF t
  <2>3. ASSUME NEW e \in DOMAIN t.kdfChains PROVE e \in 0 .. t.epoch /\ EpochOK(t, e, past)
    BY <1>1, <2>2 DEF SessionOK, ChainsOK, EpochOK, RootIn, ReceivedIn
  <2>4. \A id \in DOMAIN t.mkSkipped : SkippedOK(t, id)
    BY <2>2 DEF SessionOK, ChainsOK, SkippedOK, RootIn, ReceivedIn
  <2>5. ChainsOK(t, past)
    BY <2>2, <2>3, <2>4 DEF SessionOK, ChainsOK, RootIn
  <2>6. SessionOK(t, past)
    BY <1>1, <2>1, <2>2, <2>5 DEF SessionOK
  <2>7. EpochsMoved(s, t) /\ AvailableKept(s, t)
    BY <1>1, <2>2 DEF EpochsMoved, AvailableKept, Available, RootIn, ReceivedIn
  <2> QED
    BY <1>2, <2>2, <2>6, <2>7 DEF t
<1>4. CASE keyEpoch # NoEpoch
  <2> DEFINE root == DeriveRoot(s.rk, OutputKey(keyEpoch))
  <2>1. keyEpoch = s.epoch + 1 /\ new.epoch = keyEpoch /\ keyEpoch \in Nat \ {0}
    BY <1>1, <1>4 DEF ProviderMoved
  <2>2. /\ SPQRShape(t) /\ t.scka = new /\ t.direction = s.direction
        /\ t.epoch = keyEpoch /\ t.rk = root
        /\ DOMAIN t.kdfChains = {e \in DOMAIN s.kdfChains \cup {keyEpoch} : e >= inEpoch - 1}
        /\ \A e \in DOMAIN t.kdfChains :
                  t.kdfChains[e] = IF e = keyEpoch THEN ChainPair(root, s.direction)
                                   ELSE s.kdfChains[e]
        /\ DOMAIN t.mkSkipped = {id \in DOMAIN s.mkSkipped : id[1] >= inEpoch - 1}
        /\ \A id \in DOMAIN t.mkSkipped : t.mkSkipped[id] = s.mkSkipped[id]
    <3>1. EpochStepped(s, t, new, keyEpoch, inEpoch)
      BY <1>1, <2>1, EpochStepValue
    <3> HIDE DEF t
    <3> QED
      BY <3>1 DEF EpochStepped
  <2> HIDE DEF t
  <2>3. /\ \A e \in DOMAIN s.kdfChains : e \in 0 .. s.epoch /\ EpochOK(s, e, past)
        /\ \A e \in 0 .. s.epoch : e >= s.epoch - 2 => e \in DOMAIN s.kdfChains
        /\ \A id \in DOMAIN s.mkSkipped : SkippedOK(s, id)
        /\ s.rk = RootIn(s, s.epoch)
    BY DEF SessionOK, ChainsOK
  <2>4. keyEpoch \in DOMAIN t.kdfChains /\ keyEpoch \notin DOMAIN s.kdfChains
    BY <1>1, <2>1, <2>2, <2>3
  <2>5. /\ t.kdfChains[keyEpoch] = ChainPair(root, s.direction)
        /\ \A e \in DOMAIN s.kdfChains \cap DOMAIN t.kdfChains : t.kdfChains[e] = s.kdfChains[e]
    BY <2>2, <2>4
  <2>6. /\ RootIn(t, keyEpoch) = root /\ ReceivedIn(t, keyEpoch) = 0
        /\ EpochOK(t, keyEpoch, past)
    <3>1. /\ t.kdfChains[keyEpoch].send = ChainOf(root, s.direction, 0)
          /\ t.kdfChains[keyEpoch].receive = ChainOf(root, Opposite(s.direction), 0)
          /\ DOMAIN t.kdfChains[keyEpoch] = {"send", "receive"}
      BY <2>5, ChainFacts DEF ChainPair
    <3>2. RootIn(t, keyEpoch) = root /\ ReceivedIn(t, keyEpoch) = 0
      BY <3>1 DEF RootIn, ReceivedIn, ChainOf
    <3> HIDE DEF root
    <3> QED
      BY <2>2, <3>1, <3>2 DEF EpochOK
  <2>7. \A e \in DOMAIN s.kdfChains \cap DOMAIN t.kdfChains :
          /\ RootIn(t, e) = RootIn(s, e) /\ ReceivedIn(t, e) = ReceivedIn(s, e)
          /\ EpochOK(t, e, past)
    <3> SUFFICES ASSUME NEW e \in DOMAIN s.kdfChains, e \in DOMAIN t.kdfChains
                 PROVE  /\ RootIn(t, e) = RootIn(s, e) /\ ReceivedIn(t, e) = ReceivedIn(s, e)
                        /\ EpochOK(t, e, past)
      OBVIOUS
    <3>1. EpochOK(s, e, past) /\ e \in Nat /\ t.kdfChains[e] = s.kdfChains[e]
      BY <1>1, <2>3, <2>5
    <3>2. RootIn(t, e) = RootIn(s, e) /\ ReceivedIn(t, e) = ReceivedIn(s, e)
      BY <3>1 DEF RootIn, ReceivedIn
    <3>3. e >= t.scka.peer => e >= s.scka.peer
      BY <1>1, <2>2, <3>1
    <3> QED
      BY <2>2, <3>1, <3>2, <3>3 DEF EpochOK
  <2>8. ASSUME NEW e \in DOMAIN t.kdfChains PROVE e \in 0 .. t.epoch /\ EpochOK(t, e, past)
    BY <1>1, <2>1, <2>2, <2>3, <2>6, <2>7
  <2>9. ASSUME NEW e \in 0 .. t.epoch, e >= t.epoch - 2 PROVE e \in DOMAIN t.kdfChains
    BY <1>1, <2>1, <2>2, <2>3, <2>4, <2>9
  <2>10. ASSUME NEW id \in DOMAIN t.mkSkipped PROVE SkippedOK(t, id)
    <3>1. id \in DOMAIN s.mkSkipped /\ id[1] >= inEpoch - 1 /\ t.mkSkipped[id] = s.mkSkipped[id]
      BY <2>2
    <3>2. PICK e \in DOMAIN s.kdfChains, k \in Nat :
            /\ id = <<e, k>> /\ k < ReceivedIn(s, e)
            /\ s.mkSkipped[id] = KeyOf(RootIn(s, e), Opposite(s.direction), k)
      BY <2>3, <3>1 DEF SkippedOK
    <3>3. e \in DOMAIN t.kdfChains
      BY <2>2, <3>1, <3>2
    <3> QED
      BY <2>2, <2>7, <3>1, <3>2, <3>3 DEF SkippedOK
  <2>11. s.epoch \in DOMAIN s.kdfChains \cap DOMAIN t.kdfChains
    BY <1>1, <2>1, <2>2, <2>3
  <2>12. ChainsOK(t, past)
    <3>1. t.rk = RootIn(t, t.epoch)
      BY <2>2, <2>6
    <3>2. t.rk = DeriveRoot(RootIn(t, t.epoch - 1), OutputKey(t.epoch))
      <4>1. t.epoch - 1 = s.epoch
        BY <1>1, <2>1, <2>2
      <4>2. RootIn(t, s.epoch) = s.rk
        BY <2>3, <2>7, <2>11
      <4> QED
        BY <2>2, <4>1, <4>2
    <3> QED
      BY <2>8, <2>9, <2>10, <3>1, <3>2 DEF ChainsOK
  <2>13. SessionOK(t, past)
    BY <1>1, <2>1, <2>2, <2>12 DEF SessionOK
  <2>14. EpochsMoved(s, t)
    BY <1>1, <2>1, <2>2, <2>3, <2>6, <2>7 DEF EpochsMoved
  <2>15. AvailableKept(s, t)
    <3> SUFFICES ASSUME NEW e \in DOMAIN t.kdfChains, NEW n \in Nat
                 PROVE  Available(t, e, n) <=> (e \in DOMAIN s.kdfChains => Available(s, e, n))
      BY DEF AvailableKept
    <3>1. CASE e \in DOMAIN s.kdfChains
      <4>1. e \in DOMAIN s.kdfChains \cap DOMAIN t.kdfChains /\ e >= inEpoch - 1
        BY <2>2, <3>1
      <4>2. <<e, n>>[1] = e
        OBVIOUS
      <4>3. <<e, n>> \in DOMAIN t.mkSkipped <=> <<e, n>> \in DOMAIN s.mkSkipped
        BY <2>2, <4>1, <4>2
      <4> QED
        BY <2>7, <4>1, <4>3 DEF Available
    <3>2. CASE e \notin DOMAIN s.kdfChains
      <4>1. e = keyEpoch /\ t.kdfChains[e] = ChainPair(root, s.direction)
        BY <2>2, <3>2
      <4>2. ReceivedIn(t, e) = 0
        BY <4>1 DEF ReceivedIn, ChainPair, KDFChain
      <4> QED
        BY <3>2, <4>2 DEF Available
    <3> QED
      BY <3>1, <3>2
  <2> QED
    BY <1>2, <2>2, <2>5, <2>13, <2>14, <2>15 DEF t
<1> QED
  BY <1>3, <1>4

-----------------------------------------------------------------------------
(* Changing send chains only.                                              *)
LEMMA SendHalfChanged ==
  ASSUME NEW s, NEW past \in Nat, SessionOK(s, past), NEW now \in Nat, NEW t, SPQRShape(t),
         t.scka = s.scka, t.epoch = s.epoch, t.direction = s.direction, t.rk = s.rk,
         t.mkSkipped = s.mkSkipped, DOMAIN t.kdfChains = DOMAIN s.kdfChains,
         \A e \in DOMAIN t.kdfChains :
           /\ DOMAIN t.kdfChains[e] = {"send", "receive"}
           /\ t.kdfChains[e].receive = s.kdfChains[e].receive
           /\ e >= s.scka.peer =>
                \E k \in 0 .. now : t.kdfChains[e].send = ChainOf(RootIn(s, e), s.direction, k)
  PROVE  SessionOK(t, now) /\ \A r : /\ EpochsMoved(r, s) => EpochsMoved(r, t)
                                     /\ AvailableKept(r, s) => AvailableKept(r, t)
<1>1. \A e \in DOMAIN t.kdfChains : RootIn(t, e) = RootIn(s, e) /\ ReceivedIn(t, e) = ReceivedIn(s, e)
  BY DEF RootIn, ReceivedIn
<1>2. /\ \A e \in DOMAIN s.kdfChains : e \in 0 .. s.epoch /\ EpochOK(s, e, past)
      /\ \A e \in 0 .. s.epoch : e >= s.epoch - 2 => e \in DOMAIN s.kdfChains
      /\ \A id \in DOMAIN s.mkSkipped : SkippedOK(s, id)
      /\ s.rk = RootIn(s, s.epoch)
      /\ s.epoch > 0 => s.rk = DeriveRoot(RootIn(s, s.epoch - 1), OutputKey(s.epoch))
      /\ s.epoch \in Nat
  BY DEF SessionOK, ChainsOK, ProviderOK
<1>3. ASSUME NEW e \in DOMAIN t.kdfChains PROVE EpochOK(t, e, now)
  BY <1>1, <1>2, <1>3 DEF EpochOK
<1>4. \A id \in DOMAIN t.mkSkipped : SkippedOK(t, id)
  BY <1>1, <1>2 DEF SkippedOK
<1>5. s.epoch \in DOMAIN s.kdfChains /\ (s.epoch > 0 => s.epoch - 1 \in DOMAIN s.kdfChains)
  BY <1>2
<1>6. ChainsOK(t, now)
  BY <1>1, <1>2, <1>3, <1>4, <1>5 DEF ChainsOK
<1>7. SessionOK(t, now)
  BY <1>6 DEF SessionOK
<1>8. ASSUME NEW r, EpochsMoved(r, s) PROVE EpochsMoved(r, t)
  BY <1>1, <1>5, <1>8 DEF EpochsMoved
<1>9. ASSUME NEW r, AvailableKept(r, s) PROVE AvailableKept(r, t)
  BY <1>1, <1>9 DEF AvailableKept, Available
<1> QED
  BY <1>7, <1>8, <1>9

(* sendKey() of a session never fails: the provider sends in an epoch      *)
(* whose send chain is still there. The header has the number of the next  *)
(* key.                                                                    *)
LEMMA SendKeyFacts ==
  ASSUME NEW s, NEW past \in Nat, SessionOK(s, past)
  PROVE  LET out == SendKey(s)
             t   == out.s
             e   == s.scka.peer
         IN  /\ out.err = "ok"
             /\ SessionOK(t, past + 1) /\ EpochsMoved(s, t) /\ AvailableKept(s, t)
             /\ t.scka.peer = e /\ e \in DOMAIN s.kdfChains /\ e \in DOMAIN t.kdfChains
             /\ out.hdr = [msg |-> out.hdr.msg, n |-> out.hdr.n] /\ out.hdr.n \in 0 .. past
             /\ out.hdr.msg = [epoch |-> e, offer |-> out.hdr.msg.offer,
                               answer |-> out.hdr.msg.answer]
             /\ out.hdr.msg.answer \in Nat /\ out.hdr.msg.answer <= t.epoch
             /\ SentIn(s, e) = out.hdr.n /\ SentIn(t, e) = out.hdr.n + 1
             /\ out.key = KeyOf(RootIn(s, e), s.direction, out.hdr.n)
<1> DEFINE sp    == ProviderSend(s.scka)
           told  == [s EXCEPT !.scka = sp.st]
           e     == sp.sendingEpoch
           step  == EpochStep(told, sp.keyEpoch, e)
           ready == DropSendChainBefore(step, e)
           chain == ready.kdfChains[e].send
           t     == StepSendChain(ready, e)
<1>1. /\ ProviderOK(s.scka) /\ s.epoch = s.scka.epoch /\ s.scka.peer \in Nat /\ s.epoch \in Nat
      /\ s.scka.peer <= s.epoch /\ s.epoch <= s.scka.peer + 1 /\ SPQRShape(s)
  BY DEF SessionOK, ProviderOK
<1>2. /\ ProviderMoved(s.scka, sp.st, sp.keyEpoch) /\ sp.st.peer = s.scka.peer
      /\ e = s.scka.peer /\ sp.msg.epoch = s.scka.peer
      /\ sp.msg.answer \in Nat /\ sp.msg.answer <= sp.st.epoch
      /\ sp.msg = [epoch |-> sp.msg.epoch, offer |-> sp.msg.offer, answer |-> sp.msg.answer]
  BY <1>1, ProviderSends
<1> HIDE DEF sp, e
<1>3. /\ ~EpochMismatch(s, sp.keyEpoch)
      /\ SessionOK(step, past) /\ step.scka = sp.st /\ EpochsMoved(s, step) /\ AvailableKept(s, step)
      /\ \A x \in DOMAIN s.kdfChains :
           /\ x >= e - 1 => x \in DOMAIN step.kdfChains
           /\ x \in DOMAIN step.kdfChains => step.kdfChains[x] = s.kdfChains[x]
  <2>1. e \in Nat /\ e <= s.epoch
    BY <1>1, <1>2
  <2> QED
    BY <1>2, <2>1, ProviderStep
<1>4. /\ e \in DOMAIN s.kdfChains /\ e \in DOMAIN step.kdfChains /\ step.kdfChains[e] = s.kdfChains[e]
  BY <1>1, <1>2, <1>3 DEF SessionOK, ChainsOK
<1> HIDE DEF step
<1>5. PICK k \in 0 .. past : s.kdfChains[e].send = ChainOf(RootIn(s, e), s.direction, k)
  BY <1>1, <1>2, <1>4 DEF SessionOK, ChainsOK, EpochOK
<1>6. /\ SPQRShape(step) /\ \A x \in DOMAIN step.kdfChains : x \in Nat /\ EpochOK(step, x, past)
      /\ step.epoch = step.scka.epoch /\ step.epoch \in Nat
  BY <1>3 DEF SessionOK, ChainsOK, ProviderOK
<1>7. /\ SPQRShape(ready) /\ ready.scka = step.scka /\ ready.epoch = step.epoch
      /\ ready.direction = step.direction /\ ready.rk = step.rk /\ ready.mkSkipped = step.mkSkipped
      /\ DOMAIN ready.kdfChains = DOMAIN step.kdfChains
      /\ \A x \in DOMAIN step.kdfChains :
           /\ DOMAIN ready.kdfChains[x] = {"send", "receive"}
           /\ ready.kdfChains[x].receive = step.kdfChains[x].receive
           /\ x >= e => ready.kdfChains[x] = step.kdfChains[x]
  <2>1. CASE e > 0 /\ e - 1 \in DOMAIN step.kdfChains
    <3> DEFINE kc == [step.kdfChains EXCEPT ![e - 1].send = NoChainKey]
    <3>1. ready = [step EXCEPT !.kdfChains = kc]
      BY <1>6, <2>1 DEF DropSendChainBefore, SPQRShape, SPQRFields
    <3>2. /\ DOMAIN kc = DOMAIN step.kdfChains
          /\ \A x \in DOMAIN step.kdfChains :
               /\ DOMAIN kc[x] = DOMAIN step.kdfChains[x]
               /\ x # e - 1 => kc[x] = step.kdfChains[x]
      OBVIOUS
    <3>3. \A x \in DOMAIN step.kdfChains : DOMAIN step.kdfChains[x] = {"send", "receive"}
      BY <1>6 DEF EpochOK
    <3>4. kc[e - 1].receive = step.kdfChains[e - 1].receive
      BY <2>1, <3>3
    <3> HIDE DEF kc
    <3>5. /\ SPQRShape(ready) /\ ready.scka = step.scka /\ ready.epoch = step.epoch
          /\ ready.direction = step.direction /\ ready.rk = step.rk /\ ready.mkSkipped = step.mkSkipped
          /\ ready.kdfChains = kc
      BY <1>6, <3>1 DEF SPQRShape, SPQRFields
    <3>6. \A x \in DOMAIN step.kdfChains : x >= e => x # e - 1
      BY <1>1, <1>2, <1>6
    <3> QED
      BY <3>2, <3>3, <3>4, <3>5, <3>6
  <2>2. CASE ~(e > 0 /\ e - 1 \in DOMAIN step.kdfChains)
    BY <1>6, <2>2 DEF DropSendChainBefore, EpochOK
  <2> QED
    BY <2>1, <2>2
<1> HIDE DEF ready
<1>8. ready.kdfChains[e] = s.kdfChains[e] /\ chain = ChainOf(RootIn(s, e), s.direction, k)
  BY <1>1, <1>2, <1>4, <1>5, <1>7
<1> HIDE DEF chain
<1>9. CanSendIn(ready, e)
  BY <1>4, <1>5, <1>7, <1>8, ChainFacts DEF CanSendIn
<1>10. SendKey(s) = Outcome("ok", t, [msg |-> sp.msg, n |-> chain.n], MessageKeyOf(chain))
  BY <1>3, <1>9 DEF SendKey, sp, told, step, ready, chain, e
<1>11. /\ chain.n = k /\ MessageKeyOf(chain) = KeyOf(RootIn(s, e), s.direction, k)
       /\ ChainAt(chain, 1) = ChainOf(RootIn(s, e), s.direction, k + 1)
  BY <1>8, ChainFacts
<1>12. /\ SPQRShape(t) /\ t.scka = step.scka /\ t.epoch = step.epoch
       /\ t.direction = step.direction /\ t.rk = step.rk /\ t.mkSkipped = step.mkSkipped
       /\ DOMAIN t.kdfChains = DOMAIN step.kdfChains
       /\ \A x \in DOMAIN step.kdfChains :
            /\ DOMAIN t.kdfChains[x] = {"send", "receive"}
            /\ t.kdfChains[x].receive = step.kdfChains[x].receive
            /\ x # e => t.kdfChains[x] = ready.kdfChains[x]
       /\ t.kdfChains[e].send = ChainOf(RootIn(s, e), s.direction, k + 1)
  <2> DEFINE kc == [ready.kdfChains EXCEPT ![e].send = ChainAt(chain, 1)]
  <2>1. t = [ready EXCEPT !.kdfChains = kc]
    BY <1>7, <1>8 DEF StepSendChain, SPQRShape, SPQRFields, chain
  <2>2. /\ DOMAIN kc = DOMAIN ready.kdfChains
        /\ \A x \in DOMAIN ready.kdfChains :
             /\ DOMAIN kc[x] = DOMAIN ready.kdfChains[x]
             /\ x # e => kc[x] = ready.kdfChains[x]
    OBVIOUS
  <2>3. kc[e].receive = ready.kdfChains[e].receive /\ kc[e].send = ChainAt(chain, 1)
    BY <1>4, <1>7
  <2> HIDE DEF kc
  <2>4. /\ SPQRShape(t) /\ t.scka = ready.scka /\ t.epoch = ready.epoch
        /\ t.direction = ready.direction /\ t.rk = ready.rk /\ t.mkSkipped = ready.mkSkipped
        /\ t.kdfChains = kc
    BY <1>7, <2>1 DEF SPQRShape, SPQRFields
  <2> HIDE DEF t
  <2> QED
    BY <1>7, <1>11, <2>2, <2>3, <2>4
<1> HIDE DEF t
<1>13. ASSUME NEW x \in DOMAIN t.kdfChains, x >= step.scka.peer
       PROVE  \E j \in 0 .. past + 1 : t.kdfChains[x].send = ChainOf(RootIn(step, x), step.direction, j)
  <2>1. step.scka.peer = e /\ step.direction = s.direction /\ RootIn(step, e) = RootIn(s, e)
    BY <1>2, <1>3, <1>4 DEF EpochsMoved
  <2>2. CASE x = e
    BY <1>12, <2>1, <2>2
  <2>3. CASE x # e
    <3>1. PICK j \in 0 .. past :
            step.kdfChains[x].send = ChainOf(RootIn(step, x), step.direction, j)
      BY <1>6, <1>12, <1>13 DEF EpochOK
    <3>2. t.kdfChains[x].send = step.kdfChains[x].send
      BY <1>7, <1>12, <1>13, <2>1, <2>3
    <3> QED
      BY <3>1, <3>2
  <2> QED
    BY <2>2, <2>3
<1>14. SessionOK(t, past + 1) /\ EpochsMoved(s, t) /\ AvailableKept(s, t)
  <2>1. \A x \in DOMAIN t.kdfChains :
           /\ DOMAIN t.kdfChains[x] = {"send", "receive"}
           /\ t.kdfChains[x].receive = step.kdfChains[x].receive
           /\ x >= step.scka.peer =>
                \E j \in 0 .. past + 1 :
                  t.kdfChains[x].send = ChainOf(RootIn(step, x), step.direction, j)
    BY <1>12, <1>13
  <2>2. /\ SPQRShape(t) /\ t.scka = step.scka /\ t.epoch = step.epoch
        /\ t.direction = step.direction /\ t.rk = step.rk /\ t.mkSkipped = step.mkSkipped
        /\ DOMAIN t.kdfChains = DOMAIN step.kdfChains /\ past + 1 \in Nat
    BY <1>12
  <2>3. SessionOK(t, past + 1) /\ (EpochsMoved(s, step) => EpochsMoved(s, t))
        /\ (AvailableKept(s, step) => AvailableKept(s, t))
    BY <1>3, <2>1, <2>2, SendHalfChanged
  <2> QED
    BY <1>3, <2>3
<1>15. SentIn(s, e) = k /\ SentIn(t, e) = k + 1
  BY <1>5, <1>12 DEF SentIn, ChainOf
<1>16. t.scka.peer = e /\ sp.st.epoch = t.epoch /\ e \in DOMAIN t.kdfChains
  BY <1>2, <1>3, <1>4, <1>6, <1>12
<1> QED
  BY <1>2, <1>4, <1>10, <1>11, <1>14, <1>15, <1>16 DEF Outcome

-----------------------------------------------------------------------------
(* Receiving on a chain, or taking a skipped key, gives a session again.   *)
LEMMA SameEpochsOK ==
  ASSUME NEW s, NEW past, SessionOK(s, past), NEW t, SameEpochs(s, t),
         \A e \in DOMAIN t.kdfChains : EpochOK(t, e, past),
         \A id \in DOMAIN t.mkSkipped : SkippedOK(t, id)
  PROVE  SessionOK(t, past) /\ EpochsMoved(s, t)
<1>1. s.epoch \in DOMAIN s.kdfChains /\ (s.epoch > 0 => s.epoch - 1 \in DOMAIN s.kdfChains)
  BY SessionFacts
<1>2. ChainsOK(t, past)
  BY <1>1, SessionFacts DEF ChainsOK, SameEpochs
<1>3. SessionOK(t, past)
  BY <1>2, SessionFacts DEF SessionOK, SameEpochs
<1>4. EpochsMoved(s, t)
  BY <1>1 DEF EpochsMoved, SameEpochs
<1> QED
  BY <1>3, <1>4

(* Taking a skipped key: the key of its epoch and number, once.            *)
LEMMA TakeSkippedFacts ==
  ASSUME NEW s, NEW past, SessionOK(s, past), NEW e, NEW n, <<e, n>> \in DOMAIN s.mkSkipped
  PROVE  LET out == TakeSkipped(s, <<e, n>>)
         IN  /\ out.err = "ok" /\ out.key = KeyOf(RootIn(s, e), Opposite(s.direction), n)
             /\ SessionOK(out.s, past) /\ SameEpochs(s, out.s) /\ EpochsMoved(s, out.s)
             /\ Available(s, e, n) /\ TookOne(s, out.s, e, n)
<1> DEFINE id == <<e, n>>
           left == [x \in DOMAIN s.mkSkipped \ {id} |-> s.mkSkipped[x]]
           t    == [s EXCEPT !.mkSkipped = left]
<1>1. SPQRShape(s)
  BY SessionFacts
<1>2. TakeSkipped(s, id) = Outcome("ok", t, BadMsg, s.mkSkipped[id])
  BY <1>1 DEF TakeSkipped, SPQRShape, SPQRFields
<1>3. PICK x \in DOMAIN s.kdfChains, k \in Nat :
         /\ id = <<x, k>> /\ k < ReceivedIn(s, x)
         /\ s.mkSkipped[id] = KeyOf(RootIn(s, x), Opposite(s.direction), k)
  BY SessionFacts DEF SkippedOK
<1>4. x = e /\ k = n
  BY <1>3
<1>5. DOMAIN left = DOMAIN s.mkSkipped \ {id} /\ \A y \in DOMAIN left : left[y] = s.mkSkipped[y]
  OBVIOUS
<1> HIDE DEF left
<1>6. /\ SPQRShape(t) /\ t.scka = s.scka /\ t.epoch = s.epoch /\ t.direction = s.direction
      /\ t.rk = s.rk /\ t.kdfChains = s.kdfChains /\ t.mkSkipped = left
  BY <1>1 DEF SPQRShape, SPQRFields
<1> HIDE DEF t, id
<1>7. \A y : RootIn(t, y) = RootIn(s, y) /\ ReceivedIn(t, y) = ReceivedIn(s, y)
  BY <1>6 DEF RootIn, ReceivedIn
<1>8. SameEpochs(s, t)
  BY <1>6, <1>7 DEF SameEpochs, SentIn
<1>9. \A y \in DOMAIN t.kdfChains : EpochOK(t, y, past)
  BY <1>6, <1>7, SessionFacts DEF EpochOK
<1>10. \A y \in DOMAIN t.mkSkipped : SkippedOK(t, y)
  BY <1>5, <1>6, <1>7, SessionFacts DEF SkippedOK
<1>11. SessionOK(t, past) /\ EpochsMoved(s, t)
  BY <1>8, <1>9, <1>10, SameEpochsOK
<1>12. Available(s, e, n)
  BY <1>3, <1>4 DEF Available, id
<1>13. TookOne(s, t, e, n)
  <2> SUFFICES ASSUME NEW y \in DOMAIN s.kdfChains, NEW j \in Nat
               PROVE  Available(t, y, j) <=> Available(s, y, j) /\ <<y, j>> # id
    BY <1>6 DEF TookOne, id
  <2>1. CASE <<y, j>> = id
    <3>1. ReceivedIn(s, x) \in Nat /\ y = x /\ j = k
      BY <1>3, <2>1, SessionFacts DEF EpochOK
    <3> QED
      BY <1>3, <1>5, <1>6, <1>7, <2>1, <3>1 DEF Available
  <2>2. CASE <<y, j>> # id
    BY <1>5, <1>6, <1>7, <2>2 DEF Available
  <2> QED
    BY <2>1, <2>2
<1> QED
  BY <1>2, <1>3, <1>4, <1>8, <1>11, <1>12, <1>13 DEF Outcome, id

(* Receiving on a chain, over a gap or not: the key of the number asked    *)
(* for, with those before it stored as skipped, or an error that changes   *)
(* nothing.                                                                *)
LEMMA ReceiveOnChainFacts ==
  ASSUME NEW s, NEW past, SessionOK(s, past), NEW e, NEW n \in Nat,
         <<e, n>> \notin DOMAIN s.mkSkipped
  PROVE  LET out == ReceiveOnChain(s, e, n)
         IN  /\ out.err # "ErrAuthFailure" /\ (out.err # "ok" => out.s = s)
             /\ out.err = "ok" =>
                  /\ out.key = KeyOf(RootIn(s, e), Opposite(s.direction), n)
                  /\ SessionOK(out.s, past) /\ SameEpochs(s, out.s) /\ EpochsMoved(s, out.s)
                  /\ Available(s, e, n) /\ TookOne(s, out.s, e, n)
             /\ Available(s, e, n) /\ n <= MaxSkip => out.err = "ok"
<1> DEFINE there == SkipTo(s, e, n)
           chain == there.kdfChains[e].receive
           t     == [there EXCEPT !.kdfChains[e].receive = ChainAt(chain, 1)]
           r     == ReceivedIn(s, e)
           root  == RootIn(s, e)
           dir   == Opposite(s.direction)
<1>1. CASE e \notin DOMAIN s.kdfChains
  BY <1>1 DEF ReceiveOnChain, Failure, Outcome, Available
<1>2. CASE e \in DOMAIN s.kdfChains
  <2>1. /\ DOMAIN s.kdfChains[e] = {"send", "receive"} /\ r \in Nat
        /\ s.kdfChains[e].receive = ChainOf(root, dir, r) /\ SPQRShape(s) /\ s.kdfChains[e].receive.n = r
    BY <1>2, SessionFacts DEF EpochOK, ReceivedIn
  <2>2. CASE TooManySkipped(r, n)
    <3>1. ~(n <= MaxSkip)
      BY <2>1, <2>2, MaxSkipAssumption DEF TooManySkipped
    <3> QED
      BY <1>2, <2>1, <2>2, <3>1 DEF ReceiveOnChain, Failure, Outcome
  <2>3. CASE ~TooManySkipped(r, n) /\ n < r
    <3>1. there = s
      BY <2>1, <2>3 DEF SkipTo
    <3>2. chain.n # n
      BY <2>1, <2>3, <3>1
    <3>3. ReceiveOnChain(s, e, n) = Failure("ErrSkippedKeyNotFound", s)
      BY <1>2, <2>1, <2>3, <3>1, <3>2 DEF ReceiveOnChain
    <3> QED
      BY <2>1, <2>3, <3>3 DEF Failure, Outcome, Available
  <2>4. CASE ~TooManySkipped(r, n) /\ r <= n
    <3> DEFINE skipped == {<<e, k>> : k \in r .. n - 1}
    <3>1. /\ SPQRShape(there) /\ there.scka = s.scka /\ there.epoch = s.epoch
          /\ there.direction = s.direction /\ there.rk = s.rk
          /\ DOMAIN there.kdfChains = DOMAIN s.kdfChains
          /\ \A x \in DOMAIN s.kdfChains : x # e => there.kdfChains[x] = s.kdfChains[x]
          /\ DOMAIN there.kdfChains[e] = {"send", "receive"}
          /\ there.kdfChains[e].send = s.kdfChains[e].send
          /\ chain = ChainOf(root, dir, n)
          /\ DOMAIN there.mkSkipped = DOMAIN s.mkSkipped \cup skipped
          /\ \A id \in DOMAIN there.mkSkipped :
               there.mkSkipped[id] = IF id \in skipped THEN KeyOf(root, dir, id[2]) ELSE s.mkSkipped[id]
      <4>1. CASE r = n
        <5>1. there = s /\ skipped = {}
          BY <2>1, <4>1 DEF SkipTo
        <5> HIDE DEF root, r, dir
        <5> QED
          BY <1>2, <2>1, <4>1, <5>1
      <4>2. CASE r < n
        <5> DEFINE far == ChainAt(s.kdfChains[e].receive, n - r)
                   kc  == [s.kdfChains EXCEPT ![e].receive = far]
                   ms  == [id \in DOMAIN s.mkSkipped \cup skipped |->
                             IF id \in skipped
                             THEN MessageKeyOf(ChainAt(s.kdfChains[e].receive, id[2] - r))
                             ELSE s.mkSkipped[id]]
        <5>1. there = [s EXCEPT !.kdfChains = kc, !.mkSkipped = ms]
          <6>1. ~(n <= s.kdfChains[e].receive.n) /\ s.kdfChains[e].receive.n = r
            BY <2>1, <4>2
          <6>2. there = [s EXCEPT !.kdfChains[e].receive = far, !.mkSkipped = ms]
            <7> HIDE DEF r
            <7> QED
              BY <6>1 DEF SkipTo
          <6> HIDE DEF far, ms, there
          <6> QED
            BY <2>1, <6>2 DEF SPQRShape, SPQRFields
        <5>2. far = ChainOf(root, dir, n)
          <6>1. n - r \in Nat /\ r + (n - r) = n
            BY <2>1, <4>2
          <6> HIDE DEF root, dir, r
          <6> QED
            BY <2>1, <6>1, ChainFacts
        <5>3. \A id \in skipped :
                MessageKeyOf(ChainAt(s.kdfChains[e].receive, id[2] - r)) = KeyOf(root, dir, id[2])
          <6> SUFFICES ASSUME NEW k \in r .. n - 1
                       PROVE  MessageKeyOf(ChainAt(s.kdfChains[e].receive, k - r)) = KeyOf(root, dir, k)
            OBVIOUS
          <6>1. k \in Nat /\ k - r \in Nat /\ r + (k - r) = k
            BY <2>1
          <6>2. ChainAt(s.kdfChains[e].receive, k - r) = ChainOf(root, dir, r + (k - r))
            <7> HIDE DEF root, dir, r
            <7> QED
              BY <2>1, <6>1, ChainFacts
          <6> HIDE DEF root, dir, r
          <6> QED
            BY <6>1, <6>2, ChainFacts
        <5>4. /\ DOMAIN kc = DOMAIN s.kdfChains /\ DOMAIN kc[e] = DOMAIN s.kdfChains[e]
              /\ \A x \in DOMAIN s.kdfChains : x # e => kc[x] = s.kdfChains[x]
              /\ kc[e].send = s.kdfChains[e].send /\ kc[e].receive = far
          <6> HIDE DEF far, root, r, dir
          <6> QED
            BY <1>2, <2>1
        <5>5. /\ DOMAIN ms = DOMAIN s.mkSkipped \cup skipped
              /\ \A id \in DOMAIN ms :
                   ms[id] = IF id \in skipped THEN KeyOf(root, dir, id[2]) ELSE s.mkSkipped[id]
          <6> HIDE DEF skipped
          <6> QED
            BY <5>3
        <5> HIDE DEF kc, ms, far, skipped, root, dir, r
        <5>6. /\ SPQRShape(there) /\ there.scka = s.scka /\ there.epoch = s.epoch
              /\ there.direction = s.direction /\ there.rk = s.rk
              /\ there.kdfChains = kc /\ there.mkSkipped = ms
          BY <2>1, <5>1 DEF SPQRShape, SPQRFields
        <5> HIDE DEF there
        <5> QED
          BY <2>1, <5>2, <5>4, <5>5, <5>6
      <4> QED
        BY <2>1, <2>4, <4>1, <4>2
    <3> HIDE DEF there
    <3>2. /\ chain.n = n /\ MessageKeyOf(chain) = KeyOf(root, dir, n)
          /\ ChainAt(chain, 1) = ChainOf(root, dir, n + 1)
      <4>1. chain = ChainOf(root, dir, n)
        BY <3>1
      <4> HIDE DEF root, dir, chain
      <4>2. ChainAt(ChainOf(root, dir, n), 1) = ChainOf(root, dir, n + 1)
        BY ChainFacts
      <4>3. ChainOf(root, dir, n).n = n
        BY DEF ChainOf
      <4>4. MessageKeyOf(ChainOf(root, dir, n)) = KeyOf(root, dir, n)
        BY DEF ChainOf, KeyOf, MessageKeyOf
      <4> QED
        BY <4>1, <4>2, <4>3, <4>4
    <3>3. ReceiveOnChain(s, e, n) = Outcome("ok", t, BadMsg, KeyOf(root, dir, n))
      BY <1>2, <2>1, <2>4, <3>2 DEF ReceiveOnChain, there
    <3>4. /\ SPQRShape(t) /\ t.scka = s.scka /\ t.epoch = s.epoch
          /\ t.direction = s.direction /\ t.rk = s.rk /\ t.mkSkipped = there.mkSkipped
          /\ DOMAIN t.kdfChains = DOMAIN s.kdfChains
          /\ \A x \in DOMAIN s.kdfChains : x # e => t.kdfChains[x] = s.kdfChains[x]
          /\ DOMAIN t.kdfChains[e] = {"send", "receive"}
          /\ t.kdfChains[e].send = s.kdfChains[e].send
          /\ t.kdfChains[e].receive = ChainOf(root, dir, n + 1)
      <4> DEFINE kc == [there.kdfChains EXCEPT ![e].receive = ChainAt(chain, 1)]
      <4> HIDE DEF root, dir, chain, r
      <4>1. t = [there EXCEPT !.kdfChains = kc]
        BY <3>1 DEF SPQRShape, SPQRFields, chain
      <4>2. /\ DOMAIN kc = DOMAIN s.kdfChains /\ DOMAIN kc[e] = {"send", "receive"}
            /\ \A x \in DOMAIN s.kdfChains : x # e => kc[x] = s.kdfChains[x]
            /\ kc[e].send = s.kdfChains[e].send /\ kc[e].receive = ChainAt(chain, 1)
        BY <1>2, <3>1
      <4> HIDE DEF kc, t
      <4>3. /\ SPQRShape(t) /\ t.scka = there.scka /\ t.epoch = there.epoch
            /\ t.direction = there.direction /\ t.rk = there.rk /\ t.mkSkipped = there.mkSkipped
            /\ t.kdfChains = kc
        BY <3>1, <4>1 DEF SPQRShape, SPQRFields
      <4> QED
        BY <3>1, <3>2, <4>2, <4>3
    <3> HIDE DEF t, chain
    <3>5. RootIn(t, e) = root /\ ReceivedIn(t, e) = n + 1
      BY <3>4 DEF RootIn, ReceivedIn, ChainOf
    <3>6. \A x \in DOMAIN s.kdfChains :
            x # e => RootIn(t, x) = RootIn(s, x) /\ ReceivedIn(t, x) = ReceivedIn(s, x)
      BY <3>4 DEF RootIn, ReceivedIn
    <3>7. SameEpochs(s, t)
      BY <3>4, <3>5, <3>6 DEF SameEpochs, SentIn
    <3>8. ASSUME NEW x \in DOMAIN t.kdfChains PROVE EpochOK(t, x, past)
      <4>1. x \in DOMAIN s.kdfChains /\ EpochOK(s, x, past)
        BY <3>4, SessionFacts
      <4>2. CASE x = e
        <5> HIDE DEF r
        <5> QED
          BY <3>4, <3>5, <4>1, <4>2 DEF EpochOK
      <4>3. CASE x # e
        BY <3>4, <3>6, <4>1, <4>3 DEF EpochOK
      <4> QED
        BY <4>2, <4>3
    <3>9. ASSUME NEW id \in DOMAIN t.mkSkipped PROVE SkippedOK(t, id)
      <4>1. CASE id \in skipped
        <5>1. PICK k \in r .. n - 1 : id = <<e, k>>
          BY <4>1
        <5>2. k \in Nat /\ k < n + 1 /\ id[2] = k
          BY <2>1, <5>1
        <5>3. t.mkSkipped[id] = KeyOf(root, dir, k)
          <6> HIDE DEF skipped, root, dir, r
          <6> QED
            BY <3>1, <3>4, <4>1, <5>2
        <5> HIDE DEF root, r, skipped
        <5> QED
          BY <1>2, <3>4, <3>5, <5>1, <5>2, <5>3 DEF SkippedOK
      <4>2. CASE id \notin skipped
        <5> HIDE DEF skipped, root, dir, r
        <5>1. id \in DOMAIN s.mkSkipped /\ t.mkSkipped[id] = s.mkSkipped[id]
          BY <3>1, <3>4, <4>2
        <5>2. PICK x \in DOMAIN s.kdfChains, k \in Nat :
                /\ id = <<x, k>> /\ k < ReceivedIn(s, x)
                /\ s.mkSkipped[id] = KeyOf(RootIn(s, x), Opposite(s.direction), k)
          BY <5>1, SessionFacts DEF SkippedOK
        <5>3. k < ReceivedIn(t, x) /\ RootIn(t, x) = RootIn(s, x)
          <6>1. CASE x = e
            BY <2>1, <2>4, <3>5, <5>2, <6>1 DEF r, root
          <6>2. CASE x # e
            BY <3>6, <5>2, <6>2
          <6> QED
            BY <6>1, <6>2
        <5> QED
          BY <3>4, <5>1, <5>2, <5>3 DEF SkippedOK
      <4> QED
        BY <4>1, <4>2
    <3>10. SessionOK(t, past) /\ EpochsMoved(s, t)
      BY <3>7, <3>8, <3>9, SameEpochsOK
    <3>11. Available(s, e, n)
      BY <1>2, <2>1, <2>4 DEF Available
    <3>12. TookOne(s, t, e, n)
      <4> SUFFICES ASSUME NEW x \in DOMAIN s.kdfChains, NEW k \in Nat
                   PROVE  Available(t, x, k) <=> Available(s, x, k) /\ <<x, k>> # <<e, n>>
        BY <3>4 DEF TookOne
      <4>1. <<x, k>> \in skipped <=> x = e /\ k \in r .. n - 1
        OBVIOUS
      <4>2. <<x, k>> \in DOMAIN t.mkSkipped <=>
              <<x, k>> \in DOMAIN s.mkSkipped \/ (x = e /\ k \in r .. n - 1)
        BY <3>1, <3>4, <4>1
      <4> HIDE DEF skipped
      <4>3. CASE x = e
        BY <2>1, <2>4, <3>4, <3>5, <4>2, <4>3 DEF Available
      <4>4. CASE x # e
        BY <3>4, <3>6, <4>2, <4>4 DEF Available
      <4> QED
        BY <4>3, <4>4
    <3> QED
      BY <3>3, <3>7, <3>10, <3>11, <3>12 DEF Outcome
  <2> QED
    BY <2>1, <2>2, <2>3, <2>4
<1> QED
  BY <1>1, <1>2

(* receiveKey() of a session, for a header of an epoch that the session    *)
(* knows.                                                                  *)
LEMMA ReceiveKeyFacts ==
  ASSUME NEW s, NEW past \in Nat, SessionOK(s, past), NEW hdr, Understands(hdr.msg),
         hdr.msg.epoch \in Nat, hdr.msg.answer \in Nat, hdr.msg.epoch <= s.epoch, hdr.n \in Nat
  PROVE  Received(s, past, hdr, ReceiveKey(s, hdr))
<1> DEFINE rp   == ProviderReceive(s.scka, hdr.msg)
           told == [s EXCEPT !.scka = rp.st]
           here == EpochStep(told, rp.keyEpoch, rp.receivingEpoch)
           e    == hdr.msg.epoch
           n    == hdr.n
           id   == <<rp.receivingEpoch, hdr.n>>
           out  == ReceiveKey(s, hdr)
<1>1. /\ ProviderMoved(s.scka, rp.st, rp.keyEpoch) /\ rp.receivingEpoch = e
      /\ rp.st.peer \in {s.scka.peer, e, hdr.msg.answer}
  BY ProviderReceives, SessionFacts
<1>2. /\ rp.st.peer >= s.scka.peer /\ ProviderOK(rp.st)
  BY <1>1 DEF ProviderMoved
<1> HIDE DEF rp
<1>3. /\ ~EpochMismatch(s, rp.keyEpoch)
      /\ SessionOK(here, past) /\ here.scka = rp.st /\ EpochsMoved(s, here) /\ AvailableKept(s, here)
      /\ \A x \in DOMAIN s.kdfChains :
           /\ x >= e - 1 => x \in DOMAIN here.kdfChains
           /\ x \in DOMAIN here.kdfChains => here.kdfChains[x] = s.kdfChains[x]
  BY <1>1, ProviderStep
<1>4. out = IF id \in DOMAIN here.mkSkipped THEN TakeSkipped(here, id)
            ELSE ReceiveOnChain(here, rp.receivingEpoch, hdr.n)
  BY <1>3 DEF ReceiveKey, rp
<1> HIDE DEF here, out
<1>5. s.scka.peer \in DOMAIN s.kdfChains
  BY SessionFacts
<1>6. SendingKept(s, here)
  <2>1. here.scka.peer = s.scka.peer => here.scka.peer \in DOMAIN here.kdfChains
    BY <1>3, SessionFacts
  <2> QED
    BY <1>2, <1>3, <1>5, <2>1 DEF SendingKept, SentIn
<1>7. ASSUME NEW x \in DOMAIN here.kdfChains, x \in DOMAIN s.kdfChains
      PROVE  RootIn(here, x) = RootIn(s, x) /\ ReceivedIn(here, x) = ReceivedIn(s, x)
  BY <1>3, <1>7 DEF RootIn, ReceivedIn
<1>8. here.direction = s.direction
  BY <1>3 DEF EpochsMoved
<1>9. Available(here, e, n) => Available(s, e, n)
  <2> SUFFICES ASSUME Available(here, e, n) PROVE Available(s, e, n)
    OBVIOUS
  <2>1. e \in DOMAIN here.kdfChains
    BY DEF Available
  <2>2. e \in DOMAIN s.kdfChains
    BY <1>3, <2>1, SessionFacts DEF EpochsMoved
  <2> QED
    BY <1>3, <2>1, <2>2 DEF AvailableKept
<1>10. Available(s, e, n) => Available(here, e, n)
  <2> SUFFICES ASSUME Available(s, e, n) PROVE Available(here, e, n)
    OBVIOUS
  <2>1. e \in DOMAIN s.kdfChains /\ e \in DOMAIN here.kdfChains
    BY <1>3 DEF Available
  <2> QED
    BY <1>3, <2>1 DEF AvailableKept
<1>11. ASSUME NEW t, SameEpochs(here, t), SessionOK(t, past)
       PROVE  /\ EpochsMoved(s, t) /\ SendingKept(s, t)
              /\ t.scka.peer \in {s.scka.peer, e, hdr.msg.answer}
  <2>1. t.epoch = here.epoch /\ (t.epoch \in DOMAIN here.kdfChains)
    BY <1>3, <1>11, SessionFacts DEF SameEpochs
  <2>2. EpochsMoved(s, t)
    BY <1>3, <1>11, <2>1 DEF EpochsMoved, SameEpochs
  <2>3. t.scka.peer \in DOMAIN here.kdfChains /\ t.scka = here.scka
    BY <1>3, <1>11, SessionFacts DEF SameEpochs
  <2>4. SendingKept(s, t)
    BY <1>6, <1>11, <2>3 DEF SendingKept, SameEpochs
  <2> QED
    BY <1>1, <1>3, <2>2, <2>3, <2>4
<1>12. ASSUME NEW t, TookOne(here, t, e, n), SameEpochs(here, t) PROVE TookOne(s, t, e, n)
  <2> SUFFICES ASSUME NEW x \in DOMAIN t.kdfChains, NEW k \in Nat
               PROVE  Available(t, x, k) <=>
                        (x \in DOMAIN s.kdfChains => Available(s, x, k)) /\ <<x, k>> # <<e, n>>
    BY DEF TookOne
  <2>1. x \in DOMAIN here.kdfChains
    BY <1>12 DEF SameEpochs
  <2>2. Available(here, x, k) <=> (x \in DOMAIN s.kdfChains => Available(s, x, k))
    BY <1>3, <2>1 DEF AvailableKept
  <2> QED
    BY <1>12, <2>1, <2>2 DEF TookOne
<1>13. CASE id \in DOMAIN here.mkSkipped
  <2> DEFINE got == TakeSkipped(here, <<e, n>>)
  <2>1. /\ got.err = "ok" /\ got.key = KeyOf(RootIn(here, e), Opposite(here.direction), n)
        /\ SessionOK(got.s, past) /\ SameEpochs(here, got.s) /\ EpochsMoved(here, got.s)
        /\ Available(here, e, n) /\ TookOne(here, got.s, e, n)
    BY <1>1, <1>3, <1>13, TakeSkippedFacts
  <2>2. out = got
    BY <1>1, <1>4, <1>13
  <2> HIDE DEF got
  <2>3. RootIn(here, e) = RootIn(s, e)
    BY <1>7, <1>9, <2>1 DEF Available
  <2>4. got.key = KeyOf(RootIn(s, e), Opposite(s.direction), n)
    BY <1>8, <2>1, <2>3
  <2>5. TookOne(s, got.s, e, n)
    BY <1>12, <2>1
  <2>6. /\ EpochsMoved(s, got.s) /\ SendingKept(s, got.s)
        /\ got.s.scka.peer \in {s.scka.peer, e, hdr.msg.answer}
    BY <1>11, <2>1
  <2> QED
    BY <1>9, <2>1, <2>2, <2>4, <2>5, <2>6 DEF Received, out
<1>14. CASE id \notin DOMAIN here.mkSkipped
  <2> DEFINE got == ReceiveOnChain(here, e, n)
  <2>1. /\ got.err # "ErrAuthFailure" /\ (got.err # "ok" => got.s = here)
        /\ got.err = "ok" =>
             /\ got.key = KeyOf(RootIn(here, e), Opposite(here.direction), n)
             /\ SessionOK(got.s, past) /\ SameEpochs(here, got.s) /\ EpochsMoved(here, got.s)
             /\ Available(here, e, n) /\ TookOne(here, got.s, e, n)
        /\ Available(here, e, n) /\ n <= MaxSkip => got.err = "ok"
    BY <1>1, <1>3, <1>14, ReceiveOnChainFacts
  <2>2. out = got
    BY <1>1, <1>4, <1>14
  <2> HIDE DEF got
  <2>3. CASE got.err = "ok"
    <3>1. RootIn(here, e) = RootIn(s, e)
      BY <1>7, <1>9, <2>1, <2>3 DEF Available
    <3>2. got.key = KeyOf(RootIn(s, e), Opposite(s.direction), n)
      BY <1>8, <2>1, <2>3, <3>1
    <3>3. TookOne(s, got.s, e, n)
      BY <1>12, <2>1, <2>3
    <3>4. /\ EpochsMoved(s, got.s) /\ SendingKept(s, got.s)
          /\ got.s.scka.peer \in {s.scka.peer, e, hdr.msg.answer}
      BY <1>11, <2>1, <2>3
    <3> QED
      BY <1>9, <2>1, <2>2, <2>3, <3>2, <3>3, <3>4 DEF Received, out
  <2>4. CASE got.err # "ok"
    <3>1. got.s.scka.peer \in {s.scka.peer, e, hdr.msg.answer}
      BY <1>1, <1>3, <2>1, <2>4
    <3> QED
      BY <1>3, <1>6, <1>10, <2>1, <2>2, <2>4, <3>1 DEF Received, out
  <2> QED
    BY <2>3, <2>4
<1> QED
  BY <1>13, <1>14 DEF out

(* Decrypt() of a session, for a header of an epoch that the session       *)
(* knows.                                                                  *)
LEMMA DecryptFacts ==
  ASSUME NEW s, NEW past \in Nat, SessionOK(s, past), NEW hdr, NEW ad, NEW box,
         Understands(hdr.msg),
         hdr.msg.epoch \in Nat, hdr.msg.answer \in Nat, hdr.msg.epoch <= s.epoch, hdr.n \in Nat
  PROVE  Decrypted(s, past, hdr, ad, box, Decrypt(s, hdr, ad, box))
<1> DEFINE got == ReceiveKey(s, hdr)
           out == Decrypt(s, hdr, ad, box)
<1>1. Received(s, past, hdr, got)
  BY ReceiveKeyFacts
<1>2. Restore(got.s, s) = s
  <2>1. SPQRShape(s) /\ SPQRShape(got.s) /\ got.s.direction = s.direction
    BY <1>1, SessionFacts DEF Received, EpochsMoved, SessionOK
  <2> HIDE DEF got
  <2> QED
    BY <2>1 DEF Restore, SPQRShape, SPQRFields
<1>3. out = IF got.err # "ok" THEN got
            ELSE IF ~Opens(got.key, ad, box) THEN Failure("ErrAuthFailure", s) ELSE got
  BY <1>2 DEF Decrypt
<1> HIDE DEF got, out
<1>4. CASE got.err # "ok"
  BY <1>1, <1>3, <1>4 DEF Received, Decrypted, out
<1>5. CASE got.err = "ok" /\ ~Opens(got.key, ad, box)
  <2>1. out.err = "ErrAuthFailure" /\ out.s = s
    BY <1>3, <1>5 DEF Failure, Outcome
  <2> QED
    BY <1>1, <1>5, <2>1, Unmoved DEF Received, Decrypted, out
<1>6. CASE got.err = "ok" /\ Opens(got.key, ad, box)
  BY <1>1, <1>3, <1>6 DEF Received, Decrypted, out
<1> QED
  BY <1>4, <1>5, <1>6 DEF out

-----------------------------------------------------------------------------
(* The epoch a message was sent in.                                        *)
EpochOf(m) == m.hdr.msg.epoch

(* A message has the fields Encrypt gives it.                              *)
WellFormed(m) ==
  /\ DOMAIN m = {"from", "hdr", "box"} /\ m.from \in Party
  /\ DOMAIN m.hdr = {"msg", "n"} /\ DOMAIN m.hdr.msg = {"epoch", "offer", "answer"}
  /\ DOMAIN m.box = {"key", "ad", "text"}
  /\ EpochOf(m) \in Nat /\ m.hdr.msg.answer \in Nat /\ m.hdr.n \in Nat /\ m.box.text \in Nat
  /\ m.box.ad = BuildAD(m.from, Peer(m.from), m.hdr)

(* A message is what its sender, as the sender is now, may have sent: of   *)
(* an epoch its peer had reached, and of a number before the next.         *)
SentBefore(m) ==
  LET s == session[m.from]
  IN  /\ m.hdr.n < sent[m.from] /\ m.box.text < sent[m.from]
      /\ EpochOf(m) <= s.scka.peer /\ m.hdr.msg.answer <= s.epoch
      /\ EpochOf(m) = s.scka.peer => m.hdr.n < SentIn(s, EpochOf(m))

(* The key of a message is the one its receiver derives, as long as the    *)
(* receiver has the chains of the epoch.                                   *)
KeyAgrees(m) ==
  LET s == session[Peer(m.from)]
  IN  EpochOf(m) \in DOMAIN s.kdfChains =>
        m.box.key = KeyOf(RootIn(s, EpochOf(m)), Direction(m.from), m.hdr.n)

-----------------------------------------------------------------------------
(* The variables have their types, and nothing has been accepted twice.    *)
TypeInv ==
  /\ session = [p \in Party |-> session[p]]
  /\ sent \in [Party -> Nat] /\ \A p \in Party : sent[p] <= MaxSends
  /\ accepted = [p \in Party |-> accepted[p]]
  /\ \A p \in Party : \A x \in accepted[p] : x \in Nat /\ x < sent[Peer(p)]
  /\ replayed = [p \in Party |-> {}]

(* Both sessions are what the first part says of one.                      *)
SessionsOK ==
  \A p \in Party : SessionOK(session[p], sent[p]) /\ session[p].direction = Direction(p)

(* What a provider knows of its peer is true: the peer is in that epoch or *)
(* later. This is what makes it safe for a sender to use an epoch at once. *)
PeersKnown == \A p \in Party : session[p].scka.peer <= session[Peer(p)].epoch

(* The parties agree on the root of every epoch both have chains of.       *)
RootsAgree ==
  \A p \in Party : \A e \in DOMAIN session[p].kdfChains \cap DOMAIN session[Peer(p)].kdfChains :
    RootIn(session[p], e) = RootIn(session[Peer(p)], e)

(* Every message sent is well formed, of its sender's past and under the   *)
(* receiver's key.                                                         *)
MessagesOK == \A m \in network : WellFormed(m) /\ SentBefore(m) /\ KeyAgrees(m)

(* A sender gives a text one message and an epoch and number one message.  *)
Distinct ==
  \A m, x \in network :
    /\ m.from = x.from
    /\ m.box.text = x.box.text \/ (EpochOf(m) = EpochOf(x) /\ m.hdr.n = x.hdr.n)
    => m = x

(* The keys a party has not used for sending are all available to its      *)
(* peer.                                                                   *)
UnsentAvailable ==
  \A p \in Party : \A e \in DOMAIN session[p].kdfChains, k \in Nat :
    LET s == session[Peer(p)]
    IN  e > s.scka.peer \/ (e = s.scka.peer /\ k >= SentIn(s, e)) => Available(session[p], e, k)

(* Of the messages sent, the receiver still has the key available exactly  *)
(* of those that it has not accepted.                                      *)
OutstandingAvailable ==
  \A m \in network :
    LET p == Peer(m.from)
    IN  EpochOf(m) \in DOMAIN session[p].kdfChains =>
          (Available(session[p], EpochOf(m), m.hdr.n) <=> m.box.text \notin accepted[p])

(* The inductive invariant.                                                *)
SPQRInv ==
  /\ TypeInv /\ SessionsOK /\ PeersKnown /\ RootsAgree /\ MessagesOK /\ Distinct
  /\ UnsentAvailable /\ OutstandingAvailable

-----------------------------------------------------------------------------
(* There are two parties.                                                  *)
LEMMA Parties ==
  \A p \in Party : /\ Peer(p) \in Party /\ Peer(p) # p /\ Peer(Peer(p)) = p
                   /\ Direction(Peer(p)) = Opposite(Direction(p))
                   /\ \A x \in Party : x = p \/ x = Peer(p)
BY PartyAssumption DEF Party, Peer, Direction, Opposite

(* The invariant holds initially: both parties have the chains of epoch 0. *)
LEMMA InitSPQRInv == Init => SPQRInv
<1> SUFFICES ASSUME Init PROVE SPQRInv
  OBVIOUS
<1>1. ASSUME NEW dir, NEW s, s = InitSCKA(dir)
      PROVE  /\ SessionOK(s, 0) /\ s.direction = dir /\ s.scka.peer = 0 /\ s.epoch = 0
             /\ DOMAIN s.kdfChains = {0} /\ RootIn(s, 0) = InitialRootKey
             /\ \A k \in Nat : Available(s, 0, k)
  <2>1. /\ SPQRShape(s) /\ s.rk = InitialRootKey /\ s.epoch = 0 /\ s.direction = dir
        /\ s.kdfChains = [e \in {0} |-> ChainPair(InitialRootKey, dir)]
        /\ s.mkSkipped = << >> /\ s.scka = InitProvider(dir = "A2B")
    BY <1>1 DEF InitSCKA, SPQRShape, SPQRFields
  <2>2. /\ DOMAIN s.kdfChains[0] = {"send", "receive"}
        /\ s.kdfChains[0].send = ChainOf(InitialRootKey, dir, 0)
        /\ s.kdfChains[0].receive = ChainOf(InitialRootKey, Opposite(dir), 0)
    BY <2>1 DEF ChainPair, KDFChain, ChainOf
  <2>3. RootIn(s, 0) = InitialRootKey /\ ReceivedIn(s, 0) = 0
    BY <2>2 DEF RootIn, ReceivedIn, ChainOf
  <2>4. ProviderOK(s.scka) /\ s.scka.peer = 0 /\ s.scka.epoch = 0
    BY <2>1 DEF InitProvider, ProviderOK
  <2>5. EpochOK(s, 0, 0)
    BY <2>1, <2>2, <2>3 DEF EpochOK
  <2>6. SessionOK(s, 0)
    BY <2>1, <2>3, <2>4, <2>5 DEF SessionOK, ChainsOK
  <2>7. ASSUME NEW k \in Nat PROVE Available(s, 0, k)
    BY <2>1, <2>3 DEF Available
  <2> QED
    BY <2>1, <2>3, <2>4, <2>6, <2>7
<1>2. ASSUME NEW p \in Party
      PROVE  /\ session[p] = InitSCKA(Direction(p)) /\ sent[p] = 0 /\ accepted[p] = {}
  BY DEF Init
<1>3. TypeInv
  BY BoundAssumption DEF Init, TypeInv
<1>4. \A p \in Party : /\ SessionOK(session[p], 0) /\ session[p].direction = Direction(p)
                       /\ session[p].scka.peer = 0 /\ session[p].epoch = 0
                       /\ DOMAIN session[p].kdfChains = {0} /\ RootIn(session[p], 0) = InitialRootKey
                       /\ \A k \in Nat : Available(session[p], 0, k)
  BY <1>1, <1>2
<1>5. SessionsOK /\ PeersKnown /\ RootsAgree /\ UnsentAvailable
  BY <1>2, <1>4, Parties DEF SessionsOK, PeersKnown, RootsAgree, UnsentAvailable
<1>6. network = {}
  BY DEF Init
<1> QED
  BY <1>3, <1>5, <1>6 DEF SPQRInv, MessagesOK, Distinct, OutstandingAvailable

(* A step moves the session of one party, p, to t; now is the number of    *)
(* its Encrypts after the step.                                            *)
PartyMoved(p, t, now) ==
  /\ session' = [session EXCEPT ![p] = t]
  /\ sent' \in [Party -> Nat] /\ sent'[p] = now /\ sent'[Peer(p)] = sent[Peer(p)]
  /\ SessionOK(t, now) /\ EpochsMoved(session[p], t)
  /\ t.scka.peer <= session[Peer(p)].epoch

(* What any step of one party keeps: the sessions stay in step and the     *)
(* keys of messages in flight stay those of the receiver. That the other   *)
(* party has already begun the epoch p begins, with the same root, is the  *)
(* interesting case.                                                       *)
LEMMA PartyMovedInv ==
  ASSUME SPQRInv, NEW p \in Party, NEW t, NEW now, PartyMoved(p, t, now)
  PROVE  /\ session' = [x \in Party |-> session'[x]]
         /\ session'[p] = t /\ session'[Peer(p)] = session[Peer(p)]
         /\ SessionsOK' /\ PeersKnown' /\ RootsAgree' /\ \A m \in network : KeyAgrees(m)'
<1> DEFINE q == Peer(p)
           s == session[p]
           o == session[q]
<1>1. q \in Party /\ q # p /\ Peer(q) = p /\ \A x \in Party : x = p \/ x = q
  BY Parties
<1>2. /\ session' = [x \in Party |-> session'[x]] /\ session'[p] = t /\ session'[q] = o
      /\ sent'[p] = now /\ sent'[q] = sent[q]
  BY <1>1 DEF PartyMoved, SPQRInv, TypeInv
<1>3. /\ SessionOK(s, sent[p]) /\ SessionOK(o, sent[q]) /\ SessionOK(t, now)
      /\ s.direction = Direction(p) /\ o.direction = Direction(q)
      /\ s.scka.peer <= o.epoch /\ o.scka.peer <= s.epoch /\ t.scka.peer <= o.epoch
  BY <1>1 DEF SPQRInv, SessionsOK, PeersKnown, PartyMoved
<1>4. EpochsMoved(s, t)
  BY DEF PartyMoved
<1>5. SessionsOK'
  BY <1>1, <1>2, <1>3, <1>4 DEF SessionsOK, EpochsMoved
<1>6. PeersKnown'
  <2>1. s.epoch \in Nat /\ t.epoch \in Nat /\ o.scka.peer \in Nat /\ t.epoch >= s.epoch
    BY <1>3, <1>4, SessionFacts DEF EpochsMoved
  <2>2. o.scka.peer <= t.epoch
    BY <1>3, <2>1
  <2> QED
    BY <1>1, <1>2, <1>3, <2>2 DEF PeersKnown
<1>7. \A e \in DOMAIN s.kdfChains \cap DOMAIN o.kdfChains : RootIn(s, e) = RootIn(o, e)
  BY <1>1 DEF SPQRInv, RootsAgree
<1>8. ASSUME NEW e \in DOMAIN t.kdfChains, e \in DOMAIN o.kdfChains
      PROVE  RootIn(t, e) = RootIn(o, e)
  <2>1. CASE e \in DOMAIN s.kdfChains
    BY <1>4, <1>7, <1>8, <2>1 DEF EpochsMoved
  <2>2. CASE e \notin DOMAIN s.kdfChains
    <3>1. /\ e = s.epoch + 1 /\ e = t.epoch
          /\ RootIn(t, e) = DeriveRoot(RootIn(s, s.epoch), OutputKey(e))
      BY <1>4, <2>2 DEF EpochsMoved
    <3>2. o.epoch = e /\ s.epoch \in Nat
      <4>1. s.epoch \in Nat /\ o.epoch \in Nat /\ o.epoch >= e /\ o.epoch <= o.scka.peer + 1
            /\ o.scka.peer \in Nat
        BY <1>3, <1>8, SessionFacts
      <4> QED
        BY <1>3, <3>1, <4>1
    <3>3. o.rk = RootIn(o, e) /\ o.rk = DeriveRoot(RootIn(o, s.epoch), OutputKey(e))
      BY <1>3, <3>1, <3>2, SessionFacts
    <3>4. s.epoch \in DOMAIN s.kdfChains /\ s.epoch \in DOMAIN o.kdfChains
      BY <1>3, <3>1, <3>2, SessionFacts
    <3> QED
      BY <1>7, <3>1, <3>3, <3>4
  <2> QED
    BY <2>1, <2>2
<1>9. RootsAgree'
  BY <1>1, <1>2, <1>8 DEF RootsAgree
<1>10. ASSUME NEW m \in network PROVE KeyAgrees(m)'
  <2>1. KeyAgrees(m) /\ WellFormed(m) /\ SentBefore(m) /\ m.from \in Party
    BY DEF SPQRInv, MessagesOK, WellFormed
  <2>2. CASE m.from = p
    BY <1>2, <2>1, <2>2 DEF KeyAgrees, EpochOf
  <2>3. CASE m.from = q
    <3>1. EpochOf(m) \in Nat /\ EpochOf(m) <= s.epoch
      <4>1. EpochOf(m) \in Nat /\ EpochOf(m) <= o.scka.peer
        BY <2>1, <2>3 DEF WellFormed, SentBefore
      <4> QED
        BY <1>3, <4>1, SessionFacts
    <3>2. EpochOf(m) \in DOMAIN t.kdfChains => EpochOf(m) \in DOMAIN s.kdfChains
      BY <1>3, <1>4, <3>1, SessionFacts DEF EpochsMoved
    <3>3. EpochOf(m) \in DOMAIN t.kdfChains => RootIn(t, EpochOf(m)) = RootIn(s, EpochOf(m))
      BY <1>4, <3>2 DEF EpochsMoved
    <3>4. EpochOf(m) \in DOMAIN s.kdfChains =>
            m.box.key = KeyOf(RootIn(s, EpochOf(m)), Direction(q), m.hdr.n)
      BY <1>1, <2>1, <2>3 DEF KeyAgrees
    <3> QED
      BY <1>1, <1>2, <2>3, <3>2, <3>3, <3>4 DEF KeyAgrees, EpochOf
  <2> QED
    BY <1>1, <2>1, <2>2, <2>3
<1> QED
  BY <1>2, <1>5, <1>6, <1>9, <1>10

(* Encrypt keeps the invariant.                                            *)
LEMMA EncryptInv ==
  ASSUME SPQRInv, NEW p \in Party, Encrypt(p)
  PROVE  SPQRInv'
<1> DEFINE q   == Peer(p)
           o   == session[q]
<1>0. PICK s, out, t, e, n, new, num :
        /\ s = session[p] /\ out = SendKey(s) /\ t = out.s /\ e = s.scka.peer /\ n = out.hdr.n
        /\ num = sent[p]
        /\ new = [from |-> p, hdr |-> out.hdr, box |-> Seal(out.key, BuildAD(p, q, out.hdr), num)]
  OBVIOUS
<1>1. q \in Party /\ q # p /\ Peer(q) = p /\ \A x \in Party : x = p \/ x = q
  BY Parties
<1>2. /\ num = sent[p] /\ num < MaxSends /\ session' = [session EXCEPT ![p] = t]
      /\ sent' = [sent EXCEPT ![p] = @ + 1] /\ network' = network \cup {new}
      /\ accepted' = accepted /\ replayed' = replayed
  BY <1>0 DEF Encrypt
<1>3. /\ TypeInv /\ sent \in [Party -> Nat] /\ num \in Nat
      /\ SessionOK(s, num) /\ s.direction = Direction(p) /\ s.scka.peer <= o.epoch
      /\ SessionOK(o, sent[q]) /\ o.scka.peer <= s.epoch
  BY <1>0, <1>1 DEF SPQRInv, TypeInv, SessionsOK, PeersKnown
<1>4. /\ SessionOK(t, num + 1) /\ EpochsMoved(s, t) /\ AvailableKept(s, t)
      /\ t.scka.peer = e /\ e \in DOMAIN s.kdfChains /\ e \in DOMAIN t.kdfChains
      /\ out.hdr = [msg |-> out.hdr.msg, n |-> n] /\ n \in 0 .. num
      /\ out.hdr.msg = [epoch |-> e, offer |-> out.hdr.msg.offer, answer |-> out.hdr.msg.answer]
      /\ out.hdr.msg.answer \in Nat /\ out.hdr.msg.answer <= t.epoch
      /\ SentIn(s, e) = n /\ SentIn(t, e) = n + 1
      /\ out.key = KeyOf(RootIn(s, e), s.direction, n)
  BY <1>0, <1>3, SendKeyFacts
<1>5. PartyMoved(p, t, num + 1)
  BY <1>0, <1>1, <1>2, <1>3, <1>4 DEF PartyMoved
<1>6. /\ session' = [x \in Party |-> session'[x]] /\ session'[p] = t /\ session'[q] = o
      /\ SessionsOK' /\ PeersKnown' /\ RootsAgree' /\ \A m \in network : KeyAgrees(m)'
  BY <1>5, PartyMovedInv
<1>7. sent'[p] = num + 1 /\ sent'[q] = sent[q] /\ sent[q] \in Nat
  BY <1>1, <1>2, <1>3
<1>8. TypeInv'
  <2>1. /\ sent' \in [Party -> Nat] /\ \A x \in Party : sent'[x] <= MaxSends
    BY <1>1, <1>2, <1>3, <1>7, BoundAssumption DEF TypeInv
  <2>2. \A x \in Party : \A y \in accepted'[x] : y \in Nat /\ y < sent'[Peer(x)]
    BY <1>1, <1>2, <1>3, <1>7 DEF TypeInv
  <2> QED
    BY <1>2, <1>3, <1>6, <2>1, <2>2 DEF TypeInv
<1>9. e \in Nat /\ s.epoch \in Nat /\ t.epoch \in Nat /\ t.epoch >= s.epoch /\ e <= t.epoch
  BY <1>3, <1>4, SessionFacts DEF EpochsMoved
<1>10. /\ new.from = p /\ new.hdr = out.hdr /\ EpochOf(new) = e /\ new.hdr.n = n
       /\ new.box.text = num /\ new.box.key = out.key
  BY <1>0, <1>4 DEF EpochOf, Seal
<1>11. WellFormed(new)
  <2>1. DOMAIN new = {"from", "hdr", "box"} /\ DOMAIN new.box = {"key", "ad", "text"}
        /\ new.box.ad = BuildAD(p, q, new.hdr)
    BY <1>0 DEF Seal
  <2>2. DOMAIN new.hdr = {"msg", "n"} /\ DOMAIN new.hdr.msg = {"epoch", "offer", "answer"}
        /\ new.hdr.msg.answer \in Nat
    BY <1>4, <1>10
  <2> QED
    BY <1>3, <1>4, <1>9, <1>10, <2>1, <2>2 DEF WellFormed
<1>12. SentBefore(new)'
  <2>1. n < num + 1 /\ num < num + 1 /\ n < n + 1
    BY <1>3, <1>4
  <2> QED
    BY <1>4, <1>6, <1>7, <1>9, <1>10, <2>1 DEF SentBefore, EpochOf
<1>13. ASSUME NEW m \in network PROVE WellFormed(m) /\ SentBefore(m)'
  <2>1. WellFormed(m) /\ SentBefore(m) /\ m.from \in Party
    BY DEF SPQRInv, MessagesOK, WellFormed
  <2>2. CASE m.from = q
    BY <1>1, <1>6, <1>7, <2>1, <2>2 DEF SentBefore, EpochOf
  <2>3. CASE m.from = p
    <3>1. /\ m.hdr.n < num /\ m.box.text < num /\ EpochOf(m) <= e /\ m.hdr.msg.answer <= s.epoch
          /\ EpochOf(m) = e => m.hdr.n < n
      BY <1>0, <1>4, <2>1, <2>3 DEF SentBefore
    <3>2. m.hdr.n \in Nat /\ m.box.text \in Nat /\ m.hdr.msg.answer \in Nat
      BY <2>1 DEF WellFormed
    <3>3. m.hdr.n < num + 1 /\ m.box.text < num + 1 /\ m.hdr.msg.answer <= t.epoch
          /\ (EpochOf(m) = e => m.hdr.n < n + 1)
      BY <1>3, <1>4, <1>9, <3>1, <3>2
    <3> QED
      BY <1>4, <1>6, <1>7, <2>1, <2>3, <3>1, <3>3 DEF SentBefore, EpochOf
  <2> QED
    BY <1>1, <2>1, <2>2, <2>3
<1>14. KeyAgrees(new)'
  <2>1. e \in DOMAIN o.kdfChains => RootIn(o, e) = RootIn(s, e)
    BY <1>0, <1>1, <1>4 DEF SPQRInv, RootsAgree
  <2>2. e \in DOMAIN o.kdfChains => new.box.key = KeyOf(RootIn(o, e), Direction(p), n)
    BY <1>3, <1>4, <1>10, <2>1
  <2> HIDE DEF o, q
  <2>3. session'[Peer(new.from)] = o
    BY <1>6, <1>10 DEF q
  <2> QED
    BY <1>10, <2>2, <2>3 DEF KeyAgrees, EpochOf
<1>15. MessagesOK'
  BY <1>2, <1>6, <1>11, <1>12, <1>13, <1>14 DEF MessagesOK, WellFormed, EpochOf
<1>16. Distinct'
  <2>1. ASSUME NEW m \in network, m.from = p
        PROVE  m.box.text # num /\ ~(EpochOf(m) = e /\ m.hdr.n = n)
    <3>1. WellFormed(m) /\ SentBefore(m)
      BY DEF SPQRInv, MessagesOK
    <3>2. m.box.text \in Nat /\ m.box.text < num /\ m.hdr.n \in Nat /\ (EpochOf(m) = e => m.hdr.n < n)
      BY <1>0, <1>4, <2>1, <3>1 DEF WellFormed, SentBefore
    <3> QED
      BY <1>3, <1>4, <3>2
  <2>2. Distinct
    BY DEF SPQRInv
  <2> QED
    BY <1>2, <1>10, <2>1, <2>2 DEF Distinct, EpochOf
<1>17. UnsentAvailable'
  <2> SUFFICES ASSUME NEW x \in Party, NEW y \in DOMAIN session'[x].kdfChains, NEW k \in Nat,
                      y > session'[Peer(x)].scka.peer
                        \/ (y = session'[Peer(x)].scka.peer /\ k >= SentIn(session'[Peer(x)], y))
               PROVE  Available(session'[x], y, k)
    BY DEF UnsentAvailable
  <2>1. CASE x = p
    <3>1. y \in DOMAIN s.kdfChains => Available(s, y, k)
      BY <1>0, <1>1, <1>6, <2>1 DEF SPQRInv, UnsentAvailable
    <3> QED
      BY <1>4, <1>6, <2>1, <3>1 DEF AvailableKept
  <2>2. CASE x = q
    <3>1. y > e \/ (y = e /\ k >= n)
      BY <1>1, <1>4, <1>6, <2>2
    <3>2. Available(o, y, k)
      BY <1>0, <1>1, <1>4, <1>6, <2>2, <3>1 DEF SPQRInv, UnsentAvailable
    <3> QED
      BY <1>6, <2>2, <3>2
  <2> QED
    BY <1>1, <2>1, <2>2
<1>18. OutstandingAvailable'
  <2> SUFFICES ASSUME NEW m \in network', EpochOf(m) \in DOMAIN session'[Peer(m.from)].kdfChains
               PROVE  Available(session'[Peer(m.from)], EpochOf(m), m.hdr.n)
                        <=> m.box.text \notin accepted[Peer(m.from)]
    BY <1>2 DEF OutstandingAvailable, EpochOf
  <2>1. CASE m = new
    <3>1. e \in DOMAIN o.kdfChains
      BY <1>6, <1>10, <2>1
    <3>2. Available(o, e, n)
      BY <1>0, <1>1, <1>4, <3>1 DEF SPQRInv, UnsentAvailable
    <3>3. num \notin accepted[q]
      BY <1>0, <1>1, <1>3 DEF TypeInv
    <3> QED
      BY <1>6, <1>10, <2>1, <3>2, <3>3
  <2>2. CASE m \in network /\ m.from = p
    BY <1>6, <2>2 DEF SPQRInv, OutstandingAvailable
  <2>3. CASE m \in network /\ m.from = q
    <3>1. SentBefore(m) /\ WellFormed(m)
      BY <2>3 DEF SPQRInv, MessagesOK
    <3>2. EpochOf(m) \in Nat /\ EpochOf(m) <= s.epoch /\ m.hdr.n \in Nat
      <4>1. EpochOf(m) \in Nat /\ EpochOf(m) <= o.scka.peer /\ m.hdr.n \in Nat
        BY <2>3, <3>1 DEF SentBefore, WellFormed
      <4> QED
        BY <1>3, <4>1, SessionFacts
    <3>3. EpochOf(m) \in DOMAIN t.kdfChains
      BY <1>1, <1>6, <2>3
    <3>4. EpochOf(m) \in DOMAIN s.kdfChains
      BY <1>3, <1>4, <3>2, <3>3, SessionFacts DEF EpochsMoved
    <3>5. Available(t, EpochOf(m), m.hdr.n) <=> Available(s, EpochOf(m), m.hdr.n)
      BY <1>4, <3>2, <3>3, <3>4 DEF AvailableKept
    <3>6. Available(s, EpochOf(m), m.hdr.n) <=> m.box.text \notin accepted[p]
      BY <1>0, <1>1, <2>3, <3>4 DEF SPQRInv, OutstandingAvailable
    <3> QED
      BY <1>1, <1>6, <2>3, <3>5, <3>6
  <2>4. m \in network => m.from \in Party
    BY DEF SPQRInv, MessagesOK, WellFormed
  <2> QED
    BY <1>1, <1>2, <2>1, <2>2, <2>3, <2>4
<1> QED
  BY <1>6, <1>8, <1>15, <1>16, <1>17, <1>18 DEF SPQRInv

-----------------------------------------------------------------------------
(* What any Decrypt keeps, accepting or not: messages in flight stay of    *)
(* their sender's past, though the epoch the sender sends in may have      *)
(* moved.                                                                  *)
LEMMA ReceiverMovedInv ==
  ASSUME SPQRInv, NEW p \in Party, NEW t, PartyMoved(p, t, sent[p]),
         SendingKept(session[p], t), sent' = sent, network' = network
  PROVE  MessagesOK' /\ Distinct'
<1> DEFINE q == Peer(p)
           s == session[p]
           o == session[q]
<1>1. q \in Party /\ q # p /\ Peer(q) = p /\ \A x \in Party : x = p \/ x = q
  BY Parties
<1>2. session'[p] = t /\ session'[q] = o /\ \A m \in network : KeyAgrees(m)'
  BY PartyMovedInv
<1>3. SessionOK(s, sent[p]) /\ SessionOK(t, sent[p]) /\ EpochsMoved(s, t)
  BY DEF SPQRInv, SessionsOK, PartyMoved
<1>4. /\ s.scka.peer \in Nat /\ t.scka.peer \in Nat /\ t.scka.peer >= s.scka.peer
      /\ s.epoch \in Nat /\ t.epoch \in Nat /\ t.epoch >= s.epoch
  BY <1>3, SessionFacts DEF SendingKept, EpochsMoved
<1>5. ASSUME NEW m \in network PROVE WellFormed(m) /\ SentBefore(m)'
  <2>1. WellFormed(m) /\ SentBefore(m) /\ m.from \in Party
    BY DEF SPQRInv, MessagesOK, WellFormed
  <2>2. CASE m.from = q
    BY <1>1, <1>2, <2>1, <2>2 DEF SentBefore, EpochOf
  <2>3. CASE m.from = p
    <3>1. /\ m.hdr.n < sent[p] /\ m.box.text < sent[p] /\ EpochOf(m) <= s.scka.peer
          /\ m.hdr.msg.answer <= s.epoch
          /\ EpochOf(m) = s.scka.peer => m.hdr.n < SentIn(s, EpochOf(m))
      BY <2>1, <2>3 DEF SentBefore
    <3>2. EpochOf(m) \in Nat /\ m.hdr.msg.answer \in Nat
      BY <2>1 DEF WellFormed
    <3>3. EpochOf(m) <= t.scka.peer /\ m.hdr.msg.answer <= t.epoch
      BY <1>4, <3>1, <3>2
    <3>4. EpochOf(m) = t.scka.peer => m.hdr.n < SentIn(t, EpochOf(m))
      <4> SUFFICES ASSUME EpochOf(m) = t.scka.peer PROVE m.hdr.n < SentIn(t, EpochOf(m))
        OBVIOUS
      <4>1. t.scka.peer = s.scka.peer
        BY <1>4, <3>1, <3>2
      <4> QED
        BY <3>1, <4>1 DEF SendingKept
    <3> QED
      BY <1>2, <2>1, <2>3, <3>1, <3>3, <3>4 DEF SentBefore, EpochOf
  <2> QED
    BY <1>1, <2>1, <2>2, <2>3
<1> QED
  BY <1>2, <1>5 DEF MessagesOK, Distinct, SPQRInv, WellFormed, EpochOf

(* What p has not sent stays available to its peer when p moves in a       *)
(* Decrypt.                                                                *)
LEMMA ReceiverMovedUnsent ==
  ASSUME SPQRInv, NEW p \in Party, NEW t, PartyMoved(p, t, sent[p]), SendingKept(session[p], t)
  PROVE  \A e \in DOMAIN session[Peer(p)].kdfChains, k \in Nat :
           e > t.scka.peer \/ (e = t.scka.peer /\ k >= SentIn(t, e)) =>
             Available(session[Peer(p)], e, k)
<1> DEFINE q == Peer(p)
           s == session[p]
           o == session[q]
<1>1. q \in Party /\ Peer(q) = p
  BY Parties
<1>2. SessionOK(s, sent[p]) /\ SessionOK(t, sent[p]) /\ SessionOK(o, sent[q])
  BY <1>1 DEF SPQRInv, SessionsOK, PartyMoved
<1>3. s.scka.peer \in Nat /\ t.scka.peer \in Nat /\ t.scka.peer >= s.scka.peer
  BY <1>2, SessionFacts DEF SendingKept
<1>4. \A e \in DOMAIN o.kdfChains : e \in Nat
  BY <1>2, SessionFacts
<1> SUFFICES ASSUME NEW e \in DOMAIN o.kdfChains, NEW k \in Nat,
                    e > t.scka.peer \/ (e = t.scka.peer /\ k >= SentIn(t, e))
             PROVE  Available(o, e, k)
  OBVIOUS
<1>5. e > s.scka.peer \/ (e = s.scka.peer /\ k >= SentIn(s, e))
  <2>1. CASE e > s.scka.peer
    BY <2>1
  <2>2. CASE ~(e > s.scka.peer)
    <3>1. e = t.scka.peer /\ t.scka.peer = s.scka.peer /\ k >= SentIn(t, e)
      BY <1>3, <1>4, <2>2
    <3> QED
      BY <3>1 DEF SendingKept
  <2> QED
    BY <2>1, <2>2
<1> QED
  BY <1>1, <1>5 DEF SPQRInv, UnsentAvailable

(* What arrives for a message: its own header, one with another number, or *)
(* one the provider does not understand; its own body, or one under a      *)
(* foreign key.                                                            *)
LEMMA ArrivalFacts ==
  ASSUME NEW m, WellFormed(m), NEW a \in Arrivals(m)
  PROVE  /\ a.hdr.msg = BadMsg \/ (a.hdr.msg = m.hdr.msg /\ a.hdr.n \in Nat)
         /\ a.box.ad = m.box.ad /\ a.box.text = m.box.text /\ a.box.key \in {m.box.key, ForeignKey}
         /\ DOMAIN a.hdr = {"msg", "n"}
<1>1. /\ DOMAIN m = {"from", "hdr", "box"} /\ DOMAIN m.hdr = {"msg", "n"}
      /\ DOMAIN m.box = {"key", "ad", "text"} /\ m.hdr.n \in Nat
  BY DEF WellFormed
<1>2. CASE a = m
  BY <1>1, <1>2
<1>3. CASE a = [m EXCEPT !.hdr.msg = BadMsg]
  BY <1>1, <1>3
<1>4. ASSUME NEW k \in 0 .. MaxNumber, a = [m EXCEPT !.hdr.n = k]
      PROVE  /\ a.hdr.msg = m.hdr.msg /\ a.hdr.n \in Nat /\ a.box = m.box
             /\ DOMAIN a.hdr = {"msg", "n"}
  BY <1>1, <1>4
<1>5. CASE a = [m EXCEPT !.box.key = ForeignKey]
  BY <1>1, <1>5
<1> QED
  BY <1>1, <1>2, <1>3, <1>4, <1>5 DEF Arrivals, Intact, DamagedHeader, DamagedBody

(* Decrypt of an arrival: DecryptFacts applies, or the header is refused   *)
(* and nothing changes.                                                    *)
LEMMA ArrivalDecrypted ==
  ASSUME SPQRInv, NEW p \in Party, NEW m \in network, m.from = Peer(p), NEW a \in Arrivals(m)
  PROVE  LET out == DecryptArrival(p, a)
             ad  == BuildAD(Peer(p), p, a.hdr)
         IN  \/ out.err # "ok" /\ out.s = session[p]
             \/ a.hdr.msg = m.hdr.msg /\ Decrypted(session[p], sent[p], a.hdr, ad, a.box, out)
<1> DEFINE q   == Peer(p)
           s   == session[p]
           ad  == BuildAD(q, p, a.hdr)
           out == DecryptArrival(p, a)
<1>1. WellFormed(m) /\ SentBefore(m) /\ q \in Party /\ Peer(q) = p
  BY Parties DEF SPQRInv, MessagesOK
<1>2. /\ SessionOK(s, sent[p]) /\ SessionOK(session[q], sent[q])
      /\ session[q].scka.peer <= s.epoch /\ sent[p] \in Nat
  BY <1>1 DEF SPQRInv, SessionsOK, PeersKnown, TypeInv
<1>3. CASE a.hdr.msg = BadMsg
  BY <1>3 DEF DecryptArrival, Decrypt, ReceiveKey, Understands, Failure, Outcome
<1>4. CASE a.hdr.msg # BadMsg
  <2>1. a.hdr.msg = m.hdr.msg /\ a.hdr.n \in Nat
    BY <1>1, <1>4, ArrivalFacts
  <2>2. EpochOf(m) \in Nat /\ m.hdr.msg.answer \in Nat /\ EpochOf(m) <= session[q].scka.peer
    BY <1>1 DEF WellFormed, SentBefore
  <2>3. EpochOf(m) <= s.epoch
    BY <1>2, <2>2, SessionFacts
  <2>4. /\ Understands(a.hdr.msg) /\ a.hdr.msg.epoch \in Nat /\ a.hdr.msg.answer \in Nat
        /\ a.hdr.msg.epoch <= s.epoch
    BY <1>4, <2>1, <2>2, <2>3 DEF Understands, EpochOf
  <2>5. Decrypted(s, sent[p], a.hdr, ad, a.box, Decrypt(s, a.hdr, ad, a.box))
    BY <1>2, <2>1, <2>4, DecryptFacts
  <2> QED
    BY <2>1, <2>5 DEF DecryptArrival
<1> QED
  BY <1>3, <1>4

(* An accepting Decrypt keeps the invariant. The message is Encrypt's own, *)
(* header included, because the associated data binds the header; so the   *)
(* one key it takes is that of the one message it accepts.                 *)
LEMMA AcceptInv ==
  ASSUME SPQRInv, NEW p \in Party, DecryptAccepts(p)
  PROVE  SPQRInv'
<1> DEFINE q == Peer(p)
           o == session[q]
<1>1. q \in Party /\ q # p /\ Peer(q) = p /\ \A x \in Party : x = p \/ x = q
  BY Parties
<1>2. PICK m \in network : \E a \in Arrivals(m) :
        LET out == DecryptArrival(p, a)
        IN  /\ m.from = q /\ out.err = "ok" /\ session' = [session EXCEPT ![p] = out.s]
            /\ accepted' = [accepted EXCEPT ![p] = @ \cup {a.box.text}]
            /\ replayed' = [replayed EXCEPT ![p] = @ \cup ({a.box.text} \cap accepted[p])]
            /\ UNCHANGED <<sent, network>>
  BY DEF DecryptAccepts
<1>3. PICK a \in Arrivals(m) :
        LET out == DecryptArrival(p, a)
        IN  /\ m.from = q /\ out.err = "ok" /\ session' = [session EXCEPT ![p] = out.s]
            /\ accepted' = [accepted EXCEPT ![p] = @ \cup {a.box.text}]
            /\ replayed' = [replayed EXCEPT ![p] = @ \cup ({a.box.text} \cap accepted[p])]
            /\ UNCHANGED <<sent, network>>
  BY <1>2
<1>4. PICK s, t, e, n, text :
        /\ s = session[p] /\ t = DecryptArrival(p, a).s /\ e = EpochOf(m) /\ n = m.hdr.n
        /\ text = m.box.text
  OBVIOUS
<1>5. WellFormed(m) /\ SentBefore(m) /\ KeyAgrees(m)
  BY DEF SPQRInv, MessagesOK
<1>6. /\ a.hdr.msg = m.hdr.msg
      /\ Decrypted(s, sent[p], a.hdr, BuildAD(q, p, a.hdr), a.box, DecryptArrival(p, a))
  BY <1>3, <1>4, ArrivalDecrypted
<1>7. Opens(KeyOf(RootIn(s, e), Opposite(s.direction), a.hdr.n), BuildAD(q, p, a.hdr), a.box)
  BY <1>3, <1>4, <1>6 DEF Decrypted, EpochOf
<1>8. a.hdr = m.hdr /\ a.box.text = text
  BY <1>1, <1>3, <1>4, <1>5, <1>7, ArrivalFacts DEF Opens, WellFormed, BuildAD
<1>9. /\ SessionOK(t, sent[p]) /\ EpochsMoved(s, t) /\ SendingKept(s, t)
      /\ t.scka.peer \in {s.scka.peer, e, m.hdr.msg.answer}
      /\ Available(s, e, n) /\ TookOne(s, t, e, n)
  BY <1>3, <1>4, <1>6, <1>8 DEF Decrypted, EpochOf
<1>10. /\ session' = [session EXCEPT ![p] = t] /\ sent' = sent /\ network' = network
       /\ accepted' = [accepted EXCEPT ![p] = @ \cup {text}]
       /\ replayed' = [replayed EXCEPT ![p] = @ \cup ({text} \cap accepted[p])]
  BY <1>3, <1>4, <1>8
<1>11. /\ TypeInv /\ sent \in [Party -> Nat] /\ SessionOK(s, sent[p]) /\ s.scka.peer <= o.epoch
       /\ SessionOK(o, sent[q]) /\ o.scka.peer <= s.epoch
  BY <1>1, <1>4 DEF SPQRInv, TypeInv, SessionsOK, PeersKnown
<1>12. /\ e \in Nat /\ n \in Nat /\ text \in Nat /\ m.from = q
       /\ text < sent[q] /\ e <= o.scka.peer /\ m.hdr.msg.answer <= o.epoch
       /\ e = o.scka.peer => n < SentIn(o, e)
  BY <1>3, <1>4, <1>5 DEF WellFormed, SentBefore
<1>13. t.scka.peer <= o.epoch
  BY <1>9, <1>11, <1>12, SessionFacts
<1>14. PartyMoved(p, t, sent[p])
  BY <1>4, <1>9, <1>10, <1>11, <1>13 DEF PartyMoved
<1>15. /\ session' = [x \in Party |-> session'[x]] /\ session'[p] = t /\ session'[q] = o
       /\ SessionsOK' /\ PeersKnown' /\ RootsAgree' /\ MessagesOK' /\ Distinct'
  BY <1>4, <1>9, <1>10, <1>14, PartyMovedInv, ReceiverMovedInv
<1>16. text \notin accepted[p]
  BY <1>1, <1>4, <1>9, <1>12 DEF SPQRInv, OutstandingAvailable, Available
<1>17. TypeInv'
  <2>1. accepted' = [x \in Party |-> accepted'[x]] /\ accepted'[p] = accepted[p] \cup {text}
        /\ accepted'[q] = accepted[q]
    BY <1>1, <1>10 DEF SPQRInv, TypeInv
  <2>2. replayed' = [x \in Party |-> {}]
    BY <1>10, <1>16 DEF SPQRInv, TypeInv
  <2>3. \A x \in Party : \A y \in accepted'[x] : y \in Nat /\ y < sent'[Peer(x)]
    BY <1>1, <1>10, <1>12, <2>1 DEF SPQRInv, TypeInv
  <2> QED
    BY <1>10, <1>11, <1>15, <2>1, <2>2, <2>3 DEF TypeInv
<1>18. UnsentAvailable'
  <2> SUFFICES ASSUME NEW x \in Party, NEW y \in DOMAIN session'[x].kdfChains, NEW k \in Nat,
                      y > session'[Peer(x)].scka.peer
                        \/ (y = session'[Peer(x)].scka.peer /\ k >= SentIn(session'[Peer(x)], y))
               PROVE  Available(session'[x], y, k)
    BY DEF UnsentAvailable
  <2>1. CASE x = p
    <3>1. y > o.scka.peer \/ (y = o.scka.peer /\ k >= SentIn(o, y))
      BY <1>15, <2>1
    <3>2. y \in DOMAIN s.kdfChains => Available(s, y, k)
      BY <1>1, <1>4, <3>1 DEF SPQRInv, UnsentAvailable
    <3>3. <<y, k>> # <<e, n>>
      <4>1. o.scka.peer \in Nat /\ EpochOK(o, o.scka.peer, sent[q])
        BY <1>11, SessionFacts
      <4>2. PICK j \in 0 .. sent[q] :
              o.kdfChains[o.scka.peer].send = ChainOf(RootIn(o, o.scka.peer), o.direction, j)
        BY <4>1 DEF EpochOK
      <4>3. SentIn(o, o.scka.peer) \in Nat
        BY <4>2, <1>1, <1>11 DEF SentIn, ChainOf
      <4>4. y \in Nat
        BY <1>9, <1>15, <2>1, SessionFacts
      <4> QED
        BY <1>12, <3>1, <4>1, <4>3, <4>4
    <3> QED
      BY <1>9, <1>15, <2>1, <3>2, <3>3 DEF TookOne
  <2>2. CASE x = q
    <3>1. y \in DOMAIN o.kdfChains
          /\ (y > t.scka.peer \/ (y = t.scka.peer /\ k >= SentIn(t, y)))
      BY <1>1, <1>15, <2>2
    <3> HIDE DEF o
    <3>2. Available(o, y, k)
      BY <1>4, <1>9, <1>14, <3>1, ReceiverMovedUnsent DEF o
    <3> QED
      BY <1>15, <2>2, <3>2
  <2> QED
    BY <1>1, <2>1, <2>2
<1>19. OutstandingAvailable'
  <2> SUFFICES ASSUME NEW x \in network, EpochOf(x) \in DOMAIN session'[Peer(x.from)].kdfChains
               PROVE  Available(session'[Peer(x.from)], EpochOf(x), x.hdr.n)
                        <=> x.box.text \notin accepted'[Peer(x.from)]
    BY <1>10 DEF OutstandingAvailable, EpochOf
  <2>1. WellFormed(x) /\ SentBefore(x) /\ x.from \in Party
    BY DEF SPQRInv, MessagesOK, WellFormed
  <2>2. CASE x.from = p
    <3>1. accepted'[q] = accepted[q]
      BY <1>1, <1>10 DEF SPQRInv, TypeInv
    <3> QED
      BY <1>15, <2>2, <3>1 DEF SPQRInv, OutstandingAvailable
  <2>3. CASE x.from = q
    <3>1. EpochOf(x) \in Nat /\ EpochOf(x) <= s.epoch /\ x.hdr.n \in Nat
      <4>1. EpochOf(x) \in Nat /\ EpochOf(x) <= o.scka.peer /\ x.hdr.n \in Nat
        BY <2>1, <2>3 DEF SentBefore, WellFormed
      <4> QED
        BY <1>11, <4>1, SessionFacts
    <3>2. EpochOf(x) \in DOMAIN t.kdfChains
      BY <1>1, <1>15, <2>3
    <3>3. EpochOf(x) \in DOMAIN s.kdfChains
      BY <1>9, <1>11, <3>1, <3>2, SessionFacts DEF EpochsMoved
    <3>4. Available(t, EpochOf(x), x.hdr.n) <=>
            Available(s, EpochOf(x), x.hdr.n) /\ <<EpochOf(x), x.hdr.n>> # <<e, n>>
      BY <1>9, <3>1, <3>2, <3>3 DEF TookOne
    <3>5. Available(s, EpochOf(x), x.hdr.n) <=> x.box.text \notin accepted[p]
      BY <1>1, <1>4, <2>3, <3>3 DEF SPQRInv, OutstandingAvailable
    <3>6. <<EpochOf(x), x.hdr.n>> = <<e, n>> <=> x.box.text = text
      BY <1>4, <1>12, <2>3 DEF SPQRInv, Distinct
    <3>7. accepted'[p] = accepted[p] \cup {text}
      BY <1>10 DEF SPQRInv, TypeInv
    <3> QED
      BY <1>1, <1>15, <2>3, <3>4, <3>5, <3>6, <3>7
  <2> QED
    BY <1>1, <2>1, <2>2, <2>3
<1> QED
  BY <1>15, <1>17, <1>18, <1>19 DEF SPQRInv

(* A rejecting Decrypt keeps the invariant, though an error other than an  *)
(* authentication failure is not rolled back: it may have begun an epoch   *)
(* and cleared old ones.                                                   *)
LEMMA RejectInv ==
  ASSUME SPQRInv, NEW p \in Party, DecryptRejects(p)
  PROVE  SPQRInv'
<1> DEFINE q == Peer(p)
           o == session[q]
<1>1. q \in Party /\ q # p /\ Peer(q) = p /\ \A x \in Party : x = p \/ x = q
  BY Parties
<1>2. PICK m \in network : \E a \in Arrivals(m) :
        LET out == DecryptArrival(p, a)
        IN  /\ m.from = q /\ out.err # "ok" /\ session' = [session EXCEPT ![p] = out.s]
            /\ UNCHANGED <<sent, network, accepted, replayed>>
  BY DEF DecryptRejects
<1>3. PICK a \in Arrivals(m) :
        LET out == DecryptArrival(p, a)
        IN  /\ m.from = q /\ out.err # "ok" /\ session' = [session EXCEPT ![p] = out.s]
            /\ UNCHANGED <<sent, network, accepted, replayed>>
  BY <1>2
<1>4. PICK s, t : s = session[p] /\ t = DecryptArrival(p, a).s
  OBVIOUS
<1>5. /\ TypeInv /\ sent \in [Party -> Nat] /\ SessionOK(s, sent[p]) /\ s.scka.peer <= o.epoch
      /\ SessionOK(o, sent[q]) /\ o.scka.peer <= s.epoch
  BY <1>1, <1>4 DEF SPQRInv, TypeInv, SessionsOK, PeersKnown
<1>6. WellFormed(m) /\ SentBefore(m)
  BY DEF SPQRInv, MessagesOK
<1>7. /\ EpochOf(m) \in Nat /\ m.hdr.msg.answer \in Nat
      /\ EpochOf(m) <= o.scka.peer /\ m.hdr.msg.answer <= o.epoch
  BY <1>3, <1>6 DEF WellFormed, SentBefore
<1>8. /\ SessionOK(t, sent[p]) /\ EpochsMoved(s, t) /\ SendingKept(s, t) /\ AvailableKept(s, t)
      /\ t.scka.peer <= o.epoch
  <2>1. CASE t = s
    BY <1>5, <2>1, Unmoved
  <2>2. CASE t # s
    <3>1. /\ a.hdr.msg = m.hdr.msg
          /\ Decrypted(s, sent[p], a.hdr, BuildAD(q, p, a.hdr), a.box, DecryptArrival(p, a))
      BY <1>3, <1>4, <2>2, ArrivalDecrypted
    <3>2. /\ SessionOK(t, sent[p]) /\ EpochsMoved(s, t) /\ SendingKept(s, t) /\ AvailableKept(s, t)
          /\ t.scka.peer \in {s.scka.peer, EpochOf(m), m.hdr.msg.answer}
      BY <1>3, <1>4, <3>1 DEF Decrypted, EpochOf
    <3>3. t.scka.peer <= o.epoch
      BY <1>5, <1>7, <3>2, SessionFacts
    <3> QED
      BY <3>2, <3>3
  <2> QED
    BY <2>1, <2>2
<1>9. /\ session' = [session EXCEPT ![p] = t] /\ sent' = sent /\ network' = network
      /\ accepted' = accepted /\ replayed' = replayed
  BY <1>3, <1>4
<1>10. PartyMoved(p, t, sent[p])
  BY <1>4, <1>5, <1>8, <1>9 DEF PartyMoved
<1>11. /\ session' = [x \in Party |-> session'[x]] /\ session'[p] = t /\ session'[q] = o
       /\ SessionsOK' /\ PeersKnown' /\ RootsAgree' /\ MessagesOK' /\ Distinct'
  BY <1>4, <1>8, <1>9, <1>10, PartyMovedInv, ReceiverMovedInv
<1>12. TypeInv'
  BY <1>5, <1>9, <1>11 DEF TypeInv
<1>13. UnsentAvailable'
  <2> SUFFICES ASSUME NEW x \in Party, NEW y \in DOMAIN session'[x].kdfChains, NEW k \in Nat,
                      y > session'[Peer(x)].scka.peer
                        \/ (y = session'[Peer(x)].scka.peer /\ k >= SentIn(session'[Peer(x)], y))
               PROVE  Available(session'[x], y, k)
    BY DEF UnsentAvailable
  <2>1. CASE x = p
    <3>1. y \in DOMAIN s.kdfChains => Available(s, y, k)
      BY <1>1, <1>4, <1>11, <2>1 DEF SPQRInv, UnsentAvailable
    <3> QED
      BY <1>8, <1>11, <2>1, <3>1 DEF AvailableKept
  <2>2. CASE x = q
    <3>1. y \in DOMAIN o.kdfChains
          /\ (y > t.scka.peer \/ (y = t.scka.peer /\ k >= SentIn(t, y)))
      BY <1>1, <1>11, <2>2
    <3> HIDE DEF o
    <3>2. Available(o, y, k)
      BY <1>4, <1>8, <1>10, <3>1, ReceiverMovedUnsent DEF o
    <3> QED
      BY <1>11, <2>2, <3>2
  <2> QED
    BY <1>1, <2>1, <2>2
<1>14. OutstandingAvailable'
  <2> SUFFICES ASSUME NEW x \in network, EpochOf(x) \in DOMAIN session'[Peer(x.from)].kdfChains
               PROVE  Available(session'[Peer(x.from)], EpochOf(x), x.hdr.n)
                        <=> x.box.text \notin accepted[Peer(x.from)]
    BY <1>9 DEF OutstandingAvailable, EpochOf
  <2>1. WellFormed(x) /\ SentBefore(x) /\ x.from \in Party
    BY DEF SPQRInv, MessagesOK, WellFormed
  <2>2. CASE x.from = p
    BY <1>11, <2>2 DEF SPQRInv, OutstandingAvailable
  <2>3. CASE x.from = q
    <3>1. EpochOf(x) \in Nat /\ EpochOf(x) <= s.epoch /\ x.hdr.n \in Nat
      <4>1. EpochOf(x) \in Nat /\ EpochOf(x) <= o.scka.peer /\ x.hdr.n \in Nat
        BY <2>1, <2>3 DEF SentBefore, WellFormed
      <4> QED
        BY <1>5, <4>1, SessionFacts
    <3>2. EpochOf(x) \in DOMAIN t.kdfChains
      BY <1>1, <1>11, <2>3
    <3>3. EpochOf(x) \in DOMAIN s.kdfChains
      BY <1>5, <1>8, <3>1, <3>2, SessionFacts DEF EpochsMoved
    <3>4. Available(t, EpochOf(x), x.hdr.n) <=> Available(s, EpochOf(x), x.hdr.n)
      BY <1>8, <3>1, <3>2, <3>3 DEF AvailableKept
    <3>5. Available(s, EpochOf(x), x.hdr.n) <=> x.box.text \notin accepted[p]
      BY <1>1, <1>4, <2>3, <3>3 DEF SPQRInv, OutstandingAvailable
    <3> QED
      BY <1>1, <1>11, <2>3, <3>4, <3>5
  <2> QED
    BY <1>1, <2>1, <2>2, <2>3
<1> QED
  BY <1>11, <1>12, <1>13, <1>14 DEF SPQRInv

-----------------------------------------------------------------------------
(* Every step keeps the invariant.                                         *)
LEMMA StepSPQRInv == SPQRInv /\ [Next]_vars => SPQRInv'
<1> SUFFICES ASSUME SPQRInv, [Next]_vars PROVE SPQRInv'
  OBVIOUS
<1>1. CASE UNCHANGED vars
  BY <1>1 DEF vars, SPQRInv, TypeInv, SessionsOK, PeersKnown, RootsAgree, MessagesOK, Distinct,
              UnsentAvailable, OutstandingAvailable, WellFormed, SentBefore, KeyAgrees, EpochOf
<1>2. CASE Next
  BY <1>2, EncryptInv, AcceptInv, RejectInv DEF Next
<1> QED
  BY <1>1, <1>2

(* In every reachable state the two sessions agree on the roots of their   *)
(* common epochs, and a receiver has the keys available of exactly the     *)
(* messages that it has not accepted, and of all that its peer may yet     *)
(* send.                                                                   *)
THEOREM SpecSPQRInv == Spec => []SPQRInv
BY InitSPQRInv, StepSPQRInv, PTL DEF Spec

(* In every reachable state a session is in its provider's epoch and has   *)
(* the chains of it, whatever error paths it took.                         *)
THEOREM SessionsFollowProviders == Spec => []SessionFollowsProvider
<1>1. SPQRInv => SessionFollowsProvider
  BY SessionFacts DEF SPQRInv, SessionsOK, SessionFollowsProvider
<1> QED
  BY <1>1, SpecSPQRInv, PTL

(* In every reachable state Encrypt finds the send chain of the epoch its  *)
(* provider sends in.                                                      *)
THEOREM EncryptsNeverFail == Spec => []EncryptNeverFails
<1>1. SPQRInv => EncryptNeverFails
  BY SendKeyFacts DEF SPQRInv, TypeInv, SessionsOK, EncryptNeverFails
<1> QED
  BY <1>1, SpecSPQRInv, PTL

(* No message is accepted twice, in any order of arrivals, across epochs   *)
(* and after any rejected arrivals.                                        *)
THEOREM MessagesAcceptedOnce == Spec => []AcceptedAtMostOnce
<1>1. SPQRInv => AcceptedAtMostOnce
  BY DEF SPQRInv, TypeInv, AcceptedAtMostOnce
<1> QED
  BY <1>1, SpecSPQRInv, PTL

(* Every message of the three newest epochs that has not been accepted is  *)
(* decryptable in every reachable state, provided that a party sends no    *)
(* more than one message and the MaxSkip it may be jumped over.            *)
THEOREM RecentMessagesDecryptable ==
  ASSUME MaxSends <= MaxSkip + 1
  PROVE  Spec => []RecentOutstandingDecryptable
<1>1. SPQRInv => RecentOutstandingDecryptable
  <2> SUFFICES ASSUME SPQRInv, NEW p \in Party, NEW m \in network, m.from = Peer(p),
                      m.box.text \notin accepted[p], EpochOf(m) >= session[p].epoch - 2
               PROVE  DecryptArrival(p, m).err = "ok"
    BY DEF RecentOutstandingDecryptable, Outstanding, Accepts, EpochOf
  <2> DEFINE q == Peer(p)
             s == session[p]
             e == EpochOf(m)
             n == m.hdr.n
             ad == BuildAD(q, p, m.hdr)
  <2>1. WellFormed(m) /\ SentBefore(m) /\ KeyAgrees(m) /\ q \in Party /\ Peer(q) = p
    BY Parties DEF SPQRInv, MessagesOK
  <2>2. /\ SessionOK(s, sent[p]) /\ SessionOK(session[q], sent[q]) /\ sent[p] \in Nat
        /\ session[q].scka.peer <= s.epoch /\ sent[q] \in Nat /\ sent[q] <= MaxSends
        /\ s.direction = Direction(p)
    BY <2>1 DEF SPQRInv, SessionsOK, PeersKnown, TypeInv
  <2>3. /\ e \in Nat /\ n \in Nat /\ m.hdr.msg.answer \in Nat
        /\ e <= session[q].scka.peer /\ n < sent[q]
        /\ DOMAIN m.hdr.msg = {"epoch", "offer", "answer"}
    BY <2>1 DEF WellFormed, SentBefore
  <2>4. e <= s.epoch /\ n <= MaxSkip
    BY <2>2, <2>3, SessionFacts, BoundAssumption, MaxSkipAssumption
  <2>5. e \in DOMAIN s.kdfChains
    BY <2>2, <2>3, <2>4, SessionFacts
  <2>6. Available(s, e, n)
    BY <2>1, <2>5 DEF SPQRInv, OutstandingAvailable
  <2>7. Understands(m.hdr.msg)
    <3>1. DOMAIN m.hdr.msg # DOMAIN BadMsg
      BY <2>3 DEF BadMsg
    <3> QED
      BY <3>1 DEF Understands
  <2>8. Decrypted(s, sent[p], m.hdr, ad, m.box, Decrypt(s, m.hdr, ad, m.box))
    BY <2>2, <2>3, <2>4, <2>7, DecryptFacts DEF EpochOf
  <2>9. Opens(KeyOf(RootIn(s, e), Opposite(s.direction), n), ad, m.box)
    <3>1. Direction(q) = Opposite(Direction(p))
      BY Parties
    <3> QED
      BY <2>1, <2>2, <2>5, <3>1 DEF Opens, KeyAgrees, WellFormed
  <2> QED
    BY <2>4, <2>6, <2>8, <2>9 DEF Decrypted, DecryptArrival, EpochOf
<1> QED
  BY <1>1, SpecSPQRInv, PTL

(* In every reachable state, an arrival whose body Decrypt fails to        *)
(* authenticate leaves the session and its provider as they were, also     *)
(* when it has just begun an epoch.                                        *)
THEOREM AuthFailuresLeaveSession == Spec => []AuthFailureLeavesSession
<1>1. SPQRInv => AuthFailureLeavesSession
  BY ArrivalDecrypted DEF AuthFailureLeavesSession, Decrypted
<1> QED
  BY <1>1, SpecSPQRInv, PTL
=============================================================================
