--------------------- MODULE DoubleRatchetHEInvariant -----------------------
(***************************************************************************)
(* The inductive invariant of the pair of header-encryption sessions. The  *)
(* DH ratchet steps of both parties are numbered: in epoch t, a party      *)
(* draws its ratchet key, mixes it with the key of epoch t - 1 and derives *)
(* the root key and the header key of epoch t + 2. The initiator draws in  *)
(* the odd epochs and the responder in the even ones; epoch 0 is the       *)
(* responder's prekey. Each key of a session is named by its epoch, and so *)
(* is each message.                                                        *)
(***************************************************************************)
EXTENDS DoubleRatchetHEProperties, SessionLemmas

(* The shape of a session value.                                           *)
HEFields == {"dr", "hks", "hkr", "nhks", "nhkr"}

(* A session value has exactly the fields of the two structs.              *)
BaseShape(d) == d = [f \in SessionFields |-> d[f]]
KeyShape(hk) == DOMAIN hk = {"key", "nonce"}
HEShape(s) ==
  /\ s = [f \in HEFields |-> s[f]] /\ BaseShape(s.dr)
  /\ KeyShape(s.hks) /\ KeyShape(s.hkr) /\ KeyShape(s.nhks) /\ KeyShape(s.nhkr)

(* Both parties have a session, of the shape of the structs.               *)
ShapeInv ==
  /\ DOMAIN session = Party /\ session = [p \in Party |-> session[p]]
  /\ \A p \in Party : HEShape(session[p])

-----------------------------------------------------------------------------
(* The epochs and their keys.                                              *)

(* The initiator speaks in the odd epochs, the responder in the even ones. *)
Parity(p) == IF p = Initiator THEN 1 ELSE 0

(* Who draws the ratchet key of epoch t.                                   *)
Speaker(t) == IF t % 2 = 1 THEN Initiator ELSE Responder

(* The ratchet key pair of epoch t.                                        *)
PairOf(t) == KeyPair(Speaker(t), t \div 2)

(* The root key that each epoch begins with: the ratchet key of the epoch  *)
(* is mixed with that of the epoch before.                                 *)
Root[t \in Nat] ==
  IF t = 0 THEN InitialRootKey
  ELSE DeriveRoot(Root[t - 1], SharedSecret(PairOf(t), PairOf(t - 1)))

(* The header key that seals the headers of epoch t: the two from the      *)
(* handshake first, then the ones that KDF_RK_HE derives two epochs ahead. *)
(* Before the first epoch there is no header key.                          *)
HeaderKeyOf(t) ==
  IF t <= 0 THEN ZeroHeaderKey
  ELSE IF t = 1 THEN SharedHKA
  ELSE IF t = 2 THEN SharedNHKB
  ELSE NextHeaderKey(Root[t - 2])

-----------------------------------------------------------------------------
(* Where the parties are.                                                  *)

(* The index of the newest ratchet key of p.                               *)
Newest(p) == generated[p] - 1

(* The epoch of the newest ratchet key of p.                               *)
Own(p) == 2 * Newest(p) + Parity(p)

(* p has taken the receiving half of a DH ratchet step and owes the        *)
(* sending half.                                                           *)
Performed(p) == session[p].dr.dhRatchetPerformed

(* The epoch whose root key p holds.                                       *)
Epoch(p) == IF Performed(p) THEN Own(p) + 1 ELSE Own(p)

(* The newest epoch of the peer that p has heard of: the one before or     *)
(* after its own newest.                                                   *)
Heard(p) == IF Performed(p) THEN Own(p) + 1 ELSE Own(p) - 1

(* The epoch a message was sent in.                                        *)
EpochOf(m) == 2 * m.enc.hdr.pk[2] + Parity(m.from)

(* The receiving chain in force.                                           *)
Chain(s) == GetChain(s.dr.recvChains, s.dr.dhr)

-----------------------------------------------------------------------------
(* The invariant.                                                          *)

(* The other variables have the types that the arithmetic needs.           *)
Counts ==
  /\ generated \in [Party -> Nat \ {0}] /\ sent \in [Party -> Nat] /\ closed \subseteq Party
  /\ accepted = [p \in Party |-> accepted[p]] /\ replayed = [p \in Party |-> replayed[p]]

(* A message is sealed under the header key of an epoch of its sender,     *)
(* which is its newest or an older one; its nonce is its number in the     *)
(* chain, below ns in the epoch the sender is in.                          *)
MessageOK(m) ==
  /\ DOMAIN m = {"from", "enc", "box"} /\ DOMAIN m.enc = {"key", "nonce", "hdr"}
  /\ DOMAIN m.box = {"key", "ad", "text"}
  /\ m.from \in Party
  /\ EpochOf(m) \in 1 .. Own(m.from) /\ Speaker(EpochOf(m)) = m.from
  /\ m.enc.hdr.pk = PairOf(EpochOf(m))
  /\ m.enc.hdr.n \in Nat /\ m.enc.hdr.pn \in Nat
  /\ m.enc.key = HeaderKeyOf(EpochOf(m)) /\ m.enc.nonce = m.enc.hdr.n
  /\ m.box.ad = BuildAD(m.from, Peer(m.from), m.enc)
  /\ m.box.text \in 0 .. sent[m.from] - 1
  /\ (EpochOf(m) = Own(m.from) /\ ~RatchetDue(session[m.from]) /\ m.from \notin closed)
       => m.enc.hdr.n < session[m.from].dr.ns

(* No two messages have one number in one chain, or one plaintext of one   *)
(* sender.                                                                 *)
MessagesDiffer ==
  \A m, x \in network :
    /\ x.enc.hdr.pk = m.enc.hdr.pk /\ x.enc.hdr.n = m.enc.hdr.n => x = m
    /\ x.from = m.from /\ x.box.text = m.box.text => x = m

(* What was sent.                                                          *)
SentInv == (\A m \in network : MessageOK(m)) /\ MessagesDiffer

(* The parties are in neighbouring epochs, and when one of them owes an    *)
(* answer, both are in the same one.                                       *)
Adjacent ==
  \A p \in Party :
    IF Performed(p)
    THEN Epoch(Peer(p)) = Epoch(p) /\ ~Performed(Peer(p))
    ELSE Epoch(Peer(p)) \in Epoch(p) - 1 .. Epoch(p) + 1

(* An open session holds the root key of its epoch, the ratchet keys of    *)
(* its own newest epoch and of the newest it has heard of, and the four    *)
(* header keys of those and of the epochs two later.                       *)
Standing(p) ==
  LET s == session[p]
      e == Epoch(p)
  IN  /\ s.dr.ns \in Nat /\ s.dr.pn \in Nat
      /\ s.dr.rk = Root[e] /\ s.dr.dhs = PairOf(Own(p))
      /\ (s.dr.dhRSet <=> e > 0) /\ (e > 0 => s.dr.dhr = PairOf(Heard(p)))
      /\ s.dr.cks = NoChainKey <=> Performed(p) \/ e = 0
      /\ RatchetDue(s) \/ s.hks = [key |-> HeaderKeyOf(e), nonce |-> s.dr.ns]
      /\ s.nhks = FreshHeaderKey(HeaderKeyOf(Own(p) + 2))
      /\ s.hkr.key = HeaderKeyOf(Heard(p))
      /\ s.nhkr.key = HeaderKeyOf(Heard(p) + 2)

(* Its receiving chains and its skipped keys belong to epochs it has heard *)
(* of; a skipped key of the chain in force is behind its counter.          *)
Holding(p) ==
  LET s == session[p]
  IN  /\ RingOK(s.dr.recvChains)
      /\ \A c \in Held(s.dr.recvChains) :
           c.nr \in Nat /\ \E u \in 1 .. Heard(p) : c.pk = PairOf(u)
      /\ \A id \in DOMAIN s.dr.mkSkipped.entries :
           \E u \in 1 .. Heard(p), n \in Nat :
             /\ id = StorageKey(HeaderKeyOf(u), n) /\ Speaker(u) = Peer(p)
             /\ u = Heard(p) => HasChain(s.dr.recvChains, s.dr.dhr) /\ n < Chain(s).nr

(* A closed session: what CloseHE zeroed and later calls leave zero.       *)
Erased(p) ==
  LET s == session[p]
  IN  /\ \A hk \in {s.hks, s.hkr, s.nhks, s.nhkr} : hk.key = ZeroHeaderKey
      /\ s.dr.rk = ZeroRootKey /\ ~s.dr.dhRSet
      /\ s.dr.cks # NoChainKey => s.dr.cks.root = ZeroRootKey
      /\ s.dr.recvChains = NewReceiverChains /\ s.dr.mkSkipped = NewStorage

(* The messages that p has accepted.                                       *)
Taken(p) == {m \in network : m.from = Peer(p) /\ m.box.text \in accepted[p]}

(* p cannot accept m again: no skipped key is left for it and the chain in *)
(* force is newer, or past it.                                             *)
Behind(p, m) ==
  LET s == session[p]
  IN  /\ EpochOf(m) <= Heard(p)
      /\ StorageKey(m.enc.key, m.enc.hdr.n) \notin DOMAIN s.dr.mkSkipped.entries
      /\ EpochOf(m) = Heard(p) => HasChain(s.dr.recvChains, s.dr.dhr) /\ m.enc.hdr.n < Chain(s).nr

(* Every message that p has accepted is behind it.                         *)
Once(p) ==
  /\ \A txt \in accepted[p] : txt \in 0 .. sent[Peer(p)] - 1
  /\ replayed[p] = {}
  /\ p \notin closed => \A m \in Taken(p) : Behind(p, m)

(* What holds of one party.                                                *)
PartyInv(p) ==
  /\ IF p \in closed THEN Erased(p) ELSE Standing(p) /\ Holding(p)
  /\ Once(p)

(* The inductive invariant.                                                *)
HEInv == ShapeInv /\ Counts /\ SentInv /\ Adjacent /\ \A p \in Party : PartyInv(p)
=============================================================================
