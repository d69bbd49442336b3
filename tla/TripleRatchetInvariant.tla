---------------------- MODULE TripleRatchetInvariant ------------------------
(***************************************************************************)
(* The inductive invariant of a pair of Triple Ratchet sessions. It has    *)
(* two parts: PQInv says of the SPQR halves, open or erased by Close, what *)
(* makes every key of theirs name one message, and what makes a key that   *)
(* was used unavailable; Base!IInv is the invariant of the base Double     *)
(* Ratchet, read on the EC halves.                                         *)
(***************************************************************************)
EXTENDS TripleRatchetProperties, TLAPS

(* The fields of an SPQR session value.                                    *)
PQFields == {"rk", "epoch", "direction", "kdfChains", "mkSkipped", "scka"}

(* A session value has exactly the fields of the structs.                  *)
ECShape(d) == d = [f \in EC!SessionFields |-> d[f]]
PQShape(q) == q = [f \in PQFields |-> q[f]]
TRShape(s) == s = [dr |-> s.dr, spqr |-> s.spqr] /\ ECShape(s.dr) /\ PQShape(s.spqr)

-----------------------------------------------------------------------------
(* The SPQR half of each party runs the code of an SPQR session: what      *)
(* SPQRProofs says of its operators holds of it. The pair of sessions is   *)
(* the pair of halves, and its messages are those of the pair, as an SPQR  *)
(* session would have sealed them under the PQ part of the key.            *)
PQMessage(m) ==
  [from |-> m.from, hdr |-> m.hdr.scka,
   box |-> PQ!Seal(m.box.key.pq, BuildAD(m.from, Peer(m.from), m.hdr.scka), m.box.text)]
PQL == INSTANCE SPQRProofs WITH
  session <- [p \in Party |-> session[p].spqr], network <- {PQMessage(m) : m \in network}

(* The direction an SPQR session is started in names its owner.            *)
Direction(p) == IF p = Initiator THEN "A2B" ELSE "B2A"

(* A root of the SPQR half names its epoch: the last thing mixed into it   *)
(* is the output key of that epoch, and the root of epoch 0 is the one     *)
(* both sides start from.                                                  *)
Named(root, e) ==
  \/ e = 0 /\ root = PQL!InitialRootKey
  \/ e > 0 /\ \E r : root = PQL!DeriveRoot(r, PQL!OutputKey(e))

(* What Close leaves of each half, and what every later call leaves too:   *)
(* the SPQR provider goes on answering, the maps stay empty.               *)
PQErased(s) ==
  /\ PQL!SPQRShape(s) /\ PQL!ProviderOK(s.scka) /\ s.epoch = s.scka.epoch
  /\ s.rk = PQ!ZeroRootKey /\ s.kdfChains = << >> /\ s.mkSkipped = << >>
ECErased(d) ==
  /\ d.rk = EC!ZeroRootKey
  /\ d.recvChains = EC!NewReceiverChains /\ d.mkSkipped = EC!NewStorage

(* The SPQR half of an open session of p, which has sent that many         *)
(* messages.                                                               *)
PQOpen(s, now, p) ==
  /\ PQL!SessionOK(s, now) /\ s.direction = Direction(p)
  /\ \A e \in DOMAIN s.kdfChains : Named(PQL!RootIn(s, e), e)

-----------------------------------------------------------------------------
(* The epoch the SPQR header of a message names.                           *)
EpochOf(m) == m.hdr.scka.msg.epoch

(* The form of a message, whose body is sealed with both of its headers.   *)
WellFormed(m) ==
  /\ DOMAIN m = {"from", "hdr", "box"} /\ m.from \in Party
  /\ DOMAIN m.hdr.scka = {"msg", "n"}
  /\ DOMAIN m.hdr.scka.msg = {"epoch", "offer", "answer"}
  /\ DOMAIN m.box = {"key", "ad", "text"}
  /\ EpochOf(m) \in Nat /\ m.hdr.scka.msg.answer \in Nat /\ m.hdr.scka.n \in Nat
  /\ m.box.text \in Nat
  /\ m.box.ad = BuildAD(m.from, Peer(m.from), m.hdr)

(* A message in the network was sent before: its text and, when it is of   *)
(* the epoch the sender still sends in, its SPQR number are behind the     *)
(* sender's counters; its epoch and the epoch it answers are known to the  *)
(* sender.                                                                 *)
SentBefore(m) ==
  LET s == session[m.from].spqr
  IN  /\ m.box.text < sent[m.from]
      /\ EpochOf(m) <= s.scka.peer /\ m.hdr.scka.msg.answer <= s.epoch
      /\ m.from \notin closed /\ EpochOf(m) = s.scka.peer =>
           m.hdr.scka.n < PQL!SentIn(s, EpochOf(m))

(* The SPQR part of a message's key is the key of its epoch, direction and *)
(* number.                                                                 *)
KeyNamed(m) ==
  \E root : /\ Named(root, EpochOf(m))
            /\ m.box.key.pq = PQL!KeyOf(root, Direction(m.from), m.hdr.scka.n)

-----------------------------------------------------------------------------
(* The inductive invariant of the SPQR half and of what was accepted. The  *)
(* types:                                                                  *)
TypeInv ==
  /\ session = [p \in Party |-> session[p]]
  /\ \A p \in Party : TRShape(session[p])
  /\ sent \in [Party -> Nat]
  /\ accepted = [p \in Party |-> accepted[p]]
  /\ \A p \in Party : \A x \in accepted[p] : x \in Nat /\ x < sent[Peer(p)]
  /\ replayed = [p \in Party |-> {}]
  /\ closed \subseteq Party

(* A closed session has both halves erased; an open one has a good SPQR    *)
(* half.                                                                   *)
HalvesOK ==
  \A p \in Party :
    IF p \in closed THEN PQErased(session[p].spqr) /\ ECErased(session[p].dr)
    ELSE PQOpen(session[p].spqr, sent[p], p)

(* No provider expects an epoch of the peer that the peer has not reached. *)
PeersKnown == \A p \in Party : session[p].spqr.scka.peer <= session[Peer(p)].spqr.epoch

(* Every message was sent, by the session it names.                        *)
MessagesOK == \A m \in network : WellFormed(m) /\ SentBefore(m) /\ KeyNamed(m)

(* The texts of a party tell its messages apart, and so do the SPQR epoch  *)
(* and number.                                                             *)
Distinct ==
  \A m, x \in network :
    /\ m.from = x.from
    /\ m.box.text = x.box.text \/ (EpochOf(m) = EpochOf(x) /\ m.hdr.scka.n = x.hdr.scka.n)
    => m = x

(* An open session has spent the SPQR key of each message it accepted.     *)
AcceptedSpent ==
  \A m \in network :
    LET p == Peer(m.from)
    IN  p \notin closed /\ m.box.text \in accepted[p] =>
          ~PQL!Available(session[p].spqr, EpochOf(m), m.hdr.scka.n)
PQInv == TypeInv /\ HalvesOK /\ PeersKnown /\ MessagesOK /\ Distinct /\ AcceptedSpent

-----------------------------------------------------------------------------
(* The EC half as a base session. A closed session counts as one that has  *)
(* no sending chain and no ratchet step to do: its SPQR half refuses to    *)
(* send, and what it generated before stays its own.                       *)
ECHalf(p) ==
  IF p \in closed
  THEN [session[p].dr EXCEPT !.dhs = KeyPair(p, generated[p] - 1), !.dhr = ZeroKey,
                             !.cks = EC!NoChainKey, !.dhRatchetPerformed = FALSE]
  ELSE session[p].dr

(* A message as the base session would have sealed it, under the EC part   *)
(* of the key.                                                             *)
ECMessage(m) ==
  [from |-> m.from, hdr |-> m.hdr.ec,
   box |-> EC!Seal(m.box.key.ec, EC!BuildAD(m.from, Peer(m.from), m.hdr.ec), m.box.text)]

(* The EC half of the system is a base Double Ratchet: DoubleRatchetProofs *)
(* proves its inductive invariant, Base!IInv, kept by a base Encrypt and   *)
(* by every change of a session that leaves the sending half alone.        *)
Base == INSTANCE DoubleRatchetProofs WITH
  session <- [p \in Party |-> ECHalf(p)], network <- {ECMessage(m) : m \in network},
  windowed <- TRUE
=============================================================================
