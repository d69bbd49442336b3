---------------------------- MODULE DoubleRatchet ----------------------------
(***************************************************************************)
(* Two base sessions and the transport between them.  The library keeps no *)
(* thread, timer or queue of its own: a step is one call of Encrypt or     *)
(* Decrypt by one party, and the transport may hand any sent message to    *)
(* the peer at any time, any number of times, late, never, or damaged.     *)
(***************************************************************************)
EXTENDS Session

CONSTANTS Initiator, Responder,
          CorruptKey,  \* a public key nobody generated, as a damaged header shows
          MaxSends,    \* bound: messages each party sends
          MaxNumber    \* bound: largest PN or N a damaged header carries

ASSUME BoundAssumption == MaxSends \in Nat
ASSUME PartyAssumption == Initiator # Responder
ASSUME KeyAssumption == ZeroKey \notin {Initiator, Responder} \X Nat

VARIABLES
  session,    \* the session of each party
  generated,  \* how many key pairs each party has generated
  sent,       \* how many messages each party has sent
  network,    \* every message sent so far; nothing is ever taken out
  accepted,   \* the messages Decrypt has returned to each party
  replayed    \* those it has returned more than once

vars == <<session, generated, sent, network, accepted, replayed>>

Party == {Initiator, Responder}
Peer(p) == IF p = Initiator THEN Responder ELSE Initiator
KeyPair(p, i) == <<p, i>>

(* The responder's first pair is the one it published as bobRatchetPK.     *)
Init ==
  /\ session = [p \in Party |->
                  IF p = Initiator
                  THEN InitInitiator(KeyPair(Initiator, 0), KeyPair(Responder, 0))
                  ELSE InitResponder(KeyPair(Responder, 0))]
  /\ generated = [p \in Party |-> 1]
  /\ sent = [p \in Party |-> 0]
  /\ network = {}
  /\ accepted = [p \in Party |-> {}]
  /\ replayed = [p \in Party |-> {}]

-----------------------------------------------------------------------------
(* The message a ready session produces; its text stands for the plaintext *)
(* and tells it from every other message.                                  *)
MessageOf(p, s) ==
  [from |-> p, hdr |-> HeaderOf(s),
   box |-> Seal(DeriveMessageKey(s.cks), BuildAD(p, Peer(p), HeaderOf(s)), sent[p])]

Encrypt(p) ==
  LET s == ReadyToSend(session[p], KeyPair(p, generated[p]))
  IN  /\ sent[p] < MaxSends
      /\ CanSend(session[p])
      /\ network' = network \cup {MessageOf(p, s)}
      /\ sent' = [sent EXCEPT ![p] = @ + 1]
      /\ session' = [session EXCEPT ![p] = AdvanceSend(s)]
      /\ generated' = IF session[p].dhRatchetPerformed
                      THEN [generated EXCEPT ![p] = @ + 1] ELSE generated
      /\ UNCHANGED <<accepted, replayed>>

(* Encrypt returns the error of GenerateKeyPair.                           *)
EncryptFails(p) ==
  /\ session[p].dhRatchetPerformed
  /\ session' = [session EXCEPT ![p] = DHRatchetSendFails(session[p])]
  /\ UNCHANGED <<generated, sent, network, accepted, replayed>>

(* What may arrive where m was sent: m itself, or m with one part damaged. *)
Intact(m) == {m}
DamagedHeader(m) ==
  {[m EXCEPT !.hdr.pk = k] : k \in {ZeroKey, CorruptKey}} \cup
  {[m EXCEPT !.hdr.pn = k] : k \in 0 .. MaxNumber} \cup
  {[m EXCEPT !.hdr.n = k] : k \in 0 .. MaxNumber}
DamagedBody(m) == {[m EXCEPT !.box.key = ForeignKey]}
Arrivals(m) == Intact(m) \cup DamagedHeader(m) \cup DamagedBody(m)

DecryptArrival(p, a) ==
  Decrypt(session[p], a.hdr, BuildAD(Peer(p), p, a.hdr), a.box)

(* Decrypt returns the plaintext.                                          *)
DecryptAccepts(p) ==
  \E m \in network : \E a \in Arrivals(m) :
    LET out == DecryptArrival(p, a)
    IN  /\ m.from = Peer(p)
        /\ out.err = "ok"
        /\ session' = [session EXCEPT ![p] = out.s]
        /\ accepted' = [accepted EXCEPT ![p] = @ \cup {a.box.text}]
        /\ replayed' = [replayed EXCEPT ![p] = @ \cup ({a.box.text} \cap accepted[p])]
        /\ UNCHANGED <<generated, sent, network>>

(* Decrypt returns an error.                                               *)
DecryptRejects(p) ==
  \E m \in network : \E a \in Arrivals(m) :
    LET out == DecryptArrival(p, a)
    IN  /\ m.from = Peer(p)
        /\ out.err # "ok"
        /\ session' = [session EXCEPT ![p] = out.s]
        /\ UNCHANGED <<generated, sent, network, accepted, replayed>>

Next == \E p \in Party : Encrypt(p) \/ EncryptFails(p) \/ DecryptAccepts(p) \/ DecryptRejects(p)

Spec == Init /\ [][Next]_vars
=============================================================================
