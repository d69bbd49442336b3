--------------------------- MODULE DoubleRatchetHE ---------------------------
(***************************************************************************)
(* Two header-encryption sessions and the transport between them: what     *)
(* DoubleRatchet is to the base session.  A damaged header cannot be       *)
(* opened here, so the transport can only break a part of a message or put *)
(* the parts of two messages together.                                     *)
(***************************************************************************)
EXTENDS HESession

CONSTANTS Initiator, Responder,
          MaxSends     \* bound: messages each party sends

ASSUME BoundAssumption == MaxSends \in Nat
ASSUME PartyAssumption == Initiator # Responder
ASSUME KeyAssumption == ZeroKey \notin {Initiator, Responder} \X Nat

VARIABLES
  session,    \* the HESession of each party
  generated,  \* how many key pairs each party has generated
  sent,       \* how many messages each party has sent
  network,    \* every message sent so far; nothing is ever taken out
  accepted,   \* the messages DecryptHE has returned to each party
  replayed,   \* those it has returned more than once
  closed      \* the parties whose session was closed

vars == <<session, generated, sent, network, accepted, replayed, closed>>

Party == {Initiator, Responder}
Peer(p) == IF p = Initiator THEN Responder ELSE Initiator
KeyPair(p, i) == <<p, i>>

Init ==
  /\ session = [p \in Party |->
                  IF p = Initiator
                  THEN InitInitiatorHE(KeyPair(Initiator, 0), KeyPair(Responder, 0))
                  ELSE InitResponderHE(KeyPair(Responder, 0))]
  /\ generated = [p \in Party |-> 1]
  /\ sent = [p \in Party |-> 0]
  /\ network = {}
  /\ accepted = [p \in Party |-> {}]
  /\ replayed = [p \in Party |-> {}]
  /\ closed = {}

-----------------------------------------------------------------------------
(* The sealed header travels beside the message and is bound to its body.  *)
MessageOf(p, s) ==
  LET enc == SealHeader(s.hks, HeaderOf(s.dr))
  IN  [from |-> p, enc |-> enc,
       box |-> Seal(DeriveMessageKey(s.dr.cks), BuildAD(p, Peer(p), enc), sent[p])]

(* A header key that Close has zeroed and no ratchet step is to replace.   *)
HeaderKeyZeroed(s) == ~RatchetDue(s) /\ s.hks.key = ZeroHeaderKey

EncryptHE(p) ==
  LET s == ReadyToSendHE(session[p], KeyPair(p, generated[p]))
  IN  /\ sent[p] < MaxSends
      /\ CanSendHE(session[p]) /\ ~HeaderKeyZeroed(session[p])
      /\ network' = network \cup {MessageOf(p, s)}
      /\ sent' = [sent EXCEPT ![p] = @ + 1]
      /\ session' = [session EXCEPT ![p] = AdvanceSendHE(s)]
      /\ generated' = IF RatchetDue(session[p])
                      THEN [generated EXCEPT ![p] = @ + 1] ELSE generated
      /\ UNCHANGED <<accepted, replayed, closed>>

(* EncryptHeader refuses a zeroed header key, after the chain has moved.   *)
HeaderNotSealed(p) ==
  /\ HeaderKeyZeroed(session[p])
  /\ session[p].dr.ns < MaxSends
  /\ session' = [session EXCEPT ![p].dr = AdvanceSend(session[p].dr)]
  /\ UNCHANGED <<generated, sent, network, accepted, replayed, closed>>

(* EncryptHE returns the error of GenerateKeyPair.                         *)
EncryptHEFails(p) ==
  /\ RatchetDue(session[p]) /\ CanSendHE(session[p])
  /\ session' = [session EXCEPT ![p] = DHRatchetSendHEFails(session[p])]
  /\ UNCHANGED <<generated, sent, network, accepted, replayed, closed>>

(* What may arrive where m was sent.                                       *)
Intact(m) == {m}
Broken(m) == {[m EXCEPT !.enc.key = ForeignKey], [m EXCEPT !.box.key = ForeignKey]}
MixedUp(m) == {[m EXCEPT !.box = x.box] : x \in {y \in network : y.from = m.from}}
Arrivals(m) == Intact(m) \cup Broken(m) \cup MixedUp(m)

DecryptArrival(p, a) ==
  DecryptHE(session[p], a.enc, BuildAD(Peer(p), p, a.enc), a.box)

(* DecryptHE returns the plaintext.                                        *)
DecryptHEAccepts(p) ==
  \E m \in network : \E a \in Arrivals(m) :
    LET out == DecryptArrival(p, a)
    IN  /\ m.from = Peer(p)
        /\ out.err = "ok"
        /\ session' = [session EXCEPT ![p] = out.s]
        /\ accepted' = [accepted EXCEPT ![p] = @ \cup {a.box.text}]
        /\ replayed' = [replayed EXCEPT ![p] = @ \cup ({a.box.text} \cap accepted[p])]
        /\ UNCHANGED <<generated, sent, network, closed>>

(* DecryptHE returns an error.                                             *)
DecryptHERejects(p) ==
  \E m \in network : \E a \in Arrivals(m) :
    LET out == DecryptArrival(p, a)
    IN  /\ m.from = Peer(p)
        /\ out.err # "ok"
        /\ session' = [session EXCEPT ![p] = out.s]
        /\ UNCHANGED <<generated, sent, network, accepted, replayed, closed>>

(* The application closes its session; it may go on calling it.            *)
CloseSession(p) ==
  /\ p \notin closed
  /\ session' = [session EXCEPT ![p] = CloseHE(session[p])]
  /\ closed' = closed \cup {p}
  /\ UNCHANGED <<generated, sent, network, accepted, replayed>>

Next ==
  \E p \in Party :
    \/ EncryptHE(p) \/ HeaderNotSealed(p) \/ EncryptHEFails(p)
    \/ DecryptHEAccepts(p) \/ DecryptHERejects(p)
    \/ CloseSession(p)

Spec == Init /\ [][Next]_vars
=============================================================================
