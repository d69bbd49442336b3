-------------------------------- MODULE SPQR --------------------------------
(***************************************************************************)
(* Two SPQR sessions, each with its provider, and the transport between    *)
(* them.  A step is one call of Encrypt or Decrypt by one party.           *)
(***************************************************************************)
EXTENDS SPQRSession

CONSTANTS Initiator, Responder,
          MaxSends,    \* bound: messages each party sends
          MaxNumber    \* bound: largest message number a damaged header carries

ASSUME BoundAssumption == MaxSends \in Nat /\ MaxNumber \in Nat
ASSUME PartyAssumption == Initiator # Responder

VARIABLES
  session,   \* the SPQRSession of each party, its provider included
  sent,      \* how many messages each party has sent
  network,   \* every message sent so far; nothing is ever taken out
  accepted,  \* the messages Decrypt has returned to each party
  replayed   \* those it has returned more than once

vars == <<session, sent, network, accepted, replayed>>

Party == {Initiator, Responder}
Peer(p) == IF p = Initiator THEN Responder ELSE Initiator
Direction(p) == IF p = Initiator THEN "A2B" ELSE "B2A"

Init ==
  /\ session = [p \in Party |-> InitSCKA(Direction(p))]
  /\ sent = [p \in Party |-> 0]
  /\ network = {}
  /\ accepted = [p \in Party |-> {}]
  /\ replayed = [p \in Party |-> {}]

-----------------------------------------------------------------------------
(* identity prefix || ad || SCKA header.                                   *)
BuildAD(sender, receiver, hdr) == <<sender, receiver, hdr>>

Encrypt(p) ==
  LET out == SendKey(session[p])
  IN  /\ sent[p] < MaxSends
      /\ out.err = "ok"
      /\ session' = [session EXCEPT ![p] = out.s]
      /\ sent' = [sent EXCEPT ![p] = @ + 1]
      /\ network' = network \cup
           {[from |-> p, hdr |-> out.hdr,
             box |-> Seal(out.key, BuildAD(p, Peer(p), out.hdr), sent[p])]}
      /\ UNCHANGED <<accepted, replayed>>

(* What may arrive where m was sent.                                       *)
Intact(m) == {m}
DamagedHeader(m) ==
  {[m EXCEPT !.hdr.msg = BadMsg]} \cup {[m EXCEPT !.hdr.n = k] : k \in 0 .. MaxNumber}
DamagedBody(m) == {[m EXCEPT !.box.key = ForeignKey]}
Arrivals(m) == Intact(m) \cup DamagedHeader(m) \cup DamagedBody(m)

DecryptArrival(p, a) ==
  Decrypt(session[p], a.hdr, BuildAD(Peer(p), p, a.hdr), a.box)

(* Decrypt returns the plaintext.                                          *)
DecryptAccepts(p) ==
  \E m \in network : \E a \in Arrivals(m) :
    LET out == DecryptArrival(p, a)
    IN  /\ m.from = Peer(p)
        /\ out.err = "ok"
        /\ session' = [session EXCEPT ![p] = out.s]
        /\ accepted' = [accepted EXCEPT ![p] = @ \cup {a.box.text}]
        /\ replayed' = [replayed EXCEPT ![p] = @ \cup ({a.box.text} \cap accepted[p])]
        /\ UNCHANGED <<sent, network>>

(* Decrypt returns an error; the session may have moved all the same.      *)
DecryptRejects(p) ==
  \E m \in network : \E a \in Arrivals(m) :
    LET out == DecryptArrival(p, a)
    IN  /\ m.from = Peer(p)
        /\ out.err # "ok"
        /\ session' = [session EXCEPT ![p] = out.s]
        /\ UNCHANGED <<sent, network, accepted, replayed>>

Next == \E p \in Party : Encrypt(p) \/ DecryptAccepts(p) \/ DecryptRejects(p)

Spec == Init /\ [][Next]_vars
=============================================================================
