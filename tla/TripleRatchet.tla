---------------------------- MODULE TripleRatchet ----------------------------
(***************************************************************************)
(* Two Triple Ratchet sessions and the transport between them.  A step is  *)
(* one call of Encrypt or Decrypt by one party; the transport may deliver  *)
(* any message again, late, never, damaged, or with the headers of two     *)
(* messages exchanged.                                                     *)
(***************************************************************************)
EXTENDS TripleRatchetSession

CONSTANTS Initiator, Responder,
          CorruptKey,  \* a public key nobody generated, as a damaged header shows
          MaxSends,    \* bound: messages each party sends
          MaxNumber    \* bound: largest PN or N a damaged header carries

ASSUME BoundAssumption == MaxSends \in Nat /\ MaxNumber \in Nat
ASSUME PartyAssumption == Initiator # Responder
ASSUME KeyAssumption == ZeroKey \notin {Initiator, Responder} \X Nat

VARIABLES
  session,    \* the TripleRatchetSession of each party
  generated,  \* how many key pairs each party has generated
  sent,       \* how many messages each party has sent
  network,    \* every message sent so far; nothing is ever taken out
  accepted,   \* the messages Decrypt has returned to each party
  replayed,   \* those it has returned more than once
  closed      \* the parties whose session was closed

vars == <<session, generated, sent, network, accepted, replayed, closed>>

Party == {Initiator, Responder}
Peer(p) == IF p = Initiator THEN Responder ELSE Initiator
KeyPair(p, i) == <<p, i>>

(* expandSK gives the two halves independent root keys; each half's        *)
(* InitialRootKey stands for its own.                                      *)
Init ==
  /\ session = [p \in Party |->
                  IF p = Initiator
                  THEN InitInitiatorTripleRatchet(KeyPair(Initiator, 0), KeyPair(Responder, 0))
                  ELSE InitResponderTripleRatchet(KeyPair(Responder, 0))]
  /\ generated = [p \in Party |-> 1]
  /\ sent = [p \in Party |-> 0]
  /\ network = {}
  /\ accepted = [p \in Party |-> {}]
  /\ replayed = [p \in Party |-> {}]
  /\ closed = {}

-----------------------------------------------------------------------------
(* identity prefix || ad || EC header || SCKA header.                      *)
BuildAD(sender, receiver, hdr) == <<sender, receiver, hdr>>

(* The pair a ratchet step of p draws next.                                *)
NextPair(p) == KeyPair(p, generated[p])
Draws(p) == session[p].dr.dhRatchetPerformed

Encrypt(p) ==
  LET out == EncryptKey(session[p], NextPair(p), TRUE)
  IN  /\ sent[p] < MaxSends
      /\ out.err = "ok"
      /\ session' = [session EXCEPT ![p] = out.s]
      /\ generated' = IF Draws(p) THEN [generated EXCEPT ![p] = @ + 1] ELSE generated
      /\ sent' = [sent EXCEPT ![p] = @ + 1]
      /\ network' = network \cup
           {[from |-> p, hdr |-> out.hdr,
             box |-> EC!Seal(out.key, BuildAD(p, Peer(p), out.hdr), sent[p])]}
      /\ UNCHANGED <<accepted, replayed, closed>>

(* The ways in which Encrypt can fail now: the entropy source or the       *)
(* provider fails, or a half has no chain to send with.                    *)
FailedEncrypts(p) ==
  {out \in {EncryptKey(session[p], NoKey, TRUE),
            EncryptKey(session[p], NextPair(p), FALSE),
            EncryptKey(session[p], NextPair(p), TRUE)} : out.err # "ok"}

(* Encrypt returns an error.  A pair it drew is gone with the call; the    *)
(* next call draws another, which nothing can tell from the first: it has  *)
(* left no trace.                                                          *)
EncryptFails(p) ==
  \E out \in FailedEncrypts(p) :
    /\ session' = [session EXCEPT ![p] = out.s]
    /\ UNCHANGED <<generated, sent, network, accepted, replayed, closed>>

-----------------------------------------------------------------------------
(* What may arrive where m was sent.                                       *)
Intact(m) == {m}
DamagedEC(m) ==
  {[m EXCEPT !.hdr.ec.pk = k] : k \in {ZeroKey, CorruptKey}} \cup
  {[m EXCEPT !.hdr.ec.pn = k] : k \in 0 .. MaxNumber} \cup
  {[m EXCEPT !.hdr.ec.n = k] : k \in 0 .. MaxNumber}
DamagedSCKA(m) ==
  {[m EXCEPT !.hdr.scka = NilHeader], [m EXCEPT !.hdr.scka.msg = PQ!BadMsg]} \cup
  {[m EXCEPT !.hdr.scka.n = k] : k \in 0 .. MaxNumber}
DamagedBody(m) == {[m EXCEPT !.box.key = EC!ForeignKey]}
Recombined(m) == {[m EXCEPT !.hdr.scka = x.hdr.scka] : x \in {y \in network : y.from = m.from}}
Arrivals(m) ==
  Intact(m) \cup DamagedEC(m) \cup DamagedSCKA(m) \cup DamagedBody(m) \cup Recombined(m)

DecryptArrival(p, a) ==
  Decrypt(session[p], a.hdr, BuildAD(Peer(p), p, a.hdr), a.box)

(* Decrypt returns the plaintext.                                          *)
DecryptAccepts(p) ==
  \E m \in network : \E a \in Arrivals(m) :
    LET out == DecryptArrival(p, a)
    IN  /\ m.from = Peer(p)
        /\ out.err = "ok"
        /\ session' = [session EXCEPT ![p] = out.s]
        /\ accepted' = [accepted EXCEPT ![p] = @ \cup {a.box.text}]
        /\ replayed' = [replayed EXCEPT ![p] = @ \cup ({a.box.text} \cap accepted[p])]
        /\ UNCHANGED <<generated, sent, network, closed>>

(* Decrypt returns an error.                                               *)
DecryptRejects(p) ==
  \E m \in network : \E a \in Arrivals(m) :
    LET out == DecryptArrival(p, a)
    IN  /\ m.from = Peer(p)
        /\ out.err # "ok"
        /\ session' = [session EXCEPT ![p] = out.s]
        /\ UNCHANGED <<generated, sent, network, accepted, replayed, closed>>

(* The application closes its session; it may go on calling it, and the    *)
(* provider, closed as well, would still answer.                           *)
CloseSession(p) ==
  /\ p \notin closed
  /\ session' = [session EXCEPT ![p] = CloseBoth(session[p])]
  /\ closed' = closed \cup {p}
  /\ UNCHANGED <<generated, sent, network, accepted, replayed>>

Next ==
  \E p \in Party :
    \/ Encrypt(p) \/ EncryptFails(p)
    \/ DecryptAccepts(p) \/ DecryptRejects(p)
    \/ CloseSession(p)

Spec == Init /\ [][Next]_vars
=============================================================================
