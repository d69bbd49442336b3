---------------------------- MODULE SecureChannel ----------------------------
(***************************************************************************)
(* What a session promises its application, whatever the transport does:   *)
(* Decrypt returns only what the peer sent, and each message at most once. *)
(* Nothing is promised about order or about loss.                          *)
(***************************************************************************)
EXTENDS Integers

CONSTANTS Initiator, Responder

VARIABLES
  sent,       \* how many messages each party has sent; the i-th is named i - 1
  delivered   \* how often each message has been delivered to each party

Party == {Initiator, Responder}
Peer(p) == IF p = Initiator THEN Responder ELSE Initiator

TimesDelivered(p, i) == IF i \in DOMAIN delivered[p] THEN delivered[p][i] ELSE 0

Init ==
  /\ sent = [p \in Party |-> 0]
  /\ delivered = [p \in Party |-> << >>]

Send(p) ==
  /\ sent' = [sent EXCEPT ![p] = @ + 1]
  /\ UNCHANGED delivered

Deliver(p) ==
  \E i \in 0 .. sent[Peer(p)] - 1 :
    /\ TimesDelivered(p, i) = 0
    /\ delivered' = [delivered EXCEPT ![p] =
                       [j \in DOMAIN @ \cup {i} |-> IF j = i THEN 1 ELSE @[j]]]
    /\ UNCHANGED sent

Next == \E p \in Party : Send(p) \/ Deliver(p)

Spec == Init /\ [][Next]_<<sent, delivered>>
=============================================================================
