---------------------------- MODULE SessionCalls ----------------------------
(***************************************************************************)
(* What one base session promises its caller, as values: Encrypt and       *)
(* Decrypt are the operators of Session, and a Decrypt that fails changes  *)
(* nothing.  The headers are any the peer may authenticate.                *)
(***************************************************************************)
EXTENDS Session

CONSTANTS Owner, Peer,
          PeerKeys,   \* bound: the peer's ratchet keys are <<Peer, 1>> .. <<Peer, PeerKeys>>
          MaxNumber   \* bound: PN and N of the headers

VARIABLE session

Headers == [pk : {ZeroKey} \cup {<<Peer, i>> : i \in 1 .. PeerKeys},
            pn : 0 .. MaxNumber, n : 0 .. MaxNumber]
NextPair(s) == <<Owner, s.dhs[2] + 1>>

Init == session \in {InitInitiator(<<Owner, 1>>, <<Peer, 1>>), InitResponder(<<Owner, 1>>)}

Encrypts ==
  /\ CanSend(session) /\ ~RatchetRefused(session)
  /\ session' = AdvanceSend(ReadyToSend(session, NextPair(session)))
EncryptFails == session.dhRatchetPerformed /\ session' = DHRatchetSendFails(session)

Accepts(hdr) ==
  LET got == RatchetReceiveKey(session, hdr)
  IN  got.err = "ok" /\ session' = got.s

Next == Encrypts \/ EncryptFails \/ session' = Close(session) \/ \E hdr \in Headers : Accepts(hdr)

Spec == Init /\ [][Next]_session
=============================================================================
