---------------------- MODULE DoubleRatchetHEProperties ----------------------
(***************************************************************************)
(* What a pair of header-encryption sessions promises.                     *)
(***************************************************************************)
EXTENDS DoubleRatchetHE

(* No header key seals two headers with one nonce: the nonce is the IV.    *)
(* The counter starts from 0 whenever a header key is adopted, and one key *)
(* must therefore never be adopted twice with headers sealed in between.   *)
HeaderNonceNeverReused ==
  \A m1, m2 \in network :
    (m1.enc.key = m2.enc.key /\ m1.enc.nonce = m2.enc.nonce) => m1 = m2

(* While neither is closed, the header of the next message a party would   *)
(* send opens at its peer, with the current receiving header key or with   *)
(* the next one, whatever has arrived, was rolled back or failed so far.   *)
NextHeaderOpens ==
  closed = {} => \A p \in Party :
    LET s    == session[p]
        peer == session[Peer(p)]
        key  == IF RatchetDue(s) THEN s.nhks.key ELSE s.hks.key
    IN  CanSendHE(s) => key # ZeroHeaderKey /\ key \in {peer.hkr.key, peer.nhkr.key}

(* Neither a receiving header key nor a skipped key of a party opens the   *)
(* header of a message it sent itself: the two directions never share one. *)
DirectionsSeparate ==
  \A m \in network :
    LET s == session[m.from]
    IN  /\ m.enc.key \notin {s.hkr.key, s.nhkr.key}
        /\ \A id \in DOMAIN s.dr.mkSkipped.entries : id[1] # m.enc.key

(* DecryptHE accepts a message once: unlike in the base session, where a   *)
(* superseded chain can still be read, also after any number of DH steps.  *)
AcceptedAtMostOnce == \A p \in Party : replayed[p] = {}

(* The PN announced with a new ratchet key is the number of messages sent  *)
(* under the previous one.  (message.go, Header.PN: "the number of         *)
(* messages in the previous sending chain".)                               *)
PNCountsPreviousChain ==
  \A m \in network :
    m.enc.hdr.pk[2] > 0 =>
      m.enc.hdr.pn = Cardinality({x \in network :
                        x.enc.hdr.pk = KeyPair(m.from, m.enc.hdr.pk[2] - 1)})

Accepts(p, m) == DecryptArrival(p, m).err = "ok"
Outstanding(p) == {m \in network : m.from = Peer(p) /\ m.box.text \notin accepted[p]}

(* Every message not yet accepted by an open session would be accepted now.*)
OutstandingDecryptable ==
  \A p \in Party \ closed : \A m \in Outstanding(p) : Accepts(p, m)

(* A DecryptHE that returns an error leaves the session, its four header   *)
(* keys included, as it found it.                                          *)
RejectionLeavesSession ==
  \A p \in Party : \A m \in {x \in network : x.from = Peer(p)} : \A a \in Arrivals(m) :
    LET out == DecryptArrival(p, a)
    IN  out.err # "ok" => out.s = session[p]

(* No key of the conversation comes back into a closed session, neither a  *)
(* header key nor one of the base session, by whatever it is called for    *)
(* afterwards: a call that would ratchet, store or roll back finds zeros.  *)
ErasedForGood ==
  \A p \in closed :
    LET s == session[p]
    IN  /\ \A hk \in {s.hks, s.hkr, s.nhks, s.nhkr} : hk.key = ZeroHeaderKey
        /\ s.dr.rk = ZeroRootKey
        /\ s.dr.cks # NoChainKey => s.dr.cks.root = ZeroRootKey
        /\ s.dr.recvChains = NewReceiverChains /\ s.dr.mkSkipped = NewStorage
=============================================================================
