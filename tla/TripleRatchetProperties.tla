----------------------- MODULE TripleRatchetProperties -----------------------
(***************************************************************************)
(* What a pair of Triple Ratchet sessions promises.                        *)
(***************************************************************************)
EXTENDS TripleRatchet

(* Neither half ever gives the same key to two messages, not even after an *)
(* Encrypt that failed between the halves: with one half broken, the other *)
(* alone still makes every hybrid key fresh.  (session_tr.go: "compromise  *)
(* of either component alone reveals nothing".)                            *)
EachHalfNeverReusesKey ==
  \A m1, m2 \in network :
    (m1.box.key.ec = m2.box.key.ec \/ m1.box.key.pq = m2.box.key.pq) => m1 = m2

(* An Encrypt that returns an error leaves both halves as they were,       *)
(* whichever half it gave up in: the EC half has already moved when the PQ *)
(* half fails.                                                             *)
FailedEncryptLeavesSession ==
  \A p \in Party : \A out \in FailedEncrypts(p) : out.s = session[p]

(* A Decrypt that returns an error leaves both halves and the provider as  *)
(* they were, whatever was damaged or exchanged and however far it got.    *)
RejectionLeavesSession ==
  \A p \in Party : \A m \in {x \in network : x.from = Peer(p)} : \A a \in Arrivals(m) :
    LET out == DecryptArrival(p, a)
    IN  out.err # "ok" => out.s = session[p]

Accepts(p, m) == DecryptArrival(p, m).err = "ok"
Outstanding(p) == {m \in network : m.from = Peer(p) /\ m.box.text \notin accepted[p]}

(* No message of the three newest epochs is lost to an open session by     *)
(* what else arrives: the halves never part company so that one has the    *)
(* key of a message and the other has not.                                 *)
RecentOutstandingDecryptable ==
  \A p \in Party \ closed : \A m \in Outstanding(p) :
    m.hdr.scka.msg.epoch >= session[p].spqr.epoch - 2 => Accepts(p, m)

(* Decrypt delivers only what the peer sent, each message at most once.    *)
(* The EC half alone would take a message of a superseded chain again; the *)
(* PQ half refuses it.                                                     *)
Channel == INSTANCE SecureChannel WITH
  delivered <- [p \in Party |-> [i \in accepted[p] |-> IF i \in replayed[p] THEN 2 ELSE 1]]
ImplementsChannel == Channel!Spec

(* Neither half of a closed session ever holds a key of the conversation   *)
(* again, although the base half would go on with its zeroed chain and the *)
(* provider may put out the key of another epoch: every call that gets     *)
(* that far fails in the other half, and both are rolled back.             *)
ErasedForGood ==
  \A p \in closed :
    LET s == session[p]
    IN  /\ s.dr.rk = EC!ZeroRootKey /\ s.spqr.rk = PQ!ZeroRootKey
        /\ s.dr.recvChains = EC!NewReceiverChains /\ s.dr.mkSkipped = EC!NewStorage
        /\ s.spqr.kdfChains = << >> /\ s.spqr.mkSkipped = << >>
=============================================================================
