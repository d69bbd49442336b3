--------------------------- MODULE SPQRProperties ---------------------------
(***************************************************************************)
(* What a pair of SPQR sessions over a contract-keeping provider promises. *)
(***************************************************************************)
EXTENDS SPQR, FiniteSets

(* The provider's epoch and the session's are the same, and the newest     *)
(* epoch has chains, also after an error that was not rolled back.         *)
SessionFollowsProvider ==
  \A p \in Party :
    LET s == session[p]
    IN  s.epoch = s.scka.epoch /\ s.epoch \in DOMAIN s.kdfChains

(* Encrypt always finds a send chain for the epoch the provider tells it   *)
(* to send in: dropping older chains and clearing older epochs never       *)
(* removes it, whatever was received, rejected or rolled back in between.  *)
EncryptNeverFails == \A p \in Party : SendKey(session[p]).err = "ok"

Accepts(p, m) == DecryptArrival(p, m).err = "ok"
Outstanding(p) == {m \in network : m.from = Peer(p) /\ m.box.text \notin accepted[p]}

(* No message of the three newest epochs is lost to the receiver by what   *)
(* else arrives: not by a rejected arrival, rolled back or not, and not by *)
(* the start of a new epoch while it was in flight.                        *)
RecentOutstandingDecryptable ==
  \A p \in Party : \A m \in Outstanding(p) :
    m.hdr.msg.epoch >= session[p].epoch - 2 => Accepts(p, m)

(* Decrypt accepts a message once.                                         *)
AcceptedAtMostOnce == \A p \in Party : replayed[p] = {}

(* A Decrypt that fails to authenticate the body leaves the session and    *)
(* its provider as they were, an epoch that began with it included.        *)
AuthFailureLeavesSession ==
  \A p \in Party : \A m \in {x \in network : x.from = Peer(p)} : \A a \in Arrivals(m) :
    LET out == DecryptArrival(p, a)
    IN  out.err = "ErrAuthFailure" => out.s = session[p]

(* "`MaxSkip` bounds how many skipped message keys can be retained for     *)
(* out-of-order delivery." (README.md, Configuration)                      *)
RetainedKeysWithinMaxSkip ==
  \A p \in Party : Cardinality(DOMAIN session[p].mkSkipped) <= MaxSkip
=============================================================================
