---------------------- MODULE PrekeyHandshakeProperties ----------------------
(***************************************************************************)
(* What X3DH and PQXDH promise the two sides of a handshake.               *)
(***************************************************************************)
EXTENDS PrekeyHandshake

(* The handshake's agreement: when both sides end with the same secret,    *)
(* whatever the server and the network did to the bundle and the message,  *)
(* they also agree on the associated data and on both identities, on the   *)
(* signed prekey, with which InitInitiator and InitResponder start the     *)
(* ratchet, on the PQ prekey and on the ephemeral key.                     *)
SecretAgreementIsFull ==
  \A s \in sent, c \in completed : s.secret = c.secret =>
     /\ s.ad = c.ad
     /\ s.bundle.ik = IdentityKey(Bob) /\ c.msg.ik = IdentityKey(Alice)
     /\ s.bundle.spk = c.spk
     /\ postQuantum => s.bundle.pqpk = c.pqpk
     /\ s.msg.ek = c.msg.ek

(* Alice never completes a handshake on a bundle that mixes identities:    *)
(* the signed prekeys she encrypts to were signed by the identity in it.   *)
BundleBelongsToIdentity ==
  \A s \in sent : /\ s.bundle.spk.owner = s.bundle.ik.owner
                  /\ postQuantum => s.bundle.pqpk.owner = s.bundle.ik.owner

(* After any rotations, a message made from a bundle Bob published can be  *)
(* completed for as long as he keeps the keys it was made for, and by      *)
(* exactly one of the signed prekeys he keeps; ReceiveHandshake reports no *)
(* error with any of the others.                                           *)
OneSignedPreKeyFits ==
  \A s \in sent :
    LET m == s.msg
        b == s.bundle
    IN  (/\ b \in Published
         /\ {b.spk} \cup ({b.opk, b.pqpk} \ {NoKey}) \subseteq kept) =>
          \A spk \in OfKind(kept, {"SPK"}) :
            LET r == ReceiveHandshake(m, spk, b.pqpk)
            IN  r.ok /\ (r.secret = s.secret <=> spk = b.spk)

(* A repeated initial message sets up a second session only if it was made *)
(* without a one-time prekey: one that names one is completed only once.   *)
OneTimePreKeyUsedOnce ==
  \A c, d \in completed : c # d =>
    /\ c.msg.opkid # NoId => c.msg.opkid # d.msg.opkid
    /\ postQuantum /\ c.pqpk.kind = "KEMOPK" => c.pqpk # d.pqpk
=============================================================================
