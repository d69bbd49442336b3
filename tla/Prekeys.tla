------------------------------- MODULE Prekeys -------------------------------
(***************************************************************************)
(* The keys both handshakes are made from: identity keys, signed prekeys,  *)
(* one-time prekeys and their XEdDSA signatures (x3dh/keys.go,             *)
(* pqxdh/keys.go, internal/ecutil).  A key pair is named by its owner, its *)
(* kind and the key ID its owner gave it; the name is its public half, and *)
(* only the owner's own calls use the private half.                        *)
(***************************************************************************)
EXTENDS SymbolicCrypto

CONSTANT NoId  \* a nil *uint32 where a prekey ID is expected

IdentityKey(who) == [owner |-> who, kind |-> "IK", id |-> 0]
SignedPreKey(who, id) == [owner |-> who, kind |-> "SPK", id |-> id]
OneTimePreKey(who, id) == [owner |-> who, kind |-> "OPK", id |-> id]
(* SendHandshake's own key pair, new with every call.                      *)
EphemeralKey(who, n) == [owner |-> who, kind |-> "EK", id |-> n]

(* Canonical and torsion-free; EdwardsKeys.tla models the arithmetic.      *)
ValidatePublicKey(pk) == VerifyPublicKey(pk)

(* A signature names its signer and the bytes signed.                      *)
XEdDSASign(ik, key) == [by |-> ik, over |-> key]
(* Mutant: the signer is not checked.                                      *)
XEdDSAVerifyAnySigner(ik, key, signature) == signature.over = key
XEdDSAVerify(ik, key, signature) == signature = XEdDSASign(ik, key)

(* Both protocols validate the received curve keys before they use one.    *)
ValidPreKeys(bundle) ==
  /\ ValidatePublicKey(bundle.ik)
  /\ ValidatePublicKey(bundle.spk)
  /\ bundle.opk # NoKey => ValidatePublicKey(bundle.opk)

(* DH1 .. DH3, and DH4 when there is a one-time prekey.  The initiator and *)
(* the responder hold opposite halves, and X25519 commutes.                *)
InitiatorSecrets(ik, ek, bundle) ==
  << SharedSecret(ik, bundle.spk),
     SharedSecret(ek, bundle.ik),
     SharedSecret(ek, bundle.spk),
     IF bundle.opk = NoKey THEN NoKey ELSE SharedSecret(ek, bundle.opk) >>
(* Mutant: the responder takes DH1 and DH2 in the other order.             *)
ResponderSecretsSwapped(ik, spk, opk, msg) ==
  << SharedSecret(ik, msg.ek), SharedSecret(spk, msg.ik), SharedSecret(spk, msg.ek),
     IF msg.opkid = NoId THEN NoKey ELSE SharedSecret(opk, msg.ek) >>
ResponderSecrets(ik, spk, opk, msg) ==
  << SharedSecret(spk, msg.ik),
     SharedSecret(ik, msg.ek),
     SharedSecret(spk, msg.ek),
     IF msg.opkid = NoId THEN NoKey ELSE SharedSecret(opk, msg.ek) >>

(* The OPKID is copied only together with a one-time prekey.               *)
NamedOneTimePreKey(bundle) == IF bundle.opk = NoKey THEN NoId ELSE bundle.opkid

HandshakeError == [ok |-> FALSE]
=============================================================================
