-------------------------------- MODULE X3DH --------------------------------
(***************************************************************************)
(* x3dh/x3dh.go: the two sides of the X3DH handshake.  Neither keeps any   *)
(* state; what the application keeps between the calls is in               *)
(* PrekeyHandshake.  The bundle's SPKID is left out: SendHandshake does    *)
(* not read it and InitialMessage has no field for it.                     *)
(***************************************************************************)
EXTENDS Prekeys

(* Mutant: DH1 is left out.                                                *)
DeriveX3DHSKWithoutDH1(dhs) == <<"X3DH", <<dhs[2], dhs[3], dhs[4]>>>>
(* HKDF over F || DH1 || DH2 || DH3 [|| DH4]: injective, since every DH    *)
(* output has 32 bytes.                                                    *)
DeriveX3DHSK(dhs) == <<"X3DH", dhs>>

BuildAD(ika, ikb) == <<ika, ikb>>

SendHandshake(senderIK, bundle, ek) ==
  IF ValidPreKeys(bundle) /\ XEdDSAVerify(bundle.ik, bundle.spk, bundle.spkSignature)
  THEN [ok |-> TRUE,
        secret |-> DeriveX3DHSK(InitiatorSecrets(senderIK, ek, bundle)),
        ad |-> BuildAD(senderIK, bundle.ik),
        msg |-> [ik |-> senderIK, ek |-> ek, opkid |-> NamedOneTimePreKey(bundle)]]
  ELSE HandshakeError

(* Mutant: a missing one-time prekey is not an error.                      *)
ReceiveHandshakeAnyway(receiverIK, spk, opk, msg) ==
  [ok |-> ValidatePublicKey(msg.ik) /\ ValidatePublicKey(msg.ek),
   secret |-> DeriveX3DHSK(ResponderSecrets(receiverIK, spk, opk, msg)),
   ad |-> BuildAD(msg.ik, receiverIK)]
(* opk is NoKey when the caller passes nil; its KeyID is not compared with *)
(* msg.OPKID.                                                              *)
ReceiveHandshake(receiverIK, spk, opk, msg) ==
  IF /\ ValidatePublicKey(msg.ik)
     /\ ValidatePublicKey(msg.ek)
     /\ msg.opkid # NoId => opk # NoKey
  THEN [ok |-> TRUE,
        secret |-> DeriveX3DHSK(ResponderSecrets(receiverIK, spk, opk, msg)),
        ad |-> BuildAD(msg.ik, receiverIK)]
  ELSE HandshakeError
=============================================================================
