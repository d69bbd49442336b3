-------------------------------- MODULE PQXDH --------------------------------
(***************************************************************************)
(* pqxdh/pqxdh.go and pqxdh/kem.go: X3DH with an ML-KEM encapsulation      *)
(* against a signed PQ prekey mixed in.                                    *)
(***************************************************************************)
EXTENDS Prekeys

(* kemRegistry: the parameter sets with an implementation.                 *)
KemRegistry == {"MLKEM768", "MLKEM1024"}

(* GenerateKEMSPK (the last-resort prekey) and GenerateKEMOPK.             *)
KEMSignedPreKey(who, id, params) ==
  [owner |-> who, kind |-> "KEMSPK", id |-> id, params |-> params]
KEMOneTimePreKey(who, id, params) ==
  [owner |-> who, kind |-> "KEMOPK", id |-> id, params |-> params]

(* A ciphertext names the key it was made for and the coins drawn, one     *)
(* draw per handshake.  Keys and ciphertexts of the two parameter sets     *)
(* differ in length, so a wrong set is an error; a ciphertext for another  *)
(* key of the same set is not (implicit rejection): the shared secret is   *)
(* then one nobody else has.                                               *)
KemEncapsulate(pqpk, params, coins) ==
  IF params \in KemRegistry /\ pqpk.params = params
  THEN LET ct == [to |-> pqpk, coins |-> coins]
       IN  [ok |-> TRUE, ct |-> ct, ss |-> <<pqpk, ct>>]
  ELSE HandshakeError
KemDecapsulate(pqpk, ct) ==
  IF pqpk.params \in KemRegistry /\ ct.to.params = pqpk.params
  THEN [ok |-> TRUE, ss |-> <<pqpk, ct>>]
  ELSE HandshakeError

(* Mutant: the KEM secret is left out.                                     *)
DerivePQXDHSKWithoutKem(dhs, kemSS) == <<"PQXDH", dhs>>
(* 96 bytes, cut into root key, chain key and PQR key.                     *)
DerivePQXDHSK(dhs, kemSS) == <<"PQXDH", dhs, kemSS>>

BuildAD(ika, ikb, pqpk) == <<ika, ikb, pqpk>>

SendHandshake(senderIK, bundle, ek) ==
  LET kem == KemEncapsulate(bundle.pqpk, bundle.params, ek)
  IN  IF /\ ValidPreKeys(bundle)
         /\ XEdDSAVerify(bundle.ik, bundle.spk, bundle.spkSignature)
         /\ XEdDSAVerify(bundle.ik, bundle.pqpk, bundle.pqSignature)
         /\ kem.ok
      THEN [ok |-> TRUE,
            secret |-> DerivePQXDHSK(InitiatorSecrets(senderIK, ek, bundle), kem.ss),
            ad |-> BuildAD(senderIK, bundle.ik, bundle.pqpk),
            msg |-> [ik |-> senderIK, ek |-> ek, opkid |-> NamedOneTimePreKey(bundle),
                     pqid |-> bundle.pqid, params |-> bundle.params, ct |-> kem.ct]]
      ELSE HandshakeError

(* Mutant: a missing one-time prekey is not an error.                      *)
ReceiveHandshakeAnyway(receiverIK, spk, opk, pqpk, msg) ==
  LET kem == KemDecapsulate(pqpk, msg.ct)
  IN  IF pqpk.params = msg.params /\ kem.ok
      THEN [ok |-> TRUE,
            secret |-> DerivePQXDHSK(ResponderSecrets(receiverIK, spk, opk, msg), kem.ss),
            ad |-> BuildAD(msg.ik, receiverIK, pqpk)]
      ELSE HandshakeError
(* pqpk is the key the caller found under msg.PQPreKeyID.                  *)
ReceiveHandshake(receiverIK, spk, opk, pqpk, msg) ==
  LET kem == KemDecapsulate(pqpk, msg.ct)
  IN  IF /\ pqpk.params = msg.params
         /\ ValidatePublicKey(msg.ik)
         /\ ValidatePublicKey(msg.ek)
         /\ kem.ok
         /\ msg.opkid # NoId => opk # NoKey
      THEN [ok |-> TRUE,
            secret |-> DerivePQXDHSK(ResponderSecrets(receiverIK, spk, opk, msg), kem.ss),
            ad |-> BuildAD(msg.ik, receiverIK, pqpk)]
      ELSE HandshakeError
=============================================================================
