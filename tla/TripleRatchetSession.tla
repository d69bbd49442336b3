------------------------ MODULE TripleRatchetSession ------------------------
(***************************************************************************)
(* session_tr.go: a Triple Ratchet session as a value: a base session (dr) *)
(* and an SPQR session (spqr) side by side.  A message is sealed under a   *)
(* key made of one key of each half; every failure of either public call   *)
(* has to undo both halves, the SCKA provider included.                    *)
(***************************************************************************)
EXTENDS Integers

CONSTANTS ZeroKey, NoKey, ReceiverChainsMax, MaxSkip

ASSUME MaxSkipAssumption == MaxSkip \in Nat \ {0}
ASSUME CapacityAssumption == ReceiverChainsMax \in Nat \ {0}

EC == INSTANCE Session
PQ == INSTANCE SPQRSession

Outcome(err, s, hdr, key) == [err |-> err, s |-> s, hdr |-> hdr, key |-> key]

(* The nil SCKA header of an incomplete message.                           *)
NilHeader == [nil |-> TRUE]

(* kdf.Hybrid: the PQ key is the salt, the EC key the input.               *)
Hybrid(pqMK, ecMK) == [pq |-> pqMK, ec |-> ecMK]

-----------------------------------------------------------------------------
InitInitiatorTripleRatchet(dhs, bobPK) ==
  [dr |-> EC!InitInitiator(dhs, bobPK), spqr |-> PQ!InitSCKA("A2B")]
InitResponderTripleRatchet(bobPair) ==
  [dr |-> EC!InitResponder(bobPair), spqr |-> PQ!InitSCKA("B2A")]

(* Mutants: only one half comes back.                                      *)
RollbackECOnly(s, prev) == [s EXCEPT !.dr = EC!Rollback(s.dr, EC!Record(prev.dr))]
RollbackPQOnly(s, prev) == [s EXCEPT !.spqr = PQ!Restore(s.spqr, prev.spqr)]

RollbackBoth(s, prev) ==
  [dr |-> EC!Rollback(s.dr, EC!Record(prev.dr)), spqr |-> PQ!Restore(s.spqr, prev.spqr)]

-----------------------------------------------------------------------------
(* ratchetSendKey.  `fresh` is the key pair GenerateKeyPair returns, NoKey *)
(* when it fails.                                                          *)
RatchetSendKey(dr, fresh) ==
  LET ready == EC!ReadyToSend(dr, fresh)
  IN  IF EC!RatchetRefused(dr) \/ (dr.dhRatchetPerformed /\ fresh = NoKey)
      THEN EC!Failure("ErrRandom", EC!DHRatchetSendFails(dr))
      ELSE IF ~EC!CanSend(dr) THEN EC!Failure("ErrSessionNotInitialized", dr)
      ELSE EC!Outcome("ok", EC!AdvanceSend(ready), EC!DeriveMessageKey(ready.cks))

(* The header names the chain and number the key was taken at.             *)
SentHeader(dr, fresh) == EC!HeaderOf(EC!ReadyToSend(dr, fresh))

(* sendKey of the PQ half, whose provider may refuse to Send.              *)
SendKeyPQ(spqr, providerAnswers) ==
  IF providerAnswers THEN PQ!SendKey(spqr) ELSE PQ!Failure("ErrProvider", spqr)

(* Encrypt up to the sealing of the body, with every early return.         *)
EncryptKey(s, fresh, providerAnswers) ==
  LET ec == RatchetSendKey(s.dr, fresh)
      pq == SendKeyPQ(s.spqr, providerAnswers)
      halfway == [s EXCEPT !.dr = ec.s]
      both == [dr |-> ec.s, spqr |-> pq.s]
  IN  IF ec.err # "ok" THEN Outcome(ec.err, RollbackBoth(halfway, s), NilHeader, NoKey)
      ELSE IF pq.err # "ok" THEN Outcome(pq.err, RollbackBoth(both, s), NilHeader, NoKey)
      ELSE Outcome("ok", both, [ec |-> SentHeader(s.dr, fresh), scka |-> pq.hdr],
                   Hybrid(pq.key, ec.key))

-----------------------------------------------------------------------------
(* Decrypt: the EC half, the PQ half, then the body.                       *)
Decrypt(s, hdr, ad, box) ==
  LET ec == EC!RatchetReceiveKey(s.dr, hdr.ec)
      pq == PQ!ReceiveKey(s.spqr, hdr.scka)
      halfway == [s EXCEPT !.dr = ec.s]
      both == [dr |-> ec.s, spqr |-> pq.s]
      key == Hybrid(pq.key, ec.key)
      Failure(err, at) == Outcome(err, RollbackBoth(at, s), NilHeader, NoKey)
  IN  IF hdr.scka = NilHeader THEN Outcome("ErrNilSCKAHeader", s, NilHeader, NoKey)
      ELSE IF ec.err # "ok" THEN Failure(ec.err, halfway)
      ELSE IF pq.err # "ok" THEN Failure(pq.err, both)
      ELSE IF ~EC!Opens(key, ad, box) THEN Failure("ErrAuthFailure", both)
      ELSE Outcome("ok", both, hdr, key)

(* Both halves are closed, whatever either of them reports.                *)
CloseBoth(s) == [dr |-> EC!Close(s.dr), spqr |-> PQ!Close(s.spqr)]
=============================================================================
