------------------------------ MODULE HESession ------------------------------
(***************************************************************************)
(* session_he.go: a session with encrypted headers, as a value.  It wraps  *)
(* a base session (`dr`) and four header keys; MKSKIPPED is indexed by the *)
(* header key instead of the ratchet public key, and no chain but the one  *)
(* of dhr is ever read again.  Outcomes are those of Session.              *)
(***************************************************************************)
EXTENDS Session

(* The header keys that the handshake provides, which no constructor       *)
(* checks: two different ones, neither of them the 32 zero bytes that a    *)
(* session without a key holds and EncryptHeader refuses.                  *)
SharedHKA == [shared |-> "hka"]
SharedNHKB == [shared |-> "nhkb"]
ZeroHeaderKey == [zero |-> TRUE]

(* A header key carries the nonce counter of the headers sealed with it.   *)
FreshHeaderKey(key) == [key |-> key, nonce |-> 0]

(* The third output of KDF_RK_HE, named by the root key derived with it.   *)
NextHeaderKey(root) == [nextFor |-> root]

SealHeader(hk, hdr) == [key |-> hk.key, nonce |-> hk.nonce, hdr |-> hdr]
OpensHeader(key, enc) == key # ZeroHeaderKey /\ enc.key = key

-----------------------------------------------------------------------------
InitInitiatorHE(dhs, bobPK) ==
  LET dr == InitInitiator(dhs, bobPK)
  IN  [dr |-> dr, hks |-> FreshHeaderKey(SharedHKA), hkr |-> FreshHeaderKey(ZeroHeaderKey),
       nhks |-> FreshHeaderKey(NextHeaderKey(dr.rk)), nhkr |-> FreshHeaderKey(SharedNHKB)]

InitResponderHE(bobPair) ==
  [dr |-> InitResponder(bobPair),
   hks |-> FreshHeaderKey(ZeroHeaderKey), hkr |-> FreshHeaderKey(ZeroHeaderKey),
   nhks |-> FreshHeaderKey(SharedNHKB), nhkr |-> FreshHeaderKey(SharedHKA)]

-----------------------------------------------------------------------------
(* Sending.                                                                *)
RatchetDue(s) == s.dr.dhRatchetPerformed \/ s.dr.cks = NoChainKey

(* A session that has never seen a remote key cannot take the step.        *)
CanSendHE(s) == RatchetDue(s) => s.dr.dhRSet

(* Mutant: the header key of the previous chain is put in force again.     *)
DHRatchetSendForgetsNextKey(s, fresh) ==
  LET dr == PerformDHRatchetSend(s.dr, fresh)
  IN  [s EXCEPT !.dr = dr, !.hks = FreshHeaderKey(s.hks.key),
                !.nhks = FreshHeaderKey(NextHeaderKey(dr.rk))]

PerformDHRatchetSendHE(s, fresh) ==
  LET dr == PerformDHRatchetSend(s.dr, fresh)
  IN  [s EXCEPT !.dr = dr, !.hks = s.nhks, !.nhks = FreshHeaderKey(NextHeaderKey(dr.rk))]

(* Mutant: the next header key is dropped before the step can fail.        *)
DHRatchetSendHEFailsDropsNext(s) ==
  [s EXCEPT !.dr.pn = s.dr.ns, !.dr.ns = 0, !.hks = s.nhks, !.nhks = FreshHeaderKey(ZeroHeaderKey)]

(* GenerateKeyPair fails after pn, ns and hks were assigned.               *)
DHRatchetSendHEFails(s) == [s EXCEPT !.dr.pn = s.dr.ns, !.dr.ns = 0, !.hks = s.nhks]

ReadyToSendHE(s, fresh) == IF RatchetDue(s) THEN PerformDHRatchetSendHE(s, fresh) ELSE s

AdvanceSendHE(s) == [s EXCEPT !.dr = AdvanceSend(s.dr), !.hks.nonce = @ + 1]

-----------------------------------------------------------------------------
(* Receiving.                                                              *)

(* Mutants: the old chain's keys are filed under another header key.       *)
SkipPrevChainUnder(s, key, pn) ==
  IF ~HasPrevChain(s.dr) THEN s.dr.mkSkipped
  ELSE StoreKeys(s.dr.mkSkipped, key, GetChain(s.dr.recvChains, s.dr.dhr).ck,
                 PrevNr(s.dr), pn)
SkipPrevChainUnderNext(s, pn) == SkipPrevChainUnder(s, s.nhkr.key, pn)
SkipPrevChainUnderHks(s, pn) == SkipPrevChainUnder(s, s.hks.key, pn)

(* The outstanding keys of the superseded chain, filed under the header    *)
(* key that chain was received with.                                       *)
SkipPrevChainHE(s, pn) ==
  IF ~HasPrevChain(s.dr) THEN s.dr.mkSkipped
  ELSE StoreKeys(s.dr.mkSkipped, s.hkr.key,
                 GetChain(s.dr.recvChains, s.dr.dhr).ck, PrevNr(s.dr), pn)

(* `promote`: the header was opened with the next receiving header key.    *)
PerformDHRatchetRecvHE(s, hdr, promote) ==
  LET root  == DeriveRoot(s.dr.rk, SharedSecret(s.dr.dhs, hdr.pk))
      moved == [s EXCEPT !.hkr = IF promote THEN s.nhkr ELSE s.hkr,
                         !.nhkr = FreshHeaderKey(NextHeaderKey(root)),
                         !.dr.rk = root]
  IN  IF ~VerifyPublicKey(hdr.pk) THEN Failure("ErrInvalidInput", s)
      ELSE IF HasPrevChain(s.dr) /\ TooManySkipped(PrevNr(s.dr), hdr.pn)
      THEN Failure("ErrMaxSkipExceeded", moved)
      ELSE Outcome("ok",
             [moved EXCEPT !.dr =
                [moved.dr EXCEPT
                   !.mkSkipped = SkipPrevChainHE(s, hdr.pn),
                   !.recvChains = Push(s.dr.recvChains, hdr.pk, FirstChainKey(root)),
                   !.dhr = hdr.pk, !.dhRSet = TRUE,
                   !.cks = NoChainKey, !.dhRatchetPerformed = TRUE]],
             NoKey)

(* skipMessageKeysHE, deriveRecvMessageKey and the final Nr++.             *)
ReceiveOnChainHE(s, n) ==
  LET pk    == s.dr.dhr
      chain == GetChain(s.dr.recvChains, pk)
      at    == ChainKeyAt(chain.ck, n - chain.nr)
  IN  IF ~HasChain(s.dr.recvChains, pk) THEN Failure("ErrInvalidTransition", s)
      ELSE IF TooManySkipped(chain.nr, n) THEN Failure("ErrMaxSkipExceeded", s)
      ELSE IF n < chain.nr THEN Failure("ErrInvalidTransition", s)
      ELSE Outcome("ok",
             [s EXCEPT !.dr.mkSkipped = StoreKeys(@, s.hkr.key, chain.ck, chain.nr, n),
                       !.dr.recvChains = PutChain(@, pk, DeriveNextChainKey(at), n + 1)],
             DeriveMessageKey(at))

(* The skipped keys whose header key opens the header and whose number is  *)
(* the one it shows.                                                       *)
MatchingEntries(st, enc) ==
  {id \in DOMAIN st.entries : OpensHeader(id[1], enc) /\ id[2] = enc.hdr.n}

(* TryAllHeaderKeys takes whichever matching entry the map yields first.   *)
TakeSkippedHE(s, enc) ==
  LET id == CHOOSE id \in MatchingEntries(s.dr.mkSkipped, enc) : TRUE
  IN  Outcome("ok", [s EXCEPT !.dr.mkSkipped = Consume(@, id)], Lookup(s.dr.mkSkipped, id))

(* DecryptHE up to the authentication of the body.                         *)
ReceiveKeyHE(s, enc) ==
  LET current == OpensHeader(s.hkr.key, enc)
      next    == ~current /\ OpensHeader(s.nhkr.key, enc)
      newPK   == ~s.dr.dhRSet \/ s.dr.dhr # enc.hdr.pk
      ratchet == IF newPK \/ next THEN PerformDHRatchetRecvHE(s, enc.hdr, next)
                 ELSE Outcome("ok", s, NoKey)
  IN  IF MatchingEntries(s.dr.mkSkipped, enc) # {} THEN TakeSkippedHE(s, enc)
      ELSE IF ~current /\ ~next THEN Failure("ErrAuthFailure", s)
      ELSE IF newPK /\ ~next /\ s.dr.dhRSet THEN Failure("ErrInvalidTransition", s)
      ELSE IF ratchet.err # "ok" THEN ratchet
      ELSE ReceiveOnChainHE(ratchet.s, enc.hdr.n)

(* Mutant: the base session rolls back alone.                              *)
RollbackBaseOnly(s, prev) == [s EXCEPT !.dr = Rollback(s.dr, Record(prev.dr))]

RollbackAll(s, prev) ==
  [s EXCEPT !.dr = Rollback(s.dr, Record(prev.dr)), !.hks = prev.hks, !.hkr = prev.hkr,
            !.nhks = prev.nhks, !.nhkr = prev.nhkr]

DecryptHE(s, enc, ad, box) ==
  LET got  == ReceiveKeyHE(s, enc)
      back == RollbackAll(got.s, s)
  IN  IF got.err # "ok" THEN Failure(got.err, back)
      ELSE IF ~Opens(got.key, ad, box) THEN Failure("ErrAuthFailure", back)
      ELSE got

-----------------------------------------------------------------------------
(* Close: the base session and the four header keys.                       *)

(* Mutant: the header keys of the next chains are left.                    *)
CloseHEKeepsNext(s) ==
  [s EXCEPT !.dr = Close(s.dr), !.hks.key = ZeroHeaderKey, !.hkr.key = ZeroHeaderKey]

CloseHE(s) ==
  [s EXCEPT !.dr = Close(s.dr), !.hks.key = ZeroHeaderKey, !.hkr.key = ZeroHeaderKey,
            !.nhks.key = ZeroHeaderKey, !.nhkr.key = ZeroHeaderKey]
=============================================================================
