----------------------------- MODULE SPQRSession -----------------------------
(***************************************************************************)
(* session_spqr.go: a Sparse Post-Quantum Ratchet session as a value, one  *)
(* operator per function.  Outcomes carry the session as the function      *)
(* leaves it; unlike the other sessions, Decrypt undoes only a failed      *)
(* authentication, and an error of receiveKey is returned as it stands.    *)
(***************************************************************************)
EXTENDS SCKAProvider, SymbolicCrypto

CONSTANT MaxSkip
ASSUME MaxSkipAssumption == MaxSkip \in Nat \ {0}

Outcome(err, s, hdr, key) == [err |-> err, s |-> s, hdr |-> hdr, key |-> key]
Failure(err, s) == Outcome(err, s, BadMsg, NoKey)

(* A chain key and its counter; the counter enters the KDF of the step.    *)
KDFChain(root, dir) == [ck |-> [root |-> root, dir |-> dir, step |-> 0], n |-> 0]
ChainAt(chain, k) == [ck |-> [chain.ck EXCEPT !.step = @ + k], n |-> chain.n + k]
MessageKeyOf(chain) == [ck |-> chain.ck, ctr |-> chain.n]

Opposite(dir) == IF dir = "A2B" THEN "B2A" ELSE "A2B"

ChainPair(root, dir) ==
  [send |-> KDFChain(root, dir), receive |-> KDFChain(root, Opposite(dir))]

InitSCKA(dir) ==
  [rk |-> InitialRootKey, epoch |-> 0, direction |-> dir,
   kdfChains |-> [e \in {0} |-> ChainPair(InitialRootKey, dir)],
   mkSkipped |-> << >>, scka |-> InitProvider(dir = "A2B")]

-----------------------------------------------------------------------------
(* Mutant: keepFrom is sendingEpoch itself.                                *)
ClearOldEpochsTooMany(s, epoch) ==
  [s EXCEPT !.kdfChains = [e \in {x \in DOMAIN @ : x >= epoch} |-> @[e]],
            !.mkSkipped = [id \in {x \in DOMAIN @ : x[1] >= epoch} |-> @[id]]]

(* Epochs before epoch - 1 lose their chains and their skipped keys.       *)
ClearOldEpochs(s, epoch) ==
  [s EXCEPT !.kdfChains = [e \in {x \in DOMAIN @ : x >= epoch - 1} |-> @[e]],
            !.mkSkipped = [id \in {x \in DOMAIN @ : x[1] >= epoch - 1} |-> @[id]]]

(* A key the provider put out starts the chains of its epoch.              *)
AdvanceEpoch(s, keyEpoch) ==
  LET root == DeriveRoot(s.rk, OutputKey(keyEpoch))
  IN  [s EXCEPT !.rk = root, !.epoch = keyEpoch,
                !.kdfChains = [e \in DOMAIN @ \cup {keyEpoch} |->
                                 IF e = keyEpoch THEN ChainPair(root, s.direction) ELSE @[e]]]

(* What sendKey and receiveKey do with the provider's answer.              *)
EpochStep(s, keyEpoch, inEpoch) ==
  IF keyEpoch = NoEpoch THEN s ELSE ClearOldEpochs(AdvanceEpoch(s, keyEpoch), inEpoch)
EpochMismatch(s, keyEpoch) == keyEpoch # NoEpoch /\ s.epoch + 1 # keyEpoch

-----------------------------------------------------------------------------
(* Sending.                                                                *)

(* Once a party sends in an epoch it cannot send in the one before.        *)
DropSendChainBefore(s, epoch) ==
  IF epoch > 0 /\ epoch - 1 \in DOMAIN s.kdfChains
  THEN [s EXCEPT !.kdfChains[epoch - 1].send = NoChainKey] ELSE s

CanSendIn(s, epoch) ==
  epoch \in DOMAIN s.kdfChains /\ s.kdfChains[epoch].send # NoChainKey

(* Mutant: the step is not written back.                                   *)
StepSendChainForgotten(s, epoch) == s

StepSendChain(s, epoch) ==
  [s EXCEPT !.kdfChains[epoch].send = ChainAt(@, 1)]

SendKey(s) ==
  LET sp    == ProviderSend(s.scka)
      told  == [s EXCEPT !.scka = sp.st]
      ready == DropSendChainBefore(EpochStep(told, sp.keyEpoch, sp.sendingEpoch), sp.sendingEpoch)
      chain == ready.kdfChains[sp.sendingEpoch].send
  IN  IF EpochMismatch(s, sp.keyEpoch) THEN Failure("ErrEpochMismatch", told)
      ELSE IF ~CanSendIn(ready, sp.sendingEpoch) THEN Failure("ErrInvalidTransition", ready)
      ELSE Outcome("ok", StepSendChain(ready, sp.sendingEpoch),
                   [msg |-> sp.msg, n |-> chain.n], MessageKeyOf(chain))

-----------------------------------------------------------------------------
(* Receiving.                                                              *)

(* Mutant: a used skipped key is kept.                                     *)
TakeSkippedKeeps(s, id) == Outcome("ok", s, BadMsg, s.mkSkipped[id])

TakeSkipped(s, id) ==
  Outcome("ok", [s EXCEPT !.mkSkipped = [x \in DOMAIN @ \ {id} |-> @[x]]], BadMsg,
          s.mkSkipped[id])

TooManySkipped(from, until) == until > from /\ until - from > MaxSkip

(* skipMessageKeysSPQR stores the keys of the numbers n jumps over.        *)
SkipTo(s, epoch, n) ==
  LET chain   == s.kdfChains[epoch].receive
      skipped == {<<epoch, k>> : k \in chain.n .. n - 1}
  IN  IF n <= chain.n THEN s
      ELSE [s EXCEPT
              !.kdfChains[epoch].receive = ChainAt(chain, n - chain.n),
              !.mkSkipped = [id \in DOMAIN @ \cup skipped |->
                               IF id \in skipped THEN MessageKeyOf(ChainAt(chain, id[2] - chain.n))
                               ELSE @[id]]]

ReceiveOnChain(s, epoch, n) ==
  LET there == SkipTo(s, epoch, n)
      chain == there.kdfChains[epoch].receive
  IN  IF epoch \notin DOMAIN s.kdfChains THEN Failure("ErrInvalidTransition", s)
      ELSE IF TooManySkipped(s.kdfChains[epoch].receive.n, n)
      THEN Failure("ErrMaxSkipExceeded", s)
      ELSE IF chain.n # n THEN Failure("ErrSkippedKeyNotFound", there)
      ELSE Outcome("ok", [there EXCEPT !.kdfChains[epoch].receive = ChainAt(chain, 1)],
                   BadMsg, MessageKeyOf(chain))

ReceiveKey(s, hdr) ==
  LET rp   == ProviderReceive(s.scka, hdr.msg)
      told == [s EXCEPT !.scka = rp.st]
      here == EpochStep(told, rp.keyEpoch, rp.receivingEpoch)
      id   == <<rp.receivingEpoch, hdr.n>>
  IN  IF ~Understands(hdr.msg) THEN Failure("ErrProvider", s)
      ELSE IF EpochMismatch(s, rp.keyEpoch) THEN Failure("ErrEpochMismatch", told)
      ELSE IF id \in DOMAIN here.mkSkipped THEN TakeSkipped(here, id)
      ELSE ReceiveOnChain(here, rp.receivingEpoch, hdr.n)

(* Mutants: one part of the snapshot does not come back.                   *)
RestoreKeepsProvider(s, prev) == [prev EXCEPT !.scka = s.scka]
RestoreKeepsEpoch(s, prev) == [prev EXCEPT !.epoch = s.epoch]
RestoreKeepsSkipped(s, prev) == [prev EXCEPT !.mkSkipped = s.mkSkipped]

Restore(s, prev) ==
  [s EXCEPT !.rk = prev.rk, !.epoch = prev.epoch, !.kdfChains = prev.kdfChains,
            !.mkSkipped = prev.mkSkipped, !.scka = prev.scka]

Decrypt(s, hdr, ad, box) ==
  LET got == ReceiveKey(s, hdr)
  IN  IF got.err # "ok" THEN got
      ELSE IF ~Opens(got.key, ad, box) THEN Failure("ErrAuthFailure", Restore(got.s, s))
      ELSE got

-----------------------------------------------------------------------------
ZeroRootKey == <<ZeroKey>>

(* Close empties the maps.  The provider, closed as well, would still      *)
(* answer.                                                                 *)
Close(s) == [s EXCEPT !.rk = ZeroRootKey, !.kdfChains = << >>, !.mkSkipped = << >>]
=============================================================================
