---------------------------- MODULE ReceiveLoops ----------------------------
(***************************************************************************)
(* One call of Session.Decrypt after another, each run loop iteration by   *)
(* loop iteration with counters of the machine's word.  Session models the *)
(* three receive loops by what they compute; here they run, so that one    *)
(* sees whether they come to an end and whether they compute that.         *)
(***************************************************************************)
EXTENDS Session

CONSTANTS
  Receiver, Sender,
  WordSize,      \* 2^32: counters and message numbers are 0 .. WordSize - 1
  LongestChain   \* bound: messages the sender seals with one ratchet key

ASSUME WordAssumption == WordSize \in Nat \ {0} /\ MaxSkip < WordSize
ASSUME LengthAssumption == LongestChain \in 1 .. WordSize
ASSUME PartyAssumption == Receiver # Sender

Word == 0 .. WordSize - 1
Succ(n) == (n + 1) % WordSize

VARIABLES
  session,   \* the receiver's session
  length,    \* how many messages the sender seals with each of its two keys
  pc,        \* the loop that runs; "idle" between calls, "returned" at the end of one
  before,    \* the snapshot Record took
  hdr,       \* the header of the call that runs
  i,         \* the loop variable
  ck,        \* the chain key a loop carries
  result     \* [err, key] of the call that returns; NoChainKey is the nil slice in ck and key

vars == <<session, length, pc, before, hdr, i, ck, result>>

RatchetKeys == {<<Sender, 0>>, <<Sender, 1>>}
NoResult == [err |-> "ok", key |-> NoChainKey]

(* A chain key that no message of the sender uses any more stands for all  *)
(* that come after it, so that a loop without an end stays within finitely *)
(* many states.                                                            *)
Beyond == 2 * WordSize
NextKey(k) == IF k.step = Beyond THEN k ELSE DeriveNextChainKey(k)

Init ==
  /\ session = InitResponder(<<Receiver, 0>>)
  /\ length \in [RatchetKeys -> 1 .. LongestChain]
  /\ pc = "idle" /\ before = session
  /\ hdr = [pk |-> ZeroKey, pn |-> 0, n |-> 0]
  /\ i = 0 /\ ck = NoChainKey /\ result = NoResult

-----------------------------------------------------------------------------
(* The sender takes its second key into use once the receiver has replied. *)
SecondKeyInUse == session.dhs # <<Receiver, 0>>

(* The headers of the messages that exist; PN is a counter of the          *)
(* sender's, and a word like the others.                                   *)
Authentic ==
  {[pk |-> <<Sender, 0>>, pn |-> 0, n |-> k] : k \in 0 .. length[<<Sender, 0>>] - 1} \cup
  IF SecondKeyInUse
  THEN {[pk |-> <<Sender, 1>>, pn |-> length[<<Sender, 0>>] % WordSize, n |-> k] :
          k \in 0 .. length[<<Sender, 1>>] - 1}
  ELSE {}

(* What arrives: such a header, with its number or PN damaged or not, or   *)
(* with a key that X25519 rejects.  The body opens under the key of an     *)
(* undamaged header and under no other.                                    *)
Arriving ==
  Authentic \cup {[h EXCEPT !.n = k] : h \in Authentic, k \in Word}
            \cup {[h EXCEPT !.pn = k] : h \in Authentic, k \in Word}
            \cup {[h EXCEPT !.pk = ZeroKey] : h \in Authentic}
OpensBody(key) == hdr \in Authentic /\ key.step = hdr.n

(* The receiver replies: its own ratchet step and one message.             *)
Reply ==
  /\ pc = "idle" /\ session.dhRatchetPerformed /\ ~SecondKeyInUse
  /\ session' = AdvanceSend(ReadyToSend(session, <<Receiver, 1>>))
  /\ UNCHANGED <<length, pc, before, hdr, i, ck, result>>

-----------------------------------------------------------------------------
(* The ways a call ends.                                                   *)
Return(s, err, key) ==
  /\ session' = s
  /\ result' = [err |-> err, key |-> key]
  /\ pc' = "returned" /\ i' = 0 /\ ck' = NoChainKey

ReturnError(err) == Return(Rollback(session, before), err, NoChainKey)

(* suite.Decrypt; on success the session is s.                             *)
OpenBody(s, key) ==
  \/ OpensBody(key) /\ Return(s, "ok", key)
  \/ ~OpensBody(key) /\ ReturnError("ErrAuthFailure")

-----------------------------------------------------------------------------
(* Decrypt up to its first loop.                                           *)
SkippedId(h) == StorageKey(h.pk, h.n)

Call(h) ==
  /\ pc = "idle"
  /\ before' = Record(session)
  /\ hdr' = h
  /\ pc' = IF HasKey(session.mkSkipped, SkippedId(h)) THEN "lookup"
           ELSE IF IsNewEpoch(session, h) THEN "ratchet" ELSE "chain"
  /\ UNCHANGED <<session, length, i, ck, result>>

UseSkippedKey ==
  /\ pc = "lookup"
  /\ OpenBody([session EXCEPT !.mkSkipped = Consume(@, SkippedId(hdr))],
              Lookup(session.mkSkipped, SkippedId(hdr)))
  /\ UNCHANGED <<length, before, hdr>>

(* performDHRatchetRecv up to its loop.                                    *)
PrevGap == HasPrevChain(session) /\ hdr.pn > PrevNr(session)
EnterRatchet ==
  /\ pc = "ratchet"
  /\ \/ ~VerifyPublicKey(hdr.pk) /\ ReturnError("ErrInvalidInput")
     \/ /\ VerifyPublicKey(hdr.pk) /\ PrevGap /\ hdr.pn - PrevNr(session) > MaxSkip
        /\ ReturnError("ErrMaxSkipExceeded")
     \/ /\ VerifyPublicKey(hdr.pk) /\ (PrevGap => hdr.pn - PrevNr(session) <= MaxSkip)
        /\ session' = [session EXCEPT !.rk = DeriveRoot(@, SharedSecret(session.dhs, hdr.pk))]
        /\ i' = PrevNr(session)
        /\ ck' = IF HasPrevChain(session) THEN GetChain(session.recvChains, session.dhr).ck
                 ELSE NoChainKey
        /\ pc' = "prev" /\ UNCHANGED result
  /\ UNCHANGED <<length, before, hdr>>

(* for n := prevNr; n < header.PN; n++                                     *)
PrevIteration ==
  /\ pc = "prev" /\ ck # NoChainKey /\ i < hdr.pn
  /\ session' = [session EXCEPT !.mkSkipped =
                   Store(@, MaxSkip, StorageKey(session.dhr, i), DeriveMessageKey(ck))]
  /\ ck' = NextKey(ck) /\ i' = Succ(i)
  /\ UNCHANGED <<length, pc, before, hdr, result>>

PrevDone ==
  /\ pc = "prev" /\ (ck = NoChainKey \/ i >= hdr.pn)
  /\ session' = [session EXCEPT !.recvChains = Push(@, hdr.pk, FirstChainKey(session.rk)),
                                !.dhr = hdr.pk, !.dhRSet = TRUE, !.dhRatchetPerformed = TRUE]
  /\ pc' = "chain" /\ i' = 0 /\ ck' = NoChainKey
  /\ UNCHANGED <<length, before, hdr, result>>

-----------------------------------------------------------------------------
Chain == GetChain(session.recvChains, hdr.pk)
WithChain(s, key, nr) == [s EXCEPT !.recvChains = PutChain(@, hdr.pk, key, nr)]

(* Mutant: the gap is not looked at.                                       *)
GapTooWideNever == FALSE

GapTooWide == hdr.n > Chain.nr /\ hdr.n - Chain.nr > MaxSkip

EnterChain ==
  /\ pc = "chain"
  /\ \/ ~HasChain(session.recvChains, hdr.pk) /\ ReturnError("ErrInvalidTransition")
     \/ HasChain(session.recvChains, hdr.pk) /\ GapTooWide /\ ReturnError("ErrMaxSkipExceeded")
     \/ /\ HasChain(session.recvChains, hdr.pk) /\ ~GapTooWide
        /\ pc' = "skip" /\ UNCHANGED <<session, i, ck, result>>
  /\ UNCHANGED <<length, before, hdr>>

(* Mutant: the key of the message at hand is stored as well.               *)
SkipsOn == Chain.nr <= hdr.n

Skips == Chain.nr < hdr.n

(* skipMessageKeys: for chain.Nr < until                                   *)
SkipIteration ==
  /\ pc = "skip" /\ Skips
  /\ session' = WithChain([session EXCEPT !.mkSkipped =
                    Store(@, MaxSkip, StorageKey(hdr.pk, Chain.nr), DeriveMessageKey(Chain.ck))],
                  NextKey(Chain.ck), Succ(Chain.nr))
  /\ UNCHANGED <<length, pc, before, hdr, i, ck, result>>

(* deriveRecvMessageKey copies the chain key and starts at chain.Nr.       *)
SkipDone ==
  /\ pc = "skip" /\ ~Skips
  /\ pc' = "derive" /\ i' = Chain.nr /\ ck' = Chain.ck
  /\ UNCHANGED <<session, length, before, hdr, result>>

(* for i := chain.Nr; i <= n; i++: the key is taken at i == n, and i++     *)
(* wraps.                                                                  *)
DeriveIteration ==
  /\ pc = "derive" /\ i <= hdr.n
  /\ \/ i = hdr.n /\ result' = [result EXCEPT !.key = DeriveMessageKey(ck)] /\ UNCHANGED ck
     \/ i # hdr.n /\ ck' = NextKey(ck) /\ UNCHANGED result
  /\ i' = Succ(i)
  /\ UNCHANGED <<session, length, pc, before, hdr>>

(* The chain moves past the key, the body is opened, and Nr follows.       *)
DeriveDone ==
  /\ pc = "derive" /\ i > hdr.n
  /\ \/ result.key = NoChainKey /\ ReturnError("ErrInvalidTransition")
     \/ /\ result.key # NoChainKey
        /\ OpenBody(WithChain(session, NextKey(ck), Succ(Chain.nr)), result.key)
  /\ UNCHANGED <<length, before, hdr>>

(* The caller has its answer.                                              *)
Returned ==
  /\ pc = "returned"
  /\ pc' = "idle" /\ result' = NoResult
  /\ before' = session /\ hdr' = [pk |-> ZeroKey, pn |-> 0, n |-> 0]
  /\ UNCHANGED <<session, length, i, ck>>

-----------------------------------------------------------------------------
(* A step of the goroutine that runs Decrypt.                              *)
Run ==
  \/ UseSkippedKey \/ EnterRatchet \/ PrevIteration \/ PrevDone \/ EnterChain
  \/ SkipIteration \/ SkipDone \/ DeriveIteration \/ DeriveDone \/ Returned

Next == Reply \/ (\E h \in Arriving : Call(h)) \/ Run

Spec == Init /\ [][Next]_vars

(* Go runs a runnable goroutine; nothing makes the application call.       *)
FairSpec == Spec /\ WF_vars(Run)

-----------------------------------------------------------------------------
(* What a call returns, and the session it leaves, is what the atomic      *)
(* operators of Session say of it, for every header: the loops compute the *)
(* closed forms StoreKeys and ChainKeyAt, stop at the right message and    *)
(* leave chain key and Nr in step.                                         *)
CallComputesDecrypt ==
  LET got == RatchetReceiveKey(before, hdr)
      ok == got.err = "ok" /\ OpensBody(got.key)
  IN  pc = "returned" =>
        /\ session = IF ok THEN got.s ELSE before
        /\ result.err = IF got.err = "ok" /\ ~ok THEN "ErrAuthFailure" ELSE got.err
        /\ result.key = IF ok THEN got.key ELSE NoChainKey

(* Every call of Decrypt returns, whatever the header says.                *)
DecryptReturns == (pc # "idle") ~> (pc = "idle")
=============================================================================
