------------------------------ MODULE Session ------------------------------
(***************************************************************************)
(* session.go: the base Double Ratchet session as a value, one operator    *)
(* per function.  A function that can fail returns an outcome              *)
(*     [err |-> "ok" or the error's name, s |-> session, key |-> key],     *)
(* where s is the session as the function leaves it, half-changed by an    *)
(* early return or not; undoing that is the caller's Rollback.             *)
(***************************************************************************)
EXTENDS SkippedKeys, ReceiverChains

CONSTANT MaxSkip    \* Config.EffectiveMaxSkip(), which is never 0

ASSUME MaxSkipAssumption == MaxSkip \in Nat \ {0}

SessionFields == {"rk", "cks", "ns", "pn", "dhs", "dhr", "dhRSet",
                  "dhRatchetPerformed", "recvChains", "mkSkipped"}

Outcome(err, s, key) == [err |-> err, s |-> s, key |-> key]
Failure(err, s) == Outcome(err, s, NoKey)

-----------------------------------------------------------------------------
InitInitiator(dhs, bobPK) ==
  LET rk == DeriveRoot(InitialRootKey, SharedSecret(dhs, bobPK))
  IN  [rk |-> rk, cks |-> FirstChainKey(rk), ns |-> 0, pn |-> 0,
       dhs |-> dhs, dhr |-> bobPK, dhRSet |-> TRUE, dhRatchetPerformed |-> FALSE,
       recvChains |-> NewReceiverChains, mkSkipped |-> NewStorage]

InitResponder(bobPair) ==
  [rk |-> InitialRootKey, cks |-> NoChainKey, ns |-> 0, pn |-> 0,
   dhs |-> bobPair, dhr |-> ZeroKey, dhRSet |-> FALSE, dhRatchetPerformed |-> FALSE,
   recvChains |-> NewReceiverChains, mkSkipped |-> NewStorage]

-----------------------------------------------------------------------------
(* Sending.  `fresh` is the key pair GenerateKeyPair returns.              *)

PerformDHRatchetSend(s, fresh) ==
  LET root == DeriveRoot(s.rk, SharedSecret(fresh, s.dhr))
  IN  [s EXCEPT !.pn = s.ns, !.rk = root, !.cks = FirstChainKey(root),
                !.dhs = fresh, !.ns = 0, !.dhRatchetPerformed = FALSE]

(* Mutant: ns is reset together with pn, before the key pair exists.       *)
DHRatchetSendFailsAfterReset(s) == [s EXCEPT !.pn = s.ns, !.ns = 0]

(* GenerateKeyPair fails after pn was assigned and before anything else.   *)
DHRatchetSendFails(s) == [s EXCEPT !.pn = s.ns]

(* crypto.SharedSecret refuses a zeroed dhr, with the same effect.         *)
RatchetRefused(s) == s.dhRatchetPerformed /\ s.dhr = ZeroKey

(* Encrypt and ratchetSendKey begin with the pending ratchet step, if any. *)
ReadyToSend(s, fresh) ==
  IF s.dhRatchetPerformed THEN PerformDHRatchetSend(s, fresh) ELSE s

CanSend(s) == s.dhRatchetPerformed \/ s.cks # NoChainKey

HeaderOf(s) == [pk |-> s.dhs, pn |-> s.pn, n |-> s.ns]

(* Mutant: the number moves on and the chain key does not.                 *)
AdvanceSendKeepsChain(s) == [s EXCEPT !.ns = s.ns + 1]

(* The chain moves before the message is sealed.                           *)
AdvanceSend(s) == [s EXCEPT !.cks = DeriveNextChainKey(s.cks), !.ns = s.ns + 1]

(* Both sides put the sender's identity key first.                         *)
IdentityADPrefix(sender, receiver) == <<sender, receiver>>

(* identity prefix || ad || header; the callers' ad is the same throughout.*)
BuildAD(sender, receiver, hdr) == <<IdentityADPrefix(sender, receiver), hdr>>

-----------------------------------------------------------------------------
(* Receiving.                                                              *)

(* The loop that stores the keys of messages lo .. hi - 1 of chain pk,     *)
(* whose chain key at lo is ck.                                            *)
StoreKeys(st, pk, ck, lo, hi) ==
  LET after[k \in 0 .. hi - lo] ==
        IF k = 0 THEN st
        ELSE Store(after[k - 1], MaxSkip, StorageKey(pk, lo + k - 1),
                   DeriveMessageKey(ChainKeyAt(ck, k - 1)))
  IN  IF hi <= lo THEN st ELSE after[hi - lo]

(* The chain of the remote key in force, when the buffer still holds it.   *)
HasPrevChain(s) == s.dhRSet /\ HasChain(s.recvChains, s.dhr)
(* Mutant: messages of the chain in force that arrived are not discounted. *)
PrevNrZero(s) == 0
PrevNr(s) == IF HasPrevChain(s) THEN GetChain(s.recvChains, s.dhr).nr ELSE 0

(* Mutant: a gap of exactly MaxSkip is refused.                            *)
TooManySkippedOffByOne(from, until) == until > from /\ until - from >= MaxSkip

TooManySkipped(from, until) == until > from /\ until - from > MaxSkip

(* Mutant: the keys of the superseded chain are numbered from 0.           *)
SkipPrevChainFromZero(s, pn) ==
  IF ~HasPrevChain(s) THEN s.mkSkipped
  ELSE StoreKeys(s.mkSkipped, s.dhr, GetChain(s.recvChains, s.dhr).ck, 0, pn)

(* The keys of the superseded chain that are still outstanding, from its   *)
(* next number up to the PN of the new header, are stored; the superseded  *)
(* chain itself stays in the buffer where it was.                          *)
SkipPrevChain(s, pn) ==
  IF ~HasPrevChain(s) THEN s.mkSkipped
  ELSE StoreKeys(s.mkSkipped, s.dhr, GetChain(s.recvChains, s.dhr).ck, PrevNr(s), pn)

PerformDHRatchetRecv(s, hdr) ==
  LET root  == DeriveRoot(s.rk, SharedSecret(s.dhs, hdr.pk))
      moved == [s EXCEPT !.rk = root]
  IN  IF ~VerifyPublicKey(hdr.pk) THEN Failure("ErrInvalidInput", s)
      ELSE IF HasPrevChain(s) /\ TooManySkipped(PrevNr(s), hdr.pn)
      THEN Failure("ErrMaxSkipExceeded", moved)
      ELSE Outcome("ok",
             [moved EXCEPT !.mkSkipped = SkipPrevChain(s, hdr.pn),
                           !.recvChains = Push(s.recvChains, hdr.pk, FirstChainKey(root)),
                           !.dhr = hdr.pk, !.dhRSet = TRUE,
                           !.dhRatchetPerformed = TRUE],
             NoKey)

IsCurrentChain(s, hdr) == s.dhRSet /\ s.dhr = hdr.pk
IsNewEpoch(s, hdr) == ~IsCurrentChain(s, hdr) /\ ~HasChain(s.recvChains, hdr.pk)

(* skipMessageKeys, deriveRecvMessageKey and the final Nr++ on the chain   *)
(* of hdr.pk: a number the chain has passed has no key left.               *)
ReceiveOnChain(s, hdr) ==
  LET chain == GetChain(s.recvChains, hdr.pk)
      at    == ChainKeyAt(chain.ck, hdr.n - chain.nr)
  IN  IF ~HasChain(s.recvChains, hdr.pk) THEN Failure("ErrInvalidTransition", s)
      ELSE IF TooManySkipped(chain.nr, hdr.n) THEN Failure("ErrMaxSkipExceeded", s)
      ELSE IF hdr.n < chain.nr THEN Failure("ErrInvalidTransition", s)
      ELSE Outcome("ok",
             [s EXCEPT !.mkSkipped = StoreKeys(@, hdr.pk, chain.ck, chain.nr, hdr.n),
                       !.recvChains = PutChain(@, hdr.pk, DeriveNextChainKey(at), hdr.n + 1)],
             DeriveMessageKey(at))

TakeSkipped(s, id) ==
  Outcome("ok", [s EXCEPT !.mkSkipped = Consume(@, id)], Lookup(s.mkSkipped, id))

(* ratchetReceiveKey, and Decrypt up to the authentication of the body.    *)
RatchetReceiveKey(s, hdr) ==
  LET id      == StorageKey(hdr.pk, hdr.n)
      ratchet == IF IsNewEpoch(s, hdr) THEN PerformDHRatchetRecv(s, hdr)
                 ELSE Outcome("ok", s, NoKey)
  IN  IF HasKey(s.mkSkipped, id) THEN TakeSkipped(s, id)
      ELSE IF ratchet.err # "ok" THEN ratchet
      ELSE ReceiveOnChain(ratchet.s, hdr)

(* Mutants: one field of the snapshot is forgotten, or two are swapped.    *)
RollbackKeepsChains(s, prev) == [prev EXCEPT !.recvChains = s.recvChains]
RollbackSwapsKeys(s, prev) == [prev EXCEPT !.dhs = prev.dhr, !.dhr = prev.dhs]

(* invariants.Record and GetPrevState: a deep copy of every field.         *)
Record(s) == [f \in SessionFields |-> s[f]]

(* rollback(): the snapshot comes back field by field.                     *)
Rollback(s, prev) ==
  [s EXCEPT !.ns = prev.ns, !.pn = prev.pn, !.rk = prev.rk, !.dhs = prev.dhs,
            !.dhr = prev.dhr, !.cks = prev.cks, !.recvChains = prev.recvChains,
            !.mkSkipped = prev.mkSkipped, !.dhRSet = prev.dhRSet,
            !.dhRatchetPerformed = prev.dhRatchetPerformed]

Decrypt(s, hdr, ad, box) ==
  LET got  == RatchetReceiveKey(s, hdr)
      back == Rollback(got.s, Record(s))
  IN  IF got.err # "ok" THEN Failure(got.err, back)
      ELSE IF ~Opens(got.key, ad, box) THEN Failure("ErrAuthFailure", back)
      ELSE got

-----------------------------------------------------------------------------
(* Close.  Secrets are zeroed in place: an all-zero root key, chain key    *)
(* and private key are values like any other, and keys derived from them   *)
(* are known to everybody.                                                 *)
ZeroRootKey == <<ZeroKey>>
ZeroPair == <<ZeroKey, 0>>
Zeroed(ck) == IF ck = NoChainKey THEN NoChainKey ELSE FirstChainKey(ZeroRootKey)

(* ns, pn and dhRatchetPerformed stay as they were, and a chain key that   *)
(* was there is not nil afterwards.                                        *)
Close(s) ==
  [s EXCEPT !.rk = ZeroRootKey, !.cks = Zeroed(@), !.dhs = ZeroPair, !.dhr = ZeroKey,
            !.dhRSet = FALSE, !.recvChains = NewReceiverChains, !.mkSkipped = NewStorage]
=============================================================================
