# Formal model of go-doubleratchet

TLA+ modules, TLC configurations and TLAPS proofs for the Double Ratchet library
in `src/`. Paths below are relative to the repository.

Run `tlc -config X.cfg M.tla` for the runs listed under *Runs*, `tlapm M.tla` for the
proof modules (`...Proofs`). `PROJECT.json` maps each definition to the lines it models.

## 1. The system

The library implements Signal's Double Ratchet and its variants as plain Go values.
It has **no goroutine, timer, retry or network of its own**: a session changes only
inside a call of its user, and everything asynchronous (loss, duplication, delay,
reordering, damage) is what the application's transport does between two calls. The
hard behaviour is therefore (a) the order in which calls and deliveries interleave,
(b) calls that fail half-way and must be undone, and (c) bounded stores that evict.

| component | state | operations | talks to |
|---|---|---|---|
| Base session `session.go` | rk, cks, ns, pn, dhs, dhr, dhRatchetPerformed, receiver chains, MKSKIPPED, snapshot | InitInitiator, InitResponder, Encrypt, Decrypt, ratchetSendKey, ratchetReceiveKey, rollback, Close | the four components below, the peer by messages |
| MKSKIPPED `internal/state/skipped.go` | map of (ratchet key, N) to message key, order list, mutex | Store (evicts the oldest), Get (consumes), TryAllHeaderKeys, Clear | called by the sessions; a copy is kept by the snapshot |
| Receiver chains `internal/state/receiver_chains.go` | circular buffer of (key, chain key, Nr), head, count | Push (evicts the oldest), Get (returns a pointer that callers write through), Has, Clear | as above |
| Snapshot `internal/state/invariants.go` | deep copy of every session field | Record, GetPrevState, Clear | Decrypt takes it, rollback restores it |
| KDFs `internal/kdf` | none | KDF_CK, KDF_RK and the HE, SPQR and hybrid variants | sessions |
| Crypto `internal/crypto`, `internal/suite`, `internal/padding` | none | X25519, AES-CBC + HMAC, padding, header sealing | sessions |
| HE session `session_he.go`, `header_he.go` | as the base session with hks, hkr, nhks, nhkr | EncryptHE, DecryptHE, both ratchet halves | KDF_RK_HE, header sealing, MKSKIPPED by header key |
| SPQR session `session_spqr.go`, `internal/state/epoch.go` | epochs, a send and a receive chain per epoch, MKSKIPPED, provider state | Encrypt, Decrypt, sendKey, receiveKey, epoch clearing | an SCKA provider |
| SCKA interface `scka/` | the provider's | Send, Receive, GetState/SetState | SPQR |
| Triple Ratchet `session_tr.go` | a base session and an SPQR session | Encrypt, Decrypt over both | hybrid KDF |
| X3DH `x3dh/` | none of its own; the application keeps identity key, signed prekeys and one-time prekeys | GenerateIdentityKey, GenerateSPK, GenerateOPK, SendHandshake, ReceiveHandshake | its shared secret seeds a session |
| PQXDH `pqxdh/` | as X3DH, with KEM prekeys of two kinds | as X3DH, with GenerateKEMSPK and GenerateKEMOPK | as X3DH |
| `internal/ecutil` | none | ValidatePublicKey, XEdDSASign, XEdDSAVerify, curve maps | handshakes |
| `keys.go`, `errors.go`, `config.go`, `message.go` | none | aliases, options, headers | all |

### What makes each component correct

* **Base session.** No message key seals two messages; a header names one message; PN
  is the length of the previous chain also when an Encrypt failed in between; whatever key
  the receiver would use for a message is the sender's; no message is lost to what
  else arrives; an error leaves the session as it was; replays are refused.
* **MKSKIPPED.** The order list and the map hold the same keys; never more than MaxSkip;
  the one evicted is the oldest; a consumed key is gone.
* **Receiver chains.** The latest five chains, oldest first, through wraps; one chain
  per key; nothing left in dead slots.
* **HE session.** The above, and: both sides' header keys agree epoch by epoch, a header
  opens under at most one key the receiver tries, and header keys roll back with the rest.
* **SPQR.** Epochs of the two sides never differ by more than the provider allows, a
  message in flight finds its epoch's chain, errors leave the session and provider alone.
* **Triple Ratchet.** The EC and the PQ half advance together or not at all, and the pair is a
  channel that delivers what was sent at most once.
* **Lifecycle.** Nothing that was in a closed session comes back, by a call or by a rollback; slices that are
  zeroed in place are used by nobody else.
* **Receive loops.** Each call of Decrypt returns, and has computed what the specification says.
* **Handshakes.** Sides with equal secrets agree on identities, keys and AD; a bundle belongs to its
  identity; a one-time prekey serves one session.
* **Curve helpers.** A public key has one accepted encoding and prime order; what is signed verifies; a
  signature has one scalar.

`PROJECT.json` lists each place in the code where such a property could be lost
("hazards"), with the properties that watch it.

## 2. Modules

```
SymbolicCrypto ─┬─ SkippedKeys ────┬─ Session ── DoubleRatchet ── DoubleRatchetProperties ── MCDoubleRatchet (run) ─┐
                └─ ReceiverChains ─┘     ├─ SessionLemmas ────────────────────────────────────────────────────── DoubleRatchetProofs
                                         │        └─ SessionPartsProofs
                                         ├─ HESession ── DoubleRatchetHE ── DoubleRatchetHEProperties ── MCDoubleRatchetHE (run)
                                         │                                     └─ DoubleRatchetHEInvariant ── DoubleRatchetHEProofs
                                         ├─ ReceiveLoops (run) ── SessionPartsProofs
                                         ├─ SessionMemory (run; implements SessionCalls) ── SessionMemoryProofs
                                         └────────────┐
SymbolicCrypto, SCKAProvider ── SPQRSession ──────────┴─ TripleRatchetSession ── TripleRatchet
                                    │                                               └─ TripleRatchetProperties (implements SecureChannel)
                                    └─ SPQR ── SPQRProperties (run) ── SPQRProofs        ├─ MCTripleRatchet (run) ──┬─ TripleRatchetProofs
                                                                                        └─ TripleRatchetInvariant ─┘
SkippedKeys ── SkippedKeyStore (implements BoundedFifoMap) ────┬─ MCSessionStores (run) ── SessionPartsProofs
ReceiverChains ── ReceiverChainRing (implements LatestChains) ─┘

SymbolicCrypto ── Prekeys ─┬─ X3DH ──┬─ PrekeyHandshake ── PrekeyHandshakeProperties ─┬─ MCPrekeyHandshake (run)
                           └─ PQXDH ─┘                                                └─ PrekeyHandshakeProofs
EdwardsKeys (run)
```
(`TripleRatchetInvariant` also instantiates `SPQRProofs` and `DoubleRatchetProofs`, and `TripleRatchetProofs` uses the lemmas of both;
`SessionMemoryProofs` also extends `SessionLemmas`; `DoubleRatchetProofs`, `DoubleRatchetHEProofs` and `TripleRatchetProofs` extend the MC modules whose histories their last
theorems are about.)

| module | models |
|---|---|
| `SymbolicCrypto` | Diffie-Hellman, KDF_RK, KDF_CK and the AEAD as free constructors: equal results only from equal inputs. A chain key is its root and the number of steps taken from it. |
| `SkippedKeys` | `Storage` as a value: `entries` (the map) and `order` (the list). `Store` evicts while full and moves nothing that is already there; `Consume` is the successful `Get`. |
| `SkippedKeyStore` | The storage as a state machine, one action per method. Each method holds the mutex throughout, so one call is one step. |
| `BoundedFifoMap` | What the storage promises: a sequence of distinct keys with values, the oldest dropped when full. |
| `ReceiverChains` | The circular buffer as a value, index arithmetic included. |
| `ReceiverChainRing` | The buffer as a state machine: push, advance through a pointer, clear. |
| `LatestChains` | What the buffer promises: the latest chains, oldest first. |
| `Session` | `Session` as a record with the code's field names; one operator per function. An operator that may fail returns the error *and the session as the early return left it*, so that `Rollback` has real work to do. |
| `DoubleRatchet` | Two sessions and the transport. One action per outcome of a public call: `Encrypt`, `EncryptFails`, `DecryptAccepts`, `DecryptRejects`. |
| `DoubleRatchetProperties` | Type invariant, safety invariants, an action property, and the README's claim about replays. |
| `SessionCalls` | What one session promises its caller, as a value: the abstract specification of `SessionMemory`. |
| `SessionMemory` | One session as it lies in memory: key slices that the code zeroes in place, receiver chains and skipped keys behind pointers, the snapshot with copies of its own or shared objects, and Close. |
| `ReceiveLoops` | Calls of Decrypt in which `performDHRatchetRecv`, `skipMessageKeys` and `deriveRecvMessageKey` run iteration by iteration, with counters of the machine's word. |
| `HESession` | `HESession` as a base session (`dr`) and four header keys with their nonce counters; the code's embedding is kept, and so are the places where it does not use the base session's functions. |
| `DoubleRatchetHE` | Two header-encryption sessions and the transport: `EncryptHE`, `EncryptHEFails`, `DecryptHEAccepts`, `DecryptHERejects`, `CloseSession`. |
| `DoubleRatchetHEProperties` | Its type invariant and safety invariants. |
| `SCKAProvider` | External: a provider that keeps the contract of `scka.Provider`. |
| `SPQRSession` | `SPQRSession` as a record with the provider's state inside; one operator per function. |
| `SPQR`, `SPQRProperties` | Two SPQR sessions and the transport, and what they promise. |
| `TripleRatchetSession` | A base session (instance `EC` of `Session`) and an SPQR session (instance `PQ` of `SPQRSession`): Encrypt and Decrypt over both, each early return with both halves as they stand, and the rollback of both. |
| `TripleRatchet`, `TripleRatchetProperties` | Two such sessions and the transport, and what they promise. |
| `SecureChannel` | What a session promises its application: Decrypt returns what the peer sent, at most once. |
| `Prekeys` | Identity keys, prekeys, signatures and validation symbolically, and the Diffie-Hellman computations common to both handshakes. |
| `X3DH`, `PQXDH` | `SendHandshake` and `ReceiveHandshake` of each package, every check and error. |
| `PrekeyHandshake`, `PrekeyHandshakeProperties` | The application around them: key generation and rotation, a server that may mix up bundles, a transport that may damage and repeat initial messages. |
| `EdwardsKeys` | `internal/ecutil` on a small curve of the same shape. |
| `MC...` | The values and the kinds of application a run chooses between. |
| `SessionLemmas` | Lemmas about the operators of `SkippedKeys`, `ReceiverChains` and `Session`, for every value of their arguments. Those about `SPQRSession` are the first part of `SPQRProofs`. |
| `DoubleRatchetHEInvariant`, `TripleRatchetInvariant` | The inductive invariants of the HE and the Triple Ratchet pair, with the definitions they need. |
| `...Proofs` | Theorems; see section 4. |

### How the model corresponds to the code

* `Encrypt(p)` is a whole `Session.Encrypt`: the pending ratchet step (`performDHRatchetSend`),
  the `cks == nil` check, the message key, the step of the chain and ns, the header with the
  associated data, and the sealed body. `EncryptFails(p)` is the call in which
  `GenerateKeyPair` fails: `pn` has been assigned and nothing else.
* `Decrypt` is a whole `Session.Decrypt`: snapshot, skipped key, then current chain, retained
  chain or new epoch, gap check, skipping, derivation, authentication, rollback on every error.
  The order of the checks and of the changes is the code's; the outcome of each early return
  carries the half-changed session to `Rollback`, which restores it field by field.
* `network` only grows: the transport may deliver any message late, again or never. `Arrivals`
  adds damage: another ratchet key (one that X25519 rejects, one nobody generated), another PN,
  another N, a broken body.
* `EncryptHE(p)` takes the ratchet step when one is due, seals the header under `hks` with its
  nonce counter, binds the sealed header to the body and advances both. A responder that has
  not received anything has no remote key and cannot send. `EncryptHEFails(p)` is the call in
  which `GenerateKeyPair` fails (`pn`, `ns` and `hks` have already been assigned), or in which a closed
  session meets its zeroed header key (the chain has already moved).
* `DecryptHE` tries the header keys of the skipped messages, then `hkr`, then `nhkr`; the order
  decides whether a ratchet step is taken. Without the key a header cannot be altered usefully,
  so `Arrivals` breaks a header or a body, or puts the parts of two messages together.
* SPQR `SendKey` and `ReceiveKey` follow the code: ask the provider, start an epoch
  when it put out a key, clear old epochs, drop the previous send chain (sending), take a skipped
  key or skip and step (receiving). `Decrypt` restores the five snapshot fields only when
  authentication fails; an error of `receiveKey` leaves the session as it stands, provider and
  epoch included. The comment on `Decrypt` (`src/session_spqr.go:274`) still says that provider
  state cannot be rolled back; the code restores it (`src/session_spqr.go:306`), and so does the model.
* The provider is the application's. The repository only has a mock for its tests, so
  `SCKAProvider` is an environment: two sides take turns, one offers the next epoch in every
  message, the other answers with a Send that yields the key at once, the answer yields it
  to the first, and a side sends in the newest epoch it knows its peer to know.
* A Triple Ratchet `EncryptKey` runs `ratchetSendKey` of the base half, then `sendKey` of the PQ half, whose
  provider may refuse; `Decrypt` runs `ratchetReceiveKey`, then `receiveKey`, then opens the body
  under the hybrid key. Unlike `SPQRSession.Decrypt`, every error from the first change on restores both
  halves and the provider (`RollbackBoth`).
* `SessionMemory` keeps the whole memory in one variable, `heap`: the session `s`, the snapshot (`prev`, a set that is empty before the
  first Record), what each slice holds (`keys`, by cell), and the objects behind pointers (`rings`, `stores`).
  `crypto.ZeroBytes` overwrites cells, so a slice that is still in use elsewhere would show a wrong key. `RecordPrev`
  copies; `RollbackMemory` copies the snapshot's slices and *hands over* its two objects, as the code does;
  cells nothing refers to are collected at the end of a call.
* `ReceiveLoops` has one action for the application (`Call`, with any header that was sent, intact or damaged in N or
  PN over the whole word) and one per loop entry, iteration and exit. `Run` is their disjunction: the goroutine of the call.
* In `PrekeyHandshake` the application keeps its prekeys as the comments ask: a rotated signed prekey stays until it is
  retired, a one-time prekey is discarded when a handshake that used it completes. Since no message names the signed
  prekey, the responder may try any it still has.
* `EdwardsKeys` calls the libraries' field and group operations and follows the code above them:
  `ScalarIsInRange` compares digit by digit from the top, `ValidatePublicKey` maps to the Edwards curve and checks the
  torsion with `eightInvModL`, `XEdDSASign` puts the sign of the key into the signature.

### Abstractions

* Cryptography is symbolic (but for `EdwardsKeys`): a key that is not the one used does not open a message, two
  different derivations never collide. Identity keys are configured on both sides, so the two
  compute the same AD prefix; the caller's `ad` is the same on both sides and left out.
* What is no key that anybody derives is a constructor of its own: `ForeignKey` (an outsider's), `NoChainKey` (a nil chain key),
  `SharedHKA` and `SharedNHKB` (the header keys the parties are given), `ZeroHeaderKey` (a header key after Close), and
  `BadMsg` and `NilHeader` for an SCKA message that cannot be read and a header without one.
* In the two-party models sessions are values and counters are naturals. What that hides is modelled apart: aliasing
  and zeroing in `SessionMemory`, the word-sized loop counters in `ReceiveLoops`.
* Two parties never close a *base* session in `DoubleRatchet`; Close and the calls after it are in
  `SessionMemory` for one session, and with a peer in the HE and Triple Ratchet models, which embed a base session.
* Errors of the hash and cipher constructors, of `PublicKeyFromPrivate` and of `padding` on
  well-formed keys do not occur and are not actions.

## 3. Runs

`CHECK_DEADLOCK FALSE` is given for runs which stop when every message, call or handshake their bounds allow has
been made; `receive_loops` and `session_stores` never stop and are checked for deadlock.

**Liveness and fairness.** The library schedules nothing: whether a party ever calls Encrypt, and
whether a transport ever delivers, is up to the application, so no fairness is justified for any of that.
"Every message can still be received" is stated as a safety property
(`OutstandingDecryptable...`): every message not yet accepted would be accepted if it came now.
What the code does owe is that a call returns. `receive_loops` checks `DecryptReturns` under weak fairness of `Run` alone: a
goroutine inside a call blocks on nothing and is runnable throughout, so the Go scheduler runs it. None is
assumed of `Call`: the application may never call again.

Some runs let the application choose, once and at the start, how it behaves (a variable of the MC module), so that one
exploration covers kinds of application under different bounds.

| run | what it shows | bounds, and why they are enough |
|---|---|---|
| `two_sessions` | The base session under any interleaving, loss, duplication, reordering, damage and failed sends: no message key twice, PN right, the receiver's keys are the sender's, errors undone exactly, a message of the current chain accepted once, and the next message in order always decryptable. If the application keeps at most MaxSkip + 1 messages outstanding (the history variable `windowed` says whether it has), none is lost until a superseded chain accepts a replay. | 4 messages a side, MaxSkip 2, 2 receiver chains, damaged numbers up to 3: gaps of exactly MaxSkip and of one more, a full store, evicted chains, late messages of superseded chains, replays and failed sends all occur. |
| `he_sessions` | The HE session: header keys stay in step, no (key, nonce) pair seals two headers, the directions share no header key, a message is accepted once, an error changes nothing. A `careful` application (window kept, entropy never fails) loses no message; a `careless` one does neither; a `closing` one gets nothing back from a closed session. | MaxSkip 1, two chains, 4 messages a side (3 when closing, and 7 in all, `LongestCareless`, when careless): refused gaps, evicted keys, up to four chains a side, and retries of a failed step all occur. |
| `spqr_sessions` | Session and provider agree through errors and rollbacks, sending never fails, recent messages stay decryptable, replays are refused, a failed authentication changes nothing. | MaxSkip 4, 4 messages a side, damaged numbers up to 5: one number is beyond MaxSkip, so a refused gap meets a starting epoch; four messages a side reach the fifth epoch, beyond the three that are kept. |
| `triple_sessions` | A failure in either half of either call restores both halves and the provider; neither half reuses a key; recent messages stay decryptable; a closed session gives nothing back although its base half would go on; the pair implements `SecureChannel`. | 4 messages a side, MaxSkip 3, 2 chains, damaged numbers up to 4: refused gaps in one half after the other has moved, evicted chains, epochs that start in a rejected message. |
| `session_memory` | A session with zeroed slices, shared objects and a snapshot takes exactly the steps of `SessionCalls`; Close, also right after a rollback, leaves no key of the conversation in any slice, and neither do calls after it. | 4 calls, 3 ratchet keys of the peer, numbers up to 2, MaxSkip 2, 2 chains: two ratchet steps each way, stored and consumed keys, evictions, and rollbacks after each other all fit. |
| `receive_loops` | Decrypt run loop by loop computes the closed forms `Session` uses, and every call returns. | A word of 8, MaxSkip 2, chains of up to 4 messages with each of two ratchet keys; damaged N and PN range over the whole word. `LongestChain` + MaxSkip stays below the largest word: see the first observation. |
| `prekey_handshakes` | X3DH and PQXDH: equal secrets mean the same identities, keys and AD; only bundles of one identity are accepted; one signed prekey fits a message; a one-time prekey serves once. | 2 handshakes of X3DH and 1 of PQXDH, 2 completions, 2 signed and 2 one-time prekeys (1 in PQXDH), a KEM prekey of each kind, every single mistake in a bundle and a message: rotation, double hand-out and repeated messages all occur. |
| `curve_keys` | Validated keys have prime order and one encoding, DH with them succeeds and agrees, signatures verify and are unique in s. | p = 2029 = 2^11 - 19, group order 8 · 257, D = 1844, all 4096 encodings of 12 bits, four clamped private keys, six nonces. The curve keeps what the code relies on: 19 non-canonical encodings below the high bit, cofactor 8, -1 a square modulo p, D not a square. |
| `session_stores` | Under all sequences of their calls, MKSKIPPED is a bounded FIFO map, and the circular buffer keeps exactly the latest chains. | Two ratchet keys, numbers and message keys for 3 places, so eviction, overwriting and re-insertion occur; 4 keys for 3 slots, so the head wraps. The two know nothing of each other; one is used while the other is empty. |
| `replay_of_superseded_chain` | A violation: see *Findings*. | 3 messages a side. |
| `he_failed_send_loses_count` | A violation: see *Findings*. | 3 messages a side. |
| `spqr_retained_keys` | A violation: see *Findings*. | MaxSkip 1: two gaps of one already hold two keys. |

Each property of a passing run is broken by at least one listed mutant of the code's definitions.
### Findings

**A superseded chain accepts replays.** `README.md` (Out-of-Order Messages) says: "A skipped key is deleted after successful use, so
replaying the same delayed message should fail." The code deletes the key, but
`performDHRatchetRecv` leaves the superseded chain in the buffer at the position it had before
the keys were skipped. A second delivery of a delayed message of that chain finds no skipped key,
takes the path for a retained chain, derives the key again and returns the plaintext again. The run
`replay_of_superseded_chain` finds the sequence. It has a second consequence: the derivation stores the keys of the messages it
passes once more, spent ones included, and they count against `MaxSkip`. With MaxSkip 2: A0 is accepted and A1 and A2 are in flight, an answer
makes the sender ratchet, B0 stores the keys of A1 and A2, both arrive; B2 arrives and stores the key of B1; a
replay of A2 stores the key of A1 again; B4 arrives, stores the key of B3 and evicts the key of B1, which is now lost with two
messages in flight. That takes eight messages of one party, more than `two_sessions` sends; the claim about in-flight
messages therefore stops at the first replay, which `WindowKeepsMessages` shows to be the only exception. What does hold is `CurrentChainAtMostOnce`: within
the chain in force, Decrypt accepts a message once. The HE session reads no superseded chain, and
there `AcceptedAtMostOnce` holds without condition.

**A failed EncryptHE loses the count of the previous chain.** `performDHRatchetSendHE` assigns
`pn = ns` and `ns = 0` before it generates the new key pair and does not undo them when that fails.
The retried call moves the 0 again and announces PN 0, where `message.go` says "PN is the number of
messages in the previous sending chain"; the receiver then stores no keys for late messages of that
chain. It takes an entropy source that can fail. The base session assigns `ns` after the step
succeeded and keeps PN right (`two_sessions` includes `EncryptFails`).

**SPQR keeps more skipped keys than MaxSkip.** `README.md` (Configuration) says: "`MaxSkip` bounds how
many skipped message keys can be retained for out-of-order delivery." `skipMessageKeysSPQR` compares
`MaxSkip` with the gap at hand, not with what `mkSkipped` holds, and nothing evicts within an epoch.
The base and HE sessions bound the total.

### Observations without a run

* **The derivation loop and the largest number.** `for i := chain.Nr; i <= n; i++` (`src/session.go:543`) has no end when n is
  4294967295. The gap check lets such an n pass only when the chain stands within MaxSkip of it, after about 2^32 messages with one
  ratchet key. With `WordSize = 4` and `MaxSkip = 1` in
  `ReceiveLoops.cfg`, chains are long enough for that and TLC finds `DecryptReturns` violated.
* **Initial messages do not name the signed prekey** (`src/x3dh/x3dh.go:25`). After a rotation the responder cannot tell which of two
  signed prekeys to pass to `ReceiveHandshake`; with the other one it returns another secret and no error. What holds is
  `OneSignedPreKeyFits`: the right one is the only one that gives the initiator's secret.
* **Encrypt of a closed base session may still return a message.** Close zeroes `cks` but leaves it non-nil
  (`src/session.go:364`), so the check in Encrypt (`src/session.go:155`) passes unless a ratchet step is due. README.md asks callers not to use a
  closed session. The message is sealed under a key derived from zeroes; no key of the conversation is involved
  (`CloseErasesSlices`). The HE session stops at its zeroed header key, the Triple Ratchet in its PQ half.


## 4. Proofs

TLAPS checks the following for every number of messages, every `MaxSkip`, every buffer capacity,
every set of prekeys and every delivery order. `I` marks the inductive invariants; the other theorems state a property
that the run of the component checks, but for `HeadersNameMessages`, `ShortConversationsKeepMessages` and the two refinements of the
Triple Ratchet's halves.

| module | theorem | statement |
|---|---|---|
| `DoubleRatchetProofs` | `SpecIInv` I | `Spec => []IInv`: the sending halves and what was sent |
| | `NoMessageKeyReuse` | `Spec => []MessageKeyNeverReused` |
| | `HeadersNameMessages` | `Spec => []HeaderNamesMessage` |
| | `RejectionsLeaveSessions` | `Spec => []RejectionLeavesSession` |
| | `TypeCorrect` | `Spec => []TypeOK` |
| | `ReceiversHoldSendersKeys` | `Spec => []ReceiverKeysMatchSender`, by `SpecKeyInv` I |
| | `PNCountsPreviousChains` | `Spec => []PNCountsPreviousChain` |
| | `SpecTurnInv` I | `Spec => []TurnInv`: who has answered whom |
| | `ChainInForceAtMostOnce` | `Spec => CurrentChainAtMostOnce`, an action property, by `SpecForceInv` I |
| | `NextInOrderAccepted` | `Spec => []NextInOrderDecryptable` |
| | `SpecGaplessInv` I | `Spec => []GaplessInv`: messages are numbered without gaps |
| | `WindowKeepsMessages` | `MCSpec => []OutstandingDecryptableInWindow`, of the specification with the history variable `windowed` |
| | `ShortConversationsKeepMessages` | `Spec => [](NoReplays => OutstandingDecryptable)`, if `MaxSends <= MaxSkip + 1` |
| `DoubleRatchetHEProofs` | `SpecHEInv` I | `Spec => []HEInv` |
| | `HeaderNoncesNeverReused` | `Spec => []HeaderNonceNeverReused` |
| | `DirectionsStaySeparate` | `Spec => []DirectionsSeparate` |
| | `NextHeadersOpen` | `Spec => []NextHeaderOpens` |
| | `MessagesAcceptedOnce` | `Spec => []AcceptedAtMostOnce` |
| | `ClosedSessionsStayErased` | `Spec => []ErasedForGood` |
| | `RejectionsLeaveSessions` | `Spec => []RejectionLeavesSession` |
| | `SpecHEKeyInv` I | `Spec => []HEKeyInv`: both sides hold the chain keys of their epochs |
| | `CarefulKeepsMessages` | `MCSpec => []OutstandingDecryptableIfCareful`, of the specification with the variable `application` |
| `SPQRProofs` | `SpecSPQRInv` I | `Spec => []SPQRInv` |
| | `SessionsFollowProviders` | `Spec => []SessionFollowsProvider` |
| | `EncryptsNeverFail` | `Spec => []EncryptNeverFails` |
| | `MessagesAcceptedOnce` | `Spec => []AcceptedAtMostOnce` |
| | `RecentMessagesDecryptable` | `Spec => []RecentOutstandingDecryptable`, if `MaxSends <= MaxSkip + 1` |
| | `AuthFailuresLeaveSession` | `Spec => []AuthFailureLeavesSession` |
| `TripleRatchetProofs` | `SpecPQInv` I | `Spec => []PQInv`: the PQ halves, and what was accepted |
| | `ImplementsSecureChannel` | `Spec => ImplementsChannel`: the pair refines `SecureChannel` |
| | `HalvesNeverReuseKeys` | `Spec => []EachHalfNeverReusesKey` |
| | `ClosedSessionsStayErased` | `Spec => []ErasedForGood` |
| | `FailedEncryptsLeaveSession`, `RejectionsLeaveSession` | `Spec => []FailedEncryptLeavesSession`, `Spec => []RejectionLeavesSession` |
| | `ECHalvesRefine` | `HistorySpec => ECPair!Spec`: while open, the EC halves are two base sessions |
| | `PQHalvesRefine` | `HistorySpec => PQPair!Spec`: while open, the PQ halves are two SPQR sessions |
| | `RecentMessagesDecryptable` | `HistorySpec => []RecentOutstandingDecryptable`, if `MaxSends <= MaxSkip + 1`; of the specification with the history variable `open` |
| `SessionPartsProofs` | `StorageIsFifoMap` | `Stores!Spec => ImplementsFifoMap`: MKSKIPPED refines `BoundedFifoMap` |
| | `RingKeepsLatestChains` | `Rings!Spec => ImplementsLatestChains`: the circular buffer refines `LatestChains` |
| | `CallsComputeDecrypt` | `Spec => []CallComputesDecrypt` of `ReceiveLoops`, by the invariant `LoopInv` I |
| `SessionMemoryProofs` | `ClosedSessionsAreErased` | `MemorySpec => []CloseErasesSlices`, by the invariant `MemInv` I |
| | `SlicesComputeCalls` | `MemorySpec => ImplementsCalls`: a session of slices and objects refines `SessionCalls` |
| `PrekeyHandshakeProofs` | `HandshakeAgreement` | `Spec => []SecretAgreementIsFull` |
| | `BundlesAuthenticated` | `Spec => []BundleBelongsToIdentity` |
| | `OneTimePreKeysUsedOnce` | `Spec => []OneTimePreKeyUsedOnce` |
| | `SignedPreKeyFits` | `Spec => []OneSignedPreKeyFits` |

*Assumptions.* Only the named ones of the modules: the parties are distinct; `ZeroKey` is no key pair anybody draws;
Bob gives no two prekeys of one kind the same ID, and no ID is nil; `MaxSkip` and `ReceiverChainsMax` are positive (a
configured MaxSkip of zero stands for the default, and the buffer has five slots); the word of `ReceiveLoops` is larger than MaxSkip, and its
chains are no longer than the word can number; the nil slice of `SessionMemory` is no cell; the bounds are natural numbers. TLC evaluates them in every run of the
module. Three theorems have a hypothesis of their own: a chain that has run more than MaxSkip messages ahead
is refused, so `ShortConversationsKeepMessages` and the two `RecentMessagesDecryptable` are about parties which send at most MaxSkip + 1 messages
each, as in the runs (MaxSends 4, MaxSkip 4 and 3). With one message more there is an outstanding message that is refused.

### The arguments

*Keys of the base session.* That no two messages share a key is not inductive: one must
know where the sending chain stands. `IInv` says (1) `SendHalfInv`: a session that can
send stands at position `ns` of a chain whose root was derived from its newest key pair, and
the root of a session mentions only pairs that exist; (2) `MessageInv`: each message was sealed with
the key at position N of the chain of its header's key, and messages of the newest chain have
N < ns; (3) `HeaderNamesMessage`; (4) `RootsDisjoint`: no root seeds chains of both parties. A
send then uses a (key, N) pair no message has; a ratchet step uses a pair nobody has used; and
everything Decrypt does, accepted or rolled back, leaves the sending half alone or marks a
ratchet step as due.

*What the receiver holds.* `ReceiverKeysMatchSender` speaks of messages that were sent, yet a receiving chain stands at the number
*after* the last and its keys will meet messages still to come. `KeyInv` therefore says that every chain and every skipped key is
`GenuineKey`, a key of the chain the sender started with that ratchet key whether it has been used or not, and that a ratchet key has one
root, also for what its owner sends next. The lemma `DecryptPaths` says in which three ways Decrypt can take a message: a skipped key, a chain
the buffer has, a chain it starts. `CountInv` counts, for PN, the messages under each key; it allows `pn` to be anything while a ratchet step
is pending, because an Encrypt that failed has then overwritten it.

*Turns, order and the chain in force.* `NextInOrderDecryptable` needs that a ratchet key new to a receiver is one it can derive the root for.
`TurnInv` says that the roots form one sequence to which the parties contribute in turn, and which of `dhs`, `dhr` and the pending flag
belong to which turn. `OrderInv` says that plaintext numbers follow (key index, N). `ForceInv` says that the chain of `dhr` is in
the buffer and stands right after the newest accepted message, with no chain, skipped key or accepted message of a later key.
At-most-once on the chain in force follows, and so does that the message after the newest accepted one
meets no gap: it has the next number, or is the first of the next chain with PN the length of this one.

*No message lost in the window.* `WindowInv` says, while `windowed` holds and nothing was replayed, that MKSKIPPED holds the keys
of exactly those outstanding messages which the chain in force or an earlier one has passed (`KeepsKeys`, `Passed`); a replay breaks the "exactly". A gap that Decrypt skips consists of messages
that were sent (`GaplessInv`) and not accepted (`OrderInv`), so the message at hand, the gap and the keys already stored are all in flight:
at most MaxSkip + 1 of them. The gap is thus never refused, and the store never evicts (`StoreKeysEvictsNothing`). That names in the
store are no more than messages in flight is counted with the library's theorems on injections and finite sets.

*The HE session.* `HEInv` numbers the epochs of the DH ratchet: the recursive function `Root` gives the root key each
begins with, `HeaderKeyOf` its header key, derived two epochs ahead. `Standing` says in which epoch a party is and that each of its keys
is the key of its own epoch, of the newest one heard of, or of those plus two; `Adjacent` that the parties are at most one
epoch apart; `MessageOK` that a message is sealed under the keys of its epoch. That the keys of different epochs
differ, by descent on the epoch number (`LeastElement`, from the library's well-founded induction on the naturals), makes header keys and
nonces unique, separates the directions and decides which trial of `decryptHeader` succeeds. A nonce is not reused because it
equals N, and `ns` restarts only with another header key, also when a ratchet step fails after `ns` was reset. `Holding` and `Behind` say that what was
accepted has no skipped key left and is behind the counter of its chain or in an epoch that cannot be entered again; unlike in the base session the
chain of a superseded epoch is never read, so `AcceptedAtMostOnce` needs no condition.

*No HE message lost to a careful application.* `HEKeyInv` adds the values of the keys: a message is sealed under the chain key of its epoch
at its number (`ChainKeyOf`), an open session holds those chain keys at `ns` and `Nr`, and what its store files under the header key of
an epoch is the key of that epoch's chain. `CarefulInv` then counts as `WindowInv` does, with epochs instead of ratchet keys: the store holds the keys of
exactly the outstanding messages that the epoch heard of has passed or that belong to earlier ones, and a message of an epoch has
all its predecessors and announces the length of the epoch two before (`GaplessInv`). The condition is stronger than for the base session: a
ratchet step that fails after `ns` was reset makes the sender announce a PN of 0 (the finding of `he_failed_send_loses_count`), and what the
receiver has not stored by then is lost.

*SPQR.* `SPQRInv` relates the two sessions epoch by epoch: `RootsAgree` where both have chains, `PeersKnown` for what a
provider believes, and `Available(s, e, n)`: the session has the skipped key, or its chain has not reached n. Accepted messages
and messages not accepted are separated exactly (`OutstandingAvailable` is an equivalence), and for that to be inductive it must hold of numbers nobody has
sent yet (`UnsentAvailable`), in the epochs the peer may still send in. The first part of `SPQRProofs` proves what each operation does to availability; an error
that is not rolled back may begin an epoch or skip keys, but takes no key away.

*The Triple Ratchet.* `PQInv` is that argument again for the PQ halves, weakened to what two halves and Close leave true: a closed half is erased, an
open one may have a closed peer, so roots are named by their epoch (`Named`) rather than compared with the peer's, and only one direction of availability is kept
(`AcceptedSpent`): a message that was accepted has its PQ key spent. The two halves move together, so that alone makes acceptance
at-most-once, and `SecureChannel` is implemented: an accepting step adds one message the peer sent and none delivered before, every other
step is a send, a Close or a stutter. For the EC halves, `Base` instantiates `DoubleRatchetProofs` with the EC half of each session and each message cut to its EC
part. An accepting or failing call keeps `Base!IInv` by the lemma the base proof uses for Decrypt (`SendHalfKept`), an Encrypt by
its lemma for Encrypt. Close zeroes fields the base session never zeroes; a closed session is read as one without a sending chain, which is sound because the
PQ half refuses to send from then on (`ECHalf`).

*No recent message of the Triple Ratchet lost.* A message is accepted only if *both* halves have its key, and a step in which one half
succeeds and the other fails undoes both. So the halves are shown to be the systems the other theorems are about: `ECHalvesRefine` and
`PQHalvesRefine` map each step to a step of `DoubleRatchet` and of `SPQR`, or to a stutter (a refused Encrypt, a rejected arrival, a Close).
Those systems know no Close, and `SPQR` no peer that has gone: the mapping shows them each session as it last was while open, which the
history variable `open` of `MCTripleRatchet` records. It constrains nothing - every behaviour of `Spec` has one with `open` - so what holds under
`HistorySpec` and does not mention `open` holds of `Spec`. That a step of the whole is a step of *each* half uses `HybridKeys` (a body sealed under a
hybrid key opens only if both parts are right) and that no message opens at a closed session. Each half then keeps its own messages, by the theorem of
its component; for the EC half `NoReplays` is a consequence of `AcceptedSpent` of the PQ half.

*The containers.* `StorageOK` says that the order list has no repetitions and lists exactly the keys of the map, at most MaxSkip of them;
`Kept` is the sequence of keys and values the abstract map holds. Store and Get are then operations on that sequence: evicting is `Tail`,
consuming removes one place. `RingOK` says that head and count are in range; the window is the `count` slots from `head` on, modulo the
capacity, and `ChainsOf` lists them. Push at a full buffer overwrites the slot at `head`, which is where the window ends. The abstract modules are written with sequences, so the
proofs compare sequences place by place (`SequenceOnInterval`, `AppendIs`).

*The receive loops.* `LoopInv` has one conjunct for each place the program counter can be. At the head of the loop that
stores keys it says that the session is the one at entry with the keys from the chain's number up to the counter stored
(`AtPrev`, `AtSkip`), at the head of the loop that derives that the chain key at hand is the one at the counter (`AtDerive`), and in between
which check of `RatchetReceiveKey` has been passed. The counters and the differences in the gap checks are taken modulo the word; the invariant carries
why they agree with the naturals of `Session`: a checked gap is at most MaxSkip, which is less than the word. The one call for which they do not
agree is the one that never returns (n the largest word, `Endless`), about which the property says nothing.

*A session in memory.* `MemInv` says that everything the session and the snapshot refer to is there (`RefsIn`), that the session refers to no
slice twice (`Apart`), that the cells are numbered from 1 without a gap (`Compact`), and of a closed session that every cell is zero. The snapshot
shares neither slices nor objects with the session while Decrypt runs (`Separate`, which Record establishes); between calls it may share the two
objects, which a rollback hands over. That is harmless because every Decrypt records anew before it changes anything, and because Encrypt
changes neither object. Each operation
has a lemma (`...Goes`): what it makes of the heap is, read through the references (`ValueOf`), what `Session` makes of the value, it leaves the
heap in order, and it touches nothing of the snapshot (`Frame`). An error path is followed to where it stops, since the rollback zeroes
what the half-done call left. `CollectedGoes` shows that renumbering the cells at the end of a call changes no value: `Rank` is injective on a finite set of
numbers, and its range is an initial segment. The loop that stores skipped keys goes by least counterexample over the iterations
(`HeapsAfter`). A step of the heap then is a step of `SessionCalls`, or a stutter.

*Rejection.* Every failing branch of `Decrypt` returns `Rollback(...)`, which assigns each of
the ten fields from the snapshot; that a session has exactly these fields is an invariant proved
along with it. For the HE session the same argument goes through `RollbackAll`, over all early
returns of `ReceiveKeyHE`; unlike in the base session a half-finished ratchet step (root key and header keys already
replaced, gap refused) is among the states that must come back. In SPQR and the Triple Ratchet
the rollback leaves one field alone, `direction`; the proofs carry along that no path changes it (`SameSPQR`,
`SamePQ`), and in SPQR that only the body reports an authentication failure.

*Type correctness* needs the receiver chains' slots to stay in range through `Push` and `PutChain`.

*Handshakes.* The invariant says, of every handshake sent (`SentOK`) and of every one completed (`CompletedOK`), which keys the
first Diffie-Hellman outputs of its secret were made from, which KEM prekey its ciphertext is for, and what its AD names.
Agreement then follows: equal secrets have equal lists of outputs, each names the two keys it came from, and keys
of different kinds are never equal. That a one-time prekey serves once needs `Gone`: a key that a completed
handshake used is one Bob made and no longer has. `OneSignedPreKeyFits` compares whole secrets, so `SentFor` records all that SendHandshake derived
and put into the message, and `OneTimePreKeyFound` that the ID in the message finds the one-time prekey of the bundle and no other.

### What is only model-checked

* Liveness: `DecryptReturns`. The prover has no rule for fairness.
* `EdwardsKeys`: what it shows is about its small curve, by enumeration. For every prime it would need the theory of the group, which no library
  module has.
* The library's induction schemes take an operator as a parameter, which the provers at hand do not instantiate. Induction over numbers is done by a least
  counterexample instead; induction over sequences is not done, and no theorem is about a recursive operator on them.

## 5. Plan

1. *Done:* the base session, its stores, the snapshot.
2. *Done:* the HE session: header keys and their rotation, trial decryption, skipped keys by header
   key, a ratchet step that fails after `ns` was reset.
3. *Done:* SPQR over an abstract provider: epochs, clearing, the error path that does not roll back.
4. *Done:* the Triple Ratchet as the composition of `Session` and `SPQRSession`; `SecureChannel` as its abstract specification.
5. *Done:* the handshakes; the curve helpers on a small curve.
6. *Done:* Close and the calls after it; slices and snapshot in memory; the receive loops with word-sized counters, and that they end.
7. *Done:* proofs of every safety property of the base session, the HE session, SPQR, the Triple Ratchet and the handshakes, that no
   message is lost included; the Triple Ratchet implements its abstract specification, and its halves the systems they embed.
8. *Done:* proofs that both containers implement their abstract specifications, and that the receive loops compute what `Session` says.
9. *Done:* proofs that the session in memory computes what `Session` says and that Close erases it. Every safety property of the runs but those of
   `EdwardsKeys` is a theorem.

## 6. Not modelled

* Padding, AES-CBC, HMAC, HKDF and the KEMs themselves: functions of bytes without state, covered by the repository's test vectors.
* The SCKA mock (`src/scka/testing/mock.go`): a test double; `SCKAProvider` stands for providers that keep the contract.
* The invariants' `VerifySend`, `VerifyPN` and `VerifyDHTransition`: called by no code.
* Examples and benchmarks, type aliases, error values and options (`keys.go`, `errors.go`, `doc.go`).
* Two base sessions of which one is closed in mid-conversation, and an `ns` that wraps after 2^32 messages.
