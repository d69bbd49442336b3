--------------------------- MODULE PrekeyHandshake ---------------------------
(***************************************************************************)
(* Handshakes of Alice with Bob, through the server that hands out Bob's   *)
(* prekeys: X3DH, or PQXDH when postQuantum.  The handshakes are in X3DH   *)
(* and PQXDH; this module is the application around them, doing what their *)
(* comments ask of it.  Bob generates prekeys, rotates the long-lived ones *)
(* and discards a one-time prekey once it was used; the server may hand    *)
(* out a stale bundle, the same one-time prekey twice, or a bundle put     *)
(* together wrongly; an initial message may come late, again or damaged.   *)
(***************************************************************************)
EXTENDS Prekeys, FiniteSets

CONSTANTS Alice, Bob, Carol,
          BobKeys,         \* the prekeys Bob may generate
          MaxHandshakes,   \* bound: calls of SendHandshake that succeed
          MaxCompletions   \* bound: calls of ReceiveHandshake that succeed

(* Bob owns the keys he generates, and gives no key ID twice to keys of    *)
(* one kind.                                                               *)
ASSUME KeyIdAssumption ==
  \A k \in BobKeys : /\ k.owner = Bob
                     /\ \A l \in BobKeys : k.kind = l.kind /\ k.id = l.id => k = l

(* A key ID is a number, never nil, and no key pair that Alice draws or    *)
(* keeps is the all-zero one.                                              *)
ASSUME KeyAssumption ==
  /\ \A k \in BobKeys : k.id # NoId
  /\ IdentityKey(Alice) # ZeroKey
  /\ \A n \in 1 .. MaxHandshakes : EphemeralKey(Alice, n) # ZeroKey
ASSUME BoundAssumption == MaxHandshakes \in Nat

EC == INSTANCE X3DH
PQ == INSTANCE PQXDH

VARIABLES
  postQuantum,  \* which protocol the application uses
  made,         \* the prekeys Bob has generated and published
  kept,         \* those whose private half he still has
  sent,         \* Alice's completed handshakes: bundle, secret, ad, message
  completed     \* Bob's completed handshakes, numbered: message, keys given, secret, ad

vars == <<postQuantum, made, kept, sent, completed>>

OfKind(keys, kinds) == {k \in keys : k.kind \in kinds}
PQPreKeys == {"KEMSPK", "KEMOPK"}

Init ==
  /\ postQuantum \in BOOLEAN
  /\ made = {} /\ kept = {} /\ sent = {} /\ completed = {}

-----------------------------------------------------------------------------
Generate(key) ==
  /\ key \in BobKeys \ made
  /\ key.kind \in PQPreKeys => postQuantum
  /\ made' = made \cup {key} /\ kept' = kept \cup {key}
  /\ UNCHANGED <<postQuantum, sent, completed>>

(* A rotated key is dropped at some time after its successor is published. *)
Retire(key) ==
  /\ key \in OfKind(kept, {"SPK", "KEMSPK"})
  /\ \E newer \in kept : newer.kind = key.kind /\ newer.id > key.id
  /\ kept' = kept \ {key}
  /\ UNCHANGED <<postQuantum, made, sent, completed>>

-----------------------------------------------------------------------------
(* The bundle of who's signed prekey spk, one-time prekey opk (NoKey when  *)
(* they have run out) and PQ prekey pqpk (NoKey in X3DH).                  *)
Bundle(who, spk, opk, pqpk) ==
  [ik |-> IdentityKey(who), spk |-> spk,
   spkSignature |-> XEdDSASign(IdentityKey(who), spk),
   opk |-> opk, opkid |-> IF opk = NoKey THEN NoId ELSE opk.id,
   pqpk |-> pqpk, pqSignature |-> XEdDSASign(IdentityKey(who), pqpk),
   pqid |-> IF postQuantum THEN pqpk.id ELSE NoId,
   params |-> IF postQuantum THEN pqpk.params ELSE NoKey]

Published ==
  {Bundle(Bob, spk, opk, pqpk) :
     spk \in OfKind(made, {"SPK"}), opk \in OfKind(made, {"OPK"}) \cup {NoKey},
     pqpk \in IF postQuantum THEN OfKind(made, PQPreKeys) ELSE {NoKey}}

(* One mistake in a bundle: a key of Carol's, with her signature or        *)
(* without, an unusable key, a missing or another key ID or parameter set. *)
Mistaken(b) ==
  LET carolSPK == SignedPreKey(Carol, 1)
      carolPQ  == [owner |-> Carol, kind |-> "KEMSPK", id |-> 1, params |-> "MLKEM1024"]
      carolIK  == IdentityKey(Carol)
  IN  { [b EXCEPT !.ik = carolIK],
        [b EXCEPT !.spk = carolSPK],
        [b EXCEPT !.spk = carolSPK, !.spkSignature = XEdDSASign(carolIK, carolSPK)],
        [b EXCEPT !.spk = ZeroKey],
        [b EXCEPT !.opk = OneTimePreKey(Carol, 1), !.opkid = 1],
        [b EXCEPT !.opk = ZeroKey],
        [b EXCEPT !.opkid = NoId],
        [b EXCEPT !.opkid = 2] }
      \cup (IF ~postQuantum THEN {}
            ELSE { [b EXCEPT !.pqpk = carolPQ],
                   [b EXCEPT !.pqpk = carolPQ, !.pqSignature = XEdDSASign(carolIK, carolPQ)],
                   [b EXCEPT !.pqid = 2],
                   [b EXCEPT !.params = "MLKEM768"],
                   [b EXCEPT !.params = "unknown"] })

Bundles == Published \cup UNION {Mistaken(b) : b \in Published}

SendHandshake(bundle) ==
  LET ek == EphemeralKey(Alice, Cardinality(sent) + 1)
  IN  IF postQuantum THEN PQ!SendHandshake(IdentityKey(Alice), bundle, ek)
                     ELSE EC!SendHandshake(IdentityKey(Alice), bundle, ek)

Send(bundle) ==
  /\ Cardinality(sent) < MaxHandshakes
  /\ LET r == SendHandshake(bundle)
     IN  /\ r.ok
         /\ sent' = sent \cup {[bundle |-> bundle, secret |-> r.secret,
                                ad |-> r.ad, msg |-> r.msg]}
  /\ UNCHANGED <<postQuantum, made, kept, completed>>

SendRefused(bundle) ==
  /\ ~SendHandshake(bundle).ok
  /\ UNCHANGED vars

-----------------------------------------------------------------------------
(* One field of an initial message changed on the way.                     *)
Damaged(m) ==
  { [m EXCEPT !.ik = IdentityKey(Carol)], [m EXCEPT !.ik = ZeroKey],
    [m EXCEPT !.ek = EphemeralKey(Carol, 1)],
    [m EXCEPT !.opkid = NoId], [m EXCEPT !.opkid = 1] }
  \cup (IF ~postQuantum THEN {}
        ELSE { [m EXCEPT !.pqid = 1], [m EXCEPT !.params = "MLKEM768"],
               [m EXCEPT !.ct.coins = EphemeralKey(Carol, 1)] })

Messages == {s.msg : s \in sent} \cup UNION {Damaged(s.msg) : s \in sent}

(* "opk must be the OneTimePreKey identified by msg.OPKID, or nil".        *)
OneTimePreKeyFor(m) ==
  LET found == {k \in OfKind(kept, {"OPK"}) : k.id = m.opkid}
  IN  IF m.opkid # NoId /\ found # {} THEN CHOOSE k \in found : TRUE ELSE NoKey

PQPreKeysFor(m) ==
  IF postQuantum THEN {k \in OfKind(kept, PQPreKeys) : k.id = m.pqid} ELSE {NoKey}

ReceiveHandshake(m, spk, pqpk) ==
  LET opk == OneTimePreKeyFor(m)
  IN  IF postQuantum THEN PQ!ReceiveHandshake(IdentityKey(Bob), spk, opk, pqpk, m)
                     ELSE EC!ReceiveHandshake(IdentityKey(Bob), spk, opk, m)

(* The one-time keys a call was given.                                     *)
UsedOnce(m, pqpk) ==
  {OneTimePreKeyFor(m)} \cup (IF postQuantum THEN OfKind({pqpk}, {"KEMOPK"}) ELSE {})

(* The message does not name the signed prekey it was made for: Bob may    *)
(* complete with any he keeps.  "After ReceiveHandshake returns            *)
(* successfully, the caller must discard the used OPK."                    *)
Receive(m, spk, pqpk) ==
  /\ Cardinality(completed) < MaxCompletions
  /\ LET r == ReceiveHandshake(m, spk, pqpk)
     IN  /\ r.ok
         /\ completed' = completed \cup
              {[nr |-> Cardinality(completed) + 1, msg |-> m, spk |-> spk,
                pqpk |-> pqpk, secret |-> r.secret, ad |-> r.ad]}
  /\ kept' = kept \ UsedOnce(m, pqpk)
  /\ UNCHANGED <<postQuantum, made, sent>>

(* pqxdh.go asks for the discard whenever ReceiveHandshake "returns": a    *)
(* caller may read this as after an error too.                             *)
ReceiveFails(m, spk, pqpk) ==
  /\ ~ReceiveHandshake(m, spk, pqpk).ok
  /\ kept' \in {kept} \cup (IF postQuantum THEN {kept \ UsedOnce(m, pqpk)} ELSE {})
  /\ UNCHANGED <<postQuantum, made, sent, completed>>

Next ==
  \/ \E key \in BobKeys : Generate(key) \/ Retire(key)
  \/ \E b \in Bundles : Send(b) \/ SendRefused(b)
  \/ \E m \in Messages : \E spk \in OfKind(kept, {"SPK"}), pqpk \in PQPreKeysFor(m) :
       Receive(m, spk, pqpk) \/ ReceiveFails(m, spk, pqpk)

Spec == Init /\ [][Next]_vars
=============================================================================
