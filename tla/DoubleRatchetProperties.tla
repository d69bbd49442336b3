----------------------- MODULE DoubleRatchetProperties -----------------------
(***************************************************************************)
(* What a pair of base sessions promises.                                  *)
(***************************************************************************)
EXTENDS DoubleRatchet

-----------------------------------------------------------------------------
(* Shapes.                                                                 *)
PublicKey == {KeyPair(p, i) : p \in Party, i \in 0 .. MaxSends}
ChainKeyOK(ck) == DOMAIN ck = {"root", "step"} /\ ck.step \in Nat
ChainsOK(r) ==
  /\ DOMAIN r = {"slots", "head", "count"}
  /\ r.head \in Slots /\ r.count \in 0 .. ReceiverChainsMax
  /\ DOMAIN r.slots = Slots
SessionOK(s) ==
  /\ DOMAIN s = SessionFields
  /\ s.cks = NoChainKey \/ ChainKeyOK(s.cks)
  /\ s.ns \in Nat /\ s.pn \in Nat
  /\ s.dhs \in PublicKey /\ s.dhr \in PublicKey \cup {ZeroKey}
  /\ {s.dhRSet, s.dhRatchetPerformed} \subseteq BOOLEAN
  /\ ChainsOK(s.recvChains)

(* Type invariant: the fields of both sessions, the messages on the        *)
(* network and the history variables have their shapes.                    *)
TypeOK ==
  /\ \A p \in Party : SessionOK(session[p])
  /\ generated \in [Party -> 1 .. MaxSends + 1]
  /\ sent \in [Party -> 0 .. MaxSends]
  /\ \A m \in network : m.from \in Party /\ m.hdr.pk \in PublicKey
                          /\ m.hdr.pn \in Nat /\ m.hdr.n \in Nat
  /\ \A p \in Party : accepted[p] \subseteq 0 .. MaxSends /\ replayed[p] \subseteq accepted[p]

-----------------------------------------------------------------------------
(* Encrypt never seals two messages with one message key, whichever party  *)
(* sends them and whatever Decrypt calls, accepted or rolled back, happen  *)
(* in between: the key fixes the IV, so a reuse would break the suite.     *)
MessageKeyNeverReused ==
  \A m1, m2 \in network : m1.box.key = m2.box.key => m1 = m2

(* A ratchet public key and a message number name one message: MKSKIPPED   *)
(* and the receiver's chain lookup both index by that pair.                *)
HeaderNamesMessage ==
  \A m1, m2 \in network :
    (m1.hdr.pk = m2.hdr.pk /\ m1.hdr.n = m2.hdr.n) => m1 = m2

(* The PN a sender announces with a new ratchet key is exactly the number  *)
(* of messages it sent under the previous one, also after an Encrypt that  *)
(* failed half-way; a receiver that trusts a smaller PN loses messages.    *)
PNCountsPreviousChain ==
  \A m \in network :
    m.hdr.pk[2] > 0 =>
      m.hdr.pn = Cardinality({x \in network :
                                x.hdr.pk = KeyPair(m.from, m.hdr.pk[2] - 1)})

(* Every key a receiver could use for a message is the sender's key for    *)
(* it: the skipped key stored under the message's name, and the key that   *)
(* the receiving chain of its ratchet key reaches at its number.           *)
ReceiverKeysMatchSender ==
  \A m \in network :
    LET s  == session[Peer(m.from)]
        id == StorageKey(m.hdr.pk, m.hdr.n)
        c  == GetChain(s.recvChains, m.hdr.pk)
    IN  /\ HasKey(s.mkSkipped, id) => Lookup(s.mkSkipped, id) = m.box.key
        /\ HasChain(s.recvChains, m.hdr.pk) /\ m.hdr.n >= c.nr =>
             ChainKeyAt(c.ck, m.hdr.n - c.nr) = m.box.key

Accepts(p, m) == DecryptArrival(p, m).err = "ok"
Outstanding(p) == {m \in network : m.from = Peer(p) /\ m.box.text \notin accepted[p]}

(* Every message that was sent and not yet accepted would be accepted now. *)
OutstandingDecryptable ==
  \A p \in Party : \A m \in Outstanding(p) : Accepts(p, m)

(* A gap wider than MaxSkip closes the direction: later messages are       *)
(* refused, and so is the first of a new epoch, whose PN spans the gap.    *)
(* What always heals it is delivery in order: of any backlog, the message  *)
(* sent right after the newest accepted one would be accepted now.         *)
NextInOrderDecryptable ==
  \A p \in Party : \A m \in network :
    (m.from = Peer(p) /\ m.box.text = Max({-1} \cup accepted[p]) + 1) => Accepts(p, m)

(* A Decrypt that returns an error leaves the session as it found it, at   *)
(* whatever point it gave up and whatever was damaged.                     *)
RejectionLeavesSession ==
  \A p \in Party : \A m \in {x \in network : x.from = Peer(p)} : \A a \in Arrivals(m) :
    LET out == DecryptArrival(p, a)
    IN  out.err # "ok" => out.s = session[p]

(* A message that was accepted before is accepted again only from a chain  *)
(* that a DH ratchet step has superseded: within the chain in force, and   *)
(* within its skipped keys, Decrypt is at-most-once.                       *)
CurrentChainAtMostOnce ==
  [][\A p \in Party, m \in network :
       (m.from = Peer(p) /\ m.box.text \in replayed'[p] \ replayed[p])
         => m.hdr.pk # session[p].dhr]_vars

(* "A skipped key is deleted after successful use, so replaying the same   *)
(* delayed message should fail." (README.md, Out-of-Order Messages)        *)
NoMessageAcceptedTwice == \A p \in Party : replayed[p] = {}
=============================================================================
