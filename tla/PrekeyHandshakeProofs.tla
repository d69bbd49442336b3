------------------------ MODULE PrekeyHandshakeProofs ------------------------
(***************************************************************************)
(* Proofs about PrekeyHandshake, for both protocols, any set of prekeys    *)
(* and any number of handshakes.  What each side derived is recorded by    *)
(* SentOK and CompletedOK, invariants on their own; the agreement follows  *)
(* from them, since keys of different kinds are never equal.               *)
(***************************************************************************)
EXTENDS PrekeyHandshakeProperties, FiniteSetTheorems, TLAPS

AD(ika, ikb, pqpk) == IF postQuantum THEN <<ika, ikb, pqpk>> ELSE <<ika, ikb>>

MessageShape(m) ==
  m = IF postQuantum
      THEN [ik |-> m.ik, ek |-> m.ek, opkid |-> m.opkid,
            pqid |-> m.pqid, params |-> m.params, ct |-> m.ct]
      ELSE [ik |-> m.ik, ek |-> m.ek, opkid |-> m.opkid]

SentOK(s) ==
  /\ MessageShape(s.msg)
  /\ s.secret[2][1] = {IdentityKey(Alice), s.bundle.spk}
  /\ s.secret[2][2] = {s.msg.ek, s.bundle.ik}
  /\ postQuantum => s.secret[3][1] = s.bundle.pqpk
  /\ s.ad = AD(IdentityKey(Alice), s.bundle.ik, s.bundle.pqpk)
  /\ s.bundle.spk.kind = "SPK" /\ s.msg.ek.kind = "EK"
  /\ s.bundle.spk.owner = s.bundle.ik.owner
  /\ postQuantum => s.bundle.pqpk.owner = s.bundle.ik.owner

CompletedOK(c) ==
  /\ c.secret[2][1] = {c.spk, c.msg.ik}
  /\ c.secret[2][2] = {IdentityKey(Bob), c.msg.ek}
  /\ postQuantum => c.secret[3][1] = c.pqpk
  /\ c.ad = AD(c.msg.ik, IdentityKey(Bob), c.pqpk)
  /\ c.spk.kind = "SPK" /\ c.msg.ek.kind = "EK"

(* A one-time key that was used is one Bob made and no longer has.         *)
Gone(c) ==
  /\ c.msg.opkid # NoId =>
       \E k \in made \ kept : k.kind = "OPK" /\ k.id = c.msg.opkid
  /\ postQuantum /\ c.pqpk.kind = "KEMOPK" => c.pqpk \in made \ kept

HandshakeInv ==
  /\ made \subseteq BobKeys /\ kept \subseteq made
  /\ \A s \in sent : SentOK(s)
  /\ \A c \in completed : CompletedOK(c) /\ Gone(c)
  /\ OneTimePreKeyUsedOnce

-----------------------------------------------------------------------------
(* The protocol is chosen once, so what was recorded stays recorded.       *)
LEMMA RecordsStay ==
  ASSUME postQuantum' = postQuantum
  PROVE  /\ \A s : SentOK(s)' = SentOK(s)
         /\ \A c : CompletedOK(c)' = CompletedOK(c)
BY DEF SentOK, CompletedOK, MessageShape, AD

(* The two keys of a Diffie-Hellman output, when they are told apart.      *)
LEMMA PairsAgree ==
  ASSUME NEW a, NEW b, NEW c, NEW d, {a, b} = {c, d}, a # d
  PROVE  a = c /\ b = d
  OBVIOUS

(* Whatever bundle the server puts together, its signatures were made by   *)
(* the owner of the key they are over.                                     *)
Signed(signature, key) ==
  \E who : signature = XEdDSASign(IdentityKey(who), key) /\ key.owner = who

BundleOK(b) ==
  /\ \E k : Signed(b.spkSignature, k) /\ k.kind = "SPK"
  /\ postQuantum => \E k : Signed(b.pqSignature, k)

(* A bundle put together from one identity's prekeys has that identity's   *)
(* signatures on each.                                                     *)
LEMMA PublishedSigned ==
  ASSUME made \subseteq BobKeys, NEW b \in Published
  PROVE  /\ BundleOK(b)
         /\ b = [ik |-> b.ik, spk |-> b.spk, spkSignature |-> b.spkSignature,
                 opk |-> b.opk, opkid |-> b.opkid, pqpk |-> b.pqpk,
                 pqSignature |-> b.pqSignature, pqid |-> b.pqid, params |-> b.params]
<1>1. PICK spk \in OfKind(made, {"SPK"}), opk \in OfKind(made, {"OPK"}) \cup {NoKey},
           pqpk \in (IF postQuantum THEN OfKind(made, PQPreKeys) ELSE {NoKey}) :
             b = Bundle(Bob, spk, opk, pqpk)
  BY DEF Published
<1>2. spk.owner = Bob /\ spk.kind = "SPK" /\ (postQuantum => pqpk.owner = Bob)
  BY <1>1, KeyIdAssumption DEF OfKind
<1>3. Signed(b.spkSignature, spk) /\ (postQuantum => Signed(b.pqSignature, pqpk))
  BY <1>1, <1>2 DEF Bundle, Signed
<1>. QED BY <1>1, <1>2, <1>3 DEF BundleOK, Bundle

(* So has a bundle in which the server made a mistake: no signature        *)
(* changed hands with its key.                                             *)
LEMMA BundlesSigned ==
  ASSUME made \subseteq BobKeys, NEW b \in Bundles
  PROVE  BundleOK(b)
<1>1. CASE b \in Published
  BY <1>1, PublishedSigned
<1>2. CASE b \in UNION {Mistaken(x) : x \in Published}
  <2>1. PICK x \in Published : b \in Mistaken(x)
    BY <1>2
  <2>2. /\ BundleOK(x)
        /\ x = [ik |-> x.ik, spk |-> x.spk, spkSignature |-> x.spkSignature,
                opk |-> x.opk, opkid |-> x.opkid, pqpk |-> x.pqpk,
                pqSignature |-> x.pqSignature, pqid |-> x.pqid, params |-> x.params]
    BY <2>1, PublishedSigned
  <2> DEFINE carolSPK == SignedPreKey(Carol, 1)
             carolPQ == [owner |-> Carol, kind |-> "KEMSPK", id |-> 1, params |-> "MLKEM1024"]
  <2>3. /\ b.spkSignature \in {x.spkSignature, XEdDSASign(IdentityKey(Carol), carolSPK)}
        /\ b.pqSignature \in {x.pqSignature, XEdDSASign(IdentityKey(Carol), carolPQ)}
    BY <2>1, <2>2 DEF Mistaken
  <2>4. Signed(XEdDSASign(IdentityKey(Carol), carolSPK), carolSPK) /\ carolSPK.kind = "SPK"
    BY DEF Signed, SignedPreKey
  <2>5. Signed(XEdDSASign(IdentityKey(Carol), carolPQ), carolPQ)
    BY DEF Signed
  <2> HIDE DEF carolSPK, carolPQ
  <2>. QED BY <2>2, <2>3, <2>4, <2>5 DEF BundleOK
<1>. QED BY <1>1, <1>2 DEF Bundles

(* A signature names one signer and one key.                               *)
LEMMA VerifiedOwner ==
  ASSUME NEW ik, NEW key, NEW signature, NEW k,
         XEdDSAVerify(ik, key, signature), Signed(signature, k)
  PROVE  key = k /\ key.owner = ik.owner
<1>1. PICK who : signature = XEdDSASign(IdentityKey(who), k) /\ k.owner = who
  BY DEF Signed
<1>2. [by |-> ik, over |-> key] = [by |-> IdentityKey(who), over |-> k]
  BY <1>1 DEF XEdDSAVerify, XEdDSASign
<1>3. ik = IdentityKey(who) /\ key = k
  BY <1>2
<1>. QED BY <1>1, <1>3 DEF IdentityKey

-----------------------------------------------------------------------------
(* A handshake is sent only from a bundle whose signatures verify, and     *)
(* what it records is what SentOK says.                                    *)
LEMMA SendStep ==
  ASSUME HandshakeInv, NEW b \in Bundles, Send(b)
  PROVE  \A s \in sent' : SentOK(s)
<1> DEFINE ek == EphemeralKey(Alice, Cardinality(sent) + 1)
           r  == SendHandshake(b)
           s  == [bundle |-> b, secret |-> r.secret, ad |-> r.ad, msg |-> r.msg]
<1>1. r.ok /\ sent' = sent \cup {s}
  BY DEF Send
<1>2. BundleOK(b)
  BY BundlesSigned DEF HandshakeInv
<1>3. PICK k : Signed(b.spkSignature, k) /\ k.kind = "SPK"
  BY <1>2 DEF BundleOK
<1>4. SentOK(s)
  <2>1. CASE postQuantum
    <3>1. r = PQ!SendHandshake(IdentityKey(Alice), b, ek)
      BY <2>1 DEF SendHandshake
    <3>2. /\ XEdDSAVerify(b.ik, b.spk, b.spkSignature)
          /\ XEdDSAVerify(b.ik, b.pqpk, b.pqSignature)
          /\ PQ!KemEncapsulate(b.pqpk, b.params, ek).ok
      BY <1>1, <3>1 DEF PQ!SendHandshake, PQ!HandshakeError, PQ!XEdDSAVerify, PQ!XEdDSASign,
                        XEdDSAVerify, XEdDSASign
    <3>3. PQ!KemEncapsulate(b.pqpk, b.params, ek).ss[1] = b.pqpk
      BY <3>2 DEF PQ!KemEncapsulate, PQ!HandshakeError
    <3>4. /\ r.secret = <<"PQXDH", PQ!InitiatorSecrets(IdentityKey(Alice), ek, b),
                          PQ!KemEncapsulate(b.pqpk, b.params, ek).ss>>
          /\ r.ad = <<IdentityKey(Alice), b.ik, b.pqpk>>
          /\ r.msg.ek = ek /\ MessageShape(r.msg)
      BY <1>1, <2>1, <3>1 DEF PQ!SendHandshake, PQ!HandshakeError, PQ!DerivePQXDHSK,
                              PQ!BuildAD, MessageShape
    <3>5. b.spk = k /\ b.spk.owner = b.ik.owner
      BY <3>2, <1>3, VerifiedOwner
    <3>6. b.pqpk.owner = b.ik.owner
      BY <3>2, <1>2, <2>1, VerifiedOwner DEF BundleOK
    <3>7. /\ PQ!InitiatorSecrets(IdentityKey(Alice), ek, b)[1] = {IdentityKey(Alice), b.spk}
          /\ PQ!InitiatorSecrets(IdentityKey(Alice), ek, b)[2] = {ek, b.ik}
      BY DEF PQ!InitiatorSecrets, PQ!SharedSecret
    <3>8. ek.kind = "EK"
      BY DEF EphemeralKey
    <3> HIDE DEF ek, r
    <3>. QED BY <1>3, <2>1, <3>3, <3>4, <3>5, <3>6, <3>7, <3>8 DEF SentOK, AD
  <2>2. CASE ~postQuantum
    <3>1. r = EC!SendHandshake(IdentityKey(Alice), b, ek)
      BY <2>2 DEF SendHandshake
    <3>2. XEdDSAVerify(b.ik, b.spk, b.spkSignature)
      BY <1>1, <3>1 DEF EC!SendHandshake, EC!HandshakeError, EC!XEdDSAVerify, EC!XEdDSASign,
                        XEdDSAVerify, XEdDSASign
    <3>3. /\ r.secret = <<"X3DH", EC!InitiatorSecrets(IdentityKey(Alice), ek, b)>>
          /\ r.ad = <<IdentityKey(Alice), b.ik>>
          /\ r.msg.ek = ek /\ MessageShape(r.msg)
      BY <1>1, <2>2, <3>1 DEF EC!SendHandshake, EC!HandshakeError, EC!DeriveX3DHSK,
                              EC!BuildAD, MessageShape
    <3>4. b.spk = k /\ b.spk.owner = b.ik.owner
      BY <3>2, <1>3, VerifiedOwner
    <3>5. /\ EC!InitiatorSecrets(IdentityKey(Alice), ek, b)[1] = {IdentityKey(Alice), b.spk}
          /\ EC!InitiatorSecrets(IdentityKey(Alice), ek, b)[2] = {ek, b.ik}
      BY DEF EC!InitiatorSecrets, EC!SharedSecret
    <3>6. ek.kind = "EK"
      BY DEF EphemeralKey
    <3> HIDE DEF ek, r
    <3>. QED BY <1>3, <2>2, <3>3, <3>4, <3>5, <3>6 DEF SentOK, AD
  <2>. QED BY <2>1, <2>2
<1>. QED BY <1>1, <1>4 DEF HandshakeInv

(* Whatever happens to a message on the way, its ephemeral key is one.     *)
LEMMA MessageEphemeral ==
  ASSUME HandshakeInv, NEW m \in Messages
  PROVE  m.ek.kind = "EK"
<1>1. CASE m \in {s.msg : s \in sent}
  BY <1>1 DEF HandshakeInv, SentOK
<1>2. CASE m \in UNION {Damaged(s.msg) : s \in sent}
  <2>1. PICK s \in sent : m \in Damaged(s.msg)
    BY <1>2
  <2>2. s.msg.ek.kind = "EK" /\ MessageShape(s.msg)
    BY DEF HandshakeInv, SentOK
  <2>3. m.ek = s.msg.ek \/ m.ek = EphemeralKey(Carol, 1)
    BY <2>1, <2>2 DEF Damaged, MessageShape
  <2>. QED BY <2>2, <2>3 DEF EphemeralKey
<1>. QED BY <1>1, <1>2 DEF Messages

-----------------------------------------------------------------------------
(* What a successful ReceiveHandshake returns.                             *)
LEMMA ReceiveResult ==
  ASSUME NEW m, NEW spk, NEW pqpk, ReceiveHandshake(m, spk, pqpk).ok
  PROVE  LET r == ReceiveHandshake(m, spk, pqpk)
         IN  /\ r.secret[2][1] = {spk, m.ik}
             /\ r.secret[2][2] = {IdentityKey(Bob), m.ek}
             /\ postQuantum => r.secret[3][1] = pqpk
             /\ r.ad = AD(m.ik, IdentityKey(Bob), pqpk)
             /\ m.opkid # NoId => OneTimePreKeyFor(m) # NoKey
<1> DEFINE r == ReceiveHandshake(m, spk, pqpk)
           opk == OneTimePreKeyFor(m)
<1>1. CASE postQuantum
  <2> DEFINE dhs == PQ!ResponderSecrets(IdentityKey(Bob), spk, opk, m)
             kem == PQ!KemDecapsulate(pqpk, m.ct)
  <2>1. r = PQ!ReceiveHandshake(IdentityKey(Bob), spk, opk, pqpk, m)
    BY <1>1 DEF ReceiveHandshake
  <2>2. /\ r.secret = <<"PQXDH", dhs, kem.ss>> /\ r.ad = <<m.ik, IdentityKey(Bob), pqpk>>
        /\ kem.ok
    BY <2>1 DEF PQ!ReceiveHandshake, PQ!HandshakeError, PQ!DerivePQXDHSK, PQ!BuildAD
  <2>3. m.opkid # NoId => opk # NoKey
    BY <2>1 DEF PQ!ReceiveHandshake, PQ!HandshakeError
  <2>4. kem.ss[1] = pqpk
    BY <2>2 DEF PQ!KemDecapsulate, PQ!HandshakeError
  <2>5. dhs[1] = {spk, m.ik} /\ dhs[2] = {IdentityKey(Bob), m.ek}
    BY DEF PQ!ResponderSecrets, PQ!SharedSecret
  <2> HIDE DEF r, opk, dhs, kem
  <2>6. /\ r.secret[2][1] = {spk, m.ik}
        /\ r.secret[2][2] = {IdentityKey(Bob), m.ek}
        /\ r.secret[3][1] = pqpk
        /\ r.ad = AD(m.ik, IdentityKey(Bob), pqpk)
    BY <1>1, <2>2, <2>4, <2>5 DEF AD
  <2>. QED BY <2>3, <2>6 DEF r, opk
<1>2. CASE ~postQuantum
  <2> DEFINE dhs == EC!ResponderSecrets(IdentityKey(Bob), spk, opk, m)
  <2>1. r = EC!ReceiveHandshake(IdentityKey(Bob), spk, opk, m)
    BY <1>2 DEF ReceiveHandshake
  <2>2. r.secret = <<"X3DH", dhs>> /\ r.ad = <<m.ik, IdentityKey(Bob)>>
    BY <2>1 DEF EC!ReceiveHandshake, EC!HandshakeError, EC!DeriveX3DHSK, EC!BuildAD
  <2>3. m.opkid # NoId => opk # NoKey
    BY <2>1 DEF EC!ReceiveHandshake, EC!HandshakeError
  <2>4. dhs[1] = {spk, m.ik} /\ dhs[2] = {IdentityKey(Bob), m.ek}
    BY DEF EC!ResponderSecrets, EC!SharedSecret
  <2> HIDE DEF r, opk, dhs
  <2>5. /\ r.secret[2][1] = {spk, m.ik}
        /\ r.secret[2][2] = {IdentityKey(Bob), m.ek}
        /\ r.ad = AD(m.ik, IdentityKey(Bob), pqpk)
    BY <1>2, <2>2, <2>4 DEF AD
  <2>. QED BY <1>2, <2>3, <2>5 DEF r, opk
<1>. QED BY <1>1, <1>2

(* The one-time prekey found for a message is one Bob keeps.               *)
LEMMA FoundIsKept ==
  ASSUME NEW m, OneTimePreKeyFor(m) # NoKey
  PROVE  /\ OneTimePreKeyFor(m) \in kept
         /\ OneTimePreKeyFor(m).kind = "OPK" /\ OneTimePreKeyFor(m).id = m.opkid
BY DEF OneTimePreKeyFor, OfKind

(* A completion uses one-time keys Bob still has: none that an earlier     *)
(* completion used, and they are gone afterwards.                          *)
LEMMA ReceiveStep ==
  ASSUME HandshakeInv, NEW m \in Messages, NEW spk \in OfKind(kept, {"SPK"}),
         NEW pqpk \in PQPreKeysFor(m), Receive(m, spk, pqpk)
  PROVE  HandshakeInv'
<1> DEFINE r == ReceiveHandshake(m, spk, pqpk)
           opk == OneTimePreKeyFor(m)
           c == [nr |-> Cardinality(completed) + 1, msg |-> m, spk |-> spk,
                 pqpk |-> pqpk, secret |-> r.secret, ad |-> r.ad]
<1>0. PICK e : e = c
  OBVIOUS
<1>1. /\ r.ok /\ completed' = completed \cup {c}
      /\ kept' = kept \ UsedOnce(m, pqpk) /\ made' = made /\ sent' = sent
      /\ postQuantum' = postQuantum
  BY DEF Receive
<1>2. CompletedOK(c)
  <2>1. spk.kind = "SPK"
    BY DEF OfKind
  <2>2. m.ek.kind = "EK"
    BY MessageEphemeral
  <2>. QED BY <1>1, <2>1, <2>2, ReceiveResult DEF CompletedOK
<1>3. m.opkid # NoId => opk \in kept /\ opk.kind = "OPK" /\ opk.id = m.opkid
  BY <1>1, ReceiveResult, FoundIsKept
<1>4. postQuantum => pqpk \in kept
  BY DEF PQPreKeysFor, OfKind
<1>5. \A d \in completed : Gone(d)'
  <2> SUFFICES ASSUME NEW d \in completed PROVE Gone(d)'
    OBVIOUS
  <2>1. Gone(d)
    BY DEF HandshakeInv
  <2>2. made \ kept \subseteq made' \ kept'
    BY <1>1
  <2>. QED BY <1>1, <2>1, <2>2 DEF Gone
<1>6. Gone(e)'
  <2>1. c.msg.opkid # NoId => opk \in made' \ kept' /\ opk.kind = "OPK" /\ opk.id = c.msg.opkid
    BY <1>1, <1>3 DEF UsedOnce, HandshakeInv
  <2>2. postQuantum /\ c.pqpk.kind = "KEMOPK" => c.pqpk \in made' \ kept'
    BY <1>1, <1>4 DEF UsedOnce, OfKind, HandshakeInv
  <2>3. postQuantum' = postQuantum
    BY <1>1
  <2> HIDE DEF c, opk
  <2>. QED BY <1>0, <2>1, <2>2, <2>3 DEF Gone
<1>7. ASSUME NEW d \in completed
      PROVE  /\ c.msg.opkid # NoId => c.msg.opkid # d.msg.opkid
             /\ postQuantum /\ c.pqpk.kind = "KEMOPK" => c.pqpk # d.pqpk
  <2>1. Gone(d) /\ made \subseteq BobKeys /\ kept \subseteq made
    BY DEF HandshakeInv
  <2>2. ASSUME m.opkid # NoId, m.opkid = d.msg.opkid PROVE FALSE
    <3>1. PICK k \in made \ kept : k.kind = "OPK" /\ k.id = m.opkid
      BY <2>1, <2>2 DEF Gone
    <3>. QED BY <1>3, <2>1, <2>2, <3>1, KeyIdAssumption
  <2>3. ASSUME postQuantum, pqpk.kind = "KEMOPK", pqpk = d.pqpk PROVE FALSE
    BY <1>4, <2>1, <2>3 DEF Gone
  <2>. QED BY <2>2, <2>3
<1>8. OneTimePreKeyUsedOnce'
  <2> SUFFICES ASSUME NEW x \in completed', NEW y \in completed', x # y
               PROVE  /\ x.msg.opkid # NoId => x.msg.opkid # y.msg.opkid
                      /\ postQuantum /\ x.pqpk.kind = "KEMOPK" => x.pqpk # y.pqpk
    BY <1>1 DEF OneTimePreKeyUsedOnce
  <2> HIDE DEF c
  <2>1. CASE x \in completed /\ y \in completed
    BY <2>1 DEF HandshakeInv, OneTimePreKeyUsedOnce
  <2>2. CASE x = c /\ y \in completed
    BY <1>7, <2>2
  <2>3. CASE x \in completed /\ y = c
    BY <1>7, <2>3
  <2>. QED BY <1>1, <2>1, <2>2, <2>3
<1> HIDE DEF c
<1>9. \A d \in completed' : CompletedOK(d) /\ Gone(d)'
  BY <1>0, <1>1, <1>2, <1>5, <1>6 DEF HandshakeInv
<1>10. made' \subseteq BobKeys /\ kept' \subseteq made' /\ \A s \in sent' : SentOK(s)
  BY <1>1 DEF HandshakeInv
<1>. QED BY <1>1, <1>8, <1>9, <1>10, RecordsStay DEF HandshakeInv

-----------------------------------------------------------------------------
(* At first there is no handshake and no prekey.                           *)
LEMMA InitHandshake == Init => HandshakeInv
BY DEF Init, HandshakeInv, OneTimePreKeyUsedOnce

(* Steps that complete no handshake: Bob's keys come and go, and a used    *)
(* key is not generated again.                                             *)
LEMMA KeysStep ==
  ASSUME HandshakeInv, postQuantum' = postQuantum, made \subseteq made', made' \subseteq BobKeys, kept' \subseteq made',
         kept' \cap made \subseteq kept, completed' = completed, \A s \in sent' : SentOK(s)
  PROVE  HandshakeInv'
<1>1. made \ kept \subseteq made' \ kept'
  BY DEF HandshakeInv
<1>2. \A c \in completed : Gone(c)'
  <2> SUFFICES ASSUME NEW c \in completed PROVE Gone(c)'
    OBVIOUS
  <2>1. Gone(c)
    BY DEF HandshakeInv
  <2>. QED BY <1>1, <2>1 DEF Gone
<1>3. OneTimePreKeyUsedOnce'
  BY DEF HandshakeInv, OneTimePreKeyUsedOnce
<1>. QED BY <1>2, <1>3, RecordsStay DEF HandshakeInv

(* The invariant holds after every step of the application and of the      *)
(* server.                                                                 *)
LEMMA NextHandshake == HandshakeInv /\ [Next]_vars => HandshakeInv'
<1> SUFFICES ASSUME HandshakeInv, [Next]_vars PROVE HandshakeInv'
  OBVIOUS
<1>0. made \subseteq BobKeys /\ kept \subseteq made /\ \A s \in sent : SentOK(s)
  BY DEF HandshakeInv
<1>1. ASSUME NEW key \in BobKeys, Generate(key) PROVE HandshakeInv'
  BY <1>0, <1>1, KeysStep DEF Generate
<1>2. ASSUME NEW key \in BobKeys, Retire(key) PROVE HandshakeInv'
  BY <1>0, <1>2, KeysStep DEF Retire
<1>3. ASSUME NEW b \in Bundles, Send(b) PROVE HandshakeInv'
  BY <1>0, <1>3, SendStep, KeysStep DEF Send
<1>4. ASSUME NEW b \in Bundles, SendRefused(b) PROVE HandshakeInv'
  BY <1>0, <1>4, KeysStep DEF SendRefused, vars
<1>5. ASSUME NEW m \in Messages, NEW spk \in OfKind(kept, {"SPK"}),
             NEW pqpk \in PQPreKeysFor(m), Receive(m, spk, pqpk)
      PROVE  HandshakeInv'
  BY <1>5, ReceiveStep
<1>6. ASSUME NEW m \in Messages, NEW spk \in OfKind(kept, {"SPK"}),
             NEW pqpk \in PQPreKeysFor(m), ReceiveFails(m, spk, pqpk)
      PROVE  HandshakeInv'
  <2>1. kept' \subseteq kept
    BY <1>6 DEF ReceiveFails
  <2>. QED BY <1>0, <1>6, <2>1, KeysStep DEF ReceiveFails
<1>7. CASE UNCHANGED vars
  BY <1>0, <1>7, KeysStep DEF vars
<1>. QED BY <1>1, <1>2, <1>3, <1>4, <1>5, <1>6, <1>7 DEF Next

(* What SentOK, CompletedOK and Gone say holds throughout.                 *)
LEMMA HandshakeInvariant == Spec => []HandshakeInv
BY InitHandshake, NextHandshake, PTL DEF Spec

(* Equal secrets were made of the same keys.                               *)
LEMMA AgreementFollows == HandshakeInv => SecretAgreementIsFull
<1> SUFFICES ASSUME HandshakeInv, NEW s \in sent, NEW c \in completed, s.secret = c.secret
             PROVE  /\ s.ad = c.ad
                    /\ s.bundle.ik = IdentityKey(Bob) /\ c.msg.ik = IdentityKey(Alice)
                    /\ s.bundle.spk = c.spk
                    /\ postQuantum => s.bundle.pqpk = c.pqpk
                    /\ s.msg.ek = c.msg.ek
  BY DEF SecretAgreementIsFull
<1>1. SentOK(s) /\ CompletedOK(c)
  BY DEF HandshakeInv
<1>2. IdentityKey(Alice) = c.msg.ik /\ s.bundle.spk = c.spk
  <2>1. {IdentityKey(Alice), s.bundle.spk} = {c.msg.ik, c.spk}
    BY <1>1 DEF SentOK, CompletedOK
  <2>2. IdentityKey(Alice).kind = "IK" /\ c.spk.kind = "SPK"
    BY <1>1 DEF CompletedOK, IdentityKey
  <2>3. IdentityKey(Alice) # c.spk
    BY <2>2
  <2>. QED BY <2>1, <2>3, PairsAgree
<1>3. s.msg.ek = c.msg.ek /\ s.bundle.ik = IdentityKey(Bob)
  <2>1. {s.msg.ek, s.bundle.ik} = {c.msg.ek, IdentityKey(Bob)}
    BY <1>1 DEF SentOK, CompletedOK
  <2>2. IdentityKey(Bob).kind = "IK" /\ s.msg.ek.kind = "EK"
    BY <1>1 DEF SentOK, IdentityKey
  <2>3. s.msg.ek # IdentityKey(Bob)
    BY <2>2
  <2>. QED BY <2>1, <2>3, PairsAgree
<1>4. postQuantum => s.bundle.pqpk = c.pqpk
  BY <1>1 DEF SentOK, CompletedOK
<1>5. s.ad = c.ad
  BY <1>1, <1>2, <1>3, <1>4 DEF SentOK, CompletedOK, AD
<1>. QED BY <1>2, <1>3, <1>4, <1>5

-----------------------------------------------------------------------------
(* For any prekeys, bundles and messages, and for both protocols: equal    *)
(* secrets mean equal associated data, identities and keys.                *)
THEOREM HandshakeAgreement == Spec => []SecretAgreementIsFull
BY HandshakeInvariant, AgreementFollows, PTL

(* SendHandshake never completes on a bundle that mixes identities.        *)
THEOREM BundlesAuthenticated == Spec => []BundleBelongsToIdentity
<1>1. HandshakeInv => BundleBelongsToIdentity
  BY DEF HandshakeInv, SentOK, BundleBelongsToIdentity
<1>. QED BY <1>1, HandshakeInvariant, PTL

(* No one-time prekey completes two handshakes.                            *)
THEOREM OneTimePreKeysUsedOnce == Spec => []OneTimePreKeyUsedOnce
<1>1. HandshakeInv => OneTimePreKeyUsedOnce
  BY DEF HandshakeInv
<1>. QED BY <1>1, HandshakeInvariant, PTL

-----------------------------------------------------------------------------
(* All that a handshake of Alice's put into its message and its secret.    *)
SentFor(s) ==
  LET b == s.bundle
      m == s.msg
      dhs == InitiatorSecrets(IdentityKey(Alice), m.ek, b)
  IN  /\ m.ik = IdentityKey(Alice) /\ m.ek # ZeroKey
      /\ m.opkid = NamedOneTimePreKey(b)
      /\ ~postQuantum => s.secret = <<"X3DH", dhs>>
      /\ postQuantum => /\ s.secret = <<"PQXDH", dhs, <<b.pqpk, m.ct>>>>
                        /\ m.ct.to = b.pqpk /\ m.params = b.params
                        /\ b.pqpk.params = b.params /\ b.params \in PQ!KemRegistry

SentInv == IsFiniteSet(sent) /\ \A s \in sent : SentFor(s)

(* Both protocols derive their secrets with the same functions.            *)
LEMMA SameDerivations ==
  /\ \A ik, ek, b : PQ!InitiatorSecrets(ik, ek, b) = InitiatorSecrets(ik, ek, b)
  /\ \A ik, ek, b : EC!InitiatorSecrets(ik, ek, b) = InitiatorSecrets(ik, ek, b)
  /\ \A ik, spk, opk, m : PQ!ResponderSecrets(ik, spk, opk, m) = ResponderSecrets(ik, spk, opk, m)
  /\ \A ik, spk, opk, m : EC!ResponderSecrets(ik, spk, opk, m) = ResponderSecrets(ik, spk, opk, m)
  /\ \A b : PQ!NamedOneTimePreKey(b) = NamedOneTimePreKey(b)
  /\ \A b : EC!NamedOneTimePreKey(b) = NamedOneTimePreKey(b)
BY DEF PQ!InitiatorSecrets, EC!InitiatorSecrets, InitiatorSecrets, PQ!ResponderSecrets,
       EC!ResponderSecrets, ResponderSecrets, PQ!NamedOneTimePreKey, EC!NamedOneTimePreKey,
       NamedOneTimePreKey, PQ!SharedSecret, EC!SharedSecret, SharedSecret

(* What SendHandshake returns is what SentFor says.                        *)
LEMMA SendMakes ==
  ASSUME NEW b, NEW ek, ek # ZeroKey, NEW r, r.ok,
         r = IF postQuantum THEN PQ!SendHandshake(IdentityKey(Alice), b, ek)
                            ELSE EC!SendHandshake(IdentityKey(Alice), b, ek)
  PROVE  SentFor([bundle |-> b, secret |-> r.secret, ad |-> r.ad, msg |-> r.msg])
<1> DEFINE s == [bundle |-> b, secret |-> r.secret, ad |-> r.ad, msg |-> r.msg]
<1>1. s.bundle = b /\ s.secret = r.secret /\ s.msg = r.msg
  OBVIOUS
<1>2. CASE postQuantum
  <2>1. PICK kem : kem = PQ!KemEncapsulate(b.pqpk, b.params, ek)
    OBVIOUS
  <2>2. r = PQ!SendHandshake(IdentityKey(Alice), b, ek)
    BY <1>2
  <2>3. /\ kem.ok
        /\ r.secret = <<"PQXDH", PQ!InitiatorSecrets(IdentityKey(Alice), ek, b), kem.ss>>
        /\ r.msg = [ik |-> IdentityKey(Alice), ek |-> ek, opkid |-> PQ!NamedOneTimePreKey(b),
                    pqid |-> b.pqid, params |-> b.params, ct |-> kem.ct]
    BY <2>1, <2>2 DEF PQ!SendHandshake, PQ!HandshakeError, PQ!DerivePQXDHSK
  <2>4. /\ b.params \in PQ!KemRegistry /\ b.pqpk.params = b.params
        /\ kem.ct.to = b.pqpk /\ kem.ss = <<b.pqpk, kem.ct>>
    BY <2>1, <2>3 DEF PQ!KemEncapsulate, PQ!HandshakeError
  <2>5. /\ r.msg.ik = IdentityKey(Alice) /\ r.msg.ek = ek /\ r.msg.params = b.params
        /\ r.msg.opkid = NamedOneTimePreKey(b) /\ r.msg.ct = kem.ct
    BY <2>3, SameDerivations
  <2>6. r.secret = <<"PQXDH", InitiatorSecrets(IdentityKey(Alice), ek, b), <<b.pqpk, kem.ct>>>>
    BY <2>3, <2>4, SameDerivations
  <2> HIDE DEF s
  <2>. QED BY <1>1, <1>2, <2>4, <2>5, <2>6 DEF SentFor
<1>3. CASE ~postQuantum
  <2>1. r = EC!SendHandshake(IdentityKey(Alice), b, ek)
    BY <1>3
  <2>2. /\ r.secret = <<"X3DH", EC!InitiatorSecrets(IdentityKey(Alice), ek, b)>>
        /\ r.msg = [ik |-> IdentityKey(Alice), ek |-> ek, opkid |-> EC!NamedOneTimePreKey(b)]
    BY <2>1 DEF EC!SendHandshake, EC!HandshakeError, EC!DeriveX3DHSK
  <2>3. /\ r.msg.ik = IdentityKey(Alice) /\ r.msg.ek = ek
        /\ r.msg.opkid = NamedOneTimePreKey(b)
    BY <2>2, SameDerivations
  <2>4. r.secret = <<"X3DH", InitiatorSecrets(IdentityKey(Alice), ek, b)>>
    BY <2>2, SameDerivations
  <2> HIDE DEF s
  <2>. QED BY <1>1, <1>3, <2>3, <2>4 DEF SentFor
<1>. QED BY <1>2, <1>3

(* Handshakes are sent by SendHandshake alone.                             *)
LEMMA StepSentInv == SentInv /\ [Next]_vars => SentInv'
<1> SUFFICES ASSUME SentInv, [Next]_vars PROVE SentInv'
  OBVIOUS
<1>0. ASSUME postQuantum' = postQuantum PROVE \A s : SentFor(s)' = SentFor(s)
  BY <1>0 DEF SentFor
<1>1. ASSUME sent' = sent, postQuantum' = postQuantum PROVE SentInv'
  BY <1>0, <1>1 DEF SentInv
<1>2. ASSUME NEW b \in Bundles, Send(b) PROVE SentInv'
  <2>1. PICK n, ek, r, s :
          /\ n = Cardinality(sent) /\ ek = EphemeralKey(Alice, n + 1) /\ r = SendHandshake(b)
          /\ s = [bundle |-> b, secret |-> r.secret, ad |-> r.ad, msg |-> r.msg]
    OBVIOUS
  <2>2. /\ n < MaxHandshakes /\ r.ok /\ sent' = sent \cup {s} /\ postQuantum' = postQuantum
        /\ r = IF postQuantum THEN PQ!SendHandshake(IdentityKey(Alice), b, ek)
                              ELSE EC!SendHandshake(IdentityKey(Alice), b, ek)
    BY <1>2, <2>1 DEF Send, SendHandshake
  <2>3. n \in Nat
    BY <2>1, FS_CardinalityType DEF SentInv
  <2>4. n + 1 \in 1 .. MaxHandshakes
    BY <2>2, <2>3, BoundAssumption
  <2>5. ek # ZeroKey
    BY <2>1, <2>4, KeyAssumption
  <2>6. SentFor(s)
    BY <2>1, <2>2, <2>5, SendMakes
  <2>7. IsFiniteSet(sent')
    BY <2>2, FS_AddElement DEF SentInv
  <2>. QED BY <1>0, <2>2, <2>6, <2>7 DEF SentInv
<1>3. CASE UNCHANGED vars
  BY <1>1, <1>3 DEF vars
<1>. QED BY <1>1, <1>2, <1>3 DEF Next, Generate, Retire, SendRefused, Receive, ReceiveFails, vars

(* What SentFor says holds throughout.                                     *)
LEMMA SentInvariant == Spec => []SentInv
<1>1. Init => SentInv
  BY FS_EmptySet DEF Init, SentInv
<1>. QED BY <1>1, StepSentInv, PTL DEF Spec

(* The one-time prekey Bob finds for the message of a published bundle.    *)
LEMMA OneTimePreKeyFound ==
  ASSUME HandshakeInv, NEW b \in Published, {b.opk} \ {NoKey} \subseteq kept,
         NEW m, m.opkid = NamedOneTimePreKey(b)
  PROVE  /\ m.opkid = NoId <=> b.opk = NoKey
         /\ b.opk # NoKey => OneTimePreKeyFor(m) = b.opk
<1>1. PICK spk \in OfKind(made, {"SPK"}), opk \in OfKind(made, {"OPK"}) \cup {NoKey},
           pqpk \in (IF postQuantum THEN OfKind(made, PQPreKeys) ELSE {NoKey}) :
             b = Bundle(Bob, spk, opk, pqpk)
  BY DEF Published
<1>2. b.opk = opk /\ b.opkid = IF opk = NoKey THEN NoId ELSE opk.id
  BY <1>1 DEF Bundle
<1>3. ASSUME opk # NoKey
      PROVE  opk \in kept /\ opk.kind = "OPK" /\ opk \in BobKeys /\ m.opkid = opk.id /\ opk.id # NoId
  BY <1>1, <1>2, <1>3, KeyAssumption DEF HandshakeInv, OfKind, NamedOneTimePreKey
<1>4. ASSUME opk # NoKey, NEW k \in OfKind(kept, {"OPK"}), k.id = m.opkid PROVE k = opk
  BY <1>3, <1>4, KeyIdAssumption DEF HandshakeInv, OfKind
<1>5. opk # NoKey => OneTimePreKeyFor(m) = opk
  <2> SUFFICES ASSUME opk # NoKey PROVE OneTimePreKeyFor(m) = opk
    OBVIOUS
  <2>1. {k \in OfKind(kept, {"OPK"}) : k.id = m.opkid} = {opk}
    BY <1>3, <1>4 DEF OfKind
  <2>. QED BY <1>3, <2>1 DEF OneTimePreKeyFor
<1>. QED BY <1>2, <1>3, <1>5 DEF NamedOneTimePreKey

(* The outputs of the two sides are the same list when the signed prekey   *)
(* is the one of the bundle, and differ in the first when it is not.       *)
LEMMA SecretsFit ==
  ASSUME HandshakeInv, NEW b \in Published, NEW m, NEW spk, spk.kind = "SPK", b.spk.kind = "SPK",
         {b.opk} \ {NoKey} \subseteq kept, m.opkid = NamedOneTimePreKey(b),
         m.ik = IdentityKey(Alice)
  PROVE  ResponderSecrets(IdentityKey(Bob), spk, OneTimePreKeyFor(m), m)
           = InitiatorSecrets(IdentityKey(Alice), m.ek, b) <=> spk = b.spk
<1> DEFINE theirs == ResponderSecrets(IdentityKey(Bob), spk, OneTimePreKeyFor(m), m)
           ours == InitiatorSecrets(IdentityKey(Alice), m.ek, b)
<1>1. b.ik = IdentityKey(Bob)
  BY DEF Published, Bundle
<1>2. /\ m.opkid = NoId <=> b.opk = NoKey
      /\ b.opk # NoKey => OneTimePreKeyFor(m) = b.opk
  BY OneTimePreKeyFound
<1>3. spk = b.spk => theirs = ours
  BY <1>1, <1>2 DEF ResponderSecrets, InitiatorSecrets, SharedSecret
<1>4. ASSUME theirs = ours PROVE spk = b.spk
  <2>1. theirs[1] = {spk, IdentityKey(Alice)} /\ ours[1] = {IdentityKey(Alice), b.spk}
    BY DEF ResponderSecrets, InitiatorSecrets, SharedSecret
  <2>2. IdentityKey(Alice).kind = "IK"
    BY DEF IdentityKey
  <2>. QED BY <1>4, <2>1, <2>2
<1>. QED BY <1>3, <1>4

(* For any prekeys and rotations: of the signed prekeys Bob keeps, exactly *)
(* the one a message was made for completes it with the initiator's        *)
(* secret, and the others complete it too, with another secret.            *)
THEOREM SignedPreKeyFits == Spec => []OneSignedPreKeyFits
<1>1. HandshakeInv /\ SentInv => OneSignedPreKeyFits
  <2> SUFFICES ASSUME HandshakeInv, SentInv, NEW s \in sent, s.bundle \in Published,
                      {s.bundle.spk} \cup ({s.bundle.opk, s.bundle.pqpk} \ {NoKey}) \subseteq kept,
                      NEW spk \in OfKind(kept, {"SPK"})
               PROVE  LET r == ReceiveHandshake(s.msg, spk, s.bundle.pqpk)
                      IN  r.ok /\ (r.secret = s.secret <=> spk = s.bundle.spk)
    BY DEF OneSignedPreKeyFits
  <2>1. PICK b, m, opk, r, dhs, ours :
          /\ b = s.bundle /\ m = s.msg /\ opk = OneTimePreKeyFor(m)
          /\ r = ReceiveHandshake(m, spk, b.pqpk)
          /\ dhs = ResponderSecrets(IdentityKey(Bob), spk, opk, m)
          /\ ours = InitiatorSecrets(IdentityKey(Alice), m.ek, b)
    OBVIOUS
  <2>2. /\ m.ik = IdentityKey(Alice) /\ m.ik # ZeroKey /\ m.ek # ZeroKey
        /\ m.opkid = NamedOneTimePreKey(b)
        /\ ~postQuantum => s.secret = <<"X3DH", ours>>
        /\ postQuantum => /\ s.secret = <<"PQXDH", ours, <<b.pqpk, m.ct>>>>
                          /\ m.ct.to = b.pqpk /\ m.params = b.params
                          /\ b.pqpk.params = b.params /\ b.params \in PQ!KemRegistry
    BY <2>1, KeyAssumption DEF SentInv, SentFor
  <2>3. spk.kind = "SPK" /\ b.spk.kind = "SPK"
    BY <2>1 DEF OfKind, HandshakeInv, SentOK
  <2>4. dhs = ours <=> spk = b.spk
    BY <2>1, <2>2, <2>3, SecretsFit
  <2>5. m.opkid # NoId => opk # NoKey
    BY <2>1, <2>2, OneTimePreKeyFound
  <2>6. CASE ~postQuantum
    <3>1. r = EC!ReceiveHandshake(IdentityKey(Bob), spk, opk, m)
      BY <2>1, <2>6 DEF ReceiveHandshake
    <3>2. r.ok /\ r.secret = <<"X3DH", dhs>>
      BY <2>1, <2>2, <2>5, <3>1, SameDerivations
         DEF EC!ReceiveHandshake, EC!DeriveX3DHSK, EC!ValidatePublicKey, EC!VerifyPublicKey
    <3>3. \A x, y : <<"X3DH", x>> = <<"X3DH", y>> <=> x = y
      OBVIOUS
    <3>. QED BY <2>1, <2>2, <2>4, <2>6, <3>2, <3>3
  <2>7. CASE postQuantum
    <3>1. r = PQ!ReceiveHandshake(IdentityKey(Bob), spk, opk, b.pqpk, m)
      BY <2>1, <2>7 DEF ReceiveHandshake
    <3>2. PICK kem : kem = PQ!KemDecapsulate(b.pqpk, m.ct)
      OBVIOUS
    <3>3. kem.ok /\ kem.ss = <<b.pqpk, m.ct>>
      BY <2>2, <2>7, <3>2 DEF PQ!KemDecapsulate
    <3>4. r.ok /\ r.secret = <<"PQXDH", dhs, <<b.pqpk, m.ct>>>>
      BY <2>1, <2>2, <2>5, <2>7, <3>1, <3>2, <3>3, SameDerivations
         DEF PQ!ReceiveHandshake, PQ!DerivePQXDHSK, PQ!ValidatePublicKey, PQ!VerifyPublicKey
    <3>5. \A x, y, z : <<"PQXDH", x, z>> = <<"PQXDH", y, z>> <=> x = y
      OBVIOUS
    <3>. QED BY <2>1, <2>2, <2>4, <2>7, <3>4, <3>5
  <2>. QED BY <2>6, <2>7
<1>. QED BY <1>1, HandshakeInvariant, SentInvariant, PTL
=============================================================================
