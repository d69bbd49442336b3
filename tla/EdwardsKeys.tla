---------------------------- MODULE EdwardsKeys ----------------------------
(***************************************************************************)
(* The arithmetic of internal/ecutil, on a curve like Curve25519 but small *)
(* enough to enumerate: p is 19 below a power of two, the group has order  *)
(* 8l with 8l just above that power, so no clamped scalar is a multiple of *)
(* l, and the base point is the one with u = 9.  Encodings have one bit    *)
(* more than a field element and are compared digit by digit (hexadecimal  *)
(* digits here, bytes in the code).  One key pair signs messages and meets *)
(* public keys of every encoding.                                          *)
(***************************************************************************)
EXTENDS Integers, FiniteSets

CONSTANTS Bits,          \* 255: the bits of a field element
          P,             \* 2^255 - 19
          D,             \* -x^2 + y^2 = 1 + D x^2 y^2
          L,             \* the prime order of the base point
          BaseU,         \* its Montgomery u-coordinate
          EightInvModL,  \* eightInvModL
          None,          \* nil, or an error
          PrivateKey,    \* bound: the private scalars generated
          Message,       \* bound: the messages signed
          Nonce          \* bound: the nonces drawn

VARIABLES pair,   \* a key pair: private scalar, public encoding
          peer,   \* the last public key received and what ValidatePublicKey said
          sig     \* the last signature made, with its message
vars == <<pair, peer, sig>>

Field == 0 .. P - 1
Encoding == 0 .. 2 ^ (Bits + 1) - 1
Mul(a, b) == (a * b) % P
InverseOf == [a \in 1 .. P - 1 |-> CHOOSE b \in Field : Mul(a, b) = 1]
(* The even square root, where there is one.                               *)
SqrtOf == [a \in {Mul(x, x) : x \in Field} |->
             CHOOSE x \in Field : Mul(x, x) = a /\ x % 2 = 0]

(* Points in affine coordinates; the addition law is complete.             *)
Identity == <<0, 1>>
Add(p, q) ==
  LET t == Mul(Mul(D, Mul(p[1], q[1])), Mul(p[2], q[2]))
  IN  << Mul(Mul(p[1], q[2]) + Mul(q[1], p[2]), InverseOf[(1 + t) % P]),
         Mul(Mul(p[2], q[2]) + Mul(p[1], q[1]), InverseOf[(1 - t) % P]) >>
Negate(p) == <<(-p[1]) % P, p[2]>>
ScalarMult(n, p) ==
  LET times[k \in Nat] == IF k = 0 THEN Identity
                          ELSE LET half == times[k \div 2]
                                   even == Add(half, half)
                               IN  IF k % 2 = 0 THEN even ELSE Add(even, p)
  IN  times[n]

(* Point.SetBytes and Point.Bytes: y and the parity of x.                  *)
PointOf(y, sign) ==
  LET xx == Mul(Mul(y, y) - 1, InverseOf[(1 + Mul(D, Mul(y, y))) % P])
  IN  IF xx \notin DOMAIN SqrtOf THEN None
      ELSE <<IF sign = 0 THEN SqrtOf[xx] ELSE (-SqrtOf[xx]) % P, y>>
BytesOf(p) == [y |-> p[2], sign |-> p[1] % 2]

(* The high bit of an encoding is ignored, and the rest reduced.           *)
ElementOf(encoding) == (encoding % (2 ^ Bits)) % P

MontgomeryUToEdwardsYBytes(u) ==
  IF ElementOf(u) = P - 1 THEN None
  ELSE Mul(ElementOf(u) - 1, InverseOf[ElementOf(u) + 1])

Base == PointOf(MontgomeryUToEdwardsYBytes(BaseU), 0)

ASSUME CurveAssumption ==
  /\ P < 2 ^ Bits /\ 2 ^ Bits < 8 * L
  /\ Base \notin {None, Identity} /\ ScalarMult(L, Base) = Identity
  /\ D \notin DOMAIN SqrtOf
  /\ PrivateKey \subseteq {2 ^ (Bits - 1) + 8 * n : n \in 0 .. 2 ^ (Bits - 4) - 1}

-----------------------------------------------------------------------------
(* curve25519.X25519 for a point on the curve; 0 for the identity.         *)
X25519(scalar, u) ==
  LET q == ScalarMult(scalar, PointOf(MontgomeryUToEdwardsYBytes(u), 0))
  IN  IF q = Identity THEN 0 ELSE Mul(1 + q[2], InverseOf[(1 - q[2]) % P])

(* k is clamped, which CurveAssumption says of PrivateKey: the low three   *)
(* bits are clear, and of the upper bits only bit 254 is set for certain.  *)
GenerateX25519KeyPair(k) == [priv |-> k, pub |-> X25519(k, BaseU)]

DHX25519(priv, pub) == LET ss == X25519(priv, pub) IN IF ss = 0 THEN None ELSE ss

Digits == 0 .. ((Bits + 1) \div 4) - 1
Digit(k, i) == (k \div (16 ^ i)) % 16
HighBit(k) == k \div (2 ^ Bits)
(* Mutant: only the high bit is looked at.                                 *)
ScalarIsInRangeHighBit(k) == HighBit(k) = 0
(* The first digit, from the top, that differs from p's is smaller.        *)
ScalarIsInRange(k) ==
  /\ HighBit(k) = 0
  /\ \E i \in Digits : /\ Digit(k, i) < Digit(P, i)
                       /\ \A j \in Digits : j > i => Digit(k, j) = Digit(P, j)

(* Mutant: no torsion check.                                               *)
ValidatePublicKeyOnCurve(pub) ==
  /\ ScalarIsInRange(pub)
  /\ MontgomeryUToEdwardsYBytes(pub) # None
  /\ PointOf(MontgomeryUToEdwardsYBytes(pub), 0) # None
ValidatePublicKey(pub) ==
  /\ ScalarIsInRange(pub)
  /\ LET y == MontgomeryUToEdwardsYBytes(pub)
     IN  /\ y # None
         /\ LET point == PointOf(y, 0)
            IN  /\ point # None
                /\ ScalarMult(EightInvModL, ScalarMult(8, point)) = point

-----------------------------------------------------------------------------
(* SHA-512 reduced mod l.                                                  *)
Hash(r, pub, message) ==
  (7 * r.y + 29 * r.sign + 5 * pub.y + 43 * pub.sign + 13 * message) % L

(* Mutant: the sign of the Edwards key is left out.                        *)
XEdDSASignUnsigned(priv, message, nonce) ==
  LET a     == priv % L
      edPub == BytesOf(ScalarMult(a, Base))
      r     == BytesOf(ScalarMult(nonce, Base))
  IN  [r |-> r, s |-> (Hash(r, edPub, message) * a + nonce) % L, sign |-> 0]
XEdDSASign(priv, message, nonce) ==
  LET a     == priv % L
      edPub == BytesOf(ScalarMult(a, Base))
      r     == BytesOf(ScalarMult(nonce, Base))
  IN  [r |-> r, s |-> (Hash(r, edPub, message) * a + nonce) % L, sign |-> edPub.sign]

(* The signature's equation, s B - h A = R, for the key as it was decoded. *)
SignatureEquation(point, message, signature) ==
  LET h == Hash(signature.r, BytesOf(point), message)
  IN  BytesOf(Add(ScalarMult(signature.s, Base), ScalarMult(h, Negate(point))))
        = signature.r
(* Mutant: s need not be canonical.                                        *)
XEdDSAVerifyAnyScalar(pub, message, signature) ==
  LET y == MontgomeryUToEdwardsYBytes(pub)
      point == PointOf(y, signature.sign)
  IN  y # None /\ point # None /\ SignatureEquation(point, message, signature)
XEdDSAVerify(pub, message, signature) ==
  LET y == MontgomeryUToEdwardsYBytes(pub)
      point == PointOf(y, signature.sign)
  IN  /\ y # None
      /\ point # None
      /\ PointOf(signature.r.y, signature.r.sign) # None
      /\ signature.s < L   \* the test of the top bits before it asks for less
      /\ SignatureEquation(point, message, signature)

-----------------------------------------------------------------------------
Init ==
  /\ \E k \in PrivateKey : pair = GenerateX25519KeyPair(k)
  /\ peer = [pub |-> BaseU, ok |-> TRUE]
  /\ sig = None

Validate(pub) ==
  /\ peer' = [pub |-> pub, ok |-> ValidatePublicKey(pub)]
  /\ UNCHANGED <<pair, sig>>

Sign(message, nonce) ==
  /\ sig' = [message |-> message, signature |-> XEdDSASign(pair.priv, message, nonce)]
  /\ UNCHANGED <<pair, peer>>

(* One call per behaviour: the helpers keep no state.                      *)
Next ==
  /\ sig = None /\ peer.pub = BaseU
  /\ \/ \E pub \in Encoding : Validate(pub)
     \/ \E message \in Message, nonce \in Nonce : Sign(message, nonce)

Spec == Init /\ [][Next]_vars

-----------------------------------------------------------------------------
PrimeOrderKeys == {Mul(1 + q[2], InverseOf[(1 - q[2]) % P]) :
                     q \in {ScalarMult(n, Base) : n \in 1 .. L - 1}}

(* ValidatePublicKey accepts the canonical encodings of the points of      *)
(* order l and nothing else: of the encodings that name one point, one;    *)
(* no low-order point, no point with a low-order component, no point of    *)
(* the twist.                                                              *)
ValidKeysHavePrimeOrder == peer.ok <=> peer.pub \in PrimeOrderKeys

(* Every DH with a validated key succeeds: ErrZeroSharedSecret is never    *)
(* returned in the middle of a handshake, and both sides compute the same. *)
ValidatedSecretsAgree ==
  peer.ok =>
    /\ DHX25519(pair.priv, peer.pub) # None
    /\ \A k \in PrivateKey : GenerateX25519KeyPair(k).pub = peer.pub =>
         DHX25519(pair.priv, peer.pub) = DHX25519(k, pair.pub)

(* A signature verifies under the Montgomery public key of its maker,      *)
(* which does not say which of the two Edwards points A and -A signed.     *)
SignatureVerifies ==
  sig # None => XEdDSAVerify(pair.pub, sig.message, sig.signature)

(* Nobody can turn a signature into another one of the same message by     *)
(* changing its scalar: of all the scalars that fit, one is accepted.      *)
SignatureScalarUnique ==
  sig # None =>
    \A s \in 0 .. 2 ^ Bits - 1 :
      XEdDSAVerify(pair.pub, sig.message, [sig.signature EXCEPT !.s = s])
        => s = sig.signature.s
=============================================================================
