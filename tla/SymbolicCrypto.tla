--------------------------- MODULE SymbolicCrypto ---------------------------
(***************************************************************************)
(* The primitives of go-doubleratchet as free constructors: two derived    *)
(* keys are equal exactly when they are derived the same way, and an AEAD  *)
(* box opens exactly under the key and associated data it was sealed with. *)
(*                                                                         *)
(* A key pair is identified by <<owner, i>>, the i-th pair its owner drew; *)
(* the identifier stands for the private and for the public half, and the  *)
(* code only ever hands a private half to its own session.                 *)
(***************************************************************************)
EXTENDS Integers

CONSTANTS ZeroKey,  \* the all-zero 32-byte public key
          NoKey     \* a nil byte slice where a key is expected

(* X25519(a, B) = X25519(b, A): the output depends on the unordered pair.  *)
SharedSecret(priv, pub) == {priv, pub}

VerifyPublicKey(pk) == pk # ZeroKey

(* A root key is the nesting of everything mixed into it, starting from    *)
(* the secret both sides share; its chain key is keyed by that new root.   *)
InitialRootKey == << >>
DeriveRoot(rk, dhOut) == <<rk, dhOut>>
FirstChainKey(root) == [root |-> root, step |-> 0]
NoChainKey == [nil |-> TRUE]   \* the nil slice where a chain key is expected

(* HMAC(ck, 0x02) moves a chain one step; HMAC(ck, 0x01) is the message    *)
(* key of the current step, so it is named by the chain position itself.   *)
DeriveNextChainKey(ck) == [root |-> ck.root, step |-> ck.step + 1]
DeriveMessageKey(ck) == ck
ChainKeyAt(ck, k) == [root |-> ck.root, step |-> ck.step + k]

(* AES-CBC + HMAC-SHA256: encrypt-then-MAC over ad || iv || ciphertext.    *)
Seal(mk, ad, text) == [key |-> mk, ad |-> ad, text |-> text]
(* The key that a damaged box was sealed under, as far as its tag tells:   *)
(* none that anybody derives.                                              *)
ForeignKey == [foreign |-> TRUE]

Opens(mk, ad, box) == box.key = mk /\ box.ad = ad
=============================================================================
