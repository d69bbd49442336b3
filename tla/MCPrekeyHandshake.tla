-------------------------- MODULE MCPrekeyHandshake --------------------------
(* The run of PrekeyHandshake: Bob's prekeys, and smaller bounds for the   *)
(* wider messages of PQXDH.                                                *)
EXTENDS PrekeyHandshakeProperties

(* A last-resort and a one-time PQ prekey of one parameter set.            *)
MCBobKeys ==
  {SignedPreKey(Bob, i) : i \in 1 .. 2} \cup {OneTimePreKey(Bob, i) : i \in 1 .. 2}
  \cup {PQ!KEMSignedPreKey(Bob, 1, "MLKEM1024"), PQ!KEMOneTimePreKey(Bob, 2, "MLKEM1024")}

Smaller == Cardinality(sent') < MaxHandshakes /\ OneTimePreKey(Bob, 2) \notin made'

MCSpec == Init /\ [][Next /\ (postQuantum => Smaller)]_vars
=============================================================================
