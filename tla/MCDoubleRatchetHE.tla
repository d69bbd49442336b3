-------------------------- MODULE MCDoubleRatchetHE --------------------------
(* The run of DoubleRatchetHE: three kinds of application, told apart so   *)
(* that sessions are not closed in the longest conversations.              *)
EXTENDS DoubleRatchetHEProperties

VARIABLE application  \* the kind of application, chosen once

(* At most MaxSkip + 1 messages are in flight to each party.               *)
Window == \A p \in Party : Cardinality(Outstanding(p)) <= MaxSkip + 1

(* It keeps the window, and its entropy source never fails.                *)
Careful == Window' /\ (\A p \in Party : ~EncryptHEFails(p)) /\ closed' = {}
(* Bound: one message less, over both parties, than the careful may send.  *)
LongestCareless == 2 * MaxSends - 1
Careless == closed' = {} /\ sent'[Initiator] + sent'[Responder] <= LongestCareless
(* It closes sessions; bound: one message less than the others.            *)
Closing == \A p \in Party : sent'[p] < MaxSends

MCInit == Init /\ application \in {"careful", "careless", "closing"}
MCNext ==
  /\ Next
  /\ application = "careful" => Careful
  /\ application = "careless" => Careless
  /\ application = "closing" => Closing
  /\ UNCHANGED application
MCSpec == MCInit /\ [][MCNext]_<<vars, application>>

(* As long as the application keeps the window and no key pair fails to be *)
(* generated, no message is lost by what else arrives or by what its       *)
(* receiver sends: each one not yet accepted would be accepted now, also   *)
(* where only a stored header key can still open its header.               *)
OutstandingDecryptableIfCareful == application = "careful" => OutstandingDecryptable
=============================================================================
