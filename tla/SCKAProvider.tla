---------------------------- MODULE SCKAProvider ----------------------------
(***************************************************************************)
(* A provider that keeps the contract of scka.Provider.  The repository    *)
(* has no implementation but a mock for tests, so this is the environment  *)
(* of the SPQR session: an abstract continuous key agreement in which the  *)
(* parties take turns.  For the key of epoch e one party offers (in every  *)
(* message until the answer is in), the other answers with a Send that     *)
(* yields the key at once, and the answer yields it to the party that      *)
(* offered.                                                                *)
(*                                                                         *)
(*   epoch    latest epoch whose key this side has put out                 *)
(*   peer     latest epoch the other side is known to know                 *)
(*   offered  latest epoch the other side has offered                      *)
(*   odd      this side offers the odd epochs                              *)
(***************************************************************************)
EXTENDS Integers

(* A message the provider cannot make sense of.                            *)
BadMsg == [bad |-> TRUE]

NoEpoch == 0       \* keyEpoch when no key is put out
EarlierOf(a, b) == IF a < b THEN a ELSE b
LaterOf(a, b) == IF a > b THEN a ELSE b

InitProvider(odd) == [odd |-> odd, epoch |-> 0, peer |-> 0, offered |-> 0]

Offers(st, e) == st.odd = (e % 2 = 1)
OutputKey(e) == e

(* Send() = (msg, sendingEpoch, outputKey, keyEpoch)                       *)
ProviderSend(st) ==
  LET next    == st.epoch + 1
      answers == st.offered = next /\ ~Offers(st, next)
      epoch   == IF answers THEN next ELSE st.epoch
  IN  [st |-> [st EXCEPT !.epoch = epoch],
       msg |-> [epoch |-> st.peer,
                offer |-> IF Offers(st, epoch + 1) THEN epoch + 1 ELSE NoEpoch,
                answer |-> IF Offers(st, epoch) THEN NoEpoch ELSE epoch],
       sendingEpoch |-> st.peer,
       keyEpoch |-> IF answers THEN next ELSE NoEpoch]

(* Receive(msg) = (receivingEpoch, outputKey, keyEpoch), or an error that  *)
(* changes nothing.  Old news is ignored.                                  *)
Understands(msg) == msg # BadMsg
ProviderReceive(st, msg) ==
  LET answered == msg.answer = st.epoch + 1
      epoch    == IF answered THEN msg.answer ELSE st.epoch
  IN  [st |-> [st EXCEPT !.epoch = epoch,
                         !.peer = LaterOf(@, IF answered THEN epoch ELSE msg.epoch),
                         !.offered = LaterOf(@, EarlierOf(msg.offer, epoch + 1))],
       receivingEpoch |-> msg.epoch,
       keyEpoch |-> IF answered THEN epoch ELSE NoEpoch]
=============================================================================
