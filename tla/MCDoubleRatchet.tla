--------------------------- MODULE MCDoubleRatchet ---------------------------
(* The run of DoubleRatchet: model values, and a record of how the         *)
(* application has used the sessions.                                      *)
EXTENDS DoubleRatchetProperties

VARIABLE windowed  \* whether the application has kept the window so far

(* An application that keeps at most MaxSkip + 1 messages in flight to     *)
(* each party: the one being received and MaxSkip it may have jumped over. *)
Window == \A p \in Party : Cardinality(Outstanding(p)) <= MaxSkip + 1

MCInit == Init /\ windowed = TRUE
MCNext == Next /\ windowed' = (windowed /\ Window')
MCSpec == MCInit /\ [][MCNext]_<<vars, windowed>>

(* No message is lost by what else arrives, in whatever order, damaged or *)
(* not, or by what its receiver sends, as long as no more are in flight    *)
(* than a chain may jump over: each message sent and not yet accepted      *)
(* would be accepted now, also one of a ratchet key whose chain has been   *)
(* evicted.  The one thing that can take its key from a full MKSKIPPED is  *)
(* a replay that a superseded chain accepted: that stores the keys it      *)
(* jumps over a second time.                                               *)
OutstandingDecryptableInWindow ==
  windowed /\ (\A p \in Party : replayed[p] = {}) => OutstandingDecryptable
=============================================================================
