--------------------------- MODULE MCTripleRatchet ---------------------------
(* The run of TripleRatchet: a record of the sessions while they are open, *)
(* and two kinds of application, told apart so that sessions are not       *)
(* closed in the longest conversations.                                    *)
EXTENDS TripleRatchetProperties

VARIABLES
  open,    \* history: the session of each party as it last was while open
  closing  \* whether the application closes sessions, chosen once

(* The specification with the history of the open sessions.                *)
HistoryInit == Init /\ open = session
HistoryNext ==
  Next /\ open' = [p \in Party |-> IF p \in closed' THEN open[p] ELSE session'[p]]
HistorySpec == HistoryInit /\ [][HistoryNext]_<<vars, open>>

MCInit == HistoryInit /\ closing \in BOOLEAN
MCNext ==
  /\ HistoryNext
  /\ ~closing => closed' = {}
  /\ closing => \A p \in Party : sent'[p] < MaxSends  \* bound: one message less
  /\ UNCHANGED closing
MCSpec == MCInit /\ [][MCNext]_<<vars, open, closing>>
=============================================================================
