-------------------------- MODULE MCAppRestCommands --------------------------
(***************************************************************************)
(* Three overlapping REST commands, each one of a choice of requests that  *)
(* share settings and payload fields of one target.                        *)
(***************************************************************************)
EXTENDS AppRestCommands, MCRequests

CONSTANTS c1, c2, c3

MCCmd == {c1, c2, c3}

\* In the first choice each command may wait for the next one and is waited for
\* itself; in the second the newest one overrides the others.
Overlaps == {c1 :> "signal" @@ c2 :> "color" @@ c3 :> "dim",
             c1 :> "dim" @@ c2 :> "color" @@ c3 :> "off"}

\* All calls are over and the HCU has handled all they sent.
Terminated ==
  /\ \A c \in Cmd : phase[c] = "done" /\ reply[c] # "sent"
  /\ UNCHANGED vars
MCNext == Next \/ Terminated
MCInit == Init /\ request \in Overlaps
MCSpec == MCInit /\ [][MCNext]_vars /\ Fairness
=============================================================================
