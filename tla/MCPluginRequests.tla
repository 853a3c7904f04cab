-------------------------- MODULE MCPluginRequests --------------------------
(***************************************************************************)
(* Overlapping WebSocket commands to one light, each one of a choice of    *)
(* requests that share settings and payload fields.                        *)
(***************************************************************************)
EXTENDS PluginRequests, MCRequests

CONSTANTS c1, c2

MCCmd == {c1, c2}

\* c1 may wait for c2; or each overrides the other when it is called later.
Overlaps == {c1 :> "color" @@ c2 :> "dim", c1 :> "dim" @@ c2 :> "dim"}

\* All calls are over and all answers are in.
Terminated ==
  /\ \A c \in Cmd : phase[c] = "done" /\ owed[c] = 0
  /\ pending = {}
  /\ UNCHANGED vars
MCNext == Next \/ Terminated
MCInit == Init /\ request \in Overlaps
MCSpec == MCInit /\ [][MCNext]_vars /\ Fairness
=============================================================================
