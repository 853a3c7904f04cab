---------------------------- MODULE Supersession ----------------------------
(***************************************************************************)
(* What the retry machinery of HcuApiClient promises about overlapping     *)
(* commands, without saying how: from the moment a command starts, every   *)
(* command still running that changes a setting it overrides is stale, and *)
(* nothing else ever makes a command stale or fresh again.                 *)
(***************************************************************************)
CONSTANTS Cmd,       \* the command calls
          Request,   \* what a command may ask for
          Overrides  \* the <<newer, older>> requests of which the newer one
                     \* replaces a setting the older one changes

VARIABLES request,  \* what each command asks for
          running,  \* the commands between their start and their end
          stale     \* the running commands that must not be sent again

Init == request \in [Cmd -> Request] /\ running = {} /\ stale = {}

\* A command starts and makes what it overrides stale.
Start(d) ==
  /\ d \notin running
  /\ running' = running \cup {d}
  /\ stale' = stale \cup {c \in running : <<request[d], request[c]>> \in Overrides}
  /\ UNCHANGED request

\* A command ends, by success, an error or cancellation.
Finish(c) ==
  /\ c \in running
  /\ running' = running \ {c}
  /\ stale' = stale \ {c}
  /\ UNCHANGED request

Next == \E c \in Cmd : Start(c) \/ Finish(c)

Spec == Init /\ [][Next]_<<request, running, stale>>
=============================================================================
