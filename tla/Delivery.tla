------------------------------ MODULE Delivery ------------------------------
(***************************************************************************)
(* What HcuApiClient promises the entities about sending a command, on     *)
(* either channel and without saying how it waits, locks or refreshes: a   *)
(* command goes out only between its start and its end and a bounded       *)
(* number of times, and what already went out goes out again only as long  *)
(* as no command that replaces it has started.                             *)
(***************************************************************************)
EXTENDS Supersession, Naturals

CONSTANT MaxSends  \* how often a command may go out

VARIABLE sends  \* how often each running command went out

DeliveryInit == Init /\ sends = [c \in Cmd |-> 0]

\* A command starts, and may go out at once.
Accept(c) ==
  /\ Start(c)
  /\ \E n \in {0, 1} : sends' = [sends EXCEPT ![c] = n]

\* A command goes out for the first time, even if it was replaced while it
\* queued: the newer one goes out after it.
SendFirst(c) ==
  /\ c \in running /\ sends[c] = 0
  /\ sends' = [sends EXCEPT ![c] = 1]
  /\ UNCHANGED <<request, running, stale>>

\* A command goes out again.
SendAgain(c) ==
  /\ c \in running \ stale
  /\ sends[c] \in 1 .. MaxSends - 1
  /\ sends' = [sends EXCEPT ![c] = @ + 1]
  /\ UNCHANGED <<request, running, stale>>

\* A command ends.
Close(c) == Finish(c) /\ sends' = [sends EXCEPT ![c] = 0]

DeliveryNext ==
  \E c \in Cmd : Accept(c) \/ SendFirst(c) \/ SendAgain(c) \/ Close(c)

DeliverySpec ==
  DeliveryInit /\ [][DeliveryNext]_<<request, running, stale, sends>>
=============================================================================
