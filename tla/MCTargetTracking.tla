-------------------------- MODULE MCTargetTracking --------------------------
(***************************************************************************)
(* The bookkeeping of TargetTracking with the real command tables on three *)
(* overlapping calls: a dimmable colour light and a heating group.         *)
(***************************************************************************)
EXTENDS TargetTracking, MCRequests

CONSTANTS c1, c2, c3

MCCmd == {c1, c2, c3}

\* All calls are over.
AllDone == \A c \in Cmd : phase[c] = "done"
Terminated == AllDone /\ UNCHANGED trackVars
MCNext == TrackNext \/ Terminated
MCSpec == TrackInit /\ [][MCNext]_trackVars
=============================================================================
