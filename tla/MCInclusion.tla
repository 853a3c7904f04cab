----------------------------- MODULE MCInclusion -----------------------------
(***************************************************************************)
(* Two devices on one platform, and a group of both on another.            *)
(***************************************************************************)
EXTENDS DynamicInclusion, TLC

CONSTANTS d1, d2, g1, lights, groups

MCDevice == {d1, d2}
MCGroup == {g1}
MCMembersOf == g1 :> MCDevice
MCPlatform == {lights, groups}
MCPlatformOf == d1 :> lights @@ d2 :> lights @@ g1 :> groups
=============================================================================
