------------------------------- MODULE Access -------------------------------
(***************************************************************************)
(* Who may write what: the sessions of a user's devices, and the roles in  *)
(* a community.  Both are decided from stored events before an event is    *)
(* stored; neither reads the events of the other, so a behaviour follows   *)
(* one of them.                                                            *)
(***************************************************************************)
EXTENDS Sessions, Communities

VARIABLE part       \* the one this behaviour follows

accessVars == <<sessionVars, communityVars, part>>

AccessInit == part \in {"sessions", "community"} /\ SessionInit /\ CommunityInit

AccessNext ==
    /\ UNCHANGED part
    /\ \/ part = "sessions" /\ SessionNext /\ UNCHANGED communityVars
       \/ part = "community" /\ CommunityNext /\ UNCHANGED sessionVars

AccessSpec == AccessInit /\ [][AccessNext]_accessVars
=============================================================================
