-------------------------- MODULE MCSubscriptions --------------------------
(* Small instances of Subscriptions for TLC.                               *)
EXTENDS Subscriptions, TLC

CONSTANTS c1, i1, r1, r2, e1, a1, n1

\* One connection: every message names the same ID.
OneConnOf == [h \in Handlers |-> c1]
OneIdOf == [h \in Handlers |-> i1]

\* One routing key for every filter and event.
FilterKey == [r \in Reqs |-> Keys]
EventKey == [e \in Events |-> Keys]

WantsAll == [r \in Reqs |-> Events]

OneAddr == [e \in Events |-> a1]
=============================================================================
