----------------------------- MODULE MCBackends -----------------------------
(* Two masters of which one may crash and come back; one broadcast to more *)
(* relays than users beside another one to the same relays.                *)
EXTENDS Backends, TLC
MCMaxCrashes == [writes |-> 1, jobs |-> 2]

MCRelayLists == ("u1" :> {"r1", "self"} @@ "u2" :> {"r1", "r2"})
Ev(type, user, relayList) ==
    [type |-> type, user |-> user, refers |-> user, relays |-> relayList]
MCBatches ==
    [b1 |-> {{Ev("other", "u2", {})}},
     b2 |-> {{Ev("giftwrap", "u1", {}), Ev("embedding", "u1", {"r2"})}}]
=============================================================================
