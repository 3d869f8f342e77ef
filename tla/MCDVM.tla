------------------------------- MODULE MCDVM --------------------------------
(* A job that is sent twice and a stop for it; two trades that double the  *)
(* price, the second one less than the window later, after a first one; a *)
(* device that asks for alerts of the token and of all tokens of its user. *)
EXTENDS DVM
MCArrivals == {{"j1", "j2", "s"}, {"j1", "t2"}, {"t2", "t3"}}
MCJobID == [j1 |-> "a", j2 |-> "a"]
MCStopID == [s |-> "a"]
MCDeviceOf == [token |-> "phone", any |-> "phone"]
MCWindow == [token |-> 2, any |-> 1]
MCDelta == [token |-> 50, any |-> 40]
MCAt == [t1 |-> 1, t2 |-> 2, t3 |-> 3]
MCPrice == [t1 |-> 1, t2 |-> 2, t3 |-> 4]
=============================================================================
