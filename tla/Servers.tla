------------------------------ MODULE Servers ------------------------------
(* The database servers behind the write URLs, as the code meets them: each *)
(* one answers or does not (external).                                      *)
EXTENDS Integers, FiniteSets

CONSTANT NMasters       \* number of write URLs

VARIABLES up,           \* the masters that answer
          crashes       \* how often one crashed

serverVars == <<up, crashes>>

Masters == 0 .. NMasters - 1

ASSUME NMastersAssumption == NMasters \in Nat \ {0}

ServersInit == up \in (SUBSET Masters) \ {{}} /\ crashes = 0

\* One master is left: the code is about failing over, not about an outage.
Crash(m) ==
    /\ m \in up
    /\ up # {m}
    /\ up' = up \ {m}
    /\ crashes' = crashes + 1

Recover(m) == m \in Masters \ up /\ up' = up \cup {m} /\ UNCHANGED crashes

ServersNext == \E m \in Masters : Crash(m) \/ Recover(m)
=============================================================================
