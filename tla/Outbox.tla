------------------------------ MODULE Outbox -------------------------------
(* What the job queue promises to those who push: a push that is answered   *)
(* without an error has all its jobs stored, each job is stored at most     *)
(* once however often it is pushed or retried, and a push that is cancelled *)
(* may or may not have stored them.                                         *)
EXTENDS Naturals

CONSTANTS Pushers, Jobs

VARIABLES want,      \* the jobs of the push under way
          result,    \* how the last push of each pusher ended
          rows       \* how many rows the table has of each job

outVars == <<want, result, rows>>

OutboxInit ==
    /\ want = [c \in Pushers |-> {}]
    /\ result = [c \in Pushers |-> "none"]
    /\ rows = [j \in Jobs |-> 0]

Ask(c, js) ==
    /\ want[c] = {}
    /\ want' = [want EXCEPT ![c] = js]
    /\ UNCHANGED <<result, rows>>

Store(c) ==
    /\ \E j \in want[c] : rows[j] = 0
    /\ rows' = [j \in Jobs |-> IF j \in want[c] THEN 1 ELSE rows[j]]
    /\ UNCHANGED <<want, result>>

Answer(c) ==
    /\ want[c] # {}
    /\ \A j \in want[c] : rows[j] = 1
    /\ want' = [want EXCEPT ![c] = {}]
    /\ result' = [result EXCEPT ![c] = "ok"]
    /\ UNCHANGED rows

Cancel(c) ==
    /\ want[c] # {}
    /\ want' = [want EXCEPT ![c] = {}]
    /\ result' = [result EXCEPT ![c] = "cancelled"]
    /\ UNCHANGED rows

OutboxNext ==
    \E c \in Pushers :
        \/ \E js \in (SUBSET Jobs) \ {{}} : Ask(c, js)
        \/ Store(c) \/ Answer(c) \/ Cancel(c)

OutboxSpec == OutboxInit /\ [][OutboxNext]_outVars
=============================================================================
