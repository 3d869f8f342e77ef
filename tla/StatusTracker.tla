--------------------------- MODULE StatusTracker ---------------------------
(***************************************************************************)
(* database/query/status.go and tracing/statefsm: operations report their  *)
(* outcome through a bounded queue to one worker, which feeds the state    *)
(* machine that says whether writes (or reads: the same machine) fail.     *)
(***************************************************************************)
EXTENDS Integers, Sequences, FiniteSets

CONSTANTS Reporters,   \* operations that end at the same time
          QueueCap,    \* capacity of In (100)
          Threshold,   \* consecutiveOperationThreshold
          Window,      \* consecutiveWindow
          MaxTime,     \* bound on the clock
          MaxOps       \* bound on the reports

ASSUME StatusAssumption ==
    Threshold \in Nat \ {0} /\ Window \in Nat /\ QueueCap \in Nat /\ MaxTime \in Nat

VARIABLES now,
          report,      \* the report of each operation, stamped, not yet sent
          queue,       \* In
          fsm,         \* writeFSM
          seen,        \* what the worker was given, for the properties only
          ops          \* number of reports

statusVars == <<now, report, queue, fsm, seen, ops>>

NoReport == << >>

StatusInit ==
    /\ now = 0
    /\ report = [r \in Reporters |-> NoReport]
    /\ queue = << >>
    /\ fsm = [bad |-> FALSE, errs |-> 0, oks |-> 0, start |-> 0]
    /\ seen = << >>
    /\ ops = 0

Tick == now < MaxTime /\ now' = now + 1 /\ UNCHANGED <<report, queue, fsm, seen, ops>>

\* submitOp stamps the report before it sends it.
Submit(r, err) ==
    /\ report[r] = NoReport
    /\ ops < MaxOps
    /\ ops' = ops + 1
    /\ report' = [report EXCEPT ![r] = <<[err |-> err, at |-> now]>>]
    /\ UNCHANGED <<now, queue, fsm, seen>>

\* The send, which a full queue drops.
Enqueue(r) ==
    /\ report[r] # NoReport
    /\ queue' = IF Len(queue) < QueueCap THEN queue \o report[r] ELSE queue
    /\ report' = [report EXCEPT ![r] = NoReport]
    /\ UNCHANGED <<now, fsm, seen, ops>>

\* Mutant: the window is never looked at.
FailedAnyTime(f, at) ==
    [bad |-> f.bad \/ f.errs + 1 >= Threshold, errs |-> f.errs + 1, oks |-> 0, start |-> at]

\* The failing half of FSM.Push.  Outside the window the count starts again,
\* unless the machine is in error already.
Failed(f, at) ==
    LET late == f.errs > 0 /\ at - f.start > Window
        errs == IF late /\ ~f.bad THEN 1 ELSE f.errs + 1
    IN  [bad |-> f.bad \/ errs >= Threshold,
         errs |-> errs,
         oks |-> 0,
         start |-> IF late \/ f.errs = 0 THEN at ELSE f.start]

\* The other half: a success while healthy leaves the errors counted.
Succeeded(f) ==
    IF f.bad /\ f.oks + 1 >= Threshold
    THEN [bad |-> FALSE, errs |-> 0, oks |-> f.oks + 1, start |-> 0]
    ELSE [f EXCEPT !.oks = @ + 1]

FsmPush(f, op) == IF op.err THEN Failed(f, op.at) ELSE Succeeded(f)

Worker ==
    /\ queue # << >>
    /\ fsm' = FsmPush(fsm, Head(queue))
    /\ seen' = Append(seen, Head(queue))
    /\ queue' = Tail(queue)
    /\ UNCHANGED <<now, report, ops>>

StatusNext ==
    \/ Tick
    \/ \E r \in Reporters : (\E err \in BOOLEAN : Submit(r, err)) \/ Enqueue(r)
    \/ Worker

-----------------------------------------------------------------------------
(* Properties.                                                              *)

Failures(a, b) == {i \in a .. b : seen[i].err}

\* Threshold successes in a row among the operations a to b.
Recovered(a, b) ==
    \E i \in a .. b + 1 - Threshold : \A k \in i .. i + Threshold - 1 : ~seen[k].err

\* The status follows the operations: while it says that they fail, Threshold
\* of them failed within one window and Threshold in a row have not succeeded
\* since; and when the last 2 * Threshold - 1 operations failed within a window
\* it does say so, although the window of the machine does not slide.  The failures
\* need not be consecutive: a success while healthy leaves errCounter as it is.
StatusFollowsOperations ==
    LET n == Len(seen)
        burst == n - 2 * Threshold + 2 .. n
    IN  /\ fsm.bad =>
             \E a, b \in 1 .. n : /\ seen[a].err
                                  /\ Cardinality(Failures(a, b)) >= Threshold
                                  /\ \A k \in Failures(a, b) : seen[k].at - seen[a].at <= Window
                                  /\ ~Recovered(b + 1, n)
        /\ (/\ n >= 2 * Threshold - 1
            /\ \A i \in burst : seen[i].err
            /\ \A i, k \in burst : seen[k].at - seen[i].at <= Window) => fsm.bad
=============================================================================
