-------------------------------- MODULE DVM ---------------------------------
(***************************************************************************)
(* The data vending machine (dvm/).  A job request runs in a goroutine of  *)
(* its own and is answered with a result or with feedback; a deletion      *)
(* stops it.  A trade of a community token is compared with the stored     *)
(* price requests, and a job of the queue alerts the devices whose price   *)
(* moved enough (database/query/query_pn_price.go).  Every answer goes     *)
(* through SubmitResult: into a cache with a time to live, under the user  *)
(* it is for, and to the listener.  One user and one token are modelled.   *)
(***************************************************************************)
EXTENDS Integers, Sequences, FiniteSets

CONSTANTS
    Runs,       \* job requests that are accepted
    JobID,      \* the event ID of each; a client may send one twice
    Unknown,    \* those of a kind no job supports
    Stops,      \* deletions of jobs
    StopID,     \* the job ID each one names
    Subscribers,\* price requests, the rows of pn_price_changes
    DeviceOf,   \* user_device_pubkey of each
    Generic,    \* those that name no token: any of the user's tokens
    Window,     \* cfg_time_window of each
    Delta,      \* cfg_delta_percentage of each, negative to wait for a fall
    Trades,     \* trades of the token
    At,         \* created_at of each
    Price,      \* price in USD of each
    History,    \* those that were stored and handled before
    Arrivals,   \* bound: the sets of requests, deletions and trades that arrive
    MaxExpired, \* bound: how often the cache entry of the user expires
    MaxRepeats, \* bound: trades handled once more, interrupted alert jobs,
                \* and registrations of a row that exists, taken together
    None

IDs == {JobID[r] : r \in Runs} \cup {StopID[s] : s \in Stops}
NewTrades == Trades \ History
Procs == Runs \cup Stops \cup NewTrades
Devices == {DeviceOf[p] : p \in Subscribers}
Never == 0

ASSUME DVMAssumption ==
    /\ Arrivals \subseteq SUBSET Procs
    /\ Unknown \subseteq Runs /\ MaxExpired \in Nat /\ MaxRepeats \in Nat
    /\ History \subseteq Trades /\ None \notin Runs \cup Trades
    /\ Runs \cap Stops = {} /\ Runs \cap Trades = {} /\ Stops \cap Trades = {}
    /\ \A p \in Subscribers : Window[p] \in Nat \ {0} /\ Delta[p] \in -100..100 \ {0}
    /\ \A p, q \in Subscribers : \* UNIQUE (tc_definition_address, user_device_pubkey)
          DeviceOf[p] = DeviceOf[q] /\ (p \in Generic <=> q \in Generic) => p = q
    /\ \A t \in Trades : At[t] \in Nat \ {0} /\ Price[t] \in Nat \ {0}

VARIABLES
    arrive,     \* the requests, deletions and trades of this behaviour
    Jobs,       \* the running job of each ID
    proc,       \* the goroutines: pc, the job a stop found, the devices of
                \* an alert job and the rows still to be answered
    canceled,   \* jobs whose context is canceled
    answers,    \* what each job was answered with
    entry,      \* ResponseCache: the map the user's entry points to, 0 for none
    maps,       \* the maps: responses in each
    kept,       \* history: responses submitted since the entry expired last
    displaced,  \* history: those in a map that an older one was put in place of
    trades,     \* stored trades
    rows,       \* pn_price_changes: last notification and last trade of each row
    alerts,     \* alerts decided on for each row since it was registered
    expired,    \* how often the entry expired
    repeats     \* repetitions so far

jobVars == <<Jobs, canceled, answers>>
cacheVars == <<entry, maps, kept, displaced, expired>>
priceVars == <<trades, rows, alerts, repeats>>
vars == <<arrive, jobVars, proc, cacheVars, priceVars>>

Idle == [pc |-> "new", of |-> None, todo |-> {}, devs |-> {}, map |-> 0]
Over == [Idle EXCEPT !.pc = "over"]
Absent == [on |-> FALSE, notified |-> Never, trade |-> None, at |-> Never]

Init ==
    /\ arrive \in Arrivals
    /\ Jobs = [id \in IDs |-> None] /\ canceled = {} /\ answers = [r \in Runs |-> {}]
    /\ proc = [x \in Procs |-> Idle]
    /\ entry = 0 /\ maps = [n \in 1..MaxExpired + 1 |-> {}] /\ kept = {} /\ displaced = {} /\ expired = 0
    /\ trades = History /\ rows = [p \in Subscribers |-> Absent]
    /\ alerts = [p \in Subscribers |-> <<>>] /\ repeats = 0

Go(x, f) == proc' = [proc EXCEPT ![x] = f] /\ UNCHANGED arrive

-----------------------------------------------------------------------------
(* Jobs.  AcceptEvents stores the task and starts its goroutine.           *)
Request(r) ==
    /\ r \in arrive /\ proc[r].pc = "new"
    /\ Jobs' = [Jobs EXCEPT ![JobID[r]] = r]
    /\ Go(r, [Idle EXCEPT !.pc = IF r \in Unknown THEN "cleanup" ELSE "process"])
    /\ UNCHANGED <<canceled, answers, cacheVars, priceVars>>

(* mutated: a job that fails, or whose time is up, ends like a canceled    *)
(* one.                                                                    *)
ProcessDropsLate(r, outcome) ==
    /\ proc[r].pc = "process"
    /\ Go(r, [Idle EXCEPT !.of = outcome, !.pc = IF r \in canceled \/ outcome = "error" THEN "cleanup" ELSE "get"])
    /\ UNCHANGED <<jobVars, cacheVars, priceVars>>

(* The count of the filters' events, here or on the relays of the request, *)
(* with a group or without: it has a result unless parsing, the query or   *)
(* every relay fails, or the time of the job is up.                        *)
doCount == {"result", "error"}

(* execute: the count of local or remote events ends, with an error or     *)
(* because the time of the job is up; only a canceled job stays silent.    *)
Process(r, outcome) ==
    /\ proc[r].pc = "process"
    /\ Go(r, [Idle EXCEPT !.of = outcome, !.pc = IF r \in canceled THEN "cleanup" ELSE "get"])
    /\ UNCHANGED <<jobVars, cacheVars, priceVars>>

(* mutated: only a job with a result removes its entry.                    *)
CleanupFailedStays(r) ==
    /\ proc[r].pc = "cleanup"
    /\ Jobs' = [Jobs EXCEPT ![JobID[r]] = IF "result" \in answers[r] THEN None ELSE @]
    /\ Go(r, Over)
    /\ UNCHANGED <<canceled, answers, cacheVars, priceVars>>

(* The deferred Delete removes whatever the ID has.                        *)
Cleanup(r) ==
    /\ proc[r].pc = "cleanup"
    /\ Jobs' = [Jobs EXCEPT ![JobID[r]] = None]
    /\ Go(r, Over)
    /\ UNCHANGED <<canceled, answers, cacheVars, priceVars>>

(* stopEvent: LoadAndDelete, Cancel, then feedback.                        *)
stopEvent(s) ==
    /\ s \in arrive /\ proc[s].pc = "new"
    /\ LET r == Jobs[StopID[s]] IN
       /\ Jobs' = [Jobs EXCEPT ![StopID[s]] = None]
       /\ canceled' = IF r = None THEN canceled ELSE canceled \cup {r}
       /\ Go(s, IF r = None THEN Over ELSE [Idle EXCEPT !.pc = "get", !.of = r])
    /\ UNCHANGED <<answers, cacheVars, priceVars>>

-----------------------------------------------------------------------------
(* SubmitResult.  acceptDVMResponseEvent gets the user's map or makes one, *)
(* stores the response in it and sets the entry to that map again, which   *)
(* renews its time to live.  Then the listener is called.                  *)
Response(x) == [by |-> x, to |-> IF x \in NewTrades THEN CHOOSE p \in proc[x].todo : TRUE ELSE None]

(* mutated: a new map every time.                                          *)
GetOrSetNew(x) ==
    /\ proc[x].pc = "get" /\ \E n \in DOMAIN maps : maps[n] = {} /\ n # entry
    /\ entry' = CHOOSE n \in DOMAIN maps : maps[n] = {} /\ n # entry
    /\ Go(x, [proc[x] EXCEPT !.map = entry', !.pc = "put"])
    /\ UNCHANGED <<jobVars, maps, kept, displaced, expired, priceVars>>

GetOrSet(x) ==
    /\ proc[x].pc = "get"
    /\ entry' = IF entry = 0 THEN expired + 1 ELSE entry
    /\ Go(x, [proc[x] EXCEPT !.map = entry', !.pc = "put"])
    /\ UNCHANGED <<jobVars, maps, kept, displaced, expired, priceVars>>

(* Where the entry expired after GetOrSet this puts the old map in place   *)
(* of the one that other submissions made since, and theirs are gone.      *)
StoreResponse(x) ==
    /\ proc[x].pc = "put"
    /\ maps' = [maps EXCEPT ![proc[x].map] = @ \cup {Response(x)}]
    /\ entry' = proc[x].map
    /\ kept' = kept \cup {Response(x)}
    /\ displaced' = IF entry \in {0, proc[x].map} THEN displaced ELSE displaced \cup kept
    /\ Go(x, [proc[x] EXCEPT !.pc = "listen", !.map = 0])
    /\ UNCHANGED <<jobVars, expired, priceVars>>

(* EventListener, which broadcasts to the subscriptions and to devices.    *)
Listen(x) ==
    /\ proc[x].pc = "listen"
    /\ \/ /\ x \in Runs
          /\ answers' = [answers EXCEPT ![x] = @ \cup {proc[x].of}]
          /\ Go(x, [Idle EXCEPT !.pc = "cleanup"])
       \/ /\ x \in Stops
          /\ answers' = [answers EXCEPT ![proc[x].of] = @ \cup {"stopped"}]
          /\ Go(x, Over)
       \/ /\ x \in NewTrades
          /\ LET rest == proc[x].todo \ {Response(x).to} IN
             Go(x, IF rest = {} THEN Over ELSE [proc[x] EXCEPT !.todo = rest, !.pc = "get"])
          /\ UNCHANGED answers
    /\ UNCHANGED <<Jobs, canceled, cacheVars, priceVars>>

Expire ==
    /\ entry # 0 /\ expired < MaxExpired
    /\ entry' = 0 /\ kept' = {} /\ displaced' = {} /\ expired' = expired + 1
    /\ UNCHANGED <<arrive, jobVars, proc, maps, priceVars>>

-----------------------------------------------------------------------------
(* Price alerts.  The price of a trade is compared with the latest of the  *)
(* other stored trades.                                                    *)
Others(t) == {u \in trades \ {t} : \A v \in trades \ {t} : At[v] <= At[u]}
Change(t, u) == (Price[t] - Price[u]) * 100
Moved(t, p) == \E u \in Others(t) : IF Delta[p] > 0 THEN Change(t, u) >= Delta[p] * Price[u]
                                    ELSE Change(t, u) <= Delta[p] * Price[u]
MovedEitherWay(t, p) == \E u \in Others(t) : LET size == IF Delta[p] > 0 THEN Delta[p] ELSE -Delta[p] IN
                           Change(t, u) >= size * Price[u] \/ -Change(t, u) >= size * Price[u]

(* mutated: the window since the last alert is not looked at.              *)
DueAnyTime(t, p) == rows[p].on /\ rows[p].trade # t /\ At[t] >= rows[p].at

(* The trade is not the last one seen nor older than that, and the window  *)
(* since the last alert is over.  A generic row is one of the token's      *)
(* owner.                                                                  *)
Due(t, p) ==
    /\ rows[p].on /\ rows[p].trade # t /\ At[t] >= rows[p].at
    /\ rows[p].notified = Never \/ At[t] >= rows[p].notified + Window[p]

(* RegisterPriceChangeSubscriber: registering again forgets the last alert *)
(* and, for a token, takes its latest stored trade as the last one seen.   *)
Register(p) ==
    /\ repeats' = IF rows[p].on THEN repeats + 1 ELSE repeats
    /\ repeats' <= MaxRepeats
    /\ \E u \in IF p \in Generic \/ trades = {} THEN {None}
               ELSE {v \in trades : \A w \in trades : At[w] <= At[v]} :
          rows' = [rows EXCEPT ![p] = [on |-> TRUE, notified |-> Never, trade |-> u,
                                       at |-> IF u = None THEN Never ELSE At[u]]]
    /\ alerts' = [alerts EXCEPT ![p] = <<>>]
    /\ UNCHANGED <<arrive, jobVars, proc, cacheVars, trades>>

(* handleTokenizedCommunityActionEvent: the stored trade's candidates,     *)
(* which CollectPriceChangeSubscribersCandidates finds whichever way the   *)
(* price went, go into a job; the queue has one job for equal arguments.   *)
Trade(t) ==
    /\ t \in arrive /\ proc[t].pc \in {"new", "over"}
    /\ repeats' = IF proc[t].pc = "new" THEN repeats ELSE repeats + 1
    /\ repeats' <= MaxRepeats
    /\ trades' = trades \cup {t}
    /\ \E candidates \in {{DeviceOf[p] : p \in {q \in Subscribers : Due(t, q) /\ MovedEitherWay(t, q)}}} :
          Go(t, IF candidates = {} THEN Over ELSE [Idle EXCEPT !.pc = "queued", !.devs = candidates])
    /\ UNCHANGED <<jobVars, cacheVars, rows, alerts>>

(* FetchAndUpdatePriceChangeNotification: one statement finds the rows of  *)
(* the devices that are due and marks them; then each row is answered.     *)
Fetch(t) ==
    /\ proc[t].pc = "queued"
    /\ LET found == {p \in Subscribers : DeviceOf[p] \in proc[t].devs /\ Due(t, p) /\ Moved(t, p)} IN
       /\ rows' = [p \in Subscribers |->
                     IF p \in found THEN [on |-> TRUE, notified |-> At[t], trade |-> t, at |-> At[t]] ELSE rows[p]]
       /\ alerts' = [p \in Subscribers |-> IF p \in found THEN Append(alerts[p], t) ELSE alerts[p]]
       /\ Go(t, IF found = {} THEN Over ELSE [proc[t] EXCEPT !.pc = "get", !.todo = found])
    /\ UNCHANGED <<jobVars, cacheVars, trades, repeats>>

(* The process dies between two answers and the queue runs the job again,  *)
(* for the same devices.                                                   *)
Interrupt(t) ==
    /\ proc[t].pc \in {"get", "listen"}
    /\ repeats < MaxRepeats /\ repeats' = repeats + 1
    /\ Go(t, [Idle EXCEPT !.pc = "queued", !.devs = proc[t].devs])
    /\ UNCHANGED <<jobVars, cacheVars, trades, rows, alerts>>

-----------------------------------------------------------------------------
Run(r) == (\E outcome \in doCount : Process(r, outcome)) \/ Cleanup(r)
SubmitResult(x) == GetOrSet(x) \/ StoreResponse(x) \/ Listen(x)

Next ==
    \/ \E r \in Runs : Request(r) \/ Run(r)
    \/ \E s \in Stops : stopEvent(s)
    \/ \E x \in Procs : SubmitResult(x)
    \/ Expire
    \/ \E p \in Subscribers : Register(p)
    \/ \E t \in NewTrades : Trade(t) \/ Fetch(t) \/ Interrupt(t)

(* Goroutines go on, a job ends at its deadline of a minute at the latest, *)
(* and the queue runs its jobs.                                            *)
Fairness ==
    /\ \A r \in Runs : WF_vars(Run(r))
    /\ \A x \in Procs : WF_vars(SubmitResult(x))
    /\ \A t \in NewTrades : WF_vars(Fetch(t))

Spec == Init /\ [][Next]_vars /\ Fairness

-----------------------------------------------------------------------------
TypeOK ==
    /\ Jobs \in [IDs -> Runs \cup {None}] /\ canceled \subseteq Runs
    /\ answers \in [Runs -> SUBSET {"result", "error", "stopped"}]
    /\ DOMAIN proc = Procs
    /\ \A x \in Procs : proc[x].pc = "put" => proc[x].map \in DOMAIN maps
    /\ entry \in 0..MaxExpired + 1 /\ trades \subseteq Trades
    /\ \A p \in Subscribers : rows[p].notified # Never => rows[p].trade \in trades

(* The map of jobs does not leak: an entry is always of a job that still   *)
(* runs, whatever IDs were sent twice and stopped meanwhile, so that a     *)
(* stop never tells a client that a finished job was stopped.              *)
EntriesRun ==
    /\ TypeOK
    /\ \A id \in IDs : Jobs[id] # None => proc[Jobs[id]].pc # "over"

(* A response that was submitted is found in the cache until the entry of  *)
(* its user expires, whichever other responses are submitted beside it -   *)
(* unless a submission that had fetched its map before the entry expired   *)
(* put that map in place of the new one (acceptDVMResponseEvent).          *)
ResponsesFound == kept \ displaced # {} => entry # 0 /\ kept \ displaced \subseteq maps[entry]

(* The alerts of a price request are at least its window apart, and none   *)
(* is for a trade it was already alerted of: also when a trade is handled  *)
(* twice, when trades are handled out of order, and when the job of a      *)
(* trade is run again after it was interrupted.  A device with a request   *)
(* for the token and one for all tokens of a user has alerts of both.      *)
AlertsSpaced ==
    \A p \in Subscribers : \A i, j \in 1..Len(alerts[p]) :
       i # j => At[alerts[p][i]] >= At[alerts[p][j]] + Window[p] \/ At[alerts[p][j]] >= At[alerts[p][i]] + Window[p]

(* Every job of a supported kind is answered: with its result, with an     *)
(* error, also when its time is up, or by the deletion that stopped it.    *)
JobsAnswered == \A r \in Runs \ Unknown : (proc[r].pc = "process") ~> (answers[r] # {})
=============================================================================
