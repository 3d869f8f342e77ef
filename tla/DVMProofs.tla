----------------------------- MODULE DVMProofs ------------------------------
(***************************************************************************)
(* Proofs about the data vending machine, for any requests, deletions,     *)
(* subscribers and trades and any bounds: its map of jobs does not leak,   *)
(* its cache keeps what was submitted, and its alerts are spaced.          *)
(***************************************************************************)
EXTENDS DVM, TLAPS

PCs == {"new", "process", "cleanup", "get", "put", "listen", "queued", "over"}
Outcomes == {"result", "error"}
Answering == {"get", "put", "listen"}
Goroutines == [pc : PCs, of : Runs \cup Outcomes \cup {None}, todo : SUBSET Subscribers,
               devs : SUBSET Devices, map : 0..MaxExpired + 1]
Rows == [on : BOOLEAN, notified : Nat, trade : Trades \cup {None}, at : Nat]

\* A stop answers for the job it found, a job with its outcome, and the alert
\* job of a trade has a stored trade.
ProcInv ==
    /\ proc \in [Procs -> Goroutines]
    /\ \A s \in Stops : proc[s].pc \in Answering => proc[s].of \in Runs
    /\ \A r \in Runs : proc[r].pc \in Answering => proc[r].of \in Outcomes
    /\ \A t \in NewTrades : proc[t].pc \in Answering \cup {"queued"} => t \in trades
    /\ \A x \in Procs : proc[x].pc = "put" => proc[x].map # 0

\* An entry of the map of jobs is of a job with that ID that has begun and is
\* not over.
JobInv ==
    /\ Jobs \in [IDs -> Runs \cup {None}] /\ canceled \subseteq Runs
    /\ answers \in [Runs -> SUBSET {"result", "error", "stopped"}]
    /\ \A id \in IDs : Jobs[id] # None =>
          JobID[Jobs[id]] = id /\ proc[Jobs[id]].pc \in {"process", "cleanup"} \cup Answering

CacheInv ==
    /\ entry \in 0..MaxExpired + 1 /\ expired \in 0..MaxExpired
    /\ DOMAIN maps = 1..MaxExpired + 1
    /\ ResponsesFound

\* The last alert of a row is the latest, and the row has its time.
SubscriberInv(d) ==
    /\ rows[d].notified # Never => rows[d].trade \in trades
    /\ alerts[d] \in Seq(Trades)
    /\ alerts[d] # << >> => rows[d].notified # Never
    /\ \A i \in 1..Len(alerts[d]) : At[alerts[d][i]] <= rows[d].notified
    /\ \A i, j \in 1..Len(alerts[d]) : i < j => At[alerts[d][j]] >= At[alerts[d][i]] + Window[d]

PriceInv ==
    /\ trades \subseteq Trades
    /\ rows \in [Subscribers -> Rows]
    /\ DOMAIN alerts = Subscribers
    /\ \A d \in Subscribers : SubscriberInv(d)

Inv == ProcInv /\ JobInv /\ CacheInv /\ PriceInv

-----------------------------------------------------------------------------
\* A step of one goroutine that stays within what it may do keeps ProcInv.
LEMMA GoKeeps ==
    ASSUME ProcInv, NEW x \in Procs, NEW f \in Goroutines, Go(x, f), trades \subseteq trades',
           x \in Stops /\ f.pc \in Answering => f.of \in Runs,
           x \in Runs /\ f.pc \in Answering => f.of \in Outcomes,
           x \in NewTrades /\ f.pc \in Answering \cup {"queued"} => x \in trades',
           f.pc = "put" => f.map # 0
    PROVE  /\ ProcInv'
           /\ proc'[x] = f
           /\ \A y \in Procs : y # x => proc'[y] = proc[y]
<1>1. /\ proc' \in [Procs -> Goroutines] /\ proc'[x] = f
      /\ \A y \in Procs : y # x => proc'[y] = proc[y]
  BY DEF Go, ProcInv
<1>2. Stops \subseteq Procs /\ Runs \subseteq Procs /\ NewTrades \subseteq Procs
  BY DEF Procs
<1> QED BY <1>1, <1>2 DEF ProcInv

\* A step of a goroutine keeps the entries of the map of jobs, unless it ends
\* a job.
LEMMA JobsKept ==
    ASSUME JobInv, NEW x \in Procs, NEW f, proc'[x] = f,
           \A y \in Procs : y # x => proc'[y] = proc[y],
           x \in Runs => f.pc \in {"process", "cleanup"} \cup Answering,
           UNCHANGED <<Jobs, canceled>>,
           answers' \in [Runs -> SUBSET {"result", "error", "stopped"}]
    PROVE  JobInv'
<1>1. Runs \subseteq Procs
  BY DEF Procs
<1>2. ASSUME NEW id \in IDs, Jobs[id] # None
      PROVE  JobID[Jobs[id]] = id /\ proc'[Jobs[id]].pc \in {"process", "cleanup"} \cup Answering
  <2>1. Jobs[id] \in Runs /\ Jobs[id] \in Procs
    BY <1>1, <1>2 DEF JobInv
  <2> QED BY <1>2, <2>1 DEF JobInv
<1> QED BY <1>2 DEF JobInv

\* Requests, deletions and trades are told apart (DVM!DVMAssumption).
LEMMA Apart ==
    /\ \A r \in Runs : r \in Procs /\ r \notin Stops /\ r \notin NewTrades /\ JobID[r] \in IDs
    /\ \A s \in Stops : s \in Procs /\ s \notin Runs /\ s \notin NewTrades /\ StopID[s] \in IDs
    /\ \A t \in NewTrades : t \in Procs /\ t \notin Runs /\ t \notin Stops /\ t \in Trades
BY DVMAssumption DEF Procs, NewTrades, IDs

\* A goroutine that has a job, an outcome or devices to look at is one of Goroutines.
LEMMA Records ==
    ASSUME NEW pc \in PCs, NEW o \in Runs \cup Outcomes, NEW D \in SUBSET Devices
    PROVE  /\ [Idle EXCEPT !.pc = pc] \in Goroutines /\ [Idle EXCEPT !.pc = pc].pc = pc
           /\ [Idle EXCEPT !.of = o, !.pc = pc] \in Goroutines
           /\ [Idle EXCEPT !.of = o, !.pc = pc].pc = pc /\ [Idle EXCEPT !.of = o, !.pc = pc].of = o
           /\ [Idle EXCEPT !.pc = pc, !.devs = D] \in Goroutines
           /\ [Idle EXCEPT !.pc = pc, !.devs = D].pc = pc
<1>1. 0 \in 0..MaxExpired + 1
  BY DVMAssumption
<1>2. [Idle EXCEPT !.pc = pc] = [pc |-> pc, of |-> None, todo |-> {}, devs |-> {}, map |-> 0]
  BY DEF Idle
<1>3. [Idle EXCEPT !.of = o, !.pc = pc] = [pc |-> pc, of |-> o, todo |-> {}, devs |-> {}, map |-> 0]
  <2>1. PICK g : g = [pc |-> "new", of |-> o, todo |-> {}, devs |-> {}, map |-> 0]
    OBVIOUS
  <2>2. [g EXCEPT !.pc = pc] = [pc |-> pc, of |-> o, todo |-> {}, devs |-> {}, map |-> 0]
    BY <2>1
  <2>3. [Idle EXCEPT !.of = o] = g
    BY <2>1 DEF Idle
  <2>4. [Idle EXCEPT !.of = o, !.pc = pc] = [[Idle EXCEPT !.of = o] EXCEPT !.pc = pc]
    OBVIOUS
  <2> QED BY <2>2, <2>3, <2>4
<1>4. [Idle EXCEPT !.pc = pc, !.devs = D] = [pc |-> pc, of |-> None, todo |-> {}, devs |-> D, map |-> 0]
  <2>1. PICK g : g = [pc |-> pc, of |-> None, todo |-> {}, devs |-> {}, map |-> 0]
    OBVIOUS
  <2>2. [g EXCEPT !.devs = D] = [pc |-> pc, of |-> None, todo |-> {}, devs |-> D, map |-> 0]
    BY <2>1
  <2>3. [Idle EXCEPT !.pc = pc] = g
    BY <2>1 DEF Idle
  <2>4. [Idle EXCEPT !.pc = pc, !.devs = D] = [[Idle EXCEPT !.pc = pc] EXCEPT !.devs = D]
    OBVIOUS
  <2> QED BY <2>2, <2>3, <2>4
<1>5. [Idle EXCEPT !.pc = pc] \in Goroutines /\ [Idle EXCEPT !.pc = pc].pc = pc
  BY <1>1, <1>2 DEF Goroutines
<1>6. /\ [Idle EXCEPT !.of = o, !.pc = pc] \in Goroutines
      /\ [Idle EXCEPT !.of = o, !.pc = pc].pc = pc /\ [Idle EXCEPT !.of = o, !.pc = pc].of = o
  BY <1>1, <1>3 DEF Goroutines
<1>7. [Idle EXCEPT !.pc = pc, !.devs = D] \in Goroutines /\ [Idle EXCEPT !.pc = pc, !.devs = D].pc = pc
  BY <1>1, <1>4 DEF Goroutines
<1> QED BY <1>5, <1>6, <1>7

\* So is one that has not begun, or is over.
LEMMA Ends == Idle \in Goroutines /\ Over \in Goroutines /\ Over.pc = "over" /\ Absent \in Rows
<1>1. 0 \in 0..MaxExpired + 1
  BY DVMAssumption
<1>2. Over = [pc |-> "over", of |-> None, todo |-> {}, devs |-> {}, map |-> 0]
  BY DEF Over, Idle
<1>3. Over \in Goroutines /\ Over.pc = "over"
  BY <1>1, <1>2 DEF Goroutines, PCs
<1>4. Idle \in Goroutines
  BY <1>1 DEF Idle, Goroutines, PCs
<1>5. Absent \in Rows
  BY DEF Absent, Rows, Never
<1> QED BY <1>3, <1>4, <1>5

LEMMA Start == Init => Inv
<1> SUFFICES ASSUME Init PROVE Inv
  OBVIOUS
<1>1. ProcInv
  BY Ends, Apart DEF Init, ProcInv, Idle, Answering
<1>2. JobInv
  BY DEF Init, JobInv
<1>3. CacheInv
  BY DVMAssumption DEF Init, CacheInv, ResponsesFound
<1>4. \A d \in Subscribers : SubscriberInv(d)
  BY DEF Init, SubscriberInv, Absent
<1>5. PriceInv
  BY <1>4, Ends, DVMAssumption DEF Init, PriceInv
<1> QED BY <1>1, <1>2, <1>3, <1>5 DEF Inv

-----------------------------------------------------------------------------
\* What neither stores a trade nor alerts keeps the price alerts as they are,
\* and what does not touch the cache keeps the cache.
LEMMA Frames ==
    /\ PriceInv /\ UNCHANGED <<trades, rows, alerts>> => PriceInv'
    /\ CacheInv /\ UNCHANGED cacheVars => CacheInv'
    /\ JobInv /\ UNCHANGED <<jobVars, proc>> => JobInv'
    /\ ProcInv /\ UNCHANGED <<proc, trades>> => ProcInv'
<1>1. PriceInv /\ UNCHANGED <<trades, rows, alerts>> => PriceInv'
  BY DEF PriceInv, SubscriberInv
<1>2. CacheInv /\ UNCHANGED cacheVars => CacheInv'
  BY DEF CacheInv, cacheVars, ResponsesFound
<1>3. JobInv /\ UNCHANGED <<jobVars, proc>> => JobInv'
  BY DEF JobInv, jobVars
<1>4. ProcInv /\ UNCHANGED <<proc, trades>> => ProcInv'
  BY DEF ProcInv
<1> QED BY <1>1, <1>2, <1>3, <1>4

\* The steps of jobs and of the deletions that stop them.
LEMMA JobsStep ==
    ASSUME Inv, (\E r \in Runs : Request(r) \/ Run(r)) \/ \E s \in Stops : stopEvent(s)
    PROVE  Inv'
<1> USE DEF Inv
<1>1. ASSUME NEW r \in Runs, Request(r)
      PROVE  Inv'
  <2>1. PICK pc \in {"cleanup", "process"} : Go(r, [Idle EXCEPT !.pc = pc])
    BY <1>1 DEF Request
  <2>2. /\ Jobs' = [Jobs EXCEPT ![JobID[r]] = r]
        /\ UNCHANGED <<canceled, answers, cacheVars, trades, rows, alerts>>
    BY <1>1 DEF Request, priceVars
  <2>3. /\ ProcInv' /\ proc'[r].pc = pc
        /\ \A y \in Procs : y # r => proc'[y] = proc[y]
    <3>1. [Idle EXCEPT !.pc = pc] \in Goroutines /\ [Idle EXCEPT !.pc = pc].pc = pc
      <4>1. pc \in PCs
        BY DEF PCs
      <4> QED BY <4>1, Records DEF Outcomes
    <3>2. trades \subseteq trades'
      BY <2>2
    <3> HIDE DEF Idle
    <3> QED BY <2>1, <3>1, <3>2, Apart, GoKeeps DEF Answering
  <2>4. JobInv'
    <3>1. Jobs' \in [IDs -> Runs \cup {None}] /\ Jobs'[JobID[r]] = r
          /\ \A id \in IDs : id # JobID[r] => Jobs'[id] = Jobs[id]
      BY <2>2, Apart DEF JobInv
    <3>2. ASSUME NEW id \in IDs, Jobs'[id] # None
          PROVE  JobID[Jobs'[id]] = id /\ proc'[Jobs'[id]].pc \in {"process", "cleanup"} \cup Answering
      <4>1. CASE Jobs'[id] = r
        BY <2>3, <3>1, <3>2, <4>1 DEF JobInv
      <4>2. CASE Jobs'[id] # r
        BY <2>3, <3>1, <3>2, <4>2, Apart DEF JobInv
      <4> QED BY <4>1, <4>2
    <3> QED BY <2>2, <3>1, <3>2 DEF JobInv
  <2> QED BY <2>2, <2>3, <2>4, Frames
<1>2. ASSUME NEW r \in Runs, NEW outcome \in doCount, Process(r, outcome)
      PROVE  Inv'
  <2>1. PICK pc \in {"cleanup", "get"} : Go(r, [Idle EXCEPT !.of = outcome, !.pc = pc])
    BY <1>2 DEF Process
  <2>2. UNCHANGED <<jobVars, cacheVars, trades, rows, alerts>>
    BY <1>2 DEF Process, priceVars
  <2> DEFINE f == [Idle EXCEPT !.of = outcome, !.pc = pc]
  <2>3. f \in Goroutines /\ f.pc = pc /\ f.of \in Outcomes
    <3>1. pc \in PCs /\ outcome \in Outcomes
      BY DEF PCs, doCount, Outcomes
    <3> QED BY <3>1, Records
  <2>4. Go(r, f)
    BY <2>1
  <2> HIDE DEF f
  <2>5. ProcInv' /\ proc'[r] = f /\ \A y \in Procs : y # r => proc'[y] = proc[y]
    BY <2>2, <2>3, <2>4, Apart, GoKeeps
  <2>6. JobInv'
    BY <2>2, <2>3, <2>5, Apart, JobsKept DEF JobInv, jobVars, Answering
  <2> QED BY <2>2, <2>5, <2>6, Frames
<1>3. ASSUME NEW r \in Runs, Cleanup(r)
      PROVE  Inv'
  <2>1. /\ Jobs' = [Jobs EXCEPT ![JobID[r]] = None] /\ Go(r, Over)
        /\ UNCHANGED <<canceled, answers, cacheVars, trades, rows, alerts>>
    BY <1>3 DEF Cleanup, priceVars
  <2>2. ProcInv' /\ \A y \in Procs : y # r => proc'[y] = proc[y]
    <3> HIDE DEF Over
    <3> QED BY <2>1, Ends, Apart, GoKeeps DEF Answering
  <2>3. JobInv'
    <3>1. Jobs' \in [IDs -> Runs \cup {None}] /\ Jobs'[JobID[r]] = None
          /\ \A id \in IDs : id # JobID[r] => Jobs'[id] = Jobs[id]
      BY <2>1, Apart DEF JobInv
    <3>2. ASSUME NEW id \in IDs, Jobs'[id] # None
          PROVE  JobID[Jobs'[id]] = id /\ proc'[Jobs'[id]].pc \in {"process", "cleanup"} \cup Answering
      <4>1. id # JobID[r] /\ Jobs'[id] = Jobs[id] /\ Jobs[id] \in Runs /\ JobID[Jobs[id]] = id
        BY <3>1, <3>2 DEF JobInv
      <4>2. Jobs[id] # r
        BY <4>1
      <4> QED BY <2>2, <3>2, <4>1, <4>2, Apart DEF JobInv
    <3> QED BY <2>1, <3>1, <3>2 DEF JobInv
  <2> QED BY <2>1, <2>2, <2>3, Frames
<1>4. ASSUME NEW s \in Stops, stopEvent(s)
      PROVE  Inv'
  <2> DEFINE r == Jobs[StopID[s]]
             f == IF r = None THEN Over ELSE [Idle EXCEPT !.pc = "get", !.of = r]
  <2>1. /\ Jobs' = [Jobs EXCEPT ![StopID[s]] = None] /\ Go(s, f)
        /\ canceled' = IF r = None THEN canceled ELSE canceled \cup {r}
        /\ UNCHANGED <<answers, cacheVars, trades, rows, alerts>>
    BY <1>4 DEF stopEvent, priceVars
  <2>2. r \in Runs \cup {None}
    BY Apart DEF JobInv
  <2>3. f \in Goroutines /\ (f.pc \in Answering => f.of \in Runs) /\ f.pc # "put"
    <3>1. CASE r = None
      BY <3>1, Ends DEF Answering
    <3>2. CASE r \in Runs
      <4>1. [Idle EXCEPT !.pc = "get", !.of = r] = [Idle EXCEPT !.of = r, !.pc = "get"]
        BY DEF Idle
      <4>2. r # None
        BY <3>2, DVMAssumption
      <4>3. "get" \in PCs /\ "get" # "put"
        BY DEF PCs
      <4>4. /\ [Idle EXCEPT !.of = r, !.pc = "get"] \in Goroutines
            /\ [Idle EXCEPT !.of = r, !.pc = "get"].pc = "get" /\ [Idle EXCEPT !.of = r, !.pc = "get"].of = r
        BY <3>2, <4>3, Records, ZenonT(60)
      <4>5. f = [Idle EXCEPT !.of = r, !.pc = "get"]
        BY <4>1, <4>2
      <4> QED BY <3>2, <4>3, <4>4, <4>5
    <3> QED BY <2>2, <3>1, <3>2
  <2> HIDE DEF f
  <2>4. ProcInv' /\ \A y \in Procs : y # s => proc'[y] = proc[y]
    BY <2>1, <2>3, Apart, GoKeeps
  <2>5. JobInv'
    <3>1. Jobs' \in [IDs -> Runs \cup {None}] /\ Jobs'[StopID[s]] = None
          /\ \A id \in IDs : id # StopID[s] => Jobs'[id] = Jobs[id]
      BY <2>1, Apart DEF JobInv
    <3>2. ASSUME NEW id \in IDs, Jobs'[id] # None
          PROVE  JobID[Jobs'[id]] = id /\ proc'[Jobs'[id]].pc \in {"process", "cleanup"} \cup Answering
      <4>1. Jobs'[id] = Jobs[id] /\ Jobs[id] \in Runs
        BY <3>1, <3>2 DEF JobInv
      <4>2. proc'[Jobs[id]] = proc[Jobs[id]]
        BY <2>4, <4>1, Apart
      <4> QED BY <3>2, <4>1, <4>2 DEF JobInv
    <3>3. canceled' \subseteq Runs
      BY <2>1, <2>2 DEF JobInv
    <3> QED BY <2>1, <3>1, <3>2, <3>3 DEF JobInv
  <2> QED BY <2>1, <2>4, <2>5, Frames
<1> QED BY <1>1, <1>2, <1>3, <1>4 DEF Run

-----------------------------------------------------------------------------
\* The steps of SubmitResult: the entry keeps the map it points to, or points
\* to the one the response was just stored in.
LEMMA SubmitStep ==
    ASSUME Inv, NEW x \in Procs, SubmitResult(x)
    PROVE  Inv'
<1> USE DEF Inv
<1>0. /\ proc[x] \in Goroutines /\ {"get", "put", "listen", "cleanup"} \subseteq PCs
      /\ "get" \in Answering /\ "put" \in Answering /\ "listen" \in Answering
  BY DEF ProcInv, PCs, Answering
<1>1. ASSUME GetOrSet(x)
      PROVE  Inv'
  <2>1. PICK m : m = entry'
    OBVIOUS
  <2> DEFINE f == [proc[x] EXCEPT !.map = m, !.pc = "put"]
  <2>2. /\ Go(x, f) /\ UNCHANGED <<jobVars, maps, kept, displaced, expired, trades, rows, alerts>>
        /\ proc[x].pc = "get" /\ m = IF entry = 0 THEN expired + 1 ELSE entry
    BY <1>1, <2>1 DEF GetOrSet, priceVars
  <2>3. m \in 0..MaxExpired + 1 /\ m # 0
    BY <2>2, DVMAssumption DEF CacheInv
  <2>4. f \in Goroutines /\ f.pc = "put" /\ f.of = proc[x].of /\ f.map = m
    BY <1>0, <2>3 DEF Goroutines
  <2> HIDE DEF f
  <2>5. ProcInv' /\ proc'[x] = f /\ \A y \in Procs : y # x => proc'[y] = proc[y]
    <3>1. /\ x \in Stops => f.of \in Runs
          /\ x \in Runs => f.of \in Outcomes
          /\ x \in NewTrades => x \in trades'
      BY <1>0, <2>2, <2>4 DEF ProcInv
    <3> QED BY <2>2, <2>3, <2>4, <3>1, GoKeeps
  <2>6. JobInv'
    BY <1>0, <2>2, <2>4, <2>5, JobsKept DEF JobInv, jobVars
  <2>7. CacheInv'
    BY <2>1, <2>2, <2>3 DEF CacheInv, ResponsesFound
  <2> QED BY <2>2, <2>5, <2>6, <2>7, Frames
<1>2. ASSUME StoreResponse(x)
      PROVE  Inv'
  <2>1. PICK resp : resp = Response(x)
    OBVIOUS
  <2>2. PICK m : m = proc[x].map
    OBVIOUS
  <2> DEFINE f == [proc[x] EXCEPT !.pc = "listen", !.map = 0]
  <2>3. /\ Go(x, f) /\ UNCHANGED <<jobVars, expired, trades, rows, alerts>>
        /\ proc[x].pc = "put" /\ maps' = [maps EXCEPT ![m] = @ \cup {resp}] /\ entry' = m
        /\ kept' = kept \cup {resp}
        /\ displaced' = IF entry \in {0, m} THEN displaced ELSE displaced \cup kept
    BY <1>2, <2>1, <2>2 DEF StoreResponse, priceVars
  <2>4. m \in 1..MaxExpired + 1
    <3>1. m \in 0..MaxExpired + 1
      BY <1>0, <2>2 DEF Goroutines
    <3>2. m # 0
      BY <2>2, <2>3 DEF ProcInv
    <3> QED BY <3>1, <3>2, DVMAssumption
  <2>5. f \in Goroutines /\ f.pc = "listen" /\ f.of = proc[x].of
    <3>1. 0 \in 0..MaxExpired + 1
      BY DVMAssumption
    <3> QED BY <1>0, <3>1 DEF Goroutines
  <2> HIDE DEF f
  <2>6. ProcInv' /\ proc'[x] = f /\ \A y \in Procs : y # x => proc'[y] = proc[y]
    <3>1. /\ x \in Stops => f.of \in Runs
          /\ x \in Runs => f.of \in Outcomes
          /\ x \in NewTrades => x \in trades'
      BY <1>0, <2>3, <2>5 DEF ProcInv
    <3> QED BY <2>3, <2>5, <3>1, GoKeeps
  <2>7. JobInv'
    BY <1>0, <2>3, <2>5, <2>6, JobsKept DEF JobInv, jobVars
  <2>8. CacheInv'
    <3>1. DOMAIN maps' = 1..MaxExpired + 1 /\ maps'[m] = maps[m] \cup {resp}
      BY <2>3, <2>4 DEF CacheInv
    <3>2. ResponsesFound'
      BY <2>3, <2>4, <3>1 DEF CacheInv, ResponsesFound
    <3> QED BY <2>3, <2>4, <3>1, <3>2 DEF CacheInv
  <2> QED BY <2>3, <2>6, <2>7, <2>8, Frames
<1>3. ASSUME Listen(x)
      PROVE  Inv'
  <2>1. proc[x].pc = "listen" /\ UNCHANGED <<Jobs, canceled, cacheVars, trades, rows, alerts>>
    BY <1>3 DEF Listen, priceVars
  <2>2. CASE x \in Runs
    <3> DEFINE f == [Idle EXCEPT !.pc = "cleanup"]
    <3>1. Go(x, f) /\ answers' = [answers EXCEPT ![x] = @ \cup {proc[x].of}]
      BY <1>3, <2>2, Apart DEF Listen
    <3>2. f \in Goroutines /\ f.pc = "cleanup"
      BY <1>0, Records DEF Outcomes
    <3> HIDE DEF f
    <3>3. ProcInv' /\ proc'[x] = f /\ \A y \in Procs : y # x => proc'[y] = proc[y]
      BY <2>1, <3>1, <3>2, <2>2, Apart, GoKeeps DEF Answering
    <3>4. answers' \in [Runs -> SUBSET {"result", "error", "stopped"}]
      <4>1. proc[x].of \in {"result", "error", "stopped"}
        BY <1>0, <2>1, <2>2 DEF ProcInv, Outcomes
      <4> QED BY <3>1, <4>1 DEF JobInv
    <3>5. JobInv'
      BY <2>1, <3>2, <3>3, <3>4, JobsKept
    <3> QED BY <2>1, <3>3, <3>5, Frames
  <2>3. CASE x \in Stops
    <3>1. Go(x, Over) /\ answers' = [answers EXCEPT ![proc[x].of] = @ \cup {"stopped"}]
      BY <1>3, <2>3, Apart DEF Listen
    <3>2. ProcInv' /\ proc'[x] = Over /\ \A y \in Procs : y # x => proc'[y] = proc[y]
      BY <2>1, <3>1, Ends, GoKeeps DEF Answering
    <3>3. answers' \in [Runs -> SUBSET {"result", "error", "stopped"}]
      <4>1. proc[x].of \in Runs
        BY <1>0, <2>1, <2>3 DEF ProcInv
      <4> QED BY <3>1, <4>1 DEF JobInv
    <3>4. JobInv'
      BY <2>1, <2>3, <3>2, <3>3, Apart, JobsKept
    <3> QED BY <2>1, <3>2, <3>4, Frames
  <2>4. CASE x \in NewTrades
    <3>1. PICK rest : rest = proc[x].todo \ {Response(x).to}
      OBVIOUS
    <3> DEFINE f == IF rest = {} THEN Over ELSE [proc[x] EXCEPT !.todo = rest, !.pc = "get"]
    <3>2. Go(x, f) /\ UNCHANGED answers
      BY <1>3, <2>4, <3>1, Apart DEF Listen
    <3>3. f \in Goroutines /\ f.pc \in {"over", "get"}
      <4>1. rest \in SUBSET Subscribers
        BY <1>0, <3>1 DEF Goroutines
      <4>2. CASE rest = {}
        BY <4>2, Ends
      <4>3. CASE rest # {}
        <5>1. f = [proc[x] EXCEPT !.todo = rest, !.pc = "get"]
          BY <4>3
        <5> HIDE DEF f
        <5> QED BY <1>0, <4>1, <5>1 DEF Goroutines
      <4> QED BY <4>2, <4>3
    <3> HIDE DEF f
    <3>4. ProcInv' /\ proc'[x] = f /\ \A y \in Procs : y # x => proc'[y] = proc[y]
      <4>1. x \in trades' /\ trades \subseteq trades'
        BY <1>0, <2>1, <2>4 DEF ProcInv
      <4>2. x \notin Stops /\ x \notin Runs /\ f.pc # "put"
        BY <2>4, <3>3, Apart
      <4> QED BY <3>2, <3>3, <4>1, <4>2, GoKeeps
    <3>5. JobInv'
      BY <2>1, <2>4, <3>2, <3>4, Apart, JobsKept DEF JobInv
    <3> QED BY <2>1, <3>4, <3>5, Frames
  <2> QED BY <2>2, <2>3, <2>4 DEF Procs
<1> QED BY <1>1, <1>2, <1>3 DEF SubmitResult

\* The entry that expires takes what was kept with it.
LEMMA ExpireStep ==
    ASSUME Inv, Expire
    PROVE  Inv'
<1>1. CacheInv'
  BY DVMAssumption DEF Inv, Expire, CacheInv, ResponsesFound
<1> QED BY <1>1, Frames DEF Inv, Expire, priceVars

-----------------------------------------------------------------------------
\* One more alert, for a trade that is a window after the last notification,
\* keeps a row's alerts spaced.
LEMMA AlertSpaced ==
    ASSUME PriceInv, NEW d \in Subscribers, NEW t \in Trades, t \in trades, Due(t, d),
           trades' = trades, alerts'[d] = Append(alerts[d], t),
           rows'[d] = [on |-> TRUE, notified |-> At[t], trade |-> t, at |-> At[t]]
    PROVE  SubscriberInv(d)'
<1>1. At[t] \in Nat \ {0} /\ Window[d] \in Nat \ {0} /\ \A u \in Trades : At[u] \in Nat \ {0}
  BY DVMAssumption
<1>2. SubscriberInv(d) /\ alerts[d] \in Seq(Trades) /\ rows[d].notified \in Nat
  BY DEF PriceInv, SubscriberInv, Rows
<1>3. PICK n \in Nat : n = Len(alerts[d])
  BY <1>2
<1>4. /\ alerts'[d] \in Seq(Trades) /\ Len(alerts'[d]) = n + 1 /\ alerts'[d][n + 1] = t
      /\ \A i \in 1..n : alerts'[d][i] = alerts[d][i] /\ alerts[d][i] \in Trades
  BY <1>2, <1>3
<1>5. rows'[d].notified = At[t] /\ rows'[d].trade = t
  OBVIOUS
<1>6. \A i \in 1..n : At[t] >= At[alerts[d][i]] + Window[d]
  <2> TAKE i \in 1..n
  <2>1. alerts[d] # << >>
    BY <1>3
  <2>2. rows[d].notified # Never /\ At[alerts[d][i]] <= rows[d].notified
    BY <1>2, <1>3, <2>1 DEF SubscriberInv
  <2>3. At[t] >= rows[d].notified + Window[d]
    BY <2>2 DEF Due
  <2>4. alerts[d][i] \in Trades
    BY <1>4
  <2>5. At[alerts[d][i]] \in Nat /\ At[t] \in Nat /\ Window[d] \in Nat
    BY <1>1, <2>4
  <2> QED BY <1>2, <2>2, <2>3, <2>5
<1>7. ASSUME NEW i \in 1..n + 1
      PROVE  At[alerts'[d][i]] <= At[t]
  <2>1. CASE i = n + 1
    BY <1>1, <1>4, <2>1
  <2>2. CASE i \in 1..n
    BY <1>1, <1>4, <1>6, <2>2
  <2>3. i = n + 1 \/ i \in 1..n
    BY <1>7, <1>3
  <2> QED BY <2>1, <2>2, <2>3
<1>8. ASSUME NEW i \in 1..n + 1, NEW j \in 1..n + 1, i < j
      PROVE  At[alerts'[d][j]] >= At[alerts'[d][i]] + Window[d]
  <2>1. i \in 1..n
    BY <1>8
  <2>2. CASE j = n + 1
    BY <1>4, <1>6, <2>1, <2>2
  <2>3. CASE j \in 1..n
    <3>1. At[alerts[d][j]] >= At[alerts[d][i]] + Window[d]
      BY <1>2, <1>3, <1>8, <2>1, <2>3 DEF SubscriberInv
    <3> QED BY <1>4, <2>1, <2>3, <3>1
  <2>4. j = n + 1 \/ j \in 1..n
    BY <1>3
  <2> QED BY <2>2, <2>3, <2>4
<1>9. rows'[d].notified # Never /\ rows'[d].trade \in trades'
  BY <1>1, <1>5 DEF Never
<1> QED BY <1>4, <1>5, <1>7, <1>8, <1>9 DEF SubscriberInv

\* The steps of price alerts.
LEMMA PriceStep ==
    ASSUME Inv, (\E d \in Subscribers : Register(d)) \/ \E t \in NewTrades : Trade(t) \/ Fetch(t) \/ Interrupt(t)
    PROVE  Inv'
<1> USE DEF Inv
<1>0. /\ {"queued", "get", "over"} \subseteq PCs /\ "get" \in Answering /\ "listen" \in Answering
      /\ "queued" # "put"
  BY DEF PCs, Answering
<1>1. ASSUME NEW d \in Subscribers, Register(d)
      PROVE  Inv'
  <2>1. PICK u \in trades \cup {None} :
           rows' = [rows EXCEPT ![d] = [on |-> TRUE, notified |-> Never, trade |-> u, at |-> IF u = None THEN Never ELSE At[u]]]
    BY <1>1 DEF Register
  <2>2. alerts' = [alerts EXCEPT ![d] = << >>] /\ UNCHANGED <<jobVars, proc, cacheVars, trades>>
    BY <1>1 DEF Register
  <2>3. PICK a \in Nat : a = IF u = None THEN Never ELSE At[u]
    BY DVMAssumption DEF Never, PriceInv
  <2>4. PICK row : row = [on |-> TRUE, notified |-> Never, trade |-> u, at |-> a]
    OBVIOUS
  <2>5. row \in Rows /\ row.notified = Never
    BY <2>3, <2>4 DEF Rows, PriceInv, Never
  <2>6. /\ rows' \in [Subscribers -> Rows] /\ rows'[d] = row /\ DOMAIN alerts' = Subscribers /\ alerts'[d] = << >>
        /\ \A c \in Subscribers : c # d => rows'[c] = rows[c] /\ alerts'[c] = alerts[c]
    BY <2>1, <2>2, <2>3, <2>4, <2>5 DEF PriceInv
  <2>7. ASSUME NEW c \in Subscribers
        PROVE  SubscriberInv(c)'
    <3>1. CASE c = d
      BY <2>5, <2>6, <3>1 DEF SubscriberInv
    <3>2. CASE c # d
      BY <2>2, <2>6, <3>2 DEF SubscriberInv, PriceInv
    <3> QED BY <3>1, <3>2
  <2>8. PriceInv'
    BY <2>2, <2>6, <2>7 DEF PriceInv
  <2> QED BY <2>2, <2>8, Frames
<1>2. ASSUME NEW t \in NewTrades, Trade(t)
      PROVE  Inv'
  <2>1. PICK D \in SUBSET Devices : Go(t, IF D = {} THEN Over ELSE [Idle EXCEPT !.pc = "queued", !.devs = D])
    BY <1>2 DEF Trade, Devices
  <2>2. trades' = trades \cup {t} /\ UNCHANGED <<jobVars, cacheVars, rows, alerts>>
    BY <1>2 DEF Trade
  <2> DEFINE f == IF D = {} THEN Over ELSE [Idle EXCEPT !.pc = "queued", !.devs = D]
  <2>3. f \in Goroutines /\ f.pc \in {"over", "queued"}
    BY <1>0, Ends, Records DEF Outcomes
  <2>4. Go(t, f)
    BY <2>1
  <2> HIDE DEF f
  <2>5. ProcInv' /\ proc'[t] = f /\ \A y \in Procs : y # t => proc'[y] = proc[y]
    BY <2>2, <2>3, <2>4, Apart, GoKeeps
  <2>6. JobInv'
    BY <2>2, <2>5, Apart, JobsKept DEF jobVars, JobInv
  <2>7. \A c \in Subscribers : SubscriberInv(c)'
    BY <2>2 DEF PriceInv, SubscriberInv
  <2>8. PriceInv'
    BY <2>2, <2>7, Apart DEF PriceInv
  <2> QED BY <2>2, <2>5, <2>6, <2>8, Frames
<1>3. ASSUME NEW t \in NewTrades, Fetch(t)
      PROVE  Inv'
  <2>1. PICK found : found = {d \in Subscribers : DeviceOf[d] \in proc[t].devs /\ Due(t, d) /\ Moved(t, d)}
    OBVIOUS
  <2> DEFINE f == IF found = {} THEN Over ELSE [proc[t] EXCEPT !.pc = "get", !.todo = found]
  <2>2. /\ proc[t].pc = "queued" /\ Go(t, f) /\ UNCHANGED <<jobVars, cacheVars, trades>>
        /\ rows' = [d \in Subscribers |-> IF d \in found THEN [on |-> TRUE, notified |-> At[t], trade |-> t, at |-> At[t]] ELSE rows[d]]
        /\ alerts' = [d \in Subscribers |-> IF d \in found THEN Append(alerts[d], t) ELSE alerts[d]]
    BY <1>3, <2>1 DEF Fetch
  <2>3. proc[t] \in Goroutines /\ t \in Procs /\ t \in Trades /\ t \in trades
    BY <2>2, Apart DEF ProcInv
  <2>4. found \in SUBSET Subscribers
    BY <2>1
  <2>5. f \in Goroutines /\ f.pc \in {"over", "get"}
    <3>1. CASE found = {}
      BY <3>1, Ends
    <3>2. CASE found # {}
      <4>1. f = [proc[t] EXCEPT !.pc = "get", !.todo = found]
        BY <3>2
      <4>2. "get" \in PCs
        BY <1>0
      <4> HIDE DEF f
      <4> QED BY <2>3, <2>4, <4>1, <4>2 DEF Goroutines
    <3> QED BY <3>1, <3>2
  <2> HIDE DEF f
  <2>6. ProcInv' /\ proc'[t] = f /\ \A y \in Procs : y # t => proc'[y] = proc[y]
    <3>1. t \in trades' /\ trades \subseteq trades' /\ t \notin Stops /\ t \notin Runs /\ f.pc # "put"
      BY <2>2, <2>3, <2>5, Apart
    <3> QED BY <2>2, <2>3, <2>5, <3>1, GoKeeps
  <2>7. JobInv'
    BY <2>2, <2>6, Apart, JobsKept DEF jobVars, JobInv
  <2>8. ASSUME NEW d \in Subscribers
        PROVE  SubscriberInv(d)' /\ rows'[d] \in Rows
    <3>1. CASE d \in found
      <4>1. Due(t, d)
        BY <2>1, <3>1
      <4>2. alerts'[d] = Append(alerts[d], t) /\ rows'[d] = [on |-> TRUE, notified |-> At[t], trade |-> t, at |-> At[t]]
        BY <2>2, <3>1
      <4>3. SubscriberInv(d)'
        BY <2>2, <2>3, <4>1, <4>2, AlertSpaced
      <4>4. rows'[d] \in Rows
        BY <2>3, <4>2, DVMAssumption DEF Rows
      <4> QED BY <4>3, <4>4
    <3>2. CASE d \notin found
      <4>1. rows'[d] = rows[d] /\ alerts'[d] = alerts[d] /\ trades' = trades
        BY <2>2, <3>2
      <4> QED BY <4>1 DEF PriceInv, SubscriberInv
    <3> QED BY <3>1, <3>2
  <2>9. PriceInv'
    BY <2>2, <2>8 DEF PriceInv
  <2> QED BY <2>2, <2>6, <2>7, <2>9, Frames
<1>4. ASSUME NEW t \in NewTrades, Interrupt(t)
      PROVE  Inv'
  <2>1. PICK D : D = proc[t].devs
    OBVIOUS
  <2> DEFINE f == [Idle EXCEPT !.pc = "queued", !.devs = D]
  <2>2. /\ proc[t].pc \in {"get", "listen"} /\ Go(t, f)
        /\ UNCHANGED <<jobVars, cacheVars, trades, rows, alerts>>
    BY <1>4, <2>1 DEF Interrupt
  <2>3. D \in SUBSET Devices /\ t \in trades
    BY <1>0, <2>1, <2>2, Apart DEF ProcInv, Goroutines
  <2>4. f \in Goroutines /\ f.pc = "queued"
    BY <1>0, <2>3, Records DEF Outcomes
  <2> HIDE DEF f
  <2>5. ProcInv' /\ proc'[t] = f /\ \A y \in Procs : y # t => proc'[y] = proc[y]
    <3>1. t \in trades' /\ trades \subseteq trades' /\ t \notin Stops /\ t \notin Runs /\ f.pc # "put"
      BY <1>0, <2>2, <2>3, <2>4, Apart
    <3> QED BY <2>2, <2>4, <3>1, Apart, GoKeeps
  <2>6. JobInv'
    BY <2>2, <2>5, Apart, JobsKept DEF jobVars, JobInv
  <2> QED BY <2>2, <2>5, <2>6, Frames
<1> QED BY <1>1, <1>2, <1>3, <1>4

\* Every step keeps the invariant.
LEMMA Step == Inv /\ [Next]_vars => Inv'
<1>1. ASSUME Inv, UNCHANGED vars
      PROVE  Inv'
  BY <1>1, Frames DEF Inv, vars, priceVars
<1> QED BY <1>1, JobsStep, SubmitStep, ExpireStep, PriceStep DEF Next

\* The invariant says what is claimed of the jobs, the cache and the alerts.
LEMMA Implied == Inv => EntriesRun /\ ResponsesFound /\ AlertsSpaced
<1> SUFFICES ASSUME Inv PROVE EntriesRun /\ ResponsesFound /\ AlertsSpaced
  OBVIOUS
<1> USE DEF Inv
<1>1. \A x \in Procs : proc[x].pc = "put" => proc[x].map \in DOMAIN maps
  <2> SUFFICES ASSUME NEW x \in Procs, proc[x].pc = "put" PROVE proc[x].map \in DOMAIN maps
    OBVIOUS
  <2>1. proc[x].map \in 0..MaxExpired + 1 /\ proc[x].map # 0
    BY DEF ProcInv, Goroutines
  <2> QED BY <2>1, DVMAssumption DEF CacheInv
<1>2. TypeOK
  BY <1>1 DEF TypeOK, ProcInv, JobInv, CacheInv, PriceInv, SubscriberInv
<1>3. EntriesRun
  BY <1>2 DEF EntriesRun, JobInv, Answering
<1>4. AlertsSpaced
  <2> SUFFICES ASSUME NEW d \in Subscribers, NEW i \in 1..Len(alerts[d]), NEW j \in 1..Len(alerts[d]), i # j
               PROVE  \/ At[alerts[d][i]] >= At[alerts[d][j]] + Window[d]
                      \/ At[alerts[d][j]] >= At[alerts[d][i]] + Window[d]
    BY DEF AlertsSpaced
  <2>1. i < j \/ j < i
    BY DEF PriceInv, SubscriberInv
  <2> QED BY <2>1 DEF PriceInv, SubscriberInv
<1> QED BY <1>3, <1>4 DEF CacheInv

\* The map of jobs of dvm.go never holds a job that is over, whichever IDs were
\* sent twice and stopped meanwhile.
THEOREM JobMapDoesNotLeak == Spec => []EntriesRun
<1>1. Inv => EntriesRun
  BY Implied
<1> QED BY <1>1, Start, Step, PTL DEF Spec

\* What SubmitResult stored is found in the response cache until the entry of
\* its user expires, whatever other goroutines store meanwhile, unless one of
\* them puts back the map of an entry that had expired before.
THEOREM SubmittedIsFound == Spec => []ResponsesFound
<1>1. Inv => ResponsesFound
  BY Implied
<1> QED BY <1>1, Start, Step, PTL DEF Spec

\* Two alerts of one price request are at least its window apart, however trades
\* are repeated, reordered and interrupted.
THEOREM AlertsAreSpaced == Spec => []AlertsSpaced
<1>1. Inv => AlertsSpaced
  BY Implied
<1> QED BY <1>1, Start, Step, PTL DEF Spec
=============================================================================
