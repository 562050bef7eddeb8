----------------------------- MODULE PoolScanner -----------------------------
(***************************************************************************)
(* From a log of the chain to a row of the tokens table: the two factory   *)
(* subscriptions of main.go with the semaphore they share, the watcher of  *)
(* transfers, the LRU cache all of them use, and the screening pipeline    *)
(* scanner.ProcessNewPool that each of them runs.  One step is one call    *)
(* that other goroutines can interleave with.                              *)
(***************************************************************************)
EXTENDS Naturals, Sequences, FiniteSets

CONSTANTS
    Handlers,       \* the places of pairSemaphore: goroutines that may run handlers
    Pools, Tokens,
    Version,        \* pool -> "v2" or "v3", the factory that created it
    TokenOf,        \* pool -> the token that is not WBNB
    Wbnb,           \* pool -> "token0", "token1" or "neither": where WBNB is
    CacheSize,      \* keys the LRU holds
    ChannelSize,    \* logs that wait before the library breaks the subscription
    AuditTries,     \* how often the audit is asked: 3
    MaxHangs,       \* bound: calls without a timeout that never return
    None, Garbled   \* nothing; an address that is no token's

Factories == {"v2", "v3"}
Watcher == "smart"
Workers == Handlers \cup {Watcher}

\* Never screened; screened once; two goroutines passed the check of the cache
\* before either added the pool, or the LRU dropped it; screened again without that.
Screenings == {"never", "once", "excused", "repeated"}

ASSUME ScannerAssumption ==
    /\ Handlers # {} /\ Watcher \notin Handlers
    /\ Version \in [Pools -> Factories] /\ TokenOf \in [Pools -> Tokens]
    /\ Wbnb \in [Pools -> {"token0", "token1", "neither"}]
    /\ {CacheSize, ChannelSize, AuditTries} \subseteq Nat \ {0}
    /\ MaxHangs \in Nat
    /\ None \notin Pools \cup Tokens \cup {Garbled} /\ Garbled \notin Tokens

VARIABLES
    channel,    \* factory -> logs waiting in the channel of its subscription
    taken,      \* factory -> the log it holds while it waits for the semaphore
    job,        \* worker -> what its goroutine is doing
    alive,      \* the process runs
    hung,       \* its workers inside a call that never returns
    cache,      \* keys of the LRU, most recently added first
    rows,       \* token -> the pool of its row in the tokens table, or None
    screenings, \* history: pool -> how often this process screened it, see Screenings
    alerts,     \* history: tokens an alert was sent for
    unsaved     \* history: tokens whose last alert the database refused to save, or
                \* the end of the process cut off from it

subscriptions == <<channel, taken>>
process == <<alive, hung>>
history == <<screenings, alerts, unsaved>>
vars == <<subscriptions, job, process, cache, rows, history>>

Screening == {"check", "add", "fetch", "audit", "facts", "alert", "findRow", "createRow"}
Job == [step : Screening \cup {"findPool", "idle"}, pool : Pools \cup {None},
        token : Tokens \cup {None, Garbled}, tries : 0 .. AuditTries]
Idle == [step |-> "idle", pool |-> None, token |-> None, tries |-> 0]

PoolKey(p) == <<"pool", p>>
SmartKey(t) == <<"smart", t>>       \* tokenAddr + "_smart"
Keys == {PoolKey(p) : p \in Pools} \cup {SmartKey(t) : t \in Tokens}

ToSet(s) == {s[i] : i \in DOMAIN s}
Cached(k) == k \in ToSet(cache)

TypeOK ==
    /\ channel \in [Factories -> Seq(Pools)]
    /\ \A f \in Factories : Len(channel[f]) <= ChannelSize
    /\ taken \in [Factories -> Pools \cup {None}]
    /\ job \in [Workers -> Job] /\ alive \in BOOLEAN /\ hung \subseteq Workers
    /\ cache \in Seq(Keys) /\ Len(cache) <= CacheSize
    /\ \A i, j \in DOMAIN cache : cache[i] = cache[j] => i = j
    /\ rows \in [Tokens -> Pools \cup {None}]
    /\ screenings \in [Pools -> Screenings]
    /\ alerts \subseteq Tokens /\ unsaved \subseteq Tokens

Init ==
    /\ channel = [f \in Factories |-> << >>]
    /\ taken = [f \in Factories |-> None]
    /\ job = [w \in Workers |-> Idle] /\ alive = TRUE /\ hung = {}
    /\ cache = << >>
    /\ rows = [t \in Tokens |-> None]
    /\ screenings = [p \in Pools |-> "never"] /\ alerts = {} /\ unsaved = {}

At(w, step) == job[w].step = step /\ w \notin hung
Goto(w, step) == job' = [job EXCEPT ![w].step = step, ![w].tries = 0]

\* A handler returns and its deferred receive frees the semaphore; the watcher
\* returns to its select.
Return(w) == job' = [job EXCEPT ![w] = Idle]

-----------------------------------------------------------------------------
(* The LRU *)

\* Where Add takes a key from: its place, or a new one behind the others.
PlaceOf(k) == IF Cached(k) THEN CHOOSE i \in DOMAIN cache : cache[i] = k ELSE Len(cache) + 1

\* The key moves to the front, past those in front of it.  (Mutant of CacheWith:
\* nothing is dropped.)
MovedToFront(k) ==
    [i \in 1 .. (IF Cached(k) THEN Len(cache) ELSE Len(cache) + 1) |->
        IF i = 1 THEN k ELSE IF i <= PlaceOf(k) THEN cache[i - 1] ELSE cache[i]]

\* Add: a new key over the size drops the oldest.
CacheWith(k) ==
    LET moved == MovedToFront(k)
    IN  [i \in 1 .. (IF Len(moved) < CacheSize THEN Len(moved) ELSE CacheSize) |-> moved[i]]
Dropped(k) == {p \in Pools : Cached(PoolKey(p)) /\ PoolKey(p) \notin ToSet(CacheWith(k))}

Excuse(ps) == [p \in Pools |-> IF p \in ps /\ screenings[p] # "repeated" THEN "excused"
                                ELSE screenings[p]]

-----------------------------------------------------------------------------
(* Subscriptions *)

\* The node: the factory's log for a pool, again after a reorganisation.
Deliver(f, p) ==
    /\ alive /\ Version[p] = f /\ Len(channel[f]) < ChannelSize
    /\ channel' = [channel EXCEPT ![f] = Append(@, p)]
    /\ UNCHANGED <<taken, job, process, cache, rows, history>>

\* The loop is at its select, not waiting for the semaphore.
AtSelect(f) == taken[f] = None

\* sub.Err() is received: the channel is dropped with its logs.  Until the next
\* subscription stands the node delivers nothing, and nothing is fetched later.
Reconnect(f) ==
    /\ AtSelect(f) /\ channel[f] # << >>
    /\ channel' = [channel EXCEPT ![f] = << >>]
    /\ UNCHANGED <<taken, job, process, cache, rows, history>>

Take(f) ==
    /\ AtSelect(f) /\ channel[f] # << >>
    /\ taken' = [taken EXCEPT ![f] = Head(channel[f])]
    /\ channel' = [channel EXCEPT ![f] = Tail(@)]
    /\ UNCHANGED <<job, process, cache, rows, history>>

\* What handleV2PairCreated and handleV3PoolCreated take for the token, or None
\* when they return.  The V3 handler reads token1 out of the text of the topic.
HandlerToken(p) ==
    CASE Version[p] = "v2" /\ Wbnb[p] # "neither" -> TokenOf[p]
      [] Version[p] = "v3" /\ Wbnb[p] = "token0" -> Garbled
      [] OTHER -> None

\* pairSemaphore <- struct{}{}, then the goroutine of the handler.
Spawn(f) ==
    /\ taken[f] # None
    /\ \E h \in Handlers :
        /\ job[h] = Idle
        /\ h = CHOOSE free \in Handlers : job[free] = Idle
        /\ job' = IF HandlerToken(taken[f]) = None THEN job
                  ELSE [job EXCEPT ![h] = [step |-> "check", pool |-> taken[f],
                                           token |-> HandlerToken(taken[f]), tries |-> 0]]
    /\ taken' = [taken EXCEPT ![f] = None]
    /\ UNCHANGED <<channel, process, cache, rows, history>>

-----------------------------------------------------------------------------
(* The watcher.  HasSmartMoneyBought is true of any map with one entry, so *)
(* every transfer counts.                                                  *)

\* The watcher alone uses these keys, so its Contains and Add are one step.
TakeTransfer(t) ==
    /\ alive /\ At(Watcher, "idle") /\ ~Cached(SmartKey(t))
    /\ cache' = CacheWith(SmartKey(t))
    /\ screenings' = Excuse(Dropped(SmartKey(t)))
    /\ job' = [job EXCEPT ![Watcher] = [Idle EXCEPT !.step = "findPool", !.token = t]]
    /\ UNCHANGED <<subscriptions, process, rows, alerts, unsaved>>

\* The factory has one V2 pool of a token and WBNB.
V2PoolsOf(t) == {p \in Pools : Version[p] = "v2" /\ TokenOf[p] = t /\ Wbnb[p] # "neither"}

\* FindV2Pool fails, or names the pool, which is screened in this goroutine.
FindPool ==
    /\ At(Watcher, "findPool")
    /\ \/ Return(Watcher)
       \/ \E p \in V2PoolsOf(job[Watcher].token) :
            job' = [job EXCEPT ![Watcher].step = "check", ![Watcher].pool = p]
    /\ UNCHANGED <<subscriptions, process, cache, rows, history>>

-----------------------------------------------------------------------------
(* ProcessNewPool *)

\* Another goroutine is between its Contains and its Add for the pool.
Racing(p) == \E v \in Workers : job[v].step = "add" /\ job[v].pool = p

Check(w) ==
    LET p == job[w].pool
    IN /\ At(w, "check")
       /\ IF Cached(PoolKey(p))
          THEN Return(w) /\ UNCHANGED screenings
          ELSE /\ Goto(w, "add")
               /\ screenings' = Excuse(IF Racing(p) THEN {p} ELSE {})
       /\ UNCHANGED <<subscriptions, process, cache, rows, alerts, unsaved>>

Starts(p) ==
    screenings' = [Excuse(Dropped(PoolKey(p))) EXCEPT
                     ![p] = CASE @ = "never" -> "once" [] @ = "once" -> "repeated" [] OTHER -> @]

\* Mutant: the pool is not marked.
AddUnmarked(w) ==
    /\ At(w, "add")
    /\ Starts(job[w].pool)
    /\ Goto(w, "fetch")
    /\ UNCHANGED <<subscriptions, process, cache, rows, alerts, unsaved>>

Add(w) ==
    /\ At(w, "add")
    /\ cache' = CacheWith(PoolKey(job[w].pool))
    /\ Starts(job[w].pool)
    /\ Goto(w, "fetch")
    /\ UNCHANGED <<subscriptions, process, rows, alerts, unsaved>>

\* Symbol and name are fetched, or are UNKNOWN: the call failed or answered too little.
Fetched(w) ==
    /\ At(w, "fetch")
    /\ Goto(w, "audit")
    /\ UNCHANGED <<subscriptions, process, cache, rows, history>>

\* Mutant: an early return keeps its place of the semaphore.
RejectKeepingSlot(w) ==
    /\ \E step \in {"audit", "facts"} : At(w, step)
    /\ Goto(w, "leaked")
    /\ UNCHANGED <<subscriptions, process, cache, rows, history>>

\* Any of the four checks may end the screening, an error like a verdict.
Reject(w) ==
    /\ \E step \in {"audit", "facts"} : At(w, step)
    /\ Return(w)
    /\ UNCHANGED <<subscriptions, process, cache, rows, history>>

\* The request to GoPlus failed: three tries in all.
AuditAgain(w) ==
    /\ At(w, "audit")
    /\ IF job[w].tries + 1 < AuditTries
       THEN job' = [job EXCEPT ![w].tries = @ + 1]
       ELSE Return(w)
    /\ UNCHANGED <<subscriptions, process, cache, rows, history>>

\* GoPlus knows real tokens only.
AuditPasses(w) ==
    /\ At(w, "audit") /\ job[w].token # Garbled
    /\ Goto(w, "facts")
    /\ UNCHANGED <<subscriptions, process, cache, rows, history>>

\* Enough liquidity, a buy of a smart wallet and spread holders: the alert is posted.
\* At this commit nothing calls SetSmartWallets, so CountSmartBuys finds no buy and no
\* pool passes; the model allows any list of wallets.
FactsPass(w) ==
    /\ At(w, "facts")
    /\ alerts' = alerts \cup {job[w].token}
    /\ unsaved' = unsaved \ {job[w].token}
    /\ Goto(w, "alert")
    /\ UNCHANGED <<subscriptions, process, cache, rows, screenings>>

\* Discord answers; a failure is only logged.
Alerted(w) ==
    /\ At(w, "alert")
    /\ Goto(w, "findRow")
    /\ UNCHANGED <<subscriptions, process, cache, rows, history>>

\* The audit's http.Get, the requests of the holder analysis, Discord's http.Post and
\* the statements of the database have no timeout.
Hang(w) ==
    /\ \E step \in {"audit", "facts", "alert", "findRow", "createRow"} : At(w, step)
    /\ Cardinality(hung) < MaxHangs
    /\ hung' = hung \cup {w}
    /\ UNCHANGED <<subscriptions, job, alive, cache, rows, history>>

\* The database is away or refuses.
SaveFails(w) ==
    /\ unsaved' = unsaved \cup {job[w].token}
    /\ Return(w)
    /\ UNCHANGED rows

\* Mutant: no row is taken for a row.
FindRowMisread(w) ==
    /\ At(w, "findRow")
    /\ Return(w)
    /\ UNCHANGED <<subscriptions, process, cache, rows, history>>

\* SaveTokenToDB: First, then Create unless there is a row.
FindRow(w) ==
    /\ At(w, "findRow")
    /\ \/ /\ rows[job[w].token] = None /\ Goto(w, "createRow")
          /\ UNCHANGED <<rows, unsaved>>
       \/ rows[job[w].token] # None /\ Return(w) /\ UNCHANGED <<rows, unsaved>>
       \/ SaveFails(w)
    /\ UNCHANGED <<subscriptions, process, cache, screenings, alerts>>

\* The address is unique: a row that came in between makes Create fail.
CreateRow(w) ==
    /\ At(w, "createRow")
    /\ \/ /\ rows[job[w].token] = None
          /\ rows' = [rows EXCEPT ![job[w].token] = job[w].pool]
          /\ Return(w) /\ UNCHANGED unsaved
       \/ rows[job[w].token] # None /\ Return(w) /\ UNCHANGED <<rows, unsaved>>
       \/ SaveFails(w)
    /\ UNCHANGED <<subscriptions, process, cache, screenings, alerts>>

-----------------------------------------------------------------------------
(* The process.  No goroutine recovers from a panic, and nothing in the    *)
(* repository starts the process again: Restart is whoever runs it.        *)

\* A worker is between the alert of a token and its row, or stuck there for ever.
Saving(t) ==
    \E w \in Workers : job[w].token = t /\ job[w].step \in {"alert", "findRow", "createRow"}

\* Everything is gone but the database and what was alerted.
ProcessEnds ==
    /\ alive /\ alive' = FALSE
    /\ channel' = [f \in Factories |-> << >>]
    /\ taken' = [f \in Factories |-> None]
    /\ job' = [w \in Workers |-> Idle] /\ hung' = {}
    /\ cache' = << >>
    /\ screenings' = [p \in Pools |-> "never"]
    /\ unsaved' = unsaved \cup {t \in Tokens : Saving(t)}
    /\ UNCHANGED <<rows, alerts>>

\* fetchTokenString slices res[64:64+l] without a look at the length of the answer: one
\* that announces more than it holds panics, and all goroutines end with this one.
FetchPanics(w) ==
    /\ At(w, "fetch") /\ job[w].token # Garbled
    /\ ProcessEnds

\* The process is stopped, or another goroutine panics.
Stopped == ProcessEnds

Restart ==
    /\ ~alive /\ alive' = TRUE
    /\ UNCHANGED <<subscriptions, job, hung, cache, rows, history>>

-----------------------------------------------------------------------------
Pipeline(w) ==
    \/ Check(w) \/ Add(w) \/ Fetched(w) \/ AuditAgain(w) \/ AuditPasses(w) \/ FactsPass(w)
    \/ Alerted(w) \/ Reject(w) \/ FindRow(w) \/ CreateRow(w)

Next ==
    \/ \E f \in Factories : Reconnect(f) \/ Take(f) \/ Spawn(f)
    \/ \E f \in Factories, p \in Pools : Deliver(f, p)
    \/ \E t \in Tokens : TakeTransfer(t)
    \/ FindPool
    \/ \E w \in Workers : Pipeline(w) \/ Hang(w) \/ FetchPanics(w)
    \/ Stopped \/ Restart

Spec == Init /\ [][Next]_vars

\* A goroutine of a running process goes on unless it is inside a call that never
\* returns: the other calls are those of the RPC client, which time out.  A blocked
\* send on the semaphore is served in the order of arrival.  Nobody has to restart a
\* process that ended.
Fairness ==
    /\ \A w \in Workers : WF_vars(Pipeline(w))
    /\ \A f \in Factories : WF_vars(Take(f)) /\ SF_vars(Spawn(f))
    /\ WF_vars(FindPool)

FairSpec == Spec /\ Fairness

-----------------------------------------------------------------------------
(* Properties *)

\* A process screens a pool again only after two of its goroutines were between
\* Contains and Add for it at once, or after the LRU dropped it: nothing else, no
\* reorganised log, no reconnection and no outcome of an earlier screening, starts a
\* second one.  (The next process starts with an empty LRU and may screen it again.)
RepeatsNeedRaceOrEviction == \A p \in Pools : screenings[p] # "repeated"

\* Whoever was alerted of a token finds it in the table, unless the database was away,
\* or the process ended, or a call hangs, between the last alert and the row: of two
\* goroutines that race to save it, the one that fails lost to a row.
AlertedIsSaved ==
    \A t \in alerts : rows[t] # None \/ Saving(t) \/ t \in unsaved

\* A subscription that holds a log hands it to a handler, or loses it with the process,
\* unless every place of the semaphore is taken by a call that never returns: that is
\* the one way a subscription stands still, and fewer such calls do not stop it.
SubscriptionsGoOn ==
    \A f \in Factories : taken[f] # None ~> taken[f] = None \/ Handlers \subseteq hung
=============================================================================
