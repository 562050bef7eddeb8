-------------------------- MODULE PoolScannerProofs --------------------------
(***************************************************************************)
(* Theorems about PoolScanner, for any pools, tokens, number of handlers   *)
(* and size of the cache: whoever was alerted of a token finds its row,    *)
(* and a pool is screened twice only for a reason.  The first needs to     *)
(* know what each worker carries and nothing of the cache; the second what *)
(* the cache holds of the pools that were screened once.                   *)
(***************************************************************************)
EXTENDS PoolScanner, TLAPS

\* What a worker carries at each step: past the check of the audit, a real token.
WorkersType ==
    /\ job \in [Workers -> Job]
    /\ \A w \in Workers :
         /\ job[w].step \in {"facts", "alert", "findRow", "createRow", "findPool"} => job[w].token \in Tokens
         /\ job[w].step \in Screening =>
              job[w].pool \in Pools /\ job[w].token \in Tokens \cup {Garbled}

\* What the subscriptions hold and where the rows are.
TablesType ==
    /\ channel \in [Factories -> Seq(Pools)] /\ taken \in [Factories -> Pools \cup {None}]
    /\ rows \in [Tokens -> Pools \cup {None}]
    /\ alerts \subseteq Tokens

SaveInv == WorkersType /\ TablesType /\ AlertedIsSaved

-----------------------------------------------------------------------------
(* Facts about one worker *)

LEMMA IdleType == Idle \in Job
  BY ScannerAssumption DEF Idle, Job

\* A worker that is given another job that fits its step keeps the types.
LEMMA WorkerMoves ==
    ASSUME WorkersType, NEW w \in Workers, NEW j \in Job, job' = [job EXCEPT ![w] = j],
           j.step \in {"facts", "alert", "findRow", "createRow", "findPool"} => j.token \in Tokens,
           j.step \in Screening => j.pool \in Pools /\ j.token \in Tokens \cup {Garbled}
    PROVE  WorkersType'
<1>1. \A v \in Workers : job'[v] = IF v = w THEN j ELSE job[v]
  BY DEF WorkersType
<1>2. job' \in [Workers -> Job]
  BY DEF WorkersType
<1> QED
  BY <1>1, <1>2 DEF WorkersType

LEMMA WorkerReturns ==
    ASSUME WorkersType, NEW w \in Workers, Return(w)
    PROVE  WorkersType'
<1>1. Idle.step \notin Screening \cup {"facts", "alert", "findRow", "createRow", "findPool"}
  BY DEF Idle, Screening
<1> QED
  BY <1>1, IdleType, WorkerMoves DEF Return

\* A screening goes on to another step of a screening, past the audit with a real token.
LEMMA WorkerGoes ==
    ASSUME WorkersType, NEW w \in Workers, NEW step \in Screening, Goto(w, step),
           job[w].step \in Screening,
           step \in {"facts", "alert", "findRow", "createRow"} => job[w].token \in Tokens
    PROVE  WorkersType'
<1> DEFINE j == [job[w] EXCEPT !.step = step, !.tries = 0]
<1>1. job[w] \in Job /\ AuditTries \in Nat
  BY ScannerAssumption DEF WorkersType
<1>2. j \in Job /\ j.step = step /\ j.pool = job[w].pool /\ j.token = job[w].token
  <2>1. 0 \in 0 .. AuditTries
    BY <1>1
  <2> QED
    BY <1>1, <2>1 DEF Job
<1>3. job' = [job EXCEPT ![w] = j]
  BY DEF Goto
<1>4. step # "findPool"
  BY DEF Screening
<1> QED
  BY <1>2, <1>3, <1>4, WorkerMoves DEF WorkersType

\* A step of a worker that is not saving takes nothing from those that are.
LEMMA AlertsKept ==
    ASSUME AlertedIsSaved, alerts' = alerts, rows' = rows, unsaved' = unsaved,
           \A w \in Workers :
             job[w].step \in {"alert", "findRow", "createRow"} => job'[w] = job[w]
    PROVE  AlertedIsSaved'
  BY DEF AlertedIsSaved, Saving

\* The same for one that is, when it leaves a row, or the database's refusal, behind.
LEMMA AlertsSettled ==
    ASSUME AlertedIsSaved, alerts' = alerts, NEW w \in Workers,
           unsaved \subseteq unsaved',
           \A t \in Tokens : rows[t] # None => rows'[t] # None,
           alerts \subseteq Tokens,
           rows'[job[w].token] # None \/ job[w].token \in unsaved',
           \A v \in Workers \ {w} : job'[v] = job[v]
    PROVE  AlertedIsSaved'
  BY DEF AlertedIsSaved, Saving

-----------------------------------------------------------------------------
(* The actions *)

LEMMA InitSave == Init => SaveInv
<1> SUFFICES ASSUME Init PROVE SaveInv
  OBVIOUS
<1>1. WorkersType
  BY IdleType DEF Init, WorkersType, Idle, Screening
<1>2. TablesType
  BY DEF Init, TablesType
<1> QED
  BY <1>1, <1>2 DEF SaveInv, Init, AlertedIsSaved

\* The subscriptions' own steps.
LEMMA ChannelSave ==
    ASSUME SaveInv, NEW f \in Factories,
           Reconnect(f) \/ Take(f) \/ \E p \in Pools : Deliver(f, p)
    PROVE  SaveInv'
<1>1. WorkersType' /\ AlertedIsSaved'
  BY DEF Reconnect, Take, Deliver, history, SaveInv, WorkersType, AlertedIsSaved, Saving
<1>2. CASE Reconnect(f)
  BY <1>1, <1>2 DEF Reconnect, history, SaveInv, TablesType
<1>3. CASE Take(f)
  <2>1. channel[f] \in Seq(Pools) /\ channel[f] # << >>
    BY <1>3 DEF Take, SaveInv, TablesType
  <2>2. Head(channel[f]) \in Pools /\ Tail(channel[f]) \in Seq(Pools)
    BY <2>1
  <2> QED
    BY <1>1, <1>3, <2>2 DEF Take, history, SaveInv, TablesType
<1>4. ASSUME NEW p \in Pools, Deliver(f, p) PROVE SaveInv'
  <2>1. Append(channel[f], p) \in Seq(Pools)
    BY DEF SaveInv, TablesType
  <2> QED
    BY <1>1, <1>4, <2>1 DEF Deliver, history, SaveInv, TablesType
<1> QED
  BY <1>2, <1>3, <1>4

LEMMA SpawnSave ==
    ASSUME SaveInv, NEW f \in Factories, Spawn(f)
    PROVE  SaveInv'
<1> DEFINE p == taken[f]
           token == HandlerToken(p)
           fresh == [step |-> "check", pool |-> p, token |-> token, tries |-> 0]
<1>1. PICK h \in Handlers : job[h] = Idle
                            /\ job' = IF token = None THEN job ELSE [job EXCEPT ![h] = fresh]
  BY DEF Spawn
<1>2. p \in Pools /\ h \in Workers
  BY DEF Spawn, SaveInv, TablesType, Workers
<1>3. token \in Tokens \cup {Garbled, None}
  BY <1>2, ScannerAssumption DEF HandlerToken
<1>4. WorkersType'
  <2>1. CASE token = None
    BY <1>1, <2>1 DEF SaveInv, WorkersType
  <2>2. CASE token # None
    <3>1. fresh \in Job /\ fresh.step = "check" /\ fresh.pool = p /\ fresh.token = token
      BY <1>2, <1>3, ScannerAssumption DEF Job, Screening
    <3>2. job' = [job EXCEPT ![h] = fresh]
      BY <1>1, <2>2
    <3> QED
      BY <1>2, <1>3, <2>2, <3>1, <3>2, WorkerMoves DEF SaveInv
  <2> QED
    BY <2>1, <2>2
<1>5. TablesType'
  BY DEF Spawn, history, SaveInv, TablesType
<1>6. job[h].step = "idle" /\ \A w \in Workers \ {h} : job'[w] = job[w]
  BY <1>1, <1>2 DEF Idle, SaveInv, WorkersType
<1>7. AlertedIsSaved'
  BY <1>6, AlertsKept DEF Spawn, history, SaveInv
<1> QED
  BY <1>4, <1>5, <1>7 DEF SaveInv

LEMMA WatcherSave ==
    ASSUME SaveInv, FindPool \/ \E t \in Tokens : TakeTransfer(t)
    PROVE  SaveInv'
<1>1. Watcher \in Workers
  BY DEF Workers
<1>2. TablesType'
  BY DEF FindPool, TakeTransfer, subscriptions, history, SaveInv, TablesType
<1>3. ASSUME NEW t \in Tokens, TakeTransfer(t) PROVE WorkersType'
  <2> DEFINE j == [Idle EXCEPT !.step = "findPool", !.token = t]
  <2>1. ASSUME NEW r \in Job
        PROVE  LET k == [r EXCEPT !.step = "findPool", !.token = t]
               IN k \in Job /\ k.step = "findPool" /\ k.token = t
    BY DEF Job
  <2>2. j \in Job /\ j.step = "findPool" /\ j.token = t
    BY <2>1, IdleType
  <2>3. j.step \notin Screening
    BY <2>2 DEF Screening
  <2>4. job' = [job EXCEPT ![Watcher] = j]
    BY <1>3 DEF TakeTransfer
  <2> HIDE DEF j
  <2> QED
    BY <1>1, <2>2, <2>3, <2>4, WorkerMoves DEF SaveInv
<1>4. ASSUME FindPool PROVE WorkersType'
  <2>1. CASE Return(Watcher)
    BY <1>1, <2>1, WorkerReturns DEF SaveInv
  <2>2. ASSUME NEW p \in V2PoolsOf(job[Watcher].token),
               job' = [job EXCEPT ![Watcher].step = "check", ![Watcher].pool = p]
        PROVE  WorkersType'
    <3> DEFINE j == [job[Watcher] EXCEPT !.step = "check", !.pool = p]
    <3>1. job[Watcher] \in Job /\ job[Watcher].token \in Tokens /\ p \in Pools
      BY <1>1, <1>4 DEF FindPool, At, SaveInv, WorkersType, V2PoolsOf
    <3>2. j \in Job /\ j.step = "check" /\ j.pool = p /\ j.token = job[Watcher].token
      BY <3>1 DEF Job, Screening
    <3>3. job' = [job EXCEPT ![Watcher] = j]
      BY <1>1, <2>2 DEF SaveInv, WorkersType
    <3> QED
      BY <1>1, <3>1, <3>2, <3>3, WorkerMoves DEF SaveInv
  <2> QED
    BY <1>4, <2>1, <2>2 DEF FindPool
<1>5. /\ job[Watcher].step \in {"idle", "findPool"}
      /\ \A w \in Workers \ {Watcher} : job'[w] = job[w]
  BY <1>1 DEF FindPool, TakeTransfer, At, Return, SaveInv, WorkersType
<1>6. AlertedIsSaved'
  BY <1>5, AlertsKept DEF FindPool, TakeTransfer, history, SaveInv
<1> QED
  BY <1>2, <1>3, <1>4, <1>6 DEF SaveInv

\* All steps of a screening but the alert and what follows it.
LEMMA ScreenSave ==
    ASSUME SaveInv, NEW w \in Workers,
           Check(w) \/ Add(w) \/ Fetched(w) \/ AuditAgain(w) \/ AuditPasses(w) \/ Reject(w)
    PROVE  SaveInv'
<1>1. WorkersType /\ TablesType /\ AlertedIsSaved
  BY DEF SaveInv
<1>2. TablesType'
  BY <1>1 DEF Check, Add, Fetched, AuditAgain, AuditPasses, Reject, subscriptions, history, TablesType
<1>3. job[w] \in Job /\ job[w].step \in {"check", "add", "fetch", "audit", "facts"}
  BY <1>1 DEF Check, Add, Fetched, AuditAgain, AuditPasses, Reject, At, WorkersType
<1>4. /\ job[w].step \in Screening
      /\ {"add", "fetch", "audit", "facts"} \subseteq Screening
  BY <1>3 DEF Screening
<1>5. ASSUME NEW step \in {"add", "fetch", "audit"}, Goto(w, step) PROVE WorkersType'
  <2>1. step \in Screening /\ step \notin {"facts", "alert", "findRow", "createRow"}
    BY <1>4
  <2> QED
    BY <1>1, <1>4, <1>5, <2>1, WorkerGoes
<1>6. ASSUME Return(w) PROVE WorkersType'
  BY <1>1, <1>6, WorkerReturns
<1>7. ASSUME Check(w) PROVE WorkersType'
  BY <1>5, <1>6, <1>7 DEF Check
<1>8. ASSUME Add(w) PROVE WorkersType'
  BY <1>5, <1>8 DEF Add
<1>14. ASSUME Fetched(w) PROVE WorkersType'
  BY <1>5, <1>14 DEF Fetched
<1>9. ASSUME AuditAgain(w) PROVE WorkersType'
  <2> DEFINE j == [job[w] EXCEPT !.tries = @ + 1]
  <2>1. ASSUME job' = [job EXCEPT ![w].tries = @ + 1], job[w].tries + 1 < AuditTries
        PROVE  WorkersType'
    <3>1. job[w].tries + 1 \in 0 .. AuditTries
      BY <1>3, <2>1, ScannerAssumption DEF Job
    <3>2. j \in Job /\ j.step = job[w].step /\ j.pool = job[w].pool /\ j.token = job[w].token
      BY <1>3, <3>1 DEF Job
    <3>3. job' = [job EXCEPT ![w] = j]
      BY <2>1
    <3>4. /\ j.step \in {"facts", "alert", "findRow", "createRow", "findPool"} => j.token \in Tokens
          /\ j.step \in Screening => j.pool \in Pools /\ j.token \in Tokens \cup {Garbled}
      BY <1>1, <3>2 DEF WorkersType
    <3> HIDE DEF j
    <3> QED
      BY <1>1, <3>2, <3>3, <3>4, WorkerMoves
  <2> QED
    BY <1>6, <1>9, <2>1 DEF AuditAgain
<1>10. ASSUME AuditPasses(w) PROVE WorkersType'
  <2>1. job[w].token \in Tokens
    BY <1>1, <1>4, <1>10 DEF AuditPasses, WorkersType
  <2>2. Goto(w, "facts")
    BY <1>10 DEF AuditPasses
  <2> QED
    BY <1>1, <1>4, <2>1, <2>2, WorkerGoes
<1>11. ASSUME Reject(w) PROVE WorkersType'
  BY <1>6, <1>11 DEF Reject
<1>12. \A v \in Workers \ {w} : job'[v] = job[v]
  BY <1>1 DEF Check, Add, Fetched, AuditAgain, AuditPasses, Reject, Return, Goto, WorkersType
<1>13. AlertedIsSaved'
  BY <1>1, <1>3, <1>12, AlertsKept
  DEF Check, Add, Fetched, AuditAgain, AuditPasses, Reject, history
<1> QED
  BY <1>2, <1>7, <1>8, <1>9, <1>10, <1>11, <1>13, <1>14 DEF SaveInv

\* The alert: from here on the worker is saving its token.
LEMMA FactsSave ==
    ASSUME SaveInv, NEW w \in Workers, FactsPass(w) \/ Alerted(w)
    PROVE  SaveInv'
<1> USE DEF SaveInv
<1>1. job[w] \in Job /\ job[w].step \in {"facts", "alert"} /\ job[w].token \in Tokens
  BY DEF FactsPass, Alerted, At, WorkersType
<1>2. PICK step \in {"alert", "findRow"} : Goto(w, step)
  BY DEF FactsPass, Alerted
<1>3. WorkersType'
  BY <1>1, <1>2, WorkerGoes DEF Screening
<1>4. TablesType'
  BY <1>1 DEF FactsPass, Alerted, subscriptions, history, TablesType
<1>5. /\ job'[w].step \in {"alert", "findRow"} /\ job'[w].token = job[w].token
      /\ \A v \in Workers \ {w} : job'[v] = job[v]
  BY <1>1, <1>2 DEF Goto, WorkersType, Job
<1>6. \A t \in Tokens : Saving(t) => Saving(t)'
  BY <1>1, <1>5 DEF Saving
<1>7. AlertedIsSaved'
  <2>1. CASE FactsPass(w)
    <3>1. ASSUME NEW t \in Tokens, t = job[w].token PROVE Saving(t)'
      BY <1>1, <1>5, <3>1 DEF Saving
    <3>2. /\ rows' = rows /\ unsaved' = unsaved \ {job[w].token}
          /\ alerts' = alerts \cup {job[w].token}
      BY <2>1 DEF FactsPass
    <3>3. ASSUME NEW t \in alerts'
          PROVE  rows'[t] # None \/ Saving(t)' \/ t \in unsaved'
      BY <1>1, <1>6, <3>1, <3>2, <3>3 DEF AlertedIsSaved, TablesType
    <3> QED
      BY <3>3 DEF AlertedIsSaved
  <2>2. CASE Alerted(w)
    <3>1. rows' = rows /\ unsaved' = unsaved /\ alerts' = alerts
      BY <2>2 DEF Alerted, history
    <3>2. ASSUME NEW t \in alerts'
          PROVE  rows'[t] # None \/ Saving(t)' \/ t \in unsaved'
      BY <1>6, <3>1, <3>2 DEF AlertedIsSaved, TablesType
    <3> QED
      BY <3>2 DEF AlertedIsSaved
  <2> QED
    BY <2>1, <2>2
<1> QED
  BY <1>3, <1>4, <1>7

\* Each end of a save leaves a row or a refusal behind; a save that finds no row goes
\* on to create it.
LEMMA RowSave ==
    ASSUME SaveInv, NEW w \in Workers, FindRow(w) \/ CreateRow(w)
    PROVE  SaveInv'
<1> USE DEF SaveInv
<1> DEFINE t == job[w].token
<1>1. job[w] \in Job /\ job[w].step \in {"findRow", "createRow"} /\ t \in Tokens
      /\ job[w].step \in Screening /\ job[w].pool \in Pools
  BY DEF FindRow, CreateRow, At, WorkersType, Screening
<1>2. alerts' = alerts /\ taken' = taken /\ channel' = channel
  BY DEF FindRow, CreateRow, subscriptions
<1>3. ASSUME FindRow(w), rows[t] = None, Goto(w, "createRow"), UNCHANGED <<rows, unsaved>>
      PROVE  SaveInv'
  <2>1. WorkersType'
    BY <1>1, <1>3, WorkerGoes DEF Screening
  <2>2. TablesType'
    BY <1>2, <1>3 DEF TablesType
  <2>3. /\ job'[w].step = "createRow" /\ job'[w].token = t
        /\ \A v \in Workers \ {w} : job'[v] = job[v]
    BY <1>1, <1>3 DEF Goto, WorkersType, Job
  <2>4. AlertedIsSaved'
    BY <1>2, <1>3, <2>3 DEF AlertedIsSaved, Saving
  <2> QED
    BY <2>1, <2>2, <2>4
<1>4. ASSUME Return(w), rows' \in [Tokens -> Pools \cup {None}],
             \A x \in Tokens : rows[x] # None => rows'[x] # None,
             unsaved \subseteq unsaved', rows'[t] # None \/ t \in unsaved'
      PROVE  SaveInv'
  <2>1. WorkersType'
    BY <1>4, WorkerReturns
  <2>2. TablesType'
    BY <1>2, <1>4 DEF TablesType
  <2>3. \A v \in Workers \ {w} : job'[v] = job[v]
    BY <1>4 DEF Return, WorkersType
  <2>4. AlertedIsSaved'
    BY <1>2, <1>4, <2>3, AlertsSettled DEF TablesType
  <2> QED
    BY <2>1, <2>2, <2>4
<1>5. CASE SaveFails(w)
  BY <1>4, <1>5 DEF SaveFails, TablesType
<1>6. CASE rows[t] # None /\ Return(w) /\ UNCHANGED <<rows, unsaved>>
  BY <1>4, <1>6 DEF TablesType
<1>7. ASSUME rows' = [rows EXCEPT ![t] = job[w].pool], Return(w), UNCHANGED unsaved
      PROVE  SaveInv'
  <2>1. rows'[t] = job[w].pool /\ job[w].pool # None
    BY <1>1, <1>7, ScannerAssumption DEF TablesType
  <2>2. rows' \in [Tokens -> Pools \cup {None}]
    BY <1>1, <1>7 DEF TablesType
  <2>3. \A x \in Tokens : rows[x] # None => rows'[x] # None
    BY <1>7, <2>1 DEF TablesType
  <2> QED
    BY <1>4, <1>7, <2>1, <2>2, <2>3
<1> QED
  BY <1>3, <1>5, <1>6, <1>7 DEF FindRow, CreateRow

\* The process ends: what it was saving is unsaved.
LEMMA EndSave ==
    ASSUME SaveInv, ProcessEnds
    PROVE  SaveInv'
<1>1. \A w \in Workers : job'[w] = Idle
  BY DEF ProcessEnds
<1>2. Idle.step = "idle"
  BY DEF Idle
<1>3. WorkersType'
  <2>1. job' \in [Workers -> Job]
    BY IdleType DEF ProcessEnds
  <2> QED
    BY <1>1, <1>2, <2>1 DEF WorkersType, Screening
<1>4. TablesType'
  BY DEF ProcessEnds, SaveInv, TablesType
<1>5. AlertedIsSaved'
  BY DEF ProcessEnds, SaveInv, TablesType, AlertedIsSaved
<1> QED
  BY <1>3, <1>4, <1>5 DEF SaveInv

LEMMA NextSave == SaveInv /\ [Next]_vars => SaveInv'
<1> SUFFICES ASSUME SaveInv, [Next]_vars PROVE SaveInv'
  OBVIOUS
<1>1. ASSUME NEW f \in Factories, Reconnect(f) \/ Take(f) PROVE SaveInv'
  BY <1>1, ChannelSave
<1>2. ASSUME NEW f \in Factories, NEW p \in Pools, Deliver(f, p) PROVE SaveInv'
  BY <1>2, ChannelSave
<1>3. ASSUME NEW f \in Factories, Spawn(f) PROVE SaveInv'
  BY <1>3, SpawnSave
<1>4. CASE FindPool \/ \E t \in Tokens : TakeTransfer(t)
  BY <1>4, WatcherSave
<1>5. ASSUME NEW w \in Workers, Pipeline(w) PROVE SaveInv'
  BY <1>5, ScreenSave, FactsSave, RowSave DEF Pipeline
<1>6. ASSUME NEW w \in Workers, Hang(w) PROVE SaveInv'
  BY <1>6 DEF Hang, subscriptions, history, SaveInv, WorkersType, TablesType,
              AlertedIsSaved, Saving
<1>8. CASE Stopped \/ \E w \in Workers : FetchPanics(w)
  BY <1>8, EndSave DEF Stopped, FetchPanics
<1>9. CASE Restart
  BY <1>9 DEF Restart, subscriptions, history, SaveInv, WorkersType, TablesType,
              AlertedIsSaved, Saving
<1>7. CASE UNCHANGED vars
  BY <1>7 DEF vars, subscriptions, history, SaveInv, WorkersType, TablesType,
              AlertedIsSaved, Saving
<1> QED
  BY <1>1, <1>2, <1>3, <1>4, <1>5, <1>6, <1>7, <1>8, <1>9 DEF Next

\* ProcessNewPool and SaveTokenToDB: a token that was alerted is in the table, on its
\* way there, or its last alert was refused by the database or cut off by the end of
\* the process, however goroutines race to save it and whenever fetchTokenString panics.
THEOREM AlertedIsSavedHolds == Spec => []AlertedIsSaved
<1>1. SaveInv => AlertedIsSaved
  BY DEF SaveInv
<1> QED
  BY <1>1, InitSave, NextSave, PTL DEF Spec

-----------------------------------------------------------------------------
(* Screened once, and not again *)

CacheType ==
    /\ cache \in Seq(Keys) /\ Len(cache) <= CacheSize
    /\ \A i, j \in DOMAIN cache : cache[i] = cache[j] => i = j

HistoryType ==
    /\ \A f \in Factories : Len(channel[f]) <= ChannelSize
    /\ alive \in BOOLEAN /\ hung \subseteq Workers
    /\ screenings \in [Pools -> Screenings]
    /\ unsaved \subseteq Tokens

Adding(w, p) == job[w].step = "add" /\ job[w].pool = p

\* A pool that was screened once is in the cache; whoever is about to add one finds
\* it unscreened or excused, and of two that are, both are excused.
ScreenInv ==
    /\ RepeatsNeedRaceOrEviction
    /\ \A p \in Pools : screenings[p] = "once" => Cached(PoolKey(p))
    /\ \A w \in Workers, p \in Pools : Adding(w, p) => screenings[p] \in {"never", "excused"}
    /\ \A v, w \in Workers, p \in Pools :
         Adding(v, p) /\ Adding(w, p) /\ v # w => screenings[p] = "excused"

\* Add: the key is in front, no key is there twice, and no key is new but it.
LEMMA CacheAdds ==
    ASSUME CacheType, NEW k \in Keys, cache' = CacheWith(k)
    PROVE  CacheType' /\ Cached(k)'
<1> DEFINE n == Len(cache)
           a == PlaceOf(k)
           m == IF Cached(k) THEN n ELSE n + 1
           moved == MovedToFront(k)
           src(i) == IF i <= a THEN i - 1 ELSE i
           size == IF m < CacheSize THEN m ELSE CacheSize
<1>1. n \in Nat /\ DOMAIN cache = 1 .. n /\ CacheSize \in Nat /\ CacheSize >= 1
      /\ \A i \in 1 .. n : cache[i] \in Keys
  BY ScannerAssumption DEF CacheType
<1>2. /\ a \in 1 .. m /\ m \in Nat /\ m <= n + 1
      /\ \A i \in 1 .. n : cache[i] = k => i = a
      /\ \A i \in 2 .. m : src(i) \in 1 .. n /\ src(i) # a
      /\ \A i, j \in 2 .. m : src(i) = src(j) => i = j
  <2>1. CASE Cached(k)
    <3>1. \E i \in DOMAIN cache : cache[i] = k
      BY <2>1 DEF Cached, ToSet
    <3>2. a \in 1 .. n /\ cache[a] = k
      BY <1>1, <2>1, <3>1 DEF PlaceOf
    <3>3. \A i \in 1 .. n : cache[i] = k => i = a
      BY <1>1, <3>2 DEF CacheType
    <3> HIDE DEF a, n
    <3> QED
      BY <1>1, <2>1, <3>2, <3>3
  <2>2. CASE ~Cached(k)
    <3>1. a = n + 1 /\ m = n + 1
      BY <2>2 DEF PlaceOf
    <3>2. \A i \in 1 .. n : cache[i] # k
      BY <1>1, <2>2 DEF Cached, ToSet
    <3> HIDE DEF a, n, m
    <3> QED
      BY <1>1, <3>1, <3>2
  <2> QED
    BY <2>1, <2>2
<1>3. moved = [i \in 1 .. m |-> IF i = 1 THEN k ELSE IF i <= a THEN cache[i - 1] ELSE cache[i]]
  BY DEF MovedToFront
<1>4. Len(moved) = m
  <2> HIDE DEF m, a, n, moved
  <2> QED
    BY <1>2, <1>3
<1>5. cache' = [i \in 1 .. size |-> moved[i]]
  BY <1>4 DEF CacheWith
<1> HIDE DEF n, a, m, moved
<1>6. size \in 1 .. m /\ size <= CacheSize /\ m >= 1
  BY <1>1, <1>2
<1> HIDE DEF size
<1>7. \A i \in 1 .. size : cache'[i] = IF i = 1 THEN k ELSE cache[src(i)]
  BY <1>1, <1>2, <1>3, <1>5, <1>6
<1>8. \A i \in 1 .. size : i # 1 => i \in 2 .. m
  BY <1>1, <1>2, <1>6
<1>9. \A i \in 1 .. size : cache'[i] \in Keys /\ (i # 1 => cache'[i] # k)
  <2>1. ASSUME NEW i \in 1 .. size, i # 1 PROVE cache'[i] \in Keys /\ cache'[i] # k
    <3>1. i \in 2 .. m /\ cache'[i] = cache[src(i)]
      BY <1>7, <1>8, <2>1
    <3>2. src(i) \in 1 .. n /\ src(i) # a
      BY <1>2, <3>1
    <3> HIDE DEF src
    <3> QED
      BY <1>1, <1>2, <3>1, <3>2
  <2> QED
    BY <1>6, <1>7, <2>1
<1>10. cache' \in Seq(Keys) /\ Len(cache') = size /\ DOMAIN cache' = 1 .. size
  BY <1>1, <1>5, <1>6, <1>9
<1>11. ASSUME NEW i \in 1 .. size, NEW j \in 1 .. size, cache'[i] = cache'[j] PROVE i = j
  <2>1. CASE i = 1 \/ j = 1
    BY <1>6, <1>7, <1>9, <1>11, <2>1
  <2>2. CASE i # 1 /\ j # 1
    <3>1. i \in 2 .. m /\ j \in 2 .. m /\ cache[src(i)] = cache[src(j)]
      BY <1>7, <1>8, <1>11, <2>2
    <3>2. src(i) \in DOMAIN cache /\ src(j) \in DOMAIN cache
      BY <1>1, <1>2, <3>1
    <3>3. src(i) = src(j)
      BY <3>1, <3>2 DEF CacheType
    <3> HIDE DEF src
    <3> QED
      BY <1>2, <3>1, <3>3
  <2> QED
    BY <2>1, <2>2
<1>12. 1 \in DOMAIN cache' /\ cache'[1] = k
  BY <1>6, <1>7, <1>10
<1> QED
  BY <1>6, <1>10, <1>11, <1>12 DEF CacheType, Cached, ToSet

LEMMA KeysDiffer ==
    /\ \A p \in Pools : PoolKey(p) \in Keys
    /\ \A t \in Tokens : SmartKey(t) \in Keys
    /\ \A p, q \in Pools : PoolKey(p) = PoolKey(q) => p = q
  BY DEF PoolKey, SmartKey, Keys

LEMMA ExcuseType ==
    ASSUME HistoryType, NEW ps
    PROVE  Excuse(ps) \in [Pools -> Screenings]
  BY DEF HistoryType, Excuse, Screenings

LEMMA InitScreen == Init => CacheType /\ HistoryType /\ ScreenInv
<1> SUFFICES ASSUME Init PROVE CacheType /\ HistoryType /\ ScreenInv
  OBVIOUS
<1>1. CacheType
  BY ScannerAssumption DEF Init, CacheType
<1>2. HistoryType
  BY ScannerAssumption DEF Init, HistoryType, Screenings
<1>3. \A w \in Workers : job[w].step = "idle"
  BY DEF Init, Idle
<1> QED
  BY <1>1, <1>2, <1>3 DEF Init, ScreenInv, RepeatsNeedRaceOrEviction, Adding

\* A step that leaves cache and history alone, and lets nobody come to the point of adding.
LEMMA ScreenKept ==
    ASSUME ScreenInv, screenings' = screenings, cache' = cache,
           \A w \in Workers : job'[w] = job[w] \/ job'[w].step # "add"
    PROVE  ScreenInv'
<1>1. \A w \in Workers, p \in Pools : Adding(w, p)' => Adding(w, p)
  BY DEF Adding
<1>2. \A p \in Pools : Cached(PoolKey(p)) => Cached(PoolKey(p))'
  BY DEF Cached, ToSet
<1>3. RepeatsNeedRaceOrEviction'
  BY DEF ScreenInv, RepeatsNeedRaceOrEviction
<1>4. \A p \in Pools : screenings'[p] = "once" => Cached(PoolKey(p))'
  BY <1>2 DEF ScreenInv
<1>5. \A w \in Workers, p \in Pools : Adding(w, p)' => screenings'[p] \in {"never", "excused"}
  BY <1>1 DEF ScreenInv
<1>6. \A v, w \in Workers, p \in Pools :
        Adding(v, p)' /\ Adding(w, p)' /\ v # w => screenings'[p] = "excused"
  BY <1>1 DEF ScreenInv
<1> QED
  BY <1>3, <1>4, <1>5, <1>6 DEF ScreenInv, Adding

LEMMA ExcuseIs ==
    ASSUME HistoryType, RepeatsNeedRaceOrEviction, NEW ps, NEW p \in Pools
    PROVE  Excuse(ps)[p] = IF p \in ps THEN "excused" ELSE screenings[p]
  BY DEF HistoryType, RepeatsNeedRaceOrEviction, Excuse

\* Two goroutines that both find the pool missing from the cache: the second one excuses it.
LEMMA CheckScreen ==
    ASSUME SaveInv, HistoryType, ScreenInv, NEW w \in Workers, Check(w)
    PROVE  HistoryType' /\ ScreenInv'
<1> DEFINE p == job[w].pool
           ps == IF Racing(p) THEN {p} ELSE {}
<1>1. p \in Pools /\ job \in [Workers -> Job]
  BY DEF Check, At, SaveInv, WorkersType, Screening
<1>2. CASE Cached(PoolKey(p))
  <2>1. Return(w) /\ screenings' = screenings /\ cache' = cache
    BY <1>2 DEF Check
  <2>2. \A v \in Workers : job'[v] = job[v] \/ job'[v].step # "add"
    BY <1>1, <2>1 DEF Return, Idle
  <2> QED
    BY <2>1, <2>2, ScreenKept DEF Check, subscriptions, process, HistoryType
<1>3. CASE ~Cached(PoolKey(p))
  <2>1. Goto(w, "add") /\ screenings' = Excuse(ps) /\ cache' = cache
    BY <1>3 DEF Check
  <2>2. /\ job'[w].step = "add" /\ job'[w].pool = p
        /\ \A v \in Workers \ {w} : job'[v] = job[v]
    BY <1>1, <2>1 DEF Goto, Job
  <2>3. \A q \in Pools : screenings'[q] = IF q \in ps THEN "excused" ELSE screenings[q]
    BY <2>1, ExcuseIs DEF ScreenInv
  <2>4. HistoryType'
    BY <2>1, ExcuseType DEF Check, subscriptions, process, HistoryType
  <2>5. screenings[p] \in {"never", "excused"}
    BY <1>1, <1>3 DEF ScreenInv, RepeatsNeedRaceOrEviction, HistoryType, Screenings
  <2>6. \A v \in Workers \ {w}, q \in Pools : Adding(v, q)' <=> Adding(v, q)
    BY <2>2 DEF Adding
  <2>7. \A q \in Pools : Adding(w, q)' <=> q = p
    BY <2>2 DEF Adding
  <2>8. \A v \in Workers : Adding(v, p) => p \in ps
    BY DEF Adding, Racing
  <2> HIDE DEF p, ps
  <2>9. RepeatsNeedRaceOrEviction'
    BY <2>3 DEF ScreenInv, RepeatsNeedRaceOrEviction
  <2>10. \A q \in Pools : screenings'[q] = "once" => Cached(PoolKey(q))'
    BY <2>1, <2>3 DEF ScreenInv, Cached, ToSet
  <2>11. ASSUME NEW v \in Workers, NEW q \in Pools, Adding(v, q)'
         PROVE  screenings'[q] \in {"never", "excused"}
    BY <2>3, <2>5, <2>6, <2>7, <2>11 DEF ScreenInv
  <2>12. ASSUME NEW v \in Workers, NEW u \in Workers, NEW q \in Pools,
                Adding(v, q)', Adding(u, q)', v # u
         PROVE  screenings'[q] = "excused"
    <3>1. CASE v # w /\ u # w
      BY <2>3, <2>6, <2>12, <3>1 DEF ScreenInv
    <3>2. CASE v = w \/ u = w
      BY <2>3, <2>6, <2>7, <2>8, <2>12, <3>2
    <3> QED
      BY <3>1, <3>2
  <2> QED
    BY <2>4, <2>9, <2>10, <2>11, <2>12 DEF ScreenInv, Adding
<1> QED
  BY <1>2, <1>3

\* What the LRU drops is excused, and everything else that was in it still is.
LEMMA DropsScreen ==
    ASSUME CacheType, HistoryType, ScreenInv, NEW k \in Keys, cache' = CacheWith(k)
    PROVE  /\ \A p \in Pools : Excuse(Dropped(k))[p] = "once" =>
                screenings[p] = "once" /\ Cached(PoolKey(p))'
           /\ \A p \in Pools : Excuse(Dropped(k))[p] \in {screenings[p], "excused"}
<1>1. \A p \in Pools :
        Excuse(Dropped(k))[p] = IF p \in Dropped(k) THEN "excused" ELSE screenings[p]
  BY ExcuseIs DEF ScreenInv
<1>2. \A p \in Pools : p \notin Dropped(k) /\ Cached(PoolKey(p)) => Cached(PoolKey(p))'
  BY DEF Dropped, Cached
<1> QED
  BY <1>1, <1>2 DEF ScreenInv

LEMMA AddScreen ==
    ASSUME SaveInv, CacheType, HistoryType, ScreenInv, NEW w \in Workers, Add(w)
    PROVE  CacheType' /\ HistoryType' /\ ScreenInv'
<1> DEFINE p == job[w].pool
           k == PoolKey(p)
           excused == Excuse(Dropped(k))
<1>1. p \in Pools /\ job \in [Workers -> Job] /\ job[w].step = "add"
  BY DEF Add, At, SaveInv, WorkersType, Screening
<1>2. k \in Keys /\ cache' = CacheWith(k)
  BY <1>1, KeysDiffer DEF Add
<1>3. CacheType' /\ \E i \in DOMAIN cache' : cache'[i] = k
  <2>1. ASSUME NEW key \in Keys, cache' = CacheWith(key)
        PROVE  CacheType' /\ \E i \in DOMAIN cache' : cache'[i] = key
    BY <2>1, CacheAdds DEF Cached, ToSet
  <2> QED
    BY <1>2, <2>1
<1>4. excused \in [Pools -> Screenings]
  BY ExcuseType
<1>5. screenings' = [excused EXCEPT
                       ![p] = CASE @ = "never" -> "once" [] @ = "once" -> "repeated" [] OTHER -> @]
  BY DEF Add, Starts
<1>6. /\ \A q \in Pools : excused[q] = "once" => screenings[q] = "once" /\ Cached(PoolKey(q))'
      /\ \A q \in Pools : excused[q] \in {screenings[q], "excused"}
  BY <1>2, DropsScreen
<1>7. screenings[p] \in {"never", "excused"}
  BY <1>1 DEF ScreenInv, Adding
<1>8. /\ \A v \in Workers \ {w} : job'[v] = job[v]
      /\ job'[w].step # "add"
  BY <1>1 DEF Add, Goto, Job
<1> HIDE DEF excused
<1>9. HistoryType'
  <2>1. screenings' \in [Pools -> Screenings]
    BY <1>4, <1>5 DEF Screenings
  <2> QED
    BY <2>1 DEF Add, subscriptions, process, HistoryType
<1>10. /\ \A q \in Pools \ {p} : screenings'[q] = excused[q]
       /\ screenings'[p] \in {"once", "excused"}
       /\ excused[p] = "excused" => screenings'[p] = "excused"
  BY <1>1, <1>4, <1>5, <1>6, <1>7
<1>11. ASSUME NEW v \in Workers, NEW q \in Pools, Adding(v, q)'
       PROVE  Adding(v, q) /\ v # w
  BY <1>8, <1>11 DEF Adding
<1>12. ASSUME NEW v \in Workers, Adding(v, p), v # w
       PROVE  screenings'[p] = "excused"
  <2>1. screenings[p] = "excused"
    BY <1>1, <1>12 DEF ScreenInv, Adding
  <2> QED
    BY <1>1, <1>6, <1>10, <2>1
<1> HIDE DEF p
<1>13. RepeatsNeedRaceOrEviction'
  BY <1>6, <1>10 DEF ScreenInv, RepeatsNeedRaceOrEviction
<1>14. \A q \in Pools : screenings'[q] = "once" => Cached(PoolKey(q))'
  <2>1. ASSUME NEW q \in Pools, q = p PROVE Cached(PoolKey(q))'
    BY <1>3, <2>1 DEF Cached, ToSet
  <2> QED
    BY <1>6, <1>10, <2>1
<1>15. ASSUME NEW v \in Workers, NEW q \in Pools, Adding(v, q)'
       PROVE  screenings'[q] \in {"never", "excused"}
  BY <1>6, <1>10, <1>11, <1>12, <1>15 DEF ScreenInv
<1>16. ASSUME NEW v \in Workers, NEW u \in Workers, NEW q \in Pools,
              Adding(v, q)', Adding(u, q)', v # u
       PROVE  screenings'[q] = "excused"
  <2>1. screenings[q] = "excused"
    BY <1>11, <1>16 DEF ScreenInv
  <2> QED
    BY <1>6, <1>10, <1>11, <1>12, <1>16, <2>1
<1> QED
  BY <1>3, <1>9, <1>13, <1>14, <1>15, <1>16 DEF ScreenInv, Adding

LEMMA WatcherScreen ==
    ASSUME SaveInv, CacheType, HistoryType, ScreenInv, NEW t \in Tokens, TakeTransfer(t)
    PROVE  CacheType' /\ HistoryType' /\ ScreenInv'
<1> DEFINE k == SmartKey(t)
<1>1. k \in Keys /\ cache' = CacheWith(k) /\ screenings' = Excuse(Dropped(k))
  BY KeysDiffer DEF TakeTransfer
<1>2. CacheType'
  BY <1>1, CacheAdds
<1>3. HistoryType'
  BY <1>1, ExcuseType DEF TakeTransfer, subscriptions, process, HistoryType
<1>4. /\ \A q \in Pools : screenings'[q] = "once" => screenings[q] = "once" /\ Cached(PoolKey(q))'
      /\ \A q \in Pools : screenings'[q] \in {screenings[q], "excused"}
  BY <1>1, DropsScreen
<1>5. \A v \in Workers, q \in Pools : Adding(v, q)' => Adding(v, q)
  <2>1. [Idle EXCEPT !.step = "findPool", !.token = t].step # "add"
    BY DEF Idle
  <2>2. \A v \in Workers : job'[v] = job[v] \/ job'[v].step # "add"
    BY <2>1 DEF TakeTransfer, SaveInv, WorkersType
  <2> QED
    BY <2>2 DEF Adding
<1>6. RepeatsNeedRaceOrEviction'
  BY <1>4 DEF ScreenInv, RepeatsNeedRaceOrEviction
<1>7. \A v \in Workers, q \in Pools : Adding(v, q)' => screenings'[q] \in {"never", "excused"}
  BY <1>4, <1>5 DEF ScreenInv
<1>8. \A v, u \in Workers, q \in Pools :
        Adding(v, q)' /\ Adding(u, q)' /\ v # u => screenings'[q] = "excused"
  BY <1>4, <1>5 DEF ScreenInv
<1> QED
  BY <1>2, <1>3, <1>4, <1>6, <1>7, <1>8 DEF ScreenInv, Adding

\* No other step adds, checks or drops.
LEMMA OtherScreen ==
    ASSUME SaveInv, CacheType, HistoryType, ScreenInv,
           screenings' = screenings, cache' = cache,
           NEW w \in Workers, job[w].step # "add", job'[w].step # "add",
           \A v \in Workers \ {w} : job'[v] = job[v]
    PROVE  CacheType' /\ ScreenInv'
<1>1. \A v \in Workers : job'[v] = job[v] \/ job'[v].step # "add"
  OBVIOUS
<1> QED
  BY <1>1, ScreenKept DEF CacheType

LEMMA PipelineScreen ==
    ASSUME SaveInv, CacheType, HistoryType, ScreenInv, NEW w \in Workers,
           Fetched(w) \/ AuditAgain(w) \/ AuditPasses(w) \/ FactsPass(w) \/ Alerted(w) \/ Reject(w)
           \/ FindRow(w) \/ CreateRow(w)
    PROVE  CacheType' /\ HistoryType' /\ ScreenInv'
<1>1. job \in [Workers -> Job] /\ job[w] \in Job
  BY DEF SaveInv, WorkersType
<1>2. screenings' = screenings /\ cache' = cache /\ channel' = channel /\ process' = process
  BY DEF Fetched, AuditAgain, AuditPasses, FactsPass, Alerted, Reject, FindRow, CreateRow, subscriptions, process, history
<1>3. job[w].step \in {"fetch", "audit", "facts", "alert", "findRow", "createRow"}
  BY DEF Fetched, AuditAgain, AuditPasses, FactsPass, Alerted, Reject, FindRow, CreateRow, At
<1>4. ASSUME Return(w) PROVE job'[w].step # "add" /\ \A v \in Workers \ {w} : job'[v] = job[v]
  BY <1>1, <1>4 DEF Return, Idle
<1>5. ASSUME NEW step \in {"audit", "facts", "alert", "findRow", "createRow"}, Goto(w, step)
      PROVE  job'[w].step # "add" /\ \A v \in Workers \ {w} : job'[v] = job[v]
  BY <1>1, <1>5 DEF Goto, Job
<1>6. ASSUME job' = [job EXCEPT ![w].tries = @ + 1]
      PROVE  job'[w].step # "add" /\ \A v \in Workers \ {w} : job'[v] = job[v]
  BY <1>1, <1>3, <1>6 DEF Job
<1>7. job'[w].step # "add" /\ \A v \in Workers \ {w} : job'[v] = job[v]
  BY <1>4, <1>5, <1>6
  DEF Fetched, AuditAgain, AuditPasses, FactsPass, Alerted, Reject, FindRow, CreateRow, SaveFails
<1>8. CacheType' /\ ScreenInv'
  BY <1>2, <1>3, <1>7, OtherScreen
<1>9. unsaved' \subseteq Tokens
  <2>1. unsaved' \subseteq unsaved \cup {job[w].token}
    BY DEF Fetched, AuditAgain, AuditPasses, FactsPass, Alerted, Reject, FindRow, CreateRow, SaveFails, history
  <2>2. job[w].step \in {"findRow", "createRow"} \/ unsaved' \subseteq unsaved
    BY DEF Fetched, AuditAgain, AuditPasses, FactsPass, Alerted, Reject, FindRow, CreateRow, At, history
  <2>3. job[w].step \in {"findRow", "createRow"} => job[w].token \in Tokens
    BY DEF SaveInv, WorkersType
  <2> QED
    BY <2>1, <2>2, <2>3 DEF HistoryType
<1> QED
  BY <1>2, <1>8, <1>9 DEF process, HistoryType

LEMMA ChannelScreen ==
    ASSUME SaveInv, CacheType, HistoryType, ScreenInv, NEW f \in Factories,
           Reconnect(f) \/ Take(f) \/ Spawn(f) \/ \E p \in Pools : Deliver(f, p)
    PROVE  CacheType' /\ HistoryType' /\ ScreenInv'
<1>1. /\ screenings' = screenings /\ cache' = cache /\ process' = process /\ unsaved' = unsaved
  BY DEF Reconnect, Take, Spawn, Deliver, history
<1>2. \A v \in Workers : job'[v] = job[v] \/ job'[v].step # "add"
  BY DEF Reconnect, Take, Spawn, Deliver, SaveInv, WorkersType, Workers
<1>3. \A g \in Factories : Len(channel'[g]) <= ChannelSize
  <2>1. channel \in [Factories -> Seq(Pools)] /\ ChannelSize \in Nat \ {0}
    BY ScannerAssumption DEF SaveInv, TablesType
  <2>2. \A g \in Factories \ {f} : channel'[g] = channel[g]
    BY <2>1 DEF Reconnect, Take, Spawn, Deliver
  <2>3. Len(channel'[f]) <= ChannelSize
    <3>1. CASE Reconnect(f)
      BY <2>1, <3>1 DEF Reconnect
    <3>2. CASE Take(f)
      <4>1. channel[f] # << >> /\ channel'[f] = Tail(channel[f]) /\ channel[f] \in Seq(Pools)
        BY <2>1, <3>2 DEF Take
      <4>2. Len(Tail(channel[f])) = Len(channel[f]) - 1 /\ Len(channel[f]) \in Nat
        BY <4>1
      <4> QED
        BY <2>1, <4>1, <4>2 DEF HistoryType
    <3>3. CASE Spawn(f)
      BY <3>3 DEF Spawn, HistoryType
    <3>4. ASSUME NEW p \in Pools, Deliver(f, p) PROVE Len(channel'[f]) <= ChannelSize
      <4>1. Len(channel[f]) < ChannelSize /\ channel'[f] = Append(channel[f], p)
            /\ channel[f] \in Seq(Pools)
        BY <2>1, <3>4 DEF Deliver
      <4>2. Len(Append(channel[f], p)) = Len(channel[f]) + 1 /\ Len(channel[f]) \in Nat
        BY <4>1
      <4> QED
        BY <2>1, <4>1, <4>2
    <3> QED
      BY <3>1, <3>2, <3>3, <3>4
  <2> QED
    BY <2>2, <2>3 DEF HistoryType
<1> QED
  BY <1>1, <1>2, <1>3, ScreenKept DEF CacheType, process, HistoryType

\* The next process starts with an empty LRU and a history of its own.
LEMMA EndScreen ==
    ASSUME HistoryType, ProcessEnds
    PROVE  CacheType' /\ HistoryType' /\ ScreenInv'
<1>1. \A p \in Pools : screenings'[p] = "never"
  BY DEF ProcessEnds
<1>2. \A w \in Workers : job'[w].step = "idle"
  BY DEF ProcessEnds, Idle
<1>3. CacheType'
  BY ScannerAssumption DEF ProcessEnds, CacheType
<1>4. HistoryType'
  <2>1. \A f \in Factories : Len(channel'[f]) <= ChannelSize
    <3>1. \A f \in Factories : channel'[f] = << >>
      BY DEF ProcessEnds
    <3> QED
      BY <3>1, ScannerAssumption
  <2>2. screenings' \in [Pools -> Screenings]
    BY DEF ProcessEnds, Screenings
  <2>3. alive' \in BOOLEAN /\ hung' \subseteq Workers /\ unsaved' \subseteq Tokens
    BY DEF ProcessEnds, HistoryType
  <2> QED
    BY <2>1, <2>2, <2>3 DEF HistoryType
<1> QED
  BY <1>1, <1>2, <1>3, <1>4 DEF ScreenInv, RepeatsNeedRaceOrEviction, Adding

LEMMA NextScreen ==
    SaveInv /\ CacheType /\ HistoryType /\ ScreenInv /\ [Next]_vars
      => CacheType' /\ HistoryType' /\ ScreenInv'
<1> SUFFICES ASSUME SaveInv, CacheType, HistoryType, ScreenInv, [Next]_vars
             PROVE  CacheType' /\ HistoryType' /\ ScreenInv'
  OBVIOUS
<1>1. ASSUME NEW f \in Factories, Reconnect(f) \/ Take(f) \/ Spawn(f)
      PROVE  CacheType' /\ HistoryType' /\ ScreenInv'
  BY <1>1, ChannelScreen
<1>2. ASSUME NEW f \in Factories, NEW p \in Pools, Deliver(f, p)
      PROVE  CacheType' /\ HistoryType' /\ ScreenInv'
  BY <1>2, ChannelScreen
<1>3. ASSUME NEW t \in Tokens, TakeTransfer(t)
      PROVE  CacheType' /\ HistoryType' /\ ScreenInv'
  BY <1>3, WatcherScreen
<1>4. CASE FindPool
  <2>1. Watcher \in Workers /\ job[Watcher] \in Job /\ job \in [Workers -> Job]
    BY DEF Workers, SaveInv, WorkersType
  <2>2. job'[Watcher].step # "add" /\ \A v \in Workers \ {Watcher} : job'[v] = job[v]
    BY <1>4, <2>1 DEF FindPool, Return, Idle, Job
  <2>3. \A v \in Workers : job'[v] = job[v] \/ job'[v].step # "add"
    BY <2>2
  <2> QED
    BY <1>4, <2>3, ScreenKept DEF FindPool, subscriptions, process, history, CacheType, HistoryType
<1>5. ASSUME NEW w \in Workers, Pipeline(w)
      PROVE  CacheType' /\ HistoryType' /\ ScreenInv'
  <2>1. CASE Check(w)
    BY <2>1, CheckScreen DEF Check, CacheType
  <2>2. CASE Add(w)
    BY <2>2, AddScreen
  <2> QED
    BY <1>5, <2>1, <2>2, PipelineScreen DEF Pipeline
<1>6. ASSUME NEW w \in Workers, Hang(w)
      PROVE  CacheType' /\ HistoryType' /\ ScreenInv'
  BY <1>6, ScreenKept DEF Hang, subscriptions, history, CacheType, HistoryType
<1>8. CASE Stopped \/ \E w \in Workers : FetchPanics(w)
  BY <1>8, EndScreen DEF Stopped, FetchPanics
<1>9. CASE Restart
  BY <1>9, ScreenKept DEF Restart, subscriptions, history, CacheType, HistoryType
<1>7. CASE UNCHANGED vars
  BY <1>7, ScreenKept DEF vars, subscriptions, process, history, CacheType, HistoryType
<1> QED
  BY <1>1, <1>2, <1>3, <1>4, <1>5, <1>6, <1>7, <1>8, <1>9 DEF Next

LEMMA ScannerInvariant == Spec => [](SaveInv /\ CacheType /\ HistoryType /\ ScreenInv)
  BY InitSave, NextSave, InitScreen, NextScreen, PTL DEF Spec

\* The LRU never holds more than its size nor a key twice, whatever order goroutines add
\* in; the channels keep within theirs; and every worker's job is one the code can have.
THEOREM TypeCorrect == Spec => []TypeOK
<1>1. SaveInv /\ CacheType /\ HistoryType => TypeOK
  BY DEF SaveInv, WorkersType, TablesType, CacheType, HistoryType, TypeOK
<1> QED
  BY <1>1, ScannerInvariant, PTL

\* In one process, ProcessNewPool screens a pool again only after two goroutines were between Contains
\* and Add for it at once, or after the LRU dropped it: no reorganised log, no
\* reconnection and no outcome of an earlier screening starts a second one.
THEOREM RepeatsAreExplained == Spec => []RepeatsNeedRaceOrEviction
<1>1. ScreenInv => RepeatsNeedRaceOrEviction
  BY DEF ScreenInv
<1> QED
  BY <1>1, ScannerInvariant, PTL
=============================================================================
