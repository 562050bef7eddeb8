---------------------------- MODULE AlphaEngine -----------------------------
(***************************************************************************)
(* evaluateSmartWallets: every few hours it evaluates the wallets, clusters *)
(* those that trade together and aggregates the clusters, in three tables. *)
(* One step is one statement of the database, which ends in an error now   *)
(* and then that nobody looks at; the process may crash between any two.   *)
(***************************************************************************)
EXTENDS AlphaTables

CONSTANTS
    Amounts,            \* classes of equal amounts; two of one class differ by < 10 %
    SameFunds,          \* pairs of wallets funded by the same exchange
    Threshold,          \* ALPHA_CLUSTER_THRESHOLD
    TimeWindow,         \* ALPHA_CLUSTER_TIME_WINDOW_MINS
    MevThreshold,       \* ALPHA_MEV_THRESHOLD
    Day,                \* 24 hours
    MaxTrades           \* bound

\* CLUSTER-<date>-<n>; the numbers start again in every run.
Ids == (0 .. MaxClock) \X (1 .. Cardinality(Wallets))

ASSUME AlphaAssumption ==
    /\ SameFunds \subseteq {e \in SUBSET Wallets : Cardinality(e) = 2}
    /\ {Threshold, TimeWindow, MevThreshold, Day} \subseteq Nat \ {0}
    /\ MaxTrades \in Nat /\ 0 \notin Amounts /\ None \notin Ids

VARIABLES
    wallets,    \* table smart_wallets
    entities,   \* table smart_entities: id -> row
    run,        \* the evaluation: its step and what it has read
    graph,      \* history: the pairs over the threshold in the last run that cleared ids
    mixed,      \* history: that clearing failed
    finished    \* history: the last run ended, and no statement of it failed

tables == <<trades, wallets, entities>>
history == <<graph, mixed, finished>>
vars == <<clock, tables, run, failures, history>>

Pairs == {e \in SUBSET Wallets : Cardinality(e) = 2}

\* The amount is 0 in the rows of sales that the tracker books.
Trade == [wallet : Wallets, token : Tokens, amount : Amounts \cup {0}, time : 0..MaxClock]
Wallet == [trades : 0..MaxTrades, mev : BOOLEAN, cluster : Ids \cup {None}]
Entity == [count : Nat, trades : Nat]

IdleRun == [step |-> "idle", left |-> {}, edges |-> {}, parent |-> [w \in Wallets |-> w],
            members |-> {}, named |-> 0, id |-> None, ok |-> TRUE]

TypeOK ==
    /\ clock \in 0..MaxClock /\ failures \in 0..MaxFailures
    /\ trades \subseteq Trade
    /\ wallets \in [Wallets -> Wallet]
    /\ DOMAIN entities \subseteq Ids /\ \A id \in DOMAIN entities : entities[id] \in Entity
    /\ run.step \in {"idle", "evaluate", "unite", "name", "aggregate"}
    /\ run.edges \subseteq Pairs /\ graph \subseteq Pairs
    /\ run.parent \in [Wallets -> Wallets] /\ run.members \subseteq Wallets
    /\ run.named \in 0..Cardinality(Wallets) /\ run.id \in Ids \cup {None}
    /\ {mixed, finished, run.ok} \subseteq BOOLEAN

Init ==
    /\ clock = 0 /\ trades = {}
    /\ wallets = [w \in Wallets |-> [trades |-> 0, mev |-> FALSE, cluster |-> None]]
    /\ entities = [id \in {} |-> None]
    /\ run = IdleRun /\ failures = 0
    /\ graph = {} /\ mixed = FALSE /\ finished = FALSE

-----------------------------------------------------------------------------
(* Outside: time passes, trades are recorded.                               *)

Tick ==
    /\ clock < MaxClock
    /\ clock' = clock + 1
    /\ UNCHANGED <<tables, run, failures, history>>

\* The scanner or the sell tracker writes a row.
RecordTrade(w, t, a) ==
    /\ Cardinality(trades) < MaxTrades
    /\ trades' = trades \cup {[wallet |-> w, token |-> t, amount |-> a, time |-> clock]}
    /\ UNCHANGED <<clock, wallets, entities, run, failures, history>>

\* The process ends and starts again; only the tables are left.
Crash ==
    /\ run # IdleRun
    /\ run' = IdleRun
    /\ UNCHANGED <<clock, tables, failures, history>>

-----------------------------------------------------------------------------
(* evaluateSmartWallets *)

TradesOf(w) == {r \in trades : r.wallet = w}
Since(rows, age) == {r \in rows : r.time + age > clock}

Begin ==
    /\ run.step = "idle"
    /\ run' = [IdleRun EXCEPT !.step = "evaluate", !.left = Wallets]
    /\ finished' = FALSE
    /\ UNCHANGED <<clock, tables, failures, graph, mixed>>

Busy(rows) == Cardinality(rows) > MevThreshold

\* The row of one wallet is computed and saved.  Once a bot, always a bot.  Score,
\* win rate and ROI are computed here too; only the lists of wallets read them.
Evaluate(w) ==
    /\ run.step = "evaluate" /\ w \in run.left
    /\ \E ok \in BOOLEAN :
         /\ Statement(ok)
         /\ run' = [run EXCEPT !.left = @ \ {w}, !.ok = @ /\ ok]
         /\ wallets' = IF ~ok THEN wallets ELSE
              [wallets EXCEPT ![w].trades = Cardinality(TradesOf(w)),
                              ![w].mev = @ \/ (Busy(TradesOf(w)) /\ Busy(Since(TradesOf(w), Day)))]
    /\ UNCHANGED <<clock, trades, entities, history>>

-----------------------------------------------------------------------------
(* detectClusters *)

Apart(r, s) == IF r.time > s.time THEN r.time - s.time ELSE s.time - r.time

\* Two rows of different wallets that count, and what they weigh, in 1/TimeWindow.
Together(r, s) == r.token = s.token /\ Apart(r, s) <= TimeWindow

TimeWeight(r, s) == Max({5 * (TimeWindow - Apart(r, s)), TimeWindow})
AmountWeight(r, s) == IF r.amount = s.amount /\ r.amount # 0 THEN 5 * TimeWindow ELSE 0

Weight(e, funded) ==
    LET one == CHOOSE w \in e : TRUE
        seen == Since(trades, Week)
        both == {p \in {r \in seen : r.wallet = one} \X {r \in seen : r.wallet \in e \ {one}} :
                   Together(p[1], p[2])}
        weight(p) == TimeWeight(p[1], p[2]) + AmountWeight(p[1], p[2])
                       + (IF e \in funded THEN 20 * TimeWindow ELSE 0)
    IN  MapThenSumSet(weight, both)

\* The trades of a week are read and the pairs weighed.  The trace of a source of
\* funds may fail, and counts as none.
Weigh ==
    /\ run.step = "evaluate" /\ run.left = {}
    /\ \E funded \in SUBSET SameFunds :
         LET edges == {e \in Pairs : Weight(e, funded) >= Threshold * TimeWindow}
         IN  run' = [run EXCEPT !.step = "unite", !.left = edges, !.edges = edges]
    /\ UNCHANGED <<clock, tables, failures, history>>

\* What find walks from w: the wallets in every set that holds w and their parents.
Path(parent, w) ==
    {v \in Wallets : \A s \in SUBSET Wallets : (w \in s /\ \A u \in s : parent[u] \in s) => v \in s}

Root(parent, w) == CHOOSE r \in Path(parent, w) : parent[r] = r

\* find compresses the path it walked.
Found(parent, w) ==
    LET path == Path(parent, w)
        root == Root(parent, w)
    IN  [v \in Wallets |-> IF v \in path THEN root ELSE parent[v]]

\* Mutant: the wallet is linked, not its root.
UnionOfWallet(parent, i, j) ==
    LET p == Found(Found(parent, i), j)
    IN  [p EXCEPT ![i] = Root(p, j)]

Union(parent, i, j) ==
    LET p == Found(Found(parent, i), j)
    IN  [p EXCEPT ![Root(p, i)] = Root(p, j)]

\* The pairs over the threshold are united one by one, in the order of two maps.
Unite(e) ==
    /\ run.step = "unite" /\ e \in run.left
    /\ \E i, j \in e :
         /\ i # j
         /\ run' = [run EXCEPT !.left = @ \ {e}, !.parent = Union(@, i, j)]
    /\ UNCHANGED <<clock, tables, failures, history>>

Clusters(parent) ==
    LET root == [w \in Wallets |-> Root(parent, w)]
        of(r) == {w \in Wallets : root[w] = r}
    IN  {c \in {of(r) : r \in Wallets} : Cardinality(c) > 1}

\* Mutant: the old ids stay.
NotCleared ==
    /\ run.step = "unite" /\ run.left = {}
    /\ run' = [IdleRun EXCEPT !.step = "name", !.left = Clusters(run.parent), !.ok = run.ok]
    /\ graph' = run.edges /\ mixed' = FALSE
    /\ UNCHANGED <<clock, tables, failures, finished>>

\* One statement clears the ids of all wallets.  From here on the pairs and the
\* trees are not read again.
Clear ==
    /\ run.step = "unite" /\ run.left = {}
    /\ \E ok \in BOOLEAN :
         /\ Statement(ok)
         /\ run' = [IdleRun EXCEPT !.step = "name", !.left = Clusters(run.parent),
                                   !.ok = run.ok /\ ok]
         /\ wallets' = IF ok THEN [w \in Wallets |-> [wallets[w] EXCEPT !.cluster = None]]
                             ELSE wallets
         /\ mixed' = ~ok
    /\ graph' = run.edges
    /\ UNCHANGED <<clock, trades, entities, finished>>

\* Mutant: the numbers start at 0.
NameFromZero(c) ==
    /\ run.step = "name" /\ run.members = {} /\ c \in run.left
    /\ run' = [run EXCEPT !.left = @ \ {c}, !.members = c, !.named = @ + 1,
                          !.id = <<clock \div Day, run.named>>]
    /\ UNCHANGED <<clock, tables, failures, history>>

Name(c) ==
    /\ run.step = "name" /\ run.members = {} /\ c \in run.left
    /\ run' = [run EXCEPT !.left = @ \ {c}, !.members = c, !.named = @ + 1,
                          !.id = <<clock \div Day, run.named + 1>>]
    /\ UNCHANGED <<clock, tables, failures, history>>

WriteMember(w) ==
    /\ run.step = "name" /\ w \in run.members
    /\ \E ok \in BOOLEAN :
         /\ Statement(ok)
         /\ run' = [run EXCEPT !.members = @ \ {w}, !.ok = @ /\ ok]
         /\ wallets' = IF ok THEN [wallets EXCEPT ![w].cluster = run.id] ELSE wallets
    /\ UNCHANGED <<clock, trades, entities, history>>

-----------------------------------------------------------------------------
(* aggregateEntities *)

\* Mutant: bots count.
MembersWithBots(id) == {w \in Wallets : wallets[w].cluster = id}

Members(id) == {w \in Wallets : wallets[w].cluster = id /\ ~wallets[w].mev}

\* The trades of some wallets, one by one.
TradesOfAll(ws) == UNION {{w} \X (1..wallets[w].trades) : w \in ws}

Aggregated(id) ==
    [count |-> Cardinality(Members(id)), trades |-> Cardinality(TradesOfAll(Members(id)))]

\* One query groups the wallets by id.
Aggregate ==
    /\ run.step = "name" /\ run.left = {} /\ run.members = {}
    /\ run' = [IdleRun EXCEPT !.step = "aggregate", !.ok = run.ok,
                 !.left = {<<id, Aggregated(id)>> : id \in {i \in Ids : Members(i) # {}}}]
    /\ UNCHANGED <<clock, tables, failures, history>>

\* Save inserts or replaces; entities of ids nobody has any more stay.
SaveEntity(r) ==
    /\ run.step = "aggregate" /\ r \in run.left
    /\ \E ok \in BOOLEAN :
         /\ Statement(ok)
         /\ run' = [run EXCEPT !.left = @ \ {r}, !.ok = @ /\ ok]
         /\ entities' = IF ~ok THEN entities ELSE
              [id \in DOMAIN entities \cup {r[1]} |-> IF id = r[1] THEN r[2] ELSE entities[id]]
    /\ UNCHANGED <<clock, trades, wallets, history>>

Finish ==
    /\ run.step = "aggregate" /\ run.left = {}
    /\ run' = IdleRun /\ finished' = run.ok
    /\ UNCHANGED <<clock, tables, failures, graph, mixed>>

-----------------------------------------------------------------------------
Evaluation ==
    \/ Begin \/ Weigh \/ Clear \/ Aggregate \/ Finish
    \/ \E w \in Wallets : Evaluate(w) \/ WriteMember(w)
    \/ \E e \in Pairs : Unite(e)
    \/ \E c \in run.left : Name(c) \/ SaveEntity(c)

Next ==
    \/ Evaluation \/ Crash \/ Tick
    \/ \E w \in Wallets, t \in Tokens, a \in Amounts \cup {0} : RecordTrade(w, t, a)

Spec == Init /\ [][Next]_vars

-----------------------------------------------------------------------------
(* Properties *)

\* Reference: every set of wallets that the graph does not leave holds both.
Connected(a, b) ==
    \A s \in SUBSET Wallets :
        (a \in s /\ \A e \in graph : e \cap s # {} => e \subseteq s) => b \in s

\* After a run in which no statement failed, two wallets have the same id just when
\* a chain of pairs over the threshold joins them, in whatever order the pairs were
\* united; a wallet joined to no other has none.
ClustersAreComponents ==
    finished =>
      /\ \A a, b \in Wallets : a # b =>
           (Connected(a, b) <=> wallets[a].cluster # None /\ wallets[a].cluster = wallets[b].cluster)
      /\ \A a \in Wallets : wallets[a].cluster # None => \E b \in Wallets \ {a} : Connected(a, b)

\* At any moment, in the middle of a rewrite and after a crash, two wallets share an
\* id only if one run joined them: although every run numbers its clusters from 1,
\* ids of two runs never mix, unless the statement that clears them failed.
OneIdOneComponent ==
    ~mixed => \A a, b \in Wallets :
      (wallets[a].cluster # None /\ wallets[a].cluster = wallets[b].cluster) => Connected(a, b)

\* After such a run every cluster in use has an entity that counts its members and
\* their trades without the bots, also when an earlier run used the id for others.
EntitiesMatchClusters ==
    finished =>
      \A w \in Wallets :
        LET row == wallets[w]
            peers == {v \in Wallets : wallets[v].cluster = row.cluster /\ ~wallets[v].mev}
        IN  (row.cluster # None /\ ~row.mev) =>
              /\ row.cluster \in DOMAIN entities
              /\ entities[row.cluster] = [count |-> Cardinality(peers),
                                          trades |-> Cardinality(TradesOfAll(peers))]
=============================================================================
