------------------------------ MODULE ConfigApi ------------------------------
(***************************************************************************)
(* Settings: the POST handler of /api/config, which saves the keys of its  *)
(* body one by one and answers success whatever happened, the encrypted    *)
(* table it writes, GetConfig with its fall-back to the environment, and   *)
(* startTradingEngine, which reads what decides between simulated and live *)
(* trading while the server is already open.                               *)
(***************************************************************************)
EXTENDS Naturals, FiniteSets

CONSTANTS
    Handlers,       \* goroutines of the server
    Credentials,    \* accounts of the exchange: a key and the secret that belongs to it
    MasterKeys,     \* values MASTER_KEY may have
    Env,            \* the environment: setting -> value, "" when it is not set
    Unknown,        \* nothing is saved; nothing is known
    MaxPosts, MaxFailures, MaxRestarts  \* bounds

\* BINANCE_API_KEY, BINANCE_API_SECRET and TRADE_ENABLED, in the order they are read.
Settings == {"key", "secret", "enabled"}
Pair == {"key", "secret"}
Following(s) == CASE s = "key" -> "secret" [] s = "secret" -> "enabled" [] OTHER -> "done"

Values == Credentials \cup {"true", "false", ""}

ASSUME ConfigAssumption ==
    /\ "" \notin Credentials /\ Credentials \cap {"true", "false"} = {}
    /\ Unknown \notin Values /\ MasterKeys # {}
    /\ \A v \in Values, k \in MasterKeys : Unknown # [value |-> v, under |-> k]
    /\ Env \in [Settings -> Values] /\ Env["key"] = Env["secret"]
    /\ {MaxPosts, MaxFailures, MaxRestarts} \subseteq Nat

VARIABLES
    masterKey,  \* of this process
    table,      \* system_configs: setting -> the value and the key it is encrypted under
    post,       \* handler -> the request it serves
    engine,     \* what startTradingEngine has read
    settled,    \* history: setting -> what the last request left, unless in doubt
    halves,     \* history: the saved key and secret may belong to different accounts
    used        \* posts, failed statements and restarts so far

vars == <<masterKey, table, post, engine, settled, halves, used>>

Row == [value : Values \ {""}, under : MasterKeys]
Payload == [Settings -> Values]
NoPost == [body |-> [s \in Settings |-> ""], left |-> {}, clean |-> TRUE, open |-> FALSE]

\* next: the setting it reads next.  blind: a read failed.  mixable: what it reads of
\* the pair may have been written by two requests.
Start == [next |-> "key", got |-> [s \in Settings |-> ""], expected |-> [s \in Settings |-> Unknown],
          blind |-> FALSE, mixable |-> FALSE, mode |-> "none"]

TypeOK ==
    /\ masterKey \in MasterKeys
    /\ table \in [Settings -> Row \cup {Unknown}]
    /\ post \in [Handlers -> [body : Payload, left : SUBSET Settings, clean : BOOLEAN, open : BOOLEAN]]
    /\ engine \in [next : Settings \cup {"done"}, got : Payload,
                   expected : [Settings -> Values \cup {Unknown}],
                   blind : BOOLEAN, mixable : BOOLEAN, mode : {"none", "simulated", "live"}]
    /\ settled \in [Settings -> Values \cup {Unknown}] /\ halves \in BOOLEAN
    /\ used \in [posts : 0 .. MaxPosts, failures : 0 .. MaxFailures, restarts : 0 .. MaxRestarts]

Init ==
    /\ masterKey \in MasterKeys
    /\ table = [s \in Settings |-> Unknown]
    /\ post = [h \in Handlers |-> NoPost]
    /\ engine = Start
    /\ settled = Env /\ halves = FALSE
    /\ used = [posts |-> 0, failures |-> 0, restarts |-> 0]

\* A statement is executed (ok), or fails: also when there is no database.
Statement(ok) ==
    /\ ~ok => used.failures < MaxFailures
    /\ used' = [used EXCEPT !.failures = IF ok THEN @ ELSE @ + 1]

-----------------------------------------------------------------------------
(* GetConfig and SetConfig *)

\* A row another master key encrypted does not decrypt to base64.
Decrypts(row) == row # Unknown /\ row.under = masterKey

\* Mutant: without the environment to fall back to.
GetConfigOrNone(s, ok) == IF ok /\ Decrypts(table[s]) THEN table[s].value ELSE Unknown

GetConfig(s, ok) == IF ok /\ Decrypts(table[s]) THEN table[s].value ELSE Env[s]

\* Mutant: a setting that has a row keeps it.
SavedOnce(s, value) ==
    IF table[s] # Unknown THEN table
    ELSE [table EXCEPT ![s] = [value |-> value, under |-> masterKey]]

\* SetConfig: the row is saved whole.
Saved(s, value) == [table EXCEPT ![s] = [value |-> value, under |-> masterKey]]

-----------------------------------------------------------------------------
(* POST /api/config *)

Open(h) == post[h].open

\* Mutant: empty values are saved too.
AllNamed(body) == Settings

\* Mutant: the loop returns after its first key.
FirstNamed(body) ==
    LET named == {s \in Settings : body[s] # ""}
    IN  IF named = {} THEN {} ELSE {CHOOSE s \in named : TRUE}

\* Only values that are not empty are saved.
Named(body) == {s \in Settings : body[s] # ""}

\* A body that cannot be decoded is not a request here: nothing happens.
Post(h, body) ==
    /\ ~Open(h) /\ used.posts < MaxPosts
    /\ post' = [g \in Handlers |->
         CASE g = h -> [body |-> body, left |-> Named(body), open |-> TRUE,
                        clean |-> \A other \in Handlers : ~Open(other)]
           [] g # h /\ Open(g) -> [post[g] EXCEPT !.clean = FALSE]
           [] OTHER -> post[g]]
    /\ settled' = [s \in Settings |-> IF body[s] # "" THEN Unknown ELSE settled[s]]
    /\ used' = [used EXCEPT !.posts = @ + 1]
    /\ UNCHANGED <<masterKey, table, engine, halves>>

\* The loop over the map, in any order.  An error is not looked at.  A request that is
\* open besides another one, or whose save failed, leaves doubt.
Save(h, s, ok) ==
    /\ Open(h) /\ s \in post[h].left /\ Statement(ok)
    /\ table' = IF ok THEN Saved(s, post[h].body[s]) ELSE table
    /\ post' = [post EXCEPT ![h].left = @ \ {s}, ![h].clean = @ /\ ok]
    /\ settled' = [settled EXCEPT ![s] = Unknown]
    /\ halves' = (halves \/ s \in Pair)
    /\ engine' = [engine EXCEPT !.mixable = @ \/ (s \in Pair /\ engine.next = "secret")]
    /\ UNCHANGED masterKey

\* Success is the answer in any case.  What a clean request has saved is settled.
Answer(h) ==
    LET body == post[h].body
        clean == post[h].clean
    IN  /\ Open(h) /\ post[h].left = {}
        /\ settled' = [s \in Settings |-> IF clean /\ body[s] # "" THEN body[s] ELSE settled[s]]
        /\ halves' = (halves /\ ~(clean /\ body["key"] # "" /\ body["secret"] # ""))
        /\ post' = [post EXCEPT ![h] = NoPost]
        /\ UNCHANGED <<masterKey, table, engine, used>>

-----------------------------------------------------------------------------
(* startTradingEngine *)

\* Real orders need both parts of the pair.
Live(got) == got["key"] # "" /\ got["secret"] # "" /\ got["enabled"] = "true"

\* Three calls of GetConfig, then the mode for as long as the process runs.
Read(ok) ==
    LET s == engine.next
        got == [engine.got EXCEPT ![s] = GetConfig(s, ok)]
    IN  /\ s # "done" /\ Statement(ok)
        /\ engine' = [engine EXCEPT
             !.next = Following(s), !.got = got, !.expected = [@ EXCEPT ![s] = settled[s]],
             !.blind = @ \/ ~ok,
             !.mixable = @ \/ (s = "key" /\ halves),
             !.mode = CASE s # "enabled" -> "none"
                        [] s = "enabled" /\ Live(got) -> "live"
                        [] OTHER -> "simulated"]
        /\ UNCHANGED <<masterKey, table, post, settled, halves>>

\* The process ends and starts again, perhaps with another MASTER_KEY.
Restart ==
    /\ used.restarts < MaxRestarts
    /\ used' = [used EXCEPT !.restarts = @ + 1]
    /\ masterKey' \in MasterKeys
    /\ post' = [h \in Handlers |-> NoPost]
    /\ engine' = Start
    /\ settled' = IF masterKey' = masterKey THEN settled ELSE [s \in Settings |-> Unknown]
    /\ UNCHANGED <<table, halves>>

-----------------------------------------------------------------------------
\* Who posts both parts of a pair posts the two that belong together.
Bodies == {b \in Payload :
    /\ \E c \in Credentials : b["key"] \in {c, ""} /\ b["secret"] \in {c, ""}
    /\ b["enabled"] \in {"true", "false", ""}}

Next ==
    \/ \E h \in Handlers :
         \/ \E body \in Bodies : Post(h, body)
         \/ \E s \in Settings, ok \in BOOLEAN : Save(h, s, ok)
         \/ Answer(h)
    \/ \E ok \in BOOLEAN : Read(ok)
    \/ Restart

Spec == Init /\ [][Next]_vars

-----------------------------------------------------------------------------
(* Properties *)

\* The engine starts with what the last answered request left of each setting, or the
\* environment if there was none: unless a save or a read failed, requests overlapped,
\* one is under way, or the process came back with another master key.
StartUsesSettled ==
    \A s \in Settings :
      engine.expected[s] # Unknown /\ ~engine.blind => engine.got[s] = engine.expected[s]

\* The engine never signs with the key of one account and the secret of another because
\* of what a finished request wrote: only a request that was cut off, overlapped another
\* one or the start itself, named one of the two or failed half-way, can mix them, and
\* the next complete request ends that.
CredentialsBelongTogether ==
    engine.next \in {"enabled", "done"} /\ ~engine.blind /\ ~engine.mixable =>
      engine.got["key"] = engine.got["secret"]

\* No request, whatever it names, and no failure of one takes a setting away that the
\* process can read: an empty field of the form leaves it as it is.
ConfiguredStays ==
    [][masterKey' = masterKey =>
         \A s \in Settings : GetConfig(s, TRUE) # "" => (GetConfig(s, TRUE))' # ""]_vars
=============================================================================
