---------------------------- MODULE SniperEngine ----------------------------
(***************************************************************************)
(* The SniperEngine of src/dex_sniper.go: any number of concurrent calls   *)
(* of SniperBuyAndTrack, the goroutine of monitorPositions and that of     *)
(* monitorRugPulls share the map positions under a mutex and talk to a     *)
(* chain that mines, reverts or forgets their transactions.  One step is   *)
(* one critical section or one call to the chain; a goroutine can be       *)
(* overtaken between any two.                                              *)
(***************************************************************************)
EXTENDS Naturals, Sequences, FiniteSets

CONSTANTS
    Buyers,     \* calls of SniperBuyAndTrack
    Tokens,
    None        \* no token, no entry

VARIABLES
    positions,  \* token -> None, a nil placeholder or an open position
    pc, target, \* buyer -> its step, the token it buys
    held,       \* buyer -> the balance it read
    buyTx, approveTx,   \* buyer -> status of its transactions
    sells,      \* the sell transactions broadcast, in order
    wallet,     \* token -> what the wallet owns on chain
    approved,   \* tokens the router may spend
    wss,        \* rpcWSS was dialled: monitorRugPulls does not return at once
    queue,      \* the positions of its snapshot monitorPositions has still to visit
    sale,       \* seller -> the call of executeSell it is in
    watching,   \* the pools the WSS subscription covers, or None without one
    drained,    \* tokens whose pool lost its liquidity
    alive,      \* the process has not panicked
    mishaps     \* history: tokens for which a call failed after money was spent

chain == <<buyTx, approveTx, sells, wallet, approved, drained>>
buyers == <<pc, target, held>>
sellers == <<wss, queue, sale, watching>>
vars == <<positions, buyers, chain, sellers, alive, mishaps>>

Sellers == {"monitor", "rug"}
Statuses == {"unsent", "sent", "mined", "reverted"}

\* by names the call that made the entry; open is FALSE for the nil placeholder.
Entry == [by : Buyers, open : BOOLEAN, amount : Nat]
Sell == [token : Tokens, amount : Nat, status : Statuses]

ASSUME SniperAssumption == None \notin Entry

Sale == [step : {"idle", "chosen", "removed", "waiting"}, token : Tokens \cup {None},
         amount : Nat, isNil : BOOLEAN, tx : Nat]
NoSale == [step |-> "idle", token |-> None, amount |-> 0, isNil |-> FALSE, tx |-> 0]

Active == {"buying", "waitBuy", "balance", "approving", "waitApprove", "storing"}

TypeOK ==
    /\ positions \in [Tokens -> Entry \cup {None}]
    /\ pc \in [Buyers -> Active \cup {"idle", "done", "failed"}]
    /\ target \in [Buyers -> Tokens \cup {None}]
    /\ held \in [Buyers -> Nat]
    /\ {buyTx, approveTx} \subseteq [Buyers -> Statuses]
    /\ sells \in Seq(Sell)
    /\ wallet \in [Tokens -> Nat]
    /\ approved \subseteq Tokens /\ drained \subseteq Tokens /\ mishaps \subseteq Tokens
    /\ queue \subseteq Tokens \X Buyers
    /\ wss \in BOOLEAN /\ (~wss => watching = None)
    /\ sale \in [Sellers -> Sale]
    /\ watching \in (SUBSET Tokens) \cup {None}
    /\ alive \in BOOLEAN

Init ==
    /\ positions = [t \in Tokens |-> None]
    /\ pc = [b \in Buyers |-> "idle"] /\ target = [b \in Buyers |-> None]
    /\ held = [b \in Buyers |-> 0]
    /\ buyTx = [b \in Buyers |-> "unsent"] /\ approveTx = [b \in Buyers |-> "unsent"]
    /\ sells = << >>
    /\ wallet = [t \in Tokens |-> 0] /\ approved = {} /\ drained = {}
    /\ wss \in BOOLEAN
    /\ queue = {} /\ sale = [c \in Sellers |-> NoSale] /\ watching = None
    /\ alive = TRUE /\ mishaps = {}

Held(t) == positions[t] # None
Open(t) == Held(t) /\ positions[t].open

\* delete(positions, token)
Delete(t) == [positions EXCEPT ![t] = None]

-----------------------------------------------------------------------------
(* SniperBuyAndTrack *)

Goto(b, step) == pc' = [pc EXCEPT ![b] = step]

\* Mutants, here and below: slips the properties must notice, used by no action.
ReserveUnchecked(b, t) ==
    /\ alive /\ pc[b] = "idle"
    /\ target' = [target EXCEPT ![b] = t]
    /\ Goto(b, "buying")
    /\ positions' = [positions EXCEPT ![t] = [by |-> b, open |-> FALSE, amount |-> 0]]
    /\ UNCHANGED <<held, chain, sellers, alive, mishaps>>

\* Reserve the token with a nil placeholder, or return if it has an entry.
Reserve(b, t) ==
    /\ alive /\ pc[b] = "idle"
    /\ target' = [target EXCEPT ![b] = t]
    /\ IF Held(t)
       THEN Goto(b, "done") /\ UNCHANGED positions
       ELSE /\ Goto(b, "buying")
            /\ positions' = [positions EXCEPT ![t] = [by |-> b, open |-> FALSE, amount |-> 0]]
    /\ UNCHANGED <<held, chain, sellers, alive, mishaps>>

BuySent(b) ==
    /\ alive /\ pc[b] = "buying"
    /\ buyTx' = [buyTx EXCEPT ![b] = "sent"]
    /\ Goto(b, "waitBuy")
    /\ UNCHANGED <<positions, target, held, approveTx, sells, wallet, approved, drained,
                   sellers, alive, mishaps>>

BuyConfirmed(b) ==
    /\ alive /\ pc[b] = "waitBuy" /\ buyTx[b] = "mined"
    /\ Goto(b, "balance")
    /\ UNCHANGED <<positions, target, held, chain, sellers, alive, mishaps>>

BalanceRead(b) ==
    /\ alive /\ pc[b] = "balance" /\ wallet[target[b]] > 0
    /\ held' = [held EXCEPT ![b] = wallet[target[b]]]
    /\ Goto(b, "approving")
    /\ UNCHANGED <<positions, target, chain, sellers, alive, mishaps>>

ApproveSent(b) ==
    /\ alive /\ pc[b] = "approving"
    /\ approveTx' = [approveTx EXCEPT ![b] = "sent"]
    /\ Goto(b, "waitApprove")
    /\ UNCHANGED <<positions, target, held, buyTx, sells, wallet, approved, drained,
                   sellers, alive, mishaps>>

ApproveConfirmedAnyReceipt(b) ==
    /\ alive /\ pc[b] = "waitApprove" /\ approveTx[b] \in {"mined", "reverted"}
    /\ Goto(b, "storing")
    /\ UNCHANGED <<positions, target, held, chain, sellers, alive, mishaps>>

ApproveConfirmed(b) ==
    /\ alive /\ pc[b] = "waitApprove" /\ approveTx[b] = "mined"
    /\ Goto(b, "storing")
    /\ UNCHANGED <<positions, target, held, chain, sellers, alive, mishaps>>

StoreIfAbsent(b) ==
    /\ alive /\ pc[b] = "storing"
    /\ positions' = IF Held(target[b]) THEN positions
                    ELSE [positions EXCEPT ![target[b]] =
                            [by |-> b, open |-> TRUE, amount |-> held[b]]]
    /\ Goto(b, "done")
    /\ UNCHANGED <<target, held, chain, sellers, alive, mishaps>>

\* The position becomes visible to both monitors, over whatever entry is there.
Store(b) ==
    /\ alive /\ pc[b] = "storing"
    /\ positions' = [positions EXCEPT ![target[b]] =
                        [by |-> b, open |-> TRUE, amount |-> held[b]]]
    /\ Goto(b, "done")
    /\ UNCHANGED <<target, held, chain, sellers, alive, mishaps>>

CleanupForgotten(t) == UNCHANGED positions

\* cleanup(): delete the entry if it is nil, whoever put it there.
Cleanup(t) == positions' = IF Held(t) /\ ~Open(t) THEN Delete(t) ELSE positions

\* Any of its calls fails, times out, finds a reverted transaction or a zero
\* balance: the buyer cleans up and returns.  A failed broadcast may still have
\* reached the chain.
GiveUp(b) ==
    /\ alive /\ pc[b] \in Active \ {"storing"}
    /\ Cleanup(target[b])
    /\ Goto(b, "failed")
    /\ \/ UNCHANGED <<buyTx, approveTx>>
       \/ pc[b] = "buying" /\ buyTx' = [buyTx EXCEPT ![b] = "sent"] /\ UNCHANGED approveTx
       \/ pc[b] = "approving" /\ approveTx' = [approveTx EXCEPT ![b] = "sent"] /\ UNCHANGED buyTx
    /\ mishaps' = IF buyTx'[b] \in {"sent", "mined"} THEN mishaps \cup {target[b]} ELSE mishaps
    /\ UNCHANGED <<target, held, sells, wallet, approved, drained, sellers, alive>>

-----------------------------------------------------------------------------
(* executeSell, called by both monitors *)

Choose(c, t, amount) ==
    sale' = [sale EXCEPT ![c] = [NoSale EXCEPT !.step = "chosen", !.token = t, !.amount = amount]]

\* Delete the entry, whatever it is now; without one, return.
SellRemove(c) ==
    /\ alive /\ sale[c].step = "chosen"
    /\ LET t == sale[c].token
       IN  IF Held(t)
           THEN /\ positions' = Delete(t)
                /\ sale' = [sale EXCEPT ![c].step = "removed", ![c].isNil = ~positions[t].open]
           ELSE sale' = [sale EXCEPT ![c] = NoSale] /\ UNCHANGED positions
    /\ UNCHANGED <<buyers, chain, wss, queue, watching, alive, mishaps>>

\* The gas estimate of the swap fails without the balance or the allowance.
SellSent(c) ==
    /\ alive /\ sale[c].step = "removed"
    /\ LET t == sale[c].token
       IN  /\ wallet[t] >= sale[c].amount /\ t \in approved
           /\ sells' = Append(sells, [token |-> t, amount |-> sale[c].amount, status |-> "sent"])
           /\ sale' = [sale EXCEPT ![c].step = "waiting", ![c].tx = Len(sells) + 1]
    /\ UNCHANGED <<positions, buyers, buyTx, approveTx, wallet, approved, drained,
                   wss, queue, watching, alive, mishaps>>

\* A confirmed sale logs pos.Symbol: with the nil placeholder that panics.
SellConfirmed(c) ==
    /\ alive /\ sale[c].step = "waiting" /\ sells[sale[c].tx].status = "mined"
    /\ sale' = [sale EXCEPT ![c] = NoSale]
    /\ alive' = ~sale[c].isNil
    /\ UNCHANGED <<positions, buyers, chain, wss, queue, watching, mishaps>>

\* The broadcast fails, or the receipt says reverted or never comes: the entry
\* is gone all the same.
SellFails(c) ==
    /\ alive /\ sale[c].step \in {"removed", "waiting"}
    /\ sale' = [sale EXCEPT ![c] = NoSale]
    /\ mishaps' = mishaps \cup {sale[c].token}
    /\ UNCHANGED <<positions, buyers, chain, wss, queue, watching, alive>>

-----------------------------------------------------------------------------
(* monitorPositions *)

Snapshot ==
    /\ alive /\ queue = {} /\ sale["monitor"].step = "idle"
    /\ queue' = {<<t, positions[t].by>> : t \in {u \in Tokens : Open(u)}}
    /\ queue' # {}
    /\ UNCHANGED <<positions, buyers, chain, wss, sale, watching, alive, mishaps>>

\* Reads the balance and the price of a position of the snapshot and stores the
\* balance in it, without the lock.  The price, or a failed call, decides
\* whether it sells.
Visit(t, by) ==
    /\ alive /\ <<t, by>> \in queue /\ sale["monitor"].step = "idle"
    /\ queue' = queue \ {<<t, by>>}
    /\ positions' = IF Open(t) /\ positions[t].by = by /\ wallet[t] > 0
                    THEN [positions EXCEPT ![t].amount = wallet[t]] ELSE positions
    /\ \/ wallet[t] > 0 /\ Choose("monitor", t, wallet[t])
       \/ UNCHANGED sale
    /\ UNCHANGED <<buyers, chain, wss, watching, alive, mishaps>>

(* monitorRugPulls *)

SubscribeUndialled ==
    /\ alive /\ watching = None /\ \E t \in Tokens : Open(t)
    /\ watching' = {t \in Tokens : Open(t)}
    /\ UNCHANGED <<positions, buyers, chain, wss, queue, sale, alive, mishaps>>

\* Builds the list of pools from every entry: a nil one is dereferenced.
Subscribe ==
    /\ alive /\ wss /\ watching = None /\ \E t \in Tokens : Held(t)
    /\ IF \A t \in Tokens : Held(t) => Open(t)
       THEN watching' = {t \in Tokens : Open(t)} /\ UNCHANGED alive
       ELSE alive' = FALSE /\ UNCHANGED watching
    /\ UNCHANGED <<positions, buyers, chain, wss, queue, sale, mishaps>>

Disconnect ==
    /\ alive /\ watching # None /\ sale["rug"].step = "idle"
    /\ watching' = None
    /\ UNCHANGED <<positions, buyers, chain, wss, queue, sale, alive, mishaps>>

\* A Sync event of a watched pool with a reserve below the threshold.
RugSeen(t) ==
    /\ alive /\ watching # None /\ sale["rug"].step = "idle"
    /\ t \in watching \cap drained /\ Open(t)
    /\ Choose("rug", t, positions[t].amount)
    /\ UNCHANGED <<positions, buyers, chain, wss, queue, watching, alive, mishaps>>

-----------------------------------------------------------------------------
(* The chain *)

MineBuy(b, status) ==
    /\ buyTx[b] = "sent" /\ status \in {"mined", "reverted"}
    /\ buyTx' = [buyTx EXCEPT ![b] = status]
    /\ wallet' = IF status = "mined" THEN [wallet EXCEPT ![target[b]] = @ + 1] ELSE wallet
    /\ UNCHANGED <<positions, buyers, approveTx, sells, approved, drained, sellers, alive, mishaps>>

MineApprove(b, status) ==
    /\ approveTx[b] = "sent" /\ status \in {"mined", "reverted"}
    /\ approveTx' = [approveTx EXCEPT ![b] = status]
    /\ approved' = IF status = "mined" THEN approved \cup {target[b]} ELSE approved
    /\ UNCHANGED <<positions, buyers, buyTx, sells, wallet, drained, sellers, alive, mishaps>>

MineSell(i, status) ==
    /\ i \in DOMAIN sells /\ sells[i].status = "sent"
    /\ sells' = [sells EXCEPT ![i].status = status]
    /\ LET t == sells[i].token
       IN  \/ /\ status = "mined" /\ wallet[t] >= sells[i].amount
              /\ wallet' = [wallet EXCEPT ![t] = @ - sells[i].amount]
           \/ status = "reverted" /\ UNCHANGED wallet
    /\ UNCHANGED <<positions, buyers, buyTx, approveTx, approved, drained, sellers, alive, mishaps>>

Drain(t) ==
    /\ t \notin drained
    /\ drained' = drained \cup {t}
    /\ UNCHANGED <<positions, buyers, buyTx, approveTx, sells, wallet, approved, sellers,
                   alive, mishaps>>

-----------------------------------------------------------------------------
BuyerStep(b) ==
    \/ BuySent(b) \/ BuyConfirmed(b) \/ BalanceRead(b) \/ ApproveSent(b)
    \/ ApproveConfirmed(b) \/ Store(b) \/ GiveUp(b)

SellStep(c) == SellRemove(c) \/ SellSent(c) \/ SellConfirmed(c) \/ SellFails(c)

Chain ==
    \/ \E b \in Buyers, s \in Statuses : MineBuy(b, s) \/ MineApprove(b, s)
    \/ \E i \in DOMAIN sells, s \in {"mined", "reverted"} : MineSell(i, s)
    \/ \E t \in Tokens : Drain(t)

Next ==
    \/ \E b \in Buyers, t \in Tokens : Reserve(b, t)
    \/ \E b \in Buyers : BuyerStep(b)
    \/ \E c \in Sellers : SellStep(c)
    \/ Snapshot
    \/ \E t \in Tokens, b \in Buyers : Visit(t, b)
    \/ \E t \in Tokens : RugSeen(t)
    \/ Subscribe \/ Disconnect
    \/ Chain

\* Every call a buyer or a seller makes runs under a context that expires, and
\* the Go scheduler runs every goroutine; nothing is assumed of the chain.
Fairness ==
    /\ \A b \in Buyers : WF_vars(BuyerStep(b))
    /\ \A c \in Sellers : WF_vars(SellStep(c))

Steps == Init /\ [][Next]_vars

Spec == Steps /\ Fairness

-----------------------------------------------------------------------------
Buying(t) == {b \in Buyers : pc[b] \in Active /\ target[b] = t}

Selling(t) == {c \in Sellers : sale[c].step # "idle" /\ sale[c].token = t}

InFlight(t) == {i \in DOMAIN sells : sells[i].token = t /\ sells[i].status = "sent"}

\* A position the monitors can see can be sold: its buyer's transaction was
\* mined and the router may spend the token, however the two monitors, other
\* buyers and the chain interleave.
OpenIsSellable ==
    \A t \in Tokens : Open(t) => t \in approved /\ buyTx[positions[t].by] = "mined"

\* The comment on the nil placeholder: it prevents the race in which a token is
\* bought twice.  No two calls are ever buying the same token.
OneBuyerPerToken == \A t \in Tokens : Cardinality(Buying(t)) <= 1

\* When rpcWSS could not be dialled only monitorPositions sells, and the
\* placeholder does what its comment says: one buyer per token, who owns the
\* placeholder until it ends, one sale per token in flight (unless an earlier one
\* was given up unconfirmed), and no nil entry is touched.
PlaceholderExclusiveWithoutRugWatch ==
    ~wss =>
      /\ alive
      /\ OneBuyerPerToken
      /\ \A t \in Tokens :
           /\ \A b \in Buying(t) : Held(t) /\ positions[t].by = b /\ ~Open(t)
           /\ Held(t) /\ ~Open(t) => Buying(t) # {}
           /\ t \in mishaps \/ Cardinality(InFlight(t)) <= 1

\* With a single seller, tokens the wallet owns are tracked, being bought or
\* being sold, unless some call that had spent money failed: no interleaving
\* of its own makes the engine forget a purchase.
NothingLostSilentlyWithoutRugWatch ==
    ~wss =>
      \A t \in Tokens \ mishaps :
        wallet[t] > 0 => Open(t) \/ Buying(t) # {} \/ Selling(t) # {}

\* A nil placeholder does not block a token for ever: cleanup() or the
\* position replaces it on every path through SniperBuyAndTrack, whoever else
\* deletes entries, unless the process panics.
PlaceholderResolves ==
    \A t \in Tokens : (Held(t) /\ ~Open(t)) ~> (~Held(t) \/ Open(t) \/ ~alive)
=============================================================================
