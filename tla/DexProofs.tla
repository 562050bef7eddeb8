------------------------------ MODULE DexProofs ------------------------------
(***************************************************************************)
(* Theorems about the DEX side: SniperEngine, for any buyers and tokens,   *)
(* and WalletNonce, the account that signs its transactions.  The types of *)
(* the sniper need that a buyer and a sale have a token; each safety       *)
(* property has an inductive invariant of its own, built on those before   *)
(* it.                                                                     *)
(***************************************************************************)
EXTENDS SniperEngine, WalletNonce, FiniteSetTheorems, TLAPS

\* Whoever is past its first step has a token.
TokensNamed ==
    /\ \A b \in Buyers : pc[b] # "idle" \/ approveTx[b] # "unsent" => target[b] \in Tokens
    /\ \A c \in Sellers : sale[c].step # "idle" => sale[c].token \in Tokens

TypeInv == TypeOK /\ TokensNamed

\* How far the transactions of a buyer are at each of its steps.
PurchaseOrder ==
    \A b \in Buyers :
      /\ pc[b] \in {"idle", "buying"} => buyTx[b] = "unsent"
      /\ pc[b] \in {"balance", "approving", "waitApprove", "storing"} => buyTx[b] = "mined"
      /\ pc[b] \in {"idle", "buying", "waitBuy", "balance", "approving"} => approveTx[b] = "unsent"
      /\ pc[b] = "storing" => approveTx[b] = "mined"
      /\ approveTx[b] = "mined" => target[b] \in approved

PurchaseInv == PurchaseOrder /\ OpenIsSellable

-----------------------------------------------------------------------------
(* With one seller *)

Monitor == sale["monitor"]

\* monitorRugPulls never sells, and sells nothing half-way.
RugIdle == watching = None /\ sale["rug"].step = "idle"

\* What the monitor has in its snapshot, or has chosen from it, is still there: nobody
\* else deletes an open position.
SnapshotIsCurrent ==
    /\ \A t \in Tokens, b \in Buyers : <<t, b>> \in queue => Open(t) /\ positions[t].by = b
    /\ Monitor.step = "chosen" =>
         Open(Monitor.token) /\ \A b \in Buyers : <<Monitor.token, b>> \notin queue
    /\ Monitor.step \in {"chosen", "removed", "waiting"} => ~Monitor.isNil

\* A placeholder and its buyer belong together.
PlaceholderOfBuyer ==
    \A t \in Tokens :
      /\ \A b \in Buying(t) : Held(t) /\ positions[t].by = b /\ ~Open(t)
      /\ Held(t) /\ ~Open(t) => positions[t].by \in Buying(t)

\* A sale in flight that was not given up is the one the monitor waits for.
FlightIsAwaited ==
    /\ Monitor.step = "waiting" =>
         /\ Monitor.tx \in DOMAIN sells
         /\ sells[Monitor.tx].token = Monitor.token
         /\ sells[Monitor.tx].amount = Monitor.amount
    /\ \A i \in DOMAIN sells :
         sells[i].status = "sent" /\ sells[i].token \notin mishaps =>
           Monitor.step = "waiting" /\ Monitor.tx = i

AloneInv ==
    ~wss => alive /\ RugIdle /\ SnapshotIsCurrent /\ PlaceholderOfBuyer /\ FlightIsAwaited

-----------------------------------------------------------------------------
(* Money is accounted for *)

\* The engine has a position for it, or a buyer that paid and goes on.
Kept(t) == Open(t) \/ \E b \in Buying(t) : buyTx[b] = "mined"

\* A purchase that may still be mined is waited for.
PurchaseAwaited ==
    \A b \in Buyers : buyTx[b] = "sent" => pc[b] = "waitBuy" \/ target[b] \in mishaps

\* What the sale under way takes out of the wallet from now on.
ToSell == IF Monitor.step = "waiting" /\ sells[Monitor.tx].status = "mined" THEN 0
          ELSE Monitor.amount

\* What the wallet owns besides is kept, so that no sale needs to cover it.
SaleCovers ==
    Monitor.step # "idle" /\ Monitor.token \notin mishaps =>
      /\ Monitor.step = "chosen" => wallet[Monitor.token] = Monitor.amount
      /\ wallet[Monitor.token] > ToSell => Kept(Monitor.token)

NothingLost ==
    \A t \in Tokens \ mishaps :
      wallet[t] > 0 => Kept(t) \/ (Monitor.step # "idle" /\ Monitor.token = t)

KeptInv == PurchaseAwaited /\ (~wss => SaleCovers /\ NothingLost)

-----------------------------------------------------------------------------
(* Types *)

LEMMA NoSaleType == NoSale \in Sale /\ NoSale.step = "idle"
  BY DEF NoSale, Sale

\* The two ways a sale goes on.
LEMMA SaleMoves ==
    ASSUME NEW m \in Sale, NEW n \in Nat, NEW nil \in BOOLEAN
    PROVE  /\ [m EXCEPT !.step = "removed", !.isNil = nil] \in Sale
           /\ [m EXCEPT !.step = "waiting", !.tx = n] \in Sale
  BY DEF Sale

\* A seller that has chosen a token.
LEMMA ChosenSale ==
    ASSUME NEW t \in Tokens, NEW amount \in Nat
    PROVE  LET m == [NoSale EXCEPT !.step = "chosen", !.token = t, !.amount = amount]
           IN  /\ m \in Sale /\ m.step = "chosen" /\ m.token = t /\ m.amount = amount
               /\ m.isNil = FALSE
<1>1. ASSUME NEW r \in Sale
      PROVE  LET m == [r EXCEPT !.step = "chosen", !.token = t, !.amount = amount]
             IN  /\ m \in Sale /\ m.step = "chosen" /\ m.token = t /\ m.amount = amount
                 /\ m.isNil = r.isNil
  BY DEF Sale
<1>2. NoSale.isNil = FALSE
  BY DEF NoSale
<1> QED
  BY <1>1, <1>2, NoSaleType

LEMMA InitType == Init => TypeInv
<1> SUFFICES ASSUME Init PROVE TypeInv
  OBVIOUS
<1>1. \A c \in Sellers : sale[c] \in Sale /\ sale[c].step = "idle"
  BY NoSaleType DEF Init
<1>2. sale \in [Sellers -> Sale]
  BY NoSaleType DEF Init
<1>3. /\ positions \in [Tokens -> Entry \cup {None}] /\ sells \in Seq(Sell)
      /\ pc \in [Buyers -> Active \cup {"idle", "done", "failed"}]
      /\ target \in [Buyers -> Tokens \cup {None}] /\ held \in [Buyers -> Nat]
  BY DEF Init
<1>4. {buyTx, approveTx} \subseteq [Buyers -> Statuses]
  BY DEF Init, Statuses
<1>5. /\ wallet \in [Tokens -> Nat] /\ wss \in BOOLEAN /\ alive \in BOOLEAN
      /\ approved = {} /\ drained = {} /\ mishaps = {} /\ queue = {} /\ watching = None
      /\ \A b \in Buyers : pc[b] = "idle" /\ approveTx[b] = "unsent"
  BY DEF Init
<1>6. TypeOK
  BY <1>2, <1>3, <1>4, <1>5 DEF TypeOK
<1> QED
  BY <1>1, <1>5, <1>6 DEF TypeInv, TokensNamed

LEMMA BuyerType ==
    ASSUME TypeInv, NEW b \in Buyers,
           (\E t \in Tokens : Reserve(b, t)) \/ BuyerStep(b)
    PROVE  TypeInv'
<1>1. positions' \in [Tokens -> Entry \cup {None}]
  <2>1. ASSUME NEW t \in Tokens \cup {None}, NEW open \in BOOLEAN, NEW n \in Nat,
               positions' = [positions EXCEPT ![t] = [by |-> b, open |-> open, amount |-> n]]
        PROVE  positions' \in [Tokens -> Entry \cup {None}]
    <3>1. [by |-> b, open |-> open, amount |-> n] \in Entry
      BY DEF Entry
    <3> QED
      BY <2>1, <3>1 DEF TypeInv, TypeOK
  <2>2. ASSUME NEW t \in Tokens \cup {None}, Reserve(b, t) PROVE positions' \in [Tokens -> Entry \cup {None}]
    BY <2>1, <2>2 DEF Reserve, TypeInv, TypeOK
  <2>3. target[b] \in Tokens \cup {None} /\ held[b] \in Nat
    BY DEF TypeInv, TypeOK
  <2>4. CASE Store(b)
    BY <2>1, <2>3, <2>4 DEF Store
  <2>5. CASE GiveUp(b)
    BY <2>5 DEF GiveUp, Cleanup, Delete, TypeInv, TypeOK
  <2>6. CASE positions' = positions
    BY <2>6 DEF TypeInv, TypeOK
  <2> QED
    BY <2>2, <2>4, <2>5, <2>6
    DEF BuyerStep, BuySent, BuyConfirmed, BalanceRead, ApproveSent, ApproveConfirmed
<1>2. /\ pc' \in [Buyers -> Active \cup {"idle", "done", "failed"}]
      /\ \A a \in Buyers : pc'[a] # "idle" \/ approveTx'[a] # "unsent" =>
           pc[a] # "idle" \/ approveTx[a] # "unsent" \/ a = b
  BY ZenonT(20) DEF BuyerStep, Reserve, BuySent, BuyConfirmed, BalanceRead, ApproveSent,
         ApproveConfirmed, Store, GiveUp, Goto, chain, TypeInv, TypeOK, Active
<1>3. /\ target' \in [Buyers -> Tokens \cup {None}]
      /\ \A a \in Buyers :
           pc'[a] # "idle" \/ approveTx'[a] # "unsent" => target'[a] \in Tokens
  <2>1. CASE \E t \in Tokens : Reserve(b, t)
    BY <1>2, <2>1 DEF Reserve, TypeInv, TypeOK, TokensNamed
  <2>2. CASE BuyerStep(b)
    <3>1. pc[b] # "idle" /\ target' = target
      BY <2>2 DEF BuyerStep, BuySent, BuyConfirmed, BalanceRead, ApproveSent,
                  ApproveConfirmed, Store, GiveUp, Active
    <3> QED
      BY <1>2, <3>1 DEF TypeInv, TypeOK, TokensNamed
  <2> QED
    BY <2>1, <2>2
<1>4. held' \in [Buyers -> Nat]
  <2>1. CASE BalanceRead(b)
    <3>1. target[b] \in Tokens /\ wallet[target[b]] \in Nat
      BY <2>1 DEF BalanceRead, TypeInv, TypeOK, TokensNamed
    <3> QED
      BY <2>1, <3>1 DEF BalanceRead, TypeInv, TypeOK
  <2>2. CASE held' = held
    BY <2>2 DEF TypeInv, TypeOK
  <2> QED
    BY <2>1, <2>2 DEF BuyerStep, Reserve, BuySent, BuyConfirmed, ApproveSent,
                      ApproveConfirmed, Store, GiveUp, chain
<1>5. {buyTx', approveTx'} \subseteq [Buyers -> Statuses]
  <2>1. {buyTx, approveTx} \subseteq [Buyers -> Statuses] /\ "sent" \in Statuses
    BY DEF TypeInv, TypeOK, Statuses
  <2>2. buyTx' \in {buyTx, [buyTx EXCEPT ![b] = "sent"]}
    BY DEF BuyerStep, Reserve, BuySent, BuyConfirmed, BalanceRead, ApproveSent,
           ApproveConfirmed, Store, GiveUp, chain
  <2>3. approveTx' \in {approveTx, [approveTx EXCEPT ![b] = "sent"]}
    BY DEF BuyerStep, Reserve, BuySent, BuyConfirmed, BalanceRead, ApproveSent,
           ApproveConfirmed, Store, GiveUp, chain
  <2> QED
    BY <2>1, <2>2, <2>3
<1>6. UNCHANGED <<sells, wallet, approved, drained, sellers>>
  BY DEF BuyerStep, Reserve, BuySent, BuyConfirmed, BalanceRead, ApproveSent,
         ApproveConfirmed, Store, GiveUp, chain
<1>7. mishaps' \subseteq Tokens
  <2>1. CASE GiveUp(b)
    <3>1. target[b] \in Tokens
      BY <2>1 DEF GiveUp, Active, TypeInv, TokensNamed
    <3> QED
      BY <2>1, <3>1 DEF GiveUp, TypeInv, TypeOK
  <2>2. CASE mishaps' = mishaps
    BY <2>2 DEF TypeInv, TypeOK
  <2> QED
    BY <2>1, <2>2 DEF BuyerStep, Reserve, BuySent, BuyConfirmed, BalanceRead, ApproveSent,
                      ApproveConfirmed, Store
<1>8. alive' = alive
  BY DEF BuyerStep, Reserve, BuySent, BuyConfirmed, BalanceRead, ApproveSent,
         ApproveConfirmed, Store, GiveUp
<1> QED
  BY <1>1, <1>2, <1>3, <1>4, <1>5, <1>6, <1>7, <1>8 DEF sellers, TypeInv, TypeOK, TokensNamed

\* A sale that starts, goes on or ends keeps the types of all sales.
LEMMA SaleKept ==
    ASSUME TypeInv, NEW c \in Sellers, NEW m \in Sale, sale' = [sale EXCEPT ![c] = m],
           m.step # "idle" => m.token \in Tokens
    PROVE  /\ sale' \in [Sellers -> Sale]
           /\ \A d \in Sellers : sale'[d].step # "idle" => sale'[d].token \in Tokens
<1>1. \A d \in Sellers : sale'[d] = IF d = c THEN m ELSE sale[d]
  BY DEF TypeInv, TypeOK
<1> QED
  BY <1>1 DEF TypeInv, TypeOK, TokensNamed

LEMMA SaleEnds ==
    ASSUME TypeInv, NEW c \in Sellers, sale' = [sale EXCEPT ![c] = NoSale]
    PROVE  /\ sale' \in [Sellers -> Sale]
           /\ \A d \in Sellers : sale'[d].step # "idle" => sale'[d].token \in Tokens
  BY NoSaleType, SaleKept

LEMMA SellerType ==
    ASSUME TypeInv, NEW c \in Sellers, SellStep(c)
    PROVE  TypeInv'
<1> DEFINE m == sale[c]
<1>1. m \in Sale /\ m.step # "idle" /\ m.token \in Tokens
  BY DEF SellStep, SellRemove, SellSent, SellConfirmed, SellFails, TypeInv, TypeOK, TokensNamed
<1>2. CASE SellRemove(c)
  <2>1. CASE Held(m.token)
    <3> DEFINE n == [m EXCEPT !.step = "removed", !.isNil = ~positions[m.token].open]
    <3>1. positions[m.token] \in Entry
      BY <1>1, <2>1 DEF Held, TypeInv, TypeOK
    <3>2. (~positions[m.token].open) \in BOOLEAN
      BY <3>1 DEF Entry
    <3>3. n \in Sale /\ n.token = m.token
      BY <1>1, <3>2, SaleMoves DEF Sale
    <3>4. sale' = [sale EXCEPT ![c] = n] /\ positions' = Delete(m.token)
      BY <1>2, <2>1 DEF SellRemove, TypeInv, TypeOK
    <3>5. positions' \in [Tokens -> Entry \cup {None}]
      BY <3>4 DEF Delete, TypeInv, TypeOK
    <3> HIDE DEF n
    <3>6. /\ sale' \in [Sellers -> Sale]
          /\ \A d \in Sellers : sale'[d].step # "idle" => sale'[d].token \in Tokens
      BY <1>1, <3>3, <3>4, SaleKept
    <3> QED
      BY <1>2, <3>5, <3>6 DEF SellRemove, buyers, chain, TypeInv, TypeOK, TokensNamed
  <2>2. CASE ~Held(m.token)
    BY <1>2, <2>2, SaleEnds DEF SellRemove, buyers, chain, TypeInv, TypeOK, TokensNamed
  <2> QED
    BY <2>1, <2>2
<1>3. CASE SellSent(c)
  <2> DEFINE n == [m EXCEPT !.step = "waiting", !.tx = Len(sells) + 1]
             row == [token |-> m.token, amount |-> m.amount, status |-> "sent"]
  <2>1. Len(sells) + 1 \in Nat
    BY DEF TypeInv, TypeOK
  <2>2. n \in Sale /\ n.token = m.token
    BY <1>1, <2>1, SaleMoves DEF Sale
  <2>3. sale' = [sale EXCEPT ![c] = n]
    BY <1>3 DEF SellSent, TypeInv, TypeOK
  <2>4. row \in Sell
    BY <1>1 DEF Sell, Sale, Statuses
  <2>5. sells' \in Seq(Sell)
    BY <1>3, <2>4 DEF SellSent, TypeInv, TypeOK
  <2> HIDE DEF n
  <2>6. /\ sale' \in [Sellers -> Sale]
        /\ \A d \in Sellers : sale'[d].step # "idle" => sale'[d].token \in Tokens
    BY <1>1, <2>2, <2>3, SaleKept
  <2> QED
    BY <1>3, <2>5, <2>6 DEF SellSent, buyers, TypeInv, TypeOK, TokensNamed
<1>4. CASE SellConfirmed(c)
  <2>1. alive' \in BOOLEAN
    BY <1>1, <1>4 DEF SellConfirmed, Sale
  <2> QED
    BY <1>4, <2>1, SaleEnds DEF SellConfirmed, buyers, chain, TypeInv, TypeOK, TokensNamed
<1>5. CASE SellFails(c)
  BY <1>1, <1>5, SaleEnds DEF SellFails, buyers, chain, TypeInv, TypeOK, TokensNamed
<1> QED
  BY <1>2, <1>3, <1>4, <1>5 DEF SellStep

LEMMA MonitorType ==
    ASSUME TypeInv, Snapshot \/ \E t \in Tokens, b \in Buyers : Visit(t, b)
    PROVE  TypeInv'
<1>1. CASE Snapshot
  <2>1. \A t \in Tokens : Open(t) => positions[t].by \in Buyers
    BY DEF Open, Held, TypeInv, TypeOK, Entry
  <2>2. queue' \subseteq Tokens \X Buyers
    BY <1>1, <2>1 DEF Snapshot
  <2> QED
    BY <1>1, <2>2 DEF Snapshot, buyers, chain, TypeInv, TypeOK, TokensNamed
<1>2. ASSUME NEW t \in Tokens, NEW b \in Buyers, Visit(t, b) PROVE TypeInv'
  <2>1. positions' \in [Tokens -> Entry \cup {None}]
    <3>1. CASE Open(t) /\ positions' = [positions EXCEPT ![t].amount = wallet[t]]
      <4>1. positions[t] \in Entry /\ wallet[t] \in Nat
        BY <3>1 DEF Open, Held, TypeInv, TypeOK
      <4>2. [positions[t] EXCEPT !.amount = wallet[t]] \in Entry
        BY <4>1 DEF Entry
      <4> QED
        BY <3>1, <4>2 DEF TypeInv, TypeOK
    <3>2. CASE positions' = positions
      BY <3>2 DEF TypeInv, TypeOK
    <3> QED
      BY <1>2, <3>1, <3>2 DEF Visit
  <2>2. /\ sale' \in [Sellers -> Sale]
        /\ \A d \in Sellers : sale'[d].step # "idle" => sale'[d].token \in Tokens
    <3>1. CASE Choose("monitor", t, wallet[t])
      <4>1. wallet[t] \in Nat /\ "monitor" \in Sellers
        BY DEF TypeInv, TypeOK, Sellers
      <4> QED
        BY <3>1, <4>1, ChosenSale, SaleKept DEF Choose
    <3>2. CASE sale' = sale
      BY <3>2 DEF TypeInv, TypeOK, TokensNamed
    <3> QED
      BY <1>2, <3>1, <3>2 DEF Visit
  <2> QED
    BY <1>2, <2>1, <2>2 DEF Visit, buyers, chain, TypeInv, TypeOK, TokensNamed
<1> QED
  BY <1>1, <1>2

LEMMA RugType ==
    ASSUME TypeInv, Subscribe \/ Disconnect \/ \E t \in Tokens : RugSeen(t)
    PROVE  TypeInv'
<1>1. CASE Subscribe
  BY <1>1 DEF Subscribe, buyers, chain, TypeInv, TypeOK, TokensNamed
<1>2. CASE Disconnect
  BY <1>2 DEF Disconnect, buyers, chain, TypeInv, TypeOK, TokensNamed
<1>3. ASSUME NEW t \in Tokens, RugSeen(t) PROVE TypeInv'
  <2> DEFINE m == [NoSale EXCEPT !.step = "chosen", !.token = t, !.amount = positions[t].amount]
  <2>1. positions[t].amount \in Nat /\ "rug" \in Sellers
    BY <1>3 DEF RugSeen, Open, Held, TypeInv, TypeOK, Entry, Sellers
  <2>3. m \in Sale /\ m.token = t
    BY <2>1, ChosenSale
  <2>4. sale' = [sale EXCEPT !["rug"] = m]
    BY <1>3 DEF RugSeen, Choose
  <2> HIDE DEF m
  <2>2. /\ sale' \in [Sellers -> Sale]
        /\ \A d \in Sellers : sale'[d].step # "idle" => sale'[d].token \in Tokens
    BY <2>1, <2>3, <2>4, SaleKept
  <2> QED
    BY <1>3, <2>2 DEF RugSeen, buyers, chain, TypeInv, TypeOK, TokensNamed
<1> QED
  BY <1>1, <1>2, <1>3

LEMMA ChainType ==
    ASSUME TypeInv, Chain
    PROVE  TypeInv'
<1>1. ASSUME NEW b \in Buyers, NEW s \in Statuses, MineBuy(b, s) PROVE TypeInv'
  <2>1. wallet' \in [Tokens -> Nat] /\ buyTx' \in [Buyers -> Statuses]
    <3>1. \A t \in Tokens : wallet[t] \in Nat /\ wallet[t] + 1 \in Nat
      BY DEF TypeInv, TypeOK
    <3> QED
      BY <1>1, <3>1 DEF MineBuy, TypeInv, TypeOK
  <2> QED
    BY <1>1, <2>1 DEF MineBuy, buyers, sellers, TypeInv, TypeOK, TokensNamed
<1>2. ASSUME NEW b \in Buyers, NEW s \in Statuses, MineApprove(b, s) PROVE TypeInv'
  <2>1. target[b] \in Tokens
    BY <1>2 DEF MineApprove, TypeInv, TokensNamed
  <2> QED
    BY <1>2, <2>1 DEF MineApprove, buyers, sellers, TypeInv, TypeOK, TokensNamed
<1>3. ASSUME NEW i \in DOMAIN sells, NEW s \in {"mined", "reverted"}, MineSell(i, s)
      PROVE  TypeInv'
  <2>1. sells[i] \in Sell
    BY DEF TypeInv, TypeOK
  <2>2. [sells[i] EXCEPT !.status = s] \in Sell
    BY <2>1 DEF Sell, Statuses
  <2>3. sells' \in Seq(Sell)
    BY <1>3, <2>2 DEF MineSell, TypeInv, TypeOK
  <2>4. wallet' \in [Tokens -> Nat]
    <3> DEFINE t == sells[i].token
               n == sells[i].amount
    <3>1. t \in Tokens /\ n \in Nat /\ wallet[t] \in Nat
      BY <2>1 DEF Sell, TypeInv, TypeOK
    <3>2. \/ wallet[t] >= n /\ wallet' = [wallet EXCEPT ![t] = @ - n]
          \/ wallet' = wallet
      BY <1>3 DEF MineSell
    <3> HIDE DEF t, n
    <3> QED
      BY <3>1, <3>2 DEF TypeInv, TypeOK
  <2> QED
    BY <1>3, <2>3, <2>4 DEF MineSell, buyers, sellers, TypeInv, TypeOK, TokensNamed
<1>4. ASSUME NEW t \in Tokens, Drain(t) PROVE TypeInv'
  BY <1>4 DEF Drain, buyers, sellers, TypeInv, TypeOK, TokensNamed
<1> QED
  BY <1>1, <1>2, <1>3, <1>4 DEF Chain

LEMMA NextType == TypeInv /\ [Next]_vars => TypeInv'
<1>1. ASSUME TypeInv, UNCHANGED vars PROVE TypeInv'
  BY <1>1 DEF vars, buyers, chain, sellers, TypeInv, TypeOK, TokensNamed
<1> QED
  BY <1>1, BuyerType, SellerType, MonitorType, RugType, ChainType DEF Next

\* The types of the engine's map, of its goroutines and of the chain, for any number of
\* calls of SniperBuyAndTrack and any tokens.
THEOREM TypeCorrect == Steps => []TypeOK
<1>1. TypeInv => TypeOK
  BY DEF TypeInv
<1> QED
  BY <1>1, InitType, NextType, PTL DEF Steps

-----------------------------------------------------------------------------
(* What can be seen can be sold *)

\* A step that opens no position takes no allowance and no purchase back.
LEMMA OpenKept ==
    ASSUME OpenIsSellable, approved \subseteq approved',
           \A t \in Tokens : Open(t)' => Open(t) /\ positions'[t].by = positions[t].by,
           \A t \in Tokens : Open(t) => buyTx'[positions[t].by] = buyTx[positions[t].by]
    PROVE  OpenIsSellable'
<1> SUFFICES ASSUME NEW t \in Tokens, Open(t)'
             PROVE  t \in approved' /\ buyTx'[positions'[t].by] = "mined"
  BY DEF OpenIsSellable
<1> QED
  BY DEF OpenIsSellable

LEMMA InitPurchase == Init => PurchaseInv
  BY DEF Init, PurchaseInv, PurchaseOrder, OpenIsSellable, Open, Held

LEMMA BuyerPurchase ==
    ASSUME TypeInv, PurchaseInv, NEW b \in Buyers,
           (\E t \in Tokens : Reserve(b, t)) \/ BuyerStep(b)
    PROVE  PurchaseInv'
<1>1. /\ PurchaseOrder /\ OpenIsSellable /\ approved' = approved
      /\ \A a \in Buyers \ {b} : /\ pc'[a] = pc[a] /\ target'[a] = target[a]
                                 /\ buyTx'[a] = buyTx[a] /\ approveTx'[a] = approveTx[a]
  BY DEF PurchaseInv, BuyerStep, Reserve, BuySent, BuyConfirmed, BalanceRead, ApproveSent,
         ApproveConfirmed, Store, GiveUp, Goto, chain, TypeInv, TypeOK
<1>2. PurchaseOrder'
  <2>1. /\ pc'[b] \in {"idle", "buying"} => buyTx'[b] = "unsent"
        /\ pc'[b] \in {"balance", "approving", "waitApprove", "storing"} => buyTx'[b] = "mined"
        /\ pc'[b] \in {"idle", "buying", "waitBuy", "balance", "approving"} =>
             approveTx'[b] = "unsent"
        /\ pc'[b] = "storing" => approveTx'[b] = "mined"
        /\ approveTx'[b] = "mined" => target'[b] \in approved'
    BY <1>1 DEF PurchaseOrder, BuyerStep, Reserve, BuySent, BuyConfirmed, BalanceRead,
                ApproveSent, ApproveConfirmed, Store, GiveUp, Goto, chain, Active,
                TypeInv, TypeOK
  <2> QED
    BY <1>1, <2>1 DEF PurchaseOrder
<1>3. OpenIsSellable'
  <2>1. CASE Store(b)
    <3> DEFINE t == target[b]
    <3>1. /\ t \in approved /\ buyTx[b] = "mined" /\ buyTx' = buyTx
          /\ positions' = [positions EXCEPT ![t] = [by |-> b, open |-> TRUE, amount |-> held[b]]]
      BY <1>1, <2>1 DEF Store, PurchaseOrder, chain
    <3>2. ASSUME NEW u \in Tokens, Open(u)' PROVE u \in approved' /\ buyTx'[positions'[u].by] = "mined"
      <4>1. CASE u = t
        <5>1. positions'[u] = [by |-> b, open |-> TRUE, amount |-> held[b]]
          BY <3>1, <4>1 DEF TypeInv, TypeOK
        <5> QED
          BY <1>1, <3>1, <4>1, <5>1
      <4>2. CASE u # t
        <5>1. positions'[u] = positions[u]
          BY <3>1, <4>2 DEF TypeInv, TypeOK
        <5> QED
          BY <1>1, <3>1, <3>2, <5>1 DEF OpenIsSellable, Open, Held
      <4> QED
        BY <4>1, <4>2
    <3> QED
      BY <3>2 DEF OpenIsSellable
  <2>2. CASE ~Store(b)
    <3>1. \A t \in Tokens : Open(t)' => Open(t) /\ positions'[t].by = positions[t].by
      <4>1. CASE \E u \in Tokens :
                   positions' = [positions EXCEPT ![u] = [by |-> b, open |-> FALSE, amount |-> 0]]
        BY <4>1 DEF Open, Held, TypeInv, TypeOK
      <4>2. CASE positions' = Delete(target[b])
        BY <4>2 DEF Delete, Open, Held, TypeInv, TypeOK
      <4>3. CASE positions' = positions
        BY <4>3 DEF Open, Held
      <4> QED
        BY <2>2, <4>1, <4>2, <4>3
        DEF BuyerStep, Reserve, BuySent, BuyConfirmed, BalanceRead, ApproveSent,
            ApproveConfirmed, GiveUp, Cleanup
    <3>2. \A a \in Buyers : buyTx[a] = "mined" => buyTx'[a] = "mined"
      BY <1>1, <2>2 DEF PurchaseOrder, BuyerStep, Reserve, BuySent, BuyConfirmed, BalanceRead,
                  ApproveSent, ApproveConfirmed, GiveUp, chain, TypeInv, TypeOK
    <3>3. \A t \in Tokens : Open(t) => positions[t].by \in Buyers
      BY DEF Open, Held, TypeInv, TypeOK, Entry
    <3>4. \A t \in Tokens : Open(t) => buyTx'[positions[t].by] = buyTx[positions[t].by]
      BY <1>1, <3>2, <3>3 DEF OpenIsSellable
    <3> QED
      BY <1>1, <3>1, <3>4, OpenKept
  <2> QED
    BY <2>1, <2>2
<1> QED
  BY <1>2, <1>3 DEF PurchaseInv

\* No step of a seller opens a position.
LEMMA SellerPurchase ==
    ASSUME TypeInv, PurchaseInv,
           \/ \E c \in Sellers : SellStep(c)
           \/ Snapshot \/ \E t \in Tokens, b \in Buyers : Visit(t, b)
           \/ Subscribe \/ Disconnect \/ \E t \in Tokens : RugSeen(t)
    PROVE  PurchaseInv'
<1>1. UNCHANGED <<pc, target, buyTx, approveTx, approved>>
  BY DEF SellStep, SellRemove, SellSent, SellConfirmed, SellFails, Snapshot, Visit, Subscribe,
         Disconnect, RugSeen, buyers, chain
<1>2. ASSUME NEW t \in Tokens, Open(t)'
      PROVE  Open(t) /\ positions'[t].by = positions[t].by
  <2>1. CASE \E u \in Tokens : Open(u) /\ positions' = [positions EXCEPT ![u].amount = wallet[u]]
    <3>1. PICK u \in Tokens : Open(u) /\ positions' = [positions EXCEPT ![u].amount = wallet[u]]
      BY <2>1
    <3>2. CASE u = t
      <4>1. positions[t] \in Entry
        BY <3>1, <3>2 DEF Open, Held, TypeInv, TypeOK
      <4>2. positions'[t].by = positions[t].by
        BY <3>1, <3>2, <4>1 DEF Entry, TypeInv, TypeOK
      <4> QED
        BY <3>1, <3>2, <4>2
    <3>3. CASE u # t
      BY <1>2, <3>1, <3>3 DEF Open, Held, TypeInv, TypeOK
    <3> QED
      BY <3>2, <3>3
  <2>2. CASE \E u \in Tokens : positions' = Delete(u)
    BY <1>2, <2>2 DEF Delete, Open, Held, TypeInv, TypeOK
  <2>3. CASE positions' = positions
    BY <1>2, <2>3 DEF Open, Held
  <2>4. \A c \in Sellers : sale[c].step # "idle" => sale[c].token \in Tokens
    BY DEF TypeInv, TokensNamed
  <2> QED
    BY <2>1, <2>2, <2>3, <2>4
    DEF SellStep, SellRemove, SellSent, SellConfirmed, SellFails, Snapshot, Visit, Subscribe,
        Disconnect, RugSeen
<1> QED
  BY <1>1, <1>2, OpenKept DEF PurchaseInv, PurchaseOrder

LEMMA ChainPurchase ==
    ASSUME TypeInv, PurchaseInv, Chain
    PROVE  PurchaseInv'
<1>1. /\ UNCHANGED <<pc, target, positions>> /\ approved \subseteq approved'
      /\ \A b \in Buyers : buyTx'[b] = buyTx[b] \/ (buyTx[b] = "sent" /\ buyTx'[b] # "sent")
      /\ \A b \in Buyers : buyTx'[b] # "unsent" => buyTx[b] # "unsent"
      /\ \A b \in Buyers : \/ approveTx'[b] = approveTx[b]
                           \/ /\ approveTx[b] = "sent" /\ approveTx'[b] \in {"mined", "reverted"}
                              /\ approveTx'[b] = "mined" => target[b] \in approved'
  BY DEF Chain, MineBuy, MineApprove, MineSell, Drain, buyers, TypeInv, TypeOK
<1>2. PurchaseOrder'
  BY <1>1 DEF PurchaseInv, PurchaseOrder
<1>3. OpenIsSellable'
  <2>1. \A t \in Tokens : Open(t)' => Open(t) /\ positions'[t].by = positions[t].by
    BY <1>1 DEF Open, Held
  <2>2. \A t \in Tokens : Open(t) => positions[t].by \in Buyers
    BY DEF Open, Held, TypeInv, TypeOK, Entry
  <2>3. \A t \in Tokens : Open(t) => buyTx'[positions[t].by] = buyTx[positions[t].by]
    BY <1>1, <2>2 DEF PurchaseInv, OpenIsSellable
  <2> QED
    BY <1>1, <2>1, <2>3, OpenKept DEF PurchaseInv
<1> QED
  BY <1>2, <1>3 DEF PurchaseInv

LEMMA NextPurchase == TypeInv /\ PurchaseInv /\ [Next]_vars => PurchaseInv'
<1>1. ASSUME PurchaseInv, UNCHANGED vars PROVE PurchaseInv'
  BY <1>1 DEF vars, buyers, chain, PurchaseInv, PurchaseOrder, OpenIsSellable, Open, Held
<1> QED
  BY <1>1, BuyerPurchase, SellerPurchase, ChainPurchase DEF Next

\* SniperBuyAndTrack stores a position only when its purchase was mined and the router
\* may spend the token, and nothing takes either back: what the monitors see can be
\* sold, however many buyers, both monitors and the chain interleave.
THEOREM OpenIsSellableHolds == Steps => []OpenIsSellable
<1>1. PurchaseInv => OpenIsSellable
  BY DEF PurchaseInv
<1> QED
  BY <1>1, InitType, NextType, InitPurchase, NextPurchase, PTL DEF Steps

-----------------------------------------------------------------------------
(* The placeholder is exclusive when only one goroutine sells *)

LEMMA InitAlone == Init => AloneInv
<1> SUFFICES ASSUME Init PROVE AloneInv
  OBVIOUS
<1>1. /\ \A c \in Sellers : sale[c] = NoSale
      /\ "monitor" \in Sellers /\ "rug" \in Sellers
  BY DEF Init, Sellers
<1>2. /\ Monitor.step = "idle" /\ sale["rug"].step = "idle"
  BY <1>1, NoSaleType DEF Monitor
<1>3. alive /\ RugIdle
  BY <1>2 DEF Init, RugIdle
<1>4. SnapshotIsCurrent
  BY <1>2 DEF Init, SnapshotIsCurrent
<1>5. PlaceholderOfBuyer
  BY DEF Init, PlaceholderOfBuyer, Buying, Held, Open, Active
<1>6. FlightIsAwaited
  BY <1>2 DEF Init, FlightIsAwaited
<1> QED
  BY <1>3, <1>4, <1>5, <1>6 DEF AloneInv

\* What a buyer does to the entries and to the set of calls that are buying.
LEMMA BuyerAlone ==
    ASSUME TypeInv, AloneInv, NEW b \in Buyers,
           (\E t \in Tokens : Reserve(b, t)) \/ BuyerStep(b)
    PROVE  AloneInv'
<1> SUFFICES ASSUME ~wss PROVE AloneInv'
  BY DEF AloneInv, BuyerStep, Reserve, BuySent, BuyConfirmed, BalanceRead, ApproveSent,
         ApproveConfirmed, Store, GiveUp, sellers
<1>1. /\ UNCHANGED <<sellers, alive, sells>> /\ mishaps \subseteq mishaps'
      /\ \A a \in Buyers \ {b} : pc'[a] = pc[a] /\ target'[a] = target[a]
  BY DEF BuyerStep, Reserve, BuySent, BuyConfirmed, BalanceRead, ApproveSent,
         ApproveConfirmed, Store, GiveUp, Goto, chain, TypeInv, TypeOK
<1>2. PlaceholderOfBuyer /\ SnapshotIsCurrent /\ RugIdle /\ FlightIsAwaited /\ alive
  BY DEF AloneInv
<1>3. pc[b] \in Active => /\ target[b] \in Tokens /\ Held(target[b]) /\ ~Open(target[b])
                          /\ positions[target[b]].by = b
  BY <1>2 DEF PlaceholderOfBuyer, Buying, TypeInv, TokensNamed, Active
\* The shapes a step can have.
<1>4. \/ \E t \in Tokens :
           /\ pc[b] = "idle" /\ ~Held(t) /\ target'[b] = t /\ pc'[b] = "buying"
           /\ positions' = [positions EXCEPT ![t] = [by |-> b, open |-> FALSE, amount |-> 0]]
      \/ /\ pc[b] \in Active /\ pc'[b] \in {"done", "failed"} /\ target' = target
         /\ \/ positions' = Delete(target[b])
            \/ positions' = [positions EXCEPT ![target[b]] =
                               [by |-> b, open |-> TRUE, amount |-> held[b]]]
      \/ /\ positions' = positions /\ pc[b] \notin Active /\ pc'[b] \notin Active
      \/ /\ positions' = positions /\ pc[b] \in Active /\ pc'[b] \in Active /\ target' = target
  <2>1. CASE \E t \in Tokens : Reserve(b, t)
    <3>1. PICK t \in Tokens : Reserve(b, t)
      BY <2>1
    <3>2. CASE Held(t)
      BY <3>1, <3>2 DEF Reserve, Goto, Active, TypeInv, TypeOK
    <3>3. CASE ~Held(t)
      BY <3>1, <3>3 DEF Reserve, Goto, TypeInv, TypeOK
    <3> QED
      BY <3>2, <3>3
  <2>2. CASE Store(b)
    BY <2>2 DEF Store, Goto, Active, TypeInv, TypeOK
  <2>3. CASE GiveUp(b)
    BY <1>3, <2>3 DEF GiveUp, Cleanup, Goto, Active, TypeInv, TypeOK
  <2>4. CASE BuySent(b) \/ BuyConfirmed(b) \/ BalanceRead(b) \/ ApproveSent(b) \/ ApproveConfirmed(b)
    BY <2>4 DEF BuySent, BuyConfirmed, BalanceRead, ApproveSent, ApproveConfirmed, Goto, Active,
                TypeInv, TypeOK
  <2> QED
    BY <2>1, <2>2, <2>3, <2>4 DEF BuyerStep
<1>5. \A t \in Tokens : Open(t) => positions'[t] = positions[t] /\ Open(t)'
  BY <1>3, <1>4 DEF Delete, Open, Held, TypeInv, TypeOK
<1>6. SnapshotIsCurrent'
  <2>1. UNCHANGED <<queue, sale>>
    BY <1>1 DEF sellers
  <2>2. Monitor.step = "chosen" => Monitor.token \in Tokens
    BY DEF Monitor, Sellers, TypeInv, TokensNamed
  <2> QED
    BY <1>2, <1>5, <2>1, <2>2 DEF SnapshotIsCurrent, Monitor
<1>7. PlaceholderOfBuyer'
  <2> SUFFICES ASSUME NEW t \in Tokens
               PROVE  /\ \A a \in Buyers : pc'[a] \in Active /\ target'[a] = t =>
                           Held(t)' /\ positions'[t].by = a /\ ~Open(t)'
                      /\ Held(t)' /\ ~Open(t)' => /\ positions'[t].by \in Buyers
                                                  /\ pc'[positions'[t].by] \in Active
                                                  /\ target'[positions'[t].by] = t
    BY DEF PlaceholderOfBuyer, Buying
  <2>1. /\ \A a \in Buyers : pc[a] \in Active /\ target[a] = t =>
             Held(t) /\ positions[t].by = a /\ ~Open(t)
        /\ Held(t) /\ ~Open(t) => /\ positions[t].by \in Buyers
                                  /\ pc[positions[t].by] \in Active
                                  /\ target[positions[t].by] = t
    BY <1>2 DEF PlaceholderOfBuyer, Buying
  <2>2. CASE \/ positions' = positions /\ pc[b] \notin Active /\ pc'[b] \notin Active
             \/ /\ positions' = positions /\ pc[b] \in Active /\ pc'[b] \in Active
                /\ target' = target
    BY <1>1, <2>1, <2>2 DEF Held, Open
  <2>3. CASE \E u \in Tokens :
           /\ pc[b] = "idle" /\ ~Held(u) /\ target'[b] = u /\ pc'[b] = "buying"
           /\ positions' = [positions EXCEPT ![u] = [by |-> b, open |-> FALSE, amount |-> 0]]
    <3>1. PICK u \in Tokens :
           /\ pc[b] = "idle" /\ ~Held(u) /\ target'[b] = u /\ pc'[b] = "buying"
           /\ positions' = [positions EXCEPT ![u] = [by |-> b, open |-> FALSE, amount |-> 0]]
      BY <2>3
    <3>2. "idle" \notin Active /\ "buying" \in Active
      BY DEF Active
    <3>3. CASE t = u
      <4>1. [by |-> b, open |-> FALSE, amount |-> 0] \in Entry
        BY DEF Entry
      <4>2. positions'[t] = [by |-> b, open |-> FALSE, amount |-> 0] /\ positions'[t] # None
        BY <3>1, <3>3, <4>1, SniperAssumption DEF TypeInv, TypeOK
      <4> QED
        BY <1>1, <2>1, <3>1, <3>2, <3>3, <4>2 DEF Held, Open
    <3>4. CASE t # u
      <4>1. positions'[t] = positions[t]
        BY <3>1, <3>4 DEF TypeInv, TypeOK
      <4> QED
        BY <1>1, <2>1, <3>1, <3>2, <3>4, <4>1 DEF Held, Open
    <3> QED
      BY <3>3, <3>4
  <2>4. CASE /\ pc[b] \in Active /\ pc'[b] \in {"done", "failed"} /\ target' = target
             /\ \/ positions' = Delete(target[b])
                \/ positions' = [positions EXCEPT ![target[b]] =
                                   [by |-> b, open |-> TRUE, amount |-> held[b]]]
    <3>1. pc'[b] \notin Active
      BY <2>4 DEF Active
    <3>2. CASE t = target[b]
      <4>1. ~Held(t)' \/ Open(t)'
        BY <2>4, <3>2, SniperAssumption DEF Delete, Held, Open, Entry, TypeInv, TypeOK
      <4> QED
        BY <1>1, <1>3, <2>1, <2>4, <3>1, <3>2, <4>1
    <3>3. CASE t # target[b]
      <4>1. positions'[t] = positions[t]
        BY <2>4, <3>3 DEF Delete, TypeInv, TypeOK
      <4> QED
        BY <1>1, <2>1, <2>4, <3>1, <3>3, <4>1 DEF Held, Open
    <3> QED
      BY <3>2, <3>3
  <2> QED
    BY <1>4, <2>2, <2>3, <2>4
<1>8. FlightIsAwaited'
  BY <1>1, <1>2 DEF FlightIsAwaited, Monitor, sellers
<1> QED
  BY <1>1, <1>2, <1>6, <1>7, <1>8 DEF AloneInv, RugIdle, sellers

\* The entries after executeSell has deleted one.
LEMMA SellerAlone ==
    ASSUME TypeInv, AloneInv, NEW c \in Sellers, SellStep(c)
    PROVE  AloneInv'
<1> SUFFICES ASSUME ~wss PROVE AloneInv'
  BY DEF AloneInv, SellStep, SellRemove, SellSent, SellConfirmed, SellFails
<1>1. PlaceholderOfBuyer /\ SnapshotIsCurrent /\ RugIdle /\ FlightIsAwaited /\ alive
  BY DEF AloneInv
<1>2. c = "monitor" /\ Monitor \in Sale /\ Monitor.token \in Tokens /\ Monitor.step # "idle"
  BY <1>1 DEF SellStep, SellRemove, SellSent, SellConfirmed, SellFails, RugIdle, Sellers, Monitor,
              TypeInv, TypeOK, TokensNamed
<1> DEFINE t == Monitor.token
<1>3. /\ UNCHANGED <<pc, target, queue, watching, wss>>
      /\ sale'["rug"] = sale["rug"]
  BY <1>2 DEF SellStep, SellRemove, SellSent, SellConfirmed, SellFails, buyers, TypeInv, TypeOK,
              Sellers
<1>4. RugIdle'
  BY <1>1, <1>3 DEF RugIdle
<1>5. CASE SellRemove(c)
  <2> DEFINE n == [Monitor EXCEPT !.step = "removed", !.isNil = ~positions[t].open]
  <2>1. /\ Monitor.step = "chosen" /\ Open(t) /\ Held(t) /\ \A b \in Buyers : <<t, b>> \notin queue
    BY <1>1, <1>2, <1>5 DEF SellRemove, SnapshotIsCurrent, Open, Monitor
  <2>2. sale'["monitor"] = n /\ positions' = Delete(t) /\ UNCHANGED <<sells, mishaps, alive>>
    BY <1>2, <1>5, <2>1 DEF SellRemove, Monitor, chain, Sellers, TypeInv, TypeOK
  <2>3. n.step = "removed" /\ n.isNil = FALSE
    BY <1>2, <2>1 DEF Sale, Open, Held, TypeInv, TypeOK, Entry
  <2> HIDE DEF n
  <2>4. Monitor'.step = "removed" /\ ~Monitor'.isNil
    BY <2>2, <2>3 DEF Monitor
  <2>5. \A u \in Tokens \ {t} : positions'[u] = positions[u]
    BY <2>2 DEF Delete, TypeInv, TypeOK
  <2>6. positions'[t] = None
    BY <1>2, <2>2 DEF Delete, TypeInv, TypeOK
  <2>7. SnapshotIsCurrent'
    BY <1>1, <1>3, <2>1, <2>4, <2>5 DEF SnapshotIsCurrent, Open, Held
  <2>8. PlaceholderOfBuyer'
    BY <1>1, <1>3, <2>1, <2>5, <2>6 DEF PlaceholderOfBuyer, Buying, Open, Held
  <2>9. FlightIsAwaited'
    BY <1>1, <2>1, <2>2, <2>4 DEF FlightIsAwaited
  <2> QED
    BY <1>1, <1>4, <2>2, <2>7, <2>8, <2>9 DEF AloneInv
<1>6. CASE SellSent(c)
  <2> DEFINE n == [Monitor EXCEPT !.step = "waiting", !.tx = Len(sells) + 1]
             row == [token |-> t, amount |-> Monitor.amount, status |-> "sent"]
  <2>1. /\ Monitor.step = "removed" /\ sale'["monitor"] = n /\ sells' = Append(sells, row)
        /\ UNCHANGED <<positions, mishaps, alive>>
    BY <1>2, <1>6 DEF SellSent, Monitor, Sellers, TypeInv, TypeOK
  <2>2. Len(sells) \in Nat /\ Len(sells) + 1 \in Nat
    BY DEF TypeInv, TypeOK
  <2>3. /\ n.step = "waiting" /\ n.tx = Len(sells) + 1 /\ n.token = t
        /\ n.amount = Monitor.amount /\ n.isNil = Monitor.isNil
    BY <1>2, <2>2 DEF Sale
  <2> HIDE DEF n
  <2>4. SnapshotIsCurrent'
    BY <1>1, <1>3, <2>1, <2>3 DEF SnapshotIsCurrent, Monitor, Open, Held
  <2>5. PlaceholderOfBuyer'
    BY <1>1, <1>3, <2>1 DEF PlaceholderOfBuyer, Buying, Open, Held
  <2>6. FlightIsAwaited'
    <3>1. /\ DOMAIN sells' = 1 .. (Len(sells) + 1) /\ DOMAIN sells = 1 .. Len(sells)
          /\ sells'[Len(sells) + 1] = row
          /\ \A i \in DOMAIN sells : sells'[i] = sells[i]
      BY <2>1, <2>2 DEF TypeInv, TypeOK
    <3>2. \A i \in DOMAIN sells : sells[i].status = "sent" => sells[i].token \in mishaps
      BY <1>1, <2>1 DEF FlightIsAwaited
    <3>3. Monitor' = n
      BY <2>1 DEF Monitor
    <3>4. \A i \in DOMAIN sells' : i \in DOMAIN sells \/ i = Len(sells) + 1
      BY <2>2, <3>1
    <3>5. Len(sells) + 1 \in DOMAIN sells'
      BY <2>2, <3>1
    <3>6. row.token = t /\ row.amount = Monitor.amount
      OBVIOUS
    <3>7. \A i \in DOMAIN sells' :
            sells'[i].status = "sent" /\ sells'[i].token \notin mishaps' => i = Monitor'.tx
      BY <2>1, <2>3, <3>1, <3>2, <3>3, <3>4
    <3> HIDE DEF row
    <3> QED
      BY <2>3, <3>1, <3>3, <3>5, <3>6, <3>7 DEF FlightIsAwaited
  <2> QED
    BY <1>1, <1>4, <2>1, <2>4, <2>5, <2>6 DEF AloneInv
<1>7. CASE SellConfirmed(c) \/ SellFails(c)
  <2>1. sale'["monitor"] = NoSale /\ UNCHANGED <<positions, sells>> /\ mishaps \subseteq mishaps'
    BY <1>2, <1>7 DEF SellConfirmed, SellFails, chain, Sellers, TypeInv, TypeOK
  <2>2. Monitor'.step = "idle"
    BY <2>1, NoSaleType DEF Monitor
  <2>3. alive'
    BY <1>1, <1>2, <1>7 DEF SellConfirmed, SellFails, SnapshotIsCurrent, Monitor
  <2>4. SnapshotIsCurrent'
    BY <1>1, <1>3, <2>1, <2>2 DEF SnapshotIsCurrent, Open, Held
  <2>5. PlaceholderOfBuyer'
    BY <1>1, <1>3, <2>1 DEF PlaceholderOfBuyer, Buying, Open, Held
  <2>6. \A i \in DOMAIN sells : sells[i].status = "sent" => sells[i].token \in mishaps'
    BY <1>1, <1>2, <1>7, <2>1 DEF SellConfirmed, SellFails, FlightIsAwaited, Monitor
  <2> QED
    BY <1>4, <2>1, <2>2, <2>3, <2>4, <2>5, <2>6 DEF AloneInv, FlightIsAwaited
<1> QED
  BY <1>5, <1>6, <1>7 DEF SellStep

\* monitorPositions chooses from its snapshot; monitorRugPulls has returned.
LEMMA MonitorAlone ==
    ASSUME TypeInv, AloneInv,
           \/ Snapshot \/ \E t \in Tokens, b \in Buyers : Visit(t, b)
           \/ Subscribe \/ Disconnect \/ \E t \in Tokens : RugSeen(t)
    PROVE  AloneInv'
<1>0. wss' = wss
  BY DEF Snapshot, Visit, Subscribe, Disconnect, RugSeen
<1> SUFFICES ASSUME ~wss PROVE AloneInv'
  BY <1>0 DEF AloneInv
<1>1. PlaceholderOfBuyer /\ SnapshotIsCurrent /\ RugIdle /\ FlightIsAwaited /\ alive
  BY DEF AloneInv
<1>2. ~Subscribe /\ ~Disconnect /\ \A t \in Tokens : ~RugSeen(t)
  BY <1>1 DEF Subscribe, Disconnect, RugSeen, RugIdle
<1>3. CASE Snapshot
  <2>1. UNCHANGED <<positions, buyers, chain, wss, sale, watching, alive, mishaps>>
    BY <1>3 DEF Snapshot
  <2>2. Monitor.step = "idle"
    BY <1>3 DEF Snapshot, Monitor
  <2>3. \A t \in Tokens, b \in Buyers : <<t, b>> \in queue' => Open(t) /\ positions[t].by = b
    BY <1>3 DEF Snapshot
  <2> QED
    BY <1>1, <2>1, <2>2, <2>3 DEF AloneInv, PlaceholderOfBuyer, SnapshotIsCurrent, RugIdle,
       FlightIsAwaited, Monitor, Buying, Held, Open, buyers, chain
<1>4. ASSUME NEW t \in Tokens, NEW b \in Buyers, Visit(t, b) PROVE AloneInv'
  <2>1. /\ UNCHANGED <<pc, target, sells, wss, watching, alive, mishaps>>
        /\ Monitor.step = "idle" /\ queue' = queue \ {<<t, b>>} /\ <<t, b>> \in queue
    BY <1>4 DEF Visit, buyers, chain, Monitor
  <2>2. Open(t) /\ positions[t].by = b /\ positions[t] \in Entry /\ wallet[t] \in Nat
    BY <1>1, <2>1 DEF SnapshotIsCurrent, Open, Held, TypeInv, TypeOK
  <2>3. \A u \in Tokens :
          (Held(u)' <=> Held(u)) /\ (Open(u)' <=> Open(u))
          /\ (Held(u) => positions'[u].by = positions[u].by)
    <3>1. CASE positions' = positions
      BY <3>1 DEF Held, Open
    <3>2. CASE positions' = [positions EXCEPT ![t].amount = wallet[t]]
      <4>1. /\ [positions[t] EXCEPT !.amount = wallet[t]] \in Entry
            /\ [positions[t] EXCEPT !.amount = wallet[t]].by = positions[t].by
            /\ [positions[t] EXCEPT !.amount = wallet[t]].open = positions[t].open
        BY <2>2 DEF Entry
      <4>2. /\ positions'[t] = [positions[t] EXCEPT !.amount = wallet[t]]
            /\ \A u \in Tokens \ {t} : positions'[u] = positions[u]
        BY <3>2 DEF TypeInv, TypeOK
      <4> QED
        BY <2>2, <4>1, <4>2, SniperAssumption DEF Held, Open
    <3> QED
      BY <1>4, <3>1, <3>2 DEF Visit
  <2>4. sale'["rug"] = sale["rug"]
    BY <1>4 DEF Visit, Choose, Sellers, TypeInv, TypeOK
  <2>5. \A u \in Tokens, a \in Buyers :
          <<u, a>> \in queue' => Open(u) /\ positions[u].by = a /\ u # t
    BY <1>1, <2>1, <2>2 DEF SnapshotIsCurrent
  <2>6. \/ Monitor' = Monitor
        \/ Monitor'.step = "chosen" /\ Monitor'.token = t /\ ~Monitor'.isNil
    <3>1. CASE Choose("monitor", t, wallet[t])
      <4> DEFINE m == [NoSale EXCEPT !.step = "chosen", !.token = t, !.amount = wallet[t]]
      <4>1. m.step = "chosen" /\ m.token = t /\ m.isNil = FALSE
        BY <2>2, ChosenSale DEF NoSale
      <4>2. sale'["monitor"] = m
        BY <3>1 DEF Choose, Sellers, TypeInv, TypeOK
      <4> HIDE DEF m
      <4> QED
        BY <4>1, <4>2 DEF Monitor
    <3> QED
      BY <1>4, <3>1 DEF Visit, Monitor
  <2>7. SnapshotIsCurrent'
    BY <2>1, <2>2, <2>3, <2>5, <2>6 DEF SnapshotIsCurrent, Open
  <2>8. PlaceholderOfBuyer'
    BY <1>1, <2>1, <2>3 DEF PlaceholderOfBuyer, Buying
  <2>9. FlightIsAwaited'
    BY <1>1, <2>1, <2>6 DEF FlightIsAwaited
  <2> QED
    BY <1>1, <2>1, <2>4, <2>7, <2>8, <2>9 DEF AloneInv, RugIdle
<1> QED
  BY <1>2, <1>3, <1>4

\* The chain only ends what is in flight.
LEMMA ChainAlone ==
    ASSUME TypeInv, AloneInv, Chain
    PROVE  AloneInv'
<1>1. UNCHANGED <<positions, pc, target, sellers, alive, mishaps>>
  BY DEF Chain, MineBuy, MineApprove, MineSell, Drain, buyers
<1>2. /\ DOMAIN sells' = DOMAIN sells
      /\ \A i \in DOMAIN sells : /\ sells'[i].token = sells[i].token
                                 /\ sells'[i].amount = sells[i].amount
                                 /\ sells'[i].status = "sent" => sells[i].status = "sent"
  <2>1. ASSUME NEW i \in DOMAIN sells, NEW s \in {"mined", "reverted"}, MineSell(i, s)
        PROVE  <1>2!:
    <3>1. sells[i] \in Sell /\ sells[i].status = "sent"
      BY <2>1 DEF MineSell, TypeInv, TypeOK
    <3>2. sells' = [sells EXCEPT ![i].status = s]
      BY <2>1 DEF MineSell
    <3> QED
      BY <3>1, <3>2 DEF Sell, TypeInv, TypeOK
  <2>2. CASE sells' = sells
    BY <2>2
  <2> QED
    BY <2>1, <2>2 DEF Chain, MineBuy, MineApprove, Drain
<1> QED
  BY <1>1, <1>2 DEF AloneInv, RugIdle, SnapshotIsCurrent, PlaceholderOfBuyer, FlightIsAwaited,
                    Monitor, Buying, Held, Open, sellers

LEMMA NextAlone == TypeInv /\ AloneInv /\ [Next]_vars => AloneInv'
<1>1. ASSUME AloneInv, UNCHANGED vars PROVE AloneInv'
  BY <1>1 DEF vars, buyers, chain, sellers, AloneInv, RugIdle, SnapshotIsCurrent,
              PlaceholderOfBuyer, FlightIsAwaited, Monitor, Buying, Held, Open
<1> QED
  BY <1>1, BuyerAlone, SellerAlone, MonitorAlone, ChainAlone DEF Next

\* A set that is empty or a singleton.
LEMMA AtMostOne ==
    ASSUME NEW S, NEW x, S \subseteq {x}
    PROVE  Cardinality(S) <= 1
<1>1. S = {} \/ S = {x}
  OBVIOUS
<1>2. Cardinality({}) = 0 /\ Cardinality({x}) = 1
  BY FS_EmptySet, FS_Singleton, Zenon
<1> QED
  BY <1>1, <1>2

LEMMA AloneIsExclusive == TypeInv /\ AloneInv => PlaceholderExclusiveWithoutRugWatch
<1> SUFFICES ASSUME TypeInv, AloneInv, ~wss
             PROVE  /\ alive
                    /\ OneBuyerPerToken
                    /\ \A t \in Tokens :
                         /\ \A b \in Buying(t) : Held(t) /\ positions[t].by = b /\ ~Open(t)
                         /\ Held(t) /\ ~Open(t) => Buying(t) # {}
                         /\ t \in mishaps \/ Cardinality(InFlight(t)) <= 1
  BY DEF PlaceholderExclusiveWithoutRugWatch
<1>1. alive /\ PlaceholderOfBuyer /\ FlightIsAwaited
  BY DEF AloneInv
<1>2. ASSUME NEW t \in Tokens
      PROVE  /\ Cardinality(Buying(t)) <= 1
             /\ \A b \in Buying(t) : Held(t) /\ positions[t].by = b /\ ~Open(t)
             /\ Held(t) /\ ~Open(t) => Buying(t) # {}
  <2>1. Buying(t) \subseteq {positions[t].by}
    BY <1>1 DEF PlaceholderOfBuyer, Buying
  <2> QED
    BY <1>1, <2>1, AtMostOne DEF PlaceholderOfBuyer, Buying
<1>3. ASSUME NEW t \in Tokens \ mishaps PROVE Cardinality(InFlight(t)) <= 1
  <2>1. InFlight(t) \subseteq {Monitor.tx}
    BY <1>1 DEF InFlight, FlightIsAwaited
  <2> QED
    BY <2>1, AtMostOne
<1> QED
  BY <1>1, <1>2, <1>3 DEF OneBuyerPerToken

\* Without the WSS client the nil placeholder keeps its promise in every interleaving of
\* any number of buyers, the monitor and the chain: one call buys a token at a time and
\* owns the placeholder until it ends, no nil entry is dereferenced and no token has two
\* sales in flight unless one was given up.
THEOREM PlaceholderIsExclusive == Steps => []PlaceholderExclusiveWithoutRugWatch
<1>1. Steps => [](TypeInv /\ AloneInv)
  BY InitType, NextType, InitAlone, NextAlone, PTL DEF Steps
<1> QED
  BY <1>1, AloneIsExclusive, PTL

-----------------------------------------------------------------------------
(* No purchase is forgotten when only one goroutine sells *)

LEMMA InitKept == Init => KeptInv
<1> SUFFICES ASSUME Init PROVE KeptInv
  OBVIOUS
<1>1. Monitor.step = "idle"
  BY NoSaleType DEF Init, Monitor, Sellers
<1>2. \A t \in Tokens : wallet[t] = 0
  BY DEF Init
<1>3. \A b \in Buyers : buyTx[b] = "unsent"
  BY DEF Init
<1> QED
  BY <1>1, <1>2, <1>3 DEF KeptInv, PurchaseAwaited, SaleCovers, NothingLost

\* Without a sale that starts or ends and with the wallet as it is, what is kept stays so.
LEMMA KeptCarried ==
    ASSUME KeptInv, TypeInv, UNCHANGED <<wallet, sells, sale, wss>>, mishaps \subseteq mishaps',
           ~wss => \A t \in Tokens \ mishaps' : Kept(t) => Kept(t)'
    PROVE  (~wss)' => SaleCovers' /\ NothingLost'
<1> SUFFICES ASSUME ~wss PROVE SaleCovers' /\ NothingLost'
  OBVIOUS
<1>1. SaleCovers /\ NothingLost /\ Monitor' = Monitor /\ ToSell' = ToSell
  BY DEF KeptInv, Monitor, ToSell
<1>2. Monitor.step # "idle" => Monitor.token \in Tokens
  BY DEF Monitor, Sellers, TypeInv, TokensNamed
<1>3. SaleCovers'
  BY <1>1, <1>2 DEF SaleCovers
<1>4. NothingLost'
  BY <1>1 DEF NothingLost
<1> QED
  BY <1>3, <1>4

LEMMA BuyerKept ==
    ASSUME TypeInv, PurchaseInv, AloneInv, KeptInv, NEW b \in Buyers,
           (\E t \in Tokens : Reserve(b, t)) \/ BuyerStep(b)
    PROVE  KeptInv'
<1>1. /\ UNCHANGED <<wallet, sells, sale, wss>> /\ mishaps \subseteq mishaps'
      /\ \A a \in Buyers \ {b} : /\ pc'[a] = pc[a] /\ target'[a] = target[a]
                                 /\ buyTx'[a] = buyTx[a]
  BY DEF BuyerStep, Reserve, BuySent, BuyConfirmed, BalanceRead, ApproveSent,
         ApproveConfirmed, Store, GiveUp, Goto, chain, sellers, TypeInv, TypeOK
<1>2. PurchaseAwaited /\ PurchaseOrder
  BY DEF KeptInv, PurchaseInv
<1>3. PurchaseAwaited'
  <2>1. buyTx'[b] = "sent" => pc'[b] = "waitBuy" \/ target'[b] \in mishaps'
    BY <1>2 DEF BuyerStep, Reserve, BuySent, BuyConfirmed, BalanceRead, ApproveSent,
         ApproveConfirmed, Store, GiveUp, Goto, chain, Active, PurchaseAwaited, PurchaseOrder,
         TypeInv, TypeOK
  <2> QED
    BY <1>1, <1>2, <2>1 DEF PurchaseAwaited
<1>4. ASSUME ~wss, NEW t \in Tokens \ mishaps', Kept(t) PROVE Kept(t)'
  <2>1. \A a \in Buyers \ {b} : a \in Buying(t) /\ buyTx[a] = "mined"
                                => a \in Buying(t)' /\ buyTx'[a] = "mined"
    BY <1>1 DEF Buying
  <2>2. CASE b \in Buying(t) /\ buyTx[b] = "mined"
    <3>1. pc[b] \in Active /\ target[b] = t
      BY <2>2 DEF Buying
    <3>2. CASE Store(b)
      <4>1. [by |-> b, open |-> TRUE, amount |-> held[b]] \in Entry
        BY DEF Entry, TypeInv, TypeOK
      <4>2. positions'[t] = [by |-> b, open |-> TRUE, amount |-> held[b]]
        BY <3>1, <3>2 DEF Store, TypeInv, TypeOK
      <4>3. positions'[t] # None
        BY <4>1, <4>2, SniperAssumption
      <4>4. positions'[t].open
        BY <4>2
      <4> QED
        BY <4>3, <4>4 DEF Kept, Open, Held
    <3>3. ~GiveUp(b)
      BY <2>2, <3>1 DEF GiveUp, Active, TypeInv, TypeOK
    <3>4. CASE ~Store(b)
      <4>1. pc'[b] \in Active /\ target'[b] = t /\ buyTx'[b] = "mined"
        BY <1>2, <2>2, <3>1, <3>3, <3>4
        DEF BuyerStep, Reserve, BuySent, BuyConfirmed, BalanceRead, ApproveSent,
            ApproveConfirmed, Goto, chain, Active, PurchaseOrder, TypeInv, TypeOK
      <4> QED
        BY <4>1 DEF Kept, Buying
    <3> QED
      BY <3>2, <3>4
  <2>3. CASE Open(t)
    <3>1. ~(pc[b] \in Active /\ target[b] = t)
      BY <1>4, <2>3 DEF AloneInv, PlaceholderOfBuyer, Buying
    <3>2. positions'[t] = positions[t]
      BY <2>3, <3>1 DEF BuyerStep, Reserve, BuySent, BuyConfirmed, BalanceRead, ApproveSent,
         ApproveConfirmed, Store, GiveUp, Cleanup, Delete, Active, Open, Held, TypeInv, TypeOK
    <3> QED
      BY <2>3, <3>2 DEF Kept, Open, Held
  <2> QED
    BY <1>4, <2>1, <2>2, <2>3 DEF Kept, Buying
<1> QED
  BY <1>1, <1>3, <1>4, KeptCarried DEF KeptInv

LEMMA SellerKept ==
    ASSUME TypeInv, AloneInv, KeptInv, NEW c \in Sellers, SellStep(c)
    PROVE  KeptInv'
<1>1. /\ UNCHANGED <<pc, target, buyTx, wallet, wss>> /\ mishaps \subseteq mishaps'
  BY DEF SellStep, SellRemove, SellSent, SellConfirmed, SellFails, buyers, chain
<1>2. PurchaseAwaited'
  BY <1>1 DEF KeptInv, PurchaseAwaited
<1> SUFFICES ASSUME ~wss PROVE SaleCovers' /\ NothingLost'
  BY <1>1, <1>2 DEF KeptInv
<1> DEFINE t == Monitor.token
<1>3. SnapshotIsCurrent /\ RugIdle /\ FlightIsAwaited /\ SaleCovers /\ NothingLost
  BY DEF AloneInv, KeptInv
<1>4. c = "monitor" /\ Monitor \in Sale /\ t \in Tokens /\ Monitor.step # "idle"
  BY <1>3 DEF SellStep, SellRemove, SellSent, SellConfirmed, SellFails, RugIdle, Sellers, Monitor,
              TypeInv, TypeOK, TokensNamed
<1>5. ASSUME NEW u \in Tokens, positions'[u] = positions[u] PROVE Kept(u)' <=> Kept(u)
  BY <1>1, <1>5 DEF Kept, Buying, Open, Held
<1>6. CASE SellRemove(c)
  <2> DEFINE n == [Monitor EXCEPT !.step = "removed", !.isNil = ~positions[t].open]
  <2>1. /\ Monitor.step = "chosen" /\ Open(t) /\ Held(t)
    BY <1>3, <1>4, <1>6 DEF SellRemove, SnapshotIsCurrent, Open, Monitor
  <2>2. sale'["monitor"] = n /\ positions' = Delete(t) /\ UNCHANGED <<sells, mishaps>>
    BY <1>4, <1>6, <2>1 DEF SellRemove, Monitor, chain, Sellers, TypeInv, TypeOK
  <2>3. n.step = "removed" /\ n.token = t /\ n.amount = Monitor.amount
    BY <1>4 DEF Sale
  <2> HIDE DEF n
  <2>4. /\ Monitor'.step = "removed" /\ Monitor'.token = t /\ Monitor'.amount = Monitor.amount
    BY <2>2, <2>3 DEF Monitor
  <2>5. \A u \in Tokens \ {t} : Kept(u)' <=> Kept(u)
    BY <1>5, <2>2 DEF Delete, TypeInv, TypeOK
  <2>6. ToSell' = Monitor.amount
    BY <2>4 DEF ToSell
  <2>7. SaleCovers'
    BY <1>1, <1>3, <1>4, <2>1, <2>2, <2>4, <2>6 DEF SaleCovers, Sale
  <2>8. NothingLost'
    BY <1>1, <1>3, <2>2, <2>4, <2>5 DEF NothingLost
  <2> QED
    BY <2>7, <2>8
<1>7. CASE SellSent(c)
  <2> DEFINE n == [Monitor EXCEPT !.step = "waiting", !.tx = Len(sells) + 1]
             row == [token |-> t, amount |-> Monitor.amount, status |-> "sent"]
  <2>1. /\ Monitor.step = "removed" /\ sale'["monitor"] = n /\ sells' = Append(sells, row)
        /\ UNCHANGED <<positions, mishaps>>
    BY <1>4, <1>7 DEF SellSent, Monitor, Sellers, TypeInv, TypeOK
  <2>2. Len(sells) \in Nat /\ Len(sells) + 1 \in Nat
    BY DEF TypeInv, TypeOK
  <2>3. /\ n.step = "waiting" /\ n.tx = Len(sells) + 1 /\ n.token = t
        /\ n.amount = Monitor.amount
    BY <1>4, <2>2 DEF Sale
  <2> HIDE DEF n
  <2>4. sells'[Len(sells) + 1].status = "sent"
    BY <2>1, <2>2 DEF TypeInv, TypeOK
  <2>5. /\ Monitor'.step = "waiting" /\ Monitor'.token = t
        /\ ToSell' = Monitor.amount /\ ToSell = Monitor.amount
    BY <2>1, <2>3, <2>4 DEF Monitor, ToSell
  <2>6. \A u \in Tokens : Kept(u)' <=> Kept(u)
    BY <1>5, <2>1
  <2>7. SaleCovers'
    BY <1>1, <1>3, <1>4, <2>1, <2>5, <2>6 DEF SaleCovers
  <2>8. NothingLost'
    BY <1>1, <1>3, <2>1, <2>5, <2>6 DEF NothingLost
  <2> QED
    BY <2>7, <2>8
<1>8. CASE SellConfirmed(c) \/ SellFails(c)
  <2>1. sale'["monitor"] = NoSale /\ UNCHANGED <<positions, sells>>
    BY <1>4, <1>8 DEF SellConfirmed, SellFails, chain, Sellers, TypeInv, TypeOK
  <2>2. Monitor'.step = "idle"
    BY <2>1, NoSaleType DEF Monitor
  <2>3. \A u \in Tokens : Kept(u)' <=> Kept(u)
    BY <1>5, <2>1
  <2>4. t \in mishaps' \/ (t \notin mishaps /\ wallet[t] > 0 => Kept(t))
    <3>1. CASE SellFails(c)
      BY <1>4, <3>1 DEF SellFails, Monitor
    <3>2. CASE SellConfirmed(c)
      <4>1. ToSell = 0
        BY <1>4, <3>2 DEF SellConfirmed, ToSell, Monitor
      <4> QED
        BY <1>3, <1>4, <4>1 DEF SaleCovers
    <3> QED
      BY <1>8, <3>1, <3>2
  <2>5. SaleCovers'
    BY <2>2 DEF SaleCovers
  <2>6. NothingLost'
    BY <1>1, <1>3, <2>2, <2>3, <2>4 DEF NothingLost
  <2> QED
    BY <2>5, <2>6
<1> QED
  BY <1>6, <1>7, <1>8 DEF SellStep

\* The monitor starts a sale of what the wallet holds, and what it reads is true until it
\* has sold.
LEMMA MonitorKept ==
    ASSUME TypeInv, AloneInv, KeptInv,
           \/ Snapshot \/ \E t \in Tokens, b \in Buyers : Visit(t, b)
           \/ Subscribe \/ Disconnect \/ \E t \in Tokens : RugSeen(t)
    PROVE  KeptInv'
<1>1. UNCHANGED <<pc, target, buyTx, wallet, sells, wss, mishaps>>
  BY DEF Snapshot, Visit, Subscribe, Disconnect, RugSeen, buyers, chain
<1>2. PurchaseAwaited'
  BY <1>1 DEF KeptInv, PurchaseAwaited
<1> SUFFICES ASSUME ~wss PROVE SaleCovers' /\ NothingLost'
  BY <1>1, <1>2 DEF KeptInv
<1>3. SnapshotIsCurrent /\ RugIdle /\ SaleCovers /\ NothingLost
  BY DEF AloneInv, KeptInv
<1>4. ~Subscribe /\ ~Disconnect /\ \A t \in Tokens : ~RugSeen(t)
  BY <1>3 DEF Subscribe, Disconnect, RugSeen, RugIdle
<1>5. CASE Snapshot
  <2>1. \A t \in Tokens : Kept(t)' <=> Kept(t)
    BY <1>1, <1>5 DEF Snapshot, Kept, Buying, Open, Held
  <2>2. Monitor' = Monitor /\ Monitor.step = "idle"
    BY <1>5 DEF Snapshot, Monitor
  <2> QED
    BY <1>1, <1>3, <2>1, <2>2 DEF SaleCovers, NothingLost
<1>6. ASSUME NEW t \in Tokens, NEW b \in Buyers, Visit(t, b) PROVE SaleCovers' /\ NothingLost'
  <2>1. Monitor.step = "idle" /\ Open(t) /\ positions[t] \in Entry /\ wallet[t] \in Nat
    BY <1>3, <1>6 DEF Visit, Monitor, SnapshotIsCurrent, Open, Held, TypeInv, TypeOK
  <2>2. \A u \in Tokens : Kept(u) => Kept(u)'
    <3>1. \A u \in Tokens : Open(u) => Open(u)'
      <4>1. CASE positions' = positions
        BY <4>1 DEF Open, Held
      <4>2. CASE positions' = [positions EXCEPT ![t].amount = wallet[t]]
        <5>1. /\ [positions[t] EXCEPT !.amount = wallet[t]] \in Entry
              /\ [positions[t] EXCEPT !.amount = wallet[t]].open = positions[t].open
          BY <2>1 DEF Entry
        <5>2. /\ positions'[t] = [positions[t] EXCEPT !.amount = wallet[t]]
              /\ \A u \in Tokens \ {t} : positions'[u] = positions[u]
          BY <4>2 DEF TypeInv, TypeOK
        <5> QED
          BY <2>1, <5>1, <5>2, SniperAssumption DEF Open, Held
      <4> QED
        BY <1>6, <4>1, <4>2 DEF Visit
    <3> QED
      BY <1>1, <3>1 DEF Kept, Buying
  <2>3. \/ Monitor' = Monitor
        \/ Monitor'.step = "chosen" /\ Monitor'.token = t /\ Monitor'.amount = wallet[t]
    <3>1. CASE Choose("monitor", t, wallet[t])
      <4> DEFINE m == [NoSale EXCEPT !.step = "chosen", !.token = t, !.amount = wallet[t]]
      <4>1. m.step = "chosen" /\ m.token = t /\ m.amount = wallet[t]
        BY <2>1, ChosenSale DEF NoSale
      <4>2. sale'["monitor"] = m
        BY <3>1 DEF Choose, Sellers, TypeInv, TypeOK
      <4> HIDE DEF m
      <4> QED
        BY <4>1, <4>2 DEF Monitor
    <3> QED
      BY <1>6, <3>1 DEF Visit, Monitor
  <2>4. Monitor'.step = "idle" \/ (Monitor'.step = "chosen" /\ ToSell' = wallet[t])
    BY <2>1, <2>3 DEF ToSell
  <2>5. SaleCovers'
    BY <1>1, <2>1, <2>3, <2>4 DEF SaleCovers
  <2>6. NothingLost'
    BY <1>1, <1>3, <2>1, <2>2 DEF NothingLost
  <2> QED
    BY <2>5, <2>6
<1> QED
  BY <1>4, <1>5, <1>6

\* The chain adds a purchase only while its buyer waits for it, when the token is not for
\* sale, and takes away only what the monitor sells.
LEMMA ChainKept ==
    ASSUME TypeInv, PurchaseInv, AloneInv, KeptInv, Chain
    PROVE  KeptInv'
<1>1. UNCHANGED <<positions, pc, target, sale, wss, mishaps>>
  BY DEF Chain, MineBuy, MineApprove, MineSell, Drain, buyers, sellers
<1>2. ASSUME NEW b \in Buyers, NEW s \in Statuses, MineBuy(b, s) PROVE KeptInv'
  <2>1. /\ buyTx[b] = "sent" /\ s \in {"mined", "reverted"} /\ sells' = sells
        /\ buyTx' = [buyTx EXCEPT ![b] = s] /\ target[b] \in Tokens \cup {None}
    BY <1>2 DEF MineBuy, TypeInv, TypeOK
  <2>2. PurchaseAwaited'
    BY <1>1, <2>1 DEF KeptInv, PurchaseAwaited, TypeInv, TypeOK
  <2> SUFFICES ASSUME ~wss PROVE SaleCovers' /\ NothingLost'
    BY <1>1, <2>2 DEF KeptInv
  <2>3. SaleCovers /\ NothingLost /\ SnapshotIsCurrent /\ PlaceholderOfBuyer
    BY DEF KeptInv, AloneInv
  <2>4. \A t \in Tokens : Kept(t) => Kept(t)'
    BY <1>1, <2>1 DEF Kept, Buying, Open, Held, TypeInv, TypeOK
  <2>5. \A t \in Tokens \ mishaps : wallet'[t] = wallet[t] \/ (b \in Buying(t) /\ Kept(t)')
    <3> SUFFICES ASSUME NEW t \in Tokens \ mishaps, wallet'[t] # wallet[t]
                 PROVE  b \in Buying(t) /\ Kept(t)'
      OBVIOUS
    <3>1. s = "mined" /\ target[b] = t
      BY <1>2 DEF MineBuy, TypeInv, TypeOK
    <3>2. pc[b] = "waitBuy"
      BY <2>1, <3>1 DEF KeptInv, PurchaseAwaited
    <3>3. b \in Buying(t)
      BY <3>1, <3>2 DEF Buying, Active
    <3>4. b \in Buying(t)' /\ buyTx'[b] = "mined"
      BY <1>1, <2>1, <3>1, <3>3 DEF Buying, TypeInv, TypeOK
    <3> QED
      BY <3>3, <3>4 DEF Kept
  <2>6. Monitor' = Monitor /\ ToSell' = ToSell
    BY <1>1, <2>1 DEF Monitor, ToSell
  <2>7. Monitor.step # "idle" => Monitor.token \in Tokens
    BY DEF Monitor, Sellers, TypeInv, TokensNamed
  <2>8. Monitor.step = "chosen" => \A a \in Buyers : a \notin Buying(Monitor.token)
    BY <2>3, <2>7 DEF SnapshotIsCurrent, PlaceholderOfBuyer, Buying
  <2>9. SaleCovers'
    BY <1>1, <2>3, <2>4, <2>5, <2>6, <2>7, <2>8 DEF SaleCovers
  <2>10. NothingLost'
    BY <1>1, <2>3, <2>4, <2>5, <2>6 DEF NothingLost
  <2> QED
    BY <2>9, <2>10
<1>3. ASSUME NEW i \in DOMAIN sells, NEW s \in {"mined", "reverted"}, MineSell(i, s)
      PROVE  KeptInv'
  <2> DEFINE t == sells[i].token
             n == sells[i].amount
  <2>1. /\ buyTx' = buyTx /\ sells[i].status = "sent" /\ sells[i] \in Sell
        /\ sells' = [sells EXCEPT ![i].status = s]
    BY <1>3 DEF MineSell, TypeInv, TypeOK
  <2>2. PurchaseAwaited'
    BY <1>1, <2>1 DEF KeptInv, PurchaseAwaited
  <2> SUFFICES ASSUME ~wss PROVE SaleCovers' /\ NothingLost'
    BY <1>1, <2>2 DEF KeptInv
  <2>3. SaleCovers /\ NothingLost /\ FlightIsAwaited
    BY DEF KeptInv, AloneInv
  <2>4. \A u \in Tokens : Kept(u) <=> Kept(u)'
    BY <1>1, <2>1 DEF Kept, Buying, Open, Held
  <2>5. t \in Tokens /\ n \in Nat /\ wallet[t] \in Nat
    BY <2>1 DEF Sell, TypeInv, TypeOK
  <2>6. /\ sells'[i].status = s
        /\ \A j \in DOMAIN sells \ {i} : sells'[j] = sells[j]
    BY <2>1 DEF Sell, TypeInv, TypeOK
  <2>7. /\ \A u \in Tokens \ {t} : wallet'[u] = wallet[u]
        /\ \/ s = "mined" /\ wallet'[t] = wallet[t] - n /\ wallet[t] >= n
           \/ s = "reverted" /\ wallet'[t] = wallet[t]
    <3>1. \/ s = "mined" /\ wallet[t] >= n /\ wallet' = [wallet EXCEPT ![t] = @ - n]
          \/ s = "reverted" /\ wallet' = wallet
      BY <1>3 DEF MineSell
    <3> HIDE DEF t, n
    <3> QED
      BY <2>5, <3>1 DEF TypeInv, TypeOK
  <2>8. Monitor' = Monitor /\ (Monitor.step # "idle" => Monitor.token \in Tokens)
        /\ Monitor.amount \in Nat
    BY <1>1 DEF Monitor, Sellers, TypeInv, TypeOK, TokensNamed, Sale
  <2>9. t \notin mishaps => /\ Monitor.step = "waiting" /\ Monitor.tx = i /\ Monitor.token = t
                            /\ Monitor.amount = n
    BY <2>1, <2>3 DEF FlightIsAwaited
  <2>10. NothingLost'
    <3> HIDE DEF t, n
    <3> QED
      BY <1>1, <2>3, <2>4, <2>5, <2>7, <2>8 DEF NothingLost
  <2>11. SaleCovers'
    <3> SUFFICES ASSUME Monitor.step # "idle", Monitor.token \notin mishaps
                 PROVE  /\ Monitor.step = "chosen" => wallet'[Monitor.token] = Monitor.amount
                        /\ wallet'[Monitor.token] > ToSell' => Kept(Monitor.token)
      BY <1>1, <2>4, <2>8 DEF SaleCovers
    <3>1. CASE Monitor.token # t
      <4>1. Monitor.step = "waiting" => Monitor.tx \in DOMAIN sells \ {i}
        BY <2>3, <3>1 DEF FlightIsAwaited
      <4>2. ToSell' = ToSell
        BY <2>6, <2>8, <4>1 DEF ToSell
      <4> HIDE DEF t, n
      <4> QED
        BY <2>3, <2>7, <2>8, <3>1, <4>2 DEF SaleCovers
    <3>2. CASE Monitor.token = t
      <4>1. /\ Monitor.step = "waiting" /\ Monitor.tx = i /\ Monitor.amount = n
            /\ ToSell = n /\ ToSell' = IF s = "mined" THEN 0 ELSE n
        BY <2>1, <2>6, <2>8, <2>9, <3>2 DEF ToSell
      <4>2. wallet[t] > n => Kept(t)
        BY <2>3, <3>2, <4>1 DEF SaleCovers
      <4> HIDE DEF t, n
      <4> QED
        BY <2>5, <2>7, <3>2, <4>1, <4>2
    <3> QED
      BY <3>1, <3>2
  <2> QED
    BY <2>10, <2>11
<1>4. CASE /\ UNCHANGED <<wallet, sells, buyTx>>
  <2>1. PurchaseAwaited'
    BY <1>1, <1>4 DEF KeptInv, PurchaseAwaited
  <2>2. \A t \in Tokens : Kept(t) => Kept(t)'
    BY <1>1, <1>4 DEF Kept, Buying, Open, Held
  <2> QED
    BY <1>1, <1>4, <2>1, <2>2, KeptCarried DEF KeptInv
<1> QED
  BY <1>2, <1>3, <1>4 DEF Chain, MineApprove, Drain

LEMMA NextKept == TypeInv /\ PurchaseInv /\ AloneInv /\ KeptInv /\ [Next]_vars => KeptInv'
<1>1. ASSUME TypeInv, KeptInv, UNCHANGED vars PROVE KeptInv'
  <2>1. UNCHANGED <<positions, pc, target, buyTx, wallet, sells, sale, wss, mishaps>>
    BY <1>1 DEF vars, buyers, chain, sellers
  <2>2. PurchaseAwaited' /\ \A t \in Tokens : Kept(t) => Kept(t)'
    BY <1>1, <2>1 DEF KeptInv, PurchaseAwaited, Kept, Buying, Open, Held
  <2> QED
    BY <1>1, <2>1, <2>2, KeptCarried DEF KeptInv
<1> QED
  BY <1>1, BuyerKept, SellerKept, MonitorKept, ChainKept DEF Next

\* Without the WSS client no interleaving makes the engine forget a purchase: what the
\* wallet owns of a token is tracked, being bought or being sold, unless a call that had
\* spent money failed.
THEOREM NothingIsLostSilently == Steps => []NothingLostSilentlyWithoutRugWatch
<1>1. Steps => [](TypeInv /\ PurchaseInv /\ AloneInv /\ KeptInv)
  BY InitType, NextType, InitPurchase, NextPurchase, InitAlone, NextAlone, InitKept, NextKept,
     PTL DEF Steps
<1>2. TypeInv /\ KeptInv => NothingLostSilentlyWithoutRugWatch
  <2> SUFFICES ASSUME TypeInv, NothingLost, NEW t \in Tokens \ mishaps, wallet[t] > 0
               PROVE  Open(t) \/ Buying(t) # {} \/ Selling(t) # {}
    BY DEF KeptInv, NothingLostSilentlyWithoutRugWatch
  <2>1. "monitor" \in Sellers
    BY DEF Sellers
  <2> QED
    BY <2>1 DEF NothingLost, Kept, Selling, Monitor
<1> QED
  BY <1>1, <1>2, PTL

-----------------------------------------------------------------------------
(***************************************************************************)
(* The nonces of the wallet that signs all this, for any callers, prices   *)
(* and bounds.  What makes the three properties inductive is what an       *)
(* unsent call knows: as long as nobody raced it, the nonce it asked for   *)
(* is free.                                                                *)
(***************************************************************************)

\* An unsent call that was not raced still has a free nonce.
NonceStillFree ==
    \A c \in Callers : Unsent(c) /\ ~call[c].raced =>
      call[c].nonce >= mined /\ ~NonceTaken(call[c].nonce)

\* Without a drop, all nonces below the one a call asked for are used.
NoNonceSkipped ==
    drops = 0 =>
      \A c \in Callers : Unsent(c) =>
        \A k \in mined .. call[c].nonce - 1 : NonceTaken(k)

FreeInv == NonceStillFree /\ ReplacedOnlyInRace /\ RefusedOnlyInRace
GapInv == NoNonceSkipped /\ NoGapWithoutDrop

-----------------------------------------------------------------------------
(* Types *)

LEMMA NonceInitType == NonceInit => NonceTypeOK
  BY WalletAssumption DEF NonceInit, NonceTypeOK, Idle, Call, Kinds, Tx

LEMMA NonceBeginType ==
    ASSUME NonceTypeOK, NEW c \in Callers, NEW kind \in Kinds, NEW n \in Nat, Begin(c, kind, n)
    PROVE  NonceTypeOK'
<1>1. [Idle EXCEPT !.step = "price", !.kind = kind, !.nonce = n] \in Call
  BY DEF Idle, Call, Kinds
<1>2. call' \in [Callers -> Call] /\ calls' \in 0 .. MaxCalls
  BY <1>1, WalletAssumption DEF Begin, NonceTypeOK
<1> QED
  BY <1>2 DEF Begin, NonceTypeOK

LEMMA NonceSignType == ASSUME NonceTypeOK, NEW c \in Callers, Sign(c) PROVE NonceTypeOK'
<1>1. PICK g \in GasPrices : \E p \in Price(call[c].kind, g) :
               call' = [call EXCEPT ![c].step = "send", ![c].price = p]
  BY DEF Sign
<1>2. PICK p \in Price(call[c].kind, g) :
               call' = [call EXCEPT ![c].step = "send", ![c].price = p]
  BY <1>1
<1>3. p \in Nat
  BY WalletAssumption, <1>2 DEF Price
<1>4. call' \in [Callers -> Call]
  <2>1. call \in [Callers -> Call]
    BY DEF NonceTypeOK
  <2>2. [call[c] EXCEPT !.step = "send", !.price = p] \in Call
    BY <1>3, <2>1 DEF Call
  <2>3. call' = [call EXCEPT ![c] = [call[c] EXCEPT !.step = "send", !.price = p]]
    BY <1>2
  <2> QED
    BY <2>1, <2>2, <2>3
<1> QED
  BY <1>4 DEF Sign, NonceTypeOK

LEMMA NonceTakenType ==
    ASSUME NonceTypeOK, NEW c \in Callers, NEW answered \in BOOLEAN, Accepts(c),
           Taken(c, call[c].nonce, answered)
    PROVE  /\ call' \in [Callers -> Call] /\ pool' \subseteq Tx
           /\ \A x, y \in pool' : x.nonce >= mined /\ (x.nonce = y.nonce => x = y)
<1>1. call[c] \in Call /\ call[c].nonce \in Nat /\ call[c].price \in Nat
  BY DEF NonceTypeOK, Call
<1>2. [Idle EXCEPT !.step = "wait"] \in Call /\ Idle \in Call
  BY DEF Idle, Call, Kinds
<1>3. \A d \in Callers : [call[d] EXCEPT !.raced = TRUE] \in Call /\ call[d] \in Call
  BY DEF NonceTypeOK, Call
<1>4. call' \in [Callers -> Call]
  BY <1>2, <1>3 DEF Taken
<1>5. pool' \subseteq Tx
  BY <1>1 DEF Taken, NonceTypeOK, Tx
<1>6. \A x, y \in pool' : x.nonce >= mined /\ (x.nonce = y.nonce => x = y)
  BY <1>1 DEF Taken, NonceTypeOK, Tx, Accepts
<1> QED
  BY <1>4, <1>5, <1>6

LEMMA NonceCauseType == ASSUME NEW c PROVE Cause(c) \in {"raced", "alone"}
  BY DEF Cause

LEMMA NonceSendType ==
    ASSUME NonceTypeOK, NEW c \in Callers, NEW answered \in BOOLEAN, Send(c, answered)
    PROVE  NonceTypeOK'
<1>1. Cause(c) \in {"raced", "alone"}
  BY NonceCauseType
<1>2. Idle \in Call
  BY DEF Idle, Call, Kinds
<1>3. lost' \in [{"replaced", "refused"} -> SUBSET {"raced", "alone"}]
  BY <1>1 DEF Send, NonceTypeOK
<1>4. CASE Taken(c, call[c].nonce, answered) /\ Accepts(c)
  BY <1>3, <1>4, NonceTakenType DEF Send, NonceTypeOK
<1>5. CASE call' = [call EXCEPT ![c] = Idle] /\ UNCHANGED pool
  <2>1. call' \in [Callers -> Call]
    BY <1>2, <1>5 DEF NonceTypeOK
  <2> QED
    BY <2>1, <1>3, <1>5 DEF Send, NonceTypeOK
<1> QED
  BY <1>4, <1>5 DEF Send

LEMMA NonceMineType == ASSUME NonceTypeOK, Mine PROVE NonceTypeOK'
<1>1. PICK x \in pool : x.nonce = mined /\ pool' = pool \ {x} /\ mined' = mined + 1
  BY DEF Mine
<1>2. pool \subseteq Tx /\ mined \in Nat
  BY DEF NonceTypeOK
<1>3. \A y, z \in pool' : y.nonce >= mined' /\ (y.nonce = z.nonce => y = z)
  BY <1>1, <1>2 DEF NonceTypeOK, Tx
<1>4. pool' \subseteq Tx /\ mined' \in Nat
  BY <1>1, <1>2
<1> QED
  BY <1>3, <1>4 DEF Mine, NonceTypeOK

LEMMA NonceDropType == ASSUME NonceTypeOK, Drop PROVE NonceTypeOK'
  BY WalletAssumption DEF Drop, NonceTypeOK

LEMMA NonceEndType ==
    ASSUME NonceTypeOK, NEW c \in Callers, Fail(c) \/ EndWait(c)
    PROVE  NonceTypeOK'
<1>1. Idle \in Call
  BY DEF Idle, Call, Kinds
<1>2. call' \in [Callers -> Call]
  BY <1>1 DEF Fail, EndWait, NonceTypeOK
<1> QED
  BY <1>2 DEF Fail, EndWait, NonceTypeOK

LEMMA NonceCrashType == ASSUME NonceTypeOK, Crash PROVE NonceTypeOK'
  BY DEF Crash, NonceTypeOK, Idle, Call, Kinds

\* AskNonce begins a call with a natural number that is free and follows the others.
LEMMA AskedNonce ==
    ASSUME NonceTypeOK, NEW c \in Callers, NEW kind \in Kinds, AskNonce(c, kind)
    PROVE  \E n \in Nat : n >= mined /\ IsPending(n) /\ Begin(c, kind, n)
  BY DEF AskNonce, NonceTypeOK

LEMMA NonceNextType == ASSUME NonceTypeOK, [NonceNext]_nonceVars PROVE NonceTypeOK'
<1>1. CASE Mine
  BY <1>1, NonceMineType
<1>2. CASE Drop
  BY <1>2, NonceDropType
<1>3. CASE Crash
  BY <1>3, NonceCrashType
<1>4. ASSUME NEW c \in Callers, NEW kind \in Kinds, AskNonce(c, kind) PROVE NonceTypeOK'
  BY <1>4, AskedNonce, NonceBeginType
<1>5. ASSUME NEW c \in Callers, NEW answered \in BOOLEAN, Send(c, answered) PROVE NonceTypeOK'
  BY <1>5, NonceSendType
<1>6. ASSUME NEW c \in Callers, Sign(c) PROVE NonceTypeOK'
  BY <1>6, NonceSignType
<1>7. ASSUME NEW c \in Callers, Fail(c) \/ EndWait(c) PROVE NonceTypeOK'
  BY <1>7, NonceEndType
<1>8. CASE UNCHANGED nonceVars
  BY <1>8 DEF nonceVars, NonceTypeOK
<1> QED
  BY <1>1, <1>2, <1>3, <1>4, <1>5, <1>6, <1>7, <1>8 DEF NonceNext

\* Every state has the types of the fields of a call and of a transaction, and no
\* two transactions that wait share a nonce (bind.TransactOpts, SendTransaction).
THEOREM NonceTypeCorrect == NonceSpec => []NonceTypeOK
<1>1. NonceInit => NonceTypeOK
  BY NonceInitType
<1>2. NonceTypeOK /\ [NonceNext]_nonceVars => NonceTypeOK'
  BY NonceNextType
<1> QED
  BY <1>1, <1>2, PTL DEF NonceSpec

-----------------------------------------------------------------------------
(* Nobody is lost without a race *)

LEMMA NonceInitFree == NonceInit => FreeInv
  BY DEF NonceInit, FreeInv, NonceStillFree, ReplacedOnlyInRace, RefusedOnlyInRace, Idle, Unsent

LEMMA NonceSendFree ==
    ASSUME NonceTypeOK, FreeInv, NEW c \in Callers, NEW answered \in BOOLEAN, Send(c, answered)
    PROVE  FreeInv'
<1>0. mined' = mined
  BY DEF Send
<1>1. Unsent(c) /\ call[c].nonce \in Nat
  BY DEF Send, Unsent, NonceTypeOK, Call
<1>2. Rival(c) # {} => NonceTaken(call[c].nonce)
  BY DEF Rival, NonceTaken
<1>3. ~call[c].raced => Accepts(c) /\ Rival(c) = {}
  BY <1>1, <1>2 DEF FreeInv, NonceStillFree, Accepts
<1>4. ReplacedOnlyInRace' /\ RefusedOnlyInRace'
  <2>1. CASE call[c].raced
    BY <2>1 DEF Send, Cause, FreeInv, ReplacedOnlyInRace, RefusedOnlyInRace, NonceTypeOK
  <2>2. CASE ~call[c].raced
    BY <1>3, <2>2 DEF Send, FreeInv, ReplacedOnlyInRace, RefusedOnlyInRace, NonceTypeOK
  <2> QED
    BY <2>1, <2>2
<1>5. NonceStillFree'
  <2> SUFFICES ASSUME NEW d \in Callers, Unsent(d)', ~call'[d].raced
               PROVE  call'[d].nonce >= mined' /\ ~NonceTaken(call[d].nonce)'
    BY DEF NonceStillFree, Send
  <2>1. CASE Taken(c, call[c].nonce, answered)
    <3>1. d # c
      BY <2>1 DEF Taken, Unsent, Idle
    <3>2. call'[d] = call[d] /\ Unsent(d) /\ call[d].nonce # call[c].nonce
      BY <2>1, <3>1 DEF Taken, Unsent, NonceTypeOK, Call
    <3>3. call[d].nonce >= mined /\ ~NonceTaken(call[d].nonce)
      BY <3>2 DEF FreeInv, NonceStillFree
    <3>4. \A x \in pool' : x \in pool \/ x.nonce = call[c].nonce
      BY <2>1 DEF Taken
    <3> QED
      BY <1>0, <3>2, <3>3, <3>4 DEF NonceTaken
  <2>2. CASE call' = [call EXCEPT ![c] = Idle] /\ UNCHANGED pool
    <3>1. d # c /\ call'[d] = call[d]
      BY <2>2 DEF Unsent, Idle, NonceTypeOK
    <3> QED
      BY <1>0, <2>2, <3>1 DEF FreeInv, NonceStillFree, NonceTaken, Unsent
  <2> QED
    BY <2>1, <2>2 DEF Send
<1> QED
  BY <1>4, <1>5 DEF FreeInv

LEMMA NonceMineFree == ASSUME NonceTypeOK, FreeInv, Mine PROVE FreeInv'
<1>1. PICK x \in pool : x.nonce = mined /\ pool' = pool \ {x} /\ mined' = mined + 1
  BY DEF Mine
<1>2. NonceTaken(mined)
  BY <1>1 DEF NonceTaken
<1>3. ASSUME NEW c \in Callers, Unsent(c), ~call[c].raced
      PROVE  call'[c].nonce >= mined' /\ ~NonceTaken(call[c].nonce)'
  <2>1. call[c].nonce >= mined /\ ~NonceTaken(call[c].nonce) /\ call[c].nonce \in Nat
    BY <1>3 DEF FreeInv, NonceStillFree, NonceTypeOK, Call
  <2>2. call[c].nonce # mined
    BY <1>2, <2>1
  <2>3. call' = call
    BY DEF Mine
  <2> QED
    BY <1>1, <2>1, <2>2, <2>3 DEF NonceTaken, NonceTypeOK
<1> QED
  BY <1>3 DEF Mine, FreeInv, NonceStillFree, ReplacedOnlyInRace, RefusedOnlyInRace, Unsent

LEMMA NonceNextFree == ASSUME NonceTypeOK, FreeInv, [NonceNext]_nonceVars PROVE FreeInv'
<1> USE DEF FreeInv
<1>1. CASE Mine
  BY <1>1, NonceMineFree
<1>2. CASE Drop
  BY <1>2 DEF Drop, NonceStillFree, ReplacedOnlyInRace, RefusedOnlyInRace, Unsent, NonceTaken
<1>3. CASE Crash
  BY <1>3 DEF Crash, NonceStillFree, ReplacedOnlyInRace, RefusedOnlyInRace, Unsent, Idle
<1>4. ASSUME NEW c \in Callers, NEW kind \in Kinds, AskNonce(c, kind) PROVE FreeInv'
  <2>1. PICK n \in Nat : n >= mined /\ IsPending(n) /\ Begin(c, kind, n)
    BY <1>4, AskedNonce
  <2>2. ASSUME NEW d \in Callers, Unsent(d)', ~call'[d].raced
        PROVE  call'[d].nonce >= mined' /\ ~NonceTaken(call[d].nonce)'
    <3>1. CASE d = c
      BY <2>1, <3>1 DEF Begin, NonceTypeOK, Idle, IsPending, NonceTaken
    <3>2. CASE d # c
      BY <2>1, <2>2, <3>2 DEF Begin, NonceTypeOK, NonceStillFree, Unsent, NonceTaken
    <3> QED
      BY <3>1, <3>2
  <2> QED
    BY <2>1, <2>2 DEF Begin, NonceStillFree, ReplacedOnlyInRace, RefusedOnlyInRace
<1>5. ASSUME NEW c \in Callers, NEW answered \in BOOLEAN, Send(c, answered) PROVE FreeInv'
  BY <1>5, NonceSendFree
<1>6. ASSUME NEW c \in Callers, Sign(c) PROVE FreeInv'
  <2>1. \A d \in Callers : /\ call'[d].nonce = call[d].nonce /\ call'[d].raced = call[d].raced
                           /\ Unsent(d)' => Unsent(d)
    BY <1>6 DEF Sign, NonceTypeOK, Unsent, Call
  <2> QED
    BY <1>6, <2>1 DEF Sign, NonceStillFree, ReplacedOnlyInRace, RefusedOnlyInRace, NonceTaken
<1>7. ASSUME NEW c \in Callers, Fail(c) \/ EndWait(c) PROVE FreeInv'
  <2>1. \A d \in Callers : Unsent(d)' => call'[d] = call[d] /\ Unsent(d)
    BY <1>7 DEF Fail, EndWait, NonceTypeOK, Unsent, Idle
  <2> QED
    BY <1>7, <2>1 DEF Fail, EndWait, NonceStillFree, ReplacedOnlyInRace, RefusedOnlyInRace,
                      NonceTaken
<1>8. CASE UNCHANGED nonceVars
  BY <1>8 DEF nonceVars, NonceStillFree, ReplacedOnlyInRace, RefusedOnlyInRace, Unsent, NonceTaken
<1> QED
  BY <1>1, <1>2, <1>3, <1>4, <1>5, <1>6, <1>7, <1>8 DEF NonceNext

\* Whatever calls overlap, fail or crash: a transaction the node has taken is replaced
\* only by a call that asked for the same nonce before it was sent.
THEOREM ReplacedOnlyInRaceHolds == NonceSpec => []ReplacedOnlyInRace
<1>1. NonceInit => NonceTypeOK /\ FreeInv
  BY NonceInitType, NonceInitFree
<1>2. NonceTypeOK /\ FreeInv /\ [NonceNext]_nonceVars => NonceTypeOK' /\ FreeInv'
  BY NonceNextType, NonceNextFree
<1>3. FreeInv => ReplacedOnlyInRace
  BY DEF FreeInv
<1> QED
  BY <1>1, <1>2, <1>3, PTL DEF NonceSpec

\* A send is refused only when another call used its nonce after it had asked.
THEOREM RefusedOnlyInRaceHolds == NonceSpec => []RefusedOnlyInRace
<1>1. NonceInit => NonceTypeOK /\ FreeInv
  BY NonceInitType, NonceInitFree
<1>2. NonceTypeOK /\ FreeInv /\ [NonceNext]_nonceVars => NonceTypeOK' /\ FreeInv'
  BY NonceNextType, NonceNextFree
<1>3. FreeInv => RefusedOnlyInRace
  BY DEF FreeInv
<1> QED
  BY <1>1, <1>2, <1>3, PTL DEF NonceSpec
-----------------------------------------------------------------------------
(* No gap *)

LEMMA NonceInitGap == NonceInit => GapInv
  BY DEF NonceInit, GapInv, NoNonceSkipped, NoGapWithoutDrop, Idle, Unsent

LEMMA NonceBeginGap ==
    ASSUME NonceTypeOK, GapInv, NEW c \in Callers, NEW kind \in Kinds, AskNonce(c, kind)
    PROVE  GapInv'
<1>1. PICK n \in Nat : n >= mined /\ IsPending(n) /\ Begin(c, kind, n)
  BY AskedNonce
<1>2. ASSUME drops = 0, NEW d \in Callers, Unsent(d)'
      PROVE  \A k \in mined .. call'[d].nonce - 1 : NonceTaken(k)
  <2>1. CASE d = c
    BY <1>1, <2>1 DEF Begin, NonceTypeOK, Idle, IsPending
  <2>2. CASE d # c
    BY <1>1, <1>2, <2>2 DEF Begin, NonceTypeOK, GapInv, NoNonceSkipped, Unsent
  <2> QED
    BY <2>1, <2>2
<1>3. UNCHANGED <<pool, mined, drops>>
  BY <1>1 DEF Begin
<1> QED
  BY <1>2, <1>3 DEF GapInv, NoNonceSkipped, NoGapWithoutDrop, NonceTaken

LEMMA NonceSendGap ==
    ASSUME NonceTypeOK, GapInv, NEW c \in Callers, NEW answered \in BOOLEAN, Send(c, answered)
    PROVE  GapInv'
<1>1. Unsent(c) /\ call[c].nonce \in Nat /\ mined \in Nat /\ drops' = drops /\ mined' = mined
  BY DEF Send, Unsent, NonceTypeOK, Call
<1>2. \A k : NonceTaken(k) => NonceTaken(k)'
  <2> SUFFICES ASSUME NEW k, NEW x \in pool, x.nonce = k PROVE \E y \in pool' : y.nonce = k
    BY DEF NonceTaken
  <2> DEFINE tx == [nonce |-> call[c].nonce, price |-> call[c].price]
  <2>1. UNCHANGED pool \/ pool' = {y \in pool : y.nonce # call[c].nonce} \cup {tx}
    BY DEF Send, Taken
  <2>2. tx.nonce = call[c].nonce
    OBVIOUS
  <2> QED
    BY <2>1, <2>2
<1>3. ASSUME NEW d \in Callers, Unsent(d)' PROVE Unsent(d) /\ call'[d].nonce = call[d].nonce
  <2>1. CASE Taken(c, call[c].nonce, answered)
    BY <1>3, <2>1 DEF Taken, Unsent, Idle
  <2>2. CASE call' = [call EXCEPT ![c] = Idle]
    BY <1>3, <2>2 DEF Unsent, Idle, NonceTypeOK
  <2> QED
    BY <2>1, <2>2 DEF Send
<1>4. NoNonceSkipped'
  BY <1>1, <1>2, <1>3 DEF GapInv, NoNonceSkipped
<1>5. ASSUME drops = 0, NEW x \in pool', NEW n \in mined .. x.nonce PROVE NonceTaken(n)'
  <2>1. CASE x \in pool
    BY <1>1, <1>2, <1>5, <2>1 DEF GapInv, NoGapWithoutDrop
  <2>2. CASE x \notin pool
    <3>1. x.nonce = call[c].nonce
      BY <2>2 DEF Send, Taken
    <3>2. n = x.nonce \/ n \in mined .. call[c].nonce - 1
      BY <1>1, <3>1
    <3>3. CASE n = x.nonce
      BY <3>3 DEF NonceTaken
    <3>4. CASE n \in mined .. call[c].nonce - 1
      BY <1>1, <1>2, <1>5, <3>4 DEF GapInv, NoNonceSkipped
    <3> QED
      BY <3>2, <3>3, <3>4
  <2> QED
    BY <2>1, <2>2
<1> QED
  BY <1>1, <1>4, <1>5 DEF GapInv, NoGapWithoutDrop

LEMMA NonceMineGap == ASSUME NonceTypeOK, GapInv, Mine PROVE GapInv'
<1>1. PICK x \in pool : x.nonce = mined /\ pool' = pool \ {x} /\ mined' = mined + 1
  BY DEF Mine
<1>2. mined \in Nat /\ pool \subseteq Tx /\ drops' = drops /\ call' = call
  BY DEF Mine, NonceTypeOK
<1>3. \A k : k # mined /\ NonceTaken(k) => NonceTaken(k)'
  BY <1>1 DEF NonceTaken
<1>4. ASSUME drops = 0, NEW c \in Callers, Unsent(c), NEW k \in mined' .. call[c].nonce - 1
      PROVE  NonceTaken(k)'
  <2>1. call[c].nonce \in Nat
    BY DEF NonceTypeOK, Call
  <2>2. k \in mined .. call[c].nonce - 1 /\ k # mined
    BY <1>1, <1>2, <2>1
  <2> QED
    BY <1>3, <1>4, <2>2 DEF GapInv, NoNonceSkipped
<1>5. ASSUME drops = 0, NEW y \in pool', NEW n \in mined' .. y.nonce PROVE NonceTaken(n)'
  <2>1. y \in pool /\ y.nonce \in Nat
    BY <1>1, <1>2 DEF Tx
  <2>2. n \in mined .. y.nonce /\ n # mined
    BY <1>1, <1>2, <2>1
  <2> QED
    BY <1>3, <1>5, <2>1, <2>2 DEF GapInv, NoGapWithoutDrop
<1> QED
  BY <1>2, <1>4, <1>5 DEF GapInv, NoNonceSkipped, NoGapWithoutDrop, Unsent

LEMMA NonceNextGap == ASSUME NonceTypeOK, GapInv, [NonceNext]_nonceVars PROVE GapInv'
<1> USE DEF GapInv
<1>1. CASE Mine
  BY <1>1, NonceMineGap
<1>2. CASE Drop
  BY <1>2 DEF Drop, NonceTypeOK, NoNonceSkipped, NoGapWithoutDrop
<1>3. CASE Crash
  BY <1>3 DEF Crash, NoNonceSkipped, NoGapWithoutDrop, Unsent, Idle, NonceTaken
<1>4. ASSUME NEW c \in Callers, NEW kind \in Kinds, AskNonce(c, kind) PROVE GapInv'
  BY <1>4, NonceBeginGap
<1>5. ASSUME NEW c \in Callers, NEW answered \in BOOLEAN, Send(c, answered) PROVE GapInv'
  BY <1>5, NonceSendGap
<1>6. ASSUME NEW c \in Callers, Sign(c) PROVE GapInv'
  <2>1. \A d \in Callers : call'[d].nonce = call[d].nonce /\ (Unsent(d)' => Unsent(d))
    BY <1>6 DEF Sign, NonceTypeOK, Unsent, Call
  <2> QED
    BY <1>6, <2>1 DEF Sign, NoNonceSkipped, NoGapWithoutDrop, NonceTaken
<1>7. ASSUME NEW c \in Callers, Fail(c) \/ EndWait(c) PROVE GapInv'
  <2>1. \A d \in Callers : Unsent(d)' => call'[d] = call[d] /\ Unsent(d)
    BY <1>7 DEF Fail, EndWait, NonceTypeOK, Unsent, Idle
  <2> QED
    BY <1>7, <2>1 DEF Fail, EndWait, NoNonceSkipped, NoGapWithoutDrop, NonceTaken
<1>8. CASE UNCHANGED nonceVars
  BY <1>8 DEF nonceVars, NoNonceSkipped, NoGapWithoutDrop, Unsent, NonceTaken
<1> QED
  BY <1>1, <1>2, <1>3, <1>4, <1>5, <1>6, <1>7, <1>8 DEF NonceNext

\* Until the node drops one, the transactions that wait have the nonces from the
\* account's on without a gap: a call that fails between its nonce and its send leaves
\* nothing for later ones to wait for.
THEOREM NoGapWithoutDropHolds == NonceSpec => []NoGapWithoutDrop
<1>1. NonceInit => NonceTypeOK /\ GapInv
  BY NonceInitType, NonceInitGap
<1>2. NonceTypeOK /\ GapInv /\ [NonceNext]_nonceVars => NonceTypeOK' /\ GapInv'
  BY NonceNextType, NonceNextGap
<1>3. GapInv => NoGapWithoutDrop
  BY DEF GapInv
<1> QED
  BY <1>1, <1>2, <1>3, PTL DEF NonceSpec
=============================================================================
