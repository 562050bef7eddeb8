----------------------------- MODULE WalletNonce -----------------------------
(***************************************************************************)
(* The one account of dex.Wallet, which every purchase, approval and sale  *)
(* signs with: each call asks the node for the pending nonce and the gas   *)
(* price, estimates, signs and sends, with no lock around it.  The node is *)
(* one mempool: it replaces a transaction by one of the same nonce that    *)
(* pays a tenth more, and mines in the order of nonces.                    *)
(***************************************************************************)
EXTENDS Naturals, FiniteSets

CONSTANTS
    Callers,        \* goroutines: purchases, the monitor, the rug watch
    GasPrices,      \* prices the node may suggest; 1 is the tenth a replacement costs
    CapPrice,       \* what a purchase pays under EIP-1559, whatever is suggested
    MaxCalls, MaxDrops  \* bounds

ASSUME WalletAssumption ==
    /\ GasPrices \subseteq Nat /\ CapPrice \in Nat
    /\ {MaxCalls, MaxDrops} \subseteq Nat

VARIABLES
    call,       \* caller -> its call
    calls,      \* how many were made
    pool,       \* node: the transactions that wait, at most one of a nonce
    mined,      \* node: the account's nonce, which is how many were mined
    drops,      \* transactions the node dropped so far
    lost        \* history: transactions replaced and sends refused, by a race or not

nonceVars == <<call, calls, pool, mined, drops, lost>>

Tx == [nonce : Nat, price : Nat]
Kinds == {"buy", "sell", "approve"}

\* raced: since the call asked, another one sent a transaction with its nonce.
Call == [step : {"idle", "price", "send", "wait"}, kind : Kinds \cup {"none"}, nonce : Nat,
         price : Nat, raced : BOOLEAN]
Idle == [step |-> "idle", kind |-> "none", nonce |-> 0, price |-> 0, raced |-> FALSE]

Unsent(c) == call[c].step \in {"price", "send"}
NonceTaken(n) == \E x \in pool : x.nonce = n

NonceTypeOK ==
    /\ call \in [Callers -> Call] /\ calls \in 0 .. MaxCalls
    /\ pool \subseteq Tx /\ mined \in Nat
    /\ \A x, y \in pool : x.nonce >= mined /\ (x.nonce = y.nonce => x = y)
    /\ drops \in 0 .. MaxDrops
    /\ lost \in [{"replaced", "refused"} -> SUBSET {"raced", "alone"}]

NonceInit ==
    /\ call = [c \in Callers |-> Idle] /\ calls = 0
    /\ pool = {} /\ mined = 0 /\ drops = 0
    /\ lost = [replaced |-> {}, refused |-> {}]

-----------------------------------------------------------------------------
(* The node *)

\* PendingNonceAt: the first nonce that is neither mined nor waiting.
IsPending(n) == ~NonceTaken(n) /\ \A k \in mined .. n - 1 : NonceTaken(k)

Mine ==
    \E x \in pool :
      /\ x.nonce = mined
      /\ pool' = pool \ {x} /\ mined' = mined + 1
      /\ UNCHANGED <<call, calls, drops, lost>>

\* A full mempool, a restart of the node.
Drop ==
    /\ drops < MaxDrops
    /\ \E x \in pool : pool' = pool \ {x}
    /\ drops' = drops + 1
    /\ UNCHANGED <<call, calls, mined, lost>>

-----------------------------------------------------------------------------
(* A call of the wallet *)

Begin(c, kind, nonce) ==
    /\ call[c].step = "idle" /\ calls < MaxCalls
    /\ call' = [call EXCEPT ![c] = [Idle EXCEPT !.step = "price", !.kind = kind, !.nonce = nonce]]
    /\ calls' = calls + 1
    /\ UNCHANGED <<pool, mined, drops, lost>>

\* Mutant: the nonce of the last block, without the transactions that wait.
AskLatestNonce(c, kind) == Begin(c, kind, mined)

\* Mutant: calls under way count as sent, so that no two get the same nonce.
AskReservedNonce(c, kind) ==
    \E n \in mined .. mined + Cardinality(pool) :
      IsPending(n) /\ Begin(c, kind, n + Cardinality({d \in Callers : Unsent(d)}))

\* TransactOpts, first half.
AskNonce(c, kind) ==
    \E n \in mined .. mined + Cardinality(pool) : IsPending(n) /\ Begin(c, kind, n)

\* Mutant: the tip is taken off the cap.
PriceLessTip(kind, suggested) ==
    IF kind = "buy" THEN {suggested + 1, CapPrice - 2} ELSE {suggested}

\* The price of a purchase has a bonus of 15%, or is that of EIP-1559 when the
\* block read between the estimate and the signature has a base fee.
Price(kind, suggested) == IF kind = "buy" THEN {suggested + 1, CapPrice} ELSE {suggested}

\* TransactOpts, second half; then the gas is estimated and the transaction signed.
Sign(c) ==
    /\ call[c].step = "price"
    /\ \E g \in GasPrices : \E p \in Price(call[c].kind, g) :
         call' = [call EXCEPT ![c].step = "send", ![c].price = p]
    /\ UNCHANGED <<calls, pool, mined, drops, lost>>

\* Any of the requests fails or takes too long: nothing was sent.
Fail(c) ==
    /\ Unsent(c)
    /\ call' = [call EXCEPT ![c] = Idle]
    /\ UNCHANGED <<calls, pool, mined, drops, lost>>

Rival(c) == {x \in pool : x.nonce = call[c].nonce}
Accepts(c) ==
    /\ call[c].nonce >= mined
    /\ \A x \in Rival(c) : call[c].price > x.price

\* How the call of c lost against another one.
Cause(c) == IF call[c].raced THEN "raced" ELSE "alone"

\* A transaction is taken; who has asked for the same nonce and not sent yet learns
\* nothing of it.  Without the answer the call ends with an error.
Taken(c, nonce, answered) ==
    /\ pool' = {x \in pool : x.nonce # nonce} \cup {[nonce |-> nonce, price |-> call[c].price]}
    /\ call' = [d \in Callers |->
         CASE d = c -> IF answered THEN [Idle EXCEPT !.step = "wait"] ELSE Idle
           [] d # c /\ Unsent(d) /\ call[d].nonce = nonce -> [call[d] EXCEPT !.raced = TRUE]
           [] OTHER -> call[d]]

\* SendTransaction: the node takes it, in place of a cheaper one of the same nonce,
\* or refuses it.
Send(c, answered) ==
    /\ call[c].step = "send"
    /\ \/ /\ Accepts(c)
          /\ Taken(c, call[c].nonce, answered)
          /\ lost' = IF Rival(c) = {} THEN lost ELSE [lost EXCEPT !.replaced = @ \cup {Cause(c)}]
       \/ /\ ~Accepts(c) /\ answered
          /\ lost' = [lost EXCEPT !.refused = @ \cup {Cause(c)}]
          /\ call' = [call EXCEPT ![c] = Idle]
          /\ UNCHANGED pool
    /\ UNCHANGED <<calls, mined, drops>>

\* bindWaitMined: the receipt, or the end of the context; then the goroutine is free
\* for its next call.
EndWait(c) ==
    /\ call[c].step = "wait"
    /\ call' = [call EXCEPT ![c] = Idle]
    /\ UNCHANGED <<calls, pool, mined, drops, lost>>

Crash ==
    /\ \E c \in Callers : call[c] # Idle
    /\ call' = [c \in Callers |-> Idle]
    /\ UNCHANGED <<calls, pool, mined, drops, lost>>

NonceNext ==
    \/ Mine \/ Drop \/ Crash
    \/ \E c \in Callers :
         \/ \E kind \in Kinds : AskNonce(c, kind)
         \/ \E answered \in BOOLEAN : Send(c, answered)
         \/ Sign(c) \/ Fail(c) \/ EndWait(c)

NonceSpec == NonceInit /\ [][NonceNext]_nonceVars

-----------------------------------------------------------------------------
(* Properties *)

\* A purchase, an approval or a sale that the node has taken disappears only because
\* the node dropped it, or because another call had asked for its nonce before it was
\* sent: no later call, also after a failure, a lost answer or a restart, replaces it.
ReplacedOnlyInRace == lost.replaced \subseteq {"raced"}

\* A send is refused only if another call sent with the same nonce since it asked
\* for it: calls that do not overlap never stand in each other's way.
RefusedOnlyInRace == lost.refused \subseteq {"raced"}

\* Unless the node drops one, the transactions that wait follow each other without a
\* gap from the account's nonce on: no call that failed half-way makes later ones wait
\* for a nonce that nobody will use.
NoGapWithoutDrop ==
    drops = 0 =>
      \A x \in pool : \A n \in mined .. x.nonce : NonceTaken(n)
=============================================================================
