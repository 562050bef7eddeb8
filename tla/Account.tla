------------------------------ MODULE Account -------------------------------
(***************************************************************************)
(* What any trading account promises: it holds a number of lots and cash,  *)
(* and the only thing that can happen to it is a trade at a price on       *)
(* offer, which moves cash by exactly the price of the lots.  An account   *)
(* that keeps an average price instead of its cash may lose less than a    *)
(* cent per lot held when it adds to a position.                           *)
(***************************************************************************)
EXTENDS Integers

CONSTANTS Seeds, InitialBalance

VARIABLES holding, cash, offers

Size(x) == IF x < 0 THEN -x ELSE x

Init ==
    \E seed \in Seeds :
        /\ holding = seed[1]
        /\ cash = InitialBalance - seed[1] * seed[2]

\* What the trade of the step from holding to holding' leaves unexplained.
Unexplained(price) == cash' - cash + (holding' - holding) * price

Adding == (holding > 0 /\ holding' > holding) \/ (holding < 0 /\ holding' < holding)

Trade(price) ==
    /\ holding' # holding
    /\ IF Adding THEN Size(Unexplained(price)) < Size(holding')
                 ELSE Unexplained(price) = 0

Next == \E price \in offers : Trade(price)

Spec == Init /\ [][Next]_<<holding, cash>>
=============================================================================
