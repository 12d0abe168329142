--------------------------- MODULE OrderLifecycle ---------------------------
(***************************************************************************)
(* What Banco promises about an order, without its mechanism.  One order   *)
(* at a time is held by a worker, which takes only open orders; only the   *)
(* order it holds changes status; an order is Fulfilled only after it was  *)
(* paid, unless it asks for nothing; a Fulfilled order never changes, and  *)
(* an Expired one that nobody holds neither.                               *)
(***************************************************************************)
CONSTANTS
    OrderIds,
    Gifts,         \* the orders whose input amount is zero
    Nobody         \* no order is held

VARIABLES
    status,        \* order -> its status
    paid,          \* the orders for which a trade was made
    held           \* the order the worker holds, or Nobody

vars == <<status, paid, held>>

Init ==
    /\ status = [o \in OrderIds |-> "none"]
    /\ paid = {}
    /\ held = Nobody

Place(o) ==
    /\ status[o] = "none"
    /\ status' = [status EXCEPT ![o] = "Pending"]
    /\ UNCHANGED <<paid, held>>

Take(o) ==
    /\ held = Nobody
    /\ status[o] \in {"Pending", "Funded"}
    /\ held' = o
    /\ status' \in {status, [status EXCEPT ![o] = "Expired"]}
    /\ UNCHANGED paid

Fund(o) ==
    /\ held = o
    /\ status' = [status EXCEPT ![o] = "Funded"]
    /\ UNCHANGED <<paid, held>>

Pay(o) ==
    /\ held = o
    /\ paid' = paid \cup {o}
    /\ held' \in {o, Nobody}
    /\ UNCHANGED status

Fulfill(o) ==
    /\ held = o
    /\ o \in paid \cup Gifts
    /\ status' = [status EXCEPT ![o] = "Fulfilled"]
    /\ held' = Nobody
    /\ UNCHANGED paid

Release ==
    /\ held' = Nobody
    /\ UNCHANGED <<status, paid>>

Next ==
    \/ \E o \in OrderIds : Place(o) \/ Take(o) \/ Fund(o) \/ Pay(o) \/ Fulfill(o)
    \/ Release

Spec == Init /\ [][Next]_vars
=============================================================================
