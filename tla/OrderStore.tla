----------------------------- MODULE OrderStore -----------------------------
(***************************************************************************)
(* The order database of db.go.  The rows of orders never change after     *)
(* saveOrder; order_statuses holds one row per order.  Every operation is  *)
(* one SQLite transaction on a connection of its own.                      *)
(***************************************************************************)
CONSTANT OrderIds

VARIABLES
    status,        \* order -> its status, "none" before saveOrder
    old            \* the orders whose timestamp is over ten minutes ago

storeVars == <<status, old>>

\* The statuses of the CHECK constraint on order_statuses.
Statuses == {"Pending", "Funded", "Fulfilled", "Cancelled", "Expired"}

OpenStatuses == {"Pending", "Funded"}

Saved == {o \in OrderIds : status[o] # "none"}

StoreInit ==
    /\ status = [o \in OrderIds |-> "none"]
    /\ old = {}

\* Mutant: an order is inserted whether or not its id is in use.
saveOrderAgain(o) ==
    status' = [status EXCEPT ![o] = "Pending"]

\* The order and its first status are inserted in one transaction.
saveOrder(o) ==
    /\ status[o] = "none"
    /\ status' = [status EXCEPT ![o] = "Pending"]

\* Mutant: the UPDATE lacks its WHERE clause.
updateEveryStatus(o, s) ==
    status' = [p \in OrderIds |-> IF p \in Saved THEN s ELSE "none"]

updateOrderStatus(o, s) ==
    status' = [status EXCEPT ![o] = s]

\* Mutants: the SELECT lacks its WHERE clause, or one of the two statuses.
EveryOrder == Saved
PendingOrders == {o \in OrderIds : status[o] = "Pending"}

\* The orders that fetchOrdersToFulfill returns.
OrdersToFulfill == {o \in OrderIds : status[o] \in OpenStatuses}

\* Ten minutes pass since NewOrder stamped the order.
Age(o) ==
    /\ o \in Saved \ old
    /\ old' = old \cup {o}
    /\ UNCHANGED status
=============================================================================
