------------------------------- MODULE Startup -------------------------------
(***************************************************************************)
(* How Banco starts (main.go, initDB, NewWalletService): the database's    *)
(* tables, the wallet and its account, the watcher, the rates, the pages,  *)
(* in this order.  Any failure ends the process; it is started again, with *)
(* whatever the database and the wallet daemon kept.                       *)
(***************************************************************************)
EXTENDS Naturals

CONSTANT MaxFailures   \* bound: how many steps fail, and how often the wallet locks

ASSUME MaxFailuresAssumption == MaxFailures \in Nat

VARIABLES
    pc,            \* the next step of main, "down" when there is no process
    config,        \* of the process: whether its network is known, whether it watches
    tables,        \* the tables of the database
    ready,         \* whether the wallet is initialized and unlocked
    accounts,      \* how many accounts of the daemon have the name in the config
    watching,      \* whether the watcher's goroutine runs
    failures       \* bound: failures that may still happen

vars == <<pc, config, tables, ready, accounts, watching, failures>>

Configs == [network : {"known", "unknown"}, watch : BOOLEAN]

Init ==
    /\ pc = "down"
    /\ config \in Configs
    /\ tables = {}
    /\ ready \in BOOLEAN
    /\ accounts = 0
    /\ watching = FALSE
    /\ failures = MaxFailures

Fail == failures > 0 /\ failures' = failures - 1

\* log.Fatal, a panic, or main's return: nothing of the process is left.
Exit == pc' = "down" /\ watching' = FALSE

-----------------------------------------------------------------------------
\* Mutant: the watcher starts with the process.
RunWatching(c) ==
    /\ pc = "down"
    /\ config' = c
    /\ pc' = IF c.network = "known" THEN "orders" ELSE "down"
    /\ watching' = (c.network = "known" /\ c.watch)
    /\ UNCHANGED <<tables, ready, accounts, failures>>

\* The process is started with some configuration and validates the network.
Run(c) ==
    /\ pc = "down"
    /\ config' = c
    /\ pc' = IF c.network = "known" THEN "orders" ELSE "down"
    /\ UNCHANGED <<tables, ready, accounts, watching, failures>>

\* initDB creates each of the two tables unless it exists.
CreateTable(table, next) ==
    /\ pc = table
    /\ tables' = tables \cup {table}
    /\ pc' = next
    /\ UNCHANGED <<config, ready, accounts, watching, failures>>

InitDB == CreateTable("orders", "statuses") \/ CreateTable("statuses", "wallet")

\* NewWalletService asks the wallet whether it is initialized and unlocked.
CheckWallet ==
    /\ pc = "wallet"
    /\ IF ready THEN pc' = "account" /\ UNCHANGED watching ELSE Exit
    /\ UNCHANGED <<config, tables, ready, accounts, failures>>

\* Mutant: a start ends the process when it finds an account.
FindAccountOrExit ==
    /\ pc = "account"
    /\ IF accounts > 0 THEN Exit ELSE pc' = "create" /\ UNCHANGED watching
    /\ UNCHANGED <<config, tables, ready, accounts, failures>>

\* Mutant: the account is created without a look at those there are.
FindNoAccount ==
    /\ pc = "account"
    /\ pc' = "create"
    /\ UNCHANGED <<config, tables, ready, accounts, watching, failures>>

\* It creates the account unless the daemon has one of that name.
FindAccount ==
    /\ pc = "account"
    /\ pc' = IF accounts > 0 THEN "watch" ELSE "create"
    /\ UNCHANGED <<config, tables, ready, accounts, watching, failures>>

CreateAccount ==
    /\ pc = "create"
    /\ accounts' = accounts + 1
    /\ \/ pc' = "watch" /\ UNCHANGED <<watching, failures>>
       \/ Fail /\ Exit
    /\ UNCHANGED <<config, tables, ready>>

\* Mutant: the interval is not looked at.
StartWatchingAlways ==
    /\ pc = "watch"
    /\ watching' = TRUE
    /\ pc' = "rates"
    /\ UNCHANGED <<config, tables, ready, accounts, failures>>

\* With a positive interval the watcher starts, before there are rates or pages.
StartWatching ==
    /\ pc = "watch"
    /\ watching' = config.watch
    /\ pc' = "rates"
    /\ UNCHANGED <<config, tables, ready, accounts, failures>>

Subscribe ==
    /\ pc = "rates"
    /\ pc' = "pages"
    /\ UNCHANGED <<config, tables, ready, accounts, watching, failures>>

\* The templates are loaded and the server listens.
Serve ==
    /\ pc = "pages"
    /\ pc' = "serving"
    /\ UNCHANGED <<config, tables, ready, accounts, watching, failures>>

\* Any step fails without effect, or the process is killed; also while it serves.
Abort ==
    /\ pc # "down"
    /\ Fail
    /\ Exit
    /\ UNCHANGED <<config, tables, ready, accounts>>

Lock ==
    /\ ready
    /\ Fail
    /\ ready' = FALSE
    /\ UNCHANGED <<pc, config, tables, accounts, watching>>

Unlock ==
    /\ ~ready
    /\ ready' = TRUE
    /\ UNCHANGED <<pc, config, tables, accounts, watching, failures>>

Main == InitDB \/ CheckWallet \/ FindAccount \/ CreateAccount \/ StartWatching
            \/ Subscribe \/ Serve

Next == Main \/ (\E c \in Configs : Run(c)) \/ Abort \/ Lock \/ Unlock

Spec == Init /\ [][Next]_vars

\* main goes on, the operator unlocks the wallet and starts the process again, at
\* last with a network it knows.
Fairness ==
    /\ WF_vars(Main)
    /\ WF_vars(Unlock)
    /\ SF_vars(\E c \in Configs : c.network = "known" /\ Run(c))

FairSpec == Spec /\ Fairness

-----------------------------------------------------------------------------
\* The type of every variable; no goroutine watches unless this process was told to.
TypeOK ==
    /\ pc \in {"down", "orders", "statuses", "wallet", "account", "create", "watch",
               "rates", "pages", "serving"}
    /\ config \in Configs
    /\ tables \subseteq {"orders", "statuses"}
    /\ ready \in BOOLEAN
    /\ accounts \in Nat
    /\ watching \in BOOLEAN
    /\ watching => config.watch
    /\ failures \in 0 .. MaxFailures

\* What the earlier steps of a start leave to the later ones.
EarlierStepsHold ==
    /\ pc \notin {"down", "orders"} => "orders" \in tables
    /\ pc \notin {"down", "orders", "statuses"} => "statuses" \in tables
    /\ pc \in {"watch", "rates", "pages", "serving"} => accounts > 0
    /\ pc = "create" => accounts = 0
    /\ watching => pc \in {"rates", "pages", "serving"}

\* Whoever looks at orders finds the tables and the account: a start that was cut
\* off anywhere leaves nothing that a later one would take for done.
NeedsAreMet ==
    watching \/ pc = "serving" => tables = {"orders", "statuses"} /\ accounts > 0

\* The wallet has one account of the name, so the coins are never split between
\* two, also when the reply to its creation was lost.
OneAccount == accounts <= 1

\* No failed start stands in the way of a later one: Banco serves in the end.
ServesAgain == []<>(pc = "serving")
=============================================================================
