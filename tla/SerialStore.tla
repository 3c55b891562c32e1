----------------------------- MODULE SerialStore -----------------------------
(***************************************************************************)
(* What the broker promises, with no broker in it: a store whose clients   *)
(* take turns.  Every call runs exactly once, at one moment between its    *)
(* request and its answer; at most one client is inside a transaction, and *)
(* while it is nobody else's call runs and only it can change the store;   *)
(* whatever ends a client or the service abandons open transactions, and   *)
(* the store keeps what was committed.                                     *)
(***************************************************************************)
CONSTANTS Client, Contents

VARIABLES
    store,      \* the committed contents
    open,       \* the clients inside a transaction
    call        \* call[c]: "idle", "asked" (not run yet), "ran" (not answered)

vars == <<store, open, call>>

TypeOK ==
    /\ store \in Contents
    /\ open \subseteq Client
    /\ call \in [Client -> {"idle", "asked", "ran"}]

Init ==
    /\ store \in Contents
    /\ open = {}
    /\ call = [c \in Client |-> "idle"]

Ask(c) ==
    /\ call[c] = "idle"
    /\ call' = [call EXCEPT ![c] = "asked"]
    /\ UNCHANGED <<store, open>>

(* c's turn: nobody else is inside a transaction. *)
MayRun(c) == call[c] = "asked" /\ open \subseteq {c}

Run(c) ==
    /\ MayRun(c)
    /\ store' \in Contents
    /\ open' \in SUBSET {c}
    /\ call' = [call EXCEPT ![c] = "ran"]

Answer(c) ==
    /\ call[c] = "ran"
    /\ call' = [call EXCEPT ![c] = "idle"]
    /\ UNCHANGED <<store, open>>

(* The client leaves between two calls; what it had open is rolled back. *)
Leave(c) ==
    /\ call[c] = "idle"
    /\ c \in open
    /\ open' = open \ {c}
    /\ UNCHANGED <<store, call>>

(* The service goes down, at most one call having run without its answer. *)
Crash ==
    /\ open' = {}
    /\ call' = [c \in Client |-> "idle"]
    /\ \/ UNCHANGED store
       \/ (\E c \in Client : MayRun(c)) /\ store' \in Contents

Next ==
    \/ \E c \in Client : Ask(c) \/ Run(c) \/ Answer(c) \/ Leave(c)
    \/ Crash

Spec == Init /\ [][Next]_vars

=============================================================================
