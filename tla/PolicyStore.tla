----------------------------- MODULE PolicyStore -----------------------------
(***************************************************************************)
(* What callers of the policy.Store interface may count on: UpdateMutate   *)
(* happens at once and for good, or reports an error and changes nothing.  *)
(*                                                                         *)
(* The stored data is abstracted to the set of mutations each of its       *)
(* tables (users, devices, rules, sessions, usage, ...) contains; a        *)
(* mutation touches all of them.                                           *)
(***************************************************************************)
CONSTANTS
    Callers,        \* goroutines that call the store
    Mutations,      \* functions passed to UpdateMutate
    Tables          \* tables of policy.Data

VARIABLES
    data,       \* table -> mutations it contains
    outcome     \* caller -> what its last call returned

storeVars == <<data, outcome>>

Empty == [t \in Tables |-> {}]
With(d, m) == [t \in Tables |-> d[t] \cup {m}]

Init ==
    /\ data = Empty
    /\ outcome = [c \in Callers |-> "none"]

\* UpdateMutate returns nil.
Succeed(c, m) ==
    /\ data' = With(data, m)
    /\ outcome' = [outcome EXCEPT ![c] = "ok"]

\* UpdateMutate returns an error.
Fail(c) ==
    /\ outcome' = [outcome EXCEPT ![c] = "error"]
    /\ UNCHANGED data

\* A caller turns to its next call.
Call(c) ==
    /\ outcome' = [outcome EXCEPT ![c] = "none"]
    /\ UNCHANGED data

\* The process stops and starts again: no caller hears of its call.
Restart ==
    /\ outcome' = [c \in Callers |-> "none"]
    /\ UNCHANGED data

\* It is started with -factory-reset.
Reset ==
    /\ data' = Empty
    /\ outcome' = [c \in Callers |-> "none"]

Next ==
    \/ \E c \in Callers, m \in Mutations : Succeed(c, m)
    \/ \E c \in Callers : Fail(c) \/ Call(c)
    \/ Restart
    \/ Reset

Spec == Init /\ [][Next]_storeVars
=============================================================================
