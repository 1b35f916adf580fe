-------------------------- MODULE OperationContract --------------------------
(***************************************************************************)
(* What ADR-003 promises of an operation registry, whichever way it is     *)
(* built: a public identity is active at most once, an operation gets      *)
(* exactly one terminal class, and the identity is released only with a    *)
(* terminal class, by its own generation.  Where CancelWins, a             *)
(* cancellation that came before the terminal class excludes Completed.    *)
(***************************************************************************)
EXTENDS Naturals

CONSTANTS
    Ids,         \* public operation ids
    Seqs,        \* generations, a set of natural numbers without 0
    CancelWins   \* whether a cancellation excludes Completed

VARIABLES
    active,   \* id -> the generation that holds it, or 0
    outcome   \* generation -> how far it is

vars == <<active, outcome>>

Classes == {"completed", "cancelled", "failed"}

Init ==
    /\ active = [id \in Ids |-> 0]
    /\ outcome = [s \in Seqs |-> "unborn"]

\* Generations are allocated in order and never again.
Admit(id, s) ==
    /\ active[id] = 0
    /\ \A r \in Seqs : r >= s => outcome[r] = "unborn"
    /\ active' = [active EXCEPT ![id] = s]
    /\ outcome' = [outcome EXCEPT ![s] = "open"]

\* One operation, or all of them, are asked to stop.
Cancel(S) ==
    /\ outcome' = [s \in Seqs |-> IF s \in S /\ outcome[s] = "open"
                                    THEN "cancelling" ELSE outcome[s]]
    /\ UNCHANGED active

Settle(s, class) ==
    /\ outcome[s] \in {"open", "cancelling"}
    /\ CancelWins /\ outcome[s] = "cancelling" => class # "completed"
    /\ outcome' = [outcome EXCEPT ![s] = class]

Free(id) == active' = [active EXCEPT ![id] = 0]

Terminal(id, class) ==
    /\ active[id] # 0
    /\ Settle(active[id], class)
    /\ UNCHANGED active

Release(id) ==
    /\ active[id] # 0
    /\ outcome[active[id]] \in Classes
    /\ Free(id)
    /\ UNCHANGED outcome

TerminalAndRelease(id, class) ==
    /\ active[id] # 0
    /\ Settle(active[id], class)
    /\ Free(id)

Next ==
    \/ \E id \in Ids, s \in Seqs : Admit(id, s)
    \/ \E S \in SUBSET Seqs : Cancel(S)
    \/ \E id \in Ids : Release(id)
    \/ \E id \in Ids, class \in Classes : Terminal(id, class) \/ TerminalAndRelease(id, class)

Spec == Init /\ [][Next]_vars
=============================================================================
