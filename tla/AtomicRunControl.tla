-------------------------- MODULE AtomicRunControl --------------------------
(***************************************************************************)
(* What crates/operation-lifecycle/src/lib.rs promises of RunControl:      *)
(* cancellation and terminal claiming share one linearization point.       *)
(* Every call takes effect, and fixes its answer, in a single step.        *)
(***************************************************************************)
EXTENDS RunStates

CONSTANTS Cancellers, Claimers

VARIABLES state, ret

vars == <<state, ret>>

Init ==
    /\ state \in {RUNNING, CANCEL_REQUESTED}
    /\ ret = [c \in Cancellers \cup Claimers |-> "pending"]

\* Only the first request before terminality is told "true".
Cancel(c) ==
    /\ ret[c] = "pending"
    /\ \/ /\ state = RUNNING
          /\ state' = CANCEL_REQUESTED
          /\ ret' = [ret EXCEPT ![c] = "true"]
       \/ /\ state # RUNNING
          /\ ret' = [ret EXCEPT ![c] = "false"]
          /\ UNCHANGED state

\* One claim wins; it learns whether a cancellation came first.
Claim(c) ==
    /\ ret[c] = "pending"
    /\ \/ /\ state = RUNNING
          /\ state' = TERMINAL
          /\ ret' = [ret EXCEPT ![c] = "claim"]
       \/ /\ state = CANCEL_REQUESTED
          /\ state' = TERMINAL_CANCELLED
          /\ ret' = [ret EXCEPT ![c] = "claim_cancelled"]
       \/ /\ IsTerminal(state)
          /\ ret' = [ret EXCEPT ![c] = "none"]
          /\ UNCHANGED state

Next == (\E c \in Cancellers : Cancel(c)) \/ (\E c \in Claimers : Claim(c))

Spec == Init /\ [][Next]_vars
=============================================================================
