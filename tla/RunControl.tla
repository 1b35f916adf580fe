----------------------------- MODULE RunControl -----------------------------
(***************************************************************************)
(* RunControl of crates/operation-lifecycle/src/lib.rs at the granularity  *)
(* of its atomic instructions.  Cancellers call request_cancel (one        *)
(* compare-exchange); claimers call claim_terminal (a loop of a load and a *)
(* compare-exchange).  A second call by the same thread is another element *)
(* of Cancellers or Claimers.                                              *)
(***************************************************************************)
EXTENDS RunStates, FiniteSets

CONSTANTS
    Cancellers,  \* calls of request_cancel
    Claimers     \* calls of claim_terminal

ASSUME DisjointAssumption == Cancellers \cap Claimers = {}

VARIABLES
    state,   \* the AtomicU8
    seen,    \* claimer -> the value its last load returned
    pc,      \* call -> where it is
    ret      \* call -> what it returned

vars == <<state, seen, pc, ret>>

Calls == Cancellers \cup Claimers

\* Option<TerminalClaim>, the bool of request_cancel, or still in the call.
Returns == {"pending", "true", "false", "none", "claim", "claim_cancelled"}

TypeOK ==
    /\ state \in RunStateSet
    /\ seen \in [Claimers -> RunStateSet]
    /\ pc \in [Calls -> {"start", "swap", "done"}]
    /\ ret \in [Calls -> Returns]

\* RunControl::new: the branch may be born cancelled.
Init ==
    /\ \E cancelled \in BOOLEAN : state = NewControl(cancelled)
    /\ seen = [c \in Claimers |-> RUNNING]
    /\ pc = [c \in Calls |-> "start"]
    /\ ret = [c \in Calls |-> "pending"]

Return(c, value) ==
    /\ pc' = [pc EXCEPT ![c] = "done"]
    /\ ret' = [ret EXCEPT ![c] = value]

\* The single compare-exchange RUNNING -> CANCEL_REQUESTED.
RequestCancel(c) ==
    /\ pc[c] = "start"
    /\ state' = CancelRequest(state)
    /\ Return(c, IF state = RUNNING THEN "true" ELSE "false")
    /\ UNCHANGED seen

\* The load at the head of claim_terminal's loop; a terminal value returns None.
Load(c) ==
    /\ pc[c] = "start"
    /\ seen' = [seen EXCEPT ![c] = state]
    /\ IF IsTerminal(state)
         THEN Return(c, "none")
         ELSE pc' = [pc EXCEPT ![c] = "swap"] /\ UNCHANGED ret
    /\ UNCHANGED state

\* Mutant of CompareExchange: a plain store that ignores what happened since the load.
BlindStore(c) ==
    /\ pc[c] = "swap"
    /\ state' = TerminalOf(seen[c])
    /\ Return(c, IF seen[c] = CANCEL_REQUESTED THEN "claim_cancelled" ELSE "claim")
    /\ UNCHANGED seen

\* Mutant of CompareExchange: a lost race retries the exchange without loading again.
ExchangeWithoutReload(c) ==
    /\ pc[c] = "swap"
    /\ IF state = seen[c]
         THEN /\ state' = TerminalOf(seen[c])
              /\ Return(c, IF seen[c] = CANCEL_REQUESTED
                             THEN "claim_cancelled" ELSE "claim")
         ELSE UNCHANGED <<state, pc, ret>>
    /\ UNCHANGED seen

\* The compare-exchange from the loaded value.
CompareExchange(c) ==
    /\ pc[c] = "swap"
    /\ IF state = seen[c]
         THEN /\ state' = TerminalOf(seen[c])
              /\ Return(c, IF seen[c] = CANCEL_REQUESTED
                             THEN "claim_cancelled" ELSE "claim")
         ELSE /\ pc' = [pc EXCEPT ![c] = "start"]  \* lost the race: load again
              /\ UNCHANGED <<state, ret>>
    /\ UNCHANGED seen

Finished == (\A c \in Calls : pc[c] = "done") /\ UNCHANGED vars

Next ==
    \/ \E c \in Cancellers : RequestCancel(c)
    \/ \E c \in Claimers : Load(c) \/ CompareExchange(c)
    \/ Finished

\* Every thread inside a call keeps running.
Fairness ==
    /\ \A c \in Cancellers : WF_vars(RequestCancel(c))
    /\ \A c \in Claimers : WF_vars(Load(c) \/ CompareExchange(c))

Spec == Init /\ [][Next]_vars
FairSpec == Spec /\ Fairness

-----------------------------------------------------------------------------

(***************************************************************************)
(* Only one executor passes the terminal boundary, and what it is told     *)
(* about cancellation is the truth: a claim that says "not cancelled"      *)
(* excludes any request_cancel that was told it had been recorded, however *)
(* the loads and exchanges of the two sides interleave.                    *)
(***************************************************************************)
ClaimExclusive ==
    /\ \A c, d \in Claimers :
          /\ ret[c] \in {"claim", "claim_cancelled"}
          /\ ret[d] \in {"claim", "claim_cancelled"}
          => c = d
    /\ \A c \in Claimers, k \in Cancellers :
          ~(ret[c] = "claim" /\ ret[k] = "true")

(***************************************************************************)
(* The instructions implement the single-step operations: request_cancel   *)
(* and claim_terminal are linearizable, with the compare-exchange that     *)
(* succeeds, or the load that finds a terminal value, as the point.        *)
(***************************************************************************)
Atomic == INSTANCE AtomicRunControl
ImplementsAtomic == Atomic!Spec

(***************************************************************************)
(* claim_terminal's retry loop ends: whatever the other side does, every   *)
(* call returns, because the control changes value at most twice.          *)
(***************************************************************************)
EveryCallReturns == \A c \in Calls : <>(pc[c] = "done")
=============================================================================
