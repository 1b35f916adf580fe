-------------------------- MODULE RunControlProofs --------------------------
(***************************************************************************)
(* Proofs about module RunControl, for any sets of racing calls.           *)
(***************************************************************************)
EXTENDS RunControl, TLAPS

\* A claim that has been won.
Won(c) == ret[c] \in {"claim", "claim_cancelled"}

(***************************************************************************)
(* The strengthening of ClaimExclusive: what a returned answer says about  *)
(* the byte, and that a claimer about to exchange holds a non-terminal     *)
(* value.                                                                  *)
(***************************************************************************)
IInv ==
    /\ TypeOK
    /\ \A c \in Calls : (pc[c] = "done") <=> (ret[c] # "pending")
    /\ \A c \in Claimers : pc[c] = "swap" => ~IsTerminal(seen[c])
    /\ \A c \in Claimers : Won(c) => IsTerminal(state)
    /\ \A c \in Claimers : ret[c] = "claim" => state = TERMINAL
    /\ \A k \in Cancellers : ret[k] = "true" => CancellationRequested(state)
    /\ \A k \in Cancellers : pc[k] # "swap"
    /\ \A c, d \in Claimers : Won(c) /\ Won(d) => c = d

USE DEF RUNNING, CANCEL_REQUESTED, TERMINAL, TERMINAL_CANCELLED, RunStateSet,
        IsTerminal, CancellationRequested, Returns, Calls,
        Atomic!RUNNING, Atomic!CANCEL_REQUESTED, Atomic!TERMINAL,
        Atomic!TERMINAL_CANCELLED, Atomic!IsTerminal

\* The initial states satisfy the invariant.
LEMMA InitIInv == Init => IInv
  BY DEF Init, IInv, TypeOK, NewControl, Won

\* Every instruction of either side preserves the invariant.
LEMMA NextIInv == IInv /\ [Next]_vars => IInv'
<1> SUFFICES ASSUME IInv, [Next]_vars PROVE IInv'
  OBVIOUS
<1> USE DisjointAssumption DEF IInv, TypeOK, Won
<1>1. ASSUME NEW c \in Cancellers, RequestCancel(c) PROVE IInv'
  BY <1>1 DEF RequestCancel, CancelRequest, Return
<1>2. ASSUME NEW c \in Claimers, Load(c) PROVE IInv'
  BY <1>2 DEF Load, Return
<1>3. ASSUME NEW c \in Claimers, CompareExchange(c) PROVE IInv'
  <2>1. CASE state = seen[c]
    BY <1>3, <2>1 DEF CompareExchange, Return, TerminalOf
  <2>2. CASE state # seen[c]
    BY <1>3, <2>2 DEF CompareExchange
  <2>3. QED BY <2>1, <2>2
<1>4. CASE UNCHANGED vars
  BY <1>4 DEF vars
<1>5. QED BY <1>1, <1>2, <1>3, <1>4 DEF Next, Finished

\* The invariant holds throughout.
LEMMA AlwaysIInv == Spec => []IInv
  BY InitIInv, NextIInv, PTL DEF Spec

(***************************************************************************)
(* One executor at most wins claim_terminal, and an uncancelled claim      *)
(* excludes every recorded cancellation: for any number of racing calls.   *)
(***************************************************************************)
THEOREM ClaimExclusiveHolds == Spec => []ClaimExclusive
<1>1. IInv => ClaimExclusive
  BY DEF IInv, ClaimExclusive, Won, TypeOK
<1>2. QED BY <1>1, AlwaysIInv, PTL

(***************************************************************************)
(* The load / compare-exchange code implements the single-step operations  *)
(* of AtomicRunControl: RunControl is linearizable.                        *)
(***************************************************************************)
THEOREM Linearizable == Spec => ImplementsAtomic
<1>1. Init => Atomic!Init
  BY DEF Init, Atomic!Init, NewControl
<1>2. IInv /\ [Next]_vars => [Atomic!Next]_(Atomic!vars)
  <2> SUFFICES ASSUME IInv, [Next]_vars PROVE [Atomic!Next]_(Atomic!vars)
    OBVIOUS
  <2> USE DEF IInv, TypeOK, Atomic!Next, Atomic!vars
  <2>1. ASSUME NEW c \in Cancellers, RequestCancel(c) PROVE Atomic!Cancel(c)
    BY <2>1 DEF RequestCancel, CancelRequest, Return, Atomic!Cancel
  <2>2. ASSUME NEW c \in Claimers, Load(c)
        PROVE Atomic!Claim(c) \/ UNCHANGED <<state, ret>>
    BY <2>2 DEF Load, Return, Atomic!Claim
  <2>3. ASSUME NEW c \in Claimers, CompareExchange(c)
        PROVE Atomic!Claim(c) \/ UNCHANGED <<state, ret>>
    <3>1. CASE state = seen[c]
      BY <2>3, <3>1 DEF CompareExchange, Return, TerminalOf, Atomic!Claim
    <3>2. CASE state # seen[c]
      BY <2>3, <3>2 DEF CompareExchange
    <3>3. QED BY <3>1, <3>2
  <2>4. CASE UNCHANGED vars
    BY <2>4 DEF vars
  <2>5. QED BY <2>1, <2>2, <2>3, <2>4 DEF Next, Finished
<1>3. QED BY <1>1, <1>2, AlwaysIInv, PTL DEF Spec, ImplementsAtomic, Atomic!Spec
=============================================================================
