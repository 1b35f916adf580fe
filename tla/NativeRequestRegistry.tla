------------------------ MODULE NativeRequestRegistry ------------------------
(***************************************************************************)
(* The request registry of the native engine and the admission of its one  *)
(* speculative generation (crates/native/crates/llama-native-engine/src/   *)
(* operation_registry.rs and generation_admission.rs).                     *)
(*                                                                         *)
(* A request is known by its reservation nonce.  Its RequestLease cannot   *)
(* be cloned: one executor calls its methods, one after the other, and     *)
(* drops it.  Each of those methods takes the registry mutex and then the  *)
(* mutex of the request; as nobody else writes the phase of a request or   *)
(* removes its entry, the two sections are one step here.  The control of  *)
(* a request is shared and may be cancelled at any time, also long after   *)
(* the release.  One owner closes the registry.  The engine's queues and   *)
(* its own admission mutex are left open: an executor, an admission and    *)
(* the owner may take their next step whenever they like.                  *)
(***************************************************************************)
EXTENDS Integers, FiniteSets

CONSTANTS
    Ids,        \* request ids
    Lanes,      \* which of "foreground" and "speculative" are asked for
    MaxNonce    \* stands for u64::MAX, the nonce without successor

ASSUME NonceAssumption == MaxNonce \in Nat

ASSUME LanesAssumption == Lanes \subseteq {"foreground", "speculative"}

Nonces == 0 .. (MaxNonce - 1)

VARIABLES
    phase, next_nonce, active, joined_worker, shutdown,   \* RegistryState
    poisoned,     \* the registry mutex is poisoned
    request,      \* nonce -> ActiveRequest
    leases,       \* the requests whose lease was not dropped
    owner,        \* the thread that closes the registry
    disabled, admitted, preemption,                       \* AdmissionState
    permits       \* the requests whose SpeculativePermit was not dropped

registryVars == <<phase, next_nonce, active, joined_worker, shutdown, poisoned>>
laneVars == <<disabled, admitted, preemption, permits>>
vars == <<registryVars, request, leases, owner, laneVars>>

None == -1

Classes == {"completed", "cancelled", "failed"}

NoRequest == [id |-> "none", lane |-> "none", phase |-> "none", cancelled |-> FALSE,
              terminal |-> "none"]

NoOutcome == [phase |-> "none"]

\* overdue: more than SPECULATIVE_PREEMPTION_LIMIT has passed since cancelled_at.
NoWatch == [foreground |-> None, overdue |-> FALSE]

TypeOK ==
    /\ phase \in {"running", "quiescing", "closed"}
    /\ next_nonce \in 0 .. MaxNonce
    /\ active \in [Ids -> Nonces \cup {None}]
    /\ joined_worker \in BOOLEAN /\ poisoned \in BOOLEAN
    /\ shutdown \in {NoOutcome} \cup
          [phase : {"closed"}, state_poisoned : BOOLEAN, active_operations : Nat,
           joined_worker : BOOLEAN]
    /\ request \in [Nonces ->
          [id : Ids \cup {"none"}, lane : Lanes \cup {"none"},
           phase : {"none", "reserved", "queued", "running", "terminal", "released"},
           cancelled : BOOLEAN, terminal : Classes \cup {"none"}]]
    /\ leases \subseteq Nonces /\ permits \subseteq Nonces
    /\ owner \in [pc : {"idle", "sweep", "cached", "wait", "asleep"},
                  then : {"idle", "cached"}, snapshot : SUBSET Nonces]
    /\ disabled \in BOOLEAN
    /\ admitted \in Nonces \cup {None}
    /\ preemption \in [foreground : Nonces \cup {None}, overdue : BOOLEAN]

\* SpeculativeAdmission::new
LaneInit == disabled = FALSE /\ admitted = None /\ preemption = NoWatch /\ permits = {}

\* with_external_worker
Init ==
    /\ phase = "running" /\ next_nonce = 0
    /\ active = [id \in Ids |-> None]
    /\ joined_worker = FALSE /\ shutdown = NoOutcome /\ poisoned = FALSE
    /\ request = [n \in Nonces |-> NoRequest]
    /\ leases = {}
    /\ owner = [pc |-> "idle", then |-> "idle", snapshot |-> {}]
    /\ LaneInit

Active == {active[id] : id \in Ids} \ {None}

-----------------------------------------------------------------------------
(* Reservations and their leases.                                          *)

\* drained.notify_all: the owner is the only one who waits.
NotifyAll ==
    owner' = IF owner.pc = "asleep" THEN [owner EXCEPT !.pc = "wait"] ELSE owner

\* checked_add; the nonce and the entry of a reservation
Admitted(id, lane) ==
    /\ next_nonce < MaxNonce
    /\ next_nonce' = next_nonce + 1
    /\ active' = [active EXCEPT ![id] = next_nonce]
    /\ request' = [request EXCEPT ![next_nonce] =
                     [id |-> id, lane |-> lane, phase |-> "reserved", cancelled |-> FALSE,
                      terminal |-> "none"]]
    /\ leases' = leases \cup {next_nonce}
    /\ UNCHANGED <<phase, joined_worker, shutdown, poisoned, owner, laneVars>>

\* Mutant of Reserve: the registry need not be running.
ReserveLate(id, lane) ==
    /\ ~poisoned
    /\ active[id] = None
    /\ Admitted(id, lane)

Reserve(id, lane) ==
    /\ ~poisoned
    /\ phase = "running"
    /\ active[id] = None
    /\ Admitted(id, lane)

\* require_current, for a lease: the entry under its id is its own.
RequireCurrent(n) == n \in leases /\ active[request[n].id] = n

\* transition: only the lease of the current entry moves it.
Transition(n, from, to) ==
    /\ RequireCurrent(n)
    /\ request[n].phase = from
    /\ request' = [request EXCEPT ![n].phase = to]
    /\ NotifyAll
    /\ UNCHANGED <<registryVars, leases, laneVars>>

Queue(n) == Transition(n, "reserved", "queued")
Start(n) == Transition(n, "queued", "running")

Terminal(n, class) ==
    /\ RequireCurrent(n)
    /\ request[n].phase = "running" /\ request[n].terminal = "none"
    /\ request' = [request EXCEPT ![n].terminal = class, ![n].phase = "terminal"]
    /\ NotifyAll
    /\ UNCHANGED <<registryVars, leases, laneVars>>

\* finished, or completed_or_failed, which reads the controls before it calls
\* terminal: a cancellation that comes after the read does not change the class.
Finish(n) == \E class \in Classes : Terminal(n, class)

\* reject_queued, cancel_queued
RejectQueued(n, class) ==
    /\ RequireCurrent(n)
    /\ request[n].phase = "queued" /\ request[n].terminal = "none"
    /\ class # "completed"
    /\ request' = [request EXCEPT ![n].terminal = class, ![n].phase = "terminal"]
    /\ UNCHANGED <<registryVars, leases, owner, laneVars>>

\* The class of a request given up without one.
Given(r) ==
    IF r.terminal # "none" THEN r.terminal
    ELSE IF r.cancelled THEN "cancelled" ELSE "failed"

\* Mutant of DropLease: the owner is not woken.
DropLeaseSilently(n) ==
    /\ n \in leases
    /\ leases' = leases \ {n}
    /\ active' = [active EXCEPT ![request[n].id] = None]
    /\ request' = [request EXCEPT ![n].terminal = Given(request[n]), ![n].phase = "released"]
    /\ UNCHANGED <<phase, next_nonce, joined_worker, shutdown, poisoned, owner, laneVars>>

\* Mutant of DropLease: an abandoned request keeps its class open.
DropLeaseOpen(n) ==
    /\ n \in leases
    /\ leases' = leases \ {n}
    /\ active' = [active EXCEPT ![request[n].id] = None]
    /\ request' = [request EXCEPT ![n].phase = "released"]
    /\ NotifyAll
    /\ UNCHANGED <<phase, next_nonce, joined_worker, shutdown, poisoned, laneVars>>

\* Drop of the lease: abandon_if_current
DropLease(n) ==
    /\ n \in leases
    /\ leases' = leases \ {n}
    /\ IF RequireCurrent(n)
         THEN /\ active' = [active EXCEPT ![request[n].id] = None]
              /\ request' = [request EXCEPT ![n].terminal = Given(request[n]),
                                            ![n].phase = "released"]
              /\ NotifyAll
         ELSE UNCHANGED <<active, request, owner>>
    /\ UNCHANGED <<phase, next_nonce, joined_worker, shutdown, poisoned, laneVars>>

Cancelled(S) ==
    [n \in Nonces |-> IF n \in S THEN [request[n] EXCEPT !.cancelled = TRUE] ELSE request[n]]

\* cancel_all or cancel_named on a control somebody kept
CancelAll(n) ==
    /\ request[n].phase # "none"
    /\ request' = Cancelled({n})
    /\ UNCHANGED <<registryVars, leases, owner, laneVars>>

\* A thread panics while it holds the registry mutex.
Poison ==
    /\ poisoned' = TRUE
    /\ UNCHANGED <<phase, next_nonce, active, joined_worker, shutdown, request, leases,
                   owner, laneVars>>

-----------------------------------------------------------------------------
(* The owner: quiesce, join and shutdown.                                  *)

\* Mutant of Quiesced: a closed registry is opened again.
QuiescedAgain(then) ==
    /\ phase' = "quiescing"
    /\ owner' = [pc |-> "sweep", then |-> then, snapshot |-> Active]

\* The first section of begin_quiesce_and_cancel_all, on the way to "then".
Quiesced(then) ==
    IF phase = "closed"
      THEN owner' = [owner EXCEPT !.pc = then] /\ UNCHANGED phase
      ELSE /\ phase' = "quiescing"
           /\ owner' = [pc |-> "sweep", then |-> then, snapshot |-> Active]

BeginQuiesce ==
    /\ owner.pc = "idle"
    /\ Quiesced("idle")
    /\ UNCHANGED <<next_nonce, active, joined_worker, shutdown, poisoned, request, leases,
                   laneVars>>

Shutdown ==
    /\ owner.pc = "idle"
    /\ Quiesced("cached")
    /\ UNCHANGED <<next_nonce, active, joined_worker, shutdown, poisoned, request, leases,
                   laneVars>>

\* One entry of the snapshot is cancelled, outside the mutex.
Sweep(n) ==
    /\ owner.pc = "sweep"
    /\ n \in owner.snapshot
    /\ request' = Cancelled({n})
    /\ owner' = [owner EXCEPT !.snapshot = @ \ {n}]
    /\ UNCHANGED <<registryVars, leases, laneVars>>

SweepDone ==
    /\ owner.pc = "sweep" /\ owner.snapshot = {}
    /\ owner' = [owner EXCEPT !.pc = owner.then]
    /\ UNCHANGED <<registryVars, request, leases, laneVars>>

\* The second section of shutdown: an outcome that is there is the answer.
CachedOutcome ==
    /\ owner.pc = "cached"
    /\ owner' = [owner EXCEPT !.pc = IF shutdown # NoOutcome THEN "idle" ELSE "wait"]
    /\ UNCHANGED <<registryVars, request, leases, laneVars>>

\* The third section, up to the sleep or the outcome.
Drain ==
    /\ owner.pc = "wait"
    /\ IF Active # {}
         THEN /\ owner' = [owner EXCEPT !.pc = "asleep"]
              /\ UNCHANGED <<phase, shutdown>>
         ELSE /\ phase' = "closed"
              /\ shutdown' = [phase |-> "closed", state_poisoned |-> poisoned,
                              active_operations |-> Cardinality(Active),
                              joined_worker |-> joined_worker]
              /\ owner' = [owner EXCEPT !.pc = "idle"]
    /\ UNCHANGED <<next_nonce, active, joined_worker, poisoned, request, leases, laneVars>>

\* record_external_worker_joined; whom it notifies is the caller itself.
RecordWorkerJoined ==
    /\ owner.pc = "idle"
    /\ joined_worker' = TRUE
    /\ UNCHANGED <<phase, next_nonce, active, shutdown, poisoned, request, leases, owner,
                   laneVars>>

\* mark_closed, also when it then reports the poison
MarkClosed ==
    /\ owner.pc = "idle"
    /\ Active = {}
    /\ phase' = "closed"
    /\ UNCHANGED <<next_nonce, active, joined_worker, shutdown, poisoned, request, leases,
                   owner, laneVars>>

-----------------------------------------------------------------------------
(* The speculative lane.                                                   *)

\* retire_released_preemption: a foreground that is gone measures nothing.
Retired ==
    IF preemption # NoWatch /\ request[preemption.foreground].phase = "released"
      THEN NoWatch ELSE preemption

\* Mutant of ReserveLane: a preemption under way does not hold the lane.
ReserveLaneWatched(n) ==
    /\ n \in leases /\ request[n].lane = "speculative" /\ n \notin permits
    /\ preemption' = Retired
    /\ IF ~disabled /\ admitted = None
         THEN admitted' = n /\ permits' = permits \cup {n}
         ELSE UNCHANGED <<admitted, permits>>
    /\ UNCHANGED <<registryVars, request, leases, owner, disabled>>

\* SpeculativeAdmission::reserve, for a request its caller has just reserved
ReserveLane(n) ==
    /\ n \in leases /\ request[n].lane = "speculative" /\ n \notin permits
    /\ preemption' = Retired
    /\ IF ~disabled /\ admitted = None /\ Retired = NoWatch
         THEN admitted' = n /\ permits' = permits \cup {n}
         ELSE UNCHANGED <<admitted, permits>>
    /\ UNCHANGED <<registryVars, request, leases, owner, disabled>>

PreemptForForeground(n) ==
    /\ request[n].lane = "foreground"
    /\ IF Retired = NoWatch /\ admitted # None
         THEN /\ request' = Cancelled({admitted})
              /\ preemption' = [foreground |-> n, overdue |-> FALSE]
         ELSE preemption' = Retired /\ UNCHANGED request
    /\ UNCHANGED <<registryVars, leases, owner, disabled, admitted, permits>>

\* The clock passes cancelled_at + SPECULATIVE_PREEMPTION_LIMIT.
LimitPasses ==
    /\ preemption # NoWatch
    /\ preemption' = [preemption EXCEPT !.overdue = TRUE]
    /\ UNCHANGED <<registryVars, request, leases, owner, disabled, admitted, permits>>

\* Mutant of ObserveForegroundRunning: any foreground ends the watch.
ObserveAnyRunning(n) ==
    /\ n \in leases /\ request[n].lane = "foreground" /\ request[n].phase = "running"
    /\ preemption # NoWatch
    /\ preemption' = NoWatch
    /\ disabled' = (disabled \/ preemption.overdue)
    /\ UNCHANGED <<registryVars, request, leases, owner, admitted, permits>>

\* observe_foreground_running, which the executor calls once it made n Running
ObserveForegroundRunning(n) ==
    /\ n \in leases /\ request[n].lane = "foreground" /\ request[n].phase = "running"
    /\ preemption.foreground = n
    /\ preemption' = NoWatch
    /\ disabled' = (disabled \/ preemption.overdue)
    /\ UNCHANGED <<registryVars, request, leases, owner, admitted, permits>>

\* status, when the engine is not closing
LaneStatus ==
    IF disabled THEN "disabled"
    ELSE IF admitted # None \/ Retired # NoWatch THEN "occupied" ELSE "available"

\* What status leaves behind.
Status ==
    /\ preemption' = Retired
    /\ UNCHANGED <<registryVars, request, leases, owner, disabled, admitted, permits>>

\* Drop of a SpeculativePermit: release
DropPermit(n) ==
    /\ n \in permits
    /\ permits' = permits \ {n}
    /\ admitted' = IF admitted = n THEN None ELSE admitted
    /\ UNCHANGED <<registryVars, request, leases, owner, disabled, preemption>>

-----------------------------------------------------------------------------

Executor(n) ==
    \/ Queue(n) \/ Start(n) \/ ObserveForegroundRunning(n) \/ Finish(n) \/ DropLease(n)
    \/ \E class \in Classes : RejectQueued(n, class)

OwnerStep == SweepDone \/ CachedOutcome \/ Drain \/ \E n \in Nonces : Sweep(n)

\* What admissions, executors, cancellers and the clock do.
RequestNext ==
    \/ \E id \in Ids, lane \in Lanes : Reserve(id, lane)
    \/ \E n \in Nonces :
          Executor(n) \/ CancelAll(n) \/ ReserveLane(n) \/ PreemptForForeground(n) \/ DropPermit(n)
    \/ LimitPasses \/ Status

OwnerNext == BeginQuiesce \/ Shutdown \/ OwnerStep \/ RecordWorkerJoined \/ MarkClosed

Next == RequestNext \/ OwnerNext \/ Poison

\* The behaviours in which nobody closes the registry.
OpenSpec == Init /\ [][RequestNext]_vars

Spec == Init /\ [][Next]_vars

(***************************************************************************)
(* The owner keeps running, and an executor eventually drops its lease,    *)
(* whatever it does before.                                                *)
(***************************************************************************)
FairSpec == Spec /\ WF_vars(OwnerStep) /\ \A n \in Nonces : WF_vars(DropLease(n))

-----------------------------------------------------------------------------
(* Correctness.                                                            *)

Outcome(n) ==
    IF request[n].phase = "none" THEN "unborn"
    ELSE IF request[n].terminal # "none" THEN request[n].terminal
    ELSE IF request[n].cancelled THEN "cancelling" ELSE "open"

(***************************************************************************)
(* The registry keeps the operation contract of ADR-003, with one          *)
(* difference to Loom's supervisor: a request that was cancelled may still *)
(* end Completed, when its executor was faster.                            *)
(***************************************************************************)
Contract == INSTANCE OperationContract
    WITH Seqs <- 1 .. MaxNonce, CancelWins <- FALSE,
         active <- [id \in Ids |-> active[id] + 1],
         outcome <- [s \in 1 .. MaxNonce |-> Outcome(s - 1)]
ImplementsContract == Contract!Spec

(***************************************************************************)
(* The public id is held exactly as long as the executor has its lease:    *)
(* the lease of an admitted request is never stale, and no entry stays     *)
(* without somebody who will remove it.                                    *)
(***************************************************************************)
HeldByLease ==
    /\ Active = leases
    /\ \A n \in leases : active[request[n].id] = n /\ request[n].phase # "released"

(***************************************************************************)
(* Once the sweep of a quiesce is over, every request that is still active *)
(* was asked to stop: none slipped in between the snapshot and the end.    *)
(***************************************************************************)
QuiescedCancelled ==
    phase # "running" /\ owner.pc # "sweep" => \A n \in Active : request[n].cancelled

(***************************************************************************)
(* A closed registry has no request, also when the mutex is poisoned, and  *)
(* the outcome of a shutdown was taken then.                               *)
(***************************************************************************)
ClosedEmpty ==
    /\ phase = "closed" => Active = {} /\ leases = {}
    /\ shutdown # NoOutcome =>
         phase = "closed" /\ shutdown.active_operations = 0
           /\ (shutdown.joined_worker => joined_worker)

(***************************************************************************)
(* Closed is final, and so is the outcome every later shutdown answers.    *)
(***************************************************************************)
ClosedStays ==
    [][/\ phase = "closed" => phase' = "closed"
       /\ shutdown # NoOutcome => shutdown' = shutdown]_vars

(***************************************************************************)
(* A shutdown returns once the executors have dropped their leases.        *)
(***************************************************************************)
ShutdownReturns == (owner.pc # "idle") ~> (owner.pc = "idle")

(***************************************************************************)
(* The lane has one permit at most, the one AdmissionState knows, and from *)
(* a preemption until its foreground runs or is gone, whoever holds the    *)
(* lane was asked to stop: no new speculative request took its place.      *)
(***************************************************************************)
LaneHeld ==
    /\ permits = {admitted} \ {None}
    /\ preemption # NoWatch /\ admitted # None => request[admitted].cancelled

(***************************************************************************)
(* The lane is not lost to a foreground that was rejected or abandoned:    *)
(* when every foreground is gone and no permit is out, it is available     *)
(* unless a measured preemption disabled it.                               *)
(***************************************************************************)
LaneUsable ==
    /\ permits = {} /\ ~disabled
    /\ \A n \in leases : request[n].lane # "foreground"
    => LaneStatus = "available"

(***************************************************************************)
(* A watch ends only when its own foreground runs or was released, and the *)
(* lane is disabled only for a foreground that runs, late.                 *)
(***************************************************************************)
PreemptionMeasured ==
    [][/\ preemption # NoWatch /\ preemption'.foreground # preemption.foreground
            => request[preemption.foreground].phase \in {"running", "released"}
       /\ disabled' # disabled
            => /\ preemption.overdue
               /\ request[preemption.foreground].phase = "running"]_vars

(***************************************************************************)
(* What holds between any two calls: ids are held exactly by their leases, *)
(* the speculative lane is exclusive, a preemption keeps it free for its   *)
(* foreground, and no foreground that is gone keeps it.                    *)
(***************************************************************************)
RequestsInv == HeldByLease /\ LaneHeld /\ LaneUsable

(***************************************************************************)
(* What holds while the registry quiesces and closes: whoever is active    *)
(* was asked to stop, and a closed registry has no request, with or        *)
(* without a poison.                                                       *)
(***************************************************************************)
CloseInv == TypeOK /\ QuiescedCancelled /\ ClosedEmpty
=============================================================================
