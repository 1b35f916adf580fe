----------------------- MODULE LoomGenerationSupervisor -----------------------
(***************************************************************************)
(* The generation supervisor of Loom                                       *)
(* (products/loom/crates/loom-host/src/generation_supervisor.rs).          *)
(*                                                                         *)
(* All state is under one mutex and every method is one critical section,  *)
(* except wait_released, which sleeps on the condition variable between    *)
(* its sections.  Operations and attempts take their identities from one   *)
(* sequence, so a sequence number stands for an identity.  Leases, tickets *)
(* and identities are Clone or kept by several parties: any method may be  *)
(* called on any identity ever handed out, in any state.  A call that is   *)
(* refused changes nothing and is not a step.                              *)
(***************************************************************************)
EXTENDS RunStates, WorkerLedger, FiniteSets

CONSTANTS
    Ids,               \* public operation ids
    WorkerIds,         \* lifecycle worker ids
    Waiters,           \* threads in wait_released
    MaxSequence,       \* stands for u64::MAX, the sequence without successor
    HistoryCapacity,   \* COMPLETED_WORKER_HISTORY
    ProgressCapacity   \* progress_capacity

Seqs == 1 .. (MaxSequence - 1)

ASSUME CapacityAssumption ==
    /\ MaxSequence \in Nat \ {0}
    /\ HistoryCapacity \in Nat
    /\ ProgressCapacity \in Nat \ {0}

VARIABLES
    phase, next_sequence, operations, workers, canonical_close,
    run,        \* identity -> SupervisedOperation or SupervisedAttempt
    released,   \* identity -> the OnceLock its lease shares with the operation
    waiter      \* thread -> the wait_released call it is in

vars == <<phase, next_sequence, operations, workers, canonical_close, run,
          released, waiter>>

TerminalClasses == {"completed", "cancelled", "failed"}

NoRun == [kind |-> "none", operation_id |-> "none", phase |-> "none",
          control |-> RUNNING, terminal |-> "none", progress |-> 0, attempts |-> {}]

NoSnapshot == [phase |-> "none"]

NoClose == [lifecycle |-> "none"]

TypeOK ==
    /\ phase \in {"running", "quiescing", "closed"}
    /\ next_sequence \in 1 .. MaxSequence
    /\ operations \in [Ids -> Seqs \cup {0}]
    /\ run \in [Seqs ->
          [kind : {"none", "operation", "attempt"}, operation_id : Ids \cup {"none"},
           phase : {"none", "reserved", "queued", "running", "terminal"},
           control : RunStateSet, terminal : TerminalClasses \cup {"none"},
           progress : 0 .. ProgressCapacity, attempts : SUBSET Seqs]]
    /\ released \in [Seqs -> {NoSnapshot} \cup
          [phase : {"released"}, cancellation_requested : BOOLEAN,
           terminal : TerminalClasses, progress : 0 .. ProgressCapacity]]
    /\ workers \in [outstanding : SUBSET WorkerIds, joined : SUBSET WorkerIds,
                    joined_order : Seq(WorkerIds), history_capacity : {HistoryCapacity}]
    /\ canonical_close \in {NoClose} \cup
          [lifecycle : {"closed"}, active_operations : Nat, retained_tasks : Nat,
           expected_workers : SUBSET WorkerIds, joined_workers : SUBSET WorkerIds]
    /\ waiter \in [Waiters -> [pc : {"idle", "check", "asleep", "returned"},
                               lease : Seqs \cup {0},
                               answer : {"none", "snapshot", "timeout", "stale"}]]

\* with_next_sequence
Init ==
    /\ phase = "running"
    /\ next_sequence = 1
    /\ operations = [id \in Ids |-> 0]
    /\ run = [s \in Seqs |-> NoRun]
    /\ released = [s \in Seqs |-> NoSnapshot]
    /\ workers = NewLedger(HistoryCapacity)
    /\ canonical_close = NoClose
    /\ waiter = [v \in Waiters |-> [pc |-> "idle", lease |-> 0, answer |-> "none"]]

-----------------------------------------------------------------------------

\* notify_all, which follows the unlock in the code: whoever sleeps by then went
\* to sleep before the section, so it is one step with it.
NotifyAll ==
    waiter' = [v \in Waiters |-> IF waiter[v].pc = "asleep"
                                   THEN [waiter[v] EXCEPT !.pc = "check"] ELSE waiter[v]]

\* current_operation: the identity is the one registered under its public id.
Current(s) == run[s].kind = "operation" /\ operations[run[s].operation_id] = s

\* allocate_identity: checked_add
CanAllocate == next_sequence < MaxSequence

Reserve(id) ==
    /\ phase = "running"
    /\ operations[id] = 0
    /\ CanAllocate
    /\ next_sequence' = next_sequence + 1
    /\ operations' = [operations EXCEPT ![id] = next_sequence]
    /\ run' = [run EXCEPT ![next_sequence] =
                 [NoRun EXCEPT !.kind = "operation", !.operation_id = id, !.phase = "reserved"]]
    /\ UNCHANGED <<phase, workers, canonical_close, released, waiter>>

\* transition, for queue and start
Transition(s, from, to) ==
    /\ Current(s)
    /\ run[s].phase = from
    /\ run' = [run EXCEPT ![s].phase = to]
    /\ UNCHANGED <<phase, next_sequence, operations, workers, canonical_close,
                   released, waiter>>

Queue(s) == Transition(s, "reserved", "queued")
Start(s) == Transition(s, "queued", "running")

PublishProgress(s) ==
    /\ Current(s)
    /\ run[s].phase = "running"
    /\ run[s].progress < ProgressCapacity   \* at the capacity the oldest one goes
    /\ run' = [run EXCEPT ![s].progress = @ + 1]
    /\ UNCHANGED <<phase, next_sequence, operations, workers, canonical_close,
                   released, waiter>>

\* Mutant of ClaimedClass: what the claim says about cancellation is ignored.
RequestedClass(control, class) == class

\* claim_terminal_class: a cancellation that came first excludes Completed.
ClaimedClass(control, class) ==
    IF CancellationRequested(control) /\ class = "completed" THEN "cancelled" ELSE class

\* The operation after its run control was claimed, which happens once.
Claimed(op, class) ==
    [op EXCEPT !.terminal = ClaimedClass(op.control, class),
               !.control = TerminalOf(op.control), !.phase = "terminal"]

Terminal(s, class) ==
    /\ Current(s)
    /\ run[s].phase = "running" /\ run[s].terminal = "none"
    /\ run[s].attempts = {}
    /\ ~IsTerminal(run[s].control)
    /\ run' = [run EXCEPT ![s] = Claimed(@, class)]
    /\ NotifyAll
    /\ UNCHANGED <<phase, next_sequence, operations, workers, canonical_close, released>>

\* snapshot_for, with the phase Released
Snapshot(op) ==
    [phase |-> "released", cancellation_requested |-> CancellationRequested(op.control),
     terminal |-> op.terminal, progress |-> op.progress]

\* The operation leaves the registry, and every lease of it learns so.
Remove(s, op) ==
    /\ operations' = [operations EXCEPT ![op.operation_id] = 0]
    /\ released' = [released EXCEPT ![s] = Snapshot(op)]

\* Mutant of Release: attempts do not hold the operation.
ReleaseWithAttempts(s) ==
    /\ Current(s)
    /\ run[s].phase = "terminal"
    /\ Remove(s, run[s])
    /\ NotifyAll
    /\ UNCHANGED <<phase, next_sequence, run, workers, canonical_close>>

Release(s) ==
    /\ Current(s)
    /\ run[s].phase = "terminal"
    /\ run[s].attempts = {}
    /\ Remove(s, run[s])
    /\ NotifyAll
    /\ UNCHANGED <<phase, next_sequence, run, workers, canonical_close>>

\* Mutant of TerminalAndReleaseLocked: nobody is notified.
TerminalAndReleaseSilently(s, class) ==
    LET op == Claimed(run[s], class) IN
    /\ Current(s)
    /\ run[s].attempts = {}
    /\ run[s].terminal = "none"
    /\ ~IsTerminal(run[s].control)
    /\ run' = [run EXCEPT ![s] = op]
    /\ Remove(s, op)
    /\ UNCHANGED <<phase, next_sequence, workers, canonical_close, waiter>>

\* terminal_and_release_locked behind the checks of its three callers.
TerminalAndReleaseLocked(s, class) ==
    LET op == Claimed(run[s], class) IN
    /\ Current(s)
    /\ run[s].attempts = {}
    /\ run[s].terminal = "none"
    /\ ~IsTerminal(run[s].control)
    /\ run' = [run EXCEPT ![s] = op]
    /\ Remove(s, op)
    /\ NotifyAll
    /\ UNCHANGED <<phase, next_sequence, workers, canonical_close>>

TerminalAndRelease(s, class) ==
    run[s].phase = "running" /\ TerminalAndReleaseLocked(s, class)

FailAndRelease(s) ==
    run[s].phase \in {"reserved", "queued", "running"} /\ TerminalAndReleaseLocked(s, "failed")

FinishOperation(s) == TerminalAndReleaseLocked(s, "cancelled")

-----------------------------------------------------------------------------
(* Attempts and cancellation.                                              *)

\* start_attempt tests neither the phase of the operation nor the supervisor's.
StartAttempt(s) ==
    /\ Current(s)
    /\ CanAllocate
    /\ next_sequence' = next_sequence + 1
    /\ run' = [run EXCEPT ![s].attempts = @ \cup {next_sequence},
                          ![next_sequence] =
                 [NoRun EXCEPT !.kind = "attempt", !.operation_id = run[s].operation_id,
                               !.control = NewControl(CancellationRequested(run[s].control))]]
    /\ UNCHANGED <<phase, operations, workers, canonical_close, released, waiter>>

\* finish_attempt looks in the operation that holds the public id now.
FinishAttempt(a) ==
    /\ run[a].kind = "attempt"
    /\ operations[run[a].operation_id] # 0
    /\ a \in run[operations[run[a].operation_id]].attempts
    /\ run' = [run EXCEPT ![operations[run[a].operation_id]].attempts = @ \ {a}]
    /\ UNCHANGED <<phase, next_sequence, operations, workers, canonical_close,
                   released, waiter>>

\* The operations of S and their attempts are asked to stop.
Cancelled(S) ==
    LET asked == S \cup UNION {run[s].attempts : s \in S} IN
    [r \in Seqs |-> IF r \in asked THEN [run[r] EXCEPT !.control = CancelRequest(@)]
                                   ELSE run[r]]

Active == {s \in Seqs : Current(s)}

\* request_cancel, also through a ticket that is cancelled or dropped armed.
RequestCancel(s) ==
    /\ Current(s)
    /\ run' = Cancelled({s})
    /\ NotifyAll
    /\ UNCHANGED <<phase, next_sequence, operations, workers, canonical_close, released>>

Quiesce ==
    /\ phase' = IF phase = "running" THEN "quiescing" ELSE phase
    /\ run' = Cancelled(Active)
    /\ NotifyAll
    /\ UNCHANGED <<next_sequence, operations, workers, canonical_close, released>>

\* Mutant of Resume: a closed supervisor may be resumed.
ResumeClosed ==
    /\ phase' = "running"
    /\ canonical_close' = NoClose
    /\ UNCHANGED <<next_sequence, operations, workers, run, released, waiter>>

Resume ==
    /\ phase # "closed"
    /\ phase' = "running"
    /\ canonical_close' = NoClose
    /\ UNCHANGED <<next_sequence, operations, workers, run, released, waiter>>

-----------------------------------------------------------------------------
(* Workers and close.                                                      *)

NoteWorkerStarted(w) ==
    /\ canonical_close = NoClose
    /\ CanNoteStarted(workers, w)
    /\ workers' = NoteStarted(workers, w)
    /\ UNCHANGED <<phase, next_sequence, operations, canonical_close, run, released, waiter>>

NoteWorkerJoined(w) ==
    /\ CanNoteJoined(workers, w)
    /\ workers' = NoteJoined(workers, w)
    /\ NotifyAll
    /\ UNCHANGED <<phase, next_sequence, operations, canonical_close, run, released>>

\* close, the first time; closed_facts
Close ==
    /\ canonical_close = NoClose
    /\ Active = {} /\ workers.outstanding = {}
    /\ phase' = "closed"
    /\ canonical_close' = [lifecycle |-> "closed", active_operations |-> Cardinality(Active),
                           retained_tasks |-> Cardinality(workers.outstanding),
                           expected_workers |-> Expected(workers),
                           joined_workers |-> workers.joined]
    /\ UNCHANGED <<next_sequence, operations, workers, run, released, waiter>>

-----------------------------------------------------------------------------
(* wait_released.                                                          *)

WaitReleased(v, s) ==
    /\ waiter[v].pc = "idle"
    /\ run[s].kind = "operation"
    /\ waiter' = [waiter EXCEPT ![v] = [pc |-> "check", lease |-> s, answer |-> "none"]]
    /\ UNCHANGED <<phase, next_sequence, operations, workers, canonical_close, run, released>>

Answer(v, answer) ==
    waiter' = [waiter EXCEPT ![v].pc = "returned", ![v].answer = answer]

\* One turn of the loop, under the mutex, up to the answer or the sleep.
CheckReleased(v) ==
    LET s == waiter[v].lease IN
    /\ waiter[v].pc = "check"
    /\ \/ released[s] # NoSnapshot /\ Answer(v, "snapshot")
       \/ released[s] = NoSnapshot /\ ~Current(s) /\ Answer(v, "stale")
       \/ /\ released[s] = NoSnapshot /\ Current(s)
          /\ waiter' = [waiter EXCEPT ![v].pc = "asleep"]
    /\ UNCHANGED <<phase, next_sequence, operations, workers, canonical_close, run, released>>

\* The deadline passes; a release that came with it is not missed.
WaitTimeout(v) ==
    /\ waiter[v].pc \in {"check", "asleep"}
    /\ released[waiter[v].lease] = NoSnapshot
    /\ waiter[v].pc = "check" => Current(waiter[v].lease)
    /\ Answer(v, "timeout")
    /\ UNCHANGED <<phase, next_sequence, operations, workers, canonical_close, run, released>>

-----------------------------------------------------------------------------

Next ==
    \/ \E id \in Ids : Reserve(id)
    \/ \E s \in Seqs :
          \/ Queue(s) \/ Start(s) \/ PublishProgress(s)
          \/ Release(s) \/ FailAndRelease(s) \/ FinishOperation(s)
          \/ StartAttempt(s) \/ FinishAttempt(s) \/ RequestCancel(s)
    \/ \E s \in Seqs, class \in TerminalClasses :
          Terminal(s, class) \/ TerminalAndRelease(s, class)
    \/ Quiesce \/ Resume \/ Close
    \/ \E w \in WorkerIds : NoteWorkerStarted(w) \/ NoteWorkerJoined(w)
    \/ \E v \in Waiters : CheckReleased(v) \/ WaitTimeout(v) \/ \E s \in Seqs : WaitReleased(v, s)

Spec == Init /\ [][Next]_vars

\* A thread inside wait_released keeps running; deadlines need never pass.
FairSpec == Spec /\ \A v \in Waiters : WF_vars(CheckReleased(v))

-----------------------------------------------------------------------------
(* Correctness.                                                            *)

Outcome(s) ==
    IF run[s].kind # "operation" THEN "unborn"
    ELSE IF run[s].terminal # "none" THEN run[s].terminal
    ELSE IF CancellationRequested(run[s].control) THEN "cancelling" ELSE "open"

(***************************************************************************)
(* The supervisor keeps the operation contract of ADR-003, whatever stale  *)
(* leases, tickets and attempts of earlier generations call.               *)
(***************************************************************************)
Contract == INSTANCE OperationContract
    WITH CancelWins <- TRUE, active <- operations, outcome <- [s \in Seqs |-> Outcome(s)]
ImplementsContract == Contract!Spec

(***************************************************************************)
(* An attempt never outlives its operation: whoever still has one finds    *)
(* the operation it belongs to under the public id, so its cancellation    *)
(* and status stay anchored there, and a released operation left none.     *)
(***************************************************************************)
AttemptsAnchored ==
    \A s \in Seqs : run[s].attempts # {} =>
        /\ Current(s)
        /\ released[s] = NoSnapshot
        /\ \A a \in run[s].attempts : run[a].operation_id = run[s].operation_id

(***************************************************************************)
(* After quiesce, and until somebody resumes, every operation without a    *)
(* terminal class and every attempt below it has been asked to stop,       *)
(* attempts started later included; the same holds below an operation that *)
(* was cancelled on its own, also when it is terminal by now.              *)
(***************************************************************************)
QuiescedCancelled ==
    \A s \in Active :
        (phase = "quiescing" /\ run[s].terminal = "none")
          \/ CancellationRequested(run[s].control) =>
            /\ run[s].control # RUNNING
            /\ \A a \in run[s].attempts : run[a].control = CANCEL_REQUESTED

(***************************************************************************)
(* A close is the end: from the recorded facts on nothing is active, no    *)
(* worker is outstanding, and the facts say so.                            *)
(***************************************************************************)
CloseSound ==
    canonical_close # NoClose =>
        /\ phase = "closed"
        /\ Active = {}
        /\ workers.outstanding = {}
        /\ canonical_close.active_operations = 0 /\ canonical_close.retained_tasks = 0
        /\ canonical_close.expected_workers = canonical_close.joined_workers

(***************************************************************************)
(* The facts of a close are canonical: every later close answers the same. *)
(***************************************************************************)
CloseFinal == [][canonical_close # NoClose => UNCHANGED <<canonical_close, phase>>]_vars

(***************************************************************************)
(* wait_released never calls the lease of an operation stale: it leaves    *)
(* the registry only together with its released snapshot.                  *)
(***************************************************************************)
WaitNeverStale == \A v \in Waiters : waiter[v].answer # "stale"

(***************************************************************************)
(* A waiter learns of a release without its deadline: no wake-up is lost.  *)
(***************************************************************************)
ReleaseWakes ==
    \A v \in Waiters :
        (waiter[v].pc \in {"check", "asleep"} /\ released[waiter[v].lease] # NoSnapshot)
            ~> (waiter[v].answer = "snapshot")

(***************************************************************************)
(* What holds between any two calls: attempts are anchored in their        *)
(* operation, a quiesce and a cancel have reached all of them, a recorded  *)
(* close is the end of all work, and no waiter's lease is called stale.    *)
(***************************************************************************)
SupervisorInv ==
    TypeOK /\ AttemptsAnchored /\ QuiescedCancelled /\ CloseSound /\ WaitNeverStale
=============================================================================
