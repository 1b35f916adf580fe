------------------------- MODULE OperationSupervisor -------------------------
(***************************************************************************)
(* The operation supervisor of the Mom application                         *)
(* (products/mom/apps/mom-llama/src-tauri/src/operation_supervisor.rs).    *)
(*                                                                         *)
(* One step is one critical section of the code: a hold of the state       *)
(* mutex, a hold of one attempt's data mutex, a channel rendezvous or a    *)
(* join.  The public methods are made of several such sections, so a       *)
(* thread carries a frame that says which one it runs next.                *)
(*                                                                         *)
(* An attempt and its worker thread share the attempt's sequence number    *)
(* (the code names the worker after it).  An operation entry is            *)
(* identified by an instance number, standing for the InstanceId           *)
(* allocation behind a public id.  A call that is refused and changes      *)
(* nothing is not a step.                                                  *)
(***************************************************************************)
EXTENDS RunStates, WorkerLedger, FiniteSets

CONSTANTS
    ReservedIds,      \* public ids used with reserve
    ExplicitIds,      \* public ids used with create_operation
    Clients,          \* threads that admit, run and await operations
    Closers,          \* threads that call shutdown
    MaxSequence,      \* stands for u64::MAX, the sequence without successor
    MaxInstances,     \* bound on operation entries ever created
    HistoryCapacity,  \* COMPLETED_WORKER_HISTORY
    ProgressCapacity, \* progress_capacity
    SharedCalls,      \* methods called through further clones of a lease
    MayPoison         \* whether a thread may panic holding the state mutex

Ids       == ReservedIds \cup ExplicitIds
Seqs      == 1 .. (MaxSequence - 1)
Instances == 1 .. MaxInstances
Threads   == Clients \cup Closers \cup Seqs
Methods   == {"queue", "start", "progress", "terminal", "release"}

ASSUME BoundsAssumption ==
    /\ MaxSequence \in Nat \ {0}
    /\ MaxInstances \in Nat
    /\ HistoryCapacity \in Nat
    /\ ProgressCapacity \in Nat
    /\ SharedCalls \subseteq Methods
    /\ MayPoison \in BOOLEAN

ASSUME ThreadsAssumption ==
    /\ Clients \cap Closers = {}
    /\ (Clients \cup Closers) \cap Nat = {}

VARIABLES
    \* SupervisorState, under the state mutex
    phase, next_sequence, operations, attempts, workers, worker_history,
    exited_worker_ids, shutdown,
    poisoned,       \* the state mutex is poisoned
    \* OperationEntry by instance, AttemptControl by sequence
    entry, next_instance, attempt,
    \* per worker: the result channel, and the OnceLock its task shares
    result, joined_flag,
    shared,         \* leases that code other than the admitting caller holds
    frame,          \* thread -> where it is
    waiting         \* threads blocked in changed.wait

registryVars == <<phase, next_sequence, operations, attempts, entry, next_instance>>
workerVars   == <<workers, worker_history, exited_worker_ids, joined_flag>>
vars == <<registryVars, workerVars, shutdown, poisoned, attempt, result, shared,
          frame, waiting>>

-----------------------------------------------------------------------------

TerminalClasses == {"completed", "cancelled", "failed"}
OperationPhases == {"reserved", "queued", "running", "terminal", "released"}

\* instance is a ghost: the entry the attempt was admitted under.
NoAttempt == [operation_id |-> "none", instance |-> 0, phase |-> "none",
              terminal |-> "none", control |-> RUNNING, progress |-> 0]

AttemptControls ==
    [operation_id : Ids \cup {"none"}, instance : Instances \cup {0},
     phase : OperationPhases \cup {"none"},
     terminal : TerminalClasses \cup {"none"}, control : RunStateSet,
     progress : 0 .. ProgressCapacity]

NoEntry == [operation_id |-> "none", explicit |-> FALSE,
            cancellation_requested |-> FALSE, attempts |-> {}]

OperationEntries ==
    [operation_id : Ids \cup {"none"}, explicit : BOOLEAN,
     cancellation_requested : BOOLEAN, attempts : SUBSET Seqs]

NoShutdown == [phase |-> "none"]

ShutdownOutcomes ==
    [phase : {"closed"}, state_poisoned : BOOLEAN,
     active_operations : SUBSET Seqs, retained_tasks : SUBSET Seqs,
     expected_worker_ids : SUBSET Seqs, joined_worker_ids : SUBSET Seqs]

Labels ==
    {"idle", "create", "rollback", "reserved", "launch", "register",
     "rendezvous", "task", "joined_check", "reap_take", "reap_join",
     "reap_note", "recheck", "reap_error", "cancel_sweep", "cached", "drain",
     "close", "returned", "unborn", "recv", "run", "send", "exit", "dead",
     \* inside a method on a lease: before require_current, before the data
     \* section, and between the two sections of release
     "current", "body", "retire"}

\* The function whose body a thread's calls on a lease belong to.
Programs == {"none", "spawn", "refuse", "start_failed", "finish", "attempt",
             "call", "worker"}

Frames == [pc : Labels, program : Programs, method : Methods \cup {"none"},
           lease : Seqs \cup {0}, class : TerminalClasses,
           instance : Instances \cup {0}, sweep : SUBSET Seqs]

NewFrame(label) == [pc |-> label, program |-> "none", method |-> "none",
                    lease |-> 0, class |-> "failed", instance |-> 0,
                    sweep |-> {}]

TypeOK ==
    /\ phase \in {"running", "quiescing", "closed"}
    /\ next_sequence \in 1 .. MaxSequence
    /\ operations \in [Ids -> Instances \cup {0}]
    /\ attempts \subseteq Seqs
    /\ entry \in [Instances -> OperationEntries]
    /\ next_instance \in 1 .. (MaxInstances + 1)
    /\ workers \in [Seqs -> {"absent", "joinable", "taken"}]
    /\ worker_history \in [outstanding : SUBSET Seqs, joined : SUBSET Seqs,
                           joined_order : Seq(Seqs),
                           history_capacity : {HistoryCapacity}]
    /\ exited_worker_ids \subseteq Seqs
    /\ joined_flag \subseteq Seqs
    /\ shutdown \in ShutdownOutcomes \cup {NoShutdown}
    /\ poisoned \in BOOLEAN
    /\ attempt \in [Seqs -> AttemptControls]
    /\ result \in [Seqs -> {"pending", "sent", "lost"}]
    /\ shared \subseteq Seqs
    /\ frame \in [Threads -> Frames]
    /\ waiting \subseteq Threads

\* with_config
Init ==
    /\ phase = "running"
    /\ next_sequence = 1
    /\ operations = [id \in Ids |-> 0]
    /\ attempts = {}
    /\ entry = [i \in Instances |-> NoEntry]
    /\ next_instance = 1
    /\ workers = [s \in Seqs |-> "absent"]
    /\ worker_history = NewLedger(HistoryCapacity)
    /\ exited_worker_ids = {}
    /\ joined_flag = {}
    /\ shutdown = NoShutdown
    /\ poisoned = FALSE
    /\ attempt = [s \in Seqs |-> NoAttempt]
    /\ result = [s \in Seqs |-> "pending"]
    /\ shared = {}
    /\ frame = [t \in Threads |-> NewFrame(IF t \in Seqs THEN "unborn" ELSE "idle")]
    /\ waiting = {}

-----------------------------------------------------------------------------
(* Frames.  A thread that returns from everything forgets what it held.    *)

At(t, label) == frame[t].pc = label /\ t \notin waiting
In(t, method) == At(t, "body") /\ frame[t].method = method

\* Control moves to a label, or into the next method on the same lease.
Moved(f, target) ==
    IF target = "idle" THEN NewFrame("idle")
    ELSE IF target \in Methods THEN [f EXCEPT !.pc = "current", !.method = target]
    ELSE [f EXCEPT !.pc = target]

SetFrame(t, f)  == frame' = [frame EXCEPT ![t] = f]
Goto(t, target) == SetFrame(t, Moved(frame[t], target))

\* The code after a method call that returned Ok, by the function it is in ...
AfterOk(program, method) ==
    CASE program = "worker" -> IF method = "terminal" THEN "send" ELSE "exit"
      [] program = "call"   -> "idle"
      [] program \notin {"worker", "call"} ->
           CASE method = "queue"    -> "start"
             [] method = "start"    -> IF program = "spawn" THEN "launch" ELSE "terminal"
             [] method = "terminal" -> "release"
             [] OTHER               -> "idle"

\* ... and after an Err: a worker goes on, every other caller returns it.
AfterErr(program, method) ==
    IF program = "worker" THEN AfterOk(program, method) ELSE "idle"

Return(t, ok) ==
    Goto(t, IF ok THEN AfterOk(frame[t].program, frame[t].method)
                  ELSE AfterErr(frame[t].program, frame[t].method))

NotifyAll == waiting' = {}
Sleep(t)  == waiting' = waiting \cup {t}

-----------------------------------------------------------------------------
(* Admission: reserve, create_operation, start_attempt.                    *)

\* Mutant of CreateOperationInner: the id may be taken over.
CreateOperationOver(id, explicit) ==
    /\ ~poisoned
    /\ phase = "running"
    /\ next_instance \in Instances
    /\ operations' = [operations EXCEPT ![id] = next_instance]
    /\ entry' = [entry EXCEPT ![next_instance] =
                   [NoEntry EXCEPT !.operation_id = id, !.explicit = explicit]]
    /\ next_instance' = next_instance + 1

\* create_operation_inner
CreateOperationInner(id, explicit) ==
    /\ ~poisoned
    /\ phase = "running"
    /\ operations[id] = 0
    /\ next_instance \in Instances
    /\ operations' = [operations EXCEPT ![id] = next_instance]
    /\ entry' = [entry EXCEPT ![next_instance] =
                   [NoEntry EXCEPT !.operation_id = id, !.explicit = explicit]]
    /\ next_instance' = next_instance + 1

CreateOperation(c, id) ==
    /\ At(c, "idle")
    /\ CreateOperationInner(id, TRUE)
    /\ UNCHANGED <<phase, next_sequence, attempts, workerVars, shutdown, poisoned,
                   attempt, result, shared, frame, waiting>>

ReserveCreate(c, id) ==
    /\ At(c, "idle")
    /\ CreateOperationInner(id, FALSE)
    /\ SetFrame(c, [NewFrame("create") EXCEPT !.instance = next_instance])
    /\ UNCHANGED <<phase, next_sequence, attempts, workerVars, shutdown, poisoned,
                   attempt, result, shared, waiting>>

\* Mutant of MayStartAttempt: admission is not closed to a caller that has its entry.
MayStartAttemptLate(i) ==
    /\ ~poisoned
    /\ next_sequence < MaxSequence
    /\ operations[entry[i].operation_id] = i

\* Mutant of MayStartAttempt: the sequence is not checked for exhaustion.
MayStartAttemptUnchecked(i) ==
    /\ ~poisoned
    /\ phase = "running"
    /\ operations[entry[i].operation_id] = i

\* start_attempt_inner on a handle of instance i: what must hold, in the
\* order it is tested, and what it does.
MayStartAttempt(i) ==
    /\ ~poisoned
    /\ phase = "running"
    /\ next_sequence < MaxSequence
    /\ operations[entry[i].operation_id] = i

\* Mutant of StartAttemptInner: the operation's cancellation is not inherited.
StartAttemptUncancelled(i, initial) ==
    /\ next_sequence' = next_sequence + 1
    /\ attempts' = attempts \cup {next_sequence}
    /\ entry' = [entry EXCEPT ![i].attempts = @ \cup {next_sequence}]
    /\ attempt' = [attempt EXCEPT ![next_sequence] =
                     [operation_id |-> entry[i].operation_id, instance |-> i,
                      phase |-> initial, terminal |-> "none",
                      control |-> NewControl(FALSE), progress |-> 0]]

StartAttemptInner(i, initial) ==
    /\ next_sequence' = next_sequence + 1
    /\ attempts' = attempts \cup {next_sequence}
    /\ entry' = [entry EXCEPT ![i].attempts = @ \cup {next_sequence}]
    /\ attempt' = [attempt EXCEPT ![next_sequence] =
                     [operation_id |-> entry[i].operation_id, instance |-> i,
                      phase |-> initial, terminal |-> "none",
                      control |-> NewControl(entry[i].cancellation_requested),
                      progress |-> 0]]

ReserveAttempt(c) ==
    LET i == frame[c].instance IN
    /\ At(c, "create")
    /\ \/ /\ MayStartAttempt(i)
          /\ StartAttemptInner(i, "reserved")
          /\ SetFrame(c, [NewFrame("reserved") EXCEPT !.lease = next_sequence])
       \/ /\ ~MayStartAttempt(i)
          /\ Goto(c, "rollback")
          /\ UNCHANGED <<next_sequence, attempts, entry, attempt>>
    /\ UNCHANGED <<phase, operations, next_instance, workerVars, shutdown, poisoned,
                   result, shared, waiting>>

RemoveOperation(id) == operations' = [operations EXCEPT ![id] = 0]

\* reserve's error path removes whatever is registered under the public id.
ReserveRollback(c) ==
    /\ At(c, "rollback")
    /\ RemoveOperation(entry[frame[c].instance].operation_id)
    /\ Goto(c, "idle")
    /\ UNCHANGED <<phase, next_sequence, attempts, entry, next_instance, workerVars,
                   shutdown, poisoned, attempt, result, shared, waiting>>

\* A handle is Clone, so any client may hold the handle of instance i.
StartAttempt(c, i) ==
    /\ At(c, "idle")
    /\ entry[i].explicit
    /\ MayStartAttempt(i)
    /\ StartAttemptInner(i, "running")
    /\ shared' = shared \cup {next_sequence}
    /\ UNCHANGED <<phase, operations, next_instance, workerVars, shutdown, poisoned,
                   result, frame, waiting>>

-----------------------------------------------------------------------------
(* Methods on a lease.  Each starts with require_current, a section of its *)
(* own under the state mutex; the data mutex is taken after it is dropped. *)

RequireCurrent(t) ==
    /\ At(t, "current")
    /\ IF frame[t].lease \in attempts THEN Goto(t, "body") ELSE Return(t, FALSE)
    /\ UNCHANGED <<registryVars, workerVars, shutdown, poisoned, attempt, result,
                   shared, waiting>>

\* transition: queue is Reserved -> Queued, start is Queued -> Running.
Transition(t, method, from, to) ==
    LET s == frame[t].lease IN
    /\ In(t, method)
    /\ attempt' = [attempt EXCEPT ![s].phase = IF @ = from THEN to ELSE @]
    /\ Return(t, attempt[s].phase = from)
    /\ UNCHANGED <<registryVars, workerVars, shutdown, poisoned, result, shared, waiting>>

Queue(t) == Transition(t, "queue", "reserved", "queued")
Start(t) == Transition(t, "start", "queued", "running")

\* Mutant of AcceptsOutcome: the phase is tested, the record is not, and too widely.
AcceptsUntilReleased(a) == a.phase \in {"running", "terminal"}

AcceptsOutcome(a) == a.phase = "running" /\ a.terminal = "none"

\* publish_progress keeps the newest progress_capacity values: their number.
PublishProgress(t) ==
    LET s == frame[t].lease
        ok == AcceptsOutcome(attempt[s])
    IN
    /\ In(t, "progress")
    /\ attempt' = [attempt EXCEPT ![s].progress =
                     IF ok /\ @ < ProgressCapacity THEN @ + 1 ELSE @]
    /\ Return(t, ok)
    /\ UNCHANGED <<registryVars, workerVars, shutdown, poisoned, result, shared, waiting>>

\* Mutant of PublishedClass: what the claim says about cancellation is ignored.
RequestedClass(control, class) == class

\* A cancellation that won the run control turns Completed into Cancelled.
PublishedClass(control, class) ==
    IF CancellationRequested(control) /\ class = "completed" THEN "cancelled" ELSE class

Terminal(t) ==
    LET s  == frame[t].lease
        a  == attempt[s]
        ok == AcceptsOutcome(a) /\ ~IsTerminal(a.control)
    IN
    /\ In(t, "terminal")
    /\ \/ /\ ok
          /\ attempt' = [attempt EXCEPT ![s] =
                [a EXCEPT !.phase = "terminal",
                          !.control = TerminalOf(a.control),
                          !.terminal = PublishedClass(a.control, frame[t].class)]]
          /\ NotifyAll
       \/ /\ ~ok
          /\ UNCHANGED <<attempt, waiting>>
    /\ Return(t, ok)
    /\ UNCHANGED <<registryVars, workerVars, shutdown, poisoned, result, shared>>

\* release, the section under the data mutex ...
Release(t) ==
    LET s  == frame[t].lease
        ok == attempt[s].phase = "terminal" /\ attempt[s].terminal # "none"
    IN
    /\ In(t, "release")
    /\ \/ /\ ok
          /\ attempt' = [attempt EXCEPT ![s].phase = "released"]
          /\ Goto(t, "retire")
       \/ /\ ~ok
          /\ Return(t, FALSE)
          /\ UNCHANGED attempt
    /\ UNCHANGED <<registryVars, workerVars, shutdown, poisoned, result, shared, waiting>>

\* An operation entry leaves with its last attempt, unless it is explicit.
LeavesWithAttempt(i, s) == ~entry[i].explicit /\ entry[i].attempts \subseteq {s}

\* ... and the one under the state mutex that takes the attempt out.
Retire(t) ==
    LET s  == frame[t].lease
        id == attempt[s].operation_id
        i  == operations[id]
    IN
    /\ At(t, "retire")
    /\ attempts' = attempts \ {s}
    /\ \/ /\ s \in attempts /\ i # 0
          /\ entry' = [entry EXCEPT ![i].attempts = @ \ {s}]
          /\ IF LeavesWithAttempt(i, s) THEN RemoveOperation(id) ELSE UNCHANGED operations
          /\ NotifyAll
          /\ Return(t, TRUE)
       \/ /\ ~(s \in attempts /\ i # 0)
          /\ Return(t, FALSE)
          /\ UNCHANGED <<entry, operations, waiting>>
    /\ UNCHANGED <<phase, next_sequence, next_instance, workerVars, shutdown, poisoned,
                   attempt, result, shared>>

\* Somebody who holds a clone of the lease calls one method through it.
CallShared(c, s, method, class) ==
    /\ At(c, "idle")
    /\ s \in shared
    /\ method \in SharedCalls
    /\ method = "terminal" \/ class = "failed"   \* only terminal has the argument
    /\ SetFrame(c, [NewFrame("current") EXCEPT !.program = "call", !.method = method,
                                               !.lease = s, !.class = class])
    /\ UNCHANGED <<registryVars, workerVars, shutdown, poisoned, attempt, result,
                   shared, waiting>>

\* finish_attempt reads the run control, then calls terminal and release.
\* It is the counterpart of start_attempt.
FinishAttempt(c, s) ==
    /\ At(c, "idle")
    /\ s \in attempts
    /\ entry[attempt[s].instance].explicit
    /\ SetFrame(c, [NewFrame("current") EXCEPT
                      !.program = "attempt", !.method = "terminal", !.lease = s,
                      !.class = IF CancellationRequested(attempt[s].control)
                                  THEN "cancelled" ELSE "completed"])
    /\ UNCHANGED <<registryVars, workerVars, shutdown, poisoned, attempt, result,
                   shared, waiting>>

\* Mutant of FinishOperation: active attempts do not refuse it.
FinishOperationEarly(c, i) ==
    /\ At(c, "idle")
    /\ entry[i].explicit
    /\ operations[entry[i].operation_id] = i
    /\ RemoveOperation(entry[i].operation_id)
    /\ NotifyAll
    /\ UNCHANGED <<phase, next_sequence, attempts, entry, next_instance, workerVars,
                   shutdown, poisoned, attempt, result, shared, frame>>

FinishOperation(c, i) ==
    /\ At(c, "idle")
    /\ entry[i].explicit
    /\ operations[entry[i].operation_id] = i
    /\ entry[i].attempts = {}
    /\ RemoveOperation(entry[i].operation_id)
    /\ NotifyAll
    /\ UNCHANGED <<phase, next_sequence, attempts, entry, next_instance, workerVars,
                   shutdown, poisoned, attempt, result, shared, frame>>

-----------------------------------------------------------------------------
(* Cancellation.                                                           *)

CancelAttempt(s) == attempt' = [attempt EXCEPT ![s].control = CancelRequest(@)]

\* request_cancel on a ticket, request_cancellation_from_executor on a lease,
\* and the drop of a ticket whose attempt is not terminal.
RequestCancel(s) ==
    /\ s \in attempts
    /\ CancelAttempt(s)
    /\ UNCHANGED <<registryVars, workerVars, shutdown, poisoned, result, shared,
                   frame, waiting>>

\* request_operation_cancel: mark and collect under the state mutex ...
RequestOperationCancel(c, i) ==
    /\ At(c, "idle")
    /\ entry[i].explicit
    /\ operations[entry[i].operation_id] = i
    /\ entry' = [entry EXCEPT ![i].cancellation_requested = TRUE]
    /\ SetFrame(c, [NewFrame("cancel_sweep") EXCEPT !.sweep = entry[i].attempts])
    /\ UNCHANGED <<phase, next_sequence, operations, attempts, next_instance,
                   workerVars, shutdown, poisoned, attempt, result, shared, waiting>>

\* ... then cancel one collected attempt after another without it.
CancelSweep(t, s) ==
    /\ At(t, "cancel_sweep")
    /\ s \in frame[t].sweep
    /\ \A r \in frame[t].sweep : s <= r
    /\ CancelAttempt(s)
    /\ SetFrame(t, [frame[t] EXCEPT !.sweep = @ \ {s}])
    /\ UNCHANGED <<registryVars, workerVars, shutdown, poisoned, result, shared, waiting>>

CancelSweepDone(t) ==
    /\ At(t, "cancel_sweep")
    /\ frame[t].sweep = {}
    /\ \/ /\ t \in Closers          \* the end of begin_quiesce
          /\ Goto(t, "cached")
          /\ NotifyAll
       \/ /\ t \in Clients
          /\ Goto(t, "idle")
          /\ UNCHANGED waiting
    /\ UNCHANGED <<registryVars, workerVars, shutdown, poisoned, attempt, result, shared>>

-----------------------------------------------------------------------------
(* Execution: spawn, the worker thread, and the owner of a reservation     *)
(* that never spawns.                                                      *)

\* spawn, from lock_admission_state to its first queue call.
Spawn(c) ==
    /\ At(c, "reserved")
    /\ SetFrame(c, [frame[c] EXCEPT !.pc = "current", !.method = "queue",
                                    !.program = IF poisoned THEN "refuse" ELSE "spawn"])
    /\ UNCHANGED <<registryVars, workerVars, shutdown, poisoned, attempt, result,
                   shared, waiting>>

\* AppWorkLease::finish and its drop: queue, start, terminal, release.
FinishReservation(c, class) ==
    /\ At(c, "reserved")
    /\ SetFrame(c, [frame[c] EXCEPT !.pc = "current", !.method = "queue",
                                    !.program = "finish", !.class = class])
    /\ UNCHANGED <<registryVars, workerVars, shutdown, poisoned, attempt, result,
                   shared, waiting>>

\* The thread is created and blocks on the start channel, or cannot be.
Launch(c) ==
    /\ At(c, "launch")
    /\ \/ frame' = [frame EXCEPT ![c].pc = "register", ![frame[c].lease] =
                      [NewFrame("recv") EXCEPT !.program = "worker",
                                               !.lease = frame[c].lease]]
       \/ SetFrame(c, [frame[c] EXCEPT !.pc = "current", !.method = "terminal",
                                       !.program = "start_failed"])
    /\ UNCHANGED <<registryVars, workerVars, shutdown, poisoned, attempt, result,
                   shared, waiting>>

Register(c) ==
    LET w == frame[c].lease IN
    /\ At(c, "register")
    /\ worker_history' = NoteStarted(worker_history, w)
    /\ workers' = [workers EXCEPT ![w] = "joinable"]
    /\ Goto(c, "rendezvous")
    /\ UNCHANGED <<registryVars, exited_worker_ids, joined_flag, shutdown, poisoned,
                   attempt, result, shared, waiting>>

\* start_tx.send on a channel without buffer; the operation gets the lease.
Rendezvous(c) ==
    LET w == frame[c].lease IN
    /\ At(c, "rendezvous")
    /\ frame[w].pc = "recv"
    /\ frame' = [frame EXCEPT ![c].pc = "task", ![w].pc = "run"]
    /\ shared' = shared \cup {w}
    /\ UNCHANGED <<registryVars, workerVars, shutdown, poisoned, attempt, result, waiting>>

\* The operation returned Ok, Err or panicked; the worker picks the class.
RunOperation(w, outcome) ==
    /\ At(w, "run")
    /\ SetFrame(w, [frame[w] EXCEPT !.pc = "current", !.method = "terminal", !.class =
            IF outcome # "panic" /\ CancellationRequested(attempt[w].control)
              THEN "cancelled"
              ELSE IF outcome = "ok" THEN "completed" ELSE "failed"])
    /\ UNCHANGED <<registryVars, workerVars, shutdown, poisoned, attempt, result,
                   shared, waiting>>

\* result_tx.send, or an unwind while the result is disposed of drops the
\* sender; either way WorkerExitGuard runs next.
Send(w) ==
    /\ At(w, "send")
    /\ \E r \in {"sent", "lost"} : result' = [result EXCEPT ![w] = r]
    /\ Goto(w, "release")
    /\ UNCHANGED <<registryVars, workerVars, shutdown, poisoned, attempt, shared, waiting>>

\* Mutant of RecordWorkerExit: nobody is notified.
RecordWorkerExitSilently(w) ==
    /\ At(w, "exit")
    /\ exited_worker_ids' = exited_worker_ids \cup {w}
    /\ Goto(w, "dead")
    /\ UNCHANGED <<registryVars, workers, worker_history, joined_flag, shutdown,
                   poisoned, attempt, result, shared, waiting>>

\* record_worker_exit, the end of WorkerExitGuard::drop.
RecordWorkerExit(w) ==
    /\ At(w, "exit")
    /\ exited_worker_ids' = exited_worker_ids \cup {w}
    /\ NotifyAll
    /\ Goto(w, "dead")
    /\ UNCHANGED <<registryVars, workers, worker_history, joined_flag, shutdown,
                   poisoned, attempt, result, shared>>

-----------------------------------------------------------------------------
(* Joining: SupervisedTask::wait and its drop, reap_worker.                *)

\* The result arrives, or its sender is gone and wait returns that at once.
AwaitResult(c) ==
    LET w == frame[c].lease IN
    /\ At(c, "task")
    /\ result[w] # "pending"
    /\ Goto(c, IF result[w] = "sent" THEN "joined_check" ELSE "idle")
    /\ UNCHANGED <<registryVars, workerVars, shutdown, poisoned, attempt, result,
                   shared, waiting>>

\* The task is dropped with its ticket, which only requests cancellation.
DropTask(c) ==
    LET w == frame[c].lease IN
    /\ At(c, "task")
    /\ IF attempt[w].terminal = "none" /\ w \in attempts
         THEN CancelAttempt(w) ELSE UNCHANGED attempt
    /\ Goto(c, "idle")
    /\ UNCHANGED <<registryVars, workerVars, shutdown, poisoned, result, shared, waiting>>

JoinedCheck(c) ==
    /\ At(c, "joined_check")
    /\ Goto(c, IF frame[c].lease \in joined_flag THEN "idle" ELSE "reap_take")
    /\ UNCHANGED <<registryVars, workerVars, shutdown, poisoned, attempt, result,
                   shared, waiting>>

\* Where reap_worker returns to: shutdown ignores the result, wait does not.
AfterReap(t, ok) ==
    IF t \in Closers THEN "drain" ELSE IF ok THEN "idle" ELSE "recheck"

ReapTake(t) ==
    LET w == frame[t].lease IN
    /\ At(t, "reap_take")
    /\ \/ /\ workers[w] = "absent"
          /\ Goto(t, AfterReap(t, WasJoined(worker_history, w)))
          /\ UNCHANGED <<workers, waiting>>
       \/ /\ workers[w] = "joinable"
          /\ workers' = [workers EXCEPT ![w] = "taken"]
          /\ Goto(t, "reap_join")
          /\ UNCHANGED waiting
       \/ /\ workers[w] = "taken"
          /\ Sleep(t)
          /\ UNCHANGED <<workers, frame>>
    /\ UNCHANGED <<registryVars, worker_history, exited_worker_ids, joined_flag,
                   shutdown, poisoned, attempt, result, shared>>

\* join.join() returns once the thread has ended.
ReapJoin(t) ==
    /\ At(t, "reap_join")
    /\ frame[frame[t].lease].pc = "dead"
    /\ Goto(t, "reap_note")
    /\ UNCHANGED <<registryVars, workerVars, shutdown, poisoned, attempt, result,
                   shared, waiting>>

\* Mutant of ReapNote: the worker's record stays, without its handle.
ReapNoteKeepsRecord(t) ==
    LET w == frame[t].lease IN
    /\ At(t, "reap_note")
    /\ CanNoteJoined(worker_history, w)
    /\ worker_history' = NoteJoined(worker_history, w)
    /\ joined_flag' = joined_flag \cup {w}
    /\ exited_worker_ids' = exited_worker_ids \ {w}
    /\ NotifyAll
    /\ Goto(t, AfterReap(t, TRUE))
    /\ UNCHANGED <<registryVars, workers, shutdown, poisoned, attempt, result, shared>>

ReapNote(t) ==
    LET w == frame[t].lease IN
    /\ At(t, "reap_note")
    /\ \/ /\ CanNoteJoined(worker_history, w)
          /\ worker_history' = NoteJoined(worker_history, w)
          /\ joined_flag' = joined_flag \cup {w}
          /\ workers' = [workers EXCEPT ![w] = "absent"]
          /\ exited_worker_ids' = exited_worker_ids \ {w}
          /\ NotifyAll
          /\ Goto(t, AfterReap(t, TRUE))
       \/ /\ ~CanNoteJoined(worker_history, w)
          /\ Goto(t, AfterReap(t, FALSE))
          /\ UNCHANGED <<workerVars, waiting>>
    /\ UNCHANGED <<registryVars, shutdown, poisoned, attempt, result, shared>>

\* Mutant of Recheck: the reap error is reported as it is.
ReportReapError(c) ==
    /\ At(c, "recheck")
    /\ Goto(c, "reap_error")
    /\ UNCHANGED <<registryVars, workerVars, shutdown, poisoned, attempt, result,
                   shared, waiting>>

\* wait looks at the OnceLock again before it reports a reap error.
Recheck(c) ==
    /\ At(c, "recheck")
    /\ Goto(c, IF frame[c].lease \in joined_flag THEN "idle" ELSE "reap_error")
    /\ UNCHANGED <<registryVars, workerVars, shutdown, poisoned, attempt, result,
                   shared, waiting>>

-----------------------------------------------------------------------------
(* Shutdown.                                                               *)

BeginQuiesce(t) ==
    /\ At(t, "idle")
    /\ \/ /\ phase = "closed"
          /\ Goto(t, "cached")
          /\ UNCHANGED <<phase, entry>>
       \/ /\ phase # "closed"
          /\ phase' = "quiescing"
          /\ entry' = [i \in Instances |->
                [entry[i] EXCEPT !.cancellation_requested =
                    @ \/ \E id \in Ids : operations[id] = i]]
          /\ SetFrame(t, [NewFrame("cancel_sweep") EXCEPT !.sweep = attempts])
    /\ UNCHANGED <<next_sequence, operations, attempts, next_instance, workerVars,
                   shutdown, poisoned, attempt, result, shared, waiting>>

CachedOutcome(t) ==
    /\ At(t, "cached")
    /\ Goto(t, IF shutdown = NoShutdown THEN "drain" ELSE "returned")
    /\ UNCHANGED <<registryVars, workerVars, shutdown, poisoned, attempt, result,
                   shared, waiting>>

\* Mutant of MayClose: only the workers are looked at.
MayCloseWithAttempts == worker_history.outstanding = {}

\* Where shutdown's loop breaks.
MayClose == attempts = {} /\ worker_history.outstanding = {}

\* One turn of shutdown's loop, up to the wait, the reap or the break.
Drain(t) ==
    LET exited == {w \in exited_worker_ids : workers[w] # "absent"} IN
    /\ At(t, "drain")
    /\ \/ /\ MayClose
          /\ Goto(t, "close")
          /\ UNCHANGED waiting
       \/ /\ attempts = {}
          /\ ~MayClose
          /\ \E w \in exited :
                SetFrame(t, [frame[t] EXCEPT !.pc = "reap_take", !.lease = w])
          /\ UNCHANGED waiting
       \/ /\ attempts # {} \/ exited = {}
          /\ ~MayClose
          /\ Sleep(t)
          /\ UNCHANGED frame
    /\ UNCHANGED <<registryVars, workerVars, shutdown, poisoned, attempt, result, shared>>

Close(t) ==
    /\ At(t, "close")
    /\ phase' = "closed"
    /\ shutdown' = [phase |-> "closed", state_poisoned |-> poisoned,
                    active_operations |-> attempts,
                    retained_tasks |-> worker_history.outstanding,
                    expected_worker_ids |-> Expected(worker_history),
                    joined_worker_ids |-> worker_history.joined]
    /\ NotifyAll
    /\ Goto(t, "returned")
    /\ UNCHANGED <<next_sequence, operations, attempts, entry, next_instance,
                   workerVars, poisoned, attempt, result, shared>>

\* A panic while the state mutex is held.
Poison ==
    /\ MayPoison
    /\ ~poisoned
    /\ poisoned' = TRUE
    /\ UNCHANGED <<registryVars, workerVars, shutdown, attempt, result, shared,
                   frame, waiting>>

\* Condvar::wait may return without a notification.
SpuriousWake(t) ==
    /\ t \in waiting
    /\ waiting' = waiting \ {t}
    /\ UNCHANGED <<registryVars, workerVars, shutdown, poisoned, attempt, result,
                   shared, frame>>

-----------------------------------------------------------------------------

LeaseStep(t) ==
    \/ RequireCurrent(t)
    \/ Queue(t) \/ Start(t) \/ PublishProgress(t) \/ Terminal(t)
    \/ Release(t) \/ Retire(t)

ReapStep(t) == ReapTake(t) \/ ReapJoin(t) \/ ReapNote(t)

SweepStep(t) == (\E s \in Seqs : CancelSweep(t, s)) \/ CancelSweepDone(t)

\* What an idle client may begin.
ClientCall(c) ==
    \/ \E id \in ReservedIds : ReserveCreate(c, id)
    \/ \E id \in ExplicitIds : CreateOperation(c, id)
    \/ \E i \in Instances :
          StartAttempt(c, i) \/ FinishOperation(c, i) \/ RequestOperationCancel(c, i)
    \/ \E s \in Seqs : FinishAttempt(c, s)
    \/ \E s \in Seqs, m \in Methods, k \in TerminalClasses : CallShared(c, s, m, k)

\* What it does with a reservation, and every step inside a method.
ClientStep(c) ==
    \/ ReserveAttempt(c) \/ ReserveRollback(c)
    \/ Spawn(c) \/ (\E k \in TerminalClasses : FinishReservation(c, k))
    \/ Launch(c) \/ Register(c) \/ Rendezvous(c)
    \/ JoinedCheck(c) \/ Recheck(c)
    \/ LeaseStep(c) \/ ReapStep(c) \/ SweepStep(c)

ClientTask(c) == AwaitResult(c) \/ DropTask(c)

WorkerStep(w) ==
    \/ \E outcome \in {"ok", "err", "panic"} : RunOperation(w, outcome)
    \/ LeaseStep(w) \/ Send(w) \/ RecordWorkerExit(w)

CloserStep(t) ==
    \/ CachedOutcome(t) \/ Drain(t) \/ Close(t) \/ ReapStep(t) \/ SweepStep(t)

Next ==
    \/ \E c \in Clients : ClientCall(c) \/ ClientStep(c) \/ ClientTask(c)
    \/ \E w \in Seqs : WorkerStep(w) \/ RequestCancel(w)
    \/ \E t \in Closers : BeginQuiesce(t) \/ CloserStep(t)
    \/ Poison
    \/ \E t \in Threads : SpuriousWake(t)

Spec == Init /\ [][Next]_vars

(***************************************************************************)
(* Threads keep running; an operation ends (it is asked to by its run      *)
(* control); the owner of a reservation spawns or finishes it, and the     *)
(* owner of an explicit attempt finishes it, whatever it calls before.  A  *)
(* client need neither begin a call nor await or drop a task.  Nothing is  *)
(* assumed of spurious wake-ups: a thread asleep must be notified.         *)
(***************************************************************************)
Fairness ==
    /\ \A c \in Clients : WF_vars(ClientStep(c))
    /\ \A c \in Clients : SF_vars(\E s \in Seqs : FinishAttempt(c, s))
    /\ \A w \in Seqs : WF_vars(WorkerStep(w))
    /\ \A t \in Closers : WF_vars(CloserStep(t))

FairSpec == Spec /\ Fairness

-----------------------------------------------------------------------------
(* Safety.                                                                 *)

(***************************************************************************)
(* A public id stays bound to the operation entry an attempt was admitted  *)
(* under until that attempt is released, whatever stale leases and handles *)
(* of earlier uses of the id do meanwhile: create_operation_inner's        *)
(* duplicate test, release and finish_operation never let two operations   *)
(* be active under one id.                                                 *)
(***************************************************************************)
IdentityHeld ==
    \A s \in Seqs :
        attempt[s].phase \notin {"none", "released"} =>
            /\ s \in attempts
            /\ operations[attempt[s].operation_id] = attempt[s].instance

(***************************************************************************)
(* reserve's error path removes by public id alone.  It only ever removes  *)
(* the entry that same call created, still without attempts, although the  *)
(* state mutex was released twice in between.                              *)
(***************************************************************************)
RollbackOwnsEntry ==
    \A c \in Clients : frame[c].pc \in {"create", "rollback"} =>
        LET i == frame[c].instance IN
        operations[entry[i].operation_id] = i /\ entry[i].attempts = {}

Truthful(a) ==
    /\ a.terminal = "completed" => a.control = TERMINAL
    /\ (a.terminal # "none") <=> (a.phase \in {"terminal", "released"})
    /\ (a.terminal # "none") <=> IsTerminal(a.control)

(***************************************************************************)
(* terminal publishes Completed only for a run no cancellation had won,    *)
(* and a terminal record exists exactly from the Terminal phase on, with   *)
(* the run control closed.                                                 *)
(***************************************************************************)
TerminalTruth == \A s \in Seqs : Truthful(attempt[s])

(***************************************************************************)
(* Once begin_quiesce or request_operation_cancel has marked an operation, *)
(* none of its active attempts is missed: each has its cancellation (or is *)
(* terminal), or is in the list that a thread is still working through     *)
(* outside the state mutex.  Attempts started meanwhile are born cancelled.*)
(***************************************************************************)
CancellationReaches ==
    \A s \in attempts :
        phase # "running" \/ entry[attempt[s].instance].cancellation_requested
            => attempt[s].control # RUNNING \/ \E t \in Threads : s \in frame[t].sweep

(***************************************************************************)
(* A join handle is never lost: a worker is retained exactly while its     *)
(* handle is unconsumed, a handle that was taken is in the hands of one    *)
(* thread inside reap_worker, only retained workers are in                 *)
(* exited_worker_ids, and a worker is registered once ("worker sequence is *)
(* unique", spawn's expectation).                                          *)
(***************************************************************************)
Reaping(t, w) == frame[t].lease = w /\ frame[t].pc \in {"reap_join", "reap_note"}
JoinHandleOwned ==
    /\ worker_history.outstanding = {w \in Seqs : workers[w] # "absent"}
    /\ exited_worker_ids \subseteq worker_history.outstanding
    /\ \A w \in Seqs : (workers[w] = "taken") <=> \E t \in Clients \cup Closers : Reaping(t, w)
    /\ \A t, u \in Clients \cup Closers, w \in Seqs : Reaping(t, w) /\ Reaping(u, w) => t = u
    /\ \A c \in Clients :
          frame[c].pc = "register" => CanNoteStarted(worker_history, frame[c].lease)

(***************************************************************************)
(* SupervisedTask::wait never reports a reap error for a worker that ran:  *)
(* not when shutdown joined it first, and not when the bounded history has *)
(* forgotten that join already.                                            *)
(***************************************************************************)
WaitNeverMisreports == \A c \in Clients : frame[c].pc # "reap_error"

(***************************************************************************)
(* What holds while shutdown and SupervisedTask::wait compete to join the  *)
(* workers: every handle has one owner, and no loser misreports it.        *)
(***************************************************************************)
ReapInv == JoinHandleOwned /\ WaitNeverMisreports

(***************************************************************************)
(* When shutdown has an outcome, nothing is active and no worker thread    *)
(* exists that is not ended and joined, and none can appear: the outcome   *)
(* reports no retained task and equal expected and joined sets, as         *)
(* validate_worker_sets demands.                                           *)
(***************************************************************************)
ShutdownSound ==
    shutdown # NoShutdown =>
        /\ phase = "closed"
        /\ attempts = {}
        /\ \A w \in Seqs : frame[w].pc \in {"unborn", "dead"} /\ workers[w] = "absent"
        /\ \A c \in Clients : frame[c].pc \notin {"launch", "register", "rendezvous"}
        /\ shutdown.active_operations = {}
        /\ shutdown.retained_tasks = {}
        /\ shutdown.expected_worker_ids = shutdown.joined_worker_ids

-----------------------------------------------------------------------------
(* What a step may never do.                                               *)

(***************************************************************************)
(* A terminal record is final: later calls through any clone of the lease, *)
(* late cancellations and the release leave the class, the run control and *)
(* the progress as the executor published them, and the attempt never      *)
(* becomes active again.                                                   *)
(***************************************************************************)
TerminalFinal ==
    [][\A s \in Seqs : attempt[s].terminal # "none" =>
         /\ attempt'[s] \in {attempt[s], [attempt[s] EXCEPT !.phase = "released"]}
         /\ s \in attempts' => s \in attempts]_vars

(***************************************************************************)
(* Repeated and concurrent shutdowns agree: an outcome, once there, is     *)
(* never replaced by a different one, except to disclose a later poison.   *)
(***************************************************************************)
OutcomeFinal ==
    [][shutdown # NoShutdown =>
         shutdown' \in {shutdown, [shutdown EXCEPT !.state_poisoned = TRUE]}]_vars

-----------------------------------------------------------------------------
(* Liveness, under FairSpec.                                               *)

(***************************************************************************)
(* Every shutdown returns: no wake-up its loop or reap_worker needs is     *)
(* lost, and no join handle is waited for that nobody holds.               *)
(***************************************************************************)
ShutdownReturns ==
    \A t \in Closers : (frame[t].pc # "idle") ~> (frame[t].pc = "returned")

(***************************************************************************)
(* A consumer that has its result returns from SupervisedTask::wait, also  *)
(* when another thread took the join handle.                               *)
(***************************************************************************)
WaitReturns ==
    \A c \in Clients : (frame[c].pc = "joined_check") ~> (frame[c].pc = "idle")

=============================================================================
