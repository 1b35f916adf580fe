----------------------------- MODULE SpeechHost -----------------------------
(***************************************************************************)
(* The speech host: the life of a transcription or a synthesis, from the   *)
(* reservation of its identity and its route to the release of both        *)
(* (crates/services/speech/crates/speech-native-host/src/lib.rs and        *)
(* operation_lifecycle.rs), the task supervisor that owns its monitors     *)
(* (speech-native-types/src/task_supervisor.rs), and what a backend keeps  *)
(* of it (speech-native-backend-parakeet/src/lib.rs).                      *)
(*                                                                         *)
(* Two mutexes guard two maps: HostState.routes and the registry's         *)
(* operations.  A request is known by its sequence; "at" is where its      *)
(* future, and later its monitor, stands.  A select polls the cancellation *)
(* first, and it listens before it reads the flag: waits are guards here.  *)
(* There is one backend, since requests of different backends share the    *)
(* maps only.                                                              *)
(***************************************************************************)
EXTENDS Integers, FiniteSets

CONSTANTS
    Ids,          \* request ids
    Slots,        \* permits of the backend's limiter
    MaxSequence,  \* stands for u64::MAX, the sequence without successor
    Callers       \* callers of quiesce or shutdown

ASSUME IdsAssumption == "none" \notin Ids

ASSUME BoundsAssumption == Slots \in Nat \ {0} /\ MaxSequence \in Nat \ {0}

Seqs == 1 .. (MaxSequence - 1)

VARIABLES
    phase, shutdown_started, shutdown_result, routes,   \* HostState
    next_sequence, operations,                          \* OperationRegistry
    faulted,         \* HostLifecycle.faulted
    admitting,       \* whether the task supervisor takes tasks
    closed,          \* whether the limiter was closed
    request,         \* sequence -> OperationRecord, its future and its monitor
    call,            \* sequence -> where a call of cancel that captured it stands
    accepting,       \* whether the backend takes new work
    work,            \* sequence -> the backend's operation
    caller,          \* callers of quiesce and shutdown: [at, sweep], and whether for good
    coordinator      \* the detached shutdown coordinator: [at, sweep, failed]

hostVars == <<phase, shutdown_started, shutdown_result>>
registryVars == <<next_sequence, operations>>
backendVars == <<accepting, work>>
closeVars == <<caller, coordinator>>
vars == <<hostVars, routes, registryVars, faulted, admitting, closed, request, call, backendVars,
          closeVars>>

Classes == {"completed", "cancelled", "failed"}

NoRequest == [id |-> "none", phase |-> "none", cancelled |-> FALSE, terminal |-> "none",
              at |-> "none", permit |-> FALSE, task |-> FALSE, ends |-> "none",
              accepted |-> FALSE]

NoWork == [at |-> "none", cancelled |-> FALSE, final |-> "none"]

\* Places of the future returned by transcribe or synthesize; "routing" is the step
\* between the release of the identity and that of the route.
CallPlaces == {"queued", "started", "dispatching", "dispatched", "routing"}

\* Places of the tasks: the join of an abandoned dispatch, and the final relay.
TaskPlaces == {"abandoned", "joining", "monitor", "draining", "publishing"}

Requests ==
    [id : Ids \cup {"none"}, phase : {"none", "queued", "running", "terminal", "released"},
     cancelled : BOOLEAN, terminal : Classes \cup {"none"},
     at : CallPlaces \cup TaskPlaces \cup {"none", "over"}, permit : BOOLEAN,
     task : BOOLEAN, ends : {"none", "cancelled", "failed"}, accepted : BOOLEAN]

Works ==
    [at : {"none", "loading", "failing", "refused", "worker", "sent", "gone"}, cancelled : BOOLEAN,
     final : Classes \cup {"none"}]

CallerStates ==
    [at : {"idle", "sweeping", "waiting", "done"}, sweep : SUBSET Ids, closes : BOOLEAN]

TypeOK ==
    /\ phase \in {"running", "quiescing", "closed"}
    /\ shutdown_started \in BOOLEAN /\ shutdown_result \in {"none", "ok", "error"}
    /\ routes \in [Ids -> Seqs \cup {0}] /\ operations \in [Ids -> Seqs \cup {0}]
    /\ next_sequence \in 1 .. MaxSequence
    /\ faulted \in BOOLEAN /\ admitting \in BOOLEAN /\ closed \in BOOLEAN
    /\ accepting \in BOOLEAN
    /\ request \in [Seqs -> Requests]
    /\ call \in [Seqs -> {"none", "captured", "requested", "backend"}]
    /\ work \in [Seqs -> Works]
    /\ caller \in [Callers -> CallerStates]
    /\ coordinator \in
          [at : {"none", "cancelling", "joining", "draining", "idling", "done"},
           sweep : SUBSET Ids, failed : BOOLEAN]

Init ==
    /\ phase = "running" /\ shutdown_started = FALSE /\ shutdown_result = "none"
    /\ routes = [id \in Ids |-> 0] /\ operations = [id \in Ids |-> 0] /\ next_sequence = 1
    /\ faulted = FALSE /\ admitting = TRUE /\ closed = FALSE /\ accepting = TRUE
    /\ request = [s \in Seqs |-> NoRequest]
    /\ call = [s \in Seqs |-> "none"]
    /\ work = [s \in Seqs |-> NoWork]
    /\ caller = [z \in Callers |-> [at |-> "idle", sweep |-> {}, closes |-> FALSE]]
    /\ coordinator = [at |-> "none", sweep |-> {}, failed |-> FALSE]

Routed == {id \in Ids : routes[id] # 0}

Active == {id \in Ids : operations[id] # 0}

-----------------------------------------------------------------------------
(* The backend.                                                            *)

\* Where a worker holds its BackendOperationLease.
LeasedPlaces == {"loading", "failing", "worker", "sent"}

\* What the backend has under an id.
InBackend(id) == {s \in Seqs : request[s].id = id /\ work[s].at \in LeasedPlaces}

\* cancel_request of the backend, by id
Stopped(id) ==
    [s \in Seqs |-> IF s \in InBackend(id) THEN [work[s] EXCEPT !.cancelled = TRUE] ELSE work[s]]

\* CancellationSignal::cancel_backend: until the backend accepted it once
CancelBackend(s, r) ==
    IF r.accepted THEN work' = work /\ request' = [request EXCEPT ![s] = r]
    ELSE /\ work' = Stopped(r.id)
         /\ request' = [request EXCEPT ![s] = [r EXCEPT !.accepted = InBackend(r.id) # {}]]

\* cancel_and_finish, by Drop of an ExecutorOperation in the middle of its attempt
ExecutorDropped(s) ==
    /\ work' = IF request[s].accepted THEN work ELSE Stopped(request[s].id)
    /\ operations' = [operations EXCEPT ![request[s].id] = 0]
    /\ request' = [request EXCEPT ![s].phase = "released", ![s].terminal = "cancelled",
                                  ![s].cancelled = TRUE, ![s].at = "routing"]

\* The first poll of the backend's future: spawn_operation registers the id, or refuses.
BackendPoll(s) ==
    work' = [work EXCEPT ![s].at =
               IF accepting /\ InBackend(request[s].id) = {} THEN "loading" ELSE "refused"]

workUnchanged == <<hostVars, routes, registryVars, faulted, admitting, closed, request, call,
                   accepting, closeVars>>

\* The model is there, or the error is sent, and the worker returns.
Loaded(s) ==
    /\ work[s].at = "loading"
    /\ \E place \in {"worker", "failing"} : work' = [work EXCEPT ![s].at = place]
    /\ UNCHANGED workUnchanged

\* The worker sends its final; a cancellation may come too late for it.
WorkerSends(s) ==
    /\ work[s].at = "worker"
    /\ \E class \in Classes :
          /\ class = "cancelled" => work[s].cancelled
          /\ work' = [work EXCEPT ![s].at = "sent", ![s].final = class]
    /\ UNCHANGED workUnchanged

\* BackendOperationLease::drop
WorkerEnds(s) ==
    /\ work[s].at \in {"failing", "sent"}
    /\ work' = [work EXCEPT ![s] =
                  IF request[s].at = "over" THEN NoWork
                  ELSE [@ EXCEPT !.at = IF work[s].at = "sent" THEN "gone" ELSE "refused"]]
    /\ UNCHANGED workUnchanged

-----------------------------------------------------------------------------
(* Admission.                                                              *)

\* reserve and queue, with the registry's mutex taken under the host's
Reserve(id) ==
    /\ phase = "running"
    /\ routes[id] = 0 /\ operations[id] = 0
    /\ next_sequence < MaxSequence
    /\ next_sequence' = next_sequence + 1
    /\ operations' = [operations EXCEPT ![id] = next_sequence]
    /\ routes' = [routes EXCEPT ![id] = next_sequence]
    /\ request' = [request EXCEPT ![next_sequence] =
                     [NoRequest EXCEPT !.id = id, !.phase = "queued", !.at = "queued"]]
    /\ UNCHANGED <<hostVars, faulted, admitting, closed, call, backendVars, closeVars>>

requestUnchanged == <<hostVars, routes, next_sequence, admitting, closed, call, accepting, closeVars>>

\* The registry's terminal and release in one section: fail_setup_and_release,
\* cancel_setup_and_release, finish_attempt_and_release
Released(s, class) ==
    /\ operations' = [operations EXCEPT ![request[s].id] = 0]
    /\ request' = [request EXCEPT ![s].phase = "released", ![s].terminal = class,
                                  ![s].at = "routing"]
    /\ UNCHANGED faulted

\* acquire_backend_lease, start and start_attempt
Acquire(s) ==
    /\ request[s].at = "queued" /\ ~request[s].cancelled /\ ~closed
    /\ Cardinality({r \in Seqs : request[r].permit}) < Slots
    /\ request' = [request EXCEPT ![s].at = "started", ![s].phase = "running",
                                  ![s].permit = TRUE]
    /\ UNCHANGED <<requestUnchanged, operations, faulted, work>>

\* The cancellation is polled first.
QueueCancelled(s) ==
    /\ request[s].at = "queued" /\ request[s].cancelled
    /\ Released(s, "cancelled")
    /\ UNCHANGED <<requestUnchanged, work>>

\* Drop of SetupGuard: the limiter is closed, a deadline passed, the caller is gone.
QueueFails(s) ==
    /\ request[s].at = "queued"
    /\ Released(s, "failed")
    /\ UNCHANGED <<requestUnchanged, work>>

-----------------------------------------------------------------------------
(* Dispatch.                                                               *)

\* The last look before the dispatch.
Started(s) ==
    /\ request[s].at = "started"
    /\ IF request[s].cancelled
         THEN Released(s, "cancelled")
         ELSE /\ request' = [request EXCEPT ![s].at = "dispatching"]
              /\ UNCHANGED <<operations, faulted>>
    /\ UNCHANGED <<requestUnchanged, work>>

\* The select polls the dispatch for the first time.
Dispatch(s) ==
    /\ request[s].at = "dispatching" /\ ~request[s].cancelled
    /\ BackendPoll(s)
    /\ request' = [request EXCEPT ![s].at = "dispatched"]
    /\ UNCHANGED <<requestUnchanged, operations, faulted>>

\* A PendingDispatch is dropped: a task joins the dispatch.  A supervisor that is closed
\* drops the task instead, and Drop of ExecutorOperation ends the request.
Abandon(s, class, told) ==
    LET r == [request[s] EXCEPT !.at = "abandoned", !.task = TRUE, !.ends = class,
                                !.cancelled = TRUE] IN
    IF admitting
      THEN /\ IF told THEN request' = [request EXCEPT ![s] = r] /\ UNCHANGED work
                      ELSE CancelBackend(s, r)
           /\ UNCHANGED <<operations, faulted>>
      ELSE ExecutorDropped(s) /\ faulted' = TRUE

\* Mutant of DispatchStops: the request is settled at once, its dispatch forgotten.
DispatchForgotten(s) ==
    /\ request[s].at \in {"dispatching", "dispatched"}
    /\ request[s].cancelled
    /\ Released(s, "cancelled")
    /\ UNCHANGED <<requestUnchanged, work>>

\* request_stop, which leaves the backend to whoever set the flag, or Drop of the
\* PendingDispatch alone: the cancellation is polled, the deadline of the model load
\* passes, the caller drops the future.
DispatchStops(s) ==
    /\ \/ /\ request[s].at \in {"dispatching", "dispatched"} /\ request[s].cancelled
          /\ Abandon(s, "cancelled", TRUE)
       \/ request[s].at = "dispatched" /\ Abandon(s, "failed", request[s].cancelled)
       \/ request[s].at = "dispatched" /\ Abandon(s, "cancelled", FALSE)
    /\ UNCHANGED requestUnchanged

\* finish_backend: the flag wins over the error's class, which is Cancelled only if the
\* backend was told, here also between the error and this step.
DispatchFails(s) ==
    /\ request[s].at = "dispatched" /\ work[s].at \in {"failing", "refused"}
    /\ \E class \in {"failed", "cancelled"} :
          /\ class = "failed" => ~request[s].cancelled
          /\ class = "cancelled" => request[s].cancelled \/ work[s].cancelled
          /\ Released(s, class)
    /\ UNCHANGED <<requestUnchanged, work>>

\* A ticket: the final relay is spawned.
Ticket(s) ==
    /\ request[s].at = "dispatched" /\ work[s].at \in {"worker", "sent", "gone"}
    /\ ~request[s].cancelled
    /\ IF admitting
         THEN /\ request' = [request EXCEPT ![s].at = "monitor", ![s].task = TRUE]
              /\ UNCHANGED <<operations, faulted, work>>
         ELSE ExecutorDropped(s) /\ UNCHANGED faulted
    /\ UNCHANGED requestUnchanged

\* The abandoned dispatch is awaited; it may never have been polled.
AbandonedPoll(s) ==
    /\ request[s].at = "abandoned" /\ work[s].at = "none"
    /\ BackendPoll(s)
    /\ UNCHANGED <<requestUnchanged, operations, faulted, request>>

AbandonedFails(s) ==
    /\ request[s].at = "abandoned" /\ work[s].at \in {"failing", "refused"}
    /\ Released(s, request[s].ends)
    /\ UNCHANGED <<requestUnchanged, work>>

\* Mutant of AbandonedTicket: the backend is not told once it knows the request.
AbandonedTicketSilent(s) ==
    /\ request[s].at = "abandoned" /\ work[s].at \in {"worker", "sent", "gone"}
    /\ request' = [request EXCEPT ![s].at = "joining"]
    /\ UNCHANGED <<requestUnchanged, operations, faulted, work>>

\* It brought a ticket after all.
AbandonedTicket(s) ==
    /\ request[s].at = "abandoned" /\ work[s].at \in {"worker", "sent", "gone"}
    /\ CancelBackend(s, [request[s] EXCEPT !.at = "joining"])
    /\ UNCHANGED <<requestUnchanged, operations, faulted>>

\* join_transcription_ticket, join_synthesis_ticket
AbandonedJoined(s) ==
    /\ request[s].at = "joining" /\ work[s].final # "none"
    /\ Released(s, request[s].ends)
    /\ UNCHANGED <<requestUnchanged, work>>

-----------------------------------------------------------------------------
(* The final relay.                                                        *)

\* finish_attempt_terminal: the identity is kept
Terminal(s, class) ==
    /\ request' = [request EXCEPT ![s].phase = "terminal", ![s].terminal = class,
                                  ![s].at = "publishing"]
    /\ UNCHANGED <<operations, faulted>>

\* Mutant of MonitorFinal: the backend's class stands.
MonitorFinalAnyway(s) ==
    /\ request[s].at = "monitor" /\ work[s].final # "none"
    /\ Terminal(s, work[s].final)
    /\ UNCHANGED <<requestUnchanged, work>>

\* The backend's final; a flag set since the poll wins.
MonitorFinal(s) ==
    /\ request[s].at = "monitor" /\ work[s].final # "none"
    /\ Terminal(s, IF request[s].cancelled THEN "cancelled" ELSE work[s].final)
    /\ UNCHANGED <<requestUnchanged, work>>

\* The cancellation is polled.
MonitorCancelled(s) ==
    /\ request[s].at = "monitor" /\ request[s].cancelled
    /\ CancelBackend(s, [request[s] EXCEPT !.at = "draining", !.ends = "cancelled"])
    /\ UNCHANGED <<requestUnchanged, operations, faulted>>

\* A deadline passes, or had passed when the final came: the consumer is told first.
MonitorTimeout(s) ==
    /\ request[s].at = "monitor"
    /\ CancelBackend(s, [request[s] EXCEPT !.at = "draining", !.ends = "failed",
                                           !.cancelled = TRUE])
    /\ UNCHANGED <<requestUnchanged, operations, faulted>>

\* The backend's final, at last.
Drained(s) ==
    /\ request[s].at = "draining" /\ work[s].final # "none"
    /\ IF request[s].ends = "cancelled" THEN Terminal(s, "cancelled") ELSE Released(s, "failed")
    /\ UNCHANGED <<requestUnchanged, work>>

\* release_terminal, the registry's part, once the final was published
Release(s) ==
    /\ request[s].at = "publishing"
    /\ operations' = [operations EXCEPT ![request[s].id] = 0]
    /\ request' = [request EXCEPT ![s].phase = "released", ![s].at = "routing"]
    /\ UNCHANGED <<requestUnchanged, faulted, work>>

\* What is left of a request whose executor, permit and ticket are gone.
Over(r) ==
    [NoRequest EXCEPT !.at = "over", !.id = r.id, !.phase = r.phase, !.terminal = r.terminal,
                      !.task = r.task, !.accepted = r.accepted]

\* release_route; the executor and its permit go with it
ReleaseRoute(s) ==
    /\ request[s].at = "routing"
    /\ IF routes[request[s].id] = s
         THEN routes' = [routes EXCEPT ![request[s].id] = 0] /\ UNCHANGED faulted
         ELSE faulted' = TRUE /\ UNCHANGED routes
    /\ request' = [request EXCEPT ![s] = Over(@)]
    /\ work' = [work EXCEPT ![s] = IF @.at \in {"gone", "refused"} THEN NoWork ELSE @]
    /\ UNCHANGED <<hostVars, registryVars, admitting, closed, call, accepting, closeVars>>

\* Mutant of TaskJoined: the reaper ends with the admission of tasks.
TaskJoinedWhileOpen(s) ==
    /\ request[s].at = "over" /\ request[s].task /\ admitting
    /\ request' = [request EXCEPT ![s].task = FALSE]
    /\ UNCHANGED <<requestUnchanged, operations, faulted, work>>

\* The reaper of the task supervisor joins the task.
TaskJoined(s) ==
    /\ request[s].at = "over" /\ request[s].task
    /\ request' = [request EXCEPT ![s].task = FALSE]
    /\ UNCHANGED <<requestUnchanged, operations, faulted, work>>

-----------------------------------------------------------------------------
(* Cancellation.  Calls that captured the same request cannot be told      *)
(* apart: the first of them to set the flag goes on, the others return.    *)

callUnchanged == <<hostVars, routes, registryVars, faulted, admitting, closed, accepting>>

\* cancel reads the route; a ticket that is dropped asks for its own identity
Capture(id) ==
    /\ routes[id] # 0
    /\ call[routes[id]] = "none"
    /\ call' = [call EXCEPT ![routes[id]] = "captured"]
    /\ UNCHANGED <<callUnchanged, request, work, closeVars>>

\* cancel_captured: request_cancel_once of the identity that was captured, and notify
Request(s) ==
    /\ call[s] = "captured"
    /\ IF operations[request[s].id] = s /\ ~request[s].cancelled
         THEN /\ request' = [request EXCEPT ![s].cancelled = TRUE]
              /\ call' = [call EXCEPT ![s] = "requested"]
         ELSE call' = [call EXCEPT ![s] = "none"] /\ UNCHANGED request
    /\ UNCHANGED <<callUnchanged, work, closeVars>>

\* The snapshot: only a running operation is cancelled in the backend.
Snapshot(s) ==
    /\ call[s] = "requested"
    /\ call' = [call EXCEPT ![s] = IF request[s].phase = "running" THEN "backend" ELSE "none"]
    /\ UNCHANGED <<callUnchanged, request, work, closeVars>>

CallBackend(s) ==
    /\ call[s] = "backend"
    /\ CancelBackend(s, request[s])
    /\ call' = [call EXCEPT ![s] = "none"]
    /\ UNCHANGED <<callUnchanged, closeVars>>

-----------------------------------------------------------------------------
(* Quiesce and shutdown.                                                   *)

\* quiesce, or shutdown of the first caller: the ids to cancel are collected.
Begin(z, closes) ==
    /\ caller[z].at = "idle"
    /\ IF closes THEN ~shutdown_started ELSE phase = "running"
    /\ phase' = "quiescing"
    /\ shutdown_started' = (shutdown_started \/ closes)
    /\ caller' = [caller EXCEPT ![z] = [at |-> "sweeping", sweep |-> Routed, closes |-> closes]]
    /\ UNCHANGED <<shutdown_result, routes, registryVars, faulted, admitting, closed, request, call,
                   backendVars, coordinator>>

\* A later caller of shutdown waits; a later quiesce returns at once.
Follow(z) ==
    /\ caller[z].at = "idle" /\ shutdown_started
    /\ caller' = [caller EXCEPT ![z].at = "waiting", ![z].closes = TRUE]
    /\ UNCHANGED <<hostVars, routes, registryVars, faulted, admitting, closed, request, call,
                   backendVars, coordinator>>

\* The cancel of an id in a sweep begins.  The sweeper does not wait for its return
\* here, which only lets the steps after it come earlier.
Swept(id) ==
    IF routes[id] # 0 /\ call[routes[id]] = "none"
      THEN call' = [call EXCEPT ![routes[id]] = "captured"] ELSE UNCHANGED call

Sweep(z) ==
    /\ \E id \in caller[z].sweep : Swept(id) /\ caller' = [caller EXCEPT ![z].sweep = @ \ {id}]
    /\ UNCHANGED <<callUnchanged, request, work, coordinator>>

\* The limiters are closed, and shutdown spawns its coordinator with the ids once more;
\* those whose route is gone find nothing, and none is reserved meanwhile.
Close(z) ==
    /\ caller[z].at = "sweeping" /\ caller[z].sweep = {}
    /\ closed' = TRUE
    /\ IF caller[z].closes
         THEN /\ caller' = [caller EXCEPT ![z].at = "waiting"]
              /\ coordinator' = [coordinator EXCEPT !.at = "cancelling", !.sweep = Routed]
         ELSE caller' = [caller EXCEPT ![z].at = "done"] /\ UNCHANGED coordinator
    /\ UNCHANGED <<hostVars, routes, registryVars, faulted, admitting, request, call, backendVars>>

\* run_shutdown: cancel once more
CoordinatorSweep ==
    /\ \E id \in coordinator.sweep :
          Swept(id) /\ coordinator' = [coordinator EXCEPT !.sweep = @ \ {id}]
    /\ UNCHANGED <<callUnchanged, request, work, caller>>

\* The backend closes, and cancels what it has.
BackendShutdown ==
    /\ coordinator.at = "cancelling" /\ coordinator.sweep = {}
    /\ accepting' = FALSE
    /\ work' = [s \in Seqs |-> IF request[s].id \in Ids /\ s \in InBackend(request[s].id)
                                 THEN [work[s] EXCEPT !.cancelled = TRUE] ELSE work[s]]
    /\ coordinator' = [coordinator EXCEPT !.at = "joining"]
    /\ UNCHANGED <<hostVars, routes, registryVars, faulted, admitting, closed, request, call, caller>>

\* Its workers have ended; a failure of its own does not stop the coordinator.
BackendJoined ==
    /\ coordinator.at = "joining"
    /\ \A id \in Ids : InBackend(id) = {}
    /\ \E failed \in BOOLEAN :
          coordinator' = [coordinator EXCEPT !.at = "draining", !.failed = failed]
    /\ UNCHANGED <<hostVars, routes, registryVars, faulted, admitting, closed, request, call,
                   backendVars, caller>>

\* wait_for_active_empty, which a fault ends, and begin_shutdown of the task supervisor
ActiveEmpty ==
    /\ coordinator.at = "draining"
    /\ faulted \/ Active = {}
    /\ admitting' = FALSE
    /\ coordinator' = [coordinator EXCEPT !.at = "idling", !.failed = @ \/ faulted]
    /\ UNCHANGED <<hostVars, routes, registryVars, faulted, closed, request, call, backendVars,
                   caller>>

\* wait_for_idle of the task supervisor, and publish_shutdown
Publish ==
    /\ coordinator.at = "idling"
    /\ \A s \in Seqs : ~request[s].task
    /\ phase' = "closed"
    /\ shutdown_result' = IF coordinator.failed \/ faulted THEN "error" ELSE "ok"
    /\ coordinator' = [coordinator EXCEPT !.at = "done"]
    /\ UNCHANGED <<shutdown_started, routes, registryVars, faulted, admitting, closed, request, call,
                   backendVars, caller>>

\* wait_for_shutdown: the result, or the fault
Answered(z) ==
    /\ caller[z].at = "waiting"
    /\ phase = "closed" \/ faulted
    /\ caller' = [caller EXCEPT ![z].at = "done"]
    /\ UNCHANGED <<hostVars, routes, registryVars, faulted, admitting, closed, request, call,
                   backendVars, coordinator>>

-----------------------------------------------------------------------------

\* What a request does once it is told, or when nobody has to tell it.
Moves(s) ==
    \/ QueueCancelled(s) \/ Started(s) \/ Dispatch(s) \/ DispatchFails(s)
    \/ Ticket(s) \/ AbandonedPoll(s) \/ AbandonedFails(s) \/ AbandonedTicket(s)
    \/ AbandonedJoined(s) \/ MonitorFinal(s) \/ MonitorCancelled(s) \/ Drained(s)
    \/ Release(s) \/ ReleaseRoute(s) \/ TaskJoined(s)

CallMoves(s) == Request(s) \/ Snapshot(s) \/ CallBackend(s)

CloserMoves(z) == Sweep(z) \/ Close(z) \/ Answered(z)

CoordinatorMoves ==
    CoordinatorSweep \/ BackendShutdown \/ BackendJoined \/ ActiveEmpty \/ Publish

Next ==
    \/ \E id \in Ids : Reserve(id) \/ Capture(id)
    \/ \E s \in Seqs : \/ Moves(s) \/ Acquire(s) \/ QueueFails(s) \/ DispatchStops(s)
                       \/ MonitorTimeout(s) \/ CallMoves(s)
                       \/ Loaded(s) \/ WorkerSends(s) \/ WorkerEnds(s)
    \/ \E z \in Callers : (\E closes \in BOOLEAN : Begin(z, closes)) \/ Follow(z) \/ CloserMoves(z)
    \/ CoordinatorMoves

Spec == Init /\ [][Next]_vars

(***************************************************************************)
(* Tasks of the runtime run, and a call of cancel returns.  A backend ends *)
(* its load, and what it was told to cancel; other work may take forever.  *)
(* Each of these is one thread of control, and has one step at a time.     *)
(***************************************************************************)
Fairness ==
    /\ \A s \in Seqs :
          /\ WF_vars(Moves(s) \/ (request[s].cancelled /\ DispatchStops(s)))
          /\ WF_vars(CallMoves(s))
          /\ WF_vars(Loaded(s) \/ (work[s].cancelled /\ WorkerSends(s)) \/ WorkerEnds(s))
    /\ \A z \in Callers : WF_vars(CloserMoves(z))
    /\ WF_vars(CoordinatorMoves)

FairSpec == Spec /\ Fairness

-----------------------------------------------------------------------------
(* Correctness.                                                            *)

Outcome(s) ==
    IF request[s].phase = "none" THEN "unborn"
    ELSE IF request[s].terminal # "none" THEN request[s].terminal
    ELSE IF request[s].cancelled THEN "cancelling" ELSE "open"

(***************************************************************************)
(* The registry of the host keeps the operation contract of ADR-003, and a *)
(* cancellation that came first excludes Completed, whichever of the       *)
(* host's paths settles the request.                                       *)
(***************************************************************************)
Contract == INSTANCE OperationContract
    WITH CancelWins <- TRUE, active <- operations, outcome <- [s \in Seqs |-> Outcome(s)]
ImplementsContract == Contract!Spec

(***************************************************************************)
(* The two maps agree although no mutex guards both: an active identity    *)
(* has its route, a route without one is about to be released, and no      *)
(* release finds the route of another generation, which would fault the    *)
(* host for good.                                                          *)
(***************************************************************************)
RoutesMatch ==
    /\ ~faulted
    /\ \A id \in Ids :
         /\ operations[id] # 0 => routes[id] = operations[id]
         /\ routes[id] # 0 /\ operations[id] = 0 => request[routes[id]].at = "routing"

(***************************************************************************)
(* Whatever ended the wait for it, a deadline, a cancellation or a caller  *)
(* that went away, work of the backend keeps the identity and the permit   *)
(* of its request: an abandoned dispatch is joined before both go.         *)
(***************************************************************************)
WorkOwned ==
    \A s \in Seqs : work[s].at \in {"loading", "worker"} =>
      operations[request[s].id] = s /\ request[s].permit

(***************************************************************************)
(* A shutdown is published when no request is active, its tasks are joined *)
(* and the backend has nothing left; and none of it comes back.            *)
(***************************************************************************)
ClosedSound ==
    phase = "closed" =>
      Active = {} /\ \A s \in Seqs : ~request[s].task /\ work[s].at \notin LeasedPlaces

(***************************************************************************)
(* A cancellation is never lost, also when it comes while the request is   *)
(* dispatched and the backend does not know it yet: the request ends,      *)
(* though its backend would never have.  The backend is told by id, once,  *)
(* and while an earlier request of the id is on its way out there, the     *)
(* answer may be that one's: such a cancellation is not promised this.     *)
(***************************************************************************)
StopEnds ==
    \A s \in Seqs :
      (/\ request[s].cancelled
       /\ InBackend(request[s].id) \subseteq {s}
       /\ request[s].accepted => work[s].cancelled) ~> (request[s].at = "over")

\* Every caller of shutdown gets an answer.
ShutdownReturns == \A z \in Callers : (caller[z].at # "idle") ~> (caller[z].at = "done")

(***************************************************************************)
(* What holds between any two steps of the host: its maps agree, work of   *)
(* the backend is owned, and a published shutdown is the end of all of it. *)
(***************************************************************************)
HostInv == TypeOK /\ RoutesMatch /\ WorkOwned /\ ClosedSound
=============================================================================
