-------------------------- MODULE GatewayLifecycle --------------------------
(***************************************************************************)
(* The life of a gateway request, from its reservation to the release of   *)
(* its identity: the gateway's lifecycle control and operation registry    *)
(* (products/fte/crates/fte-router/src/lib.rs and operation_lifecycle.rs), *)
(* the executor of a ticket (fte-types/src/lib.rs), and what the hosted    *)
(* and the native backend keep of a request (fte-providers/src/hosted.rs,  *)
(* fte-backend-llama/src/lib.rs).                                          *)
(*                                                                         *)
(* A request is known by its sequence.  "at" is where its future, and      *)
(* later the executor of its ticket, stands; a step goes from one          *)
(* suspension point, or one place where another thread can come between,   *)
(* to the next.  A tokio select is biased towards its tokens, and looks at *)
(* them once per poll.  Between two suspension points that is a guard: a   *)
(* token set after the look is as good as one set after the step, as the   *)
(* sweep that follows it finds the same operations.  The poll in which the *)
(* backend registers the request is different, and has two steps of its    *)
(* own, "dispatch" and "polled": a token that is set and swept after the   *)
(* look and before the registration finds nothing to cancel, and only a    *)
(* further poll would see it.  A Notified is created before the condition  *)
(* it is about is read, and therefore no waiter misses a change: waits are *)
(* guards here.                                                            *)
(***************************************************************************)
EXTENDS Integers, FiniteSets

CONSTANTS
    Ids,            \* request ids
    Kinds,          \* what is asked for: "execute", "exact" (with an exact count of the
                    \* input in front) or "count"
    Hosted,         \* ids of backends that reach a provider over HTTP
    Native,         \* ids of backends that run llama in blocking tasks
    Slots,          \* permits of a backend's admission semaphore
    MaxAdmissions,  \* semaphores a backend gets at most
    MaxSequence,    \* stands for u64::MAX, the sequence without successor
    MaxAdmitted,    \* MAX_ADMITTED_REQUESTS
    Closers,        \* callers of shutdown
    MayPoison       \* whether a panic may poison the registry mutex

ASSUME KindsAssumption == Kinds \subseteq {"execute", "exact", "count"}

ASSUME BoundsAssumption ==
    /\ Slots \in Nat \ {0} /\ MaxAdmissions \in Nat \ {0}
    /\ MaxSequence \in Nat \ {0} /\ MaxAdmitted \in Nat

ASSUME BackendsAssumption == Hosted \cap Native = {} /\ "none" \notin Hosted \cup Native

Backends == Hosted \cup Native

Seqs == 1 .. (MaxSequence - 1)

VARIABLES
    phase, shutdown_error, report,         \* LifecycleState
    poisoned, next_sequence, operations,   \* OperationRegistry
    backends, admission,                   \* GatewayState: what is registered, its semaphore
    closed,                                \* whether the semaphores were closed
    request,                               \* sequence -> OperationRecord, future, ticket
    accepting,                             \* the backends that take new work
    task,                                  \* backend -> sequence -> its active operation
    client,                                \* the id a cancel call is on its way with
    closer,                                \* callers of shutdown
    sweep,                                 \* ids the leader of the shutdown has to cancel
    coordinator                            \* [expected, joined] of the detached coordinator

lifecycleVars == <<phase, shutdown_error, report>>
registryVars == <<poisoned, next_sequence, operations>>
gatewayVars == <<backends, admission, closed>>
closeVars == <<closer, sweep, coordinator>>
vars == <<lifecycleVars, registryVars, gatewayVars, request, accepting, task, client, closeVars>>

Classes == {"completed", "cancelled", "failed"}

NoRequest == [id |-> "none", kind |-> "none", phase |-> "none", token |-> FALSE,
              terminal |-> "none", stop |-> FALSE, at |-> "none", backend |-> "none",
              slot |-> 0, candidates |-> [b \in Backends |-> 0], gone |-> FALSE,
              final |-> "none"]

NoTask == [at |-> "none", cancelled |-> FALSE]

NoReport == [result |-> "none"]

NoCoordinator == [at |-> "none", expected |-> {}, joined |-> {}]

\* The places of the future returned by execute or count_tokens.
CallPlaces ==
    {"setup", "choose", "waiting", "holding", "dispatch", "polled", "executing", "stopping"}

\* The places of the task that with_deadlines_and_hooks spawns.
ExecutorPlaces == {"ticket", "await", "late", "publishing"}

TypeOK ==
    /\ phase \in {"running", "quiescing", "closed"}
    /\ shutdown_error \in BOOLEAN
    /\ report \in {NoReport} \cup
          [result : {"ok", "error"}, expected : SUBSET Backends, joined : SUBSET Backends]
    /\ poisoned \in BOOLEAN
    /\ next_sequence \in 1 .. MaxSequence
    /\ operations \in [Ids -> Seqs \cup {0}]
    /\ backends \subseteq Backends /\ accepting \subseteq Backends
    /\ admission \in [Backends -> 1 .. MaxAdmissions]
    /\ closed \in BOOLEAN
    /\ request \in [Seqs ->
          [id : Ids \cup {"none"}, kind : Kinds \cup {"none", "exact", "counted"},
           phase : {"none", "queued", "running", "terminal", "released"},
           token : BOOLEAN, terminal : Classes \cup {"none"}, stop : BOOLEAN,
           at : CallPlaces \cup ExecutorPlaces \cup {"none", "over"},
           backend : Backends \cup {"none"}, slot : 0 .. MaxAdmissions,
           candidates : [Backends -> 0 .. MaxAdmissions], gone : BOOLEAN, final : Classes \cup {"none"}]]
    /\ task \in [Backends -> [Seqs ->
          [at : {"none", "setup", "left", "worker", "sent"}, cancelled : BOOLEAN]]]
    /\ client \in Ids \cup {"none"}
    /\ closer \in [Closers -> {"idle", "lead", "wait", "done"}]
    /\ sweep \subseteq Ids
    /\ coordinator \in
          [at : {"none", "joining", "done"}, expected : SUBSET Backends, joined : SUBSET Backends]

Init ==
    /\ phase = "running" /\ shutdown_error = FALSE /\ report = NoReport
    /\ poisoned = FALSE /\ next_sequence = 1 /\ operations = [id \in Ids |-> 0]
    /\ backends = {} /\ admission = [b \in Backends |-> 1] /\ closed = FALSE
    /\ request = [s \in Seqs |-> NoRequest]
    /\ accepting = Backends
    /\ task = [b \in Backends |-> [s \in Seqs |-> NoTask]]
    /\ client = "none"
    /\ closer = [z \in Closers |-> "idle"] /\ sweep = {} /\ coordinator = NoCoordinator

Active == {operations[id] : id \in Ids} \ {0}

-----------------------------------------------------------------------------
(* The gateway's own state.                                                *)

\* register_backend, under the lifecycle mutex
RegisterBackend(b) ==
    /\ phase = "running"
    /\ b \notin backends
    /\ backends' = backends \cup {b}
    /\ UNCHANGED <<lifecycleVars, registryVars, admission, closed, request, accepting, task,
                   client, closeVars>>

\* set_backend_concurrency: tickets and waiters keep the semaphore they have.
SetBackendConcurrency(b) ==
    /\ phase = "running"
    /\ b \in backends
    /\ admission[b] < MaxAdmissions
    /\ admission' = [admission EXCEPT ![b] = @ + 1]
    /\ UNCHANGED <<lifecycleVars, registryVars, backends, closed, request, accepting, task,
                   client, closeVars>>

\* A thread panics while it holds the registry mutex.
Poison ==
    /\ MayPoison
    /\ poisoned' = TRUE
    /\ UNCHANGED <<lifecycleVars, next_sequence, operations, gatewayVars, request, accepting,
                   task, client, closeVars>>

-----------------------------------------------------------------------------
(* Admission.                                                              *)

\* Mutant of Reserve: the entry of the same id is replaced.
ReserveOver(id, kind) ==
    /\ phase = "running" /\ ~poisoned
    /\ Cardinality(Active) < MaxAdmitted
    /\ next_sequence < MaxSequence
    /\ next_sequence' = next_sequence + 1
    /\ operations' = [operations EXCEPT ![id] = next_sequence]
    /\ request' = [request EXCEPT ![next_sequence] =
                     [NoRequest EXCEPT !.id = id, !.kind = kind, !.phase = "queued",
                                       !.at = "setup"]]
    /\ UNCHANGED <<lifecycleVars, poisoned, gatewayVars, accepting, task, client, closeVars>>

\* reserve_request: register_request reserves and queues under the lifecycle mutex.
Reserve(id, kind) ==
    /\ phase = "running" /\ ~poisoned
    /\ Cardinality(Active) < MaxAdmitted
    /\ operations[id] = 0
    /\ next_sequence < MaxSequence
    /\ next_sequence' = next_sequence + 1
    /\ operations' = [operations EXCEPT ![id] = next_sequence]
    /\ request' = [request EXCEPT ![next_sequence] =
                     [NoRequest EXCEPT !.id = id, !.kind = kind, !.phase = "queued",
                                       !.at = "setup"]]
    /\ UNCHANGED <<lifecycleVars, poisoned, gatewayVars, accepting, task, client, closeVars>>

\* The future or the executor has returned and its lease is gone: only the record is left.
Over(r) ==
    [NoRequest EXCEPT !.at = "over", !.id = r.id, !.phase = r.phase, !.token = r.token,
                      !.terminal = r.terminal]

\* release_request of a future that returns: terminal_and_release, or the error recorded.
Finished(s, class) ==
    IF poisoned
      THEN /\ shutdown_error' = TRUE
           /\ request' = [request EXCEPT ![s] = Over(@)]
           /\ UNCHANGED operations
      ELSE /\ operations' = [operations EXCEPT ![request[s].id] = 0]
           /\ request' = [request EXCEPT ![s] = [Over(@) EXCEPT !.phase = "released",
                                                               !.terminal = class]]
           /\ UNCHANGED shutdown_error

\* retryable_setup_failure: the permit goes, the next candidate is tried.
Retry(s) ==
    /\ request[s].kind # "count"
    /\ request' = [request EXCEPT ![s] =
                     [@ EXCEPT !.at = "choose", !.backend = "none", !.slot = 0,
                               !.kind = IF request[s].kind = "counted" THEN "exact"
                                        ELSE request[s].kind]]
    /\ UNCHANGED <<operations, shutdown_error>>

\* A setup error that is not a cancellation.
SetupError(s) == Retry(s) \/ Finished(s, "failed")

callUnchanged == <<phase, report, poisoned, next_sequence, gatewayVars, accepting, client,
                   closeVars>>

\* The class of a request that found itself cancelled before its dispatch:
\* count_tokens leaves it to the drop of the lease.
CancelledClass(s) == IF request[s].kind = "count" THEN "failed" ELSE "cancelled"

\* restore_response_affinity and resolve_candidates: some backends with their semaphores.
\* The code yields one candidate per model; here each backend is tried once, so a retry
\* that comes back to the same backend with another of its models is left out.
Resolve(s) ==
    /\ request[s].at = "setup"
    /\ \E C \in SUBSET backends :
          /\ C # {} /\ (request[s].kind = "count" => Cardinality(C) = 1)
          /\ request' = [request EXCEPT ![s] =
                           [@ EXCEPT !.at = "choose",
                                     !.candidates = [b \in Backends |->
                                                       IF b \in C THEN admission[b] ELSE 0]]]
    /\ UNCHANGED <<operations, shutdown_error, callUnchanged, task>>

\* Nothing was resolved, admit refuses a gateway that closes or a total deadline that is
\* over, or no candidate is left; in front of all that, Stop.
SetupRefused(s) ==
    /\ request[s].at \in {"setup", "choose"}
    /\ \/ request[s].at = "choose" /\ request[s].stop /\ Finished(s, "cancelled")
       \/ Finished(s, "failed")
    /\ UNCHANGED <<callUnchanged, task>>

\* admit, up to the semaphore
AdmitBegin(s, b) ==
    /\ request[s].at = "choose"
    /\ ~request[s].stop /\ ~poisoned /\ phase = "running"
    /\ request[s].candidates[b] # 0
    /\ request' = [request EXCEPT ![s] =
                     [@ EXCEPT !.at = "waiting", !.backend = b, !.slot = request[s].candidates[b],
                               !.candidates[b] = 0]]
    /\ UNCHANGED <<operations, shutdown_error, callUnchanged, task>>

\* Who holds a permit of semaphore n of backend b: its lease was not dropped.
Holders(b, n) ==
    {s \in Seqs : /\ request[s].backend = b /\ request[s].slot = n
                  /\ request[s].at \in ExecutorPlaces \cup
                                       {"holding", "dispatch", "polled", "executing", "stopping"}}

\* The rest of admit: a permit, and start for the first one
Acquire(s) ==
    /\ request[s].at = "waiting"
    /\ ~request[s].token /\ ~request[s].stop /\ ~closed
    /\ poisoned => request[s].phase = "running"
    /\ Cardinality(Holders(request[s].backend, request[s].slot)) < Slots
    /\ request' = [request EXCEPT ![s] = [@ EXCEPT !.at = "holding", !.phase = "running"]]
    /\ UNCHANGED <<operations, shutdown_error, callUnchanged, task>>

\* The biased branches of the wait for a permit.
WaitCancelled(s) ==
    /\ request[s].at = "waiting"
    /\ request[s].token \/ request[s].stop
    /\ Finished(s, CancelledClass(s))
    /\ UNCHANGED <<callUnchanged, task>>

\* The queue deadline, a closed semaphore, a start that fails.
WaitFails(s) ==
    /\ request[s].at = "waiting"
    /\ SetupError(s)
    /\ UNCHANGED <<callUnchanged, task>>

-----------------------------------------------------------------------------
(* The setup of a backend operation.                                       *)

SameId(s) == {r \in Seqs : request[r].id = request[s].id}

\* Backend b cancels what it has under the ids of the requests S.
CancelIn(t, b, S) ==
    [t EXCEPT ![b] = [r \in Seqs |-> IF r \in S /\ t[b][r].at # "none"
                                       THEN [t[b][r] EXCEPT !.cancelled = TRUE] ELSE t[b][r]]]

\* What is left of the operation when its future is dropped: a native one keeps
\* its blocking task, if one is under way.
Dropped(b) == IF b \in Native THEN {"none", "left"} ELSE {"none"}

\* The task of s in b goes to a place.
Moved(b, s, place) ==
    [task EXCEPT ![b][s] = IF place = "none" THEN NoTask ELSE [@ EXCEPT !.at = place]]

\* The biased select around setup: the token first, then the future.
Dispatch(s) ==
    /\ request[s].at = "holding"
    /\ ~request[s].stop /\ ~request[s].token
    /\ request' = [request EXCEPT ![s].at = "dispatch"]
    /\ UNCHANGED <<operations, shutdown_error, callUnchanged, task>>

HoldingCancelled(s) ==
    /\ request[s].at = "holding"
    /\ request[s].token
    /\ task' = CancelIn(task, request[s].backend, SameId(s))
    /\ Finished(s, "cancelled")
    /\ UNCHANGED callUnchanged

\* The backend is no longer accepting, or a hosted one still knows the id.
Refuses(b, s) ==
    \/ b \notin accepting
    \/ b \in Hosted /\ \E r \in SameId(s) : task[b][r].at # "none"

\* Mutant of Register: Stop is serviced before the backend knows the request.
RegisterAfterStop(s) ==
    LET b == request[s].backend IN
    /\ request[s].at = "dispatch"
    /\ ~Refuses(b, s)
    /\ task' = [task EXCEPT ![b][s] = [at |-> "setup", cancelled |-> FALSE]]
    /\ request' = [request EXCEPT ![s].at = IF request[s].stop THEN "stopping" ELSE "polled"]
    /\ UNCHANGED <<operations, shutdown_error, callUnchanged>>

\* The first poll of the backend's future, up to the registration: register,
\* admit_request_configuration
Register(s) ==
    LET b == request[s].backend IN
    /\ request[s].at = "dispatch"
    /\ ~Refuses(b, s)
    /\ task' = [task EXCEPT ![b][s] = [at |-> "setup", cancelled |-> FALSE]]
    /\ request' = [request EXCEPT ![s].at = "polled"]
    /\ UNCHANGED <<operations, shutdown_error, callUnchanged>>

\* The rest of that poll, when the future is pending: from now on each poll looks first.
Suspend(s) ==
    /\ request[s].at = "polled"
    /\ request' = [request EXCEPT ![s].at = "executing"]
    /\ UNCHANGED <<operations, shutdown_error, callUnchanged, task>>

\* The backend's future may return: in the poll that registered the request, where
\* nobody looks, or in a later one that did not find the token set.
Ready(s) ==
    \/ request[s].at = "polled"
    \/ request[s].at \in {"executing", "stopping"} /\ ~request[s].token

\* The quota or the startup deadline refuses, the first poll ends without a
\* registration, or Stop is seen on the way.
DispatchFails(s) ==
    /\ request[s].at \in {"holding", "dispatch"}
    /\ \/ request[s].stop /\ Finished(s, "cancelled")
       \/ SetupError(s)
    /\ UNCHANGED <<callUnchanged, task>>

\* Stop, once the future was polled; the answer of the backend is awaited.
StopInSetup(s) ==
    /\ request[s].at = "executing"
    /\ request[s].stop
    /\ task' = CancelIn(task, request[s].backend, SameId(s))
    /\ request' = [request EXCEPT ![s].at = "stopping"]
    /\ UNCHANGED <<operations, shutdown_error, callUnchanged>>

\* The token: the future is dropped, and then the backend cancels the id.
TokenInSetup(s) ==
    LET b == request[s].backend IN
    /\ request[s].at \in {"executing", "stopping"}
    /\ request[s].token
    /\ \E place \in Dropped(b) : task' = CancelIn(Moved(b, s, place), b, SameId(s))
    /\ Finished(s, "cancelled")
    /\ UNCHANGED callUnchanged

\* The startup deadline drops the future; nobody cancels in the backend.
StartupTimeout(s) ==
    LET b == request[s].backend IN
    /\ request[s].at \in {"executing", "stopping"}
    /\ \E place \in Dropped(b) : task' = Moved(b, s, place)
    /\ SetupError(s)
    /\ UNCHANGED callUnchanged

\* The caller drops the future: Drop of the lease.
CallerGone(s) ==
    LET b == request[s].backend IN
    /\ \/ request[s].at = "waiting" /\ UNCHANGED task
       \/ /\ request[s].at \in {"executing", "stopping"}
          /\ \E place \in Dropped(b) : task' = Moved(b, s, place)
    /\ Finished(s, "failed")
    /\ UNCHANGED callUnchanged

\* The backend's future returns an error.
TaskFails(s) ==
    LET b == request[s].backend IN
    /\ Ready(s)
    /\ task' = Moved(b, s, "none")
    /\ \/ task[b][s].cancelled /\ Finished(s, "cancelled")
       \/ SetupError(s)
    /\ UNCHANGED callUnchanged

\* An exact count came back; execute is next, in the same poll, unless Stop was served.
Preflight(s) ==
    /\ Ready(s) /\ request[s].kind = "exact"
    /\ task' = Moved(request[s].backend, s, "none")
    /\ IF request[s].at = "stopping"
         THEN Finished(s, "cancelled")
         ELSE /\ request' = [request EXCEPT ![s] =
                               [@ EXCEPT !.at = "dispatch", !.kind = "counted"]]
              /\ UNCHANGED <<operations, shutdown_error>>
    /\ UNCHANGED callUnchanged

\* count_tokens returns
Counted(s) ==
    /\ Ready(s) /\ request[s].kind = "count"
    /\ task' = Moved(request[s].backend, s, "none")
    /\ Finished(s, "completed")
    /\ UNCHANGED callUnchanged

\* The backend starts its worker, and the gateway the executor of the ticket.
\* ensure_continuing and begin_native: the native one looks once more.
Ticket(s) ==
    LET b == request[s].backend IN
    /\ Ready(s) /\ request[s].kind \in {"execute", "counted"}
    /\ b \in Native => ~task[b][s].cancelled /\ b \in accepting
    /\ task' = Moved(b, s, "worker")
    /\ request' = [request EXCEPT ![s].at = "ticket"]
    /\ UNCHANGED <<operations, shutdown_error, callUnchanged>>

-----------------------------------------------------------------------------
(* The backend's worker and the executor of the ticket.                    *)

\* A native task whose future is gone ends.
LeftEnds(b, s) ==
    /\ task[b][s].at = "left"
    /\ task' = Moved(b, s, "none")
    /\ UNCHANGED <<lifecycleVars, registryVars, gatewayVars, request, accepting, client, closeVars>>

\* The worker sends its final result; a cancellation may come too late for it.
WorkerSends(b, s) ==
    /\ task[b][s].at = "worker"
    /\ \E class \in Classes :
          /\ class = "cancelled" => task[b][s].cancelled
          /\ request' = [request EXCEPT ![s].final = class]
    /\ task' = Moved(b, s, "sent")
    /\ UNCHANGED <<lifecycleVars, registryVars, gatewayVars, accepting, client, closeVars>>

\* Drop of its HostedOperation or OperationLease
WorkerEnds(b, s) ==
    /\ task[b][s].at = "sent"
    /\ task' = Moved(b, s, "none")
    /\ UNCHANGED <<lifecycleVars, registryVars, gatewayVars, request, accepting, client, closeVars>>

\* The ticket's cancellation handle: it reaches this operation of the backend only.
HandleCancel(s) == CancelIn(task, request[s].backend, {s})

\* finish or terminal of the lease, or the error recorded
Terminal(s, class, place) ==
    IF poisoned
      THEN shutdown_error' = TRUE /\ request' = [request EXCEPT ![s].at = place]
      ELSE /\ request' = [request EXCEPT ![s] =
                            [@ EXCEPT !.at = place, !.phase = "terminal", !.terminal = class]]
           /\ UNCHANGED shutdown_error

executorUnchanged == <<phase, report, registryVars, gatewayVars, accepting, client, closeVars>>

\* The loop sees Stop.
ExecutorStop(s) ==
    /\ request[s].at = "ticket" /\ request[s].stop
    /\ task' = HandleCancel(s)
    /\ UNCHANGED <<shutdown_error, request, executorUnchanged>>

\* An event finds the consumer gone: only the final result is awaited from here on.
ExecutorAlone(s) ==
    /\ request[s].at = "ticket" /\ request[s].gone
    /\ request' = [request EXCEPT ![s].at = "await"]
    /\ UNCHANGED <<shutdown_error, task, executorUnchanged>>

\* The authoritative result; a response that cannot be stored is a failure.
ExecutorFinal(s) ==
    /\ request[s].at \in {"ticket", "await"} /\ request[s].final # "none"
    /\ \E class \in {request[s].final, "failed"} : Terminal(s, class, "publishing")
    /\ UNCHANGED <<task, executorUnchanged>>

\* The first-output, idle or total deadline
ExecutorDeadline(s) ==
    /\ request[s].at = "ticket"
    /\ task' = HandleCancel(s)
    /\ Terminal(s, "failed", "late")
    /\ UNCHANGED executorUnchanged

\* Mutant of ExecutorRelease: a timed-out ticket releases at once.
ExecutorReleaseEarly(s) ==
    /\ request[s].at \in {"publishing", "late"}
    /\ operations' = [operations EXCEPT ![request[s].id] = 0]
    /\ request' = [request EXCEPT ![s] = [Over(@) EXCEPT !.phase = "released"]]
    /\ UNCHANGED <<lifecycleVars, poisoned, next_sequence, gatewayVars, accepting, task, client,
                   closeVars>>

\* After the final was published, and the late result awaited; the lease goes with it.
ExecutorRelease(s) ==
    /\ \/ request[s].at = "publishing"
       \/ request[s].at = "late" /\ request[s].final # "none"
    /\ IF poisoned
         THEN /\ shutdown_error' = TRUE /\ request' = [request EXCEPT ![s] = Over(@)]
              /\ UNCHANGED operations
         ELSE /\ operations' = [operations EXCEPT ![request[s].id] = 0]
              /\ request' = [request EXCEPT ![s] = [Over(@) EXCEPT !.phase = "released"]]
              /\ UNCHANGED shutdown_error
    /\ UNCHANGED <<phase, report, poisoned, next_sequence, gatewayVars, accepting, task, client,
                   closeVars>>

\* Drop of the ticket: cancel unless the terminal was published, then the receivers go.
DropTicket(s) ==
    /\ request[s].at \in ExecutorPlaces /\ ~request[s].gone
    /\ request' = [request EXCEPT ![s].gone = TRUE]
    /\ task' = IF request[s].at = "ticket" THEN HandleCancel(s) ELSE task
    /\ UNCHANGED <<shutdown_error, executorUnchanged>>

-----------------------------------------------------------------------------
(* Cancellation by others.                                                 *)

\* RequestCancellation::cancel, for a request whose caller kept the signal
Stop(s) ==
    /\ request[s].kind \notin {"none", "count"} /\ request[s].at # "over"
    /\ request' = [request EXCEPT ![s].stop = TRUE]
    /\ UNCHANGED <<lifecycleVars, registryVars, gatewayVars, accepting, task, client, closeVars>>

\* cancel, up to the backends: the token of the current lease
CancelToken(id) ==
    /\ client = "none"
    /\ client' = id
    /\ request' = IF poisoned \/ operations[id] = 0 THEN request
                  ELSE [request EXCEPT ![operations[id]].token = TRUE]
    /\ UNCHANGED <<lifecycleVars, registryVars, gatewayVars, accepting, task, closeVars>>

\* Every backend in B cancels what it has under the ids.
SweptBackends(B, ids) ==
    [b \in Backends |-> IF b \in B
       THEN CancelIn(task, b, {s \in Seqs : request[s].id \in ids})[b] ELSE task[b]]

\* The rest of cancel: whatever the backends have under that id by now
CancelBackends ==
    /\ client # "none"
    /\ client' = "none"
    /\ task' = SweptBackends(backends, {client})
    /\ UNCHANGED <<lifecycleVars, registryVars, gatewayVars, request, accepting, closeVars>>

-----------------------------------------------------------------------------
(* Shutdown.                                                               *)

Tokens(S) ==
    [s \in Seqs |-> IF s \in S THEN [request[s] EXCEPT !.token = TRUE] ELSE request[s]]

\* begin_shutdown
BeginShutdown(z) ==
    /\ closer[z] = "idle"
    /\ IF phase = "running"
         THEN /\ phase' = "quiescing"
              /\ request' = Tokens(Active)
              /\ sweep' = {request[s].id : s \in Active}
              /\ shutdown_error' = (shutdown_error \/ poisoned)
              /\ closer' = [closer EXCEPT ![z] = "lead"]
         ELSE /\ closer' = [closer EXCEPT ![z] = IF phase = "closed" THEN "done" ELSE "wait"]
              /\ UNCHANGED <<phase, request, sweep, shutdown_error>>
    /\ UNCHANGED <<report, registryVars, gatewayVars, accepting, task, client, coordinator>>

\* The rest of the leader's part of shutdown_with_report, without a suspension
Lead(z) ==
    /\ closer[z] = "lead"
    /\ closed' = TRUE
    /\ task' = SweptBackends(backends, sweep)
    /\ sweep' = {}
    /\ coordinator' = [at |-> "joining", expected |-> backends, joined |-> {}]
    /\ closer' = [closer EXCEPT ![z] = "wait"]
    /\ UNCHANGED <<lifecycleVars, registryVars, backends, admission, request, accepting, client>>

\* Mutant of BackendShutdown: what is active is not cancelled.
BackendShutdownQuiet(b) ==
    /\ coordinator.at = "joining" /\ b \in coordinator.expected \cap accepting
    /\ accepting' = accepting \ {b}
    /\ UNCHANGED <<lifecycleVars, registryVars, gatewayVars, request, task, client, closeVars>>

\* HostedActivity::shutdown, BackendLifecycle::begin_shutdown: close and cancel
BackendShutdown(b) ==
    /\ coordinator.at = "joining" /\ b \in coordinator.expected \cap accepting
    /\ accepting' = accepting \ {b}
    /\ task' = CancelIn(task, b, Seqs)
    /\ UNCHANGED <<lifecycleVars, registryVars, gatewayVars, request, client, closeVars>>

\* The backend is drained, and the coordinator joins its shutdown.
BackendJoined(b) ==
    /\ coordinator.at = "joining" /\ b \in coordinator.expected \ (coordinator.joined \cup accepting)
    /\ \A s \in Seqs : task[b][s].at = "none"
    /\ coordinator' = [coordinator EXCEPT !.joined = @ \cup {b}]
    /\ UNCHANGED <<lifecycleVars, registryVars, gatewayVars, request, accepting, task, client,
                   closer, sweep>>

\* Mutant of Coordinated: requests that are still active are not waited for.
CoordinatedEarly ==
    /\ coordinator.at = "joining" /\ coordinator.joined = coordinator.expected
    /\ phase' = "closed"
    /\ shutdown_error' = (shutdown_error \/ poisoned)
    /\ report' = [result |-> IF shutdown_error \/ poisoned THEN "error" ELSE "ok",
                  expected |-> coordinator.expected, joined |-> coordinator.joined]
    /\ coordinator' = [coordinator EXCEPT !.at = "done"]
    /\ UNCHANGED <<registryVars, gatewayVars, request, accepting, task, client, closer, sweep>>

\* wait_until_drained, which an error ends at once, and finish_shutdown
Coordinated ==
    /\ coordinator.at = "joining" /\ coordinator.joined = coordinator.expected
    /\ shutdown_error \/ poisoned \/ Active = {}
    /\ phase' = "closed"
    /\ shutdown_error' = (shutdown_error \/ poisoned)
    /\ report' = [result |-> IF shutdown_error \/ poisoned THEN "error" ELSE "ok",
                  expected |-> coordinator.expected, joined |-> coordinator.joined]
    /\ coordinator' = [coordinator EXCEPT !.at = "done"]
    /\ UNCHANGED <<registryVars, gatewayVars, request, accepting, task, client, closer, sweep>>

\* wait_until_closed_report
ClosedReport(z) ==
    /\ closer[z] = "wait" /\ phase = "closed"
    /\ closer' = [closer EXCEPT ![z] = "done"]
    /\ UNCHANGED <<lifecycleVars, registryVars, gatewayVars, request, accepting, task, client,
                   sweep, coordinator>>

-----------------------------------------------------------------------------

\* What the future of a request does without waiting for anybody.
CallMoves(s) ==
    \/ Resolve(s) \/ SetupRefused(s) \/ \E b \in Backends : AdmitBegin(s, b)
    \/ WaitCancelled(s) \/ Dispatch(s) \/ HoldingCancelled(s) \/ Register(s) \/ DispatchFails(s)
    \/ Suspend(s) \/ StopInSetup(s) \/ TokenInSetup(s)

\* What permits, deadlines, backends and callers do to it.
CallMoved(s) ==
    \/ Acquire(s) \/ WaitFails(s) \/ StartupTimeout(s) \/ CallerGone(s) \/ TaskFails(s)
    \/ Preflight(s) \/ Counted(s) \/ Ticket(s)

ExecutorMoves(s) == ExecutorFinal(s) \/ ExecutorRelease(s)

TaskEnds(b, s) == LeftEnds(b, s) \/ WorkerSends(b, s) \/ WorkerEnds(b, s)

CoordinatorMoves ==
    Coordinated \/ \E b \in Backends : BackendShutdown(b) \/ BackendJoined(b)

Next ==
    \/ \E b \in Backends : RegisterBackend(b) \/ SetBackendConcurrency(b)
    \/ \E id \in Ids, kind \in Kinds : Reserve(id, kind)
    \/ \E s \in Seqs : \/ CallMoves(s) \/ CallMoved(s) \/ ExecutorMoves(s) \/ ExecutorStop(s)
                       \/ ExecutorAlone(s) \/ ExecutorDeadline(s) \/ DropTicket(s) \/ Stop(s)
    \/ \E b \in Backends, s \in Seqs : TaskEnds(b, s)
    \/ \E id \in Ids : CancelToken(id)
    \/ CancelBackends
    \/ \E z \in Closers : BeginShutdown(z) \/ Lead(z) \/ ClosedReport(z)
    \/ CoordinatorMoves
    \/ Poison

Spec == Init /\ [][Next]_vars

(***************************************************************************)
(* Tasks of the runtime run.  Of a backend nothing is asked but that it    *)
(* ends what it was told to cancel, and that a worker that sent its result *)
(* lets go of its registration: a request nobody stops may take forever,   *)
(* and no deadline is set.                                                 *)
(***************************************************************************)
Fairness ==
    /\ \A s \in Seqs : /\ WF_vars(CallMoves(s)) /\ WF_vars(ExecutorMoves(s))
                       /\ WF_vars(ExecutorStop(s))
                       /\ WF_vars(request[s].backend # "none"
                                    /\ task[request[s].backend][s].cancelled /\ TaskFails(s))
    /\ \A b \in Backends, s \in Seqs :
          /\ WF_vars(task[b][s].cancelled /\ TaskEnds(b, s))
          /\ WF_vars(WorkerEnds(b, s))
    /\ WF_vars(CancelBackends)
    /\ \A z \in Closers : WF_vars(Lead(z)) /\ WF_vars(ClosedReport(z))
    /\ WF_vars(CoordinatorMoves)

FairSpec == Spec /\ Fairness

-----------------------------------------------------------------------------
(* Correctness.                                                            *)

Outcome(s) ==
    IF request[s].phase = "none" THEN "unborn"
    ELSE IF request[s].terminal # "none" THEN request[s].terminal
    ELSE IF request[s].token THEN "cancelling" ELSE "open"

(***************************************************************************)
(* The gateway keeps the operation contract of ADR-003; a cancelled        *)
(* request may still end Completed when the backend was faster.            *)
(***************************************************************************)
Contract == INSTANCE OperationContract
    WITH CancelWins <- FALSE, active <- operations, outcome <- [s \in Seqs |-> Outcome(s)]
ImplementsContract == Contract!Spec

(***************************************************************************)
(* A report without error was taken when no request was active and every   *)
(* backend was drained, and neither comes back: whoever was between its    *)
(* admission and the registration with a backend when shutdown swept by    *)
(* was waited for.  With an error the backends are drained all the same.   *)
(***************************************************************************)
ClosedSound ==
    phase = "closed" =>
      /\ report.joined = backends
      /\ \A b \in backends, s \in Seqs : task[b][s].at = "none"
      /\ report.result = "ok" =>
           Active = {} /\ \A s \in Seqs : request[s].at \in {"none", "over"}

(***************************************************************************)
(* A permit is held, and the identity with it, until the worker of the     *)
(* ticket has sent its result, also when the consumer is gone or a         *)
(* deadline answered it: a semaphore never has more workers than slots.    *)
(***************************************************************************)
WorkersAdmitted ==
    \A b \in Backends :
      /\ \A s \in Seqs : task[b][s].at = "worker" =>
           request[s].at \in ExecutorPlaces /\ request[s].backend = b
             /\ operations[request[s].id] = s
      /\ \A n \in 1 .. MaxAdmissions :
           Cardinality({s \in Holders(b, n) : task[b][s].at = "worker"}) <= Slots

(***************************************************************************)
(* An executor that no longer takes the events of its worker, because the  *)
(* consumer went or a deadline passed, has cancelled it: a native worker   *)
(* blocks on a full event channel until it is.                             *)
(***************************************************************************)
SilencedCancelled ==
    \A s \in Seqs :
      \/ request[s].at \in {"await", "late"}
      \/ request[s].at = "ticket" /\ request[s].gone
      => LET t == task[request[s].backend][s] IN t.at \in {"none", "sent"} \/ t.cancelled

\* A cancel that came between the look at the token and the registration, and whose
\* request got its ticket in that same poll: its sweep is over, nobody looks at the
\* token any more, and the worker was not told.
Lost(s) ==
    /\ request[s].at = "ticket" /\ request[s].token
    /\ client # request[s].id /\ phase = "running"
    /\ task[request[s].backend][s] = [at |-> "worker", cancelled |-> FALSE]

(***************************************************************************)
(* A Stop, the drop of the ticket and a shutdown end the request wherever  *)
(* it is when they come, before, while or after its backend registers it,  *)
(* though its backend would never have.  So does Gateway::cancel, but for  *)
(* the one request Lost describes: the code loses that cancel.             *)
(***************************************************************************)
StopEnds ==
    \A s \in Seqs :
      /\ \/ request[s].stop \/ request[s].gone
         \/ phase # "running" /\ request[s].at # "none"
         ~> request[s].at = "over"
      /\ request[s].token ~> (request[s].at = "over" \/ Lost(s))

(***************************************************************************)
(* Every caller of shutdown gets an answer, also when the registry is      *)
(* poisoned and can no longer be drained.                                  *)
(***************************************************************************)
ShutdownReturns == \A z \in Closers : (closer[z] # "idle") ~> (closer[z] = "done")

(***************************************************************************)
(* What holds of the workers between any two steps: permits and identities *)
(* outlast them, and whoever no longer listens to one has cancelled it.    *)
(***************************************************************************)
GatewayInv == WorkersAdmitted /\ SilencedCancelled

(***************************************************************************)
(* What holds of a gateway that closes, with or without a poison.          *)
(***************************************************************************)
CloseInv == TypeOK /\ ClosedSound
=============================================================================
