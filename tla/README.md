# The Delysis native platform in TLA+: operation lifecycles and the Loom store

The repository holds two desktop products (Mom, the chat application that calls
itself Blessenger in its messages, and Loom, the writing application), a local
model gateway (FTE), the Speech, Information and Attachment services and the
native llama engine they share.  What is common to all of them, and what
`docs/architecture/adr/ADR-003` makes a contract, is the *operation
lifecycle*: how a piece of long work is admitted under a public identity,
cancelled, brought to exactly one terminal result, released, and drained by a
shutdown that joins every worker.  The contract is implemented independently
in each owner; this project models those implementations.  The one part with a
durable state and a crash recovery of its own is the Loom store, which
projects the revisions of a document to a file that other programs edit too;
this project models that as well.

## 1. Inventory

| Part | State it keeps | Operations | Hard behaviour |
|---|---|---|---|
| run control, worker ledger (`crates/operation-lifecycle`) | one atomic byte per run; outstanding / joined worker identities with a bounded history | request_cancel, claim_terminal; note_started, note_joined | cancel landing between the load and the exchange of a claim; eviction from the history |
| Mom operation supervisor (`products/mom/.../operation_supervisor.rs`) | lifecycle phase, checked sequence, operations by public id, attempts by sequence, workers, ledger, shutdown outcome; per attempt a second mutex and a run control | reserve, create_operation, start_attempt, queue, start, publish_progress, terminal, release, finish_*, cancel, begin_quiesce, spawn, reap_worker, shutdown, task wait | every method is two or three critical sections under two mutexes; condition variable; worker threads; join handles taken by whoever reaps first; poison |
| Mom application runtime (`app_runtime.rs`) | lifecycle phase, active work leases, voice speculations and early-abort tombstones | admit, begin_quiesce, shutdown, begin / confirm / abort voice speculation | two maps under two mutexes; shutdown order over six owners |
| Native request registry (`llama-native-engine/src/operation_registry.rs`) | phase, nonce, active requests, worker sets | reserve, queue, start, terminal, cancel/reject queued, lease drop, quiesce, shutdown | lease dropped while the worker publishes; nonce generations |
| Native speculative admission (`generation_admission.rs`) | disabled flag, admitted permit, preemption watch | reserve, preempt_for_foreground, observe_foreground_running, release | foreground preempting a speculative run; 200 ms limit |
| Gateway (`fte-router/src/lib.rs`, `operation_lifecycle.rs`, the ticket executor of `fte-types`) | lifecycle phase and report, one map of operations under one mutex, admission semaphores per backend, per request its future, token, Stop, ticket and executor | reserve, preflight, admit, dispatch, retry, ticket, terminal, release, cancel, drop of the ticket, deadlines, shutdown_with_report, set_backend_concurrency | a cancel before, while or after the backend registers the request; a deadline that answers while the worker runs on; consumers that go; poison; one detached coordinator for all shutdown callers |
| Gateway backends (`fte-backend-llama`, `fte-providers/src/hosted.rs`) | active operations by request id, an accepting flag | register, cancel, shutdown; a blocking task or an HTTP stream per request | cancelled by id, when the id may have been used again; a full event channel |
| Loom generation supervisor (`loom-host/src/generation_supervisor.rs`) | operations, attempts, workers, close record | reserve .. release, attempts, quiesce, resume, close | attempts started after a terminal result or after quiesce; resume |
| Speech host (`speech-native-host`), its task supervisor and backends | routes under the host mutex, operations under the registry's, a task supervisor with its own admission, a limiter, the backend's operations | transcribe and synthesize (reserve, route, permit, dispatch, relay, release), cancel, quiesce, shutdown | two maps under two mutexes; a dispatch whose caller is gone; cancellation by id; a coordinator that ends the admission of tasks the host still needs |
| Loom store (`loom-store/src/store.rs`, `provenance.rs`, `reconciliation.rs`, `file_io.rs`) | SQLite: revisions, receipts, visible-file outbox, delete and rename operations, tombstones; files: the visible document, blobs, staging files, the recovery slot | create, adopt, save, reconcile, import, checkpoint, their idempotent replay; process_outbox_entry; recover; delete; reconcile_document_lifecycle; rename, drafts, promotion | an external editor between any two file operations; a crash or an I/O error at any of them; rows that stay pending; time stamps as order |
| Information and Attachment services, Mom runtime crates, FTE quotas | documents, checkpoints, budgets | | see section 5 |

What must be true of every lifecycle owner (ADR-003, "Acceptance"): a public
identity is active at most once and is held until the terminal result was
recorded; a stale lease, ticket or handle cannot touch a newer reservation;
cancel against complete and admit against quiesce give one terminal result; a
dropped consumer only asks for cancellation; shutdown returns only when
nothing is active and every worker was joined, always with the same answer.

How the parts interact.  The Mom application runtime admits a command with a
work lease, whose long part runs as a supervised worker of the operation
supervisor; the worker publishes its result through the lease while consumers
wait for it, cancel it or go away.  Below it, the native engine holds its own
registry, and the gateway and the speech host hold theirs.  Shutdown goes the
other way: the runtime refuses admission, asks everything to stop, waits for
its work leases, and then closes one owner after the other.  Loom has the same
layering with its own supervisor.  All of this is threads, tasks and mutexes
inside one process: there is no crash recovery in the lifecycle owners, and no
message is lost between them; what is hard is what happens between two critical
sections.  The Loom store is the opposite: its commands are serial (one process
holds the project lease), what interleaves is the editor, and everything must
survive the end of the process.  A revision is durable once its transaction is;
the file follows, from an outbox row that `recover` or the command sent again
can finish.

What must be true of the store (`products/loom/docs/format-v1.md`): no byte
that somebody else wrote is lost, a committed revision reaches the file unless
somebody interferes, a deletion is exact, and every crash point can be left.

## 2. Modules

| Module | Models | Level |
|---|---|---|
| `RunStates` | the three values of a run control and its operations as functions | data |
| `RunControl` | `RunControl` instruction by instruction: a cancel is one exchange, a claim a load and a compare-exchange that may have to be repeated | component |
| `AtomicRunControl` | the same as single steps | abstract |
| `WorkerLedger` | `WorkerLedger` as a value, with the bounded history | data |
| `OperationSupervisor` | Mom's `OperationSupervisor`, its workers, tasks and shutdowns | component |
| `VoiceSpeculation` | the voice commands, their controls, tombstones and import threads, and the runtime's shutdown up to the drain of application work | composition of `app_runtime.rs` and `commands.rs` |
| `LoomGenerationSupervisor` | Loom's supervisor and `wait_released` | component |
| `NativeRequestRegistry` | the native engine's registry and its speculative admission | composition of two components |
| `GatewayLifecycle` | a gateway request from its reservation to the release of its identity, the ticket's executor, the backends' registrations, shutdown | composition of router, types and backends |
| `SpeechHost` | a speech request, `cancel`, quiesce and shutdown of the host, the task supervisor and a backend | composition of host, supervisor and backend |
| `LoomStore` | one document: its rows, blobs, visible file, staging files and recovery slot, the commands on it, the editor and the faults | component |
| `OperationContract` | what ADR-003 promises of a registry | abstract |

Theorems are in `RunControlProofs`, `OperationSupervisorProofs`,
`VoiceSpeculationProofs`, `LoomSupervisorProofs`, `NativeRegistryProofs`,
`GatewayLifecycleProofs`, `SpeechHostProofs` and `LoomStoreProofs`.

`RunControl` implements `AtomicRunControl` (checked and proved), which is why
every other module takes one step for a cancel or a claim.
`LoomGenerationSupervisor`, `NativeRequestRegistry`, `GatewayLifecycle` and
`SpeechHost` implement `OperationContract`; they differ in the constant
`CancelWins` (a cancelled gateway request may still be Completed when the
backend was faster, a speech request may not).  Mom's supervisor allows several
attempts per operation and is specified by its own properties instead.

### How state and steps correspond to the code

*One action per critical section.*  A method that takes one mutex once is one
action.  A method that lets go of a mutex and takes it, or another one, again
is one action per section, and the thread's place in between is a label in
`frame` (Mom), `producer`, `command`, `closer` (voice), `waiter` (Loom) or
`owner` (native).  `Condvar::wait` is a label at which a thread is asleep until
it is notified; a notification after an unlock is merged with the section
before it, since whoever sleeps at that point went to sleep earlier.  In Mom's
supervisor spurious wake-ups are an action of their own.

*Identities.*  A public id is a model value.  An operation entry, an attempt, a
request is known by the sequence number (nonce) it was given; comparing
`Arc` pointers or `InstanceId`s is comparing those numbers.  `MaxSequence` and
`MaxNonce` stand for `u64::MAX`, the number the checked addition refuses to go
beyond, so exhaustion is reached in every run.

*Who may call what.*  `OperationLease` and Loom's leases are `Clone`: methods
are called on them by anybody, in any state, for ever (`CallShared`, and all of
Loom).  `RequestLease` and `SpeculativePermit` are not: one executor has them.

*Refused calls.*  A call that is refused and changes nothing is no step, except
where the caller's control goes on differently (Mom's `AfterErr`).

`OperationSupervisor` in particular: `operations`, `attempts`, `workers`,
`worker_history`, `exited_worker_ids`, `shutdown` and `phase` are the fields of
`SupervisorState`; `entry` and `attempt` are the objects behind the `Arc`s,
`result` and `joined_flag` the channel and the `OnceLock` of a task.  The worker
with sequence `s` is the thread `s`.  `Poison` makes the state mutex poisoned at
any moment when `MayPoison`.

`VoiceSpeculation`: a producer is one speculate command with its supervised
worker and the import thread it starts; confirmers, aborters and handoffs are
the other commands; closers are callers of `AppRuntimeHandle::shutdown`.  Audio
is absent; a recording is who confirmed with it.  A command whose worker is
refused because the runtime quiesces, and a confirmation whose recording is
incomplete, end before they touch this state and equal commands that are never
called.

`NativeRequestRegistry`: nothing orders the calls of the engine beyond what the
two files themselves require; the engine's queue and its admission mutex order
them further, so what holds here holds there.  The clock is one bit: whether
more than 200 ms have passed since the cancellation.

`GatewayLifecycle`: `at` is where the future of a request, and later the
executor of its ticket, stands, from one suspension point (or place where
another thread can come between) to the next; `task[b][s]` is what backend `b`
has registered for it.  The selects of the code are biased towards their
tokens and a `Notified` is created before the condition is read, so that waits
are guards.  A select looks at the token once per poll, though, and the poll in
which the backend registers the request goes on after that: it has steps of its
own, `dispatch` (looked, not registered) and `polled` (registered), at which the
token counts for nothing; `Suspend` is the backend's future returning `Pending`,
after which every poll looks first (`Ready`).  A native request whose future is
dropped leaves a blocking task behind (`left`); a hosted one does not.  The code
resolves one candidate per model, the module one per backend: a retry that comes
back to the same backend with another of its models is left out.

`SpeechHost`: the same for `transcribe` and `synthesize`, whose futures hand
over to a monitor task; `call` is a call of `cancel` that captured the request
and has not told the backend yet; the route and the identity are released one
after the other (`routing`).  A worker, also one whose model load failed
(`failing`), keeps its id in the backend until its lease is dropped.

`LoomStore`: one action per file operation and per transaction.  A text stands
for bytes and for their hash.  `previous[o]` is the staging file of row `o`,
`linked` says whether it and the visible name are one file, which matters to
an editor that writes in place.  Operations that the code makes durable before
it goes on (fsync of file and directory) are durable here when they are done;
an editor's write is one step, and so is a read with its hash.  `MayBeActive`
lets any revision be the active one, because the code orders them by wall-clock
time and then by a random id.  `edited`, `clean` and `stacked` are history.

## 3. Runs

Every run ends inside five minutes with two workers.  `CHECK_DEADLOCK FALSE`
is set wherever the system legitimately comes to rest (everything released and
closed, every command returned, or the editor's and the faults' bounds used
up); a thread that sleeps for ever is caught by the liveness properties instead.
`MCRunControl` checks deadlock: its specification has an explicit end.

| Run | Instance | Shows |
|---|---|---|
| `run_control` | 2 cancels, 3 claims | one claim wins and tells the truth about cancellation; both operations are linearizable; the retry loop ends |
| `supervisor` | 1 reserved and 1 explicit id, 1 client, 1 shutdown, history 0, shared progress and release | types; ids stay bound; no attempt escapes a cancellation; no Completed after a cancellation that came first; terminal records are final; rollback removes its own entry; shutdowns and task waits return |
| `supervisor_shutdown` | 1 client, 2 shutdowns, 2 sequences, poison, history 0 | `ReapInv`: join handles are never lost or joined twice, and no spurious reap error; outcomes are sound, and replaced only to disclose a poison |
| `voice` | 1 speculation, 2 confirmations, abort, handoff, 1 shutdown (259,000 states) | `SpeculationInv`: every command agrees on one decision, and a waiting import can be decided; the first recording stands; a failed decode returns; shutdown drains |
| `loom_supervisor` | 1 id, 3 identities, 1 worker, 1 waiter (165,000) | refinement of the contract; `SupervisorInv`: attempts stay anchored, quiesce reaches everything that is not terminal, close is sound, a wait never reports a stale state; close is final; a release is never missed |
| `native_requests` | 2 ids, 3 nonces, both lanes, nobody closes (429,000) | refinement of the contract; `RequestsInv`: ids are held by leases, the speculative lane is exclusive and never lost; a preemption is measured on its own foreground |
| `native_close` | 2 ids, 2 nonces, poison | `CloseInv`: quiesce reaches every request, closing is sound; it is final; shutdown returns |
| `gateway` | 1 id, 2 generations, native backend, 2 semaphores, 1 shutdown (102,000) | refinement of the contract; `GatewayInv`: a worker keeps permit and identity, and is cancelled when nobody listens; `StopEnds`: no Stop, drop or shutdown is lost, and a cancel only in the state `Lost` (section 6) |
| `gateway_shutdown` | 1 request (with an exact count in front, or a token count), hosted and native backend, 2 shutdowns, poison (186,000) | `CloseInv`: a report without error means that nothing is left; every caller gets one |
| `speech` | 1 id, 1 request, 1 permit, 2 callers of quiesce or shutdown (59,000) | refinement of the contract; `HostInv`: the two maps agree, work is owned, a published shutdown is the end of all work; cancellations and shutdowns end |
| `loom_store` | 3 texts, 2 revisions, 1 crash or error, 2 edits (1,374,000) | `EditSurvives`; `StoreInv`: a projection can be resumed from every crash point and leaves nothing behind, a tombstone is exact and final; `CommandsSettle`: committed revisions are projected and interrupted deletions settled |
| `loom_edit_lost` | the same | **violated**: bytes captured at the replacement boundary are retained (section 6) |

*Bounds.*  Two sequences under one id are enough for the id to be reserved again
while everything of the first generation is still around; a third identity
(Loom, native) adds an attempt, or a second foreground, beside both.  The
speech run has one request, and its reuse of an id is left to the proofs of
section 4, which hold for any number (the inductive invariant was also
model-checked with two requests and one caller, 415,000 states).  Calls
of `terminal` through clones of a lease are likewise left to the proofs, which
hold for any `SharedCalls`.  Two closers compete for one outcome; a third
contender of the same kind only waits longer.  A history of 0 makes the
eviction happen at once, where the code keeps a longer one.  `ProgressCapacity` 1
reaches the full buffer.  `MaxInstances` only names entries and is large enough
for every sequence.  In the Loom store three texts are what it takes for the
editor's to differ from both the predecessor and the target of a row; two
revisions let one row be pending below another; two edits let the editor act on
both sides of a file operation; one fault is enough to leave any intermediate
state behind for `recover`, and the texts are interchangeable, so that `Found`
names one of them.  Symmetry is used in safety runs only, over closers (Mom)
or ids (native), which no definition tells apart.

*Fairness.*  The operating system runs every runnable thread, and the runtime
every task that was woken: weak fairness of a thread's or a task's own steps.
The owner of a reservation or an explicit attempt finishes it (it is a guard
object, or the code around it ends), a supervised closure ends once asked to,
an executor drops its lease, a decode and the silence gate end, a speech
backend's model load ends.  A backend of the gateway or of the speech host ends
what it was told to cancel; work that nobody cancelled may take for ever.
Nothing is assumed of clients that could call and do not, of the renderer
(which need never confirm or abort), of deadlines, or of spurious wake-ups.
`FinishAttempt` needs strong fairness because other calls on the same attempt
go through states in which it is refused.  In the Loom store the process goes
on, is started again after a crash, and recovers: opening the default project
does it (`tauri-plugin-loom/src/lib.rs`:3674), `project_recover` offers it, and
every read or save settles deletions first.  That is strong fairness, because
other commands may come between; nothing is assumed of a command's caller
sending it again, and nothing of the editor.

## 4. Proofs

Eight modules hold theorems; all hold for any sets of threads and ids and any
bounds satisfying the assumptions each model states of its constants (kinds of
threads and of commands are disjoint, capacities and bounds are natural numbers,
a value that means "none" is not an id, a text or a backend). Every inductive
invariant was model-checked before it was proved.

* `RunControlProofs`: `ClaimExclusiveHolds` and `Linearizable`.  The inductive
  invariant `IInv` relates what calls were answered to the byte (an answered
  claim means a terminal byte, an acknowledged cancel a cancelled one) and says
  that a claimer about to exchange holds a value that is not terminal.
  Linearizability maps a cancel's exchange, a claim's successful exchange and a
  load that finds a terminal byte to the abstract step, everything else to a
  stutter.
* `OperationSupervisorProofs`, in three parts, each with an inductive invariant
  that rests on the one before.
  - `Typed` gives `TypeCorrect`.  `TypeOK` alone is not inductive: a thread that is
    inside a method needs a lease, one in `rollback` an instance, and so on.
    `FramesOK` says which fields of a frame are meaningful at which label, and
    there is one lemma per group of actions.
  - `Registry` gives `IdentityHeldAlways`, `RollbackOwned`,
    `CancellationAlwaysReaches`, `TerminalAlwaysTrue` and `TerminalStaysFinal`:
    numbers not handed out are unused (`FreshOK`), ids and entries point at each
    other (`OperationsOK`), an attempt is registered exactly while it is not
    released or is about to be retired (`AttemptsOK`), a reserve between its
    sections owns an entry nobody else can reach (`ReservingOK`), and a closer that
    has begun has ended admission (`QuiescingOK`).  `ReservingOK` is why the rollback
    by public id is safe although the mutex was released twice; `AttemptsOK` is why
    the identity survives the gap between the two sections of `release`.
  - `WorkersInv` gives `WorkersReaped` (`ReapInv`), `ShutdownAlwaysSound` and
    `OutcomeStaysFinal`.  That a spawn registers a fresh worker, and that no thread
    appears after the outcome, depend on who can hold a lease: `OwnersOK` says that
    between its reservation and the rendezvous only the admitting caller has it,
    so its attempt stays active, its worker is unborn or waits, and shutdown's loop
    cannot have ended.  `LeasesOK` says that no lease is from the future, `WorkersOK` that a
    worker has a record from its registration to its join, `LedgerOK` that records
    and ledger agree and that the bounded history only forgets, `ReapersOK` that a
    taken handle is with exactly one thread, which will find it in the ledger, and
    `ClosingOK` that nothing comes back once a closer has left its loop, so that a
    second closer computes the same outcome.  Most steps are *calm*: they
    register, join and close nothing, and one lemma (`CalmStep`) covers them; the
    launch, registration, rendezvous and exit of a worker, the two
    sections of a join, the admission of an attempt and the close have one each.
* `VoiceSpeculationProofs`: `DecisionsAgree`, `SpeculationSound` and
  `FirstRecordingAlwaysStands`, for any number of commands.  The invariant `VoiceInv`
  relates a speculate command's place to its control and import
  (`ProducersOK`), says when a recording is there (`RecordingsOK`), that controls are
  found under their own identity and only once they exist (`HeldOK`), and that a
  command told its decision stands was told the truth (`AnswersOK`).  It holds
  whatever identities the renderer uses.  `PendingReachable` needs each identity to
  be used once, which is the hypothesis `IdentitiesUnique` of `SpeculationSound` and
  nothing the code enforces in time (section 6).  It is not inductive, because a control could
  become unreachable before its import thread exists; `ReachOK` says it of a
  control from its registration until its command returns.  These two were checked on
  two speculations as well, `VoiceInv` also with both using the same identity.

* `SpeechHostProofs`: `HostSound` and `HostRefinesContract`, for any ids, permits,
  callers and sequence bound.  The inductive invariant is `TypeOK`, `~faulted`
  and four parts: `Numbers` (sequences not handed out are unused, and the others
  have an id and a place), `Places` (what a request
  holds, permit, task, work in the backend, at each place of its future and its
  monitor), `Maps` (identity and route of a request at each place, the two-step
  release included, and back) and `Closing` (what each step of the shutdown coordinator
  has already excluded: admission, tasks, work).  `RoutesMatch` alone is not
  inductive, because whether a release finds its own route depends on where
  every other request of the id stands; `ClosedSound` is not, because a task
  that is still to come must be excluded by the end of the task supervisor's
  admission.  The refinement has one lemma per action: it maps to one step of
  the contract or to a stutter.

* `NativeRegistryProofs`: `RequestsSound`, `CloseSound`, `ClosedIsFinal`,
  `PreemptionIsMeasured` and `RegistryRefinesContract`.  The invariant says that
  a nonce not handed out has left nothing and a request is released exactly when
  its lease is gone (`Born`), that the map of active requests and the leases say
  the same in both directions (`Entries`), whom the speculative lane and a
  preemption watch may belong to (`Lane`), and what the owner has still to cancel
  at each of its places (`Closing`, `Swept`).  `HeldByLease` is not inductive
  without `Born`, because a nonce from the future could be anybody's;
  `QuiescedCancelled` is not without the owner's snapshot.  Actions are
  summarised by what they do to requests, entries and leases (nothing, one stop,
  one move, one drop, one admission); the parts and the refinement follow from
  the summary, so that each action is opened once.
* `LoomSupervisorProofs`: `SupervisorSound`, `CloseIsFinal` and
  `SupervisorRefinesContract`, by the same kind of summary.  Beside `Born` and
  `Registered` (an operation is registered, or has left its released snapshot
  with all its leases) the invariant needs `Anchored` and `Asked`: an attempt
  inherits the cancellation of its operation when it starts, so "asked to stop"
  must be known of both when either appears.
* `GatewayLifecycleProofs`: `GatewaySound`, `GatewayCloses` and
  `GatewayRefinesContract`, with or without a poison.  `Each` relates one
  request's record to its place and to its operation in each backend, `Entries`
  the places to the map of operations, `Permits` bounds the holders of a
  semaphore, and `Closing` says what the coordinator has established.  "No more
  workers than slots" is not inductive: it must be said of all holders of a
  permit, those that wait for the backend to register them included.  That a
  report without error stays true needs the converse of `Entries`, that a live
  request always finds itself under its id.
* `LoomStoreProofs`: `StoreSound` and `EditsNeverLost`, for any number of texts,
  revisions, faults and edits.  The parts of the invariant are `Rows` (what was
  committed has its bytes), `Steps` (what the command at each file operation has
  established), `Links` (a linked staging file *is* the visible file), `Removal`
  (a deletion has the document to itself), `Edits` and `Undisturbed` (where a
  projection nobody interferes with has got to).  `EditSurvives` is not
  inductive, since a row could remove the staging file that has the only copy;
  `Edits` names the one other place the bytes can be, `Captured`: under the
  staging name of the only pending row, at a point of the program from which
  they are linked back or kept.

Only model-checked: all liveness (`ShutdownReturns`, `StopEnds`, `CommandsSettle`
and the others), because fairness is outside the prover's reach.  Every safety
invariant, action property and refinement that a passing run checks is stated by a
theorem.

## 5. Not modelled

* Mom: the polling readers (`wait_for_released`, and `OperationTicket::wait_timeout`,
  which only tests call) and all snapshots and counters, which change nothing; the
  shutdown of the owners behind the runtime's drain.
* Gateway: quotas and budgets, response affinity, how candidates are chosen and
  routes planned (a request tries some backend, and may try another), the wire
  formats.
* Speech: registration and replacement of backends (there is one), a coordinator
  thread that cannot be spawned, a poisoned host mutex.  The qwen, pocket and
  platform backends keep the same contract with the host as the modelled one.
* Loom: rename of documents and its anchors, transient drafts, promotion of
  generated candidates, campaigns, protected copies, folders.  Poisoning in Loom's
  supervisor: no section of that file can panic.
* Information and Attachment services, decoding, sampling, caches, document
  parsing, SQL, user interfaces: data and I/O rather than control.

The map covers the control of the modelled components; by lines it is a small
part of the repository, most of which is the native engine, the user interfaces,
format and provider code and tests.

## 6. Where the code and its documents disagree

* `CapturedBytesRetained` (run `loom_edit_lost`).  The comment in
  `process_outbox_entry` (`store.rs`:3276) says that the bytes at the replacement
  boundary are retained under `.loom/backups/outbox` and restored.  When an older
  row of the document is still pending after a conflict, a projection that has
  captured an editor's bytes and is interrupted before it links them back leaves
  the visible name free.  `recover` then applies the *older* row to it, and when it
  comes to the newer one and finds its target visible, it removes the staging file
  without reading it.  `EditSurvives` shows that this takes two pending rows, or a
  command that keeps no copy of its predecessor.
* ADR-003 line 35: "Retained task state is bounded by active concurrency, not
  historical request count."  `SupervisedTask::wait` returns before it reaps when
  the worker's result was lost, and a task that is dropped never reaps.  Each such
  request leaves the handle of a dead thread in `workers`, and its ledger entry,
  until shutdown (`operation_supervisor.rs`:209).
* The comment on `abort_and_remove_voice_speculation` (`app_runtime.rs`:1157)
  promises a tombstone "so the racing command cannot resurrect it".  The look-up
  and the tombstone are two sections; a speculation registered in between finds
  no tombstone and starts pending, although the abort has answered true.
  `SpeculationInv` shows that it can still be decided.
* `products/fte/docs/GATEWAY_MODULE.md`:105: "Timeout paths cancel the selected
  backend".  The startup deadline (`fte-router/src/lib.rs`:853) drops the setup
  future; the blocking task of a native backend goes on uncancelled and without a
  permit (`StartupTimeout`, `LeftEnds`).
* The same page, line 94: "Cancellation and the request deadline cover both
  phases", and the comment at `fte-router/src/lib.rs`:832 polls the backend once so
  that "cancellation cannot disappear before backend registration".  That holds of
  Stop.  `Gateway::cancel` sets the lease's token and then sweeps the backends; the
  select around the setup looks at the token once per poll (line 863).  When both
  fall between that look and the registration (`hosted.rs`:456,
  `fte-backend-llama/src/lib.rs`:600; with an exact count in front also between the
  end of the count and the registration of the execution), and the backend's future
  is ready in the same poll (line 838), the ticket is returned, its executor watches
  Stop only, and the cancel, to which the caller was answered 1, is gone.  TLC
  refutes "a token always leads to the end of the request" with just that trace:
  `Dispatch`, `CancelToken`, `CancelBackends`, `Register`, `Ticket`.  `StopEnds`
  shows that it takes that: when the future is pending, the next poll ends the
  request, and a shutdown, a Stop or the drop of the ticket still ends one whose
  cancel was lost.

What else the models show and no document contradicts:

* A speech request is cancelled in the backend by id, after its identity was
  checked.  With an id in use again, the cancel can hit the successor, and a late
  answer about the predecessor can be taken for the successor's; `StopEnds` of
  `SpeechHost` says so by excluding exactly that case.
* A voice speculation with an identity that is already registered replaces the
  control of the first one before it is refused (`app_runtime.rs`:1132).
* A Loom row that met a conflict is never superseded: it stays pending after the
  conflict was reconciled by a newer revision, `recover` reports it each time, it
  blocks rename and deletion (`store.rs`:4078), and it is applied when the file
  becomes its expected text again.
* `checkpoint_visible` reads the file and `save_content` hashes it later; an edit
  in between is taken as the predecessor and replaced without a copy.
* A deletion whose slot holds other bytes than it named (an in-place edit between
  its read and its move, or a crash between a raced move and its restoration)
  cannot be settled: every command on the project's documents fails, and so does
  opening the project for editing.  `format-v1.md` wants it closed, and the bytes
  are in the slot; `CommandsSettle` excludes this case.
* The active revision is chosen by wall-clock time: after the clock stepped back, a
  save leaves its predecessor active.

Not a disagreement the product can reach at this commit, but worth knowing:
Loom's `start_attempt` tests neither the operation's phase nor the supervisor's,
so an attempt may start while the supervisor quiesces.  It inherits the
operation's cancellation (`QuiescedCancelled`), except below an operation that
was terminal before.  Only tests call it.

## 7. Plan

Done: the lifecycle owners of Mom, Loom, the native engine, the gateway and the
speech host, and revisions, projection and deletion in the Loom store; proofs of
the safety properties and refinements of all of them.  Next, in this order:

1. Loom's rename lifecycle (two names, a capture and an anchor, both recovered at
   open) and transient drafts.
2. `AppRuntime`: admission classes and the whole of `shutdown`, over abstract
   owners; a handoff that inserts a session after the sessions were cleared.
3. Gateway quotas.
