------------------------ MODULE LoomSupervisorProofs ------------------------
(***************************************************************************)
(* What Loom's generation supervisor promises, for any ids, workers,       *)
(* waiters, capacities and number of identities: SupervisorInv, the        *)
(* finality of a close and the refinement of the operation contract, from  *)
(* the inductive invariant IInv.                                           *)
(***************************************************************************)
EXTENDS LoomGenerationSupervisor, FiniteSetTheorems, SequenceTheorems, TLAPS

Runs ==
    [kind : {"none", "operation", "attempt"}, operation_id : Ids \cup {"none"},
     phase : {"none", "reserved", "queued", "running", "terminal"},
     control : RunStateSet, terminal : TerminalClasses \cup {"none"},
     progress : 0 .. ProgressCapacity, attempts : SUBSET Seqs]

Ledgers ==
    [outstanding : SUBSET WorkerIds, joined : SUBSET WorkerIds,
     joined_order : Seq(WorkerIds), history_capacity : {HistoryCapacity}]

-----------------------------------------------------------------------------
(* TypeOK in pieces.                                                       *)

RegistryTypes ==
    /\ phase \in {"running", "quiescing", "closed"}
    /\ next_sequence \in 1 .. MaxSequence
    /\ operations \in [Ids -> Seqs \cup {0}]

RunTypes == run \in [Seqs -> Runs]

ReleasedTypes ==
    released \in [Seqs -> {NoSnapshot} \cup
       [phase : {"released"}, cancellation_requested : BOOLEAN,
        terminal : TerminalClasses, progress : 0 .. ProgressCapacity]]

CloseTypes ==
    /\ workers \in Ledgers
    /\ canonical_close \in {NoClose} \cup
          [lifecycle : {"closed"}, active_operations : Nat, retained_tasks : Nat,
           expected_workers : SUBSET WorkerIds, joined_workers : SUBSET WorkerIds]

WaiterTypes ==
    waiter \in [Waiters -> [pc : {"idle", "check", "asleep", "returned"},
                            lease : Seqs \cup {0},
                            answer : {"none", "snapshot", "timeout", "stale"}]]

-----------------------------------------------------------------------------
(* The inductive invariant.                                                *)

\* An identity that was not handed out has left nothing; an attempt has neither
\* attempts nor a class of its own; an operation has its class exactly when its
\* run control was claimed.
Born ==
    \A s \in Seqs :
      /\ s >= next_sequence => run[s] = NoRun
      /\ s < next_sequence => run[s].kind # "none" /\ run[s].operation_id \in Ids
      /\ run[s].kind # "operation" => run[s].attempts = {} /\ released[s] = NoSnapshot
      /\ run[s].kind = "attempt" => run[s].control \in {RUNNING, CANCEL_REQUESTED}
      /\ run[s].kind = "operation" =>
           /\ run[s].phase # "none"
           /\ (run[s].terminal # "none") = IsTerminal(run[s].control)
           /\ (run[s].terminal # "none") = (run[s].phase = "terminal")

\* A public id leads to the operation that was reserved for it; an operation is
\* either registered or has left its snapshot with all its leases, with its
\* class and without attempts.
Registered ==
    /\ \A id \in Ids : operations[id] # 0 =>
         run[operations[id]].kind = "operation" /\ run[operations[id]].operation_id = id
    /\ \A s \in Seqs : run[s].kind = "operation" =>
         /\ (operations[run[s].operation_id] = s) = (released[s] = NoSnapshot)
         /\ released[s] # NoSnapshot => run[s].terminal # "none" /\ run[s].attempts = {}

\* The attempts of an operation were started for its public id, and have been
\* asked to stop if the operation was, or if all of them were.
Anchored ==
    \A s \in Seqs, a \in Seqs : a \in run[s].attempts =>
      /\ run[a].kind = "attempt" /\ run[a].operation_id = run[s].operation_id
      /\ (phase = "quiescing" /\ run[s].terminal = "none") \/ CancellationRequested(run[s].control)
           => run[a].control = CANCEL_REQUESTED

\* The registered operations have been asked to stop when all of them were.
Asked ==
    phase = "quiescing" =>
      \A s \in Seqs : Current(s) /\ run[s].terminal = "none" => run[s].control = CANCEL_REQUESTED

\* The facts of a close.
Closed ==
    canonical_close # NoClose =>
      /\ phase = "closed" /\ \A id \in Ids : operations[id] = 0
      /\ workers.outstanding = {}
      /\ canonical_close.active_operations = 0 /\ canonical_close.retained_tasks = 0
      /\ canonical_close.expected_workers = canonical_close.joined_workers

\* A waiter waits for an operation, and has not been told that it is stale.
Waiting ==
    \A v \in Waiters :
      /\ waiter[v].pc \in {"check", "asleep"} =>
           waiter[v].lease \in Seqs /\ run[waiter[v].lease].kind = "operation"
      /\ waiter[v].answer # "stale"

IInv == TypeOK /\ Born /\ Registered /\ Anchored /\ Asked /\ Closed /\ Waiting

\* TypeOK is the conjunction of its pieces.
LEMMA TypeParts ==
    TypeOK <=> RegistryTypes /\ RunTypes /\ ReleasedTypes /\ CloseTypes /\ WaiterTypes
BY DEF TypeOK, RegistryTypes, RunTypes, ReleasedTypes, CloseTypes, WaiterTypes, Runs, Ledgers

-----------------------------------------------------------------------------
(* What a step does to the operations and attempts.                        *)

Record(s, p, c, t, n, A) ==
    [kind |-> run[s].kind, operation_id |-> run[s].operation_id, phase |-> p, control |-> c,
     terminal |-> t, progress |-> n, attempts |-> A]

Fresh(kind, id, p, c) ==
    [kind |-> kind, operation_id |-> id, phase |-> p, control |-> c, terminal |-> "none",
     progress |-> 0, attempts |-> {}]

\* A step that concerns neither the identities nor the registry.
Kept ==
    /\ UNCHANGED <<next_sequence, operations, run, released>>
    /\ phase' \in {phase, "running", "closed"}

\* A reservation.
Added(id) ==
    /\ phase = "running" /\ phase' = phase /\ operations[id] = 0
    /\ next_sequence \in Seqs /\ next_sequence' = next_sequence + 1
    /\ operations' = [operations EXCEPT ![id] = next_sequence]
    /\ run' = [run EXCEPT ![next_sequence] = Fresh("operation", id, "reserved", RUNNING)]
    /\ released' = released

\* A lease, or an attempt that ends, changes how far an operation is.
Moved(s, p, n, A) ==
    /\ Current(s) /\ A \subseteq run[s].attempts
    /\ (p = "terminal") = (run[s].phase = "terminal")
    /\ run' = [run EXCEPT ![s] = Record(s, p, run[s].control, run[s].terminal, n, A)]
    /\ UNCHANGED <<phase, next_sequence, operations, released>>

\* An attempt that starts.
Started(s) ==
    /\ Current(s) /\ next_sequence \in Seqs /\ next_sequence' = next_sequence + 1
    /\ run' = [run EXCEPT
                 ![s] = Record(s, run[s].phase, run[s].control, run[s].terminal, run[s].progress,
                               run[s].attempts \cup {next_sequence}),
                 ![next_sequence] =
                    Fresh("attempt", run[s].operation_id, "none",
                          NewControl(CancellationRequested(run[s].control)))]
    /\ UNCHANGED <<phase, operations, released>>

\* The operations of S and their attempts are asked to stop.
Stopped(S) ==
    /\ S \subseteq Active
    /\ run' = [r \in Seqs |->
                 IF r \in S \/ \E s \in S : r \in run[s].attempts
                   THEN Record(r, run[r].phase, CancelRequest(run[r].control), run[r].terminal,
                               run[r].progress, run[r].attempts)
                   ELSE run[r]]
    /\ UNCHANGED <<next_sequence, operations, released>>

Settled(s, class) ==
    Record(s, "terminal", TerminalOf(run[s].control), ClaimedClass(run[s].control, class),
           run[s].progress, run[s].attempts)

\* The claim of a terminal class.
Claims(s, class) ==
    /\ Current(s) /\ run[s].terminal = "none" /\ run[s].attempts = {}
    /\ run' = [run EXCEPT ![s] = Settled(s, class)]
    /\ UNCHANGED <<phase, next_sequence>>

\* The operation, with the record op, leaves the registry.
Frees(s, op) ==
    /\ Current(s) /\ op.attempts = {} /\ op.terminal # "none"
    /\ operations' = [operations EXCEPT ![run[s].operation_id] = 0]
    /\ released' = [released EXCEPT ![s] = Snapshot(op)]
    /\ UNCHANGED <<phase, next_sequence>>

Summary ==
    \/ Kept
    \/ \E id \in Ids : Added(id)
    \/ \E s \in Seqs, p \in {"reserved", "queued", "running", "terminal"},
          n \in 0 .. ProgressCapacity, A \in SUBSET Seqs : Moved(s, p, n, A)
    \/ \E s \in Seqs : Started(s)
    \/ \E S \in SUBSET Seqs : Stopped(S) /\ (phase' # phase => phase' = "quiescing" /\ S = Active)
    \/ \E s \in Seqs, class \in TerminalClasses :
          Claims(s, class) /\ UNCHANGED <<operations, released>>
    \/ \E s \in Seqs : Frees(s, run[s]) /\ UNCHANGED run
    \/ \E s \in Seqs, class \in TerminalClasses : Claims(s, class) /\ Frees(s, Settled(s, class))

\* The record of a reserved operation.
LEMMA ReservedRecord ==
    ASSUME NEW id
    PROVE  [NoRun EXCEPT !.kind = "operation", !.operation_id = id, !.phase = "reserved"] =
             Fresh("operation", id, "reserved", RUNNING)
<1>1. PICK x : x = [NoRun EXCEPT !.kind = "operation"]
  OBVIOUS
<1>2. x = Fresh("operation", "none", "none", RUNNING)
  BY <1>1 DEF NoRun, Fresh
<1>3. PICK y : y = [x EXCEPT !.operation_id = id]
  OBVIOUS
<1>4. y = Fresh("operation", id, "none", RUNNING)
  BY <1>2, <1>3 DEF Fresh
<1>5. [y EXCEPT !.phase = "reserved"] = Fresh("operation", id, "reserved", RUNNING)
  BY <1>4 DEF Fresh
<1> QED BY <1>1, <1>3, <1>5

\* The record of an attempt that starts.
LEMMA AttemptRecord ==
    ASSUME NEW id, NEW c
    PROVE  [NoRun EXCEPT !.kind = "attempt", !.operation_id = id, !.control = c] =
             Fresh("attempt", id, "none", c)
<1>1. PICK x : x = [NoRun EXCEPT !.kind = "attempt"]
  OBVIOUS
<1>2. x = Fresh("attempt", "none", "none", RUNNING)
  BY <1>1 DEF NoRun, Fresh
<1>3. PICK y : y = [x EXCEPT !.operation_id = id]
  OBVIOUS
<1>4. y = Fresh("attempt", id, "none", RUNNING)
  BY <1>2, <1>3 DEF Fresh
<1>5. [y EXCEPT !.control = c] = Fresh("attempt", id, "none", c)
  BY <1>4 DEF Fresh
<1> QED BY <1>1, <1>3, <1>5

\* The record of an operation after the claim of its run control.
LEMMA ClaimedRecord ==
    ASSUME RunTypes, NEW s \in Seqs, NEW class
    PROVE  Claimed(run[s], class) = Settled(s, class)
<1> DEFINE c == TerminalOf(run[s].control)
           t == ClaimedClass(run[s].control, class)
<1>0. run[s] \in Runs
  BY DEF RunTypes
<1>1. PICK x : x = [run[s] EXCEPT !.terminal = t]
  OBVIOUS
<1>2. x = Record(s, run[s].phase, run[s].control, t, run[s].progress, run[s].attempts)
  BY <1>0, <1>1 DEF Runs, Record
<1>3. PICK y : y = [x EXCEPT !.control = c]
  OBVIOUS
<1>4. y = Record(s, run[s].phase, c, t, run[s].progress, run[s].attempts)
  BY <1>2, <1>3 DEF Record
<1>5. [y EXCEPT !.phase = "terminal"] =
        Record(s, "terminal", c, t, run[s].progress, run[s].attempts)
  BY <1>4 DEF Record
<1> QED BY <1>1, <1>3, <1>5 DEF Claimed, Settled

\* A cancellation writes the run controls of the operations and their attempts.
LEMMA StoppedRecord ==
    ASSUME RunTypes, NEW S \in SUBSET Active, run' = Cancelled(S),
           UNCHANGED <<next_sequence, operations, released>>
    PROVE  Stopped(S)
<1>1. ASSUME NEW r \in Seqs, NEW c
      PROVE  [run[r] EXCEPT !.control = c] =
               Record(r, run[r].phase, c, run[r].terminal, run[r].progress, run[r].attempts)
  <2>1. run[r] \in Runs
    BY DEF RunTypes
  <2> QED BY <2>1 DEF Runs, Record
<1>2. \A r : r \in S \cup UNION {run[s].attempts : s \in S} <=>
               r \in S \/ \E s \in S : r \in run[s].attempts
  OBVIOUS
<1>3. Cancelled(S) =
        [r \in Seqs |->
                 IF r \in S \/ \E s \in S : r \in run[s].attempts
                   THEN Record(r, run[r].phase, CancelRequest(run[r].control), run[r].terminal,
                               run[r].progress, run[r].attempts)
                   ELSE run[r]]
  BY <1>1, <1>2 DEF Cancelled
<1> QED BY <1>3 DEF Stopped

\* A step that writes one field of an operation.
LEMMA FieldRecord ==
    ASSUME RunTypes, NEW s \in Seqs, NEW f
    PROVE  /\ [run[s] EXCEPT !.phase = f] =
                Record(s, f, run[s].control, run[s].terminal, run[s].progress, run[s].attempts)
           /\ [run[s] EXCEPT !.progress = f] =
                Record(s, run[s].phase, run[s].control, run[s].terminal, f, run[s].attempts)
           /\ [run[s] EXCEPT !.attempts = f] =
                Record(s, run[s].phase, run[s].control, run[s].terminal, run[s].progress, f)
<1>1. run[s] \in Runs
  BY DEF RunTypes
<1> QED BY <1>1 DEF Runs, Record

\* Sequences are allocated below the one without successor.
LEMMA Allocated == ASSUME RegistryTypes, CanAllocate PROVE next_sequence \in Seqs
BY CapacityAssumption DEF RegistryTypes, CanAllocate, Seqs

\* Who is registered under a public id is current.
LEMMA RegisteredCurrent ==
    ASSUME RegistryTypes, Registered, NEW id \in Ids, operations[id] # 0
    PROVE  operations[id] \in Seqs /\ Current(operations[id])
BY DEF RegistryTypes, Registered, Current

\* An identity that was handed out has its public id.
LEMMA BornIds ==
    ASSUME RegistryTypes, Born, NEW s \in Seqs, run[s].kind # "none"
    PROVE  s < next_sequence /\ run[s].operation_id \in Ids
<1>1. ~(s >= next_sequence)
  BY DEF Born, NoRun
<1> QED BY <1>1, CapacityAssumption DEF Born, RegistryTypes, Seqs

\* Every method of the supervisor does one of these to the operations.
LEMMA StepSummary ==
    ASSUME RegistryTypes, RunTypes, Born, Registered, [Next]_vars
    PROVE  Summary
<1>1. CASE \/ Resume \/ Close \/ UNCHANGED vars
           \/ \E w \in WorkerIds : NoteWorkerStarted(w) \/ NoteWorkerJoined(w)
           \/ \E v \in Waiters : \/ CheckReleased(v) \/ WaitTimeout(v)
                                \/ \E s \in Seqs : WaitReleased(v, s)
  <2>1. Kept
    BY <1>1 DEF Resume, Close, NoteWorkerStarted, NoteWorkerJoined, CheckReleased, WaitTimeout,
       WaitReleased, vars, Kept
  <2> QED BY <2>1 DEF Summary
<1>2. ASSUME NEW id \in Ids, Reserve(id) PROVE Summary
  <2>1. Added(id)
    BY <1>2, ReservedRecord, Allocated DEF Reserve, Added
  <2> QED BY <2>1 DEF Summary
<1>3. ASSUME NEW s \in Seqs, Queue(s) \/ Start(s) PROVE Summary
  <2>1. PICK p \in {"queued", "running"}, f \in {"reserved", "queued"} : Transition(s, f, p)
    BY <1>3 DEF Queue, Start
  <2>2. run' = [run EXCEPT ![s] =
                  Record(s, p, run[s].control, run[s].terminal, run[s].progress, run[s].attempts)]
    BY <2>1, FieldRecord DEF Transition
  <2>3. Moved(s, p, run[s].progress, run[s].attempts)
    BY <2>1, <2>2 DEF Transition, Moved
  <2>4. run[s].progress \in 0 .. ProgressCapacity /\ run[s].attempts \in SUBSET Seqs
    BY DEF RunTypes, Runs
  <2> QED BY <2>3, <2>4 DEF Summary
<1>4. ASSUME NEW s \in Seqs, PublishProgress(s) PROVE Summary
  <2>1. run' = [run EXCEPT ![s] = Record(s, run[s].phase, run[s].control, run[s].terminal,
                                         run[s].progress + 1, run[s].attempts)]
    BY <1>4, FieldRecord DEF PublishProgress
  <2>2. run[s].progress \in 0 .. ProgressCapacity /\ run[s].attempts \in SUBSET Seqs
    BY DEF RunTypes, Runs
  <2>3. run[s].phase = "running" /\ run[s].progress + 1 \in 0 .. ProgressCapacity
    BY <1>4, <2>2, CapacityAssumption DEF PublishProgress
  <2>4. Moved(s, "running", run[s].progress + 1, run[s].attempts)
    BY <1>4, <2>1, <2>3 DEF PublishProgress, Moved
  <2> QED BY <2>2, <2>3, <2>4 DEF Summary
<1>5. ASSUME NEW a \in Seqs, FinishAttempt(a) PROVE Summary
  <2>1. run[a].operation_id \in Ids
    BY <1>5, BornIds DEF FinishAttempt
  <2>2. PICK s \in Seqs : s = operations[run[a].operation_id] /\ Current(s)
    BY <1>5, <2>1, RegisteredCurrent DEF FinishAttempt
  <2>3. run' = [run EXCEPT ![s] = Record(s, run[s].phase, run[s].control, run[s].terminal,
                                         run[s].progress, run[s].attempts \ {a})]
    BY <1>5, <2>2, FieldRecord DEF FinishAttempt
  <2>4. /\ run[s].progress \in 0 .. ProgressCapacity /\ run[s].attempts \ {a} \in SUBSET Seqs
        /\ run[s].phase \in {"none", "reserved", "queued", "running", "terminal"}
    BY DEF RunTypes, Runs
  <2>5. Moved(s, run[s].phase, run[s].progress, run[s].attempts \ {a})
    BY <1>5, <2>2, <2>3 DEF FinishAttempt, Moved
  <2>6. run[s].phase # "none"
    BY <2>2 DEF Born, Current
  <2> QED BY <2>4, <2>5, <2>6 DEF Summary
<1>6. ASSUME NEW s \in Seqs, StartAttempt(s) PROVE Summary
  <2>1. next_sequence \in Seqs
    BY <1>6, Allocated DEF StartAttempt
  <2>2. Started(s)
    <3> DEFINE A == run[s].attempts \cup {next_sequence}
    <3>1. [run[s] EXCEPT !.attempts = A] =
            Record(s, run[s].phase, run[s].control, run[s].terminal, run[s].progress, A)
      BY FieldRecord
    <3>2. PICK c, id : /\ c = NewControl(CancellationRequested(run[s].control))
                       /\ id = run[s].operation_id
      OBVIOUS
    <3>3. PICK r : r = [NoRun EXCEPT !.kind = "attempt", !.operation_id = id, !.control = c]
      OBVIOUS
    <3>4. r = Fresh("attempt", id, "none", c)
      BY <3>3, AttemptRecord
    <3>5. run' = [run EXCEPT ![s] = [run[s] EXCEPT !.attempts = A], ![next_sequence] = r]
      BY <1>6, <3>2, <3>3 DEF StartAttempt
    <3> QED BY <1>6, <2>1, <3>1, <3>2, <3>4, <3>5 DEF StartAttempt, Started
  <2> QED BY <2>2 DEF Summary
<1>7. ASSUME NEW s \in Seqs, RequestCancel(s) PROVE Summary
  <2>1. {s} \subseteq Active
    BY <1>7 DEF RequestCancel, Active
  <2>2. Stopped({s}) /\ phase' = phase
    BY <1>7, <2>1, StoppedRecord DEF RequestCancel
  <2> QED BY <2>2 DEF Summary
<1>8. CASE Quiesce
  <2>1. Stopped(Active) /\ (phase' # phase => phase' = "quiescing")
    BY <1>8, StoppedRecord DEF Quiesce
  <2> QED BY <2>1 DEF Summary, Active
<1>9. ASSUME NEW s \in Seqs, NEW class \in TerminalClasses, Terminal(s, class) PROVE Summary
  <2>1. Claims(s, class) /\ UNCHANGED <<operations, released>>
    BY <1>9, ClaimedRecord DEF Terminal, Claims
  <2> QED BY <2>1 DEF Summary
<1>10. ASSUME NEW s \in Seqs, Release(s) PROVE Summary
  <2>1. run[s].terminal # "none"
    BY <1>10 DEF Release, Born, Current
  <2>2. Frees(s, run[s]) /\ UNCHANGED run
    BY <1>10, <2>1 DEF Release, Frees, Remove
  <2> QED BY <2>2 DEF Summary
<1>11. ASSUME NEW s \in Seqs, NEW class \in TerminalClasses, TerminalAndReleaseLocked(s, class)
       PROVE  Summary
  <2> DEFINE op == Settled(s, class)
  <2>1. /\ op.attempts = run[s].attempts /\ op.operation_id = run[s].operation_id
        /\ op.terminal = ClaimedClass(run[s].control, class)
    BY DEF Settled, Record
  <2>2. ClaimedClass(run[s].control, class) # "none"
    BY DEF ClaimedClass, TerminalClasses
  <2>3. Claimed(run[s], class) = op
    BY ClaimedRecord
  <2> HIDE DEF op
  <2>4. Claims(s, class)
    BY <1>11, <2>3 DEF TerminalAndReleaseLocked, Claims, op
  <2>5. Frees(s, op)
    BY <1>11, <2>1, <2>2, <2>3 DEF TerminalAndReleaseLocked, Frees, Remove
  <2> QED BY <2>4, <2>5 DEF Summary, op
<1>12. ASSUME NEW s \in Seqs, NEW class \in TerminalClasses,
              TerminalAndRelease(s, class) \/ FailAndRelease(s) \/ FinishOperation(s)
       PROVE  Summary
  <2>1. {"cancelled", "failed"} \subseteq TerminalClasses
    BY DEF TerminalClasses
  <2> QED BY <1>11, <1>12, <2>1 DEF TerminalAndRelease, FailAndRelease, FinishOperation
<1> QED BY <1>1, <1>2, <1>3, <1>4, <1>5, <1>6, <1>7, <1>8, <1>9, <1>10, <1>12
        DEF Next, TerminalClasses

-----------------------------------------------------------------------------
(* The parts of the invariant that follow from the summary.                *)

\* The records a step writes are well typed.
LEMMA RecordTypes ==
    ASSUME RunTypes, NEW s \in Seqs
    PROVE  /\ \A p \in {"reserved", "queued", "running", "terminal"},
                 n \in 0 .. ProgressCapacity, A \in SUBSET Seqs :
                Record(s, p, run[s].control, run[s].terminal, n, A) \in Runs
           /\ \A A \in SUBSET Seqs :
                Record(s, run[s].phase, run[s].control, run[s].terminal, run[s].progress, A) \in Runs
           /\ Record(s, run[s].phase, CancelRequest(run[s].control), run[s].terminal,
                     run[s].progress, run[s].attempts) \in Runs
           /\ \A class \in TerminalClasses : Settled(s, class) \in Runs
           /\ \A id \in Ids : Fresh("operation", id, "reserved", RUNNING) \in Runs
           /\ \A c \in BOOLEAN :
                Fresh("attempt", run[s].operation_id, "none", NewControl(c)) \in Runs
<1>0. run[s] \in Runs
  BY DEF RunTypes
<1>1. CancelRequest(run[s].control) \in RunStateSet
  BY <1>0 DEF Runs, CancelRequest, RunStateSet
<1>2. TerminalOf(run[s].control) \in RunStateSet
  BY DEF TerminalOf, RunStateSet
<1>3. \A class \in TerminalClasses : ClaimedClass(run[s].control, class) \in TerminalClasses
  BY DEF ClaimedClass, TerminalClasses
<1>4. \A c \in BOOLEAN : NewControl(c) \in RunStateSet
  BY DEF NewControl, RunStateSet
<1>5. RUNNING \in RunStateSet /\ 0 \in 0 .. ProgressCapacity
  BY CapacityAssumption DEF RunStateSet
<1>6. /\ \A p \in {"reserved", "queued", "running", "terminal"},
            n \in 0 .. ProgressCapacity, A \in SUBSET Seqs :
           Record(s, p, run[s].control, run[s].terminal, n, A) \in Runs
      /\ \A A \in SUBSET Seqs :
           Record(s, run[s].phase, run[s].control, run[s].terminal, run[s].progress, A) \in Runs
  BY <1>0 DEF Runs, Record
<1>7. Record(s, run[s].phase, CancelRequest(run[s].control), run[s].terminal,
             run[s].progress, run[s].attempts) \in Runs
  BY <1>0, <1>1 DEF Runs, Record
<1>8. \A class \in TerminalClasses : Settled(s, class) \in Runs
  BY <1>0, <1>2, <1>3 DEF Runs, Record, Settled
<1>9. \A id \in Ids : Fresh("operation", id, "reserved", RUNNING) \in Runs
  BY <1>5 DEF Runs, Fresh
<1>10. \A c \in BOOLEAN :
                Fresh("attempt", run[s].operation_id, "none", NewControl(c)) \in Runs
  BY <1>0, <1>4, <1>5 DEF Runs, Fresh
<1> QED BY <1>6, <1>7, <1>8, <1>9, <1>10

\* Operations and attempts keep their types.
LEMMA RunTypesStep ==
    ASSUME RegistryTypes, RunTypes, Summary
    PROVE  RunTypes'
<1>1. CASE Kept
  BY <1>1 DEF Kept, RunTypes
<1>2. ASSUME NEW id \in Ids, Added(id) PROVE RunTypes'
  BY <1>2, RecordTypes DEF Added, RunTypes
<1>3. ASSUME NEW s \in Seqs, NEW p \in {"reserved", "queued", "running", "terminal"},
             NEW n \in 0 .. ProgressCapacity, NEW A \in SUBSET Seqs, Moved(s, p, n, A)
      PROVE  RunTypes'
  BY <1>3, RecordTypes DEF Moved, RunTypes
<1>4. ASSUME NEW s \in Seqs, Started(s) PROVE RunTypes'
  <2>1. run[s].attempts \cup {next_sequence} \in SUBSET Seqs
    BY <1>4 DEF Started, RunTypes, Runs
  <2>2. CancellationRequested(run[s].control) \in BOOLEAN
    BY DEF CancellationRequested
  <2> QED BY <1>4, <2>1, <2>2, RecordTypes DEF Started, RunTypes
<1>5. ASSUME NEW S \in SUBSET Seqs, Stopped(S) PROVE RunTypes'
  BY <1>5, RecordTypes DEF Stopped, RunTypes
<1>6. ASSUME NEW s \in Seqs, NEW class \in TerminalClasses, Claims(s, class) PROVE RunTypes'
  BY <1>6, RecordTypes DEF Claims, RunTypes
<1>7. CASE run' = run
  BY <1>7 DEF RunTypes
<1> QED BY <1>1, <1>2, <1>3, <1>4, <1>5, <1>6, <1>7 DEF Summary

\* The sequence and the entries keep their types.
LEMMA RegistryTypesStep ==
    ASSUME RegistryTypes, RunTypes, Born, Summary
    PROVE  RegistryTypes'
<1>1. next_sequence' \in 1 .. MaxSequence
  <2>1. \/ next_sequence' = next_sequence
        \/ next_sequence \in Seqs /\ next_sequence' = next_sequence + 1
    BY DEF Summary, Kept, Added, Moved, Started, Stopped, Claims, Frees
  <2> QED BY <2>1, CapacityAssumption DEF RegistryTypes, Seqs
<1>2. phase' \in {"running", "quiescing", "closed"}
  BY DEF RegistryTypes, Summary, Kept, Added, Moved, Started, Stopped, Claims, Frees
<1>3. operations' \in [Ids -> Seqs \cup {0}]
  BY DEF RegistryTypes, Summary, Kept, Added, Moved, Started, Stopped, Claims, Frees
<1> QED BY <1>1, <1>2, <1>3 DEF RegistryTypes

\* A released snapshot keeps its type: it is taken with the class.
LEMMA ReleasedTypesStep ==
    ASSUME RunTypes, ReleasedTypes, Summary
    PROVE  ReleasedTypes'
<1>0. ASSUME NEW op \in Runs, op.terminal # "none"
      PROVE  Snapshot(op) \in [phase : {"released"}, cancellation_requested : BOOLEAN,
                               terminal : TerminalClasses, progress : 0 .. ProgressCapacity]
  <2>1. CancellationRequested(op.control) \in BOOLEAN
    BY DEF CancellationRequested
  <2>2. op.terminal \in TerminalClasses /\ op.progress \in 0 .. ProgressCapacity
    BY <1>0 DEF Runs
  <2> QED BY <2>1, <2>2 DEF Snapshot
<1>1. CASE released' = released
  BY <1>1 DEF ReleasedTypes
<1>2. ASSUME NEW s \in Seqs, NEW op \in Runs, Frees(s, op) PROVE ReleasedTypes'
  <2>1. Snapshot(op) \in [phase : {"released"}, cancellation_requested : BOOLEAN,
                          terminal : TerminalClasses, progress : 0 .. ProgressCapacity]
    BY <1>0, <1>2 DEF Frees
  <2>2. released' = [released EXCEPT ![s] = Snapshot(op)]
    BY <1>2 DEF Frees
  <2> QED BY <2>1, <2>2 DEF ReleasedTypes
<1>3. \A s \in Seqs : run[s] \in Runs /\ \A class \in TerminalClasses : Settled(s, class) \in Runs
  BY RecordTypes DEF RunTypes
<1> QED BY <1>1, <1>2, <1>3 DEF Summary, Kept, Added, Moved, Started, Stopped

\* A run control that is claimed or asked to stop.
LEMMA Controls ==
    \A c \in RunStateSet :
      /\ IsTerminal(TerminalOf(c)) /\ TerminalOf(c) # RUNNING
      /\ IsTerminal(CancelRequest(c)) = IsTerminal(c)
      /\ ~IsTerminal(c) => CancelRequest(c) = CANCEL_REQUESTED
      /\ ~IsTerminal(c) => c \in {RUNNING, CANCEL_REQUESTED}
      /\ c \in {RUNNING, CANCEL_REQUESTED} => CancelRequest(c) = CANCEL_REQUESTED
      /\ CancellationRequested(CancelRequest(c)) \/ CancelRequest(c) = TERMINAL
      /\ ~IsTerminal(c) /\ c # RUNNING => CancellationRequested(c)
      /\ NewControl(CancellationRequested(c)) \in {RUNNING, CANCEL_REQUESTED}
      /\ CancellationRequested(c) => NewControl(CancellationRequested(c)) = CANCEL_REQUESTED
      /\ CancellationRequested(c) => c # RUNNING
BY DEF RunStateSet, RUNNING, CANCEL_REQUESTED, TERMINAL, TERMINAL_CANCELLED, IsTerminal,
   TerminalOf, CancelRequest, CancellationRequested, NewControl

\* What Born says of one identity, so that a step is checked record by record.
BornAt(s, r, n, snapshot) ==
    /\ s >= n => r = NoRun
    /\ s < n => r.kind # "none" /\ r.operation_id \in Ids
    /\ r.kind # "operation" => r.attempts = {} /\ snapshot = NoSnapshot
    /\ r.kind = "attempt" => r.control \in {RUNNING, CANCEL_REQUESTED}
    /\ r.kind = "operation" =>
         /\ r.phase # "none"
         /\ (r.terminal # "none") = IsTerminal(r.control)
         /\ (r.terminal # "none") = (r.phase = "terminal")

\* Identities are handed out in order, and the class is written with the claim.
LEMMA BornStep ==
    ASSUME RegistryTypes, RunTypes, ReleasedTypes, Born, Registered, Anchored, Summary
    PROVE  Born'
<1>0. \A s \in Seqs : BornAt(s, run[s], next_sequence, released[s])
  BY DEF Born, BornAt
<1> SUFFICES \A s \in Seqs : BornAt(s, run'[s], next_sequence', released'[s])
  BY DEF Born, BornAt
<1>t. \A s \in Seqs : run[s].control \in RunStateSet /\ run[s] \in Runs
  BY DEF RunTypes, Runs
<1>n. next_sequence \in Int
  BY CapacityAssumption DEF RegistryTypes
<1>c. \A s \in Seqs : Current(s) => s < next_sequence
  BY BornIds DEF Current
<1>1. CASE Kept
  BY <1>0, <1>1 DEF Kept
<1>2. ASSUME NEW id \in Ids, Added(id)
      PROVE  \A s \in Seqs : BornAt(s, run'[s], next_sequence', released'[s])
  <2>1. BornAt(next_sequence, Fresh("operation", id, "reserved", RUNNING), next_sequence + 1,
               released[next_sequence])
    BY <1>n DEF BornAt, Fresh, IsTerminal, RUNNING, TERMINAL, TERMINAL_CANCELLED
  <2>2. \A s \in Seqs \ {next_sequence} : BornAt(s, run[s], next_sequence + 1, released[s])
    BY <1>0, <1>n DEF BornAt, Seqs
  <2> QED BY <1>2, <2>1, <2>2 DEF Added, RunTypes
<1>3. ASSUME NEW s \in Seqs, NEW p \in {"reserved", "queued", "running", "terminal"},
             NEW n \in 0 .. ProgressCapacity, NEW A \in SUBSET Seqs, Moved(s, p, n, A)
      PROVE  \A r \in Seqs : BornAt(r, run'[r], next_sequence', released'[r])
  <2>1. Current(s) /\ s < next_sequence /\ s \in Int
    BY <1>3, <1>c DEF Moved, Seqs
  <2>2. BornAt(s, Record(s, p, run[s].control, run[s].terminal, n, A), next_sequence, released[s])
    BY <1>0, <1>3, <1>n, <2>1 DEF BornAt, Record, Moved, Current
  <2> QED BY <1>0, <1>3, <2>2 DEF Moved, RunTypes
<1>4. ASSUME NEW s \in Seqs, Started(s)
      PROVE  \A r \in Seqs : BornAt(r, run'[r], next_sequence', released'[r])
  <2> DEFINE c == NewControl(CancellationRequested(run[s].control))
  <2>1. Current(s) /\ s < next_sequence /\ s # next_sequence /\ s \in Int
    BY <1>4, <1>c, <1>n DEF Started, Seqs
  <2>2. BornAt(s, Record(s, run[s].phase, run[s].control, run[s].terminal, run[s].progress,
                         run[s].attempts \cup {next_sequence}), next_sequence + 1, released[s])
    BY <1>0, <1>n, <2>1 DEF BornAt, Record, Current
  <2>3. run[s].operation_id \in Ids /\ released[next_sequence] = NoSnapshot
    BY <1>0, <1>4, <1>n, <2>1 DEF BornAt, Started, NoRun
  <2>4. c \in {RUNNING, CANCEL_REQUESTED}
    BY <1>t, Controls
  <2> HIDE DEF c
  <2>5. BornAt(next_sequence, Fresh("attempt", run[s].operation_id, "none", c), next_sequence + 1,
               released[next_sequence])
    BY <1>n, <2>3, <2>4 DEF BornAt, Fresh
  <2>6. \A r \in Seqs \ {next_sequence} : BornAt(r, run[r], next_sequence + 1, released[r])
    BY <1>0, <1>n DEF BornAt, Seqs
  <2>7. /\ run'[next_sequence] = Fresh("attempt", run[s].operation_id, "none", c)
        /\ run'[s] = Record(s, run[s].phase, run[s].control, run[s].terminal, run[s].progress,
                            run[s].attempts \cup {next_sequence})
        /\ \A r \in Seqs \ {s, next_sequence} : run'[r] = run[r]
        /\ next_sequence' = next_sequence + 1 /\ released' = released
    BY <1>4, <2>1 DEF Started, RunTypes, c
  <2> QED BY <2>2, <2>5, <2>6, <2>7
<1>5. ASSUME NEW S \in SUBSET Seqs, Stopped(S)
      PROVE  \A r \in Seqs : BornAt(r, run'[r], next_sequence', released'[r])
  <2> SUFFICES ASSUME NEW r \in Seqs PROVE BornAt(r, run'[r], next_sequence, released[r])
    BY <1>5 DEF Stopped
  <2>1. CASE run'[r] = run[r]
    BY <1>0, <2>1
  <2>2. CASE /\ r \in S \/ \E s \in S : r \in run[s].attempts
             /\ run'[r] = Record(r, run[r].phase, CancelRequest(run[r].control), run[r].terminal,
                                 run[r].progress, run[r].attempts)
    <3>1. run[r].kind # "none" /\ r < next_sequence /\ r \in Int
      <4>1. run[r].kind # "none"
        BY <1>5, <2>2 DEF Stopped, Active, Current, Anchored
      <4> QED BY <4>1, BornIds DEF Seqs
    <3>2. /\ IsTerminal(CancelRequest(run[r].control)) = IsTerminal(run[r].control)
          /\ run[r].control \in {RUNNING, CANCEL_REQUESTED} =>
               CancelRequest(run[r].control) \in {RUNNING, CANCEL_REQUESTED}
      BY <1>t, Controls
    <3> QED BY <1>0, <1>n, <2>2, <3>1, <3>2 DEF BornAt, Record
  <2> QED BY <1>5, <2>1, <2>2 DEF Stopped
<1>6. ASSUME NEW s \in Seqs, NEW class \in TerminalClasses, Claims(s, class)
      PROVE  /\ run' = [run EXCEPT ![s] = Settled(s, class)]
             /\ \A snapshot : BornAt(s, Settled(s, class), next_sequence, snapshot)
             /\ next_sequence' = next_sequence
  <2>1. Current(s) /\ s < next_sequence /\ s \in Int /\ run[s].operation_id \in Ids
    BY <1>6, <1>c, BornIds DEF Claims, Seqs, Current
  <2>2. IsTerminal(TerminalOf(run[s].control)) /\ ClaimedClass(run[s].control, class) # "none"
    BY <1>t, Controls DEF ClaimedClass, TerminalClasses
  <2> DEFINE r == Settled(s, class)
  <2>3. /\ r.kind = "operation" /\ r.operation_id = run[s].operation_id /\ r.phase = "terminal"
        /\ r.control = TerminalOf(run[s].control)
        /\ r.terminal = ClaimedClass(run[s].control, class)
    BY <2>1 DEF Settled, Record, Current
  <2> HIDE DEF r
  <2>4. ~(s >= next_sequence)
    BY <1>n, <2>1
  <2>5. (r.terminal # "none") = IsTerminal(r.control)
    BY <2>2, <2>3 DEF IsTerminal
  <2>6. (r.terminal # "none") = (r.phase = "terminal")
    BY <2>2, <2>3
  <2>7. ASSUME NEW snapshot PROVE BornAt(s, r, next_sequence, snapshot)
    BY <2>1, <2>3, <2>4, <2>5, <2>6 DEF BornAt
  <2> QED BY <1>6, <2>7 DEF Claims, r
<1>7. ASSUME NEW s \in Seqs, NEW class \in TerminalClasses, Claims(s, class),
             released' = released \/ Frees(s, Settled(s, class))
      PROVE  \A r \in Seqs : BornAt(r, run'[r], next_sequence', released'[r])
  <2>1. \A r \in Seqs \ {s} : released'[r] = released[r]
    BY <1>7 DEF Frees, ReleasedTypes
  <2> QED BY <1>0, <1>6, <1>7, <2>1 DEF RunTypes
<1>8. ASSUME NEW s \in Seqs, Frees(s, run[s]), UNCHANGED run
      PROVE  \A r \in Seqs : BornAt(r, run'[r], next_sequence', released'[r])
  <2>1. \A snapshot : BornAt(s, run[s], next_sequence, snapshot)
    BY <1>0, <1>8 DEF BornAt, Frees, Current
  <2>2. \A r \in Seqs \ {s} : released'[r] = released[r]
    BY <1>8 DEF Frees, ReleasedTypes
  <2> QED BY <1>0, <1>8, <2>1, <2>2 DEF Frees
<1> QED BY <1>1, <1>2, <1>3, <1>4, <1>5, <1>7, <1>8 DEF Summary

\* A public id is taken by a reservation and freed with the snapshot.
LEMMA RegisteredStep ==
    ASSUME RegistryTypes, RunTypes, ReleasedTypes, Born, Registered, Anchored, Summary
    PROVE  Registered'
<1>n. next_sequence \in Int /\ 0 \notin Seqs
  BY CapacityAssumption DEF RegistryTypes, Seqs
<1>s. \A op : Snapshot(op) # NoSnapshot
  BY DEF Snapshot, NoSnapshot
<1>i. \A s \in Seqs : run[s].kind # "none" => run[s].operation_id \in Ids /\ s < next_sequence
  BY BornIds
\* A step that changes no kind, no public id, no entry and no snapshot.
<1>k. ASSUME UNCHANGED <<operations, released>>,
             \A s \in Seqs :
               /\ run'[s].kind = run[s].kind /\ run'[s].operation_id = run[s].operation_id
               /\ released[s] # NoSnapshot => /\ run'[s].terminal # "none" \/ run[s].terminal = "none"
                                              /\ run'[s].attempts = {} \/ run[s].attempts # {}
      PROVE  Registered'
  BY <1>k, <1>i, <1>n DEF Registered, RegistryTypes
<1>1. CASE Kept
  BY <1>1 DEF Kept, Registered
<1>2. ASSUME NEW id \in Ids, Added(id) PROVE Registered'
  <2>1. /\ run'[next_sequence].kind = "operation" /\ run'[next_sequence].operation_id = id
        /\ \A s \in Seqs \ {next_sequence} : run'[s] = run[s]
        /\ next_sequence \in Seqs /\ operations[id] = 0 /\ released' = released
        /\ operations' = [operations EXCEPT ![id] = next_sequence]
    BY <1>2 DEF Added, RunTypes, Fresh
  <2>2. run[next_sequence] = NoRun /\ released[next_sequence] = NoSnapshot
    <3>1. run[next_sequence] = NoRun
      BY <1>n, <2>1 DEF Born
    <3>2. run[next_sequence].kind # "operation"
      BY <3>1 DEF NoRun
    <3> QED BY <2>1, <3>1, <3>2 DEF Born
  <2>3. \A i \in Ids : operations[i] # next_sequence
    BY <2>1, <2>2, <1>n DEF Registered, NoRun
  <2>4. ASSUME NEW i \in Ids, operations'[i] # 0
        PROVE  run'[operations'[i]].kind = "operation" /\ run'[operations'[i]].operation_id = i
    <3>1. CASE i = id
      BY <2>1, <3>1 DEF RegistryTypes
    <3>2. CASE i # id
      <4>1. operations'[i] = operations[i] /\ operations[i] # 0
        BY <2>1, <2>4, <3>2 DEF RegistryTypes
      <4>2. operations[i] \in Seqs \ {next_sequence}
        BY <2>3, <4>1 DEF RegistryTypes
      <4>3. run'[operations[i]] = run[operations[i]]
        BY <2>1, <4>2
      <4> QED BY <4>1, <4>3 DEF Registered
    <3> QED BY <3>1, <3>2
  <2>5. ASSUME NEW s \in Seqs, run'[s].kind = "operation"
        PROVE  /\ (operations'[run'[s].operation_id] = s) = (released'[s] = NoSnapshot)
               /\ released'[s] # NoSnapshot => run'[s].terminal # "none" /\ run'[s].attempts = {}
    <3>1. CASE s = next_sequence
      BY <2>1, <2>2, <3>1 DEF RegistryTypes
    <3>2. CASE s # next_sequence
      <4>1. run'[s] = run[s] /\ run[s].kind = "operation" /\ run[s].operation_id \in Ids
        BY <2>1, <2>5, <3>2, <1>i
      <4>2. (operations'[run[s].operation_id] = s) = (operations[run[s].operation_id] = s)
        BY <2>1, <3>2, <4>1, <1>n DEF RegistryTypes
      <4> QED BY <2>1, <4>1, <4>2 DEF Registered
    <3> QED BY <3>1, <3>2
  <2> QED BY <2>4, <2>5 DEF Registered
<1>3. ASSUME NEW s \in Seqs, NEW p \in {"reserved", "queued", "running", "terminal"},
             NEW n \in 0 .. ProgressCapacity, NEW A \in SUBSET Seqs, Moved(s, p, n, A)
      PROVE  Registered'
  <2>1. released[s] = NoSnapshot
    BY <1>3 DEF Moved, Registered, Current
  <2> QED BY <1>3, <1>k, <2>1 DEF Moved, Record, RunTypes
<1>4. ASSUME NEW s \in Seqs, Started(s) PROVE Registered'
  <2>1. s # next_sequence /\ next_sequence \in Seqs /\ Current(s) /\ released[s] = NoSnapshot
    BY <1>4, <1>i, <1>n DEF Started, Current, Registered, Seqs
  <2>2. /\ run'[next_sequence].kind = "attempt"
        /\ run'[s].kind = "operation" /\ run'[s].operation_id = run[s].operation_id
        /\ \A r \in Seqs \ {s, next_sequence} : run'[r] = run[r]
        /\ UNCHANGED <<operations, released>>
    BY <1>4, <2>1 DEF Started, RunTypes, Fresh, Record, Current
  <2>3. run[next_sequence] = NoRun
    BY <1>n, <2>1 DEF Born
  <2>4. \A i \in Ids : operations[i] # next_sequence
    BY <2>1, <2>3, <1>n DEF Registered, NoRun
  <2>5. \A r \in Seqs \ {next_sequence} :
          run'[r].kind = run[r].kind /\ run'[r].operation_id = run[r].operation_id
    BY <2>1, <2>2 DEF Current
  <2>6. ASSUME NEW i \in Ids, operations'[i] # 0
        PROVE  run'[operations'[i]].kind = "operation" /\ run'[operations'[i]].operation_id = i
    <3>1. operations'[i] = operations[i] /\ operations[i] \in Seqs \ {next_sequence}
      BY <2>2, <2>4, <2>6 DEF RegistryTypes
    <3> QED BY <2>5, <2>6, <3>1 DEF Registered
  <2>7. ASSUME NEW r \in Seqs, run'[r].kind = "operation"
        PROVE  /\ (operations'[run'[r].operation_id] = r) = (released'[r] = NoSnapshot)
               /\ released'[r] # NoSnapshot => run'[r].terminal # "none" /\ run'[r].attempts = {}
    <3>1. r # next_sequence
      BY <2>2, <2>7
    <3>2. run[r].kind = "operation" /\ run'[r].operation_id = run[r].operation_id
      BY <2>5, <2>7, <3>1
    <3>3. r # s => run'[r] = run[r]
      BY <2>2, <3>1
    <3> QED BY <2>1, <2>2, <3>2, <3>3 DEF Registered
  <2> QED BY <2>6, <2>7 DEF Registered
<1>5. ASSUME NEW S \in SUBSET Seqs, Stopped(S) PROVE Registered'
  <2>1. \A r \in Seqs : /\ run'[r].kind = run[r].kind /\ run'[r].operation_id = run[r].operation_id
                        /\ run'[r].terminal = run[r].terminal /\ run'[r].attempts = run[r].attempts
    BY <1>5 DEF Stopped, Record
  <2> QED BY <1>5, <1>k, <2>1 DEF Stopped
<1>6. ASSUME NEW s \in Seqs, NEW class \in TerminalClasses, Claims(s, class)
      PROVE  \A r \in Seqs :
               /\ run'[r].kind = run[r].kind /\ run'[r].operation_id = run[r].operation_id
               /\ run'[r].attempts = run[r].attempts
               /\ run'[r].terminal # "none" \/ run[r].terminal = "none"
  <2>1. ClaimedClass(run[s].control, class) # "none"
    BY DEF ClaimedClass, TerminalClasses
  <2> QED BY <1>6, <2>1 DEF Claims, Settled, Record, RunTypes
<1>7. ASSUME NEW s \in Seqs, NEW class \in TerminalClasses, Claims(s, class),
             UNCHANGED <<operations, released>>
      PROVE  Registered'
  BY <1>k, <1>6, <1>7
<1>8. ASSUME NEW s \in Seqs, NEW op, Frees(s, op), run'[s].terminal # "none",
             \A r \in Seqs :
               /\ run'[r].kind = run[r].kind /\ run'[r].operation_id = run[r].operation_id
               /\ run'[r].attempts = run[r].attempts
               /\ run'[r].terminal # "none" \/ run[r].terminal = "none",
             run[s].attempts = {}
      PROVE  Registered'
  <2>1. /\ Current(s) /\ run[s].operation_id \in Ids /\ operations[run[s].operation_id] = s
        /\ operations' = [operations EXCEPT ![run[s].operation_id] = 0]
        /\ released'[s] # NoSnapshot
        /\ \A r \in Seqs \ {s} : released'[r] = released[r]
    BY <1>8, <1>s, <1>i DEF Frees, Current, ReleasedTypes
  <2>2. ASSUME NEW i \in Ids, operations'[i] # 0
        PROVE  run'[operations'[i]].kind = "operation" /\ run'[operations'[i]].operation_id = i
    BY <1>8, <2>1, <2>2 DEF Registered, RegistryTypes
  <2>3. ASSUME NEW r \in Seqs, run'[r].kind = "operation"
        PROVE  /\ (operations'[run'[r].operation_id] = r) = (released'[r] = NoSnapshot)
               /\ released'[r] # NoSnapshot => run'[r].terminal # "none" /\ run'[r].attempts = {}
    <3>0. run[r].kind = "operation" /\ run[r].operation_id \in Ids
          /\ run'[r].operation_id = run[r].operation_id
      BY <1>8, <2>3, <1>i
    <3>1. CASE r = s
      BY <1>8, <2>1, <3>0, <3>1, <1>n DEF RegistryTypes
    <3>2. CASE r # s
      <4>1. (operations'[run[r].operation_id] = r) = (operations[run[r].operation_id] = r)
        BY <2>1, <3>0, <3>2, <1>n DEF RegistryTypes
      <4> QED BY <1>8, <2>1, <3>0, <3>2, <4>1 DEF Registered
    <3> QED BY <3>1, <3>2
  <2> QED BY <2>2, <2>3 DEF Registered
<1>9. ASSUME NEW s \in Seqs, Frees(s, run[s]), UNCHANGED run PROVE Registered'
  BY <1>8, <1>9 DEF Frees
<1>10. ASSUME NEW s \in Seqs, NEW class \in TerminalClasses, Claims(s, class),
              Frees(s, Settled(s, class))
       PROVE  Registered'
  <2>1. run[s].attempts = {} /\ run'[s].terminal # "none"
    BY <1>10 DEF Claims, Frees, RunTypes
  <2> QED BY <1>6, <1>8, <1>10, <2>1
<1> QED BY <1>1, <1>2, <1>3, <1>4, <1>5, <1>7, <1>9, <1>10 DEF Summary

\* Who has attempts is registered.
LEMMA HoldersCurrent ==
    ASSUME Born, Registered, NEW s \in Seqs, run[s].attempts # {}
    PROVE  Current(s) /\ run[s].kind = "operation"
BY DEF Born, Registered, Current

\* The record of the identity that is handed out next, and the others.
LEMMA NextUnborn ==
    ASSUME RegistryTypes, Born, next_sequence \in Seqs
    PROVE  /\ run[next_sequence] = NoRun
           /\ run[next_sequence].kind = "none" /\ run[next_sequence].attempts = {}
<1>1. next_sequence >= next_sequence
  BY CapacityAssumption DEF RegistryTypes
<1>2. run[next_sequence] = NoRun
  BY <1>1 DEF Born
<1> QED BY <1>2 DEF NoRun

\* What Anchored says of an operation s and an attempt a, with the records r and
\* t and the phase p.
AnchoredAt(r, t, p) ==
    /\ t.kind = "attempt" /\ t.operation_id = r.operation_id
    /\ (p = "quiescing" /\ r.terminal = "none") \/ CancellationRequested(r.control)
         => t.control = CANCEL_REQUESTED

\* An attempt starts with what its operation knows of a cancellation, and a
\* cancellation reaches the attempts of the operation.
LEMMA AnchoredStep ==
    ASSUME RegistryTypes, RunTypes, Born, Registered, Anchored, Asked, Summary
    PROVE  Anchored'
<1>0. \A s \in Seqs, a \in Seqs : a \in run[s].attempts => AnchoredAt(run[s], run[a], phase)
  BY DEF Anchored, AnchoredAt
<1>q. \A s \in Seqs, a \in Seqs : a \in run[s].attempts =>
        Current(s) /\ run[s].kind = "operation" /\ run[a].kind = "attempt"
  BY <1>0, HoldersCurrent DEF AnchoredAt
<1> DEFINE Goal == \A s \in Seqs, a \in Seqs :
                     a \in run'[s].attempts => AnchoredAt(run'[s], run'[a], phase')
<1> SUFFICES Goal
  BY DEF Anchored, AnchoredAt
<1>t. \A s \in Seqs : run[s].control \in RunStateSet
  BY DEF RunTypes, Runs
<1>1. ASSUME Kept PROVE Goal
  BY <1>0, <1>1 DEF Kept, AnchoredAt
<1>2. ASSUME NEW id \in Ids, Added(id) PROVE Goal
  <2>1. /\ run'[next_sequence].attempts = {} /\ next_sequence \in Seqs /\ phase' = phase
        /\ \A s \in Seqs \ {next_sequence} : run'[s] = run[s]
    BY <1>2 DEF Added, RunTypes, Fresh
  <2>2. run[next_sequence].kind = "none"
    BY <2>1, NextUnborn
  <2>3. ASSUME NEW s \in Seqs, NEW a \in Seqs, a \in run'[s].attempts
        PROVE  AnchoredAt(run'[s], run'[a], phase')
    <3>1. s # next_sequence /\ run'[s] = run[s]
      BY <2>1, <2>3
    <3>2. a # next_sequence /\ run'[a] = run[a]
      BY <1>q, <2>1, <2>2, <2>3, <3>1
    <3> QED BY <1>0, <2>1, <2>3, <3>1, <3>2
  <2> QED BY <2>3
<1>3. ASSUME NEW s \in Seqs, NEW p \in {"reserved", "queued", "running", "terminal"},
             NEW n \in 0 .. ProgressCapacity, NEW A \in SUBSET Seqs, Moved(s, p, n, A)
      PROVE  Goal
  <2>1. /\ Current(s) /\ phase' = phase
        /\ run'[s].attempts \subseteq run[s].attempts /\ run'[s].operation_id = run[s].operation_id
        /\ run'[s].terminal = run[s].terminal /\ run'[s].control = run[s].control
        /\ \A r \in Seqs \ {s} : run'[r] = run[r]
    BY <1>3 DEF Moved, Record, RunTypes
  <2>2. ASSUME NEW r \in Seqs, NEW a \in Seqs, a \in run'[r].attempts
        PROVE  AnchoredAt(run'[r], run'[a], phase')
    <3>1. a \in run[r].attempts
      BY <2>1, <2>2
    <3>2. a # s /\ run'[a] = run[a]
      BY <1>q, <2>1, <3>1 DEF Current
    <3>3. /\ run'[r].operation_id = run[r].operation_id
          /\ run'[r].terminal = run[r].terminal /\ run'[r].control = run[r].control
      BY <2>1
    <3> QED BY <1>0, <2>1, <3>1, <3>2, <3>3 DEF AnchoredAt
  <2> QED BY <2>2
<1>4. ASSUME NEW s \in Seqs, Started(s) PROVE Goal
  <2> DEFINE c == NewControl(CancellationRequested(run[s].control))
  <2>1. next_sequence \in Seqs /\ Current(s)
    BY <1>4 DEF Started
  <2>2. s # next_sequence
    BY <2>1, NextUnborn DEF Current
  <2>3. /\ run'[next_sequence] = Fresh("attempt", run[s].operation_id, "none", c)
        /\ run'[s] = Record(s, run[s].phase, run[s].control, run[s].terminal, run[s].progress,
                            run[s].attempts \cup {next_sequence})
        /\ \A r \in Seqs \ {s, next_sequence} : run'[r] = run[r]
        /\ phase' = phase
    BY <1>4, <2>1, <2>2 DEF Started, RunTypes
  <2>4. (phase = "quiescing" /\ run[s].terminal = "none") \/ CancellationRequested(run[s].control)
          => c = CANCEL_REQUESTED
    <3>1. phase = "quiescing" /\ run[s].terminal = "none" => run[s].control = CANCEL_REQUESTED
      BY <2>1 DEF Asked
    <3>2. run[s].control = CANCEL_REQUESTED => CancellationRequested(run[s].control)
      BY DEF CancellationRequested
    <3> QED BY <1>t, <3>1, <3>2, Controls
  <2> HIDE DEF c
  <2>5. /\ run'[next_sequence].kind = "attempt" /\ run'[next_sequence].attempts = {}
        /\ run'[next_sequence].operation_id = run[s].operation_id
        /\ run'[next_sequence].control = c
    BY <2>3 DEF Fresh
  <2>6. /\ run'[s].operation_id = run[s].operation_id /\ run'[s].terminal = run[s].terminal
        /\ run'[s].control = run[s].control
        /\ run'[s].attempts = run[s].attempts \cup {next_sequence}
    BY <2>3 DEF Record
  <2>7. ASSUME NEW r \in Seqs, NEW a \in Seqs, a \in run'[r].attempts
        PROVE  AnchoredAt(run'[r], run'[a], phase')
    <3>1. r # next_sequence
      BY <2>5, <2>7
    <3>2. CASE r = s /\ a = next_sequence
      BY <2>3, <2>4, <2>5, <2>6, <3>2 DEF AnchoredAt
    <3>3. CASE ~(r = s /\ a = next_sequence)
      <4>1. a \in run[r].attempts
        BY <2>3, <2>6, <2>7, <3>1, <3>3
      <4>2. a # s /\ a # next_sequence
        BY <1>q, <2>1, <4>1, NextUnborn DEF Current
      <4>3. /\ run'[r].operation_id = run[r].operation_id
            /\ run'[r].terminal = run[r].terminal /\ run'[r].control = run[r].control
        BY <2>3, <2>6, <3>1
      <4> QED BY <1>0, <2>3, <4>1, <4>2, <4>3 DEF AnchoredAt
    <3> QED BY <3>2, <3>3
  <2> QED BY <2>7
<1>5. ASSUME NEW S \in SUBSET Seqs, Stopped(S),
             phase' # phase => phase' = "quiescing" /\ S = Active
      PROVE  Goal
  <2>1. ASSUME NEW r \in Seqs
        PROVE  /\ run'[r].kind = run[r].kind /\ run'[r].operation_id = run[r].operation_id
               /\ run'[r].terminal = run[r].terminal /\ run'[r].attempts = run[r].attempts
               /\ \/ /\ run'[r] = run[r] /\ r \notin S /\ \A s \in S : r \notin run[s].attempts
                  \/ /\ run'[r].control = CancelRequest(run[r].control)
                     /\ r \in S \/ \E s \in S : r \in run[s].attempts
    BY <1>5 DEF Stopped, Record
  <2>2. ASSUME NEW s \in Seqs, NEW a \in Seqs, a \in run'[s].attempts
        PROVE  AnchoredAt(run'[s], run'[a], phase')
    <3>1. a \in run[s].attempts /\ AnchoredAt(run[s], run[a], phase)
      BY <1>0, <2>1, <2>2
    <3>2. run'[a].kind = "attempt" /\ run'[a].operation_id = run'[s].operation_id
      BY <2>1, <3>1 DEF AnchoredAt
    <3>3. run[a].control \in {RUNNING, CANCEL_REQUESTED}
      BY <3>1 DEF AnchoredAt, Born
    <3>4. CancelRequest(run[a].control) = CANCEL_REQUESTED
      BY <3>3, Controls, <1>t
    <3>5. CASE s \in S
      BY <2>1, <3>1, <3>2, <3>4, <3>5 DEF AnchoredAt
    <3>6. CASE s \notin S
      <4>1. Current(s) /\ run[s].kind = "operation"
        BY <1>q, <3>1
      <4>2. run'[s] = run[s]
        BY <1>q, <2>1, <3>6, <4>1
      <4>3. phase' = phase
        BY <1>5, <3>6, <4>1 DEF Active
      <4>4. run'[a].control \in {run[a].control, CANCEL_REQUESTED}
        BY <2>1, <3>4
      <4> QED BY <3>1, <3>2, <4>2, <4>3, <4>4 DEF AnchoredAt
    <3> QED BY <3>5, <3>6
  <2> QED BY <2>2
<1>6. ASSUME NEW s \in Seqs, NEW class \in TerminalClasses, Claims(s, class) PROVE Goal
  <2>1. /\ Current(s) /\ phase' = phase /\ run'[s].attempts = {}
        /\ \A r \in Seqs \ {s} : run'[r] = run[r]
    BY <1>6 DEF Claims, Settled, Record, RunTypes
  <2>2. ASSUME NEW r \in Seqs, NEW a \in Seqs, a \in run'[r].attempts
        PROVE  AnchoredAt(run'[r], run'[a], phase')
    <3>1. r # s /\ run'[r] = run[r]
      BY <2>1, <2>2
    <3>2. a # s /\ run'[a] = run[a]
      BY <1>q, <2>1, <2>2, <3>1 DEF Current
    <3> QED BY <1>0, <2>1, <2>2, <3>1, <3>2
  <2> QED BY <2>2
<1>7. ASSUME NEW s \in Seqs, Frees(s, run[s]), UNCHANGED run PROVE Goal
  BY <1>0, <1>7 DEF Frees
<1> QED BY <1>1, <1>2, <1>3, <1>4, <1>5, <1>6, <1>7 DEF Summary

\* After a quiesce nobody is admitted, and who is still registered without a
\* class was asked to stop.
LEMMA AskedStep ==
    ASSUME RegistryTypes, RunTypes, Born, Registered, Anchored, Asked, Summary
    PROVE  Asked'
<1> SUFFICES ASSUME phase' = "quiescing", NEW r \in Seqs, Current(r)', run'[r].terminal = "none"
             PROVE  run'[r].control = CANCEL_REQUESTED
  BY DEF Asked
<1> DEFINE Goal == run'[r].control = CANCEL_REQUESTED
<1>t. \A s \in Seqs : run[s].control \in RunStateSet
  BY DEF RunTypes, Runs
<1>0. phase = "quiescing" /\ Current(r) /\ run[r].terminal = "none" =>
        run[r].control = CANCEL_REQUESTED
  BY DEF Asked
<1>r. run'[r].kind = "operation" /\ operations'[run'[r].operation_id] = r /\ r # 0
  BY DEF Current, Seqs
<1>1. ASSUME Kept PROVE Goal
  BY <1>0, <1>1 DEF Kept, Current
<1>2. ASSUME NEW id \in Ids, Added(id) PROVE Goal
  BY <1>2 DEF Added
<1>3. ASSUME NEW s \in Seqs, NEW p \in {"reserved", "queued", "running", "terminal"},
             NEW n \in 0 .. ProgressCapacity, NEW A \in SUBSET Seqs, Moved(s, p, n, A)
      PROVE  Goal
  <2>1. /\ phase' = phase /\ operations' = operations
        /\ run'[r].kind = run[r].kind /\ run'[r].operation_id = run[r].operation_id
        /\ run'[r].terminal = run[r].terminal /\ run'[r].control = run[r].control
    BY <1>3 DEF Moved, Record, RunTypes
  <2> QED BY <1>0, <1>r, <2>1 DEF Current
<1>4. ASSUME NEW s \in Seqs, Started(s) PROVE Goal
  <2>1. next_sequence \in Seqs /\ Current(s)
    BY <1>4 DEF Started
  <2>2. s # next_sequence
    BY <2>1, NextUnborn DEF Current
  <2>3. r # next_sequence
    BY <1>4, <1>r, <2>1, <2>2 DEF Started, RunTypes, Fresh
  <2>4. /\ phase' = phase /\ operations' = operations
        /\ run'[r].kind = run[r].kind /\ run'[r].operation_id = run[r].operation_id
        /\ run'[r].terminal = run[r].terminal /\ run'[r].control = run[r].control
    BY <1>4, <2>1, <2>3 DEF Started, Record, RunTypes
  <2> QED BY <1>0, <1>r, <2>4 DEF Current
<1>5. ASSUME NEW S \in SUBSET Seqs, Stopped(S),
             phase' # phase => phase' = "quiescing" /\ S = Active
      PROVE  Goal
  <2>1. /\ run'[r].kind = run[r].kind /\ run'[r].operation_id = run[r].operation_id
        /\ run'[r].terminal = run[r].terminal /\ operations' = operations
        /\ \/ run'[r] = run[r] /\ r \notin S
           \/ run'[r].control = CancelRequest(run[r].control)
    BY <1>5 DEF Stopped, Record
  <2>2. Current(r) /\ run[r].terminal = "none"
    BY <1>r, <2>1 DEF Current
  <2>3. ~IsTerminal(run[r].control)
    BY <2>2 DEF Born, Current
  <2>4. CancelRequest(run[r].control) = CANCEL_REQUESTED
    BY <1>t, <2>3, Controls
  <2>5. r \notin S => phase' = phase
    BY <1>5, <2>2 DEF Active
  <2> QED BY <1>0, <2>1, <2>2, <2>4, <2>5
<1>6. ASSUME NEW s \in Seqs, NEW class \in TerminalClasses, Claims(s, class),
             UNCHANGED <<operations, released>> \/ Frees(s, Settled(s, class))
      PROVE  Goal
  <2>1. ClaimedClass(run[s].control, class) # "none"
    BY DEF ClaimedClass, TerminalClasses
  <2>2. phase' = phase /\ r # s /\ run'[r] = run[r]
    BY <1>6, <2>1 DEF Claims, Settled, Record, RunTypes
  <2>3. run[r].operation_id \in Ids
    BY <1>r, <2>2, BornIds
  <2>4. operations[run[r].operation_id] = r
    BY <1>6, <1>r, <2>2, <2>3 DEF Frees, RegistryTypes
  <2> QED BY <1>0, <1>r, <2>2, <2>4 DEF Current
<1>7. ASSUME NEW s \in Seqs, Frees(s, run[s]), UNCHANGED run PROVE Goal
  <2>1. phase' = phase /\ run'[r] = run[r]
    BY <1>7 DEF Frees
  <2>3. run[r].operation_id \in Ids
    BY <1>r, <2>1, BornIds
  <2>4. operations[run[r].operation_id] = r
    BY <1>7, <1>r, <2>1, <2>3 DEF Frees, RegistryTypes
  <2> QED BY <1>0, <1>r, <2>1, <2>4 DEF Current
<1> QED BY <1>1, <1>2, <1>3, <1>4, <1>5, <1>6, <1>7 DEF Summary

-----------------------------------------------------------------------------
(* Workers and close.                                                      *)

\* The ledger keeps its type.
LEMMA LedgerTypes ==
    ASSUME NEW ledger \in Ledgers, NEW w \in WorkerIds
    PROVE  NoteStarted(ledger, w) \in Ledgers /\ NoteJoined(ledger, w) \in Ledgers
<1> DEFINE order == Pushed(ledger, w)
           n     == Excess(ledger)
<1>1. NoteStarted(ledger, w) \in Ledgers
  BY DEF Ledgers, NoteStarted
<1>2. order \in Seq(WorkerIds) /\ Len(order) = Len(ledger.joined_order) + 1
  BY AppendProperties DEF Ledgers, Pushed
<1>3. n \in 0 .. Len(order)
  BY <1>2, CapacityAssumption, LenProperties DEF Ledgers, Excess
<1>4. SubSeq(order, n + 1, Len(order)) \in Seq(WorkerIds)
  <2>1. Len(order) \in Nat
    BY <1>2, LenProperties
  <2>2. n + 1 \in 1 .. Len(order) + 1 /\ Len(order) \in (n + 1) - 1 .. Len(order)
    BY <1>3, <2>1
  <2> QED BY <1>2, <2>2, SubSeqProperties
<1> HIDE DEF order, n
<1>5. NoteJoined(ledger, w) =
        [ledger EXCEPT !.outstanding = @ \ {w},
                       !.joined = (@ \cup {w}) \ {order[k] : k \in 1 .. n},
                       !.joined_order = SubSeq(order, n + 1, Len(order))]
  BY DEF NoteJoined, order, n
<1>6. NoteJoined(ledger, w) \in Ledgers
  BY <1>4, <1>5 DEF Ledgers
<1> QED BY <1>1, <1>6

\* The methods that do not concern workers and close leave both alone.
LEMMA CloseSummary ==
    ASSUME [Next]_vars
    PROVE  \/ UNCHANGED <<workers, canonical_close>> /\ (phase = "closed" => phase' = phase)
           \/ Resume
           \/ Close
           \/ \E w \in WorkerIds : NoteWorkerStarted(w)
           \/ \E w \in WorkerIds : NoteWorkerJoined(w)
<1> DEFINE Quiet == UNCHANGED <<workers, canonical_close>> /\ (phase = "closed" => phase' = phase)
<1>1. \A id \in Ids : Reserve(id) => Quiet
  BY DEF Reserve
<1>2. \A s \in Seqs :
        \/ Queue(s) \/ Start(s) \/ PublishProgress(s) \/ Release(s) \/ FailAndRelease(s)
        \/ FinishOperation(s) \/ StartAttempt(s) \/ FinishAttempt(s) \/ RequestCancel(s)
        => Quiet
  BY DEF Queue, Start, Transition, PublishProgress, Release, FailAndRelease, FinishOperation,
     TerminalAndReleaseLocked, StartAttempt, FinishAttempt, RequestCancel
<1>3. \A s \in Seqs, class \in TerminalClasses :
        Terminal(s, class) \/ TerminalAndRelease(s, class) => Quiet
  BY DEF Terminal, TerminalAndRelease, TerminalAndReleaseLocked
<1>4. Quiesce => Quiet
  BY DEF Quiesce
<1>5. \A v \in Waiters : CheckReleased(v) \/ WaitTimeout(v) \/ (\E s \in Seqs : WaitReleased(v, s))
        => Quiet
  BY DEF CheckReleased, WaitTimeout, WaitReleased
<1>6. UNCHANGED vars => Quiet
  BY DEF vars
<1> QED BY <1>1, <1>2, <1>3, <1>4, <1>5, <1>6 DEF Next

\* Close finds nobody registered.
LEMMA NobodyActive ==
    ASSUME RegistryTypes, Registered, Active = {}, NEW id \in Ids
    PROVE  operations[id] = 0
BY RegisteredCurrent DEF Active

\* What close records.
LEMMA CloseFacts ==
    ASSUME RegistryTypes, CloseTypes, Registered, Close
    PROVE  CloseTypes' /\ Closed'
<1>1. Cardinality({}) = 0
  BY FS_EmptySet
<1>2. workers \in Ledgers /\ Active = {} /\ workers.outstanding = {}
  BY DEF CloseTypes, Close
<1>3. Cardinality(Active) = 0 /\ Cardinality(workers.outstanding) = 0
  BY <1>1, <1>2
<1>4. Expected(workers) = workers.joined /\ workers.joined \in SUBSET WorkerIds
  BY <1>2 DEF Expected, Ledgers
<1>5. canonical_close' = [lifecycle |-> "closed", active_operations |-> 0, retained_tasks |-> 0,
                          expected_workers |-> workers.joined, joined_workers |-> workers.joined]
  BY <1>3, <1>4 DEF Close
<1>6. CloseTypes'
  <2>1. workers' \in Ledgers
    BY <1>2 DEF Close
  <2> QED BY <1>4, <1>5, <2>1 DEF CloseTypes, Ledgers
<1>7. Closed'
  <2>1. \A id \in Ids : operations'[id] = 0
    BY <1>2, NobodyActive DEF Close
  <2>2. phase' = "closed" /\ workers'.outstanding = {}
    BY <1>2 DEF Close
  <2> QED BY <1>5, <2>1, <2>2 DEF Closed
<1> QED BY <1>6, <1>7

\* Nothing is registered after a close, and its facts stay.
LEMMA ClosedStep ==
    ASSUME RegistryTypes, CloseTypes, Born, Registered, Closed, Summary, [Next]_vars
    PROVE  /\ CloseTypes' /\ Closed'
           /\ canonical_close # NoClose => UNCHANGED <<canonical_close, phase>>
<1>1. ASSUME canonical_close # NoClose PROVE operations' = operations
  <2>1. \A s \in Seqs : run[s].operation_id \in Ids => ~Current(s)
    BY <1>1 DEF Closed, Current, Seqs
  <2>2. \A s \in Seqs : ~Current(s)
    BY <2>1, BornIds DEF Current
  <2> QED BY <1>1, <2>2 DEF Summary, Closed, Kept, Added, Moved, Started, Stopped, Claims, Frees
<1>2. CASE UNCHANGED <<workers, canonical_close>> /\ (phase = "closed" => phase' = phase)
  BY <1>1, <1>2 DEF CloseTypes, Closed
<1>3. CASE Resume
  BY <1>3 DEF Resume, CloseTypes, Closed
<1>4. CASE Close
  BY <1>4, CloseFacts DEF Close
<1>5. ASSUME NEW w \in WorkerIds, NoteWorkerStarted(w)
      PROVE  canonical_close = NoClose /\ canonical_close' = NoClose /\ CloseTypes' /\ Closed'
  BY <1>5, LedgerTypes DEF NoteWorkerStarted, CloseTypes, Closed
<1>6. ASSUME NEW w \in WorkerIds, NoteWorkerJoined(w)
      PROVE  canonical_close = NoClose /\ canonical_close' = NoClose /\ CloseTypes' /\ Closed'
  BY <1>6, LedgerTypes DEF NoteWorkerJoined, CanNoteJoined, CloseTypes, Closed
<1> QED BY <1>2, <1>3, <1>4, <1>5, <1>6, CloseSummary

-----------------------------------------------------------------------------
(* Waiters.                                                                *)

\* An operation stays one.
LEMMA OperationsStay ==
    ASSUME RegistryTypes, RunTypes, Born, Summary
    PROVE  \A s \in Seqs : run[s].kind = "operation" => run'[s].kind = "operation"
<1>1. CASE Kept
  BY <1>1 DEF Kept
<1>2. ASSUME NEW id \in Ids, Added(id), NEW s \in Seqs, run[s].kind = "operation"
      PROVE  run'[s].kind = "operation"
  BY <1>2 DEF Added, Fresh, RunTypes
<1>3. ASSUME NEW r \in Seqs, NEW p \in {"reserved", "queued", "running", "terminal"},
             NEW n \in 0 .. ProgressCapacity, NEW A \in SUBSET Seqs, Moved(r, p, n, A),
             NEW s \in Seqs, run[s].kind = "operation"
      PROVE  run'[s].kind = "operation"
  BY <1>3 DEF Moved, Record, RunTypes
<1>4. ASSUME NEW r \in Seqs, Started(r), NEW s \in Seqs, run[s].kind = "operation"
      PROVE  run'[s].kind = "operation"
  <2>1. next_sequence \in Seqs /\ s # next_sequence
    BY <1>4, NextUnborn DEF Started
  <2> QED BY <1>4, <2>1 DEF Started, Record, RunTypes
<1>5. ASSUME NEW S \in SUBSET Seqs, Stopped(S), NEW s \in Seqs, run[s].kind = "operation"
      PROVE  run'[s].kind = "operation"
  BY <1>5 DEF Stopped, Record
<1>6. ASSUME NEW r \in Seqs, NEW class \in TerminalClasses, Claims(r, class),
             NEW s \in Seqs, run[s].kind = "operation"
      PROVE  run'[s].kind = "operation"
  BY <1>6 DEF Claims, Settled, Record, RunTypes
<1> QED BY <1>1, <1>2, <1>3, <1>4, <1>5, <1>6 DEF Summary

\* A waiter is left alone, notified, or takes its own step.
LEMMA WaiterSummary ==
    ASSUME [Next]_vars
    PROVE  \/ UNCHANGED waiter
           \/ NotifyAll
           \/ \E v \in Waiters : \/ CheckReleased(v) \/ WaitTimeout(v)
                                \/ \E s \in Seqs : WaitReleased(v, s)
<1> DEFINE Quiet == UNCHANGED waiter \/ NotifyAll
<1>1. \A id \in Ids : Reserve(id) => Quiet
  BY DEF Reserve
<1>2. \A s \in Seqs :
        \/ Queue(s) \/ Start(s) \/ PublishProgress(s) \/ Release(s) \/ FailAndRelease(s)
        \/ FinishOperation(s) \/ StartAttempt(s) \/ FinishAttempt(s) \/ RequestCancel(s)
        => Quiet
  BY DEF Queue, Start, Transition, PublishProgress, Release, FailAndRelease, FinishOperation,
     TerminalAndReleaseLocked, StartAttempt, FinishAttempt, RequestCancel
<1>3. \A s \in Seqs, class \in TerminalClasses :
        Terminal(s, class) \/ TerminalAndRelease(s, class) => Quiet
  BY DEF Terminal, TerminalAndRelease, TerminalAndReleaseLocked
<1>4. Quiesce \/ Resume \/ Close => Quiet
  BY DEF Quiesce, Resume, Close
<1>5. \A w \in WorkerIds : NoteWorkerStarted(w) \/ NoteWorkerJoined(w) => Quiet
  BY DEF NoteWorkerStarted, NoteWorkerJoined
<1>6. UNCHANGED vars => Quiet
  BY DEF vars
<1> QED BY <1>1, <1>2, <1>3, <1>4, <1>5, <1>6 DEF Next

Calls == [pc : {"idle", "check", "asleep", "returned"}, lease : Seqs \cup {0},
          answer : {"none", "snapshot", "timeout", "stale"}]

\* A call in wait_released, in the types and with an operation to wait for.
WaitingAt(c) ==
    /\ c \in Calls
    /\ c.pc \in {"check", "asleep"} => c.lease \in Seqs /\ run[c.lease].kind = "operation"
    /\ c.answer # "stale"

\* A lease is never found stale: an operation that is not registered has left
\* its snapshot.
LEMMA WaitingStep ==
    ASSUME RegistryTypes, RunTypes, WaiterTypes, Born, Registered, Waiting, Summary, [Next]_vars
    PROVE  WaiterTypes' /\ Waiting'
<1>0. waiter = [v \in Waiters |-> waiter[v]] /\ \A v \in Waiters : WaitingAt(waiter[v])
  BY DEF WaiterTypes, Waiting, WaitingAt, Calls
<1>g. ASSUME waiter' = [v \in Waiters |-> waiter'[v]], \A v \in Waiters : WaitingAt(waiter'[v])
      PROVE  WaiterTypes' /\ Waiting'
  <2>1. \A v \in Waiters : waiter'[v] \in Calls
    BY <1>g DEF WaitingAt
  <2>2. WaiterTypes'
    BY <1>g, <2>1 DEF WaiterTypes, Calls
  <2>3. Waiting'
    BY <1>g, OperationsStay DEF Waiting, WaitingAt
  <2> QED BY <2>2, <2>3
<1>1. CASE UNCHANGED waiter
  BY <1>0, <1>1, <1>g
<1>2. CASE NotifyAll
  <2>1. ASSUME NEW v \in Waiters, waiter[v].pc = "asleep"
        PROVE  WaitingAt([waiter[v] EXCEPT !.pc = "check"])
    BY <1>0, <2>1 DEF WaitingAt, Calls
  <2> QED BY <1>0, <1>2, <1>g, <2>1 DEF NotifyAll
<1>3. ASSUME NEW v \in Waiters, NEW c, WaitingAt(c), waiter' = [waiter EXCEPT ![v] = c]
      PROVE  WaiterTypes' /\ Waiting'
  BY <1>0, <1>3, <1>g
<1>4. ASSUME NEW v \in Waiters, NEW s \in Seqs, WaitReleased(v, s)
      PROVE  WaiterTypes' /\ Waiting'
  <2>1. WaitingAt([pc |-> "check", lease |-> s, answer |-> "none"])
    BY <1>4 DEF WaitReleased, WaitingAt, Calls
  <2> QED BY <1>3, <1>4, <2>1 DEF WaitReleased
<1>5. ASSUME NEW v \in Waiters, NEW answer \in {"snapshot", "timeout"}, Answer(v, answer)
      PROVE  WaiterTypes' /\ Waiting'
  <2>1. waiter[v] \in Calls
    BY <1>0 DEF WaitingAt
  <2>2. waiter' = [waiter EXCEPT ![v] =
                     [pc |-> "returned", lease |-> waiter[v].lease, answer |-> answer]]
    <3>1. PICK r : r = [waiter[v] EXCEPT !.pc = "returned"]
      OBVIOUS
    <3>2. r = [pc |-> "returned", lease |-> waiter[v].lease, answer |-> waiter[v].answer]
      BY <2>1, <3>1 DEF Calls
    <3>3. [r EXCEPT !.answer = answer] =
            [pc |-> "returned", lease |-> waiter[v].lease, answer |-> answer]
      BY <3>2
    <3>4. DOMAIN waiter = Waiters
      BY <1>0
    <3>5. PICK x : x = [waiter EXCEPT ![v] = r]
      OBVIOUS
    <3>6. x[v] = r /\ DOMAIN x = Waiters /\ \A u \in Waiters \ {v} : x[u] = waiter[u]
      BY <3>4, <3>5
    <3>7. waiter' = [x EXCEPT ![v] = [x[v] EXCEPT !.answer = answer]]
      BY <1>5, <3>1, <3>5 DEF Answer
    <3>8. waiter' = [x EXCEPT ![v] =
                       [pc |-> "returned", lease |-> waiter[v].lease, answer |-> answer]]
      BY <3>3, <3>6, <3>7
    <3> QED BY <3>4, <3>5, <3>8
  <2>3. WaitingAt([pc |-> "returned", lease |-> waiter[v].lease, answer |-> answer])
    BY <2>1 DEF WaitingAt, Calls
  <2> QED BY <1>3, <2>2, <2>3
<1>6. ASSUME NEW v \in Waiters, CheckReleased(v) PROVE WaiterTypes' /\ Waiting'
  <2>1. /\ WaitingAt(waiter[v]) /\ waiter[v].pc = "check" /\ waiter[v].lease \in Seqs
        /\ run[waiter[v].lease].kind = "operation"
    BY <1>0, <1>6 DEF CheckReleased, WaitingAt
  <2>2. released[waiter[v].lease] = NoSnapshot => Current(waiter[v].lease)
    BY <2>1 DEF Registered, Current
  <2>3. Answer(v, "snapshot") \/ waiter' = [waiter EXCEPT ![v].pc = "asleep"]
    BY <1>6, <2>2 DEF CheckReleased
  <2>4. ASSUME waiter' = [waiter EXCEPT ![v].pc = "asleep"] PROVE WaiterTypes' /\ Waiting'
    <3>1. WaitingAt([waiter[v] EXCEPT !.pc = "asleep"])
      BY <2>1 DEF WaitingAt, Calls
    <3>2. waiter' = [waiter EXCEPT ![v] = [waiter[v] EXCEPT !.pc = "asleep"]]
      BY <2>4
    <3> QED BY <1>3, <3>1, <3>2
  <2> QED BY <1>5, <2>3, <2>4
<1>7. ASSUME NEW v \in Waiters, WaitTimeout(v) PROVE WaiterTypes' /\ Waiting'
  BY <1>5, <1>7 DEF WaitTimeout
<1> QED BY <1>1, <1>2, <1>4, <1>6, <1>7, WaiterSummary

-----------------------------------------------------------------------------
(* The invariant.                                                          *)

\* A new supervisor satisfies the invariant.
LEMMA InitInv == Init => IInv
<1> SUFFICES ASSUME Init PROVE IInv
  OBVIOUS
<1>0. 0 \notin Seqs /\ 1 \in 1 .. MaxSequence /\ 0 \in 0 .. ProgressCapacity
      /\ \A s \in Seqs : ~(s < 1)
  BY CapacityAssumption DEF Seqs
<1>1. /\ NoRun.kind = "none" /\ NoRun.attempts = {} /\ NoRun \in Runs
  BY <1>0 DEF NoRun, Runs, RunStateSet, RUNNING
<1>2. RegistryTypes /\ RunTypes /\ ReleasedTypes
  BY <1>0, <1>1 DEF Init, RegistryTypes, RunTypes, ReleasedTypes
<1>3. CloseTypes
  <2>1. NewLedger(HistoryCapacity) \in Ledgers
    BY EmptySeq DEF NewLedger, Ledgers
  <2> QED BY <2>1 DEF Init, CloseTypes
<1>4. WaiterTypes /\ Waiting
  BY DEF Init, WaiterTypes, Waiting
<1>5. \A s \in Seqs : run[s] = NoRun /\ released[s] = NoSnapshot
  BY DEF Init
<1>6. Born
  <2>1. next_sequence = 1
    BY DEF Init
  <2> QED BY <1>0, <1>1, <1>5, <2>1 DEF Born
<1>7. Registered
  BY <1>1, <1>5 DEF Init, Registered
<1>8. Anchored /\ Asked /\ Closed
  BY <1>1, <1>5 DEF Init, Anchored, Asked, Closed
<1> QED BY <1>2, <1>3, <1>4, <1>6, <1>7, <1>8, TypeParts DEF IInv

\* Every method keeps the invariant, part by part.
LEMMA StepInv == IInv /\ [Next]_vars => IInv'
<1> SUFFICES ASSUME IInv, [Next]_vars PROVE IInv'
  OBVIOUS
<1>0. /\ RegistryTypes /\ RunTypes /\ ReleasedTypes /\ CloseTypes /\ WaiterTypes
      /\ Born /\ Registered /\ Anchored /\ Asked /\ Closed /\ Waiting
  BY TypeParts DEF IInv
<1>1. Summary
  BY <1>0, StepSummary
<1>2. RegistryTypes' /\ RunTypes' /\ ReleasedTypes'
  BY <1>0, <1>1, RegistryTypesStep, RunTypesStep, ReleasedTypesStep
<1>3. CloseTypes' /\ Closed'
  BY <1>0, <1>1, ClosedStep
<1>4. WaiterTypes' /\ Waiting'
  BY <1>0, <1>1, WaitingStep
<1>5. Born' /\ Registered'
  BY <1>0, <1>1, BornStep, RegisteredStep
<1>6. Anchored' /\ Asked'
  BY <1>0, <1>1, AnchoredStep, AskedStep
<1>7. TypeOK'
  BY <1>2, <1>3, <1>4, TypeParts DEF TypeOK, RegistryTypes, RunTypes, ReleasedTypes, CloseTypes,
     WaiterTypes, Runs, Ledgers
<1> QED BY <1>3, <1>4, <1>5, <1>6, <1>7 DEF IInv

\* The invariant holds in every state of the supervisor.
LEMMA Invariant == Spec => []IInv
BY InitInv, StepInv, PTL DEF Spec

(***************************************************************************)
(* Whatever leases, tickets and attempts of earlier generations call:      *)
(* attempts are anchored in a registered operation, a quiesce and a cancel *)
(* have reached all of them, a recorded close is the end of all work, and  *)
(* no waiter's lease is ever called stale.                                 *)
(***************************************************************************)
THEOREM SupervisorSound == Spec => []SupervisorInv
<1>1. IInv => SupervisorInv
  <2> SUFFICES ASSUME IInv PROVE SupervisorInv
    OBVIOUS
  <2>0. /\ RegistryTypes /\ RunTypes /\ Born /\ Registered /\ Anchored /\ Asked /\ Closed /\ Waiting
        /\ TypeOK
    BY TypeParts DEF IInv
  <2>1. AttemptsAnchored
    <3> SUFFICES ASSUME NEW s \in Seqs, run[s].attempts # {}
                 PROVE  /\ Current(s) /\ released[s] = NoSnapshot
                        /\ \A a \in run[s].attempts : run[a].operation_id = run[s].operation_id
      BY DEF AttemptsAnchored
    <3>1. Current(s) /\ released[s] = NoSnapshot
      BY <2>0, HoldersCurrent DEF Registered, Current
    <3>2. run[s].attempts \subseteq Seqs
      BY <2>0 DEF RunTypes, Runs
    <3> QED BY <2>0, <3>1, <3>2 DEF Anchored
  <2>2. QuiescedCancelled
    <3> SUFFICES ASSUME NEW s \in Active,
                        (phase = "quiescing" /\ run[s].terminal = "none")
                          \/ CancellationRequested(run[s].control)
                 PROVE  /\ run[s].control # RUNNING
                        /\ \A a \in run[s].attempts : run[a].control = CANCEL_REQUESTED
      BY DEF QuiescedCancelled
    <3>1. s \in Seqs /\ Current(s) /\ run[s].attempts \subseteq Seqs /\ run[s].control \in RunStateSet
      BY <2>0 DEF Active, RunTypes, Runs
    <3>2. phase = "quiescing" /\ run[s].terminal = "none" => run[s].control = CANCEL_REQUESTED
      BY <2>0, <3>1 DEF Asked
    <3>3. run[s].control # RUNNING
      BY <3>1, <3>2, Controls DEF RUNNING, CANCEL_REQUESTED
    <3>4. \A a \in run[s].attempts : run[a].control = CANCEL_REQUESTED
      BY <2>0, <3>1 DEF Anchored
    <3> QED BY <3>3, <3>4
  <2>3. CloseSound
    <3> SUFFICES ASSUME canonical_close # NoClose PROVE Active = {}
      BY <2>0 DEF CloseSound, Closed
    <3>1. ASSUME NEW s \in Seqs PROVE ~Current(s)
      BY <2>0, BornIds DEF Closed, Current, Seqs
    <3> QED BY <3>1 DEF Active
  <2>4. WaitNeverStale
    BY <2>0 DEF Waiting, WaitNeverStale
  <2> QED BY <2>0, <2>1, <2>2, <2>3, <2>4 DEF SupervisorInv
<1> QED BY <1>1, Invariant, PTL

(***************************************************************************)
(* Once close has recorded its facts, no method, quiesce and resume        *)
(* included, changes them or the phase.                                    *)
(***************************************************************************)
THEOREM CloseIsFinal == Spec => CloseFinal
<1>1. ASSUME IInv, [Next]_vars
      PROVE  [canonical_close # NoClose => UNCHANGED <<canonical_close, phase>>]_vars
  <2>1. RegistryTypes /\ RunTypes /\ CloseTypes /\ Born /\ Registered /\ Closed
    BY <1>1, TypeParts DEF IInv
  <2>2. Summary
    BY <1>1, <2>1, StepSummary
  <2> QED BY <1>1, <2>1, <2>2, ClosedStep
<1> QED BY <1>1, Invariant, PTL DEF Spec, CloseFinal

-----------------------------------------------------------------------------
(* The refinement of the operation contract.                               *)

AbstractOutcome == [s \in Seqs |-> Outcome(s)]

\* What the contract says of an operation with the record r.
OutcomeOf(r) ==
    IF r.kind # "operation" THEN "unborn"
    ELSE IF r.terminal # "none" THEN r.terminal
    ELSE IF CancellationRequested(r.control) THEN "cancelling" ELSE "open"

\* An outcome depends only on the record of its operation.
LEMMA OutcomeIs ==
    \A s \in Seqs : /\ AbstractOutcome[s] = OutcomeOf(run[s])
                    /\ AbstractOutcome'[s] = OutcomeOf(run'[s])
BY DEF AbstractOutcome, Outcome, OutcomeOf

\* A step that writes one record changes one outcome of the contract.
LEMMA OneOutcome ==
    ASSUME RunTypes, NEW s \in Seqs, NEW r, run' = [run EXCEPT ![s] = r]
    PROVE  AbstractOutcome' = [AbstractOutcome EXCEPT ![s] = OutcomeOf(r)]
<1>1. run'[s] = r /\ \A q \in Seqs \ {s} : run'[q] = run[q]
  BY DEF RunTypes
<1>2. \A q \in Seqs : Outcome(q)' = IF q = s THEN OutcomeOf(r) ELSE Outcome(q)
  BY <1>1 DEF Outcome, OutcomeOf
<1> QED BY <1>2 DEF AbstractOutcome

\* The entry of a current identity.
LEMMA CurrentEntry ==
    ASSUME RegistryTypes, RunTypes, Born, NEW s \in Seqs, Current(s)
    PROVE  /\ run[s].operation_id \in Ids /\ operations[run[s].operation_id] = s
           /\ run[s].kind = "operation" /\ s # 0 /\ run[s].control \in RunStateSet
BY BornIds DEF Current, Seqs, RunTypes, Runs

\* A reservation admits the next generation of its id.
LEMMA AddedRefines ==
    ASSUME RegistryTypes, RunTypes, Born, NEW id \in Ids, Added(id)
    PROVE  Contract!Next
<1>0. PICK s \in Seqs : s = next_sequence
  BY DEF Added
<1> DEFINE r == Fresh("operation", id, "reserved", RUNNING)
<1>1. OutcomeOf(r) = "open"
  BY DEF OutcomeOf, Fresh, CancellationRequested, RUNNING, CANCEL_REQUESTED, TERMINAL_CANCELLED
<1>2. AbstractOutcome' = [AbstractOutcome EXCEPT ![s] = "open"]
  <2>1. run' = [run EXCEPT ![s] = r]
    BY <1>0 DEF Added
  <2> HIDE DEF r
  <2> QED BY <1>1, <2>1, OneOutcome
<1>3. \A q \in Seqs : q >= s => AbstractOutcome[q] = "unborn"
  <2>1. NoRun.kind # "operation"
    BY DEF NoRun
  <2> QED BY <1>0, <2>1, OutcomeIs DEF Born, OutcomeOf
<1>4. operations[id] = 0 /\ operations' = [operations EXCEPT ![id] = s]
  BY <1>0 DEF Added
<1>5. Contract!Admit(id, s)
  BY <1>2, <1>3, <1>4 DEF Contract!Admit, AbstractOutcome
<1> QED BY <1>5 DEF Contract!Next

\* How far an operation is does not concern the contract.
LEMMA MovedRefines ==
    ASSUME RegistryTypes, RunTypes, Born, NEW s \in Seqs,
           NEW p \in {"reserved", "queued", "running", "terminal"},
           NEW n \in 0 .. ProgressCapacity, NEW A \in SUBSET Seqs, Moved(s, p, n, A)
    PROVE  UNCHANGED <<operations, AbstractOutcome>>
<1>1. OutcomeOf(Record(s, p, run[s].control, run[s].terminal, n, A)) = OutcomeOf(run[s])
  BY DEF OutcomeOf, Record
<1>2. \A q \in Seqs : OutcomeOf(run'[q]) = OutcomeOf(run[q])
  BY <1>1 DEF Moved, RunTypes
<1>3. \A q \in Seqs : Outcome(q)' = Outcome(q)
  BY <1>2 DEF Outcome, OutcomeOf
<1> QED BY <1>3 DEF Moved, AbstractOutcome

\* Nor do attempts, whose identities are no generations of the contract.
LEMMA StartedRefines ==
    ASSUME RegistryTypes, RunTypes, Born, NEW s \in Seqs, Started(s)
    PROVE  UNCHANGED <<operations, AbstractOutcome>>
<1>1. next_sequence \in Seqs /\ Current(s)
  BY DEF Started
<1>2. s # next_sequence /\ OutcomeOf(run[next_sequence]) = "unborn"
  BY <1>1, NextUnborn DEF Current, OutcomeOf
<1>3. OutcomeOf(run'[next_sequence]) = "unborn"
  BY <1>1, <1>2 DEF Started, RunTypes, Fresh, OutcomeOf
<1>4. OutcomeOf(run'[s]) = OutcomeOf(run[s])
  BY <1>1, <1>2 DEF Started, RunTypes, Record, OutcomeOf
<1>5. \A q \in Seqs : OutcomeOf(run'[q]) = OutcomeOf(run[q])
  BY <1>1, <1>2, <1>3, <1>4 DEF Started, RunTypes
<1>6. \A q \in Seqs : Outcome(q)' = Outcome(q)
  BY <1>5 DEF Outcome, OutcomeOf
<1> QED BY <1>6 DEF Started, AbstractOutcome

\* The operations of S are asked to stop; their attempts do not concern the
\* contract.
LEMMA StoppedRefines ==
    ASSUME RegistryTypes, RunTypes, Born, Anchored, NEW S \in SUBSET Seqs, Stopped(S)
    PROVE  \E T \in SUBSET Seqs : Contract!Cancel(T)
<1>0. PICK T \in SUBSET Seqs : T = S
  OBVIOUS
<1>1. ASSUME NEW q \in Seqs
      PROVE  OutcomeOf(run'[q]) = IF q \in T /\ OutcomeOf(run[q]) = "open"
                                    THEN "cancelling" ELSE OutcomeOf(run[q])
  <2> DEFINE c == CancelRequest(run[q].control)
             r == Record(q, run[q].phase, c, run[q].terminal, run[q].progress, run[q].attempts)
  <2>1. \/ run'[q] = run[q] /\ q \notin S
        \/ run'[q] = r /\ (q \in S \/ \E s \in S : q \in run[s].attempts)
    BY DEF Stopped
  <2>2. run[q].control \in RunStateSet
    BY DEF RunTypes, Runs
  <2>3. CASE run'[q] = run[q] /\ q \notin S
    BY <1>0, <2>3
  <2>4. CASE run'[q] = r /\ q \in S
    <3>1. run[q].kind = "operation" /\ run[q].phase # "none"
      BY <2>4 DEF Stopped, Active, Current, Born
    <3>2. run[q].terminal = "none" => ~IsTerminal(run[q].control)
      BY <3>1 DEF Born
    <3>3. run[q].terminal = "none" => c = CANCEL_REQUESTED
      BY <2>2, <3>2, Controls
    <3>4. CancellationRequested(CANCEL_REQUESTED)
      BY DEF CancellationRequested
    <3> HIDE DEF c
    <3>5. r.kind = "operation" /\ r.terminal = run[q].terminal /\ r.control = c
      BY <3>1 DEF Record
    <3> HIDE DEF r
    <3>6. run[q].terminal # "none" => run[q].terminal # "open"
      BY DEF RunTypes, Runs, TerminalClasses
    <3> QED BY <1>0, <2>4, <3>1, <3>3, <3>4, <3>5, <3>6 DEF OutcomeOf
  <2>5. CASE run'[q] = r /\ \E s \in S : q \in run[s].attempts
    <3>1. run[q].kind = "attempt"
      BY <2>5 DEF Anchored
    <3> QED BY <2>5, <3>1 DEF OutcomeOf, Record
  <2> QED BY <2>1, <2>3, <2>4, <2>5
<1>2. \A q \in Seqs : Outcome(q)' = IF q \in T /\ AbstractOutcome[q] = "open"
                                     THEN "cancelling" ELSE AbstractOutcome[q]
  BY <1>1, OutcomeIs DEF Outcome, OutcomeOf
<1>3. AbstractOutcome' = [q \in Seqs |-> IF q \in T /\ AbstractOutcome[q] = "open"
                                         THEN "cancelling" ELSE AbstractOutcome[q]]
  BY <1>2 DEF AbstractOutcome
<1>4. UNCHANGED operations
  BY DEF Stopped
<1>5. Contract!Cancel(T)
  BY <1>3, <1>4 DEF Contract!Cancel, AbstractOutcome
<1> QED BY <1>5

\* A claim settles its own generation, and not as completed after a cancel.
LEMMA ClaimsRefines ==
    ASSUME RegistryTypes, RunTypes, Born, NEW s \in Seqs, NEW class \in TerminalClasses,
           Claims(s, class)
    PROVE  \E id \in Ids, t \in Contract!Classes :
             /\ id = run[s].operation_id /\ operations[id] = s /\ s # 0
             /\ Contract!Settle(s, t)
<1>0. /\ run[s].operation_id \in Ids /\ operations[run[s].operation_id] = s
      /\ run[s].kind = "operation" /\ s # 0 /\ run[s].control \in RunStateSet
      /\ run[s].terminal = "none"
  BY CurrentEntry DEF Claims
<1>1. PICK id \in Ids : id = run[s].operation_id
  BY <1>0
<1>2. PICK t \in Contract!Classes : t = ClaimedClass(run[s].control, class)
  BY DEF ClaimedClass, TerminalClasses, Contract!Classes
<1>3. t # "none" /\ (CancellationRequested(run[s].control) => t # "completed")
  BY <1>2 DEF ClaimedClass, Contract!Classes
<1>4. OutcomeOf(Settled(s, class)) = t
  BY <1>0, <1>2, <1>3 DEF OutcomeOf, Settled, Record
<1>5. AbstractOutcome' = [AbstractOutcome EXCEPT ![s] = t]
  BY <1>4, OneOutcome DEF Claims
<1>6. /\ AbstractOutcome[s] \in {"open", "cancelling"}
      /\ AbstractOutcome[s] = "cancelling" => t # "completed"
  BY <1>0, <1>3, OutcomeIs DEF OutcomeOf
<1>7. Contract!Settle(s, t)
  BY <1>5, <1>6 DEF Contract!Settle, AbstractOutcome
<1> QED BY <1>0, <1>1, <1>7

\* Every step of the supervisor is a step of the contract, or none.
LEMMA NextRefines == IInv /\ [Next]_vars => [Contract!Next]_(Contract!vars)
<1> SUFFICES ASSUME IInv, [Next]_vars PROVE Contract!Next \/ UNCHANGED Contract!vars
  OBVIOUS
<1>0. RegistryTypes /\ RunTypes /\ Born /\ Registered /\ Anchored
  BY TypeParts DEF IInv
<1>1. Summary
  BY <1>0, StepSummary
<1>2. ASSUME UNCHANGED <<operations, AbstractOutcome>> PROVE UNCHANGED Contract!vars
  BY <1>2 DEF Contract!vars, AbstractOutcome
<1>3. CASE Kept
  <2>1. AbstractOutcome' = AbstractOutcome
    BY <1>3 DEF Kept, AbstractOutcome, Outcome
  <2> QED BY <1>2, <1>3, <2>1 DEF Kept
<1>4. ASSUME NEW s \in Seqs, NEW class \in TerminalClasses, Claims(s, class),
             UNCHANGED <<operations, released>>
      PROVE  Contract!Next
  <2>1. PICK id \in Ids, t \in Contract!Classes :
          operations[id] = s /\ s # 0 /\ Contract!Settle(s, t)
    BY <1>0, <1>4, ClaimsRefines
  <2>2. Contract!Terminal(id, t)
    BY <1>4, <2>1 DEF Contract!Terminal
  <2> QED BY <2>2 DEF Contract!Next
<1>5. ASSUME NEW s \in Seqs, Frees(s, run[s]), UNCHANGED run PROVE Contract!Next
  <2>1. /\ run[s].operation_id \in Ids /\ operations[run[s].operation_id] = s
        /\ run[s].kind = "operation" /\ s # 0
    BY <1>0, <1>5, CurrentEntry DEF Frees
  <2>2. PICK id \in Ids : id = run[s].operation_id
    BY <2>1
  <2>3. AbstractOutcome[s] \in Contract!Classes
    BY <1>0, <1>5, <2>1, OutcomeIs
    DEF Frees, OutcomeOf, RunTypes, Runs, TerminalClasses, Contract!Classes
  <2>4. AbstractOutcome' = AbstractOutcome
    BY <1>5 DEF AbstractOutcome, Outcome
  <2>5. operations' = [operations EXCEPT ![id] = 0]
    BY <1>5, <2>2 DEF Frees
  <2>6. Contract!Release(id)
    BY <2>1, <2>2, <2>3, <2>4, <2>5 DEF Contract!Release, Contract!Free, AbstractOutcome
  <2> QED BY <2>6 DEF Contract!Next
<1>6. ASSUME NEW s \in Seqs, NEW class \in TerminalClasses, Claims(s, class),
             Frees(s, Settled(s, class))
      PROVE  Contract!Next
  <2>1. PICK id \in Ids, t \in Contract!Classes :
          id = run[s].operation_id /\ operations[id] = s /\ s # 0 /\ Contract!Settle(s, t)
    BY <1>0, <1>6, ClaimsRefines
  <2>2. operations' = [operations EXCEPT ![id] = 0]
    BY <1>6, <2>1 DEF Frees
  <2>3. Contract!TerminalAndRelease(id, t)
    BY <2>1, <2>2 DEF Contract!TerminalAndRelease, Contract!Free
  <2> QED BY <2>3 DEF Contract!Next
<1>7. ASSUME NEW S \in SUBSET Seqs, Stopped(S) PROVE Contract!Next
  BY <1>0, <1>7, StoppedRefines DEF Contract!Next
<1> QED BY <1>0, <1>1, <1>2, <1>3, <1>4, <1>5, <1>6, <1>7, AddedRefines, MovedRefines,
        StartedRefines DEF Summary

(***************************************************************************)
(* The supervisor keeps the operation contract of ADR-003 for any ids and  *)
(* any number of identities: an id is active at most once, an operation    *)
(* gets exactly one terminal class, which is not Completed after a cancel, *)
(* and only its own release frees the id.                                  *)
(***************************************************************************)
THEOREM SupervisorRefinesContract == Spec => ImplementsContract
<1>1. Init => Contract!Init
  <2> SUFFICES ASSUME Init PROVE Contract!Init
    OBVIOUS
  <2>1. AbstractOutcome = [s \in Seqs |-> "unborn"]
    BY DEF Init, AbstractOutcome, Outcome, NoRun
  <2> QED BY <2>1 DEF Init, Contract!Init, AbstractOutcome
<1> QED BY <1>1, NextRefines, Invariant, PTL DEF Spec, ImplementsContract, Contract!Spec

=============================================================================
