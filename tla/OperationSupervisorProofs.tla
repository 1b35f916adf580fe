---------------------- MODULE OperationSupervisorProofs ----------------------
(***************************************************************************)
(* Proofs about module OperationSupervisor, for any number of clients,     *)
(* closers, ids and sequences and any calls through cloned leases.  Three  *)
(* parts, each with an inductive invariant of its own that rests on the    *)
(* one before:                                                             *)
(*                                                                         *)
(*   Typed       the type invariant, and where each kind of thread can be  *)
(*               and what it holds there;                                  *)
(*   Registry    public ids, operation entries and attempts agree,         *)
(*               cancellations reach every attempt, and terminal records   *)
(*               are true and final;                                       *)
(*   WorkersInv  every join handle has one owner, no wait misreports, and  *)
(*               the outcome of shutdown is true and final.                *)
(***************************************************************************)
EXTENDS OperationSupervisor, SequenceTheorems, TLAPS

-----------------------------------------------------------------------------
(***************************************************************************)
(* PART 1.  Types: where each kind of thread can be, and what it holds     *)
(* there.                                                                  *)
(***************************************************************************)

ClientLabels ==
    {"idle", "create", "rollback", "reserved", "launch", "register",
     "rendezvous", "task", "joined_check", "reap_take", "reap_join",
     "reap_note", "recheck", "reap_error", "cancel_sweep", "current", "body",
     "retire"}

CloserLabels ==
    {"idle", "cancel_sweep", "cached", "drain", "close", "returned",
     "reap_take", "reap_join", "reap_note"}

WorkerLabels ==
    {"unborn", "recv", "run", "current", "body", "retire", "send", "exit", "dead"}

\* Labels at which a thread holds no lease.
Bare == {"idle", "create", "rollback", "cancel_sweep", "cached", "drain",
         "close", "returned", "unborn"}

\* f is a frame thread t can have.
GoodFrame(t, f) ==
    /\ f.pc \notin Bare => f.lease \in Seqs
    /\ f.pc \in {"create", "rollback"} => f.instance \in Instances
    /\ f.pc # "cancel_sweep" => f.sweep = {}
    /\ f.pc \in {"current", "body"} => f.method \in Methods
    /\ f.pc = "retire" => f.method = "release"
    /\ t \in Clients => f.pc \in ClientLabels /\ f.program # "worker"
    /\ t \in Closers => f.pc \in CloserLabels
    /\ t \in Seqs =>
          /\ f.pc \in WorkerLabels
          /\ f.pc # "unborn" => f.lease = t /\ f.program = "worker"
          /\ f.pc \in {"current", "body"} => f.method \in {"terminal", "release"}

FramesOK == \A t \in Threads : GoodFrame(t, frame[t])

Typed == TypeOK /\ FramesOK

-----------------------------------------------------------------------------
(* Frames.                                                                 *)

LEMMA NewFrameType ==
  ASSUME NEW label \in Labels
  PROVE  NewFrame(label) \in Frames
  BY DEF NewFrame, Frames, Programs, TerminalClasses

LEMMA MovedType ==
  ASSUME NEW f \in Frames, NEW target \in Labels \cup Methods
  PROVE  Moved(f, target) \in Frames
<1>1. CASE target = "idle"
  BY <1>1, NewFrameType DEF Moved, Labels
<1>2. CASE target # "idle" /\ target \in Methods
  BY <1>2 DEF Moved, Frames, Labels
<1>3. CASE target # "idle" /\ target \notin Methods
  BY <1>3 DEF Moved, Frames
<1>4. QED BY <1>1, <1>2, <1>3

\* The frame of a thread that returns from everything.
LEMMA IdleGood ==
  ASSUME NEW t \in Clients \cup Closers
  PROVE  NewFrame("idle") \in Frames /\ GoodFrame(t, NewFrame("idle"))
<1>1. NewFrame("idle") \in Frames
  BY NewFrameType DEF Labels
<1>2. t \notin Seqs
  BY BoundsAssumption, ThreadsAssumption DEF Seqs
<1>3. QED BY <1>1, <1>2 DEF NewFrame, GoodFrame, Bare, ClientLabels, CloserLabels

LEMMA FrameIsGood ==
  ASSUME Typed, NEW t \in Threads
  PROVE  frame[t] \in Frames /\ GoodFrame(t, frame[t])
  BY DEF Typed, TypeOK, FramesOK

\* One thread gets a new good frame.
LEMMA FrameUpdate ==
  ASSUME Typed, NEW t \in Threads, NEW g \in Frames, GoodFrame(t, g), SetFrame(t, g)
  PROVE  /\ frame' \in [Threads -> Frames]
         /\ FramesOK'
         /\ frame'[t] = g
         /\ \A u \in Threads \ {t} : frame'[u] = frame[u]
<1>1. frame \in [Threads -> Frames]
  BY DEF Typed, TypeOK
<1>2. frame' \in [Threads -> Frames] /\ frame'[t] = g
      /\ \A u \in Threads \ {t} : frame'[u] = frame[u]
  BY <1>1 DEF SetFrame
<1>3. \A u \in Threads : GoodFrame(u, frame'[u])
  BY <1>2 DEF Typed, FramesOK
<1>4. QED BY <1>2, <1>3 DEF FramesOK

\* After a method on a lease, whatever it returned, the caller's frame is good.
LEMMA ReturnGood ==
  ASSUME Typed, NEW t \in Threads, frame[t].pc \in {"current", "body", "retire"},
         NEW ok \in BOOLEAN, Return(t, ok)
  PROVE  /\ frame' \in [Threads -> Frames]
         /\ FramesOK'
         /\ \A u \in Threads \ {t} : frame'[u] = frame[u]
<1> DEFINE f == frame[t]
           k == IF ok THEN AfterOk(f.program, f.method) ELSE AfterErr(f.program, f.method)
<1>1. f \in Frames /\ GoodFrame(t, f)
  BY DEF Typed, TypeOK, FramesOK
<1>2. k \in Labels \cup Methods
  BY DEF AfterOk, AfterErr, Labels, Methods
<1>3. Moved(f, k) \in Frames
  BY <1>1, <1>2, MovedType
<1>4. GoodFrame(t, Moved(f, k))
  <2>1. CASE f.program = "worker"
    <3>1. t \in Seqs /\ t \notin Clients /\ t \notin Closers
      BY <1>1, <2>1, BoundsAssumption, ThreadsAssumption
         DEF GoodFrame, Threads, Seqs, CloserLabels
    <3>2. f.method \in {"terminal", "release"} /\ f.lease = t
      BY <1>1, <3>1 DEF GoodFrame
    <3>3. k \in {"send", "exit"}
      BY <2>1, <3>2 DEF AfterOk, AfterErr
    <3>4. Moved(f, k) = [f EXCEPT !.pc = k]
      BY <3>3 DEF Moved, Methods
    <3>5. QED
      BY <1>1, <2>1, <3>1, <3>2, <3>3, <3>4
         DEF GoodFrame, Frames, Bare, WorkerLabels
  <2>2. CASE f.program # "worker"
    <3>1. t \in Clients /\ t \notin Seqs /\ t \notin Closers
      BY <1>1, <2>2, BoundsAssumption, ThreadsAssumption
         DEF GoodFrame, Threads, Seqs, CloserLabels
    <3>2. k \in Methods \cup {"idle", "launch"}
      BY <2>2 DEF AfterOk, AfterErr, Methods
    <3>3. CASE k = "idle"
      BY <3>3, IdleGood, <3>1 DEF Moved
    <3>4. CASE k = "launch"
      BY <1>1, <2>2, <3>1, <3>4
         DEF Moved, Methods, GoodFrame, Frames, Bare, ClientLabels
    <3>5. CASE k \in Methods
      BY <1>1, <2>2, <3>1, <3>5
         DEF Moved, Methods, GoodFrame, Frames, Bare, ClientLabels
    <3>6. QED BY <3>2, <3>3, <3>4, <3>5
  <2>3. QED BY <2>1, <2>2
<1>5. SetFrame(t, Moved(f, k))
  BY DEF Return, Goto
<1>6. QED BY <1>3, <1>4, <1>5, FrameUpdate

\* A move to a label, not into a method.
LEMMA GotoGood ==
  ASSUME Typed, NEW t \in Threads, NEW label \in Labels \ {"idle"}, Goto(t, label),
         GoodFrame(t, [frame[t] EXCEPT !.pc = label])
  PROVE  /\ frame' \in [Threads -> Frames]
         /\ FramesOK'
         /\ frame'[t] = [frame[t] EXCEPT !.pc = label]
         /\ \A u \in Threads \ {t} : frame'[u] = frame[u]
<1>1. frame[t] \in Frames
  BY DEF Typed, TypeOK
<1>2. [frame[t] EXCEPT !.pc = label] \in Frames
  BY <1>1 DEF Frames
<1>3. SetFrame(t, [frame[t] EXCEPT !.pc = label])
  BY DEF Goto, Moved, Labels, Methods
<1>4. QED BY <1>2, <1>3, FrameUpdate

LEMMA GotoIdle ==
  ASSUME Typed, NEW t \in Clients \cup Closers, Goto(t, "idle")
  PROVE  /\ frame' \in [Threads -> Frames]
         /\ FramesOK'
         /\ frame'[t] = NewFrame("idle")
         /\ \A u \in Threads \ {t} : frame'[u] = frame[u]
<1>1. SetFrame(t, NewFrame("idle")) /\ t \in Threads
  BY DEF Goto, Moved, Threads
<1>2. QED BY <1>1, IdleGood, FrameUpdate

-----------------------------------------------------------------------------
(* Type correctness, action by action.                                     *)

\* The initial state.
LEMMA TypedInit == Init => Typed
<1> SUFFICES ASSUME Init PROVE Typed
  OBVIOUS
<1>1. \A t \in Threads : frame[t] \in Frames /\ GoodFrame(t, frame[t])
  <2> TAKE t \in Threads
  <2>1. CASE t \in Seqs
    <3>1. frame[t] = NewFrame("unborn") /\ t \notin Clients /\ t \notin Closers
      BY <2>1, BoundsAssumption, ThreadsAssumption DEF Init, Seqs
    <3>2. QED
      BY <3>1, NewFrameType DEF Labels, NewFrame, GoodFrame, Bare, WorkerLabels
  <2>2. CASE t \notin Seqs
    BY <2>2, IdleGood DEF Init, Threads
  <2>3. QED BY <2>1, <2>2
<1>2. frame \in [Threads -> Frames] /\ FramesOK
  BY <1>1 DEF Init, FramesOK
<1>3. worker_history \in [outstanding : SUBSET Seqs, joined : SUBSET Seqs,
                          joined_order : Seq(Seqs), history_capacity : {HistoryCapacity}]
  BY DEF Init, NewLedger
<1>4. NoEntry \in OperationEntries /\ NoAttempt \in AttemptControls
  BY BoundsAssumption
     DEF NoEntry, OperationEntries, NoAttempt, AttemptControls, RunStateSet, RUNNING
<1>5. /\ operations \in [Ids -> Instances \cup {0}]
      /\ entry \in [Instances -> OperationEntries]
      /\ workers \in [Seqs -> {"absent", "joinable", "taken"}]
      /\ attempt \in [Seqs -> AttemptControls]
      /\ result \in [Seqs -> {"pending", "sent", "lost"}]
  BY <1>4 DEF Init
<1>6. next_sequence \in 1 .. MaxSequence /\ next_instance \in 1 .. (MaxInstances + 1)
  BY BoundsAssumption DEF Init
<1>7. QED BY <1>2, <1>3, <1>5, <1>6 DEF Init, Typed, TypeOK

\* What admission adds to the registry.
LEMMA CreateType ==
  ASSUME TypeOK, NEW id \in Ids, NEW explicit \in BOOLEAN,
         CreateOperationInner(id, explicit)
  PROVE  /\ operations' \in [Ids -> Instances \cup {0}]
         /\ entry' \in [Instances -> OperationEntries]
         /\ next_instance' \in 1 .. (MaxInstances + 1)
<1>1. [NoEntry EXCEPT !.operation_id = id, !.explicit = explicit] \in OperationEntries
  BY DEF NoEntry, OperationEntries
<1>2. QED BY <1>1, BoundsAssumption DEF TypeOK, CreateOperationInner, Instances

LEMMA StartType ==
  ASSUME TypeOK, NEW i \in Instances, NEW initial \in OperationPhases,
         MayStartAttempt(i), StartAttemptInner(i, initial)
  PROVE  /\ next_sequence \in Seqs
         /\ next_sequence' \in 1 .. MaxSequence
         /\ attempts' \subseteq Seqs
         /\ entry' \in [Instances -> OperationEntries]
         /\ attempt' \in [Seqs -> AttemptControls]
<1>1. next_sequence \in Seqs /\ next_sequence + 1 \in 1 .. MaxSequence
  BY BoundsAssumption DEF TypeOK, MayStartAttempt, Seqs
<1>2. entry[i] \in OperationEntries
  BY DEF TypeOK
<1>3. [entry[i] EXCEPT !.attempts = @ \cup {next_sequence}] \in OperationEntries
  BY <1>1, <1>2 DEF OperationEntries
<1>4. [operation_id |-> entry[i].operation_id, instance |-> i, phase |-> initial,
       terminal |-> "none", control |-> NewControl(entry[i].cancellation_requested),
       progress |-> 0] \in AttemptControls
  BY <1>2, BoundsAssumption
     DEF OperationEntries, AttemptControls, NewControl, RunStateSet, RUNNING, CANCEL_REQUESTED
<1>5. QED BY <1>1, <1>3, <1>4 DEF TypeOK, StartAttemptInner

\* A change of one field of one attempt keeps the type.
LEMMA AttemptType ==
  ASSUME TypeOK, NEW s \in Seqs
  PROVE  /\ \A p \in OperationPhases \cup {"none"} :
               [attempt EXCEPT ![s].phase = p] \in [Seqs -> AttemptControls]
         /\ \A r \in 0 .. ProgressCapacity :
               [attempt EXCEPT ![s].progress = r] \in [Seqs -> AttemptControls]
         /\ [attempt EXCEPT ![s].control = CancelRequest(@)] \in [Seqs -> AttemptControls]
<1>1. attempt[s] \in AttemptControls
  BY DEF TypeOK
<1>2. CancelRequest(attempt[s].control) \in RunStateSet
  BY <1>1 DEF AttemptControls, CancelRequest, RunStateSet, CANCEL_REQUESTED
<1>3. QED BY <1>1, <1>2 DEF TypeOK, AttemptControls

Ledgers == [outstanding : SUBSET Seqs, joined : SUBSET Seqs,
            joined_order : Seq(Seqs), history_capacity : {HistoryCapacity}]

LEMMA LedgerType ==
  ASSUME NEW ledger \in Ledgers, NEW w \in Seqs
  PROVE  NoteStarted(ledger, w) \in Ledgers /\ NoteJoined(ledger, w) \in Ledgers
<1> DEFINE order == Pushed(ledger, w)
           n     == Excess(ledger)
<1>1. NoteStarted(ledger, w) \in Ledgers
  BY DEF Ledgers, NoteStarted
<1>2. order \in Seq(Seqs) /\ Len(order) = Len(ledger.joined_order) + 1
  BY AppendProperties DEF Ledgers, Pushed
<1>3. n \in 0 .. Len(order)
  BY <1>2, BoundsAssumption, LenProperties DEF Ledgers, Excess
<1>4. SubSeq(order, n + 1, Len(order)) \in Seq(Seqs)
  <2>1. Len(order) \in Nat
    BY <1>2, LenProperties
  <2>2. n + 1 \in 1 .. Len(order) + 1 /\ Len(order) \in (n + 1) - 1 .. Len(order)
    BY <1>3, <2>1
  <2>3. QED BY <1>2, <2>2, SubSeqProperties
<1> HIDE DEF order, n
<1>5. NoteJoined(ledger, w) =
        [ledger EXCEPT !.outstanding = @ \ {w},
                       !.joined = (@ \cup {w}) \ {order[k] : k \in 1 .. n},
                       !.joined_order = SubSeq(order, n + 1, Len(order))]
  BY DEF NoteJoined, order, n
<1>6. NoteJoined(ledger, w) \in Ledgers
  BY <1>4, <1>5 DEF Ledgers
<1>7. QED BY <1>1, <1>6

-----------------------------------------------------------------------------

\* The steps of admission preserve the types.
LEMMA TypedAdmission ==
  ASSUME Typed, NEW c \in Clients,
         \/ \E id \in ReservedIds : ReserveCreate(c, id)
         \/ \E id \in ExplicitIds : CreateOperation(c, id)
         \/ \E i \in Instances : StartAttempt(c, i)
         \/ ReserveAttempt(c) \/ ReserveRollback(c)
  PROVE  Typed'
<1> c \in Threads /\ c \notin Seqs /\ c \notin Closers
  BY BoundsAssumption, ThreadsAssumption DEF Threads, Seqs
<1> USE DEF registryVars, workerVars
<1>1. ASSUME NEW id \in ReservedIds, ReserveCreate(c, id) PROVE Typed'
  <2> DEFINE g == [NewFrame("create") EXCEPT !.instance = next_instance]
  <2>1. g \in Frames
    BY <1>1 DEF NewFrame, Frames, Labels, Programs, TerminalClasses,
                ReserveCreate, CreateOperationInner
  <2>2. GoodFrame(c, g)
    BY <1>1 DEF GoodFrame, NewFrame, Bare, ClientLabels, ReserveCreate, CreateOperationInner
  <2>3. frame' \in [Threads -> Frames] /\ FramesOK'
    BY <1>1, <2>1, <2>2, FrameUpdate DEF ReserveCreate
  <2>4. QED
    BY <1>1, <2>3, CreateType DEF Typed, TypeOK, ReserveCreate, Ids
<1>2. ASSUME NEW id \in ExplicitIds, CreateOperation(c, id) PROVE Typed'
  BY <1>2, CreateType DEF Typed, TypeOK, FramesOK, CreateOperation, Ids
<1>3. ASSUME NEW i \in Instances, StartAttempt(c, i) PROVE Typed'
  BY <1>3, StartType DEF Typed, TypeOK, FramesOK, StartAttempt, OperationPhases
<1>4. CASE ReserveAttempt(c)
  <2>1. frame[c].instance \in Instances
    BY <1>4 DEF ReserveAttempt, At, Typed, FramesOK, GoodFrame
  <2>2. CASE MayStartAttempt(frame[c].instance)
    <3> DEFINE g == [NewFrame("reserved") EXCEPT !.lease = next_sequence]
    <3>1. StartAttemptInner(frame[c].instance, "reserved") /\ SetFrame(c, g)
      BY <1>4, <2>2 DEF ReserveAttempt
    <3>2. /\ next_sequence \in Seqs
          /\ next_sequence' \in 1 .. MaxSequence
          /\ attempts' \subseteq Seqs
          /\ entry' \in [Instances -> OperationEntries]
          /\ attempt' \in [Seqs -> AttemptControls]
      BY <2>1, <2>2, <3>1, StartType DEF Typed, OperationPhases
    <3>3. g \in Frames
      BY <3>2 DEF NewFrame, Frames, Labels, Programs, TerminalClasses
    <3>4. GoodFrame(c, g)
      BY <3>2 DEF GoodFrame, NewFrame, Bare, ClientLabels
    <3>5. frame' \in [Threads -> Frames] /\ FramesOK'
      BY <3>1, <3>3, <3>4, FrameUpdate
    <3>6. QED
      BY <1>4, <3>2, <3>5 DEF Typed, TypeOK, ReserveAttempt
  <2>3. CASE ~MayStartAttempt(frame[c].instance)
    <3>0. frame[c] \in Frames /\ GoodFrame(c, frame[c])
      BY FrameIsGood
    <3>1. GoodFrame(c, [frame[c] EXCEPT !.pc = "rollback"])
      BY <1>4, <2>1, <3>0
         DEF GoodFrame, Frames, Bare, ClientLabels, ReserveAttempt, At
    <3>2. frame' \in [Threads -> Frames] /\ FramesOK'
      BY <1>4, <2>3, <3>1, GotoGood DEF ReserveAttempt, Labels
    <3>3. QED
      BY <1>4, <2>3, <3>2 DEF Typed, TypeOK, ReserveAttempt
  <2>4. QED BY <2>2, <2>3
<1>5. CASE ReserveRollback(c)
  <2>1. frame' \in [Threads -> Frames] /\ FramesOK'
    BY <1>5, GotoIdle DEF ReserveRollback
  <2>2. QED
    BY <1>5, <2>1 DEF Typed, TypeOK, ReserveRollback, RemoveOperation
<1>6. QED BY <1>1, <1>2, <1>3, <1>4, <1>5

\* The sections of the methods on a lease preserve the types.
LEMMA TypedLease ==
  ASSUME Typed, NEW t \in Clients \cup Seqs, LeaseStep(t)
  PROVE  Typed'
<1>0. t \in Threads
  BY DEF Threads
<1>g. frame[t] \in Frames /\ GoodFrame(t, frame[t])
  BY <1>0, FrameIsGood
<1> USE DEF registryVars, workerVars
<1>1. CASE RequireCurrent(t)
  <2>1. CASE frame[t].lease \in attempts
    <3>1. GoodFrame(t, [frame[t] EXCEPT !.pc = "body"])
      BY <1>1, <1>g
         DEF GoodFrame, Frames, Bare, ClientLabels, CloserLabels, WorkerLabels,
             RequireCurrent, At
    <3>2. frame' \in [Threads -> Frames] /\ FramesOK'
      BY <1>0, <1>1, <2>1, <3>1, GotoGood DEF RequireCurrent, Labels
    <3>3. QED BY <1>1, <3>2 DEF Typed, TypeOK, RequireCurrent
  <2>2. CASE frame[t].lease \notin attempts
    <3>1. frame' \in [Threads -> Frames] /\ FramesOK'
      BY <1>0, <1>1, <2>2, ReturnGood DEF RequireCurrent, At
    <3>2. QED BY <1>1, <3>1 DEF Typed, TypeOK, RequireCurrent
  <2>3. QED BY <2>1, <2>2
<1>b. CASE frame[t].pc = "body"
  <2>s. frame[t].lease \in Seqs
    BY <1>g, <1>b DEF GoodFrame, Bare
  <2>a. attempt \in [Seqs -> AttemptControls] /\ attempt[frame[t].lease] \in AttemptControls
    BY <2>s DEF Typed, TypeOK
  <2>r. ASSUME NEW ok \in BOOLEAN, Return(t, ok)
        PROVE  frame' \in [Threads -> Frames] /\ FramesOK'
    BY <1>0, <1>b, <2>r, ReturnGood
  <2>1. ASSUME NEW method, NEW from, NEW to \in OperationPhases,
               Transition(t, method, from, to)
        PROVE  Typed'
    <3>1. attempt' \in [Seqs -> AttemptControls]
      BY <2>a, <2>s, <2>1 DEF Transition, AttemptControls
    <3>2. frame' \in [Threads -> Frames] /\ FramesOK'
      BY <2>1, <2>r DEF Transition
    <3>3. QED BY <2>1, <3>1, <3>2 DEF Typed, TypeOK, Transition
  <2>2. CASE Queue(t) \/ Start(t)
    BY <2>2, <2>1 DEF Queue, Start, OperationPhases
  <2>3. CASE PublishProgress(t)
    <3>1. attempt' \in [Seqs -> AttemptControls]
      BY <2>a, <2>s, <2>3, BoundsAssumption DEF PublishProgress, AttemptControls
    <3>2. frame' \in [Threads -> Frames] /\ FramesOK'
      BY <2>3, <2>r DEF PublishProgress, AcceptsOutcome
    <3>3. QED BY <2>3, <3>1, <3>2 DEF Typed, TypeOK, PublishProgress
  <2>4. CASE Terminal(t)
    <3> DEFINE a == attempt[frame[t].lease]
               b == [a EXCEPT !.phase = "terminal", !.control = TerminalOf(a.control),
                              !.terminal = PublishedClass(a.control, frame[t].class)]
    <3>1. b \in AttemptControls
      BY <2>a, <1>g
         DEF AttemptControls, OperationPhases, TerminalOf, RunStateSet, TERMINAL,
             TERMINAL_CANCELLED, PublishedClass, TerminalClasses, Frames
    <3>2. attempt' \in [Seqs -> AttemptControls]
      BY <2>a, <2>s, <2>4, <3>1 DEF Terminal
    <3>3. frame' \in [Threads -> Frames] /\ FramesOK'
      BY <2>4, <2>r DEF Terminal, AcceptsOutcome, IsTerminal
    <3>4. waiting' \subseteq Threads
      BY <2>4 DEF Terminal, NotifyAll, Typed, TypeOK
    <3>5. QED BY <2>4, <3>2, <3>3, <3>4 DEF Typed, TypeOK, Terminal
  <2>5. CASE Release(t)
    <3>1. attempt' \in [Seqs -> AttemptControls]
      <4>1. [attempt[frame[t].lease] EXCEPT !.phase = "released"] \in AttemptControls
        BY <2>a DEF AttemptControls, OperationPhases
      <4>2. QED BY <2>a, <2>s, <2>5, <4>1 DEF Release
    <3>2. frame' \in [Threads -> Frames] /\ FramesOK'
      <4>1. GoodFrame(t, [frame[t] EXCEPT !.pc = "retire"])
        BY <1>b, <1>g, <2>5
           DEF GoodFrame, Frames, Bare, ClientLabels, CloserLabels, WorkerLabels,
               Release, In
      <4>2. CASE Goto(t, "retire")
        BY <1>0, <4>1, <4>2, GotoGood DEF Labels
      <4>3. QED BY <2>5, <4>2, <2>r DEF Release
    <3>3. QED BY <2>5, <3>1, <3>2 DEF Typed, TypeOK, Release
  <2>6. QED
    BY <1>b, <2>2, <2>3, <2>4, <2>5, <1>1 DEF LeaseStep, RequireCurrent, Retire, At
<1>3. CASE Retire(t)
  <2>1. frame' \in [Threads -> Frames] /\ FramesOK'
    BY <1>0, <1>3, ReturnGood DEF Retire, At
  <2>2. entry' \in [Instances -> OperationEntries] /\ operations' \in [Ids -> Instances \cup {0}]
    <3>1. entry \in [Instances -> OperationEntries] /\ operations \in [Ids -> Instances \cup {0}]
      BY DEF Typed, TypeOK
    <3>2. ASSUME NEW i, NEW s
          PROVE  [entry EXCEPT ![i].attempts = @ \ {s}] \in [Instances -> OperationEntries]
      <4>1. CASE i \in Instances
        <5>1. [entry[i] EXCEPT !.attempts = @ \ {s}] \in OperationEntries
          BY <3>1, <4>1 DEF OperationEntries
        <5>2. QED BY <3>1, <5>1
      <4>2. CASE i \notin Instances
        BY <3>1, <4>2
      <4>3. QED BY <4>1, <4>2
    <3>3. operations' \in [Ids -> Instances \cup {0}]
      <4>1. operations' = operations
            \/ operations' = [operations EXCEPT ![attempt[frame[t].lease].operation_id] = 0]
        BY <1>3 DEF Retire, RemoveOperation
      <4>2. QED BY <3>1, <4>1
    <3>4. entry' \in [Instances -> OperationEntries]
      <4> DEFINE s == frame[t].lease
                 i == operations[attempt[s].operation_id]
      <4>1. entry' = entry \/ entry' = [entry EXCEPT ![i].attempts = @ \ {s}]
        BY <1>3 DEF Retire
      <4> HIDE DEF s, i
      <4>2. CASE entry' = entry
        BY <3>1, <4>2
      <4>3. CASE entry' = [entry EXCEPT ![i].attempts = @ \ {s}]
        BY <3>2, <4>3
      <4>4. QED BY <4>1, <4>2, <4>3
    <3>5. QED BY <3>3, <3>4
  <2>3. waiting' \subseteq Threads /\ attempts' \subseteq Seqs
    BY <1>3 DEF Retire, NotifyAll, Typed, TypeOK
  <2>4. QED BY <1>3, <2>1, <2>2, <2>3 DEF Typed, TypeOK, Retire
<1>4. QED
  BY <1>1, <1>b, <1>3
     DEF LeaseStep, Queue, Start, Transition, PublishProgress, Terminal, Release, In, At

\* An idle client's remaining calls preserve the types.
LEMMA TypedCall ==
  ASSUME Typed, NEW c \in Clients,
         \/ \E i \in Instances : FinishOperation(c, i) \/ RequestOperationCancel(c, i)
         \/ \E s \in Seqs : FinishAttempt(c, s)
         \/ \E s \in Seqs, m \in Methods, k \in TerminalClasses : CallShared(c, s, m, k)
  PROVE  Typed'
<1> c \in Threads /\ c \notin Seqs /\ c \notin Closers
  BY BoundsAssumption, ThreadsAssumption DEF Threads, Seqs
<1> USE DEF registryVars, workerVars
<1>1. ASSUME NEW i \in Instances, FinishOperation(c, i) PROVE Typed'
  BY <1>1 DEF Typed, TypeOK, FramesOK, FinishOperation, RemoveOperation, NotifyAll
<1>2. ASSUME NEW i \in Instances, RequestOperationCancel(c, i) PROVE Typed'
  <2> DEFINE g == [NewFrame("cancel_sweep") EXCEPT !.sweep = entry[i].attempts]
  <2>1. entry[i] \in OperationEntries /\ entry \in [Instances -> OperationEntries]
    BY DEF Typed, TypeOK
  <2>2. g \in Frames
    BY <2>1 DEF NewFrame, Frames, Labels, Programs, TerminalClasses, OperationEntries
  <2>3. GoodFrame(c, g)
    BY DEF GoodFrame, NewFrame, Bare, ClientLabels
  <2>4. frame' \in [Threads -> Frames] /\ FramesOK'
    BY <1>2, <2>2, <2>3, FrameUpdate DEF RequestOperationCancel
  <2>5. entry' \in [Instances -> OperationEntries]
    BY <1>2, <2>1 DEF RequestOperationCancel, OperationEntries
  <2>6. QED BY <1>2, <2>4, <2>5 DEF Typed, TypeOK, RequestOperationCancel
<1>3. ASSUME NEW s \in Seqs, NEW m \in Methods, NEW k \in TerminalClasses,
             NEW p \in {"call", "attempt"},
             SetFrame(c, [NewFrame("current") EXCEPT !.program = p, !.method = m,
                                                     !.lease = s, !.class = k])
      PROVE  frame' \in [Threads -> Frames] /\ FramesOK'
  <2> DEFINE g == [NewFrame("current") EXCEPT !.program = p, !.method = m,
                                              !.lease = s, !.class = k]
  <2>1. g \in Frames
    BY DEF NewFrame, Frames, Labels, Programs, TerminalClasses
  <2>2. GoodFrame(c, g)
    BY DEF GoodFrame, NewFrame, Bare, ClientLabels
  <2>3. QED BY <1>3, <2>1, <2>2, FrameUpdate
<1>4. ASSUME NEW s \in Seqs, FinishAttempt(c, s) PROVE Typed'
  <2> DEFINE k == IF CancellationRequested(attempt[s].control)
                    THEN "cancelled" ELSE "completed"
  <2>1. k \in TerminalClasses /\ "terminal" \in Methods
    BY DEF TerminalClasses, Methods
  <2>2. SetFrame(c, [NewFrame("current") EXCEPT !.program = "attempt",
                         !.method = "terminal", !.lease = s, !.class = k])
    BY <1>4 DEF FinishAttempt
  <2>3. frame' \in [Threads -> Frames] /\ FramesOK'
    BY <1>3, <2>1, <2>2
  <2>4. QED BY <1>4, <2>3 DEF Typed, TypeOK, FinishAttempt
<1>5. ASSUME NEW s \in Seqs, NEW m \in Methods, NEW k \in TerminalClasses,
             CallShared(c, s, m, k)
      PROVE  Typed'
  <2>1. frame' \in [Threads -> Frames] /\ FramesOK'
    BY <1>3, <1>5 DEF CallShared
  <2>2. QED BY <1>5, <2>1 DEF Typed, TypeOK, CallShared
<1>6. QED BY <1>1, <1>2, <1>4, <1>5

\* The cancellation of an attempt, and the sweep over several, preserve them.
LEMMA TypedCancel ==
  ASSUME Typed,
         \/ \E s \in Seqs : RequestCancel(s)
         \/ \E t \in Clients \cup Closers : SweepStep(t)
  PROVE  Typed'
<1> USE DEF registryVars, workerVars
<1>1. ASSUME NEW s \in Seqs, CancelAttempt(s)
      PROVE  attempt' \in [Seqs -> AttemptControls]
  BY <1>1, AttemptType DEF CancelAttempt, Typed
<1>2. ASSUME NEW s \in Seqs, RequestCancel(s) PROVE Typed'
  BY <1>1, <1>2 DEF RequestCancel, Typed, TypeOK, FramesOK
<1>3. ASSUME NEW t \in Clients \cup Closers, NEW s \in Seqs, CancelSweep(t, s)
      PROVE  Typed'
  <2> DEFINE g == [frame[t] EXCEPT !.sweep = @ \ {s}]
  <2>0. t \in Threads
    BY DEF Threads
  <2>1. frame[t] \in Frames /\ GoodFrame(t, frame[t])
    BY <2>0, FrameIsGood
  <2>2. g \in Frames
    BY <2>1 DEF Frames
  <2>3. GoodFrame(t, g)
    BY <1>3, <2>1 DEF GoodFrame, Frames, CancelSweep, At, Bare, WorkerLabels
  <2>4. frame' \in [Threads -> Frames] /\ FramesOK'
    BY <1>3, <2>0, <2>2, <2>3, FrameUpdate DEF CancelSweep
  <2>5. attempt' \in [Seqs -> AttemptControls]
    BY <1>1, <1>3 DEF CancelSweep
  <2>6. QED BY <1>3, <2>4, <2>5 DEF CancelSweep, Typed, TypeOK
<1>4. ASSUME NEW t \in Clients \cup Closers, CancelSweepDone(t) PROVE Typed'
  <2>0. t \in Threads
    BY DEF Threads
  <2>1. frame' \in [Threads -> Frames] /\ FramesOK'
    <3>1. CASE t \in Closers /\ Goto(t, "cached")
      <4>1. frame[t] \in Frames /\ GoodFrame(t, frame[t])
        BY <2>0, FrameIsGood
      <4>2. t \notin Clients /\ t \notin Seqs
        BY <3>1, BoundsAssumption, ThreadsAssumption DEF Seqs
      <4>3. GoodFrame(t, [frame[t] EXCEPT !.pc = "cached"])
        BY <1>4, <4>1, <4>2 DEF GoodFrame, Frames, CancelSweepDone, At, Bare, CloserLabels
      <4>4. QED BY <2>0, <3>1, <4>3, GotoGood DEF Labels
    <3>2. CASE t \in Clients /\ Goto(t, "idle")
      BY <3>2, GotoIdle
    <3>3. QED BY <1>4, <3>1, <3>2 DEF CancelSweepDone
  <2>2. waiting' \subseteq Threads
    BY <1>4 DEF CancelSweepDone, NotifyAll, Typed, TypeOK
  <2>3. QED BY <1>4, <2>1, <2>2 DEF CancelSweepDone, Typed, TypeOK
<1>5. QED BY <1>2, <1>3, <1>4 DEF SweepStep

\* The steps that start a worker, or finish a reservation without one.
LEMMA TypedSpawn ==
  ASSUME Typed, NEW c \in Clients,
         \/ Spawn(c) \/ (\E k \in TerminalClasses : FinishReservation(c, k))
         \/ Launch(c) \/ Register(c) \/ Rendezvous(c)
  PROVE  Typed'
<1>0. c \in Threads /\ c \notin Seqs /\ c \notin Closers
  BY BoundsAssumption, ThreadsAssumption DEF Threads, Seqs
<1>g. frame[c] \in Frames /\ GoodFrame(c, frame[c])
  BY <1>0, FrameIsGood
<1>w. \A w \in Seqs : w \in Threads /\ w # c /\ w \notin Clients /\ w \notin Closers
  BY <1>0, BoundsAssumption, ThreadsAssumption DEF Threads, Seqs
<1>t. frame \in [Threads -> Frames] /\ FramesOK
  BY DEF Typed, TypeOK
<1> USE DEF registryVars, workerVars
\* Into a method on the lease the frame already holds.
<1>m. ASSUME NEW p \in {"spawn", "refuse", "finish", "start_failed"},
             NEW m \in Methods, NEW k \in TerminalClasses, frame[c].pc \in {"reserved", "launch"},
             SetFrame(c, [frame[c] EXCEPT !.pc = "current", !.method = m,
                                          !.program = p, !.class = k])
      PROVE  frame' \in [Threads -> Frames] /\ FramesOK'
  <2> DEFINE g == [frame[c] EXCEPT !.pc = "current", !.method = m, !.program = p, !.class = k]
  <2>1. g \in Frames
    BY <1>g DEF Frames, Labels, Programs
  <2>2. GoodFrame(c, g)
    BY <1>0, <1>g, <1>m DEF GoodFrame, Frames, Bare, ClientLabels
  <2>3. QED BY <1>0, <1>m, <2>1, <2>2, FrameUpdate
<1>k. \A f \in Frames : f = [f EXCEPT !.class = f.class] /\ f.class \in TerminalClasses
  BY DEF Frames
<1>1. CASE Spawn(c)
  <2> DEFINE p == IF poisoned THEN "refuse" ELSE "spawn"
  <2>1. [frame[c] EXCEPT !.pc = "current", !.method = "queue", !.program = p] =
        [frame[c] EXCEPT !.pc = "current", !.method = "queue", !.program = p,
                         !.class = frame[c].class]
    BY <1>g DEF Frames
  <2>2. frame[c].class \in TerminalClasses /\ "queue" \in Methods
    BY <1>g DEF Frames, Methods
  <2>3. frame' \in [Threads -> Frames] /\ FramesOK'
    BY <1>1, <1>m, <2>1, <2>2 DEF Spawn, At
  <2>4. QED BY <1>1, <2>3 DEF Spawn, Typed, TypeOK
<1>2. ASSUME NEW k \in TerminalClasses, FinishReservation(c, k) PROVE Typed'
  <2>1. frame' \in [Threads -> Frames] /\ FramesOK'
    BY <1>2, <1>m DEF FinishReservation, At, Methods
  <2>2. QED BY <1>2, <2>1 DEF FinishReservation, Typed, TypeOK
<1>3. CASE Launch(c)
  <2>1. frame' \in [Threads -> Frames] /\ FramesOK'
    <3>1. CASE SetFrame(c, [frame[c] EXCEPT !.pc = "current", !.method = "terminal",
                                            !.program = "start_failed"])
      <4>1. [frame[c] EXCEPT !.pc = "current", !.method = "terminal",
                             !.program = "start_failed"] =
            [frame[c] EXCEPT !.pc = "current", !.method = "terminal",
                             !.program = "start_failed", !.class = frame[c].class]
        BY <1>g DEF Frames
      <4>2. frame[c].class \in TerminalClasses /\ "terminal" \in Methods
        BY <1>g DEF Frames, Methods
      <4>3. QED BY <1>3, <1>m, <3>1, <4>1, <4>2 DEF Launch, At
    <3>2. CASE frame' = [frame EXCEPT ![c].pc = "register", ![frame[c].lease] =
                           [NewFrame("recv") EXCEPT !.program = "worker",
                                                    !.lease = frame[c].lease]]
      <4> DEFINE w == frame[c].lease
                 g == [frame[c] EXCEPT !.pc = "register"]
                 h == [NewFrame("recv") EXCEPT !.program = "worker", !.lease = w]
      <4>1. w \in Seqs
        BY <1>3, <1>g DEF Launch, At, GoodFrame, Bare
      <4>2. g \in Frames /\ GoodFrame(c, g)
        BY <1>0, <1>3, <1>g DEF Launch, At, GoodFrame, Frames, Bare, Labels, ClientLabels
      <4>3. h \in Frames
        BY <4>1 DEF NewFrame, Frames, Labels, Programs, TerminalClasses
      <4>4. GoodFrame(w, h)
        BY <1>w, <4>1 DEF NewFrame, GoodFrame, Bare, WorkerLabels
      <4>5. frame' = [[frame EXCEPT ![c] = g] EXCEPT ![w] = h]
        BY <3>2
      <4> HIDE DEF w, g, h
      <4>6. /\ frame' \in [Threads -> Frames]
            /\ \A u \in Threads : frame'[u] = IF u = w THEN h ELSE IF u = c THEN g ELSE frame[u]
        BY <1>0, <1>t, <1>w, <4>1, <4>2, <4>3, <4>5
      <4>7. \A u \in Threads : GoodFrame(u, frame'[u])
        BY <1>t, <4>2, <4>4, <4>6 DEF FramesOK
      <4>8. QED BY <4>6, <4>7 DEF FramesOK
    <3>3. QED BY <1>3, <3>1, <3>2 DEF Launch
  <2>2. QED BY <1>3, <2>1 DEF Launch, Typed, TypeOK
<1>4. CASE Register(c)
  <2>1. frame[c].lease \in Seqs
    BY <1>4, <1>g DEF Register, At, GoodFrame, Bare
  <2>2. GoodFrame(c, [frame[c] EXCEPT !.pc = "rendezvous"])
    BY <1>0, <1>4, <1>g DEF Register, At, GoodFrame, Frames, Bare, ClientLabels
  <2>3. frame' \in [Threads -> Frames] /\ FramesOK'
    BY <1>0, <1>4, <2>2, GotoGood DEF Register, Labels
  <2>4. worker_history' \in Ledgers
    BY <1>4, <2>1, LedgerType DEF Register, Typed, TypeOK, Ledgers
  <2>5. workers' \in [Seqs -> {"absent", "joinable", "taken"}]
    BY <1>4, <2>1 DEF Register, Typed, TypeOK
  <2>6. QED BY <1>4, <2>3, <2>4, <2>5 DEF Register, Typed, TypeOK, Ledgers
<1>5. CASE Rendezvous(c)
  <2> DEFINE w == frame[c].lease
             g == [frame[c] EXCEPT !.pc = "task"]
             h == [frame[w] EXCEPT !.pc = "run"]
  <2>1. w \in Seqs
    BY <1>5, <1>g DEF Rendezvous, At, GoodFrame, Bare
  <2>2. frame[w] \in Frames /\ GoodFrame(w, frame[w])
    BY <1>w, <2>1, FrameIsGood
  <2>3. g \in Frames /\ GoodFrame(c, g)
    BY <1>0, <1>5, <1>g DEF Rendezvous, At, GoodFrame, Frames, Bare, Labels, ClientLabels
  <2>4. h \in Frames
    BY <2>2 DEF Frames, Labels
  <2>5. GoodFrame(w, h)
    BY <1>5, <1>w, <2>1, <2>2 DEF Rendezvous, GoodFrame, Frames, Bare, WorkerLabels
  <2>6. frame' = [[frame EXCEPT ![c] = g] EXCEPT ![w] = h]
    BY <1>0, <1>5, <1>t, <1>w, <2>1 DEF Rendezvous
  <2>s. shared' \subseteq Seqs
    BY <1>5, <2>1 DEF Rendezvous, Typed, TypeOK
  <2> HIDE DEF w, g, h
  <2>7. /\ frame' \in [Threads -> Frames]
        /\ \A u \in Threads : frame'[u] = IF u = w THEN h ELSE IF u = c THEN g ELSE frame[u]
    BY <1>0, <1>t, <1>w, <2>1, <2>3, <2>4, <2>6
  <2>8. \A u \in Threads : GoodFrame(u, frame'[u])
    BY <1>t, <2>3, <2>5, <2>7 DEF FramesOK
  <2>9. QED BY <1>5, <2>7, <2>8, <2>s DEF Rendezvous, Typed, TypeOK, FramesOK
<1>6. QED BY <1>1, <1>2, <1>3, <1>4, <1>5

\* The steps of a worker outside the methods on its lease.
LEMMA TypedWorker ==
  ASSUME Typed, NEW w \in Seqs,
         \/ \E outcome \in {"ok", "err", "panic"} : RunOperation(w, outcome)
         \/ Send(w) \/ RecordWorkerExit(w)
  PROVE  Typed'
<1>0. w \in Threads /\ w \notin Clients /\ w \notin Closers
  BY BoundsAssumption, ThreadsAssumption DEF Threads, Seqs
<1>g. frame[w] \in Frames /\ GoodFrame(w, frame[w])
  BY <1>0, FrameIsGood
<1> USE DEF registryVars, workerVars
<1>1. ASSUME NEW outcome \in {"ok", "err", "panic"}, RunOperation(w, outcome)
      PROVE  Typed'
  <2> DEFINE k == IF outcome # "panic" /\ CancellationRequested(attempt[w].control)
                    THEN "cancelled"
                    ELSE IF outcome = "ok" THEN "completed" ELSE "failed"
  <2>1. k \in TerminalClasses
    BY DEF TerminalClasses
  <2>2. SetFrame(w, [frame[w] EXCEPT !.pc = "current", !.method = "terminal", !.class = k])
    BY <1>1 DEF RunOperation
  <2> HIDE DEF k
  <2> DEFINE g == [frame[w] EXCEPT !.pc = "current", !.method = "terminal", !.class = k]
  <2>3. g \in Frames
    BY <1>g, <2>1 DEF Frames, Labels, Methods
  <2>4. GoodFrame(w, g)
    BY <1>0, <1>1, <1>g DEF RunOperation, At, GoodFrame, Frames, Bare, Methods, WorkerLabels
  <2>5. frame' \in [Threads -> Frames] /\ FramesOK'
    BY <1>0, <2>2, <2>3, <2>4, FrameUpdate
  <2>6. QED BY <1>1, <2>5 DEF RunOperation, Typed, TypeOK
<1>2. CASE Send(w)
  <2> DEFINE g == [frame[w] EXCEPT !.pc = "current", !.method = "release"]
  <2>1. g \in Frames
    BY <1>g DEF Frames, Labels, Methods
  <2>2. GoodFrame(w, g)
    BY <1>0, <1>2, <1>g DEF Send, At, GoodFrame, Frames, Bare, Methods, WorkerLabels
  <2>3. SetFrame(w, g)
    BY <1>2 DEF Send, Goto, Moved, Methods
  <2>4. frame' \in [Threads -> Frames] /\ FramesOK'
    BY <1>0, <2>1, <2>2, <2>3, FrameUpdate
  <2>5. result' \in [Seqs -> {"pending", "sent", "lost"}]
    BY <1>2 DEF Send, Typed, TypeOK
  <2>6. QED BY <1>2, <2>4, <2>5 DEF Send, Typed, TypeOK
<1>3. CASE RecordWorkerExit(w)
  <2>1. GoodFrame(w, [frame[w] EXCEPT !.pc = "dead"])
    BY <1>0, <1>3, <1>g DEF RecordWorkerExit, At, GoodFrame, Frames, Bare, WorkerLabels
  <2>2. frame' \in [Threads -> Frames] /\ FramesOK'
    BY <1>0, <1>3, <2>1, GotoGood DEF RecordWorkerExit, Labels
  <2>3. QED BY <1>3, <2>2 DEF RecordWorkerExit, NotifyAll, Typed, TypeOK
<1>4. QED BY <1>1, <1>2, <1>3

\* A thread that awaits or reaps a worker moves on along its own labels.
LEMMA ReaperGood ==
  ASSUME Typed, NEW t \in Clients \cup Closers, NEW label \in Labels,
         frame[t].pc \in {"task", "joined_check", "reap_take", "reap_join", "reap_note",
                          "recheck"},
         \/ t \in Clients /\ label \in {"idle", "joined_check", "reap_take", "recheck",
                                        "reap_join", "reap_note", "reap_error"}
         \/ t \in Closers /\ label \in {"drain", "reap_join", "reap_note"},
         Goto(t, label)
  PROVE  /\ frame' \in [Threads -> Frames]
         /\ FramesOK'
<1>0. t \in Threads /\ t \notin Seqs /\ ~(t \in Clients /\ t \in Closers)
  BY BoundsAssumption, ThreadsAssumption DEF Threads, Seqs
<1>g. frame[t] \in Frames /\ GoodFrame(t, frame[t])
  BY <1>0, FrameIsGood
<1>1. CASE label = "idle"
  BY <1>1, GotoIdle
<1>2. CASE label # "idle"
  <2>1. GoodFrame(t, [frame[t] EXCEPT !.pc = label])
    BY <1>0, <1>2, <1>g DEF GoodFrame, Frames, Bare, ClientLabels, CloserLabels
  <2>2. QED BY <1>0, <1>2, <2>1, GotoGood
<1>3. QED BY <1>1, <1>2

\* Awaiting and reaping preserve the types.
LEMMA TypedReap ==
  ASSUME Typed, NEW t \in Clients \cup Closers,
         \/ /\ t \in Clients
            /\ AwaitResult(t) \/ DropTask(t) \/ JoinedCheck(t) \/ Recheck(t)
         \/ ReapStep(t)
  PROVE  Typed'
<1>0. t \in Threads /\ t \notin Seqs /\ ~(t \in Clients /\ t \in Closers)
  BY BoundsAssumption, ThreadsAssumption DEF Threads, Seqs
<1>g. frame[t] \in Frames /\ GoodFrame(t, frame[t])
  BY <1>0, FrameIsGood
<1> USE DEF registryVars, workerVars
<1>1. CASE t \in Clients /\ AwaitResult(t)
  <2>1. frame' \in [Threads -> Frames] /\ FramesOK'
    BY <1>1, ReaperGood DEF AwaitResult, At, Labels
  <2>2. QED BY <1>1, <2>1 DEF AwaitResult, Typed, TypeOK
<1>2. CASE t \in Clients /\ DropTask(t)
  <2>1. frame' \in [Threads -> Frames] /\ FramesOK'
    BY <1>2, ReaperGood DEF DropTask, At, Labels
  <2>2. frame[t].lease \in Seqs
    BY <1>2, <1>g DEF DropTask, At, GoodFrame, Bare
  <2>3. attempt' \in [Seqs -> AttemptControls]
    BY <1>2, <2>2, AttemptType DEF DropTask, CancelAttempt, Typed, TypeOK
  <2>4. QED BY <1>2, <2>1, <2>3 DEF DropTask, Typed, TypeOK
<1>3. CASE t \in Clients /\ JoinedCheck(t)
  <2>1. frame' \in [Threads -> Frames] /\ FramesOK'
    BY <1>3, ReaperGood DEF JoinedCheck, At, Labels
  <2>2. QED BY <1>3, <2>1 DEF JoinedCheck, Typed, TypeOK
<1>4. CASE t \in Clients /\ Recheck(t)
  <2>1. frame' \in [Threads -> Frames] /\ FramesOK'
    BY <1>4, ReaperGood DEF Recheck, At, Labels
  <2>2. QED BY <1>4, <2>1 DEF Recheck, Typed, TypeOK
<1>5. CASE ReapTake(t)
  <2>1. frame' \in [Threads -> Frames] /\ FramesOK'
    <3>1. CASE frame' = frame
      BY <3>1 DEF Typed, TypeOK, FramesOK
    <3>2. CASE Goto(t, "reap_join")
      BY <1>5, <3>2, ReaperGood DEF ReapTake, At, Labels
    <3>3. CASE Goto(t, AfterReap(t, WasJoined(worker_history, frame[t].lease)))
      BY <1>5, <3>3, ReaperGood DEF ReapTake, At, AfterReap, Labels
    <3>4. QED BY <1>5, <3>1, <3>2, <3>3 DEF ReapTake
  <2>2. workers' \in [Seqs -> {"absent", "joinable", "taken"}]
    BY <1>5 DEF ReapTake, Typed, TypeOK
  <2>3. waiting' \subseteq Threads
    BY <1>0, <1>5 DEF ReapTake, Sleep, Typed, TypeOK
  <2>4. QED BY <1>5, <2>1, <2>2, <2>3 DEF ReapTake, Typed, TypeOK
<1>6. CASE ReapJoin(t)
  <2>1. frame' \in [Threads -> Frames] /\ FramesOK'
    BY <1>6, ReaperGood DEF ReapJoin, At, Labels
  <2>2. QED BY <1>6, <2>1 DEF ReapJoin, Typed, TypeOK
<1>7. CASE ReapNote(t)
  <2>1. frame[t].lease \in Seqs
    BY <1>7, <1>g DEF ReapNote, At, GoodFrame, Bare
  <2>2. frame' \in [Threads -> Frames] /\ FramesOK'
    BY <1>7, ReaperGood DEF ReapNote, At, AfterReap, Labels
  <2>3. worker_history' \in Ledgers
    <3>1. worker_history \in Ledgers
      BY DEF Typed, TypeOK, Ledgers
    <3>2. worker_history' = worker_history
          \/ worker_history' = NoteJoined(worker_history, frame[t].lease)
      BY <1>7 DEF ReapNote
    <3>3. QED BY <2>1, <3>1, <3>2, LedgerType
  <2>4. /\ workers' \in [Seqs -> {"absent", "joinable", "taken"}]
        /\ joined_flag' \subseteq Seqs
        /\ exited_worker_ids' \subseteq Seqs
        /\ waiting' \subseteq Threads
    BY <1>7, <2>1 DEF ReapNote, NotifyAll, Typed, TypeOK
  <2>5. QED BY <1>7, <2>2, <2>3, <2>4 DEF ReapNote, Typed, TypeOK, Ledgers
<1>8. QED BY <1>1, <1>2, <1>3, <1>4, <1>5, <1>6, <1>7 DEF ReapStep

\* The steps of shutdown outside the sweep and the reap.
LEMMA TypedShutdown ==
  ASSUME Typed, NEW t \in Closers,
         BeginQuiesce(t) \/ CachedOutcome(t) \/ Drain(t) \/ Close(t)
  PROVE  Typed'
<1>0. t \in Threads /\ t \notin Seqs /\ t \notin Clients
  BY BoundsAssumption, ThreadsAssumption DEF Threads, Seqs
<1>g. frame[t] \in Frames /\ GoodFrame(t, frame[t])
  BY <1>0, FrameIsGood
<1> USE DEF registryVars, workerVars
<1>m. ASSUME NEW label \in {"cached", "drain", "close", "returned"}, Goto(t, label),
             frame[t].pc \in {"idle", "cached", "drain", "close"}
      PROVE  frame' \in [Threads -> Frames] /\ FramesOK'
  <2>1. GoodFrame(t, [frame[t] EXCEPT !.pc = label])
    BY <1>0, <1>g, <1>m DEF GoodFrame, Frames, Bare, CloserLabels
  <2>2. QED BY <1>0, <1>m, <2>1, GotoGood DEF Labels
<1>1. CASE BeginQuiesce(t)
  <2>1. frame' \in [Threads -> Frames] /\ FramesOK'
    <3> DEFINE g == [NewFrame("cancel_sweep") EXCEPT !.sweep = attempts]
    <3>1. g \in Frames
      BY DEF NewFrame, Frames, Labels, Programs, TerminalClasses, Typed, TypeOK
    <3>2. GoodFrame(t, g)
      BY <1>0 DEF NewFrame, GoodFrame, Bare, CloserLabels
    <3>3. CASE SetFrame(t, g)
      BY <1>0, <3>1, <3>2, <3>3, FrameUpdate
    <3>4. CASE Goto(t, "cached")
      BY <1>1, <1>m, <3>4 DEF BeginQuiesce, At
    <3>5. QED BY <1>1, <3>3, <3>4 DEF BeginQuiesce
  <2>2. entry' \in [Instances -> OperationEntries]
    <3>1. \A i \in Instances, b \in BOOLEAN :
             [entry[i] EXCEPT !.cancellation_requested = b] \in OperationEntries
      <4>1. \A e \in OperationEntries, b \in BOOLEAN :
               [e EXCEPT !.cancellation_requested = b] \in OperationEntries
        BY DEF OperationEntries
      <4>2. QED BY <4>1 DEF Typed, TypeOK
    <3>2. \A i \in Instances :
             entry[i].cancellation_requested \in BOOLEAN
      BY DEF OperationEntries, Typed, TypeOK
    <3>3. CASE entry' = [i \in Instances |->
                [entry[i] EXCEPT !.cancellation_requested =
                    @ \/ \E id \in Ids : operations[id] = i]]
      BY <3>1, <3>2, <3>3
    <3>4. QED BY <1>1, <3>3 DEF BeginQuiesce, Typed, TypeOK
  <2>3. phase' \in {"running", "quiescing", "closed"}
    BY <1>1 DEF BeginQuiesce, Typed, TypeOK
  <2>4. QED BY <1>1, <2>1, <2>2, <2>3 DEF BeginQuiesce, Typed, TypeOK
<1>2. CASE CachedOutcome(t)
  <2>1. frame' \in [Threads -> Frames] /\ FramesOK'
    BY <1>2, <1>m DEF CachedOutcome, At
  <2>2. QED BY <1>2, <2>1 DEF CachedOutcome, Typed, TypeOK
<1>3. CASE Drain(t)
  <2>1. frame' \in [Threads -> Frames] /\ FramesOK'
    <3>1. CASE Goto(t, "close")
      BY <1>3, <1>m, <3>1 DEF Drain, At
    <3>2. CASE frame' = frame
      BY <3>2 DEF Typed, TypeOK, FramesOK
    <3>3. ASSUME NEW w \in Seqs,
                 SetFrame(t, [frame[t] EXCEPT !.pc = "reap_take", !.lease = w])
          PROVE  frame' \in [Threads -> Frames] /\ FramesOK'
      <4> DEFINE g == [frame[t] EXCEPT !.pc = "reap_take", !.lease = w]
      <4>1. g \in Frames
        BY <1>g DEF Frames, Labels
      <4>2. GoodFrame(t, g)
        BY <1>0, <1>3, <1>g DEF Drain, At, GoodFrame, Frames, Bare, CloserLabels
      <4>3. QED BY <1>0, <3>3, <4>1, <4>2, FrameUpdate
    <3>4. exited_worker_ids \subseteq Seqs
      BY DEF Typed, TypeOK
    <3>5. QED BY <1>3, <3>1, <3>2, <3>3, <3>4 DEF Drain
  <2>2. waiting' \subseteq Threads
    <3>1. waiting' = waiting \/ waiting' = waiting \cup {t}
      BY <1>3 DEF Drain, Sleep
    <3>2. QED BY <1>0, <3>1 DEF Typed, TypeOK
  <2>3. QED BY <1>3, <2>1, <2>2 DEF Drain, Typed, TypeOK
<1>4. CASE Close(t)
  <2>1. frame' \in [Threads -> Frames] /\ FramesOK'
    BY <1>4, <1>m DEF Close, At
  <2>2. shutdown' \in ShutdownOutcomes
    BY <1>4 DEF Close, ShutdownOutcomes, Expected, Typed, TypeOK
  <2>3. QED BY <1>4, <2>1, <2>2 DEF Close, NotifyAll, Typed, TypeOK
<1>5. QED BY <1>1, <1>2, <1>3, <1>4

-----------------------------------------------------------------------------

LEMMA TypedNext == Typed /\ [Next]_vars => Typed'
<1> SUFFICES ASSUME Typed, [Next]_vars PROVE Typed'
  OBVIOUS
<1>1. ASSUME NEW c \in Clients, ClientCall(c) \/ ClientStep(c) \/ ClientTask(c)
      PROVE  Typed'
  <2>1. CASE ClientCall(c)
    BY <2>1, TypedAdmission, TypedCall DEF ClientCall
  <2>2. CASE ClientStep(c)
    <3>1. CASE JoinedCheck(c) \/ Recheck(c) \/ ReapStep(c)
      BY <3>1, TypedReap
    <3>2. CASE SweepStep(c)
      BY <3>2, TypedCancel
    <3>3. CASE LeaseStep(c)
      BY <3>3, TypedLease
    <3>4. CASE ReserveAttempt(c) \/ ReserveRollback(c)
      BY <3>4, TypedAdmission
    <3>5. CASE \/ Spawn(c) \/ (\E k \in TerminalClasses : FinishReservation(c, k))
               \/ Launch(c) \/ Register(c) \/ Rendezvous(c)
      BY <3>5, TypedSpawn
    <3>6. QED BY <2>2, <3>1, <3>2, <3>3, <3>4, <3>5 DEF ClientStep
  <2>3. CASE ClientTask(c)
    BY <2>3, TypedReap DEF ClientTask
  <2>4. QED BY <1>1, <2>1, <2>2, <2>3
<1>2. ASSUME NEW w \in Seqs, WorkerStep(w) \/ RequestCancel(w) PROVE Typed'
  <2>1. CASE RequestCancel(w)
    BY <2>1, TypedCancel
  <2>2. CASE LeaseStep(w)
    BY <2>2, TypedLease
  <2>3. CASE \/ \E outcome \in {"ok", "err", "panic"} : RunOperation(w, outcome)
             \/ Send(w) \/ RecordWorkerExit(w)
    BY <2>3, TypedWorker
  <2>4. QED BY <1>2, <2>1, <2>2, <2>3 DEF WorkerStep
<1>3. ASSUME NEW t \in Closers, BeginQuiesce(t) \/ CloserStep(t) PROVE Typed'
  <2>1. CASE SweepStep(t)
    BY <2>1, TypedCancel
  <2>2. CASE ReapStep(t)
    BY <2>2, TypedReap
  <2>3. CASE BeginQuiesce(t) \/ CachedOutcome(t) \/ Drain(t) \/ Close(t)
    BY <2>3, TypedShutdown
  <2>4. QED BY <1>3, <2>1, <2>2, <2>3 DEF CloserStep
<1>4. CASE Poison
  BY <1>4 DEF Poison, Typed, TypeOK, FramesOK, registryVars, workerVars
<1>5. ASSUME NEW t \in Threads, SpuriousWake(t) PROVE Typed'
  BY <1>5 DEF SpuriousWake, Typed, TypeOK, FramesOK, registryVars, workerVars
<1>6. CASE UNCHANGED vars
  BY <1>6 DEF vars, Typed, TypeOK, FramesOK, registryVars, workerVars
<1>7. QED BY <1>1, <1>2, <1>3, <1>4, <1>5, <1>6 DEF Next

(***************************************************************************)
(* The supervisor is type correct, and every thread is only ever at the    *)
(* labels of its kind, holding what those labels need: no critical section *)
(* runs without the lease, instance or method it refers to.                *)
(***************************************************************************)
THEOREM TypeCorrect == Spec => [](TypeOK /\ FramesOK)
<1>1. Init => Typed
  BY TypedInit
<1>2. Typed /\ [Next]_vars => Typed'
  BY TypedNext
<1>3. Typed => TypeOK /\ FramesOK
  BY DEF Typed
<1>4. QED BY <1>1, <1>2, <1>3, PTL DEF Spec

-----------------------------------------------------------------------------
(***************************************************************************)
(* PART 2.  The registry.  The inductive invariant.                        *)
(***************************************************************************)

FreshOK ==
    /\ \A s \in Seqs : s >= next_sequence => attempt[s].phase = "none" /\ s \notin attempts
    /\ \A i \in Instances :
          /\ i >= next_instance => entry[i] = NoEntry
          /\ i < next_instance => entry[i].operation_id \in Ids

OperationsOK ==
    \A id \in Ids : operations[id] # 0 =>
        operations[id] < next_instance /\ entry[operations[id]].operation_id = id

AttemptsOK ==
    /\ \A s \in attempts :
          /\ attempt[s].operation_id \in Ids
          /\ attempt[s].instance \in Instances
          /\ operations[attempt[s].operation_id] = attempt[s].instance
          /\ s \in entry[attempt[s].instance].attempts
    /\ \A i \in Instances : \A s \in entry[i].attempts :
          s \in attempts /\ attempt[s].instance = i
    /\ \A s \in Seqs : attempt[s].phase \notin {"none", "released"} => s \in attempts
    /\ \A t \in Threads : frame[t].pc = "retire" => attempt[frame[t].lease].phase = "released"

\* A reserve between its two sections owns an entry nobody else can remove.
Reserving(c) == frame[c].pc \in {"create", "rollback"}

ReservingOK ==
    /\ \A c \in Clients : Reserving(c) =>
          /\ frame[c].instance < next_instance
          /\ operations[entry[frame[c].instance].operation_id] = frame[c].instance
          /\ ~entry[frame[c].instance].explicit
          /\ entry[frame[c].instance].attempts = {}
    /\ \A c, d \in Clients :
          Reserving(c) /\ Reserving(d) /\ frame[c].instance = frame[d].instance => c = d

QuiescingOK == \A t \in Closers : frame[t].pc # "idle" => phase # "running"

Registry ==
    /\ FreshOK
    /\ OperationsOK
    /\ AttemptsOK
    /\ ReservingOK
    /\ QuiescingOK
    /\ CancellationReaches
    /\ TerminalTruth

-----------------------------------------------------------------------------
(* Steps that leave the registry alone.                                    *)

\* What a step may do to an attempt that is not being admitted.
AttemptStep(a, b) ==
    /\ b.operation_id = a.operation_id
    /\ b.instance = a.instance
    /\ a.phase \in {"none", "released"} => b.phase = a.phase
    /\ b.phase = "none" => a.phase = "none"
    /\ a.control # RUNNING => b.control # RUNNING
    /\ a.terminal # "none" => b \in {a, [a EXCEPT !.phase = "released"]}
    /\ Truthful(b)

AttemptsStep == \A s \in Seqs : AttemptStep(attempt[s], attempt'[s])

\* What it may do to the frame of thread u.
QuietFrame(u, f, g) ==
    /\ g.pc \in {"create", "rollback"} =>
          f.pc \in {"create", "rollback"} /\ g.instance = f.instance
    /\ g.pc = "retire" => attempt'[g.lease].phase = "released"
    /\ \A s \in f.sweep : s \in g.sweep \/ attempt'[s].control # RUNNING
    /\ u \in Closers /\ g.pc # "idle" => f.pc # "idle"

QuietFrames == \A u \in Threads : QuietFrame(u, frame[u], frame'[u])

LEMMA QuietStep ==
  ASSUME Typed, Typed', Registry, UNCHANGED registryVars, AttemptsStep, QuietFrames
  PROVE  Registry'
<1> USE DEF registryVars
<1>0. attempts \subseteq Seqs /\ Clients \subseteq Threads /\ Closers \subseteq Threads
  BY DEF Typed, TypeOK, Threads
<1>1. FreshOK'
  BY DEF FreshOK, Registry, AttemptsStep, AttemptStep
<1>2. OperationsOK'
  BY DEF OperationsOK, Registry
<1>3. AttemptsOK'
  <2>1. \A s \in attempts :
           attempt'[s].operation_id = attempt[s].operation_id
           /\ attempt'[s].instance = attempt[s].instance
    BY <1>0 DEF AttemptsStep, AttemptStep
  <2>2. (\A s \in attempts :
          /\ attempt[s].operation_id \in Ids
          /\ attempt[s].instance \in Instances
          /\ operations[attempt[s].operation_id] = attempt[s].instance
          /\ s \in entry[attempt[s].instance].attempts)'
    BY <2>1 DEF Registry, AttemptsOK
  <2>3. (\A i \in Instances : \A s \in entry[i].attempts :
          s \in attempts /\ attempt[s].instance = i)'
    BY <2>1 DEF Registry, AttemptsOK
  <2>4. (\A s \in Seqs : attempt[s].phase \notin {"none", "released"} => s \in attempts)'
    BY DEF Registry, AttemptsOK, AttemptsStep, AttemptStep
  <2>5. (\A t \in Threads : frame[t].pc = "retire" => attempt[frame[t].lease].phase = "released")'
    BY DEF QuietFrames, QuietFrame
  <2>6. QED BY <2>2, <2>3, <2>4, <2>5 DEF AttemptsOK
<1>4. ReservingOK'
  <2>1. \A c \in Clients : Reserving(c)' => Reserving(c) /\ frame'[c].instance = frame[c].instance
    BY <1>0 DEF QuietFrames, QuietFrame, Reserving
  <2>2. QED BY <2>1 DEF Registry, ReservingOK
<1>5. QuiescingOK'
  BY <1>0 DEF Registry, QuiescingOK, QuietFrames, QuietFrame
<1>6. CancellationReaches'
  <2> SUFFICES ASSUME NEW s \in attempts,
                      phase # "running" \/ entry[attempt'[s].instance].cancellation_requested
               PROVE  attempt'[s].control # RUNNING \/ \E t \in Threads : s \in frame'[t].sweep
    BY DEF CancellationReaches
  <2>1. attempt[s].control # RUNNING \/ \E t \in Threads : s \in frame[t].sweep
    BY <1>0 DEF Registry, CancellationReaches, AttemptsStep, AttemptStep
  <2>2. CASE attempt[s].control # RUNNING
    BY <1>0, <2>2 DEF AttemptsStep, AttemptStep
  <2>3. ASSUME NEW t \in Threads, s \in frame[t].sweep
        PROVE  attempt'[s].control # RUNNING \/ s \in frame'[t].sweep
    BY <2>3 DEF QuietFrames, QuietFrame
  <2>4. QED BY <2>1, <2>2, <2>3
<1>7. TerminalTruth'
  BY DEF TerminalTruth, AttemptsStep, AttemptStep
<1>8. QED BY <1>1, <1>2, <1>3, <1>4, <1>5, <1>6, <1>7 DEF Registry

\* A step that leaves the attempts alone.
LEMMA AttemptsKept ==
  ASSUME Registry, UNCHANGED attempt
  PROVE  AttemptsStep
  BY DEF AttemptsStep, AttemptStep, Registry, TerminalTruth

\* A step that leaves every frame alone.
LEMMA FramesKept ==
  ASSUME Typed, Registry, AttemptsStep, UNCHANGED frame
  PROVE  QuietFrames
<1> SUFFICES ASSUME NEW u \in Threads PROVE QuietFrame(u, frame[u], frame[u])
  BY DEF QuietFrames
<1>1. frame[u].pc = "retire" => frame[u].lease \in Seqs /\ attempt[frame[u].lease].phase = "released"
  BY FrameIsGood DEF GoodFrame, Bare, Registry, AttemptsOK
<1>2. QED BY <1>1 DEF QuietFrame, AttemptsStep, AttemptStep

\* A step that gives one thread a new frame, from a label where it sweeps nothing.
LEMMA FrameChanged ==
  ASSUME Typed, Registry, AttemptsStep, NEW t \in Threads, NEW g,
         SetFrame(t, g),
         frame[t].pc # "cancel_sweep", g.pc \notin {"create", "rollback"},
         g.pc = "retire" => attempt'[g.lease].phase = "released",
         t \in Closers /\ g.pc # "idle" => frame[t].pc # "idle"
  PROVE  QuietFrames
<1>1. frame[t].sweep = {}
  BY FrameIsGood DEF GoodFrame
<1>2. QuietFrame(t, frame[t], g)
  BY <1>1 DEF QuietFrame
<1>3. frame'[t] = g /\ \A u \in Threads \ {t} : frame'[u] = frame[u]
  BY DEF SetFrame, Typed, TypeOK
<1>4. ASSUME NEW u \in Threads \ {t} PROVE QuietFrame(u, frame[u], frame[u])
  <2>1. frame[u].pc = "retire" => frame[u].lease \in Seqs /\ attempt[frame[u].lease].phase = "released"
    BY FrameIsGood DEF GoodFrame, Bare, Registry, AttemptsOK
  <2>2. QED BY <2>1 DEF QuietFrame, AttemptsStep, AttemptStep
<1>5. QED BY <1>2, <1>3, <1>4 DEF QuietFrames

\* The same for a move to a label or into a method.
LEMMA FrameMoved ==
  ASSUME Typed, Registry, AttemptsStep, NEW t \in Threads, NEW target, Goto(t, target),
         target \notin {"create", "rollback", "retire"}, frame[t].pc # "cancel_sweep",
         t \in Closers => frame[t].pc # "idle"
  PROVE  QuietFrames
<1>1. frame[t] \in Frames
  BY FrameIsGood
<1>2. Moved(frame[t], target).pc \notin {"create", "rollback", "retire"}
  BY <1>1 DEF Moved, Methods, Frames, NewFrame
<1>3. SetFrame(t, Moved(frame[t], target))
  BY DEF Goto
<1> DEFINE g == Moved(frame[t], target)
<1>4. SetFrame(t, g) /\ g.pc \notin {"create", "rollback", "retire"}
  BY <1>2, <1>3
<1> HIDE DEF g
<1>5. QED BY <1>4, FrameChanged

LEMMA FrameReturned ==
  ASSUME Typed, Registry, AttemptsStep, NEW t \in Clients \cup Seqs, NEW ok \in BOOLEAN,
         Return(t, ok), frame[t].pc \in {"current", "body", "retire"}
  PROVE  QuietFrames
<1> DEFINE target == IF ok THEN AfterOk(frame[t].program, frame[t].method)
                           ELSE AfterErr(frame[t].program, frame[t].method)
<1>1. target \notin {"create", "rollback", "retire"}
  BY DEF AfterOk, AfterErr
<1>2. Goto(t, target)
  BY DEF Return
<1>3. t \in Threads /\ t \notin Closers
  BY BoundsAssumption, ThreadsAssumption DEF Threads, Seqs
<1> HIDE DEF target
<1>4. QED BY <1>1, <1>2, <1>3, FrameMoved

\* One attempt changes.
LEMMA OneAttemptChanged ==
  ASSUME Typed, Registry, NEW s \in Seqs, NEW b, attempt' = [attempt EXCEPT ![s] = b],
         AttemptStep(attempt[s], b)
  PROVE  AttemptsStep /\ attempt'[s] = b
<1>1. attempt'[s] = b /\ \A r \in Seqs \ {s} : attempt'[r] = attempt[r]
  BY DEF Typed, TypeOK
<1>2. QED BY <1>1 DEF AttemptsStep, AttemptStep, Registry, TerminalTruth

LEMMA CancelStep ==
  ASSUME Typed, Registry, NEW s \in Seqs, CancelAttempt(s)
  PROVE  AttemptsStep /\ attempt'[s].control # RUNNING
<1> DEFINE a == attempt[s]
           b == [a EXCEPT !.control = CancelRequest(a.control)]
<1>1. a \in AttemptControls /\ Truthful(a)
  BY DEF Typed, TypeOK, Registry, TerminalTruth
<1>2. AttemptStep(a, b) /\ b.control # RUNNING
  BY <1>1 DEF AttemptStep, AttemptControls, Truthful, CancelRequest, RunStateSet,
              IsTerminal, RUNNING, CANCEL_REQUESTED, TERMINAL, TERMINAL_CANCELLED
<1>3. attempt' = [attempt EXCEPT ![s] = b]
  BY DEF CancelAttempt
<1> HIDE DEF a, b
<1>4. QED BY <1>2, <1>3, OneAttemptChanged DEF a

\* The sections of the methods on a lease, but the one that takes it out.
LEMMA RegistryLease ==
  ASSUME Typed, Typed', Registry, NEW t \in Clients \cup Seqs, LeaseStep(t), ~Retire(t)
  PROVE  Registry' /\ UNCHANGED registryVars /\ AttemptsStep
<1> DEFINE s == frame[t].lease
           a == attempt[s]
<1>0. t \in Threads
  BY DEF Threads
<1>g. frame[t] \in Frames /\ GoodFrame(t, frame[t])
  BY <1>0, FrameIsGood
<1>1. CASE RequireCurrent(t)
  <2>1. UNCHANGED registryVars /\ AttemptsStep
    BY <1>1, AttemptsKept DEF RequireCurrent
  <2>2. QuietFrames
    <3>1. CASE Goto(t, "body")
      BY <1>0, <1>1, <2>1, <3>1, FrameMoved DEF RequireCurrent, At
    <3>2. CASE Return(t, FALSE)
      BY <1>1, <2>1, <3>2, FrameReturned DEF RequireCurrent, At
    <3>3. QED BY <1>1, <3>1, <3>2 DEF RequireCurrent
  <2>3. QED BY <2>1, <2>2, QuietStep
<1>2. CASE frame[t].pc = "body"
  <2>1. s \in Seqs /\ a \in AttemptControls /\ Truthful(a)
    BY <1>2, <1>g DEF GoodFrame, Bare, Typed, TypeOK, Registry, TerminalTruth
  <2>c. ASSUME NEW b, attempt' = [attempt EXCEPT ![s] = b], AttemptStep(a, b)
        PROVE  AttemptsStep /\ attempt'[s] = b
    BY <2>1, <2>c, OneAttemptChanged
  <2>r. ASSUME UNCHANGED registryVars, AttemptsStep, NEW ok \in BOOLEAN, Return(t, ok)
        PROVE  Registry' /\ UNCHANGED registryVars /\ AttemptsStep
    BY <1>2, <2>r, FrameReturned, QuietStep
  <2>2. ASSUME NEW from \in {"reserved", "queued"}, NEW to \in {"queued", "running"},
               NEW method, Transition(t, method, from, to)
        PROVE  Registry' /\ UNCHANGED registryVars /\ AttemptsStep
    <3> DEFINE b == [a EXCEPT !.phase = IF a.phase = from THEN to ELSE a.phase]
    <3>1. AttemptStep(a, b)
      BY <2>1 DEF AttemptStep, AttemptControls, Truthful
    <3>2. attempt' = [attempt EXCEPT ![s] = b]
      BY <2>2 DEF Transition
    <3> HIDE DEF b
    <3>3. AttemptsStep
      BY <2>c, <3>1, <3>2
    <3>4. QED BY <2>2, <2>r, <3>3 DEF Transition
  <2>3. CASE Queue(t) \/ Start(t)
    BY <2>2, <2>3 DEF Queue, Start
  <2>4. CASE PublishProgress(t)
    <3> DEFINE b == [a EXCEPT !.progress =
                       IF AcceptsOutcome(a) /\ a.progress < ProgressCapacity
                         THEN a.progress + 1 ELSE a.progress]
    <3>1. AttemptStep(a, b)
      BY <2>1 DEF AttemptStep, AttemptControls, Truthful, AcceptsOutcome
    <3>2. attempt' = [attempt EXCEPT ![s] = b]
      BY <2>4 DEF PublishProgress
    <3> HIDE DEF b
    <3>3. AttemptsStep
      BY <2>c, <3>1, <3>2
    <3>4. QED BY <2>4, <2>r, <3>3 DEF PublishProgress, AcceptsOutcome
  <2>5. CASE Terminal(t)
    <3> DEFINE b  == [a EXCEPT !.phase = "terminal", !.control = TerminalOf(a.control),
                               !.terminal = PublishedClass(a.control, frame[t].class)]
               ok == AcceptsOutcome(a) /\ ~IsTerminal(a.control)
    <3>1. AttemptsStep
      <4>1. CASE ok /\ attempt' = [attempt EXCEPT ![s] = b]
        <5>1. AttemptStep(a, b)
          BY <1>g, <2>1, <4>1
             DEF AttemptStep, AttemptControls, Frames, TerminalClasses, Truthful,
                 AcceptsOutcome, PublishedClass, CancellationRequested, TerminalOf,
                 IsTerminal, RunStateSet, RUNNING, CANCEL_REQUESTED, TERMINAL,
                 TERMINAL_CANCELLED
        <5> HIDE DEF b
        <5>2. QED BY <2>c, <4>1, <5>1
      <4>2. CASE UNCHANGED attempt
        BY <4>2, AttemptsKept
      <4>3. QED BY <2>5, <4>1, <4>2 DEF Terminal
    <3>2. Return(t, ok) /\ ok \in BOOLEAN /\ UNCHANGED registryVars
      BY <2>5 DEF Terminal, AcceptsOutcome, IsTerminal
    <3> HIDE DEF ok
    <3>3. QED BY <2>r, <3>1, <3>2
  <2>6. CASE Release(t)
    <3> DEFINE b == [a EXCEPT !.phase = "released"]
    <3>1. CASE /\ a.phase = "terminal"
               /\ attempt' = [attempt EXCEPT ![s] = b]
               /\ Goto(t, "retire")
      <4>1. AttemptStep(a, b) /\ b.phase = "released"
        BY <2>1, <3>1 DEF AttemptStep, AttemptControls, Truthful
      <4> HIDE DEF b
      <4>2. AttemptsStep /\ attempt'[s] = b
        BY <2>c, <3>1, <4>1
      <4>3. SetFrame(t, [frame[t] EXCEPT !.pc = "retire"])
        BY <3>1 DEF Goto, Moved, Methods
      <4>4. [frame[t] EXCEPT !.pc = "retire"].pc = "retire"
            /\ [frame[t] EXCEPT !.pc = "retire"].lease = s
        BY <1>g DEF Frames
      <4>5. t \notin Closers
        BY BoundsAssumption, ThreadsAssumption DEF Seqs
      <4> DEFINE g == [frame[t] EXCEPT !.pc = "retire"]
      <4>6. SetFrame(t, g) /\ g.pc = "retire" /\ attempt'[g.lease].phase = "released"
        BY <4>1, <4>2, <4>3, <4>4
      <4> HIDE DEF g
      <4>7. QuietFrames
        BY <1>0, <1>2, <4>2, <4>5, <4>6, FrameChanged
      <4>8. QED BY <2>6, <4>2, <4>7, QuietStep DEF Release
    <3>2. CASE UNCHANGED attempt /\ Return(t, FALSE)
      BY <2>6, <2>r, <3>2, AttemptsKept DEF Release
    <3>3. QED BY <2>6, <3>1, <3>2 DEF Release
  <2>7. QED
    BY <1>2, <2>3, <2>4, <2>5, <2>6 DEF LeaseStep, RequireCurrent, At
<1>3. QED
  BY <1>1, <1>2
     DEF LeaseStep, Queue, Start, Transition, PublishProgress, Terminal, Release, In, At

\* The steps of a client that only move it, or begin a method on a lease.
LEMMA RegistryClient ==
  ASSUME Typed, Typed', Registry, NEW c \in Clients,
         \/ \E s \in Seqs : FinishAttempt(c, s)
         \/ \E s \in Seqs, m \in Methods, k \in TerminalClasses : CallShared(c, s, m, k)
         \/ Spawn(c) \/ (\E k \in TerminalClasses : FinishReservation(c, k))
         \/ Launch(c) \/ Register(c) \/ Rendezvous(c)
         \/ AwaitResult(c) \/ JoinedCheck(c) \/ Recheck(c)
  PROVE  Registry' /\ UNCHANGED registryVars /\ AttemptsStep
<1>0. c \in Threads /\ c \notin Seqs /\ c \notin Closers
  BY BoundsAssumption, ThreadsAssumption DEF Threads, Seqs
<1>g. frame[c] \in Frames /\ frame' \in [Threads -> Frames]
  BY <1>0, FrameIsGood DEF Typed, TypeOK
<1>1. UNCHANGED registryVars /\ UNCHANGED attempt /\ frame[c].pc # "cancel_sweep"
  BY DEF FinishAttempt, CallShared, Spawn, FinishReservation, Launch, Register,
         Rendezvous, AwaitResult, JoinedCheck, Recheck, At
<1>2. AttemptsStep
  BY <1>1, AttemptsKept
<1>3. QuietFrames
  <2>1. ASSUME NEW g, SetFrame(c, g), g.pc = "current" PROVE QuietFrames
    BY <1>0, <1>1, <1>2, <2>1, FrameChanged
  <2>2. ASSUME NEW s \in Seqs, FinishAttempt(c, s) PROVE QuietFrames
    BY <2>1, <2>2 DEF FinishAttempt, NewFrame
  <2>3. ASSUME NEW s \in Seqs, NEW m \in Methods, NEW k \in TerminalClasses,
               CallShared(c, s, m, k)
        PROVE  QuietFrames
    BY <2>1, <2>3 DEF CallShared, NewFrame
  <2>4. CASE Spawn(c)
    BY <1>g, <2>1, <2>4 DEF Spawn, Frames
  <2>5. ASSUME NEW k \in TerminalClasses, FinishReservation(c, k) PROVE QuietFrames
    BY <1>g, <2>1, <2>5 DEF FinishReservation, Frames
  <2>6. CASE Register(c)
    BY <1>0, <1>1, <1>2, <2>6, FrameMoved DEF Register
  <2>7. CASE AwaitResult(c) \/ JoinedCheck(c) \/ Recheck(c)
    <3>1. PICK label \in {"idle", "joined_check", "reap_take", "reap_error"} : Goto(c, label)
      BY <2>7 DEF AwaitResult, JoinedCheck, Recheck
    <3>2. QED BY <1>0, <1>1, <1>2, <3>1, FrameMoved
  \* The two steps that also move the worker.
  <2>8. ASSUME NEW w \in Seqs, NEW g, NEW h,
               frame' = [[frame EXCEPT ![c] = g] EXCEPT ![w] = h],
               frame[w].pc # "cancel_sweep",
               {g.pc, h.pc} \cap {"create", "rollback", "retire"} = {}
        PROVE  QuietFrames
    <3>1. w \in Threads /\ w # c /\ w \notin Closers
      BY <1>0, BoundsAssumption, ThreadsAssumption DEF Threads, Seqs
    <3>2. frame[w].sweep = {} /\ frame[c].sweep = {}
      BY <1>0, <1>1, <2>8, <3>1, FrameIsGood DEF GoodFrame
    <3>3. QuietFrame(c, frame[c], g) /\ QuietFrame(w, frame[w], h)
      BY <1>0, <2>8, <3>1, <3>2 DEF QuietFrame
    <3>4. /\ frame'[c] = g /\ frame'[w] = h
          /\ \A u \in Threads \ {c, w} : frame'[u] = frame[u]
      BY <1>0, <2>8, <3>1 DEF Typed, TypeOK
    <3>5. ASSUME NEW u \in Threads \ {c, w} PROVE QuietFrame(u, frame[u], frame[u])
      <4>1. frame[u].pc = "retire" =>
              frame[u].lease \in Seqs /\ attempt[frame[u].lease].phase = "released"
        BY FrameIsGood DEF GoodFrame, Bare, Registry, AttemptsOK
      <4>2. QED BY <1>2, <4>1 DEF QuietFrame, AttemptsStep, AttemptStep
    <3>6. QED BY <3>3, <3>4, <3>5 DEF QuietFrames
  <2>9. CASE Launch(c)
    <3>0. frame[c].lease \in Seqs
      BY <1>0, <2>9, FrameIsGood DEF Launch, At, GoodFrame, Bare
    <3>w. frame[c].lease \in Threads /\ frame[frame[c].lease].pc # "cancel_sweep"
      BY <3>0, FrameIsGood DEF GoodFrame, WorkerLabels, Threads
    <3>1. CASE SetFrame(c, [frame[c] EXCEPT !.pc = "current", !.method = "terminal",
                                            !.program = "start_failed"])
      BY <1>g, <2>1, <3>1 DEF Frames
    <3>2. CASE frame' = [frame EXCEPT ![c].pc = "register", ![frame[c].lease] =
                           [NewFrame("recv") EXCEPT !.program = "worker",
                                                    !.lease = frame[c].lease]]
      <4> DEFINE g == [frame[c] EXCEPT !.pc = "register"]
                 h == [NewFrame("recv") EXCEPT !.program = "worker", !.lease = frame[c].lease]
      <4>1. g.pc = "register" /\ h.pc = "recv"
        BY <1>g DEF Frames, NewFrame
      <4>2. frame' = [[frame EXCEPT ![c] = g] EXCEPT ![frame[c].lease] = h]
        BY <3>2
      <4> HIDE DEF g, h
      <4>3. QED BY <2>8, <3>0, <3>w, <4>1, <4>2
    <3>3. QED BY <2>9, <3>1, <3>2 DEF Launch
  <2>10. CASE Rendezvous(c)
    <3> DEFINE w == frame[c].lease
               g == [frame[c] EXCEPT !.pc = "task"]
               h == [frame[w] EXCEPT !.pc = "run"]
    <3>0. w \in Seqs
      BY <1>0, <2>10, FrameIsGood DEF Rendezvous, At, GoodFrame, Bare
    <3>w. w \in Threads /\ w # c
      BY <1>0, <3>0 DEF Threads
    <3>f. frame[w] \in Frames /\ frame[w].pc # "cancel_sweep" /\ frame \in [Threads -> Frames]
      BY <3>0, <3>w, FrameIsGood DEF GoodFrame, WorkerLabels, Typed, TypeOK
    <3>1. g.pc = "task" /\ h.pc = "run"
      BY <1>g, <3>f DEF Frames
    <3>2. frame' = [[frame EXCEPT ![c] = g] EXCEPT ![w] = h]
      BY <1>0, <2>10, <3>w, <3>f DEF Rendezvous
    <3> HIDE DEF g, h, w
    <3>3. QED BY <2>8, <3>0, <3>f, <3>1, <3>2
  <2>11. QED
    BY <2>2, <2>3, <2>4, <2>5, <2>6, <2>7, <2>9, <2>10
<1>4. QED BY <1>1, <1>2, <1>3, QuietStep

\* The same for workers, reapers, the cancellation of one attempt and the sweep.
LEMMA RegistryQuiet ==
  ASSUME Typed, Typed', Registry,
         \/ \E w \in Seqs, outcome \in {"ok", "err", "panic"} : RunOperation(w, outcome)
         \/ \E w \in Seqs : Send(w) \/ RecordWorkerExit(w) \/ RequestCancel(w)
         \/ \E c \in Clients : DropTask(c)
         \/ \E t \in Clients \cup Closers : ReapStep(t) \/ SweepStep(t)
         \/ \E t \in Closers : CachedOutcome(t) \/ Drain(t)
         \/ Poison
         \/ \E t \in Threads : SpuriousWake(t)
         \/ UNCHANGED vars
  PROVE  Registry' /\ UNCHANGED registryVars /\ AttemptsStep
<1>0. /\ \A w \in Seqs : w \in Threads /\ w \notin Closers
      /\ \A c \in Clients : c \in Threads /\ c \notin Closers
      /\ \A t \in Closers : t \in Threads
  BY BoundsAssumption, ThreadsAssumption DEF Threads, Seqs
<1>f. \A t \in Threads : frame[t] \in Frames
  BY DEF Typed, TypeOK
<1>1. ASSUME NEW w \in Seqs, NEW outcome \in {"ok", "err", "panic"}, RunOperation(w, outcome)
      PROVE  Registry' /\ UNCHANGED registryVars /\ AttemptsStep
  <2>1. AttemptsStep /\ UNCHANGED registryVars
    BY <1>1, AttemptsKept DEF RunOperation
  <2>2. ASSUME NEW g, SetFrame(w, g), g.pc = "current" PROVE QuietFrames
    BY <1>0, <1>1, <2>1, <2>2, FrameChanged DEF RunOperation, At
  <2>3. QuietFrames
    BY <1>0, <1>1, <1>f, <2>2 DEF RunOperation, Frames
  <2>4. QED BY <2>1, <2>3, QuietStep
<1>2. ASSUME NEW w \in Seqs, Send(w) \/ RecordWorkerExit(w)
      PROVE  Registry' /\ UNCHANGED registryVars /\ AttemptsStep
  <2>1. AttemptsStep /\ UNCHANGED registryVars
    BY <1>2, AttemptsKept DEF Send, RecordWorkerExit
  <2>2. PICK label \in {"release", "dead"} : Goto(w, label)
    BY <1>2 DEF Send, RecordWorkerExit
  <2>3. QuietFrames
    BY <1>0, <1>2, <2>1, <2>2, FrameMoved DEF Send, RecordWorkerExit, At
  <2>4. QED BY <2>1, <2>3, QuietStep
<1>3. ASSUME NEW w \in Seqs, RequestCancel(w)
      PROVE  Registry' /\ UNCHANGED registryVars /\ AttemptsStep
  BY <1>3, CancelStep, FramesKept, QuietStep DEF RequestCancel
<1>4. ASSUME NEW c \in Clients, DropTask(c)
      PROVE  Registry' /\ UNCHANGED registryVars /\ AttemptsStep
  <2>1. frame[c].lease \in Seqs
    BY <1>0, <1>4, FrameIsGood DEF DropTask, At, GoodFrame, Bare
  <2>2. AttemptsStep /\ UNCHANGED registryVars
    BY <1>4, <2>1, CancelStep, AttemptsKept DEF DropTask
  <2>3. QuietFrames
    BY <1>0, <1>4, <2>2, FrameMoved DEF DropTask, At
  <2>4. QED BY <2>2, <2>3, QuietStep
<1>5. ASSUME NEW t \in Clients \cup Closers, ReapStep(t)
      PROVE  Registry' /\ UNCHANGED registryVars /\ AttemptsStep
  <2>1. AttemptsStep /\ UNCHANGED registryVars
    BY <1>5, AttemptsKept DEF ReapStep, ReapTake, ReapJoin, ReapNote
  <2>2. CASE UNCHANGED frame
    BY <2>1, <2>2, FramesKept, QuietStep
  <2>3. ASSUME NEW label \in {"reap_join", "reap_note", "drain", "idle", "recheck"},
               Goto(t, label)
        PROVE  Registry' /\ UNCHANGED registryVars /\ AttemptsStep
    <3>1. QuietFrames
      BY <1>0, <1>5, <2>1, <2>3, FrameMoved DEF ReapStep, ReapTake, ReapJoin, ReapNote, At
    <3>2. QED BY <2>1, <3>1, QuietStep
  <2>4. QED
    BY <1>5, <2>2, <2>3 DEF ReapStep, ReapTake, ReapJoin, ReapNote, AfterReap
<1>6. ASSUME NEW t \in Clients \cup Closers, SweepStep(t)
      PROVE  Registry' /\ UNCHANGED registryVars /\ AttemptsStep
  <2>0. t \in Threads
    BY <1>0
  <2>o. ASSUME AttemptsStep, NEW u \in Threads PROVE QuietFrame(u, frame[u], frame[u])
    <3>1. frame[u].pc = "retire" =>
            frame[u].lease \in Seqs /\ attempt[frame[u].lease].phase = "released"
      BY FrameIsGood DEF GoodFrame, Bare, Registry, AttemptsOK
    <3>2. QED BY <2>o, <3>1 DEF QuietFrame, AttemptsStep, AttemptStep
  <2>q. ASSUME AttemptsStep, UNCHANGED registryVars, NEW g, SetFrame(t, g),
               QuietFrame(t, frame[t], g)
        PROVE  Registry' /\ UNCHANGED registryVars /\ AttemptsStep
    <3>1. frame'[t] = g /\ \A u \in Threads \ {t} : frame'[u] = frame[u]
      BY <2>0, <2>q DEF SetFrame, Typed, TypeOK
    <3>2. QuietFrames
      BY <2>o, <2>q, <3>1 DEF QuietFrames
    <3>3. QED BY <2>q, <3>2, QuietStep
  <2>1. ASSUME NEW s \in Seqs, CancelSweep(t, s)
        PROVE  Registry' /\ UNCHANGED registryVars /\ AttemptsStep
    <3> DEFINE g == [frame[t] EXCEPT !.sweep = @ \ {s}]
    <3>1. AttemptsStep /\ attempt'[s].control # RUNNING
      BY <2>1, CancelStep DEF CancelSweep
    <3>2. g.pc = "cancel_sweep" /\ g.sweep = frame[t].sweep \ {s} /\ frame[t].pc = "cancel_sweep"
      BY <1>f, <2>0, <2>1 DEF Frames, CancelSweep, At
    <3>3. SetFrame(t, g) /\ UNCHANGED registryVars
      BY <2>1 DEF CancelSweep
    <3> HIDE DEF g
    <3>4. QuietFrame(t, frame[t], g)
      BY <3>1, <3>2 DEF QuietFrame
    <3>5. QED BY <2>q, <3>1, <3>3, <3>4
  <2>2. CASE CancelSweepDone(t)
    <3>1. AttemptsStep /\ UNCHANGED registryVars
      BY <2>2, AttemptsKept DEF CancelSweepDone
    <3>2. PICK label \in {"cached", "idle"} : Goto(t, label)
      BY <2>2 DEF CancelSweepDone
    <3> DEFINE g == Moved(frame[t], label)
    <3>3. g.pc = label /\ SetFrame(t, g)
      BY <1>f, <2>0, <3>2 DEF Moved, Methods, Frames, NewFrame, Goto
    <3> HIDE DEF g
    <3>4. QuietFrame(t, frame[t], g)
      BY <2>2, <3>3 DEF QuietFrame, CancelSweepDone, At
    <3>5. QED BY <2>q, <3>1, <3>3, <3>4
  <2>3. QED BY <1>6, <2>1, <2>2 DEF SweepStep
<1>7. ASSUME NEW t \in Closers, CachedOutcome(t) \/ Drain(t)
      PROVE  Registry' /\ UNCHANGED registryVars /\ AttemptsStep
  <2>1. AttemptsStep /\ UNCHANGED registryVars
    BY <1>7, AttemptsKept DEF CachedOutcome, Drain
  <2>2. CASE UNCHANGED frame
    BY <2>1, <2>2, FramesKept, QuietStep
  <2>3. ASSUME NEW label \in {"drain", "returned", "close"}, Goto(t, label)
        PROVE  Registry' /\ UNCHANGED registryVars /\ AttemptsStep
    <3>1. QuietFrames
      BY <1>0, <1>7, <2>1, <2>3, FrameMoved DEF CachedOutcome, Drain, At
    <3>2. QED BY <2>1, <3>1, QuietStep
  <2>4. ASSUME NEW w, SetFrame(t, [frame[t] EXCEPT !.pc = "reap_take", !.lease = w])
        PROVE  Registry' /\ UNCHANGED registryVars /\ AttemptsStep
    <3>1. ASSUME NEW g, SetFrame(t, g), g.pc = "reap_take" PROVE QuietFrames
      BY <1>0, <1>7, <2>1, <3>1, FrameChanged DEF CachedOutcome, Drain, At
    <3>2. QuietFrames
      BY <1>0, <1>f, <2>4, <3>1 DEF Frames
    <3>3. QED BY <2>1, <3>2, QuietStep
  <2>5. QED BY <1>7, <2>2, <2>3, <2>4 DEF CachedOutcome, Drain
<1>8. CASE Poison \/ (\E t \in Threads : SpuriousWake(t)) \/ UNCHANGED vars
  <2>1. UNCHANGED attempt /\ UNCHANGED frame /\ UNCHANGED registryVars
    BY <1>8 DEF Poison, SpuriousWake, vars
  <2>2. QED BY <2>1, AttemptsKept, FramesKept, QuietStep
<1>9. QED BY <1>1, <1>2, <1>3, <1>4, <1>5, <1>6, <1>7, <1>8

-----------------------------------------------------------------------------
(* Steps that change the registry.                                         *)

\* What a thread that is not the one stepping still has.
OthersKept(t) == \A u \in Threads \ {t} : frame'[u] = frame[u]

LEMMA RegistryCreate ==
  ASSUME Typed, Typed', Registry, NEW c \in Clients, NEW id \in Ids,
         NEW explicit \in BOOLEAN, At(c, "idle"), CreateOperationInner(id, explicit),
         UNCHANGED <<phase, next_sequence, attempts, attempt>>, OthersKept(c),
         \/ frame'[c] = frame[c]
         \/ ~explicit /\ frame'[c] = [NewFrame("create") EXCEPT !.instance = next_instance]
  PROVE  Registry'
<1> DEFINE n == next_instance
<1>0. /\ n \in Instances /\ n \in Nat /\ n # 0 /\ next_instance' = n + 1
      /\ operations[id] = 0
      /\ operations'[id] = n /\ \A j \in Ids \ {id} : operations'[j] = operations[j]
      /\ \A i \in Instances \ {n} : entry'[i] = entry[i]
  BY BoundsAssumption DEF CreateOperationInner, Typed, TypeOK, Instances
<1>n. entry'[n].operation_id = id /\ entry'[n].explicit = explicit /\ entry'[n].attempts = {}
  <2>1. entry'[n] = [NoEntry EXCEPT !.operation_id = id, !.explicit = explicit]
    BY <1>0 DEF CreateOperationInner, Typed, TypeOK
  <2>2. QED BY <2>1 DEF NoEntry
<1>t. /\ Clients \subseteq Threads /\ Closers \subseteq Threads \ {c} /\ attempts \subseteq Seqs
      /\ frame[c].pc = "idle" /\ frame[c].sweep = {}
      /\ frame'[c].pc \in {"idle", "create"}
      /\ frame'[c].pc = "create" => frame'[c].instance = n /\ ~explicit
      /\ Instances \subseteq Nat
  <2>1. Clients \subseteq Threads /\ Closers \subseteq Threads \ {c} /\ Instances \subseteq Nat
    BY ThreadsAssumption DEF Threads, Instances
  <2>2. frame[c].pc = "idle" /\ frame[c].sweep = {} /\ attempts \subseteq Seqs
    BY <2>1, FrameIsGood DEF At, GoodFrame, Typed, TypeOK
  <2>3. CASE frame'[c] = frame[c]
    BY <2>1, <2>2, <2>3
  <2>4. CASE ~explicit /\ frame'[c] = [NewFrame("create") EXCEPT !.instance = next_instance]
    BY <2>1, <2>2, <2>4 DEF NewFrame
  <2>5. QED BY <2>3, <2>4
<1>a. \A s \in attempts : /\ attempt[s].operation_id \in Ids \ {id}
                          /\ attempt[s].instance \in Instances \ {n}
  <2> TAKE s \in attempts
  <2>1. /\ attempt[s].operation_id \in Ids /\ attempt[s].instance \in Instances
        /\ operations[attempt[s].operation_id] = attempt[s].instance
    BY DEF Registry, AttemptsOK
  <2>2. attempt[s].instance # 0
    BY <2>1 DEF Instances
  <2>3. attempt[s].instance < n
    BY <2>1, <2>2 DEF Registry, OperationsOK
  <2>4. QED BY <1>0, <2>1, <2>2, <2>3
<1>r. \A d \in Clients : Reserving(d) =>
        /\ d # c
        /\ frame[d].instance \in Instances \ {n}
        /\ entry[frame[d].instance].operation_id \in Ids \ {id}
  <2> TAKE d \in Clients
  <2> HAVE Reserving(d)
  <2>1. frame[d].instance \in Instances /\ frame[d].instance < n /\ d # c
    BY <1>t, FrameIsGood DEF Registry, ReservingOK, GoodFrame, Reserving
  <2>2. entry[frame[d].instance].operation_id \in Ids
    BY <2>1 DEF Registry, FreshOK
  <2>3. operations[entry[frame[d].instance].operation_id] # 0
    BY <2>1 DEF Registry, ReservingOK, Instances
  <2>4. QED BY <1>0, <2>1, <2>2, <2>3
<1> HIDE DEF n
<1>1. FreshOK'
  <2>1. (\A s \in Seqs : s >= next_sequence => attempt[s].phase = "none" /\ s \notin attempts)'
    BY DEF Registry, FreshOK
  <2>2. ASSUME NEW i \in Instances
        PROVE  /\ i >= n + 1 => entry'[i] = NoEntry
               /\ i < n + 1 => entry'[i].operation_id \in Ids
    <3>1. CASE i = n
      BY <1>0, <1>n, <3>1
    <3>2. CASE i # n
      BY <1>0, <1>t, <3>2 DEF Registry, FreshOK, n
    <3>3. QED BY <3>1, <3>2
  <2>3. QED BY <1>0, <2>1, <2>2 DEF FreshOK
<1>2. OperationsOK'
  <2> SUFFICES ASSUME NEW j \in Ids, operations'[j] # 0
               PROVE  operations'[j] < next_instance' /\ entry'[operations'[j]].operation_id = j
    BY DEF OperationsOK
  <2>1. CASE j = id
    BY <1>0, <1>n, <2>1
  <2>2. CASE j # id
    <3>1. operations[j] \in Instances /\ operations[j] < n /\ entry[operations[j]].operation_id = j
      BY <1>0, <2>2 DEF Registry, OperationsOK, Typed, TypeOK, n
    <3>2. QED BY <1>0, <1>t, <2>2, <3>1
  <2>3. QED BY <2>1, <2>2
<1>3. AttemptsOK'
  <2>1. (\A s \in attempts :
          /\ attempt[s].operation_id \in Ids
          /\ attempt[s].instance \in Instances
          /\ operations[attempt[s].operation_id] = attempt[s].instance
          /\ s \in entry[attempt[s].instance].attempts)'
    BY <1>0, <1>a DEF Registry, AttemptsOK
  <2>2. (\A i \in Instances : \A s \in entry[i].attempts :
          s \in attempts /\ attempt[s].instance = i)'
    BY <1>0, <1>n DEF Registry, AttemptsOK
  <2>3. (\A s \in Seqs : attempt[s].phase \notin {"none", "released"} => s \in attempts)'
    BY DEF Registry, AttemptsOK
  <2>4. (\A t \in Threads : frame[t].pc = "retire" => attempt[frame[t].lease].phase = "released")'
    BY <1>t DEF Registry, AttemptsOK, OthersKept
  <2>5. QED BY <2>1, <2>2, <2>3, <2>4 DEF AttemptsOK
<1>4. ReservingOK'
  <2>1. \A d \in Clients \ {c} : frame'[d] = frame[d]
    BY <1>t DEF OthersKept
  <2>2. ASSUME NEW d \in Clients, Reserving(d)'
        PROVE  \/ d = c /\ frame'[c].instance = n /\ ~explicit
               \/ /\ d # c /\ Reserving(d) /\ frame'[d].instance = frame[d].instance
                  /\ frame[d].instance \in Instances \ {n}
                  /\ entry[frame[d].instance].operation_id \in Ids \ {id}
    BY <1>r, <1>t, <2>1, <2>2 DEF Reserving
  <2>3. ASSUME NEW d \in Clients, Reserving(d)'
        PROVE  /\ frame'[d].instance < next_instance'
               /\ operations'[entry'[frame'[d].instance].operation_id] = frame'[d].instance
               /\ ~entry'[frame'[d].instance].explicit
               /\ entry'[frame'[d].instance].attempts = {}
    <3>1. CASE d = c /\ frame'[c].instance = n /\ ~explicit
      BY <1>0, <1>n, <3>1
    <3>2. CASE /\ d # c /\ Reserving(d) /\ frame'[d].instance = frame[d].instance
               /\ frame[d].instance \in Instances \ {n}
               /\ entry[frame[d].instance].operation_id \in Ids \ {id}
      <4>1. entry'[frame[d].instance] = entry[frame[d].instance]
            /\ operations'[entry[frame[d].instance].operation_id] =
               operations[entry[frame[d].instance].operation_id]
        BY <1>0, <3>2
      <4>2. frame[d].instance < n + 1
        BY <1>0, <1>t, <3>2 DEF Registry, ReservingOK, n
      <4>3. QED BY <1>0, <3>2, <4>1, <4>2 DEF Registry, ReservingOK
    <3>3. QED BY <2>2, <2>3, <3>1, <3>2
  <2>4. ASSUME NEW d \in Clients, NEW e \in Clients, Reserving(d)', Reserving(e)',
               frame'[d].instance = frame'[e].instance
        PROVE  d = e
    BY <2>2, <2>4 DEF Registry, ReservingOK
  <2>5. QED BY <2>3, <2>4 DEF ReservingOK
<1>5. QuiescingOK'
  BY <1>t DEF Registry, QuiescingOK, OthersKept
<1>6. CancellationReaches'
  <2> SUFFICES ASSUME NEW s \in attempts,
                      phase # "running" \/ entry'[attempt[s].instance].cancellation_requested
               PROVE  attempt[s].control # RUNNING \/ \E t \in Threads : s \in frame'[t].sweep
    BY DEF CancellationReaches
  <2>1. attempt[s].control # RUNNING \/ \E t \in Threads : s \in frame[t].sweep
    BY <1>0, <1>a DEF Registry, CancellationReaches
  <2>2. ASSUME NEW t \in Threads, s \in frame[t].sweep PROVE s \in frame'[t].sweep
    BY <1>t, <2>2 DEF OthersKept
  <2>3. QED BY <2>1, <2>2
<1>7. TerminalTruth'
  BY DEF Registry, TerminalTruth
<1>8. QED BY <1>1, <1>2, <1>3, <1>4, <1>5, <1>6, <1>7 DEF Registry

LEMMA RegistryStart ==
  ASSUME Typed, Typed', Registry, NEW c \in Clients, NEW i \in Instances,
         NEW initial \in {"reserved", "running"},
         MayStartAttempt(i), StartAttemptInner(i, initial),
         UNCHANGED <<phase, operations, next_instance>>, OthersKept(c),
         \/ frame'[c] = frame[c] /\ entry[i].explicit
         \/ /\ frame[c].pc = "create" /\ frame[c].instance = i
            /\ frame'[c] = [NewFrame("reserved") EXCEPT !.lease = next_sequence]
  PROVE  /\ Registry'
         /\ \A s \in Seqs \ {next_sequence} :
               attempt'[s] = attempt[s] /\ (s \in attempts' => s \in attempts)
         /\ attempt[next_sequence].phase = "none"
<1> DEFINE n == next_sequence
           a == [operation_id |-> entry[i].operation_id, instance |-> i,
                 phase |-> initial, terminal |-> "none",
                 control |-> NewControl(entry[i].cancellation_requested), progress |-> 0]
<1>0. /\ n \in Seqs /\ n \in Nat /\ next_sequence' = n + 1
      /\ attempts' = attempts \cup {n}
      /\ attempt'[n] = a /\ \A s \in Seqs \ {n} : attempt'[s] = attempt[s]
      /\ attempt[n].phase = "none" /\ n \notin attempts
      /\ operations[entry[i].operation_id] = i /\ phase = "running"
  BY BoundsAssumption
     DEF MayStartAttempt, StartAttemptInner, Typed, TypeOK, Seqs, Registry, FreshOK
<1>e. \A j \in Instances \ {i} : entry'[j] = entry[j]
  BY DEF StartAttemptInner, Typed, TypeOK
<1>f. /\ entry'[i].attempts = entry[i].attempts \cup {n}
      /\ entry'[i].operation_id = entry[i].operation_id
      /\ entry'[i].explicit = entry[i].explicit
      /\ entry'[i].cancellation_requested = entry[i].cancellation_requested
  <2>1. entry'[i] = [entry[i] EXCEPT !.attempts = @ \cup {n}] /\ entry[i] \in OperationEntries
    BY DEF StartAttemptInner, Typed, TypeOK
  <2>2. QED BY <2>1 DEF OperationEntries
<1>t. /\ Clients \subseteq Threads /\ Closers \subseteq Threads \ {c} /\ attempts \subseteq Seqs
      /\ Seqs \subseteq Nat /\ Instances \subseteq Nat
  BY BoundsAssumption, ThreadsAssumption DEF Threads, Typed, TypeOK, Seqs, Instances
<1>c. /\ frame'[c].pc \in {frame[c].pc, "reserved"}
      /\ frame'[c].pc # "reserved" => frame'[c] = frame[c]
      /\ frame[c].sweep # {} => frame'[c] = frame[c]
  BY <1>t, FrameIsGood DEF NewFrame, GoodFrame
<1>i. i < next_instance /\ entry[i].operation_id \in Ids
  <2>1. CASE entry[i].explicit
    BY <1>t, <2>1 DEF Registry, FreshOK, NoEntry, Typed, TypeOK
  <2>2. CASE frame[c].pc = "create" /\ frame[c].instance = i
    BY <2>2 DEF Registry, ReservingOK, Reserving, FreshOK
  <2>3. QED BY <2>1, <2>2
<1>r. \A d \in Clients : Reserving(d)' =>
        Reserving(d) /\ frame'[d] = frame[d] /\ frame[d].instance \in Instances \ {i}
  <2> TAKE d \in Clients
  <2> HAVE Reserving(d)'
  <2>1. Reserving(d) /\ frame'[d] = frame[d]
    BY <1>c, <1>t DEF Reserving, OthersKept
  <2>2. frame[d].instance \in Instances
    BY <1>t, <2>1, FrameIsGood DEF GoodFrame, Reserving
  <2>3. frame[d].instance # i
    <3>1. CASE frame'[c] = frame[c] /\ entry[i].explicit
      BY <2>1, <3>1 DEF Registry, ReservingOK
    <3>2. CASE /\ frame[c].pc = "create" /\ frame[c].instance = i
               /\ frame'[c] = [NewFrame("reserved") EXCEPT !.lease = next_sequence]
      <4>1. ~Reserving(c)' /\ Reserving(c)
        BY <3>2 DEF Reserving, NewFrame
      <4>2. QED BY <2>1, <3>2, <4>1 DEF Registry, ReservingOK
    <3>3. QED BY <3>1, <3>2
  <2>4. QED BY <2>1, <2>2, <2>3
<1>a. /\ a.operation_id = entry[i].operation_id /\ a.instance = i /\ a.phase = initial
      /\ a.terminal = "none" /\ a.control = NewControl(entry[i].cancellation_requested)
  OBVIOUS
<1> HIDE DEF n, a
<1>1. FreshOK'
  <2>1. (\A s \in Seqs : s >= next_sequence => attempt[s].phase = "none" /\ s \notin attempts)'
    BY <1>0, <1>t DEF Registry, FreshOK, n
  <2>2. (\A j \in Instances :
          /\ j >= next_instance => entry[j] = NoEntry
          /\ j < next_instance => entry[j].operation_id \in Ids)'
    <3>1. \A j \in Instances : j >= next_instance => j # i
      BY <1>i, <1>t DEF Typed, TypeOK
    <3>2. QED BY <1>e, <1>f, <1>i, <3>1 DEF Registry, FreshOK
  <2>3. QED BY <2>1, <2>2 DEF FreshOK
<1>k. \A j \in Instances :
         /\ entry'[j].operation_id = entry[j].operation_id
         /\ entry'[j].cancellation_requested = entry[j].cancellation_requested
         /\ entry[j].attempts \subseteq entry'[j].attempts
  BY <1>e, <1>f
<1>2. OperationsOK'
  BY <1>k DEF Registry, OperationsOK, Typed, TypeOK
<1>3. AttemptsOK'
  <2>1. ASSUME NEW s \in attempts'
        PROVE  /\ attempt'[s].operation_id \in Ids
               /\ attempt'[s].instance \in Instances
               /\ operations[attempt'[s].operation_id] = attempt'[s].instance
               /\ s \in entry'[attempt'[s].instance].attempts
    <3>1. CASE s = n
      BY <1>0, <1>a, <1>f, <1>i, <3>1
    <3>2. CASE s # n
      <4>1. s \in attempts /\ attempt'[s] = attempt[s]
        BY <1>0, <1>t, <3>2
      <4>2. QED BY <1>k, <4>1 DEF Registry, AttemptsOK
    <3>3. QED BY <3>1, <3>2
  <2>2. ASSUME NEW j \in Instances, NEW s \in entry'[j].attempts
        PROVE  s \in attempts' /\ attempt'[s].instance = j
    <3>1. CASE j = i /\ s = n
      BY <1>0, <1>a, <3>1
    <3>2. CASE s \in entry[j].attempts
      BY <1>0, <1>t, <3>2 DEF Registry, AttemptsOK
    <3>3. QED BY <1>e, <1>f, <3>1, <3>2
  <2>3. \A s \in Seqs : attempt'[s].phase \notin {"none", "released"} => s \in attempts'
    BY <1>0 DEF Registry, AttemptsOK
  <2>4. ASSUME NEW t \in Threads, frame'[t].pc = "retire"
        PROVE  attempt'[frame'[t].lease].phase = "released"
    <3>1. frame'[t] = frame[t] /\ frame[t].pc = "retire"
      BY <1>c, <2>4 DEF OthersKept
    <3>2. frame[t].lease \in Seqs /\ attempt[frame[t].lease].phase = "released"
      BY <3>1, FrameIsGood DEF GoodFrame, Bare, Registry, AttemptsOK
    <3>3. QED BY <1>0, <3>1, <3>2
  <2>5. QED BY <2>1, <2>2, <2>3, <2>4 DEF AttemptsOK
<1>4. ReservingOK'
  BY <1>e, <1>r DEF Registry, ReservingOK
<1>5. QuiescingOK'
  BY <1>t DEF Registry, QuiescingOK, OthersKept
<1>6. CancellationReaches'
  <2> SUFFICES ASSUME NEW s \in attempts',
                      phase # "running" \/ entry'[attempt'[s].instance].cancellation_requested
               PROVE  attempt'[s].control # RUNNING \/ \E t \in Threads : s \in frame'[t].sweep
    BY DEF CancellationReaches
  <2>1. CASE s = n
    BY <1>0, <1>a, <1>f, <2>1 DEF NewControl, RUNNING, CANCEL_REQUESTED
  <2>2. CASE s # n
    <3>1. s \in attempts /\ attempt'[s] = attempt[s]
      BY <1>0, <1>t, <2>2
    <3>2. phase # "running" \/ entry[attempt[s].instance].cancellation_requested
      BY <1>k, <3>1 DEF Registry, AttemptsOK
    <3>3. attempt[s].control # RUNNING \/ \E t \in Threads : s \in frame[t].sweep
      BY <3>1, <3>2 DEF Registry, CancellationReaches
    <3>4. ASSUME NEW t \in Threads, s \in frame[t].sweep PROVE s \in frame'[t].sweep
      BY <1>c, <3>4 DEF OthersKept
    <3>5. QED BY <3>1, <3>3, <3>4
  <2>3. QED BY <2>1, <2>2
<1>7. TerminalTruth'
  <2>1. Truthful(a)
    BY <1>a DEF Truthful, NewControl, IsTerminal, RUNNING, CANCEL_REQUESTED, TERMINAL,
                TERMINAL_CANCELLED
  <2>2. QED BY <1>0, <2>1 DEF Registry, TerminalTruth
<1>8. QED
  BY <1>0, <1>1, <1>2, <1>3, <1>4, <1>5, <1>6, <1>7 DEF Registry, n

\* An entry without attempts leaves the registry: rollback and finish_operation.
LEMMA RegistryRemove ==
  ASSUME Typed, Typed', Registry, NEW c \in Clients, NEW i \in Instances,
         i < next_instance, operations[entry[i].operation_id] = i, entry[i].attempts = {},
         RemoveOperation(entry[i].operation_id),
         UNCHANGED <<phase, next_sequence, attempts, entry, next_instance, attempt>>,
         OthersKept(c),
         \/ frame'[c] = frame[c] /\ entry[i].explicit
         \/ frame[c].pc = "rollback" /\ frame[c].instance = i /\ frame'[c] = NewFrame("idle")
  PROVE  Registry'
<1> DEFINE id == entry[i].operation_id
<1>0. /\ id \in Ids /\ i # 0
      /\ operations'[id] = 0 /\ \A j \in Ids \ {id} : operations'[j] = operations[j]
  BY DEF Registry, FreshOK, RemoveOperation, Typed, TypeOK, Instances
<1>t. /\ Clients \subseteq Threads /\ Closers \subseteq Threads \ {c}
      /\ frame'[c].pc = "idle" \/ frame'[c] = frame[c]
      /\ frame[c].sweep # {} => frame'[c] = frame[c]
  <2>1. Clients \subseteq Threads /\ Closers \subseteq Threads \ {c}
    BY ThreadsAssumption DEF Threads
  <2>2. frame[c].pc = "rollback" => frame[c].sweep = {}
    BY <2>1, FrameIsGood DEF GoodFrame
  <2>3. QED BY <2>1, <2>2 DEF NewFrame
<1>r. \A d \in Clients : Reserving(d)' =>
        /\ Reserving(d) /\ frame'[d] = frame[d]
        /\ frame[d].instance \in Instances \ {i}
        /\ entry[frame[d].instance].operation_id \in Ids \ {id}
  <2> TAKE d \in Clients
  <2> HAVE Reserving(d)'
  <2>1. Reserving(d) /\ frame'[d] = frame[d]
    BY <1>t DEF Reserving, OthersKept
  <2>2. frame[d].instance \in Instances
    BY <1>t, <2>1, FrameIsGood DEF GoodFrame, Reserving
  <2>3. frame[d].instance # i
    <3>1. CASE frame'[c] = frame[c] /\ entry[i].explicit
      BY <2>1, <3>1 DEF Registry, ReservingOK
    <3>2. CASE frame[c].pc = "rollback" /\ frame[c].instance = i /\ frame'[c] = NewFrame("idle")
      <4>1. ~Reserving(c)' /\ Reserving(c)
        BY <3>2 DEF Reserving, NewFrame
      <4>2. QED BY <2>1, <3>2, <4>1 DEF Registry, ReservingOK
    <3>3. QED BY <3>1, <3>2
  <2>4. /\ operations[entry[frame[d].instance].operation_id] = frame[d].instance
        /\ entry[frame[d].instance].operation_id \in Ids
    BY <2>1, <2>2 DEF Registry, ReservingOK, FreshOK
  <2>5. QED BY <2>1, <2>2, <2>3, <2>4
<1>a. \A s \in attempts : attempt[s].operation_id \in Ids \ {id}
  BY DEF Registry, AttemptsOK
<1> HIDE DEF id
<1>1. FreshOK'
  BY DEF Registry, FreshOK
<1>2. OperationsOK'
  BY <1>0 DEF Registry, OperationsOK
<1>3. AttemptsOK'
  <2>1. (\A s \in attempts :
          /\ attempt[s].operation_id \in Ids
          /\ attempt[s].instance \in Instances
          /\ operations[attempt[s].operation_id] = attempt[s].instance
          /\ s \in entry[attempt[s].instance].attempts)'
    BY <1>0, <1>a DEF Registry, AttemptsOK
  <2>2. (\A t \in Threads : frame[t].pc = "retire" => attempt[frame[t].lease].phase = "released")'
    BY <1>t DEF Registry, AttemptsOK, OthersKept
  <2>3. QED BY <2>1, <2>2 DEF Registry, AttemptsOK
<1>4. ReservingOK'
  BY <1>0, <1>r DEF Registry, ReservingOK
<1>5. QuiescingOK'
  BY <1>t DEF Registry, QuiescingOK, OthersKept
<1>6. CancellationReaches'
  <2>1. \A s, t : t \in Threads /\ s \in frame[t].sweep => s \in frame'[t].sweep
    BY <1>t DEF OthersKept
  <2>2. QED BY <2>1 DEF Registry, CancellationReaches
<1>7. TerminalTruth'
  BY DEF Registry, TerminalTruth
<1>8. QED BY <1>1, <1>2, <1>3, <1>4, <1>5, <1>6, <1>7 DEF Registry

\* An attempt leaves the registry, and its operation with it when it was the last.
LEMMA RegistryRetire ==
  ASSUME Typed, Typed', Registry, NEW t \in Clients \cup Seqs, Retire(t)
  PROVE  Registry' /\ attempts' \subseteq attempts /\ UNCHANGED attempt
<1> DEFINE s  == frame[t].lease
           id == attempt[s].operation_id
           i  == attempt[s].instance
<1>0. t \in Threads /\ Clients \subseteq Threads /\ Closers \subseteq Threads \ {t}
  BY BoundsAssumption, ThreadsAssumption DEF Threads, Seqs
<1>g. frame[t] \in Frames /\ GoodFrame(t, frame[t]) /\ frame[t].pc = "retire"
  BY <1>0, FrameIsGood DEF Retire, At
<1>s. s \in Seqs /\ attempt[s].phase = "released" /\ frame[t].sweep = {}
  BY <1>0, <1>g DEF GoodFrame, Bare, Registry, AttemptsOK
<1>u. UNCHANGED <<phase, next_sequence, next_instance, attempt>>
  BY DEF Retire
<1>q. QuietFrames
  <2>1. AttemptsStep
    BY <1>u, AttemptsKept
  <2>2. PICK ok \in BOOLEAN : Return(t, ok)
    BY DEF Retire
  <2>3. QED BY <1>g, <2>1, <2>2, FrameReturned
<1>r. \A d \in Clients : Reserving(d)' =>
        Reserving(d) /\ frame'[d].instance = frame[d].instance
  BY <1>0, <1>q DEF QuietFrames, QuietFrame, Reserving
<1>1. CASE s \notin attempts
  <2>1. UNCHANGED registryVars /\ AttemptsStep
    BY <1>1, <1>u, AttemptsKept DEF Retire, registryVars
  <2>2. QED BY <1>q, <1>u, <2>1, QuietStep DEF registryVars
<1>2. CASE s \in attempts
  <2>0. /\ id \in Ids /\ i \in Instances /\ i # 0 /\ operations[id] = i
        /\ s \in entry[i].attempts /\ i < next_instance /\ entry[i].operation_id = id
    BY <1>2 DEF Registry, AttemptsOK, OperationsOK, Instances
  <2>1. /\ attempts' = attempts \ {s}
        /\ entry' = [entry EXCEPT ![i].attempts = @ \ {s}]
        /\ IF LeavesWithAttempt(i, s) THEN RemoveOperation(id) ELSE UNCHANGED operations
    BY <1>2, <2>0 DEF Retire
  <2>e. /\ \A j \in Instances : /\ entry'[j].operation_id = entry[j].operation_id
                                /\ entry'[j].explicit = entry[j].explicit
                                /\ entry'[j].cancellation_requested = entry[j].cancellation_requested
        /\ \A j \in Instances \ {i} : entry'[j] = entry[j]
        /\ entry'[i].attempts = entry[i].attempts \ {s}
    <3>1. /\ \A j \in Instances \ {i} : entry'[j] = entry[j]
          /\ entry'[i] = [entry[i] EXCEPT !.attempts = @ \ {s}]
          /\ entry[i] \in OperationEntries
      BY <2>0, <2>1 DEF Typed, TypeOK
    <3>2. /\ entry'[i].operation_id = entry[i].operation_id
          /\ entry'[i].explicit = entry[i].explicit
          /\ entry'[i].cancellation_requested = entry[i].cancellation_requested
          /\ entry'[i].attempts = entry[i].attempts \ {s}
      BY <3>1 DEF OperationEntries
    <3>3. QED BY <3>1, <3>2
  <2>o. /\ \A j \in Ids \ {id} : operations'[j] = operations[j]
        /\ operations'[id] \in {i, 0}
        /\ operations'[id] = 0 => entry[i].attempts \subseteq {s}
    BY <2>0, <2>1 DEF LeavesWithAttempt, RemoveOperation, Typed, TypeOK
  <2> HIDE DEF s, id, i
  <2>2. FreshOK'
    <3>1. \A j \in Instances : j >= next_instance => j # i
      BY <2>0 DEF Typed, TypeOK, Instances
    <3>2. QED BY <1>u, <2>1, <2>e, <3>1 DEF Registry, FreshOK
  <2>3. OperationsOK'
    <3> SUFFICES ASSUME NEW j \in Ids, operations'[j] # 0
                 PROVE  operations'[j] < next_instance /\ entry'[operations'[j]].operation_id = j
      BY <1>u DEF OperationsOK
    <3>1. operations'[j] = operations[j] /\ operations[j] \in Instances
      BY <2>0, <2>o DEF Typed, TypeOK
    <3>2. QED BY <2>e, <3>1 DEF Registry, OperationsOK
  <2>4. AttemptsOK'
    <3>1. ASSUME NEW r \in attempts'
          PROVE  /\ attempt[r].operation_id \in Ids
                 /\ attempt[r].instance \in Instances
                 /\ operations'[attempt[r].operation_id] = attempt[r].instance
                 /\ r \in entry'[attempt[r].instance].attempts
      <4>1. /\ r \in attempts /\ r # s
            /\ attempt[r].operation_id \in Ids /\ attempt[r].instance \in Instances
            /\ operations[attempt[r].operation_id] = attempt[r].instance
            /\ r \in entry[attempt[r].instance].attempts
        BY <2>1, <3>1 DEF Registry, AttemptsOK
      <4>2. operations'[attempt[r].operation_id] = operations[attempt[r].operation_id]
        <5>1. CASE attempt[r].operation_id = id
          BY <2>0, <2>o, <4>1, <5>1
        <5>2. CASE attempt[r].operation_id # id
          BY <2>o, <4>1, <5>2
        <5>3. QED BY <5>1, <5>2
      <4>3. r \in entry'[attempt[r].instance].attempts
        BY <2>e, <4>1
      <4>4. QED BY <4>1, <4>2, <4>3
    <3>2. ASSUME NEW j \in Instances, NEW r \in entry'[j].attempts
          PROVE  r \in attempts' /\ attempt[r].instance = j
      <4>1. r \in entry[j].attempts /\ (j = i => r # s)
        BY <2>e
      <4>2. r \in attempts /\ attempt[r].instance = j
        BY <4>1 DEF Registry, AttemptsOK
      <4>3. r # s
        BY <4>1, <4>2 DEF i
      <4>4. QED BY <2>1, <4>2, <4>3
    <3>3. \A r \in Seqs : attempt[r].phase \notin {"none", "released"} => r \in attempts'
      BY <1>s, <2>1 DEF Registry, AttemptsOK, s
    <3>4. \A u \in Threads : frame'[u].pc = "retire" =>
            attempt'[frame'[u].lease].phase = "released"
      BY <1>q DEF QuietFrames, QuietFrame
    <3>5. QED BY <1>u, <3>1, <3>2, <3>3, <3>4 DEF AttemptsOK
  <2>5. ReservingOK'
    <3>1. ASSUME NEW d \in Clients, Reserving(d)'
          PROVE  /\ frame'[d].instance = frame[d].instance
                 /\ frame[d].instance \in Instances \ {i}
                 /\ Reserving(d)
                 /\ entry[frame[d].instance].operation_id \in Ids \ {id}
      <4>1. Reserving(d) /\ frame'[d].instance = frame[d].instance
        BY <1>r, <3>1
      <4>2. frame[d].instance \in Instances
        BY <1>0, <4>1, FrameIsGood DEF GoodFrame, Reserving
      <4>3. /\ frame[d].instance # i
            /\ operations[entry[frame[d].instance].operation_id] = frame[d].instance
        BY <2>0, <4>1 DEF Registry, ReservingOK
      <4>4. entry[frame[d].instance].operation_id \in Ids
        BY <4>1, <4>2 DEF Registry, ReservingOK, FreshOK
      <4>5. QED BY <2>0, <4>1, <4>2, <4>3, <4>4
    <3>2. ASSUME NEW d \in Clients, Reserving(d)'
          PROVE  /\ frame'[d].instance < next_instance'
                 /\ operations'[entry'[frame'[d].instance].operation_id] = frame'[d].instance
                 /\ ~entry'[frame'[d].instance].explicit
                 /\ entry'[frame'[d].instance].attempts = {}
      BY <1>u, <2>e, <2>o, <3>1, <3>2 DEF Registry, ReservingOK
    <3>3. QED BY <3>1, <3>2 DEF Registry, ReservingOK
  <2>6. QuiescingOK'
    BY <1>0, <1>q, <1>u DEF Registry, QuiescingOK, QuietFrames, QuietFrame
  <2>7. CancellationReaches'
    <3> SUFFICES ASSUME NEW r \in attempts',
                        phase # "running" \/ entry'[attempt[r].instance].cancellation_requested
                 PROVE  attempt'[r].control # RUNNING \/ \E u \in Threads : r \in frame'[u].sweep
      BY <1>u DEF CancellationReaches
    <3>1. r \in attempts /\ attempt[r].instance \in Instances
      BY <2>1 DEF Registry, AttemptsOK
    <3>2. attempt[r].control # RUNNING \/ \E u \in Threads : r \in frame[u].sweep
      BY <2>e, <3>1 DEF Registry, CancellationReaches
    <3>3. ASSUME NEW u \in Threads, r \in frame[u].sweep
          PROVE  attempt'[r].control # RUNNING \/ r \in frame'[u].sweep
      BY <1>q, <3>3 DEF QuietFrames, QuietFrame
    <3>4. QED BY <1>u, <3>2, <3>3
  <2>8. TerminalTruth'
    BY <1>u DEF Registry, TerminalTruth
  <2>9. QED
    BY <1>u, <2>1, <2>2, <2>3, <2>4, <2>5, <2>6, <2>7, <2>8 DEF Registry
<1>3. QED BY <1>1, <1>2

\* Marks are set and the attempts to cancel collected: begin_quiesce and
\* request_operation_cancel.
LEMMA RegistryMark ==
  ASSUME Typed, Typed', Registry, NEW t \in Clients \cup Closers, frame[t].pc = "idle",
         NEW g, SetFrame(t, g), g.pc = "cancel_sweep",
         UNCHANGED <<next_sequence, operations, attempts, next_instance, attempt>>,
         \A i \in Instances : /\ entry'[i].operation_id = entry[i].operation_id
                              /\ entry'[i].explicit = entry[i].explicit
                              /\ entry'[i].attempts = entry[i].attempts
                              /\ i >= next_instance => entry'[i] = entry[i],
         \A s \in attempts :
            \/ s \in g.sweep
            \/ phase' = phase /\ entry'[attempt[s].instance] = entry[attempt[s].instance],
         phase' # "running" \/ (phase' = phase /\ t \in Clients)
  PROVE  Registry'
<1>0. t \in Threads /\ Clients \subseteq Threads /\ Closers \subseteq Threads
  BY DEF Threads
<1>1. frame'[t] = g /\ \A u \in Threads \ {t} : frame'[u] = frame[u]
  BY <1>0 DEF SetFrame, Typed, TypeOK
<1>2. frame[t].sweep = {}
  BY <1>0, FrameIsGood DEF GoodFrame
<1>3. FreshOK'
  BY DEF Registry, FreshOK
<1>4. OperationsOK'
  BY DEF Registry, OperationsOK, Typed, TypeOK
<1>5. AttemptsOK'
  <2>1. (\A s \in attempts :
          /\ attempt[s].operation_id \in Ids
          /\ attempt[s].instance \in Instances
          /\ operations[attempt[s].operation_id] = attempt[s].instance
          /\ s \in entry[attempt[s].instance].attempts)'
    BY DEF Registry, AttemptsOK
  <2>2. (\A i \in Instances : \A s \in entry[i].attempts :
          s \in attempts /\ attempt[s].instance = i)'
    BY DEF Registry, AttemptsOK
  <2>3. (\A u \in Threads : frame[u].pc = "retire" => attempt[frame[u].lease].phase = "released")'
    BY <1>1 DEF Registry, AttemptsOK
  <2>4. QED BY <2>1, <2>2, <2>3 DEF Registry, AttemptsOK
<1>6. ReservingOK'
  <2>1. ASSUME NEW d \in Clients, Reserving(d)'
        PROVE  Reserving(d) /\ frame'[d] = frame[d] /\ frame[d].instance \in Instances
    <3>1. Reserving(d) /\ frame'[d] = frame[d]
      BY <1>0, <1>1, <2>1 DEF Reserving
    <3>2. QED BY <1>0, <3>1, FrameIsGood DEF GoodFrame, Reserving
  <2>2. QED BY <2>1 DEF Registry, ReservingOK
<1>7. QuiescingOK'
  <2> SUFFICES ASSUME NEW u \in Closers, frame'[u].pc # "idle", phase' = "running"
               PROVE  FALSE
    BY DEF QuiescingOK
  <2>1. t # u
    BY ThreadsAssumption
  <2>2. QED BY <1>0, <1>1, <2>1 DEF Registry, QuiescingOK
<1>8. CancellationReaches'
  <2> SUFFICES ASSUME NEW s \in attempts,
                      phase' # "running" \/ entry'[attempt[s].instance].cancellation_requested
               PROVE  attempt[s].control # RUNNING \/ \E u \in Threads : s \in frame'[u].sweep
    BY DEF CancellationReaches
  <2>1. CASE s \in g.sweep
    BY <1>0, <1>1, <2>1
  <2>2. CASE s \notin g.sweep
    <3>1. attempt[s].control # RUNNING \/ \E u \in Threads : s \in frame[u].sweep
      BY <2>2 DEF Registry, CancellationReaches
    <3>2. ASSUME NEW u \in Threads, s \in frame[u].sweep PROVE s \in frame'[u].sweep
      BY <1>1, <1>2, <3>2
    <3>3. QED BY <3>1, <3>2
  <2>3. QED BY <2>1, <2>2
<1>9. TerminalTruth'
  BY DEF Registry, TerminalTruth
<1>10. QED BY <1>3, <1>4, <1>5, <1>6, <1>7, <1>8, <1>9 DEF Registry

LEMMA RegistryClose ==
  ASSUME Typed, Typed', Registry, NEW t \in Closers, Close(t)
  PROVE  Registry' /\ UNCHANGED <<attempt, attempts>>
<1>0. t \in Threads /\ Closers \subseteq Threads /\ t \notin Clients
  BY ThreadsAssumption DEF Threads
<1>1. AttemptsStep
  BY AttemptsKept DEF Close
<1>2. QuietFrames
  BY <1>0, <1>1, FrameMoved DEF Close, At
<1>3. phase # "running" /\ phase' = "closed"
  BY DEF Registry, QuiescingOK, Close, At
<1>u. UNCHANGED <<next_sequence, operations, attempts, entry, next_instance, attempt>>
  BY DEF Close
<1>4. FreshOK' /\ OperationsOK' /\ TerminalTruth'
  BY <1>u DEF Registry, FreshOK, OperationsOK, TerminalTruth
<1>5. AttemptsOK'
  <2>1. (\A u \in Threads : frame[u].pc = "retire" => attempt[frame[u].lease].phase = "released")'
    BY <1>2 DEF QuietFrames, QuietFrame
  <2>2. QED BY <1>u, <2>1 DEF Registry, AttemptsOK
<1>6. ReservingOK'
  <2>1. \A c \in Clients : Reserving(c)' => Reserving(c) /\ frame'[c].instance = frame[c].instance
    BY <1>2 DEF QuietFrames, QuietFrame, Reserving, Threads
  <2>2. QED BY <1>u, <2>1 DEF Registry, ReservingOK
<1>7. QuiescingOK'
  BY <1>3 DEF QuiescingOK
<1>8. CancellationReaches'
  BY <1>2, <1>3, <1>u DEF Registry, CancellationReaches, QuietFrames, QuietFrame
<1>9. QED BY <1>4, <1>5, <1>6, <1>7, <1>8, <1>u DEF Registry

-----------------------------------------------------------------------------

LEMMA RegistryInit == Init => Registry
<1> SUFFICES ASSUME Init PROVE Registry
  OBVIOUS
<1>1. \A t \in Threads : frame[t].pc \in {"idle", "unborn"}
  BY DEF Init, NewFrame
<1>2. /\ \A s \in Seqs : attempt[s] = NoAttempt
      /\ \A i \in Instances : entry[i] = NoEntry /\ i >= next_instance
      /\ \A id \in Ids : operations[id] = 0
      /\ attempts = {}
  BY DEF Init, Instances
<1>3. Truthful(NoAttempt) /\ NoAttempt.phase = "none" /\ NoEntry.attempts = {}
  BY DEF Truthful, NoAttempt, NoEntry, IsTerminal, RUNNING, TERMINAL, TERMINAL_CANCELLED
<1>4. FreshOK
  BY <1>2, <1>3, BoundsAssumption DEF FreshOK, Init, Instances
<1>5. OperationsOK /\ AttemptsOK /\ CancellationReaches /\ TerminalTruth
  BY <1>1, <1>2, <1>3 DEF OperationsOK, AttemptsOK, CancellationReaches, TerminalTruth
<1>6. ReservingOK
  BY <1>1 DEF ReservingOK, Reserving, Threads
<1>7. QuiescingOK
  <2>1. \A t \in Closers : t \in Threads /\ t \notin Seqs
    BY BoundsAssumption, ThreadsAssumption DEF Threads, Seqs
  <2>2. QED BY <2>1 DEF QuiescingOK, Init, NewFrame
<1>8. QED BY <1>4, <1>5, <1>6, <1>7 DEF Registry

\* A terminal record survives a step, and its attempt does not come back.
FinalStep ==
    \A s \in Seqs : attempt[s].terminal # "none" =>
        /\ attempt'[s] \in {attempt[s], [attempt[s] EXCEPT !.phase = "released"]}
        /\ s \in attempts' => s \in attempts

LEMMA RegistryNext ==
  ASSUME Typed, Typed', Registry, [Next]_vars
  PROVE  Registry' /\ FinalStep
<1>k. ASSUME AttemptsStep, attempts' \subseteq attempts PROVE FinalStep
  BY <1>k DEF FinalStep, AttemptsStep, AttemptStep
<1>q. ASSUME Registry', UNCHANGED registryVars, AttemptsStep PROVE Registry' /\ FinalStep
  BY <1>k, <1>q DEF registryVars
<1>u. ASSUME Registry', UNCHANGED attempt, attempts' \subseteq attempts
      PROVE  Registry' /\ FinalStep
  BY <1>u DEF FinalStep
<1>f. frame \in [Threads -> Frames] /\ Clients \subseteq Threads
  BY DEF Typed, TypeOK, Threads
<1>o. ASSUME NEW t \in Threads, NEW g, SetFrame(t, g)
      PROVE  OthersKept(t) /\ frame'[t] = g
  BY <1>f, <1>o DEF SetFrame, OthersKept
<1>1. ASSUME NEW c \in Clients, NEW id \in ReservedIds, ReserveCreate(c, id)
      PROVE  Registry' /\ FinalStep
  <2> DEFINE g == [NewFrame("create") EXCEPT !.instance = next_instance]
  <2>1. SetFrame(c, g)
    BY <1>1 DEF ReserveCreate
  <2> HIDE DEF g
  <2>2. OthersKept(c) /\ frame'[c] = g
    BY <1>f, <1>o, <2>1
  <2>3. Registry'
    BY <1>1, <2>2, RegistryCreate DEF ReserveCreate, g, Ids
  <2>4. QED BY <1>1, <1>u, <2>3 DEF ReserveCreate
<1>2. ASSUME NEW c \in Clients, NEW id \in ExplicitIds, CreateOperation(c, id)
      PROVE  Registry' /\ FinalStep
  <2>1. Registry'
    BY <1>2, RegistryCreate DEF CreateOperation, OthersKept, Ids
  <2>2. QED BY <1>2, <1>u, <2>1 DEF CreateOperation
<1>s. ASSUME Registry', attempt[next_sequence].phase = "none",
             \A s \in Seqs \ {next_sequence} :
                attempt'[s] = attempt[s] /\ (s \in attempts' => s \in attempts)
      PROVE  Registry' /\ FinalStep
  <2>1. next_sequence \in Seqs => attempt[next_sequence].terminal = "none"
    BY <1>s DEF Registry, TerminalTruth, Truthful
  <2>2. QED BY <1>s, <2>1 DEF FinalStep
<1>3. ASSUME NEW c \in Clients, NEW i \in Instances, StartAttempt(c, i)
      PROVE  Registry' /\ FinalStep
  BY <1>3, <1>s, RegistryStart DEF StartAttempt, OthersKept
<1>4. ASSUME NEW c \in Clients, ReserveAttempt(c) PROVE Registry' /\ FinalStep
  <2>1. frame[c].instance \in Instances /\ frame[c].pc = "create"
    BY <1>4, <1>f, FrameIsGood DEF ReserveAttempt, At, GoodFrame
  <2>2. CASE MayStartAttempt(frame[c].instance)
    <3> DEFINE g == [NewFrame("reserved") EXCEPT !.lease = next_sequence]
    <3>1. StartAttemptInner(frame[c].instance, "reserved") /\ SetFrame(c, g)
      BY <1>4, <2>2 DEF ReserveAttempt
    <3> HIDE DEF g
    <3>2. OthersKept(c) /\ frame'[c] = g
      BY <1>f, <1>o, <3>1
    <3>3. QED
      BY <1>4, <1>s, <2>1, <2>2, <3>1, <3>2, RegistryStart DEF ReserveAttempt, g
  <2>3. CASE ~MayStartAttempt(frame[c].instance)
    <3>1. UNCHANGED registryVars /\ UNCHANGED attempt /\ Goto(c, "rollback")
      BY <1>4, <2>3 DEF ReserveAttempt, registryVars
    <3>2. AttemptsStep
      BY <3>1, AttemptsKept
    <3> DEFINE g == [frame[c] EXCEPT !.pc = "rollback"]
    <3>3. SetFrame(c, g) /\ g.pc = "rollback" /\ g.instance = frame[c].instance
          /\ g.sweep = frame[c].sweep
      BY <1>f, <3>1 DEF Goto, Moved, Methods, Frames
    <3> HIDE DEF g
    <3>4. OthersKept(c) /\ frame'[c] = g
      BY <1>f, <1>o, <3>3
    <3>5. QuietFrame(c, frame[c], g)
      BY <2>1, <3>3 DEF QuietFrame
    <3>6. ASSUME NEW u \in Threads \ {c} PROVE QuietFrame(u, frame[u], frame[u])
      <4>1. frame[u].pc = "retire" => attempt'[frame[u].lease].phase = "released"
        BY <3>1 DEF Registry, AttemptsOK
      <4>2. QED BY <4>1 DEF QuietFrame
    <3>7. QuietFrames
      BY <3>4, <3>5, <3>6 DEF QuietFrames, OthersKept
    <3>8. QED BY <1>q, <3>1, <3>2, <3>7, QuietStep
  <2>4. QED BY <2>2, <2>3
<1>5. ASSUME NEW c \in Clients, ReserveRollback(c) PROVE Registry' /\ FinalStep
  <2>1. frame[c].instance \in Instances /\ frame[c].pc = "rollback"
    BY <1>5, <1>f, FrameIsGood DEF ReserveRollback, At, GoodFrame
  <2>2. /\ frame[c].instance < next_instance
        /\ operations[entry[frame[c].instance].operation_id] = frame[c].instance
        /\ entry[frame[c].instance].attempts = {}
    BY <2>1 DEF Registry, ReservingOK, Reserving
  <2>3. SetFrame(c, NewFrame("idle"))
    BY <1>5 DEF ReserveRollback, Goto, Moved
  <2>4. OthersKept(c) /\ frame'[c] = NewFrame("idle")
    BY <1>f, <1>o, <2>3
  <2>5. Registry'
    BY <1>5, <2>1, <2>2, <2>4, RegistryRemove DEF ReserveRollback
  <2>6. QED BY <1>5, <1>u, <2>5 DEF ReserveRollback
<1>6. ASSUME NEW c \in Clients, NEW i \in Instances, FinishOperation(c, i)
      PROVE  Registry' /\ FinalStep
  <2>1. i < next_instance
    BY <1>6 DEF FinishOperation, Registry, FreshOK, NoEntry, Typed, TypeOK, Instances
  <2>2. Registry'
    BY <1>6, <2>1, RegistryRemove DEF FinishOperation, OthersKept
  <2>3. QED BY <1>6, <1>u, <2>2 DEF FinishOperation
<1>7. ASSUME NEW c \in Clients, NEW i \in Instances, RequestOperationCancel(c, i)
      PROVE  Registry' /\ FinalStep
  <2> DEFINE g == [NewFrame("cancel_sweep") EXCEPT !.sweep = entry[i].attempts]
  <2>1. /\ SetFrame(c, g) /\ g.pc = "cancel_sweep" /\ g.sweep = entry[i].attempts
        /\ frame[c].pc = "idle"
    BY <1>7 DEF RequestOperationCancel, NewFrame, At
  <2>2. /\ entry'[i] = [entry[i] EXCEPT !.cancellation_requested = TRUE]
        /\ entry[i] \in OperationEntries
        /\ \A j \in Instances \ {i} : entry'[j] = entry[j]
    BY <1>7 DEF RequestOperationCancel, Typed, TypeOK
  <2>3. /\ entry'[i].operation_id = entry[i].operation_id
        /\ entry'[i].explicit = entry[i].explicit
        /\ entry'[i].attempts = entry[i].attempts
    BY <2>2 DEF OperationEntries
  <2>4. i < next_instance
    BY <1>7 DEF RequestOperationCancel, Registry, FreshOK, NoEntry, Typed, TypeOK, Instances
  <2>5. \A j \in Instances : /\ entry'[j].operation_id = entry[j].operation_id
                             /\ entry'[j].explicit = entry[j].explicit
                             /\ entry'[j].attempts = entry[j].attempts
                             /\ j >= next_instance => entry'[j] = entry[j]
    <3>1. \A j \in Instances : j >= next_instance => j # i
      BY <2>4 DEF Typed, TypeOK, Instances
    <3>2. \A j \in Instances \ {i} : entry'[j] = entry[j]
      BY <2>2
    <3>3. QED BY <2>3, <3>1, <3>2
  <2>6. \A s \in attempts : s \in g.sweep
           \/ (phase' = phase /\ entry'[attempt[s].instance] = entry[attempt[s].instance])
    <3>1. \A j \in Instances \ {i} : entry'[j] = entry[j]
      BY <2>2
    <3>2. phase' = phase
      BY <1>7 DEF RequestOperationCancel
    <3>3. \A s \in attempts : attempt[s].instance \in Instances
             /\ s \in entry[attempt[s].instance].attempts
      BY DEF Registry, AttemptsOK
    <3>4. QED BY <2>1, <3>1, <3>2, <3>3
  <2>7. /\ UNCHANGED <<next_sequence, operations, attempts, next_instance, attempt>>
        /\ phase' = phase
    BY <1>7 DEF RequestOperationCancel
  <2> HIDE DEF g
  <2>8. Registry'
    BY <2>1, <2>5, <2>6, <2>7, RegistryMark
  <2>9. QED BY <1>u, <2>7, <2>8
<1>8. ASSUME NEW t \in Closers, BeginQuiesce(t) PROVE Registry' /\ FinalStep
  <2>0. t \in Threads /\ frame[t].pc = "idle"
    BY <1>8 DEF Threads, BeginQuiesce, At
  <2>1. CASE phase = "closed"
    <3>1. UNCHANGED registryVars /\ UNCHANGED attempt /\ Goto(t, "cached")
      BY <1>8, <2>1 DEF BeginQuiesce, registryVars
    <3>2. AttemptsStep
      BY <3>1, AttemptsKept
    <3> DEFINE g == [frame[t] EXCEPT !.pc = "cached"]
    <3>3. SetFrame(t, g) /\ g.pc = "cached" /\ g.sweep = frame[t].sweep
      BY <1>f, <2>0, <3>1 DEF Goto, Moved, Methods, Frames
    <3> HIDE DEF g
    <3>4. OthersKept(t) /\ frame'[t] = g
      BY <1>o, <2>0, <3>3
    <3>5. UNCHANGED <<phase, next_sequence, operations, attempts, entry, next_instance, attempt>>
      BY <3>1 DEF registryVars
    <3>6. FreshOK' /\ OperationsOK' /\ TerminalTruth'
      BY <3>5 DEF Registry, FreshOK, OperationsOK, TerminalTruth
    <3>7. AttemptsOK'
      <4>1. (\A u \in Threads : frame[u].pc = "retire" =>
               attempt[frame[u].lease].phase = "released")'
        BY <3>3, <3>4, <3>5 DEF Registry, AttemptsOK, OthersKept
      <4>2. QED BY <3>5, <4>1 DEF Registry, AttemptsOK
    <3>8. ReservingOK'
      <4>1. \A c \in Clients : frame'[c] = frame[c]
        BY <1>f, <3>4, ThreadsAssumption DEF OthersKept
      <4>2. QED BY <3>5, <4>1 DEF Registry, ReservingOK, Reserving
    <3>9. QuiescingOK'
      BY <2>1, <3>5 DEF QuiescingOK
    <3>10. CancellationReaches'
      <4>1. \A u \in Threads : frame'[u].sweep = frame[u].sweep
        BY <3>3, <3>4 DEF OthersKept
      <4>2. QED BY <3>5, <4>1 DEF Registry, CancellationReaches
    <3>11. Registry'
      BY <3>6, <3>7, <3>8, <3>9, <3>10 DEF Registry
    <3>12. QED BY <1>q, <3>1, <3>2, <3>11
  <2>2. CASE phase # "closed"
    <3> DEFINE g == [NewFrame("cancel_sweep") EXCEPT !.sweep = attempts]
    <3>1. SetFrame(t, g) /\ g.pc = "cancel_sweep" /\ g.sweep = attempts
      BY <1>8, <2>2 DEF BeginQuiesce, NewFrame
    <3>2. /\ UNCHANGED <<next_sequence, operations, attempts, next_instance, attempt>>
          /\ phase' = "quiescing"
      BY <1>8, <2>2 DEF BeginQuiesce
    <3>3. ASSUME NEW i \in Instances
          PROVE  /\ entry'[i].operation_id = entry[i].operation_id
                 /\ entry'[i].explicit = entry[i].explicit
                 /\ entry'[i].attempts = entry[i].attempts
                 /\ i >= next_instance => entry'[i] = entry[i]
      <4>1. PICK b \in BOOLEAN :
               /\ entry'[i] = [entry[i] EXCEPT !.cancellation_requested = b]
               /\ b <=> entry[i].cancellation_requested \/ \E id \in Ids : operations[id] = i
        <5>1. entry'[i] = [entry[i] EXCEPT !.cancellation_requested =
                    entry[i].cancellation_requested \/ \E id \in Ids : operations[id] = i]
          BY <1>8, <2>2 DEF BeginQuiesce
        <5>2. QED BY <5>1
      <4>2. entry[i] \in OperationEntries
        BY DEF Typed, TypeOK
      <4>3. /\ entry'[i].operation_id = entry[i].operation_id
            /\ entry'[i].explicit = entry[i].explicit
            /\ entry'[i].attempts = entry[i].attempts
        BY <4>1, <4>2 DEF OperationEntries
      <4>4. ASSUME i >= next_instance PROVE entry'[i] = entry[i]
        <5>1. ~\E id \in Ids : operations[id] = i
          <6>1. i # 0 /\ i \in Nat /\ next_instance \in Nat
            BY DEF Instances, Typed, TypeOK
          <6>2. QED BY <4>4, <6>1 DEF Registry, OperationsOK
        <5>2. b = entry[i].cancellation_requested
          BY <4>1, <4>2, <5>1 DEF OperationEntries
        <5>3. QED BY <4>1, <4>2, <5>2 DEF OperationEntries
      <4>5. QED BY <4>3, <4>4
    <3> HIDE DEF g
    <3>4. Registry'
      BY <2>0, <3>1, <3>2, <3>3, RegistryMark
    <3>5. QED BY <1>u, <3>2, <3>4
  <2>3. QED BY <2>1, <2>2
<1>9. ASSUME NEW t \in Clients \cup Seqs, LeaseStep(t) PROVE Registry' /\ FinalStep
  <2>1. CASE Retire(t)
    BY <1>u, <2>1, RegistryRetire
  <2>2. CASE ~Retire(t)
    BY <1>9, <1>q, <2>2, RegistryLease
  <2>3. QED BY <2>1, <2>2
<1>10. ASSUME NEW t \in Closers, Close(t) PROVE Registry' /\ FinalStep
  BY <1>10, <1>u, RegistryClose
<1>11. ASSUME NEW c \in Clients, ClientCall(c) \/ ClientStep(c) \/ ClientTask(c)
       PROVE  Registry' /\ FinalStep
  <2>1. CASE ClientCall(c)
    <3>1. CASE \/ \E s \in Seqs : FinishAttempt(c, s)
               \/ \E s \in Seqs, m \in Methods, k \in TerminalClasses : CallShared(c, s, m, k)
      BY <1>q, <3>1, RegistryClient
    <3>2. QED BY <1>1, <1>2, <1>3, <1>6, <1>7, <2>1, <3>1 DEF ClientCall
  <2>2. CASE \/ Spawn(c) \/ (\E k \in TerminalClasses : FinishReservation(c, k))
             \/ Launch(c) \/ Register(c) \/ Rendezvous(c)
             \/ AwaitResult(c) \/ JoinedCheck(c) \/ Recheck(c)
    BY <1>q, <2>2, RegistryClient
  <2>3. CASE DropTask(c) \/ ReapStep(c) \/ SweepStep(c)
    BY <1>q, <2>3, RegistryQuiet
  <2>4. QED
    BY <1>4, <1>5, <1>9, <1>11, <2>1, <2>2, <2>3 DEF ClientStep, ClientTask
<1>12. ASSUME NEW w \in Seqs, WorkerStep(w) \/ RequestCancel(w)
       PROVE  Registry' /\ FinalStep
  <2>1. CASE \/ \E outcome \in {"ok", "err", "panic"} : RunOperation(w, outcome)
             \/ Send(w) \/ RecordWorkerExit(w) \/ RequestCancel(w)
    BY <1>q, <2>1, RegistryQuiet
  <2>2. QED BY <1>9, <1>12, <2>1 DEF WorkerStep
<1>13. ASSUME NEW t \in Closers, BeginQuiesce(t) \/ CloserStep(t)
       PROVE  Registry' /\ FinalStep
  <2>1. CASE CachedOutcome(t) \/ Drain(t) \/ ReapStep(t) \/ SweepStep(t)
    BY <1>q, <2>1, RegistryQuiet
  <2>2. QED BY <1>8, <1>10, <1>13, <2>1 DEF CloserStep
<1>14. CASE Poison \/ (\E t \in Threads : SpuriousWake(t)) \/ UNCHANGED vars
  BY <1>q, <1>14, RegistryQuiet
<1>15. QED BY <1>11, <1>12, <1>13, <1>14 DEF Next

\* The inductive invariant holds in every reachable state.
LEMMA RegistryHolds == Spec => [](Typed /\ Registry)
<1>1. Init => Typed /\ Registry
  BY TypedInit, RegistryInit
<1>2. Typed /\ Registry /\ [Next]_vars => (Typed /\ Registry)'
  BY TypedNext, RegistryNext
<1>3. QED BY <1>1, <1>2, PTL DEF Spec

(***************************************************************************)
(* A public id stays bound to the entry an attempt was admitted under      *)
(* until that attempt is released (create_operation_inner, release,        *)
(* finish_operation).                                                      *)
(***************************************************************************)
THEOREM IdentityHeldAlways == Spec => []IdentityHeld
<1>1. Typed /\ Registry => IdentityHeld
  BY DEF Registry, AttemptsOK, IdentityHeld
<1>2. QED BY <1>1, RegistryHolds, PTL

(***************************************************************************)
(* reserve's error path only removes the entry its own call created,       *)
(* although the state mutex was released in between.                       *)
(***************************************************************************)
THEOREM RollbackOwned == Spec => []RollbackOwnsEntry
<1>1. Typed /\ Registry => RollbackOwnsEntry
  BY DEF Registry, ReservingOK, Reserving, RollbackOwnsEntry
<1>2. QED BY <1>1, RegistryHolds, PTL

(***************************************************************************)
(* Once begin_quiesce or request_operation_cancel has marked an operation, *)
(* each of its active attempts is cancelled, terminal, or still in a list  *)
(* a thread works through.                                                 *)
(***************************************************************************)
THEOREM CancellationAlwaysReaches == Spec => []CancellationReaches
<1>1. Typed /\ Registry => CancellationReaches
  BY DEF Registry
<1>2. QED BY <1>1, RegistryHolds, PTL

(***************************************************************************)
(* terminal publishes Completed only for a run no cancellation had won,    *)
(* and the record, the phase and the run control agree.                    *)
(***************************************************************************)
THEOREM TerminalAlwaysTrue == Spec => []TerminalTruth
<1>1. Typed /\ Registry => TerminalTruth
  BY DEF Registry
<1>2. QED BY <1>1, RegistryHolds, PTL

(***************************************************************************)
(* A terminal record is final, and its attempt never becomes active again. *)
(***************************************************************************)
THEOREM TerminalStaysFinal == Spec => TerminalFinal
<1>1. Typed /\ Registry /\ (Typed /\ Registry)' /\ [Next]_vars =>
        [\A s \in Seqs : attempt[s].terminal # "none" =>
           /\ attempt'[s] \in {attempt[s], [attempt[s] EXCEPT !.phase = "released"]}
           /\ s \in attempts' => s \in attempts]_vars
  BY RegistryNext DEF FinalStep
<1>2. QED BY <1>1, RegistryHolds, PTL DEF Spec, TerminalFinal

-----------------------------------------------------------------------------
(***************************************************************************)
(* PART 3.  The workers and the shutdown.  The inductive invariant.        *)
(***************************************************************************)

Callers == Clients \cup Closers

\* The caller of reserve that has not yet given its lease to a worker.
Owning(f) ==
    \/ f.pc \in {"reserved", "launch", "register", "rendezvous"}
    \/ f.pc \in {"current", "body"} /\ f.program = "spawn"

\* Its worker exists already, and waits for the rendezvous.
Launched(f) == f.pc \in {"register", "rendezvous"}

\* The worker w was registered, and who waits for its result may join it.
Known(w) == workers[w] # "absent" \/ w \in joined_flag

\* Nobody else has the lease of such a caller, and its attempt is active.
OwnersOK ==
    \A c \in Clients : Owning(frame[c]) =>
      LET s == frame[c].lease IN
      /\ s \in attempts /\ s \notin shared /\ ~entry[attempt[s].instance].explicit
      /\ \A d \in Clients \ {c} : frame[d].lease # s
      /\ frame[c].pc \in {"current", "body"} => frame[c].method \in {"queue", "start"}
      /\ frame[s].pc = IF Launched(frame[c]) THEN "recv" ELSE "unborn"
      /\ frame[c].pc = "register" => workers[s] = "absent"
      /\ frame[c].pc = "rendezvous" => workers[s] # "absent"

\* No lease is from the future.
LeasesOK ==
    /\ \A c \in Clients : frame[c].lease < next_sequence
    /\ \A s \in shared : s < next_sequence

\* Between its registration and its join a worker has a record.
WorkersOK ==
    \A w \in Seqs :
      /\ w >= next_sequence => frame[w].pc = "unborn"
      /\ frame[w].pc = "unborn" => workers[w] = "absent"
      /\ frame[w].pc \notin {"unborn", "recv", "dead"} => workers[w] # "absent"
      /\ frame[w].pc = "recv" =>
           \E c \in Clients : Launched(frame[c]) /\ frame[c].lease = w
      /\ w \in joined_flag => frame[w].pc = "dead" /\ workers[w] = "absent"
      /\ w \in exited_worker_ids => workers[w] # "absent"

LedgerOK ==
    /\ worker_history.outstanding = {w \in Seqs : workers[w] # "absent"}
    /\ worker_history.joined \subseteq joined_flag

\* Who joins a worker has its handle, and finds it in the ledger.
ReapersOK ==
    /\ \A w \in Seqs : (workers[w] = "taken") <=> \E t \in Callers : Reaping(t, w)
    /\ \A t, u \in Callers, w \in Seqs : Reaping(t, w) /\ Reaping(u, w) => t = u
    /\ \A t \in Callers : frame[t].pc = "reap_note" => frame[frame[t].lease].pc = "dead"
    /\ \A c \in Clients :
         /\ frame[c].pc \in {"task", "joined_check", "reap_take"} => Known(frame[c].lease)
         /\ frame[c].pc = "recheck" => frame[c].lease \in joined_flag
         /\ frame[c].pc # "reap_error"

\* Nothing comes back once shutdown has left its loop.
Closing == shutdown # NoShutdown \/ \E t \in Closers : frame[t].pc = "close"

ClosingOK ==
    /\ Closing => attempts = {} /\ \A w \in Seqs : workers[w] = "absent"
    /\ shutdown # NoShutdown =>
         /\ phase = "closed"
         /\ shutdown.active_operations = {} /\ shutdown.retained_tasks = {}
         /\ shutdown.expected_worker_ids = worker_history.joined
         /\ shutdown.joined_worker_ids = worker_history.joined
         /\ shutdown.state_poisoned => poisoned

WorkersInv == OwnersOK /\ LeasesOK /\ WorkersOK /\ LedgerOK /\ ReapersOK /\ ClosingOK

-----------------------------------------------------------------------------
(* Steps that leave the workers' records alone.                            *)

\* Whether s was admitted with reserve does not change while it is active.
Private(s) == ~entry[attempt[s].instance].explicit

PrivacyKept == \A s \in attempts : Private(s)' = Private(s)

\* Nothing is registered, joined or closed, and no owner loses its attempt.
Still ==
    /\ UNCHANGED <<next_sequence, workers, worker_history, exited_worker_ids, joined_flag,
                   shutdown, shared>>
    /\ attempts' \subseteq attempts
    /\ \A c \in Clients : Owning(frame[c]) /\ frame[c].lease \in attempts => frame[c].lease \in attempts'
    /\ phase' = phase \/ shutdown = NoShutdown
    /\ poisoned => poisoned'

\* A lease that a client may pick up.
Lent(s) == s = 0 \/ s \in shared \/ (s \in attempts /\ ~Private(s))

JoinLabels == {"reap_join", "reap_note"}

\* A frame goes from f to g: for any caller of reap_worker ...
CalmReaper(f, g) ==
    /\ (g.pc \in JoinLabels) = (f.pc \in JoinLabels)
    /\ g.pc \in JoinLabels => g.lease = f.lease
    /\ g.pc = "reap_note" => frame[g.lease].pc = "dead"

\* ... for a client ...
CalmClient(f, g) ==
    /\ f.pc \notin {"register", "rendezvous"}
    /\ g.lease = f.lease \/ Lent(g.lease)
    /\ Owning(g) =>
         /\ Owning(f) /\ g.lease = f.lease /\ ~Launched(g)
         /\ g.pc \in {"current", "body"} => g.method \in {"queue", "start"}
    /\ g.pc \in {"task", "joined_check", "reap_take"} => Known(g.lease)
    /\ g.pc = "recheck" => g.lease \in joined_flag
    /\ g.pc # "reap_error"

\* ... and for a worker that runs.
CalmWorker(f, g) == f.pc \notin {"unborn", "recv", "dead"} /\ g.pc \notin {"unborn", "recv", "dead"}

Calm(u, f, g) ==
    /\ u \in Callers => CalmReaper(f, g)
    /\ u \in Clients => CalmClient(f, g)
    /\ u \in Closers => (g.pc = "close" => f.pc = "close" \/ MayClose)
    /\ u \in Seqs => CalmWorker(f, g)

CalmFrames == \A u \in Threads : frame'[u] = frame[u] \/ Calm(u, frame[u], frame'[u])

\* The kinds of threads.
LEMMA Kinds ==
    /\ Clients \subseteq Threads /\ Closers \subseteq Threads /\ Seqs \subseteq Threads
    /\ Callers \subseteq Threads
    /\ \A c \in Clients : c \notin Closers /\ c \notin Seqs /\ c \in Callers
    /\ \A t \in Closers : t \notin Clients /\ t \notin Seqs /\ t \in Callers
    /\ \A w \in Seqs : w \notin Clients /\ w \notin Closers /\ w \notin Callers /\ w # 0
BY BoundsAssumption, ThreadsAssumption DEF Threads, Seqs, Callers

\* A calm step keeps the invariant.
LEMMA CalmStep ==
  ASSUME Typed, Typed', Registry, WorkersInv, PrivacyKept, Still, CalmFrames
  PROVE  WorkersInv'
<1> USE Kinds
<1>t. /\ attempts \subseteq Seqs /\ shared \subseteq Seqs
      /\ \A u \in Threads : frame[u].lease \in Seqs \cup {0} /\ frame'[u].lease \in Seqs \cup {0}
  BY DEF Typed, TypeOK, Frames
<1>1. OwnersOK'
  <2> SUFFICES ASSUME NEW c \in Clients, Owning(frame'[c])
               PROVE  LET s == frame'[c].lease IN
                      /\ s \in attempts' /\ s \notin shared' /\ ~entry'[attempt'[s].instance].explicit
                      /\ \A d \in Clients \ {c} : frame'[d].lease # s
                      /\ frame'[c].pc \in {"current", "body"} => frame'[c].method \in {"queue", "start"}
                      /\ frame'[s].pc = IF Launched(frame'[c]) THEN "recv" ELSE "unborn"
                      /\ frame'[c].pc = "register" => workers'[s] = "absent"
                      /\ frame'[c].pc = "rendezvous" => workers'[s] # "absent"
    BY DEF OwnersOK
  <2>1. /\ Owning(frame[c]) /\ frame'[c].lease = frame[c].lease
        /\ frame'[c].pc \in {"current", "body"} => frame'[c].method \in {"queue", "start"}
        /\ Launched(frame'[c]) = Launched(frame[c])
        /\ frame'[c].pc \in {"register", "rendezvous"} => frame'[c] = frame[c]
    <3>1. CASE frame'[c] = frame[c]
      BY <3>1 DEF WorkersInv, OwnersOK
    <3>2. CASE CalmClient(frame[c], frame'[c])
      BY <3>2 DEF CalmClient, Launched
    <3>3. QED BY <3>1, <3>2 DEF CalmFrames, Calm
  <2>s. PICK s : s = frame[c].lease
    OBVIOUS
  <2>2. /\ s \in attempts /\ s \notin shared /\ Private(s) /\ s \in Seqs
        /\ \A d \in Clients \ {c} : frame[d].lease # s
        /\ frame[s].pc = IF Launched(frame[c]) THEN "recv" ELSE "unborn"
        /\ frame[c].pc = "register" => workers[s] = "absent"
        /\ frame[c].pc = "rendezvous" => workers[s] # "absent"
    BY <1>t, <2>1, <2>s DEF WorkersInv, OwnersOK, Private
  <2>3. s \in attempts' /\ s \notin shared'
    BY <2>1, <2>2, <2>s DEF Still
  <2>4. ~entry'[attempt'[s].instance].explicit
    BY <2>2, <2>3 DEF PrivacyKept, Private
  <2>5. ASSUME NEW d \in Clients \ {c} PROVE frame'[d].lease # s
    <3>1. CASE frame'[d].lease = frame[d].lease
      BY <2>2, <3>1
    <3>2. CASE Lent(frame'[d].lease)
      BY <2>2, <3>2 DEF Lent
    <3>3. QED BY <3>1, <3>2 DEF CalmFrames, Calm, CalmClient
  <2>6. frame'[s] = frame[s]
    BY <2>2 DEF CalmFrames, Calm, CalmWorker
  <2>7. workers' = workers
    BY DEF Still
  <2>8. QED BY <2>1, <2>2, <2>3, <2>4, <2>5, <2>6, <2>7, <2>s
<1>2. LeasesOK'
  <2>1. \A s \in attempts : s < next_sequence
    BY <1>t DEF Registry, FreshOK, Typed, TypeOK, Seqs
  <2>2. 0 < next_sequence
    BY BoundsAssumption DEF Typed, TypeOK
  <2>3. ASSUME NEW c \in Clients PROVE frame'[c].lease < next_sequence
    <3>1. CASE frame'[c].lease = frame[c].lease
      BY <3>1 DEF WorkersInv, LeasesOK
    <3>2. CASE Lent(frame'[c].lease)
      BY <2>1, <2>2, <3>2 DEF Lent, WorkersInv, LeasesOK
    <3>3. QED BY <3>1, <3>2 DEF CalmFrames, Calm, CalmClient
  <2>4. QED BY <2>3 DEF WorkersInv, LeasesOK, Still
<1>3. WorkersOK'
  <2>1. \A w \in Seqs : frame'[w] = frame[w] \/ CalmWorker(frame[w], frame'[w])
    BY DEF CalmFrames, Calm
  <2>2. ASSUME NEW c \in Clients, Launched(frame[c]) PROVE frame'[c] = frame[c]
    BY <2>2 DEF CalmFrames, Calm, CalmClient, Launched
  <2>3. UNCHANGED <<workers, joined_flag, exited_worker_ids, next_sequence>>
    BY DEF Still
  <2> SUFFICES ASSUME NEW w \in Seqs
               PROVE /\ w >= next_sequence' => frame'[w].pc = "unborn"
                     /\ frame'[w].pc = "unborn" => workers'[w] = "absent"
                     /\ frame'[w].pc \notin {"unborn", "recv", "dead"} => workers'[w] # "absent"
                     /\ frame'[w].pc = "recv" =>
                         \E c \in Clients : Launched(frame'[c]) /\ frame'[c].lease = w
                     /\ w \in joined_flag' => frame'[w].pc = "dead" /\ workers'[w] = "absent"
                     /\ w \in exited_worker_ids' => workers'[w] # "absent"
    BY DEF WorkersOK
  <2>4. CASE frame'[w] = frame[w]
    BY <2>2, <2>3, <2>4 DEF WorkersInv, WorkersOK
  <2>5. CASE CalmWorker(frame[w], frame'[w])
    BY <2>3, <2>5 DEF WorkersInv, WorkersOK, CalmWorker
  <2>6. QED BY <2>1, <2>4, <2>5
<1>4. LedgerOK'
  BY DEF WorkersInv, LedgerOK, Still
<1>5. ReapersOK'
  <2>1. \A t \in Callers : frame'[t] = frame[t] \/ CalmReaper(frame[t], frame'[t])
    BY DEF CalmFrames, Calm
  <2>2. \A t \in Callers, w \in Seqs : Reaping(t, w)' <=> Reaping(t, w)
    BY <2>1 DEF Reaping, CalmReaper, JoinLabels
  <2>3. ASSUME NEW t \in Callers, frame'[t].pc = "reap_note"
        PROVE  frame'[frame'[t].lease].pc = "dead"
    <3>1. frame[frame'[t].lease].pc = "dead"
      BY <2>1, <2>3 DEF WorkersInv, ReapersOK, CalmReaper
    <3>2. frame'[t].lease \in Seqs
      BY <2>3 DEF Typed, FramesOK, GoodFrame, Bare
    <3>3. QED BY <3>1, <3>2 DEF CalmFrames, Calm, CalmWorker
  <2>5. ASSUME NEW c \in Clients
        PROVE  /\ frame'[c].pc \in {"task", "joined_check", "reap_take"} =>
                    workers'[frame'[c].lease] # "absent" \/ frame'[c].lease \in joined_flag'
               /\ frame'[c].pc = "recheck" => frame'[c].lease \in joined_flag'
               /\ frame'[c].pc # "reap_error"
    <3>1. CASE frame'[c] = frame[c]
      BY <3>1 DEF WorkersInv, ReapersOK, Known, Still
    <3>2. CASE CalmClient(frame[c], frame'[c])
      BY <3>2 DEF CalmClient, Known, Still
    <3>3. QED BY <3>1, <3>2 DEF CalmFrames, Calm
  <2>6. workers' = workers
    BY DEF Still
  <2>7. (\A w \in Seqs : (workers[w] = "taken") <=> \E t \in Callers : Reaping(t, w))'
    BY <2>2, <2>6 DEF WorkersInv, ReapersOK
  <2>8. (\A t, u \in Callers, w \in Seqs : Reaping(t, w) /\ Reaping(u, w) => t = u)'
    BY <2>2 DEF WorkersInv, ReapersOK
  <2>9. QED BY <2>3, <2>5, <2>7, <2>8 DEF ReapersOK, Known
<1>6. ClosingOK'
  <2>1. ASSUME Closing' PROVE attempts = {} /\ \A w \in Seqs : workers[w] = "absent"
    <3>1. CASE Closing
      BY <3>1 DEF WorkersInv, ClosingOK
    <3>2. CASE ~Closing
      <4>1. shutdown' = NoShutdown
        BY <3>2 DEF Closing, Still
      <4>2. PICK t \in Closers : frame'[t].pc = "close"
        BY <2>1, <4>1 DEF Closing
      <4>3. MayClose
        BY <3>2, <4>2 DEF Closing, CalmFrames, Calm
      <4>4. QED BY <4>3 DEF MayClose, WorkersInv, LedgerOK
    <3>3. QED BY <3>1, <3>2
  <2>2. UNCHANGED <<workers, shutdown, worker_history>> /\ attempts' \subseteq attempts
    BY DEF Still
  <2>3. ASSUME shutdown' # NoShutdown
        PROVE  /\ phase' = "closed"
               /\ shutdown'.active_operations = {} /\ shutdown'.retained_tasks = {}
               /\ shutdown'.expected_worker_ids = worker_history'.joined
               /\ shutdown'.joined_worker_ids = worker_history'.joined
               /\ shutdown'.state_poisoned => poisoned'
    BY <2>2, <2>3 DEF WorkersInv, ClosingOK, Still
  <2>4. QED BY <2>1, <2>2, <2>3 DEF ClosingOK
<1>7. QED BY <1>1, <1>2, <1>3, <1>4, <1>5, <1>6 DEF WorkersInv

-----------------------------------------------------------------------------
(* The calm steps.                                                         *)

\* What a move leaves in a frame.
LEMMA MovedFields ==
  ASSUME NEW f \in Frames, NEW target \in Labels \cup Methods
  PROVE  LET g == Moved(f, target) IN
         /\ target = "idle" => g.pc = "idle" /\ g.lease = 0
         /\ target \in Labels \ {"idle"} =>
              g.pc = target /\ g.lease = f.lease /\ g.program = f.program /\ g.method = f.method
         /\ target \in Methods =>
              g.pc = "current" /\ g.lease = f.lease /\ g.program = f.program /\ g.method = target
BY DEF Moved, Frames, NewFrame, Labels, Methods

\* One thread gets a new frame.
LEMMA CalmOne ==
  ASSUME Typed, NEW t \in Threads, NEW g, SetFrame(t, g), Calm(t, frame[t], g)
  PROVE  CalmFrames
<1>1. frame'[t] = g /\ \A u \in Threads \ {t} : frame'[u] = frame[u]
  BY DEF SetFrame, Typed, TypeOK
<1>2. QED BY <1>1 DEF CalmFrames

\* A client goes idle, from anywhere but the end of a spawn or inside a join.
LEMMA CalmIdle ==
  ASSUME Typed, NEW c \in Clients, Goto(c, "idle"),
         frame[c].pc \notin {"register", "rendezvous", "reap_join", "reap_note"}
  PROVE  CalmFrames
<1>1. SetFrame(c, NewFrame("idle"))
  BY DEF Goto, Moved
<1> DEFINE g == NewFrame("idle")
<1>2. g.pc = "idle" /\ g.lease = 0
  BY DEF NewFrame
<1> HIDE DEF g
<1>3. Calm(c, frame[c], g)
  BY <1>2, Kinds DEF Calm, CalmReaper, CalmClient, JoinLabels, Lent, Owning
<1>4. QED BY <1>1, <1>3, Kinds, CalmOne DEF g

\* A client goes to a label of which nothing but the lease matters.
LEMMA CalmGoto ==
  ASSUME Typed, NEW c \in Clients, NEW label, Goto(c, label),
         label \in {"rollback", "body", "retire", "joined_check", "reap_take", "recheck", "reap_note", "launch"},
         frame[c].pc \notin {"register", "rendezvous"},
         (label = "reap_note") = (frame[c].pc \in JoinLabels),
         label = "reap_note" => frame[frame[c].lease].pc = "dead",
         label \in {"joined_check", "reap_take"} => Known(frame[c].lease),
         label = "recheck" => frame[c].lease \in joined_flag,
         label \in {"body", "launch"} /\ frame[c].program = "spawn" =>
            Owning(frame[c]) /\ (label = "body" => frame[c].method \in {"queue", "start"}),
         label = "launch" => frame[c].program = "spawn"
  PROVE  CalmFrames
<1> DEFINE g == Moved(frame[c], label)
<1>1. SetFrame(c, g) /\ frame[c] \in Frames /\ c \in Threads
  BY FrameIsGood, Kinds DEF Goto
<1>2. /\ g.pc = label /\ g.lease = frame[c].lease /\ g.program = frame[c].program
      /\ g.method = frame[c].method
  BY <1>1, MovedFields DEF Labels
<1> HIDE DEF g
<1>3. CalmReaper(frame[c], g)
  BY <1>2 DEF CalmReaper, JoinLabels
<1>4. CalmClient(frame[c], g)
  <2>1. Owning(g) => /\ Owning(frame[c]) /\ ~Launched(g)
                     /\ g.pc \in {"current", "body"} => g.method \in {"queue", "start"}
    BY <1>2 DEF Owning, Launched
  <2>2. QED BY <1>2, <2>1 DEF CalmClient
<1>5. Calm(c, frame[c], g)
  BY <1>3, <1>4, Kinds DEF Calm
<1>6. QED BY <1>1, <1>5, CalmOne

\* A method on a lease returns to its caller.
LEMMA CalmReturn ==
  ASSUME Typed, WorkersInv, NEW t \in Clients \cup Seqs, NEW ok \in BOOLEAN, Return(t, ok),
         frame[t].pc \in {"current", "body", "retire"}
  PROVE  CalmFrames
<1> DEFINE f == frame[t]
           k == IF ok THEN AfterOk(f.program, f.method) ELSE AfterErr(f.program, f.method)
           g == Moved(f, k)
<1>1. t \in Threads /\ f \in Frames /\ GoodFrame(t, f) /\ SetFrame(t, g)
  BY Kinds, FrameIsGood DEF Return, Goto
<1>2. CASE t \in Seqs
  <2>1. f.program = "worker" /\ t \notin Callers /\ t \notin Clients /\ t \notin Closers
    BY <1>1, <1>2, Kinds DEF GoodFrame
  <2>2. k \in {"send", "exit"}
    BY <2>1 DEF AfterOk, AfterErr
  <2>3. g.pc = k
    BY <1>1, <2>2, MovedFields DEF Labels
  <2> HIDE DEF g, k
  <2>4. Calm(t, f, g)
    BY <2>1, <2>2, <2>3 DEF Calm, CalmWorker
  <2>5. QED BY <1>1, <2>4, CalmOne
<1>3. CASE t \in Clients
  <2>1. f.program # "worker"
    BY <1>1, <1>3 DEF GoodFrame
  <2>2. CASE k = "idle"
    BY <1>3, <2>2, CalmIdle DEF Return
  <2>3. CASE k = "launch"
    <3>1. f.program = "spawn" /\ f.method = "start"
      BY <2>1, <2>3 DEF AfterOk, AfterErr
    <3>2. f.pc \in {"current", "body"}
      BY <1>1, <3>1 DEF GoodFrame
    <3>3. Owning(f) /\ Goto(t, "launch")
      BY <2>3, <3>1, <3>2 DEF Owning, Return
    <3>4. QED BY <1>3, <3>1, <3>2, <3>3, CalmGoto DEF JoinLabels
  <2>4. CASE k \in Methods
    <3>1. /\ g.pc = "current" /\ g.lease = f.lease /\ g.program = f.program /\ g.method = k
      BY <1>1, <2>4, MovedFields
    <3>2. f.method # "release"
      BY <2>1, <2>4 DEF AfterOk, AfterErr, Methods
    <3>3. f.pc \in {"current", "body"}
      BY <1>1, <3>2 DEF GoodFrame
    <3>4. f.program = "spawn" => Owning(f) /\ f.method \in {"queue", "start"}
      BY <1>3, <3>3 DEF Owning, WorkersInv, OwnersOK
    <3>5. f.program = "spawn" => k = "start"
      BY <2>4, <3>4 DEF AfterOk, AfterErr, Methods
    <3> HIDE DEF g, k
    <3>6. CalmReaper(f, g)
      BY <3>1 DEF CalmReaper, JoinLabels
    <3>7. CalmClient(f, g)
      <4>1. Owning(g) => Owning(f) /\ g.method \in {"queue", "start"}
        BY <3>1, <3>4, <3>5 DEF Owning
      <4>2. QED BY <3>1, <4>1 DEF CalmClient, Launched
    <3>8. Calm(t, f, g)
      BY <1>3, <3>6, <3>7, Kinds DEF Calm
    <3>9. QED BY <1>1, <3>8, CalmOne
  <2>5. k \in Methods \cup {"idle", "launch"}
    BY <2>1 DEF AfterOk, AfterErr, Methods
  <2>6. QED BY <2>2, <2>3, <2>4, <2>5
<1>4. QED BY <1>2, <1>3

\* What most steps leave alone.
Apart == UNCHANGED <<registryVars, workerVars, shutdown, poisoned, shared>>

LEMMA ApartStill == Apart => Still
BY DEF Apart, Still, registryVars, workerVars

\* The sections of the methods on a lease.
LEMMA CalmLease ==
  ASSUME Typed, WorkersInv, NEW t \in Clients \cup Seqs, LeaseStep(t)
  PROVE  Still /\ CalmFrames
<1>t. t \in Threads /\ GoodFrame(t, frame[t]) /\ frame[t] \in Frames
  BY Kinds, FrameIsGood
\* Control moves inside the method.
<1>g. ASSUME NEW label \in {"body", "retire"}, Goto(t, label), frame[t].pc \in {"current", "body"}
      PROVE  CalmFrames
  <2>1. CASE t \in Clients
    <3>1. frame[t].program = "spawn" => Owning(frame[t]) /\ frame[t].method \in {"queue", "start"}
      BY <1>g, <2>1 DEF Owning, WorkersInv, OwnersOK
    <3>2. QED BY <1>g, <2>1, <3>1, CalmGoto DEF JoinLabels
  <2>2. CASE t \in Seqs
    <3> DEFINE g == Moved(frame[t], label)
    <3>1. g.pc = label /\ SetFrame(t, g)
      BY <1>t, <1>g, MovedFields DEF Labels, Goto
    <3> HIDE DEF g
    <3>2. Calm(t, frame[t], g)
      BY <1>g, <2>2, <3>1, Kinds DEF Calm, CalmWorker
    <3>3. QED BY <1>t, <3>1, <3>2, CalmOne
  <2>3. QED BY <2>1, <2>2
<1>1. CASE RequireCurrent(t)
  <2>1. Apart /\ frame[t].pc = "current" /\ (Goto(t, "body") \/ Return(t, FALSE))
    BY <1>1 DEF RequireCurrent, Apart, At
  <2>2. PICK no \in BOOLEAN : no = FALSE
    OBVIOUS
  <2>3. Goto(t, "body") \/ Return(t, no)
    BY <2>1, <2>2
  <2>4. QED BY <1>g, <2>1, <2>3, CalmReturn, ApartStill
<1>2. CASE Queue(t) \/ Start(t)
  <2>1. PICK ok \in BOOLEAN : Return(t, ok) /\ frame[t].pc = "body" /\ Apart
    BY <1>2 DEF Queue, Start, Transition, In, At, Apart
  <2>2. QED BY <2>1, CalmReturn, ApartStill
<1>3. CASE PublishProgress(t)
  <2>1. PICK ok \in BOOLEAN : Return(t, ok) /\ frame[t].pc = "body" /\ Apart
    BY <1>3 DEF PublishProgress, AcceptsOutcome, In, At, Apart
  <2>2. QED BY <2>1, CalmReturn, ApartStill
<1>4. CASE Terminal(t)
  <2>1. PICK ok \in BOOLEAN : Return(t, ok) /\ frame[t].pc = "body" /\ Apart
    BY <1>4 DEF Terminal, AcceptsOutcome, IsTerminal, In, At, Apart
  <2>2. QED BY <2>1, CalmReturn, ApartStill
<1>5. CASE Release(t)
  <2>1. Apart /\ frame[t].pc = "body" /\ (Goto(t, "retire") \/ Return(t, FALSE))
    BY <1>5 DEF Release, Apart, In, At
  <2>2. PICK no \in BOOLEAN : no = FALSE
    OBVIOUS
  <2>3. Goto(t, "retire") \/ Return(t, no)
    BY <2>1, <2>2
  <2>4. QED BY <1>g, <2>1, <2>3, CalmReturn, ApartStill
<1>6. CASE Retire(t)
  <2>1. /\ frame[t].pc = "retire" /\ (Return(t, TRUE) \/ Return(t, FALSE))
        /\ attempts' = attempts \ {frame[t].lease}
        /\ UNCHANGED <<phase, next_sequence, workerVars, shutdown, poisoned, shared>>
    BY <1>6 DEF Retire, At
  <2>2. PICK ok \in BOOLEAN : Return(t, ok)
    BY <2>1
  <2>3. CalmFrames
    BY <2>1, <2>2, CalmReturn
  <2>4. ASSUME NEW c \in Clients, Owning(frame[c]) PROVE frame[c].lease # frame[t].lease
    <3>1. CASE t \in Clients
      <4>1. c # t
        BY <2>1, <2>4 DEF Owning
      <4>2. QED BY <2>4, <3>1, <4>1 DEF WorkersInv, OwnersOK
    <3>2. CASE t \in Seqs
      <4>1. frame[t].lease = t
        BY <1>t, <2>1, <3>2 DEF GoodFrame
      <4>2. frame[frame[c].lease].pc \in {"recv", "unborn"}
        BY <2>4 DEF WorkersInv, OwnersOK
      <4>3. QED BY <2>1, <4>1, <4>2
    <3>3. QED BY <3>1, <3>2
  <2>5. Still
    BY <2>1, <2>4 DEF Still, workerVars
  <2>6. QED BY <2>3, <2>5
<1>7. QED BY <1>1, <1>2, <1>3, <1>4, <1>5, <1>6 DEF LeaseStep

\* A step that leaves the frames alone is calm.
LEMMA CalmSame == UNCHANGED frame => CalmFrames
BY DEF CalmFrames

\* The calls a client begins, but the admission of an attempt.
LEMMA CalmCall ==
  ASSUME Typed, Registry, WorkersInv, NEW c \in Clients,
         \/ \E id \in Ids : ReserveCreate(c, id) \/ CreateOperation(c, id)
         \/ \E i \in Instances : FinishOperation(c, i) \/ RequestOperationCancel(c, i)
         \/ \E s \in Seqs : FinishAttempt(c, s)
         \/ \E s \in Seqs, m \in Methods, k \in TerminalClasses : CallShared(c, s, m, k)
  PROVE  Still /\ CalmFrames
<1>t. c \in Threads /\ frame[c] \in Frames
  BY Kinds, FrameIsGood
\* An idle client gets a frame that does not own its lease.
<1>n. ASSUME NEW g, SetFrame(c, g), At(c, "idle"), Lent(g.lease), g.pc \in {"create", "cancel_sweep", "current"},
             g.program # "spawn"
      PROVE  CalmFrames
  <2>1. CalmReaper(frame[c], g)
    BY <1>n DEF CalmReaper, JoinLabels, At
  <2>2. CalmClient(frame[c], g)
    BY <1>n DEF CalmClient, Owning, At
  <2>3. Calm(c, frame[c], g)
    BY <2>1, <2>2, Kinds DEF Calm
  <2>4. QED BY <1>t, <1>n, <2>3, CalmOne
<1>1. CASE \E id \in Ids : ReserveCreate(c, id)
  <2> DEFINE g == [NewFrame("create") EXCEPT !.instance = next_instance]
  <2>1. SetFrame(c, g) /\ At(c, "idle")
    BY <1>1 DEF ReserveCreate
  <2>2. g.lease = 0 /\ g.pc = "create" /\ g.program = "none"
    BY DEF NewFrame
  <2> HIDE DEF g
  <2>3. CalmFrames
    BY <1>n, <2>1, <2>2 DEF Lent
  <2>4. Still
    BY <1>1 DEF ReserveCreate, Still, workerVars
  <2>5. QED BY <2>3, <2>4
<1>2. CASE \E id \in Ids : CreateOperation(c, id)
  BY <1>2, CalmSame DEF CreateOperation, Still, workerVars
<1>3. CASE \E i \in Instances : FinishOperation(c, i)
  BY <1>3, CalmSame DEF FinishOperation, Still, workerVars
<1>4. ASSUME NEW i \in Instances, RequestOperationCancel(c, i) PROVE Still /\ CalmFrames
  <2> DEFINE g == [NewFrame("cancel_sweep") EXCEPT !.sweep = entry[i].attempts]
  <2>1. SetFrame(c, g) /\ At(c, "idle")
    BY <1>4 DEF RequestOperationCancel
  <2>2. g.lease = 0 /\ g.pc = "cancel_sweep" /\ g.program = "none"
    BY DEF NewFrame
  <2> HIDE DEF g
  <2>3. CalmFrames
    BY <1>n, <2>1, <2>2 DEF Lent
  <2>4. Still
    BY <1>4 DEF RequestOperationCancel, Still, workerVars
  <2>5. QED BY <2>3, <2>4
<1>5. ASSUME NEW s \in Seqs, FinishAttempt(c, s) PROVE Still /\ CalmFrames
  <2> DEFINE g == [NewFrame("current") EXCEPT
                      !.program = "attempt", !.method = "terminal", !.lease = s,
                      !.class = IF CancellationRequested(attempt[s].control)
                                  THEN "cancelled" ELSE "completed"]
  <2>1. SetFrame(c, g) /\ At(c, "idle") /\ s \in attempts /\ ~Private(s)
    BY <1>5 DEF FinishAttempt, Private
  <2>2. g.lease = s /\ g.pc = "current" /\ g.program = "attempt"
    BY DEF NewFrame
  <2> HIDE DEF g
  <2>3. CalmFrames
    BY <1>n, <2>1, <2>2 DEF Lent
  <2>4. Apart
    BY <1>5 DEF FinishAttempt, Apart
  <2>5. QED BY <2>3, <2>4, ApartStill
<1>6. ASSUME NEW s \in Seqs, NEW m \in Methods, NEW k \in TerminalClasses, CallShared(c, s, m, k)
      PROVE  Still /\ CalmFrames
  <2> DEFINE g == [NewFrame("current") EXCEPT !.program = "call", !.method = m,
                                              !.lease = s, !.class = k]
  <2>1. SetFrame(c, g) /\ At(c, "idle") /\ s \in shared
    BY <1>6 DEF CallShared
  <2>2. g.lease = s /\ g.pc = "current" /\ g.program = "call"
    BY DEF NewFrame
  <2> HIDE DEF g
  <2>3. CalmFrames
    BY <1>n, <2>1, <2>2 DEF Lent
  <2>4. Apart
    BY <1>6 DEF CallShared, Apart
  <2>5. QED BY <2>3, <2>4, ApartStill
<1>7. QED BY <1>1, <1>2, <1>3, <1>4, <1>5, <1>6

\* The frames of a reservation that is spawned or finished.
LEMMA CalmSpawn ==
  ASSUME Typed, WorkersInv, NEW c \in Clients, NEW g, SetFrame(c, g),
         frame[c].pc \in {"reserved", "launch"}, g.lease = frame[c].lease, g.pc = "current",
         g.program = "spawn" => g.method \in {"queue", "start"}
  PROVE  CalmFrames
<1>1. CalmReaper(frame[c], g)
  BY DEF CalmReaper, JoinLabels
<1>2. CalmClient(frame[c], g)
  BY DEF CalmClient, Owning, Launched
<1>3. Calm(c, frame[c], g)
  BY <1>1, <1>2, Kinds DEF Calm
<1>4. QED BY <1>3, Kinds, CalmOne

\* What a client does with a reservation or a task, but the start of a worker.
LEMMA CalmProgress ==
  ASSUME Typed, Registry, WorkersInv, NEW c \in Clients,
         \/ ReserveAttempt(c) /\ ~MayStartAttempt(frame[c].instance)
         \/ ReserveRollback(c) \/ Spawn(c) \/ (\E k \in TerminalClasses : FinishReservation(c, k))
         \/ Launch(c) /\ SetFrame(c, [frame[c] EXCEPT !.pc = "current", !.method = "terminal",
                                                      !.program = "start_failed"])
         \/ JoinedCheck(c) \/ Recheck(c) \/ AwaitResult(c) \/ DropTask(c)
  PROVE  Still /\ CalmFrames
<1>t. c \in Threads /\ frame[c] \in Frames
  BY Kinds, FrameIsGood
<1>1. CASE ReserveAttempt(c) /\ ~MayStartAttempt(frame[c].instance)
  <2>1. Goto(c, "rollback") /\ frame[c].pc = "create"
    BY <1>1 DEF ReserveAttempt, At
  <2>2. CalmFrames
    BY <2>1, CalmGoto DEF JoinLabels
  <2>3. Still
    BY <1>1 DEF ReserveAttempt, Still, workerVars
  <2>4. QED BY <2>2, <2>3
<1>2. CASE ReserveRollback(c)
  <2>1. CalmFrames
    BY <1>2, CalmIdle DEF ReserveRollback, At
  <2>2. Still
    BY <1>2 DEF ReserveRollback, Still, workerVars
  <2>3. QED BY <2>1, <2>2
<1>3. CASE Spawn(c)
  <2> DEFINE g == [frame[c] EXCEPT !.pc = "current", !.method = "queue",
                                   !.program = IF poisoned THEN "refuse" ELSE "spawn"]
  <2>1. SetFrame(c, g) /\ frame[c].pc = "reserved" /\ Apart
    BY <1>3 DEF Spawn, At, Apart
  <2>2. g.lease = frame[c].lease /\ g.pc = "current" /\ g.method = "queue"
    BY <1>t DEF Frames
  <2> HIDE DEF g
  <2>3. QED BY <2>1, <2>2, CalmSpawn, ApartStill
<1>4. ASSUME NEW k \in TerminalClasses, FinishReservation(c, k) PROVE Still /\ CalmFrames
  <2> DEFINE g == [frame[c] EXCEPT !.pc = "current", !.method = "queue",
                                   !.program = "finish", !.class = k]
  <2>1. SetFrame(c, g) /\ frame[c].pc = "reserved" /\ Apart
    BY <1>4 DEF FinishReservation, At, Apart
  <2>2. g.lease = frame[c].lease /\ g.pc = "current" /\ g.method = "queue"
    BY <1>t DEF Frames
  <2> HIDE DEF g
  <2>3. QED BY <2>1, <2>2, CalmSpawn, ApartStill
<1>5. CASE Launch(c) /\ SetFrame(c, [frame[c] EXCEPT !.pc = "current", !.method = "terminal",
                                                     !.program = "start_failed"])
  <2> DEFINE g == [frame[c] EXCEPT !.pc = "current", !.method = "terminal",
                                   !.program = "start_failed"]
  <2>1. SetFrame(c, g) /\ frame[c].pc = "launch" /\ Apart
    BY <1>5 DEF Launch, At, Apart
  <2>2. g.lease = frame[c].lease /\ g.pc = "current" /\ g.program = "start_failed"
    BY <1>t DEF Frames
  <2> HIDE DEF g
  <2>3. QED BY <2>1, <2>2, CalmSpawn, ApartStill
<1>6. CASE JoinedCheck(c)
  <2>1. frame[c].pc = "joined_check" /\ Apart /\ Known(frame[c].lease)
    BY <1>6 DEF JoinedCheck, At, Apart, WorkersInv, ReapersOK
  <2>2. Goto(c, "idle") \/ Goto(c, "reap_take")
    BY <1>6 DEF JoinedCheck
  <2>3. QED BY <2>1, <2>2, CalmIdle, CalmGoto, ApartStill DEF JoinLabels
<1>7. CASE Recheck(c)
  <2>1. frame[c].pc = "recheck" /\ Apart /\ frame[c].lease \in joined_flag
    BY <1>7 DEF Recheck, At, Apart, WorkersInv, ReapersOK
  <2>2. Goto(c, "idle")
    BY <1>7, <2>1 DEF Recheck
  <2>3. QED BY <2>1, <2>2, CalmIdle, ApartStill
<1>8. CASE AwaitResult(c)
  <2>1. frame[c].pc = "task" /\ Apart /\ Known(frame[c].lease)
    BY <1>8 DEF AwaitResult, At, Apart, WorkersInv, ReapersOK
  <2>2. Goto(c, "idle") \/ Goto(c, "joined_check")
    BY <1>8 DEF AwaitResult
  <2>3. QED BY <2>1, <2>2, CalmIdle, CalmGoto, ApartStill DEF JoinLabels
<1>9. CASE DropTask(c)
  <2>1. frame[c].pc = "task" /\ Apart /\ Goto(c, "idle")
    BY <1>9 DEF DropTask, At, Apart
  <2>2. QED BY <2>1, CalmIdle, ApartStill
<1>10. QED BY <1>1, <1>2, <1>3, <1>4, <1>5, <1>6, <1>7, <1>8, <1>9

\* A closer goes to a label at which it joins nobody.
LEMMA CalmCloserGoto ==
  ASSUME Typed, NEW t \in Closers, NEW g, SetFrame(t, g), frame[t].pc \notin JoinLabels,
         g.pc \notin JoinLabels, g.pc = "close" => MayClose
  PROVE  CalmFrames
<1>1. CalmReaper(frame[t], g)
  <2>1. g.pc # "reap_note"
    BY DEF JoinLabels
  <2>2. QED BY <2>1 DEF CalmReaper
<1>2. Calm(t, frame[t], g)
  BY <1>1, Kinds DEF Calm
<1>3. QED BY <1>2, Kinds, CalmOne

\* reap_worker, when it finds no handle or waits for the thread.
LEMMA CalmReap ==
  ASSUME Typed, WorkersInv, NEW t \in Callers,
         ReapJoin(t) \/ (ReapTake(t) /\ UNCHANGED workers)
  PROVE  Still /\ CalmFrames
<1>t. t \in Threads /\ frame[t] \in Frames
  BY Kinds, FrameIsGood
<1>1. CASE ReapJoin(t)
  <2>1. /\ frame[t].pc = "reap_join" /\ frame[frame[t].lease].pc = "dead" /\ Apart
        /\ Goto(t, "reap_note")
    BY <1>1 DEF ReapJoin, At, Apart
  <2> DEFINE g == Moved(frame[t], "reap_note")
  <2>2. g.pc = "reap_note" /\ g.lease = frame[t].lease /\ SetFrame(t, g)
    BY <1>t, <2>1, MovedFields DEF Labels, Goto
  <2> HIDE DEF g
  <2>3. Calm(t, frame[t], g)
    BY <2>1, <2>2, Kinds DEF Calm, CalmReaper, CalmClient, JoinLabels, Owning, Callers
  <2>4. QED BY <1>t, <2>1, <2>2, <2>3, CalmOne, ApartStill
<1>2. CASE ReapTake(t) /\ UNCHANGED workers
  <2>1. frame[t].pc = "reap_take" /\ frame[t].lease \in Seqs
    BY <1>2, <1>t, FrameIsGood DEF ReapTake, At, GoodFrame, Bare
  <2>2. Apart
    BY <1>2 DEF ReapTake, Apart, workerVars
  <2>3. CASE UNCHANGED frame
    BY <2>2, <2>3, CalmSame, ApartStill
  <2>4. CASE workers[frame[t].lease] = "joinable"
    <3>1. workers'[frame[t].lease] = "taken"
      BY <1>2, <2>1, <2>4 DEF ReapTake, Typed, TypeOK
    <3>2. QED BY <1>2, <2>4, <3>1
  <2>5. CASE workers[frame[t].lease] = "absent" /\ Goto(t, AfterReap(t, WasJoined(worker_history, frame[t].lease)))
    <3>1. CASE t \in Closers
      <4>1. Goto(t, "drain")
        BY <2>5, <3>1 DEF AfterReap
      <4> DEFINE g == Moved(frame[t], "drain")
      <4>2. g.pc = "drain" /\ SetFrame(t, g)
        BY <1>t, <4>1, MovedFields DEF Labels, Goto
      <4> HIDE DEF g
      <4>3. QED BY <2>1, <2>2, <3>1, <4>2, CalmCloserGoto, ApartStill DEF JoinLabels
    <3>2. CASE t \in Clients
      <4>1. frame[t].lease \in joined_flag
        BY <2>1, <2>5, <3>2 DEF WorkersInv, ReapersOK, Known
      <4>2. Goto(t, "idle") \/ Goto(t, "recheck")
        BY <2>5, <3>2, Kinds DEF AfterReap
      <4>3. QED BY <2>1, <2>2, <3>2, <4>1, <4>2, CalmIdle, CalmGoto, ApartStill DEF JoinLabels
    <3>3. QED BY <3>1, <3>2 DEF Callers
  <2>6. QED BY <1>2, <2>3, <2>4, <2>5 DEF ReapTake
<1>3. QED BY <1>1, <1>2

\* The sweeps of a cancel and a quiesce, a closer's steps but close, and a
\* worker's but its exit.
LEMMA CalmRest ==
  ASSUME Typed, WorkersInv,
         \/ \E t \in Callers : SweepStep(t)
         \/ \E t \in Closers : BeginQuiesce(t) \/ CachedOutcome(t) \/ Drain(t)
         \/ \E w \in Seqs : \/ \E outcome \in {"ok", "err", "panic"} : RunOperation(w, outcome)
                            \/ Send(w) \/ RequestCancel(w)
         \/ Poison \/ (\E t \in Threads : SpuriousWake(t)) \/ UNCHANGED vars
  PROVE  Still /\ CalmFrames
<1>1. ASSUME NEW t \in Callers, SweepStep(t) PROVE Still /\ CalmFrames
  <2>t. t \in Threads /\ frame[t] \in Frames /\ frame[t].pc = "cancel_sweep" /\ Apart
    BY <1>1, Kinds, FrameIsGood DEF SweepStep, CancelSweep, CancelSweepDone, At, Apart
  <2>1. ASSUME NEW s \in Seqs, CancelSweep(t, s) PROVE CalmFrames
    <3> DEFINE g == [frame[t] EXCEPT !.sweep = @ \ {s}]
    <3>1. SetFrame(t, g)
      BY <2>1 DEF CancelSweep
    <3>2. g.pc = "cancel_sweep" /\ g.lease = frame[t].lease
      BY <2>t DEF Frames
    <3> HIDE DEF g
    <3>3. Calm(t, frame[t], g)
      BY <2>t, <3>2, Kinds DEF Calm, CalmReaper, CalmClient, JoinLabels, Owning, Callers
    <3>4. QED BY <2>t, <3>1, <3>3, CalmOne
  <2>2. CASE CancelSweepDone(t)
    <3>1. CASE t \in Clients
      BY <2>2, <2>t, <3>1, Kinds, CalmIdle, ApartStill DEF CancelSweepDone
    <3>2. CASE t \in Closers
      <4> DEFINE g == Moved(frame[t], "cached")
      <4>1. SetFrame(t, g)
        BY <2>2, <3>2, Kinds DEF CancelSweepDone, Goto
      <4>2. g.pc = "cached"
        BY <2>t, MovedFields DEF Labels
      <4> HIDE DEF g
      <4>3. QED BY <2>t, <3>2, <4>1, <4>2, CalmCloserGoto, ApartStill DEF JoinLabels
    <3>3. QED BY <3>1, <3>2 DEF Callers
  <2>3. QED BY <1>1, <2>t, <2>1, <2>2, ApartStill DEF SweepStep
<1>2. ASSUME NEW t \in Closers, BeginQuiesce(t) PROVE Still /\ CalmFrames
  <2>t. t \in Threads /\ frame[t] \in Frames /\ frame[t].pc = "idle"
    BY <1>2, Kinds, FrameIsGood DEF BeginQuiesce, At
  <2>1. Still
    <3>1. phase # "closed" => shutdown = NoShutdown
      BY DEF WorkersInv, ClosingOK
    <3>2. QED BY <1>2, <3>1 DEF BeginQuiesce, Still, workerVars
  <2>2. PICK g : SetFrame(t, g) /\ g.pc \in {"cached", "cancel_sweep"}
    <3> DEFINE g == Moved(frame[t], "cached")
               h == [NewFrame("cancel_sweep") EXCEPT !.sweep = attempts]
    <3>1. g.pc = "cached" /\ h.pc = "cancel_sweep"
      BY <2>t, MovedFields DEF Labels, NewFrame
    <3>2. SetFrame(t, g) \/ SetFrame(t, h)
      BY <1>2 DEF BeginQuiesce, Goto
    <3> HIDE DEF g, h
    <3>3. QED BY <3>1, <3>2
  <2>3. QED BY <2>t, <2>1, <2>2, CalmCloserGoto DEF JoinLabels
<1>3. ASSUME NEW t \in Closers, CachedOutcome(t) PROVE Still /\ CalmFrames
  <2>t. t \in Threads /\ frame[t] \in Frames /\ frame[t].pc = "cached" /\ Apart
    BY <1>3, Kinds, FrameIsGood DEF CachedOutcome, At, Apart
  <2>1. PICK k \in {"drain", "returned"} : Goto(t, k)
    BY <1>3 DEF CachedOutcome
  <2> DEFINE g == Moved(frame[t], k)
  <2>2. g.pc = k /\ SetFrame(t, g)
    BY <2>t, <2>1, MovedFields DEF Labels, Goto
  <2> HIDE DEF g
  <2>3. QED BY <2>t, <2>2, CalmCloserGoto, ApartStill DEF JoinLabels
<1>4. ASSUME NEW t \in Closers, Drain(t) PROVE Still /\ CalmFrames
  <2>t. t \in Threads /\ frame[t] \in Frames /\ frame[t].pc = "drain" /\ Apart
    BY <1>4, Kinds, FrameIsGood DEF Drain, At, Apart
  <2>1. CASE UNCHANGED frame
    BY <2>t, <2>1, CalmSame, ApartStill
  <2>2. CASE MayClose /\ Goto(t, "close")
    <3> DEFINE g == Moved(frame[t], "close")
    <3>1. g.pc = "close" /\ SetFrame(t, g)
      BY <2>t, <2>2, MovedFields DEF Labels, Goto
    <3> HIDE DEF g
    <3>2. QED BY <2>t, <2>2, <3>1, CalmCloserGoto, ApartStill DEF JoinLabels
  <2>3. ASSUME NEW w, SetFrame(t, [frame[t] EXCEPT !.pc = "reap_take", !.lease = w])
        PROVE  CalmFrames
    <3> DEFINE g == [frame[t] EXCEPT !.pc = "reap_take", !.lease = w]
    <3>1. g.pc = "reap_take" /\ SetFrame(t, g)
      BY <2>t, <2>3 DEF Frames
    <3> HIDE DEF g
    <3>2. QED BY <2>t, <3>1, CalmCloserGoto DEF JoinLabels
  <2>4. QED BY <1>4, <2>t, <2>1, <2>2, <2>3, ApartStill DEF Drain
<1>5. ASSUME NEW w \in Seqs, NEW outcome \in {"ok", "err", "panic"}, RunOperation(w, outcome)
      PROVE  Still /\ CalmFrames
  <2>t. w \in Threads /\ frame[w] \in Frames /\ frame[w].pc = "run" /\ Apart
    BY <1>5, Kinds, FrameIsGood DEF RunOperation, At, Apart
  <2>1. PICK k : SetFrame(w, [frame[w] EXCEPT !.pc = "current", !.method = "terminal", !.class = k])
    BY <1>5 DEF RunOperation
  <2> DEFINE g == [frame[w] EXCEPT !.pc = "current", !.method = "terminal", !.class = k]
  <2>2. g.pc = "current" /\ SetFrame(w, g)
    BY <2>t, <2>1 DEF Frames
  <2> HIDE DEF g
  <2>3. Calm(w, frame[w], g)
    BY <2>t, <2>2, Kinds DEF Calm, CalmWorker
  <2>4. QED BY <2>t, <2>2, <2>3, CalmOne, ApartStill
<1>6. ASSUME NEW w \in Seqs, Send(w) PROVE Still /\ CalmFrames
  <2>t. w \in Threads /\ frame[w] \in Frames /\ frame[w].pc = "send" /\ Apart
    BY <1>6, Kinds, FrameIsGood DEF Send, At, Apart
  <2> DEFINE g == Moved(frame[w], "release")
  <2>2. g.pc = "current" /\ SetFrame(w, g)
    BY <1>6, <2>t, MovedFields DEF Methods, Send, Goto
  <2> HIDE DEF g
  <2>3. Calm(w, frame[w], g)
    BY <2>t, <2>2, Kinds DEF Calm, CalmWorker
  <2>4. QED BY <2>t, <2>2, <2>3, CalmOne, ApartStill
<1>7. CASE \E w \in Seqs : RequestCancel(w)
  BY <1>7, CalmSame, ApartStill DEF RequestCancel, Apart
<1>8. CASE Poison
  <2>1. Still
    BY <1>8 DEF Poison, Still, registryVars, workerVars
  <2>2. QED BY <1>8, <2>1, CalmSame DEF Poison
<1>9. CASE (\E t \in Threads : SpuriousWake(t)) \/ UNCHANGED vars
  BY <1>9, CalmSame, ApartStill DEF SpuriousWake, vars, Apart
<1>10. QED BY <1>1, <1>2, <1>3, <1>4, <1>5, <1>6, <1>7, <1>8, <1>9

-----------------------------------------------------------------------------
(* The steps that create, register, start and end a worker.                *)

\* What an owner of a lease has, when its frame and its lease are known.
Owner(c, s) ==
    /\ frame[c].lease = s /\ s \in attempts /\ s \notin shared /\ Private(s)
    /\ \A d \in Clients \ {c} : frame[d].lease # s

LEMMA OwnerHas ==
  ASSUME Typed, Registry, WorkersInv, NEW c \in Clients, Owning(frame[c])
  PROVE  /\ Owner(c, frame[c].lease) /\ frame[c].lease \in Seqs
         /\ frame[c].lease < next_sequence /\ ~Closing
         /\ frame[frame[c].lease].pc = IF Launched(frame[c]) THEN "recv" ELSE "unborn"
<1>1. /\ Owner(c, frame[c].lease)
      /\ frame[frame[c].lease].pc = IF Launched(frame[c]) THEN "recv" ELSE "unborn"
  BY DEF WorkersInv, OwnersOK, Owner, Private
<1>2. attempts \subseteq Seqs
  BY DEF Typed, TypeOK
<1>3. ~Closing
  BY <1>1 DEF WorkersInv, ClosingOK, Owner
<1>4. frame[c].lease < next_sequence
  BY DEF WorkersInv, LeasesOK
<1>5. QED BY <1>1, <1>2, <1>3, <1>4 DEF Owner

\* The thread is created.
LEMMA WorkersLaunch ==
  ASSUME Typed, Typed', Registry, WorkersInv, PrivacyKept, Apart, NEW c \in Clients, NEW s,
         s = frame[c].lease, frame[c].pc = "launch",
         frame'[c].pc = "register", frame'[c].lease = s, frame'[s].pc = "recv",
         \A u \in Threads \ {c, s} : frame'[u] = frame[u]
  PROVE  WorkersInv'
<1> USE Kinds
<1>1. /\ s \in Seqs /\ s < next_sequence /\ ~Closing /\ frame[s].pc = "unborn" /\ Owner(c, s)
      /\ s # c
  BY OwnerHas DEF Owning, Launched
<1>2. \A d \in Clients \ {c} : frame'[d] = frame[d] /\ frame[d].lease # s
  BY <1>1 DEF Owner
<1>3. \A t \in Closers : frame'[t] = frame[t]
  BY <1>1
<1>4. \A w \in Seqs \ {s} : frame'[w] = frame[w]
  OBVIOUS
<1>5. UNCHANGED <<workers, worker_history, joined_flag, exited_worker_ids, next_sequence,
                  attempts, shared, shutdown, phase, poisoned>>
  BY DEF Apart, registryVars, workerVars
<1>6. workers[s] = "absent" /\ s \notin joined_flag /\ s \notin exited_worker_ids
  BY <1>1 DEF WorkersInv, WorkersOK
<1>7. OwnersOK'
  <2>1. ASSUME NEW d \in Clients \ {c}, Owning(frame'[d]), NEW r, r = frame'[d].lease
        PROVE  /\ r \in attempts' /\ r \notin shared' /\ ~entry'[attempt'[r].instance].explicit
               /\ \A e \in Clients \ {d} : frame'[e].lease # r
               /\ frame'[d].pc \in {"current", "body"} => frame'[d].method \in {"queue", "start"}
               /\ frame'[r].pc = IF Launched(frame'[d]) THEN "recv" ELSE "unborn"
               /\ frame'[d].pc = "register" => workers'[r] = "absent"
               /\ frame'[d].pc = "rendezvous" => workers'[r] # "absent"
    <3>1. frame'[d] = frame[d] /\ r # s
      BY <1>2, <2>1
    <3>2. r \in attempts /\ r \in Seqs /\ frame'[r] = frame[r]
      BY <1>4, <2>1, <3>1, OwnerHas DEF Owner
    <3>3. ~entry'[attempt'[r].instance].explicit
      BY <2>1, <3>1, <3>2 DEF WorkersInv, OwnersOK, PrivacyKept, Private
    <3>4. \A e \in Clients \ {d} : frame'[e].lease # r
      BY <1>2, <2>1, <3>1 DEF WorkersInv, OwnersOK
    <3>5. QED BY <1>5, <2>1, <3>1, <3>2, <3>3, <3>4 DEF WorkersInv, OwnersOK
  <2>2. /\ s \in attempts' /\ s \notin shared' /\ ~entry'[attempt'[s].instance].explicit
        /\ \A e \in Clients \ {c} : frame'[e].lease # s
        /\ workers'[s] = "absent"
    BY <1>1, <1>2, <1>5, <1>6 DEF Owner, PrivacyKept, Private
  <2>3. QED BY <2>1, <2>2 DEF OwnersOK, Launched
<1>8. LeasesOK'
  BY <1>2, <1>5 DEF WorkersInv, LeasesOK
<1>9. WorkersOK'
  <2>1. \A d \in Clients : Launched(frame[d]) => frame'[d] = frame[d]
    BY <1>2 DEF Launched
  <2>2. next_sequence \in Nat
    BY BoundsAssumption DEF Typed, TypeOK
  <2>3. Launched(frame'[c])
    BY DEF Launched
  <2> SUFFICES ASSUME NEW w \in Seqs
               PROVE /\ w >= next_sequence' => frame'[w].pc = "unborn"
                     /\ frame'[w].pc = "unborn" => workers'[w] = "absent"
                     /\ frame'[w].pc \notin {"unborn", "recv", "dead"} => workers'[w] # "absent"
                     /\ frame'[w].pc = "recv" =>
                         \E d \in Clients : Launched(frame'[d]) /\ frame'[d].lease = w
                     /\ w \in joined_flag' => frame'[w].pc = "dead" /\ workers'[w] = "absent"
                     /\ w \in exited_worker_ids' => workers'[w] # "absent"
    BY DEF WorkersOK
  <2>4. CASE w = s
    BY <1>1, <1>5, <1>6, <2>2, <2>3, <2>4 DEF Seqs
  <2>5. CASE w # s
    BY <1>4, <1>5, <2>1, <2>5 DEF WorkersInv, WorkersOK
  <2>6. QED BY <2>4, <2>5
<1>10. LedgerOK'
  BY <1>5 DEF WorkersInv, LedgerOK
<1>11. ReapersOK'
  <2>1. \A t \in Callers, w \in Seqs : Reaping(t, w)' <=> Reaping(t, w)
    BY <1>2, <1>3 DEF Reaping, Callers
  <2>2. \A t \in Callers : frame'[t].pc = "reap_note" => frame'[frame'[t].lease].pc = "dead"
    <3>1. ASSUME NEW t \in Callers, frame'[t].pc = "reap_note"
          PROVE  frame'[t] = frame[t] /\ frame[t].lease \in Seqs /\ frame[frame[t].lease].pc = "dead"
      <4>1. frame'[t] = frame[t]
        BY <1>2, <1>3, <3>1 DEF Callers
      <4>2. QED BY <3>1, <4>1, FrameIsGood DEF WorkersInv, ReapersOK, GoodFrame, Bare
    <3>2. QED BY <1>1, <1>4, <3>1
  <2>3. (\A w \in Seqs : (workers[w] = "taken") <=> \E t \in Callers : Reaping(t, w))'
    BY <1>5, <2>1 DEF WorkersInv, ReapersOK
  <2>4. (\A t, u \in Callers, w \in Seqs : Reaping(t, w) /\ Reaping(u, w) => t = u)'
    BY <2>1 DEF WorkersInv, ReapersOK
  <2>5. ASSUME NEW d \in Clients
        PROVE  /\ frame'[d].pc \in {"task", "joined_check", "reap_take"} =>
                    workers'[frame'[d].lease] # "absent" \/ frame'[d].lease \in joined_flag'
               /\ frame'[d].pc = "recheck" => frame'[d].lease \in joined_flag'
               /\ frame'[d].pc # "reap_error"
    BY <1>2, <1>5 DEF WorkersInv, ReapersOK, Known
  <2>6. QED BY <2>2, <2>3, <2>4, <2>5 DEF ReapersOK, Known
<1>12. ClosingOK'
  BY <1>1, <1>3, <1>5 DEF Closing, ClosingOK
<1>13. QED BY <1>7, <1>8, <1>9, <1>10, <1>11, <1>12 DEF WorkersInv

\* The worker is registered.
LEMMA WorkersRegister ==
  ASSUME Typed, Typed', Registry, WorkersInv, PrivacyKept, NEW c \in Clients, NEW s,
         s = frame[c].lease, frame[c].pc = "register",
         frame'[c].pc = "rendezvous", frame'[c].lease = s, \A u \in Threads \ {c} : frame'[u] = frame[u],
         workers' = [workers EXCEPT ![s] = "joinable"],
         worker_history'.outstanding = worker_history.outstanding \cup {s},
         worker_history'.joined = worker_history.joined,
         UNCHANGED <<next_sequence, attempts, exited_worker_ids, joined_flag, shutdown, phase,
                     poisoned, shared>>
  PROVE  WorkersInv'
<1> USE Kinds
<1>1. /\ s \in Seqs /\ s < next_sequence /\ ~Closing /\ frame[s].pc = "recv" /\ Owner(c, s)
      /\ s # c /\ workers[s] = "absent"
  <2>1. Owning(frame[c]) /\ Launched(frame[c])
    BY DEF Owning, Launched
  <2>2. workers[s] = "absent"
    BY <2>1 DEF WorkersInv, OwnersOK
  <2>3. QED BY <2>1, <2>2, OwnerHas
<1>2. \A d \in Clients \ {c} : frame'[d] = frame[d] /\ frame[d].lease # s
  BY <1>1 DEF Owner
<1>3. \A t \in Closers : frame'[t] = frame[t]
  BY <1>1
<1>4. \A w \in Seqs : frame'[w] = frame[w]
  OBVIOUS
<1>5. workers'[s] = "joinable" /\ \A w \in Seqs \ {s} : workers'[w] = workers[w]
  BY <1>1 DEF Typed, TypeOK
<1>6. s \notin joined_flag /\ s \notin exited_worker_ids
  BY <1>1 DEF WorkersInv, WorkersOK
<1>7. OwnersOK'
  <2>1. ASSUME NEW d \in Clients \ {c}, Owning(frame'[d]), NEW r, r = frame'[d].lease
        PROVE  /\ r \in attempts' /\ r \notin shared' /\ ~entry'[attempt'[r].instance].explicit
               /\ \A e \in Clients \ {d} : frame'[e].lease # r
               /\ frame'[d].pc \in {"current", "body"} => frame'[d].method \in {"queue", "start"}
               /\ frame'[r].pc = IF Launched(frame'[d]) THEN "recv" ELSE "unborn"
               /\ frame'[d].pc = "register" => workers'[r] = "absent"
               /\ frame'[d].pc = "rendezvous" => workers'[r] # "absent"
    <3>1. frame'[d] = frame[d] /\ r # s
      BY <1>2, <2>1
    <3>2. r \in attempts /\ r \in Seqs /\ frame'[r] = frame[r]
      BY <1>4, <2>1, <3>1, OwnerHas DEF Owner
    <3>3. ~entry'[attempt'[r].instance].explicit
      BY <2>1, <3>1, <3>2 DEF WorkersInv, OwnersOK, PrivacyKept, Private
    <3>4. \A e \in Clients \ {d} : frame'[e].lease # r
      BY <1>2, <2>1, <3>1 DEF WorkersInv, OwnersOK
    <3>5. workers'[r] = workers[r]
      BY <1>5, <3>1, <3>2
    <3>6. QED BY <2>1, <3>1, <3>2, <3>3, <3>4, <3>5 DEF WorkersInv, OwnersOK
  <2>2. /\ s \in attempts' /\ s \notin shared' /\ ~entry'[attempt'[s].instance].explicit
        /\ \A e \in Clients \ {c} : frame'[e].lease # s
        /\ workers'[s] # "absent" /\ frame'[s].pc = "recv"
    BY <1>1, <1>2, <1>4, <1>5 DEF Owner, PrivacyKept, Private
  <2>3. QED BY <2>1, <2>2 DEF OwnersOK, Launched
<1>8. LeasesOK'
  BY <1>2 DEF WorkersInv, LeasesOK
<1>9. WorkersOK'
  <2>1. \A d \in Clients : Launched(frame[d]) => Launched(frame'[d]) /\ frame'[d].lease = frame[d].lease
    BY <1>2 DEF Launched
  <2> SUFFICES ASSUME NEW w \in Seqs
               PROVE /\ w >= next_sequence' => frame'[w].pc = "unborn"
                     /\ frame'[w].pc = "unborn" => workers'[w] = "absent"
                     /\ frame'[w].pc \notin {"unborn", "recv", "dead"} => workers'[w] # "absent"
                     /\ frame'[w].pc = "recv" =>
                         \E d \in Clients : Launched(frame'[d]) /\ frame'[d].lease = w
                     /\ w \in joined_flag' => frame'[w].pc = "dead" /\ workers'[w] = "absent"
                     /\ w \in exited_worker_ids' => workers'[w] # "absent"
    BY DEF WorkersOK
  <2>2. frame'[w].pc = "recv" => \E d \in Clients : Launched(frame'[d]) /\ frame'[d].lease = w
    BY <1>4, <2>1 DEF WorkersInv, WorkersOK
  <2>3. w >= next_sequence' => frame'[w].pc = "unborn"
    BY <1>4 DEF WorkersInv, WorkersOK
  <2>4. CASE w = s
    BY <1>1, <1>4, <1>5, <1>6, <2>2, <2>3, <2>4
  <2>5. CASE w # s
    BY <1>4, <1>5, <2>2, <2>3, <2>5 DEF WorkersInv, WorkersOK
  <2>6. QED BY <2>4, <2>5
<1>10. LedgerOK'
  <2>1. \A w \in Seqs : w \in worker_history'.outstanding <=> workers'[w] # "absent"
    BY <1>1, <1>5 DEF WorkersInv, LedgerOK
  <2>2. worker_history'.outstanding \subseteq Seqs
    BY <1>1 DEF WorkersInv, LedgerOK
  <2>3. QED BY <2>1, <2>2 DEF WorkersInv, LedgerOK
<1>11. ReapersOK'
  <2>1. \A t \in Callers, w \in Seqs : Reaping(t, w)' <=> Reaping(t, w)
    BY <1>2, <1>3 DEF Reaping, Callers
  <2>2. \A t \in Callers : frame'[t].pc = "reap_note" => frame'[frame'[t].lease].pc = "dead"
    <3>1. ASSUME NEW t \in Callers, frame'[t].pc = "reap_note"
          PROVE  frame'[t] = frame[t] /\ frame[t].lease \in Seqs /\ frame[frame[t].lease].pc = "dead"
      <4>1. frame'[t] = frame[t]
        BY <1>2, <1>3, <3>1 DEF Callers
      <4>2. QED BY <3>1, <4>1, FrameIsGood DEF WorkersInv, ReapersOK, GoodFrame, Bare
    <3>2. QED BY <1>4, <3>1
  <2>3. (\A w \in Seqs : (workers[w] = "taken") <=> \E t \in Callers : Reaping(t, w))'
    <3>1. \A w \in Seqs : (workers'[w] = "taken") <=> (workers[w] = "taken")
      BY <1>1, <1>5
    <3>2. QED BY <2>1, <3>1 DEF WorkersInv, ReapersOK
  <2>4. (\A t, u \in Callers, w \in Seqs : Reaping(t, w) /\ Reaping(u, w) => t = u)'
    BY <2>1 DEF WorkersInv, ReapersOK
  <2>5. ASSUME NEW d \in Clients
        PROVE  /\ frame'[d].pc \in {"task", "joined_check", "reap_take"} =>
                    workers'[frame'[d].lease] # "absent" \/ frame'[d].lease \in joined_flag'
               /\ frame'[d].pc = "recheck" => frame'[d].lease \in joined_flag'
               /\ frame'[d].pc # "reap_error"
    <3>1. CASE d = c
      BY <3>1
    <3>2. CASE d # c
      <4>1. frame[d].pc \in {"task", "joined_check", "reap_take"} => frame[d].lease \in Seqs \ {s}
        BY <1>2, <3>2, FrameIsGood DEF GoodFrame, Bare
      <4>2. QED BY <1>2, <1>5, <3>2, <4>1 DEF WorkersInv, ReapersOK, Known
    <3>3. QED BY <3>1, <3>2
  <2>6. QED BY <2>2, <2>3, <2>4, <2>5 DEF ReapersOK, Known
<1>12. ClosingOK'
  BY <1>1, <1>3 DEF Closing, ClosingOK
<1>13. QED BY <1>7, <1>8, <1>9, <1>10, <1>11, <1>12 DEF WorkersInv

\* Owners that a step leaves alone.
LEMMA OwnersStep ==
  ASSUME Typed, Registry, WorkersInv, PrivacyKept,
         \A d \in Clients : Owning(frame'[d]) =>
            /\ frame'[d] = frame[d] /\ frame[d].lease \in attempts' /\ frame[d].lease \notin shared'
            /\ frame'[frame[d].lease] = frame[frame[d].lease]
            /\ (workers'[frame[d].lease] = "absent") = (workers[frame[d].lease] = "absent")
            /\ \A e \in Clients \ {d} : frame'[e].lease # frame[d].lease
  PROVE  OwnersOK'
<1>1. ASSUME NEW d \in Clients, Owning(frame'[d]), NEW r, r = frame'[d].lease
      PROVE  /\ r \in attempts' /\ r \notin shared' /\ ~entry'[attempt'[r].instance].explicit
             /\ \A e \in Clients \ {d} : frame'[e].lease # r
             /\ frame'[d].pc \in {"current", "body"} => frame'[d].method \in {"queue", "start"}
             /\ frame'[r].pc = IF Launched(frame'[d]) THEN "recv" ELSE "unborn"
             /\ frame'[d].pc = "register" => workers'[r] = "absent"
             /\ frame'[d].pc = "rendezvous" => workers'[r] # "absent"
  <2>1. frame'[d] = frame[d] /\ frame[d].lease = r
    BY <1>1
  <2>2. r \in attempts /\ Private(r)
    BY <1>1, <2>1, OwnerHas DEF Owner
  <2>3. ~entry'[attempt'[r].instance].explicit
    BY <2>2 DEF PrivacyKept, Private
  <2>4. QED BY <1>1, <2>1, <2>3 DEF WorkersInv, OwnersOK
<1>2. QED BY <1>1 DEF OwnersOK

\* A step that takes no handle and returns none.
LEMMA ReapersStep ==
  ASSUME Typed, WorkersInv,
         \A t \in Callers : frame'[t].pc \in JoinLabels \/ frame[t].pc \in JoinLabels =>
            frame'[t] = frame[t],
         \A w \in Seqs : (workers'[w] = "taken") = (workers[w] = "taken"),
         \A w \in Seqs : workers[w] # "absent" => workers'[w] # "absent",
         \A w \in Seqs : frame[w].pc = "dead" => frame'[w].pc = "dead",
         joined_flag \subseteq joined_flag',
         \A c \in Clients : \/ frame'[c] = frame[c]
                            \/ frame'[c].pc \notin {"task", "joined_check", "reap_take", "recheck", "reap_error"}
                            \/ frame'[c].pc = "task" /\ workers'[frame'[c].lease] # "absent"
  PROVE  ReapersOK'
<1>1. \A t \in Callers, w \in Seqs : Reaping(t, w)' <=> Reaping(t, w)
  BY DEF Reaping, JoinLabels
<1>2. ASSUME NEW t \in Callers, frame'[t].pc = "reap_note" PROVE frame'[frame'[t].lease].pc = "dead"
  <2>1. frame'[t] = frame[t]
    BY <1>2 DEF JoinLabels
  <2>2. frame[t].lease \in Seqs /\ frame[frame[t].lease].pc = "dead"
    BY <1>2, <2>1, Kinds, FrameIsGood DEF WorkersInv, ReapersOK, GoodFrame, Bare
  <2>3. QED BY <2>1, <2>2
<1>3. (\A w \in Seqs : (workers[w] = "taken") <=> \E t \in Callers : Reaping(t, w))'
  BY <1>1 DEF WorkersInv, ReapersOK
<1>4. (\A t, u \in Callers, w \in Seqs : Reaping(t, w) /\ Reaping(u, w) => t = u)'
  BY <1>1 DEF WorkersInv, ReapersOK
<1>5. ASSUME NEW d \in Clients
      PROVE  /\ frame'[d].pc \in {"task", "joined_check", "reap_take"} =>
                  workers'[frame'[d].lease] # "absent" \/ frame'[d].lease \in joined_flag'
             /\ frame'[d].pc = "recheck" => frame'[d].lease \in joined_flag'
             /\ frame'[d].pc # "reap_error"
  <2>1. CASE frame'[d] = frame[d]
    <3>1. frame[d].pc \in {"task", "joined_check", "reap_take"} => frame[d].lease \in Seqs
      BY Kinds, FrameIsGood DEF GoodFrame, Bare
    <3>2. QED BY <2>1, <3>1 DEF WorkersInv, ReapersOK, Known
  <2>2. CASE frame'[d] # frame[d]
    BY <2>2
  <2>3. QED BY <2>1, <2>2
<1>6. QED BY <1>2, <1>3, <1>4, <1>5 DEF ReapersOK, Known

\* The worker gets the lease and runs.
LEMMA WorkersRendezvous ==
  ASSUME Typed, Typed', Registry, WorkersInv, PrivacyKept, NEW c \in Clients, NEW s,
         s = frame[c].lease, frame[c].pc = "rendezvous",
         frame'[c].pc = "task", frame'[c].lease = s, frame'[s].pc = "run",
         \A u \in Threads \ {c, s} : frame'[u] = frame[u],
         shared' = shared \cup {s},
         UNCHANGED <<next_sequence, attempts, workers, worker_history, exited_worker_ids,
                     joined_flag, shutdown, phase, poisoned>>
  PROVE  WorkersInv'
<1> USE Kinds
<1>1. /\ s \in Seqs /\ s < next_sequence /\ ~Closing /\ frame[s].pc = "recv" /\ Owner(c, s)
      /\ s # c /\ workers[s] # "absent"
  <2>1. Owning(frame[c]) /\ Launched(frame[c])
    BY DEF Owning, Launched
  <2>2. workers[s] # "absent"
    BY <2>1 DEF WorkersInv, OwnersOK
  <2>3. QED BY <2>1, <2>2, OwnerHas
<1>2. \A d \in Clients \ {c} : frame'[d] = frame[d] /\ frame[d].lease # s
  BY <1>1 DEF Owner
<1>3. \A t \in Closers : frame'[t] = frame[t]
  BY <1>1
<1>4. \A w \in Seqs \ {s} : frame'[w] = frame[w]
  OBVIOUS
<1>5. s \notin joined_flag
  BY <1>1 DEF WorkersInv, WorkersOK
<1>6. OwnersOK'
  <2>1. ASSUME NEW d \in Clients, Owning(frame'[d]), NEW r, r = frame[d].lease
        PROVE  /\ frame'[d] = frame[d] /\ r \in attempts' /\ r \notin shared'
               /\ frame'[r] = frame[r]
               /\ \A e \in Clients \ {d} : frame'[e].lease # r
    <3>1. d # c
      BY <2>1 DEF Owning
    <3>2. frame'[d] = frame[d] /\ r # s
      BY <1>2, <2>1, <3>1
    <3>3. Owner(d, r) /\ r \in Seqs
      BY <2>1, <3>2, OwnerHas
    <3>4. QED BY <1>2, <1>4, <2>1, <3>2, <3>3 DEF Owner
  <2>2. QED BY <2>1, OwnersStep
<1>7. LeasesOK'
  BY <1>1, <1>2 DEF WorkersInv, LeasesOK
<1>8. WorkersOK'
  <2>1. \A d \in Clients \ {c} : frame'[d] = frame[d]
    BY <1>2
  <2>2. next_sequence \in Nat
    BY BoundsAssumption DEF Typed, TypeOK
  <2> SUFFICES ASSUME NEW w \in Seqs
               PROVE /\ w >= next_sequence' => frame'[w].pc = "unborn"
                     /\ frame'[w].pc = "unborn" => workers'[w] = "absent"
                     /\ frame'[w].pc \notin {"unborn", "recv", "dead"} => workers'[w] # "absent"
                     /\ frame'[w].pc = "recv" =>
                         \E d \in Clients : Launched(frame'[d]) /\ frame'[d].lease = w
                     /\ w \in joined_flag' => frame'[w].pc = "dead" /\ workers'[w] = "absent"
                     /\ w \in exited_worker_ids' => workers'[w] # "absent"
    BY DEF WorkersOK
  <2>3. CASE w = s
    BY <1>1, <1>5, <2>2, <2>3 DEF Seqs
  <2>4. CASE w # s
    BY <1>4, <2>1, <2>4 DEF WorkersInv, WorkersOK
  <2>5. QED BY <2>3, <2>4
<1>9. LedgerOK'
  BY DEF WorkersInv, LedgerOK
<1>10. ReapersOK'
  <2>1. \A t \in Callers : frame'[t].pc \in JoinLabels \/ frame[t].pc \in JoinLabels =>
            frame'[t] = frame[t]
    BY <1>2, <1>3 DEF JoinLabels, Callers
  <2>2. \A d \in Clients : frame'[d] = frame[d] \/ (frame'[d].pc = "task" /\ workers'[frame'[d].lease] # "absent")
    BY <1>1, <1>2
  <2>3. \A w \in Seqs : frame[w].pc = "dead" => frame'[w].pc = "dead"
    BY <1>1, <1>4
  <2>4. QED BY <2>1, <2>2, <2>3, ReapersStep
<1>11. ClosingOK'
  BY <1>1, <1>3 DEF Closing, ClosingOK
<1>12. QED BY <1>6, <1>7, <1>8, <1>9, <1>10, <1>11 DEF WorkersInv

\* The worker records its exit.
LEMMA WorkersExit ==
  ASSUME Typed, Typed', Registry, WorkersInv, PrivacyKept, NEW s \in Seqs,
         frame[s].pc = "exit", frame'[s].pc = "dead", \A u \in Threads \ {s} : frame'[u] = frame[u],
         exited_worker_ids' = exited_worker_ids \cup {s},
         UNCHANGED <<next_sequence, attempts, workers, worker_history, joined_flag, shutdown,
                     phase, poisoned, shared>>
  PROVE  WorkersInv'
<1> USE Kinds
<1>1. workers[s] # "absent" /\ ~(s >= next_sequence) /\ s \notin joined_flag
  BY DEF WorkersInv, WorkersOK
<1>2. \A t \in Callers : frame'[t] = frame[t]
  OBVIOUS
<1>3. OwnersOK'
  <2>1. ASSUME NEW d \in Clients, Owning(frame'[d]), NEW r, r = frame[d].lease
        PROVE  /\ frame'[d] = frame[d] /\ r \in attempts' /\ r \notin shared'
               /\ frame'[r] = frame[r]
               /\ \A e \in Clients \ {d} : frame'[e].lease # r
    <3>1. Owner(d, r) /\ r \in Seqs /\ frame[r].pc \in {"recv", "unborn"}
      BY <1>2, <2>1, OwnerHas
    <3>2. QED BY <1>2, <2>1, <3>1 DEF Owner
  <2>2. QED BY <2>1, OwnersStep
<1>4. LeasesOK'
  BY <1>2 DEF WorkersInv, LeasesOK
<1>5. WorkersOK'
  <2> SUFFICES ASSUME NEW w \in Seqs
               PROVE /\ w >= next_sequence' => frame'[w].pc = "unborn"
                     /\ frame'[w].pc = "unborn" => workers'[w] = "absent"
                     /\ frame'[w].pc \notin {"unborn", "recv", "dead"} => workers'[w] # "absent"
                     /\ frame'[w].pc = "recv" =>
                         \E d \in Clients : Launched(frame'[d]) /\ frame'[d].lease = w
                     /\ w \in joined_flag' => frame'[w].pc = "dead" /\ workers'[w] = "absent"
                     /\ w \in exited_worker_ids' => workers'[w] # "absent"
    BY DEF WorkersOK
  <2>1. CASE w = s
    BY <1>1, <2>1
  <2>2. CASE w # s
    BY <1>2, <2>2 DEF WorkersInv, WorkersOK
  <2>3. QED BY <2>1, <2>2
<1>6. LedgerOK'
  BY DEF WorkersInv, LedgerOK
<1>7. ReapersOK'
  <2>1. \A w \in Seqs : frame[w].pc = "dead" => frame'[w].pc = "dead"
    OBVIOUS
  <2>2. QED BY <1>2, <2>1, ReapersStep
<1>8. ClosingOK'
  <2>1. Closing' => Closing
    BY <1>2 DEF Closing
  <2>2. QED BY <2>1 DEF WorkersInv, ClosingOK
<1>9. QED BY <1>3, <1>4, <1>5, <1>6, <1>7, <1>8 DEF WorkersInv

-----------------------------------------------------------------------------
(* The steps that take a join handle and consume it.                       *)

\* A caller of reap_worker takes the handle.
LEMMA WorkersTake ==
  ASSUME Typed, Typed', Registry, WorkersInv, PrivacyKept, NEW t \in Callers, NEW s \in Seqs,
         s = frame[t].lease, frame[t].pc = "reap_take", workers[s] = "joinable",
         frame'[t].pc = "reap_join", frame'[t].lease = s, \A u \in Threads \ {t} : frame'[u] = frame[u],
         workers' = [workers EXCEPT ![s] = "taken"],
         UNCHANGED <<next_sequence, attempts, worker_history, exited_worker_ids, joined_flag,
                     shutdown, phase, poisoned, shared>>
  PROVE  WorkersInv'
<1> USE Kinds
<1>1. workers'[s] = "taken" /\ \A w \in Seqs \ {s} : workers'[w] = workers[w]
  BY DEF Typed, TypeOK
<1>2. \A w \in Seqs : frame'[w] = frame[w]
  OBVIOUS
<1>3. \A u \in Callers \ {t} : frame'[u] = frame[u]
  OBVIOUS
<1>4. ~Closing
  BY DEF WorkersInv, ClosingOK
<1>5. OwnersOK'
  <2>1. ASSUME NEW d \in Clients, Owning(frame'[d]), NEW r, r = frame[d].lease
        PROVE  /\ frame'[d] = frame[d] /\ r \in attempts' /\ r \notin shared'
               /\ frame'[r] = frame[r]
               /\ (workers'[r] = "absent") = (workers[r] = "absent")
               /\ \A e \in Clients \ {d} : frame'[e].lease # r
    <3>1. d # t
      BY <2>1 DEF Owning
    <3>2. frame'[d] = frame[d]
      BY <1>3, <3>1
    <3>3. Owner(d, r) /\ r \in Seqs
      BY <2>1, <3>2, OwnerHas
    <3>4. \A e \in Clients : frame'[e].lease = frame[e].lease
      BY <1>3
    <3>5. (workers'[r] = "absent") = (workers[r] = "absent")
      BY <1>1, <3>3
    <3>6. QED BY <1>2, <2>1, <3>2, <3>3, <3>4, <3>5 DEF Owner
  <2>2. QED BY <2>1, OwnersStep
<1>6. LeasesOK'
  <2>1. \A e \in Clients : frame'[e].lease = frame[e].lease
    BY <1>3
  <2>2. QED BY <2>1 DEF WorkersInv, LeasesOK
<1>7. \A w \in Seqs : (workers'[w] = "absent") <=> (workers[w] = "absent")
  BY <1>1
<1>8. WorkersOK'
  <2>1. \A d \in Clients : Launched(frame[d]) => frame'[d] = frame[d]
    BY <1>3 DEF Launched
  <2>2. QED BY <1>2, <1>7, <2>1 DEF WorkersInv, WorkersOK
<1>9. LedgerOK'
  <2>1. {w \in Seqs : workers'[w] # "absent"} = {w \in Seqs : workers[w] # "absent"}
    BY <1>7
  <2>2. QED BY <2>1 DEF WorkersInv, LedgerOK
<1>10. ReapersOK'
  <2>1. ~\E u \in Callers : Reaping(u, s)
    BY DEF WorkersInv, ReapersOK
  <2>2. /\ \A u \in Callers \ {t}, w \in Seqs : Reaping(u, w)' <=> Reaping(u, w)
        /\ \A w \in Seqs : ~Reaping(t, w)
        /\ \A w \in Seqs : Reaping(t, w)' <=> w = s
    BY <1>3 DEF Reaping
  <2>3. (\A w \in Seqs : (workers[w] = "taken") <=> \E u \in Callers : Reaping(u, w))'
    <3>1. ASSUME NEW w \in Seqs \ {s} PROVE (\E u \in Callers : Reaping(u, w))' <=> \E u \in Callers : Reaping(u, w)
      BY <2>2
    <3>2. ASSUME NEW w \in Seqs \ {s} PROVE (workers'[w] = "taken") <=> (\E u \in Callers : Reaping(u, w))'
      BY <1>1, <3>1 DEF WorkersInv, ReapersOK
    <3>3. (\E u \in Callers : Reaping(u, s)')
      BY <2>2
    <3>4. QED BY <1>1, <3>2, <3>3
  <2>4. (\A u, v \in Callers, w \in Seqs : Reaping(u, w) /\ Reaping(v, w) => u = v)'
    <3> SUFFICES ASSUME NEW u \in Callers, NEW v \in Callers, NEW w \in Seqs,
                        Reaping(u, w)', Reaping(v, w)'
                 PROVE  u = v
      OBVIOUS
    <3>1. CASE u # t /\ v # t
      BY <2>2, <3>1 DEF WorkersInv, ReapersOK
    <3>2. CASE u = t \/ v = t
      BY <2>1, <2>2, <3>2
    <3>3. QED BY <3>1, <3>2
  <2>5. ASSUME NEW u \in Callers, frame'[u].pc = "reap_note" PROVE frame'[frame'[u].lease].pc = "dead"
    <3>1. frame'[u] = frame[u]
      BY <1>3, <2>5
    <3>2. frame[u].lease \in Seqs
      BY <2>5, <3>1, FrameIsGood DEF GoodFrame, Bare
    <3>3. QED BY <1>2, <2>5, <3>1, <3>2 DEF WorkersInv, ReapersOK
  <2>6. ASSUME NEW d \in Clients
        PROVE  /\ frame'[d].pc \in {"task", "joined_check", "reap_take"} =>
                    workers'[frame'[d].lease] # "absent" \/ frame'[d].lease \in joined_flag'
               /\ frame'[d].pc = "recheck" => frame'[d].lease \in joined_flag'
               /\ frame'[d].pc # "reap_error"
    <3>1. CASE d = t
      BY <3>1
    <3>2. CASE d # t
      <4>1. frame[d].pc \in {"task", "joined_check", "reap_take"} => frame[d].lease \in Seqs
        BY FrameIsGood DEF GoodFrame, Bare
      <4>2. QED BY <1>3, <1>7, <3>2, <4>1 DEF WorkersInv, ReapersOK, Known
    <3>3. QED BY <3>1, <3>2
  <2>7. QED BY <2>3, <2>4, <2>5, <2>6 DEF ReapersOK, Known
<1>11. ClosingOK'
  <2>1. ~Closing'
    BY <1>3, <1>4 DEF Closing
  <2>2. shutdown' = NoShutdown
    BY <1>4 DEF Closing
  <2>3. QED BY <2>1, <2>2 DEF ClosingOK
<1>12. QED BY <1>5, <1>6, <1>8, <1>9, <1>10, <1>11 DEF WorkersInv

\* It has joined the thread and notes that.
LEMMA WorkersNote ==
  ASSUME Typed, Typed', Registry, WorkersInv, PrivacyKept, NEW t \in Callers, NEW s \in Seqs,
         s = frame[t].lease, frame[t].pc = "reap_note", frame'[t].pc \in {"idle", "drain"},
         frame'[t].lease \in {0, s}, \A u \in Threads \ {t} : frame'[u] = frame[u],
         workers' = [workers EXCEPT ![s] = "absent"],
         worker_history'.outstanding = worker_history.outstanding \ {s},
         worker_history'.joined \subseteq worker_history.joined \cup {s},
         joined_flag' = joined_flag \cup {s}, exited_worker_ids' = exited_worker_ids \ {s},
         UNCHANGED <<next_sequence, attempts, shutdown, phase, poisoned, shared>>
  PROVE  WorkersInv'
<1> USE Kinds
<1>1. workers'[s] = "absent" /\ \A w \in Seqs \ {s} : workers'[w] = workers[w]
  BY DEF Typed, TypeOK
<1>2. \A w \in Seqs : frame'[w] = frame[w]
  OBVIOUS
<1>3. \A u \in Callers \ {t} : frame'[u] = frame[u]
  OBVIOUS
<1>4. Reaping(t, s) /\ workers[s] = "taken" /\ frame[s].pc = "dead"
  <2>1. Reaping(t, s)
    BY DEF Reaping
  <2>2. QED BY <2>1 DEF WorkersInv, ReapersOK
<1>5. ~Closing
  BY <1>4 DEF WorkersInv, ClosingOK
<1>6. OwnersOK'
  <2>1. ASSUME NEW d \in Clients, Owning(frame'[d]), NEW r, r = frame[d].lease
        PROVE  /\ frame'[d] = frame[d] /\ r \in attempts' /\ r \notin shared'
               /\ frame'[r] = frame[r]
               /\ (workers'[r] = "absent") = (workers[r] = "absent")
               /\ \A e \in Clients \ {d} : frame'[e].lease # r
    <3>1. d # t
      BY <2>1 DEF Owning
    <3>2. frame'[d] = frame[d]
      BY <1>3, <3>1
    <3>3. Owner(d, r) /\ r \in Seqs /\ r # s
      BY <1>4, <2>1, <3>2, OwnerHas
    <3>4. \A e \in Clients : frame'[e].lease \in {0, frame[e].lease}
      BY <1>3
    <3>5. (workers'[r] = "absent") = (workers[r] = "absent")
      BY <1>1, <3>3
    <3>6. QED BY <1>2, <2>1, <3>2, <3>3, <3>4, <3>5 DEF Owner
  <2>2. QED BY <2>1, OwnersStep
<1>7. LeasesOK'
  <2>1. \A e \in Clients : frame'[e].lease \in {0, frame[e].lease}
    BY <1>3
  <2>2. 0 < next_sequence
    BY BoundsAssumption DEF Typed, TypeOK
  <2>3. QED BY <2>1, <2>2 DEF WorkersInv, LeasesOK
<1>8. WorkersOK'
  <2>1. \A d \in Clients : Launched(frame[d]) => frame'[d] = frame[d]
    BY <1>3 DEF Launched
  <2> SUFFICES ASSUME NEW w \in Seqs
               PROVE /\ w >= next_sequence' => frame'[w].pc = "unborn"
                     /\ frame'[w].pc = "unborn" => workers'[w] = "absent"
                     /\ frame'[w].pc \notin {"unborn", "recv", "dead"} => workers'[w] # "absent"
                     /\ frame'[w].pc = "recv" =>
                         \E d \in Clients : Launched(frame'[d]) /\ frame'[d].lease = w
                     /\ w \in joined_flag' => frame'[w].pc = "dead" /\ workers'[w] = "absent"
                     /\ w \in exited_worker_ids' => workers'[w] # "absent"
    BY DEF WorkersOK
  <2>2. CASE w = s
    BY <1>1, <1>2, <1>4, <2>2 DEF WorkersInv, WorkersOK
  <2>3. CASE w # s
    BY <1>1, <1>2, <2>1, <2>3 DEF WorkersInv, WorkersOK
  <2>4. QED BY <2>2, <2>3
<1>9. LedgerOK'
  <2>1. worker_history'.outstanding = {w \in Seqs : workers'[w] # "absent"}
    BY <1>1 DEF WorkersInv, LedgerOK
  <2>2. worker_history'.joined \subseteq joined_flag'
    BY DEF WorkersInv, LedgerOK
  <2>3. QED BY <2>1, <2>2 DEF LedgerOK
<1>10. ReapersOK'
  <2>1. /\ \A u \in Callers \ {t}, w \in Seqs : Reaping(u, w)' <=> Reaping(u, w)
        /\ \A w \in Seqs : ~Reaping(t, w)'
        /\ \A w \in Seqs : Reaping(t, w) <=> w = s
        /\ \A u \in Callers \ {t} : ~Reaping(u, s)
    BY <1>3, <1>4 DEF Reaping, WorkersInv, ReapersOK
  <2>2. (\A w \in Seqs : (workers[w] = "taken") <=> \E u \in Callers : Reaping(u, w))'
    <3>1. ASSUME NEW w \in Seqs \ {s} PROVE (workers'[w] = "taken") <=> \E u \in Callers : Reaping(u, w)'
      <4>1. (\E u \in Callers : Reaping(u, w)') <=> \E u \in Callers : Reaping(u, w)
        BY <2>1
      <4>2. QED BY <1>1, <4>1 DEF WorkersInv, ReapersOK
    <3>2. ~\E u \in Callers : Reaping(u, s)'
      BY <2>1
    <3>3. QED BY <1>1, <3>1, <3>2
  <2>3. (\A u, v \in Callers, w \in Seqs : Reaping(u, w) /\ Reaping(v, w) => u = v)'
    BY <2>1 DEF WorkersInv, ReapersOK
  <2>4. ASSUME NEW u \in Callers, frame'[u].pc = "reap_note" PROVE frame'[frame'[u].lease].pc = "dead"
    <3>1. frame'[u] = frame[u]
      BY <1>3, <2>4
    <3>2. frame[u].lease \in Seqs
      BY <2>4, <3>1, FrameIsGood DEF GoodFrame, Bare
    <3>3. QED BY <1>2, <2>4, <3>1, <3>2 DEF WorkersInv, ReapersOK
  <2>5. ASSUME NEW d \in Clients
        PROVE  /\ frame'[d].pc \in {"task", "joined_check", "reap_take"} =>
                    workers'[frame'[d].lease] # "absent" \/ frame'[d].lease \in joined_flag'
               /\ frame'[d].pc = "recheck" => frame'[d].lease \in joined_flag'
               /\ frame'[d].pc # "reap_error"
    <3>1. CASE d = t
      BY <3>1
    <3>2. CASE d # t
      <4>1. frame[d].pc \in {"task", "joined_check", "reap_take"} => frame[d].lease \in Seqs
        BY FrameIsGood DEF GoodFrame, Bare
      <4>2. QED BY <1>1, <1>3, <3>2, <4>1 DEF WorkersInv, ReapersOK, Known
    <3>3. QED BY <3>1, <3>2
  <2>6. QED BY <2>2, <2>3, <2>4, <2>5 DEF ReapersOK, Known
<1>11. ClosingOK'
  <2>1. ~Closing'
    BY <1>3, <1>5 DEF Closing
  <2>2. shutdown' = NoShutdown
    BY <1>5 DEF Closing
  <2>3. QED BY <2>1, <2>2 DEF ClosingOK
<1>12. QED BY <1>6, <1>7, <1>8, <1>9, <1>10, <1>11 DEF WorkersInv

-----------------------------------------------------------------------------
(* The end of shutdown, and the admission of an attempt.                   *)

\* An outcome stays, or discloses a poison.
OutcomeStep ==
    shutdown # NoShutdown =>
        shutdown' \in {shutdown, [shutdown EXCEPT !.state_poisoned = TRUE]}

Outcome(b, J) == [phase |-> "closed", state_poisoned |-> b, active_operations |-> {},
                  retained_tasks |-> {}, expected_worker_ids |-> J, joined_worker_ids |-> J]

LEMMA WorkersClose ==
  ASSUME Typed, Typed', Registry, WorkersInv, PrivacyKept, NEW t \in Closers, Close(t)
  PROVE  WorkersInv' /\ OutcomeStep
<1> USE Kinds
<1> DEFINE J == worker_history.joined
<1>1. frame[t].pc = "close" /\ Closing
  BY DEF Close, At, Closing
<1>2. attempts = {} /\ worker_history.outstanding = {} /\ \A w \in Seqs : workers[w] = "absent"
  BY <1>1 DEF WorkersInv, ClosingOK, LedgerOK
<1>3. Expected(worker_history) = J
  BY <1>2 DEF Expected
<1>4. shutdown' = Outcome(poisoned, J)
  BY <1>2, <1>3 DEF Close, Outcome
<1>5. frame[t] \in Frames /\ Goto(t, "returned") /\ frame \in [Threads -> Frames]
  BY FrameIsGood DEF Close, Typed, TypeOK
<1>6. frame'[t].pc = "returned" /\ \A u \in Threads \ {t} : frame'[u] = frame[u]
  <2> DEFINE g == Moved(frame[t], "returned")
  <2>1. g.pc = "returned" /\ frame' = [frame EXCEPT ![t] = g]
    BY <1>5, MovedFields DEF Labels, Goto, SetFrame
  <2> HIDE DEF g
  <2>2. QED BY <1>5, <2>1
<1>7. /\ UNCHANGED <<next_sequence, attempts, workers, worker_history, exited_worker_ids,
                     joined_flag, poisoned, shared>>
      /\ phase' = "closed"
  BY DEF Close, workerVars
<1>8. \A d \in Clients : ~Owning(frame[d]) /\ frame'[d] = frame[d]
  BY <1>2, <1>6 DEF WorkersInv, OwnersOK
<1>9. \A w \in Seqs : frame'[w] = frame[w]
  BY <1>6
<1>10. OwnersOK'
  BY <1>8 DEF OwnersOK
<1>11. LeasesOK'
  BY <1>7, <1>8 DEF WorkersInv, LeasesOK
<1>12. WorkersOK'
  BY <1>7, <1>8, <1>9 DEF WorkersInv, WorkersOK
<1>13. LedgerOK'
  BY <1>7 DEF WorkersInv, LedgerOK
<1>14. ReapersOK'
  <2>1. \A u \in Callers : frame'[u].pc \in JoinLabels \/ frame[u].pc \in JoinLabels => frame'[u] = frame[u]
    BY <1>1, <1>6 DEF JoinLabels
  <2>2. QED BY <1>7, <1>8, <1>9, <2>1, ReapersStep
<1>15. ClosingOK'
  BY <1>2, <1>4, <1>7 DEF ClosingOK, Outcome
<1>16. OutcomeStep
  <2> SUFFICES ASSUME shutdown # NoShutdown
               PROVE  shutdown' \in {shutdown, [shutdown EXCEPT !.state_poisoned = TRUE]}
    BY DEF OutcomeStep
  <2>1. shutdown \in ShutdownOutcomes /\ poisoned \in BOOLEAN
    BY DEF Typed, TypeOK
  <2>2. PICK b \in BOOLEAN : b = shutdown.state_poisoned
    BY <2>1 DEF ShutdownOutcomes
  <2>3. shutdown = Outcome(b, J) /\ (b => poisoned)
    BY <2>1, <2>2 DEF WorkersInv, ClosingOK, ShutdownOutcomes, Outcome
  <2>4. PICK yes : yes = TRUE
    OBVIOUS
  <2>5. [shutdown EXCEPT !.state_poisoned = yes] = Outcome(yes, J)
    BY <2>3 DEF Outcome
  <2>6. CASE b
    <3>1. b = poisoned
      BY <2>1, <2>3, <2>6
    <3>2. QED BY <1>4, <2>3, <3>1
  <2>7. CASE ~b /\ ~poisoned
    <3>1. b = poisoned
      BY <2>1, <2>7
    <3>2. QED BY <1>4, <2>3, <3>1
  <2>8. CASE poisoned
    <3>1. poisoned = yes
      BY <2>1, <2>4, <2>8
    <3>2. QED BY <1>4, <2>4, <2>5, <3>1
  <2>9. QED BY <2>6, <2>7, <2>8
<1>17. QED BY <1>10, <1>11, <1>12, <1>13, <1>14, <1>15, <1>16 DEF WorkersInv

\* start_attempt_inner, for a shared lease or for a caller that owns it.
LEMMA WorkersStart ==
  ASSUME Typed, Typed', Registry, WorkersInv, PrivacyKept, NEW n \in Seqs, NEW c \in Clients,
         n = next_sequence, next_sequence' = n + 1, phase = "running",
         attempts' = attempts \cup {n},
         \A u \in Threads \ {c} : frame'[u] = frame[u],
         \/ frame'[c] = frame[c] /\ shared' = shared \cup {n}
         \/ /\ frame[c].pc = "create" /\ frame'[c].pc = "reserved" /\ frame'[c].lease = n
            /\ ~entry'[attempt'[n].instance].explicit /\ shared' = shared,
         UNCHANGED <<workers, worker_history, exited_worker_ids, joined_flag, shutdown, phase, poisoned>>
  PROVE  WorkersInv'
<1> USE Kinds
<1>1. n \notin shared /\ frame[n].pc = "unborn" /\ \A d \in Clients : frame[d].lease # n
  <2>1. frame[n].pc = "unborn"
    BY DEF WorkersInv, WorkersOK, Seqs
  <2>2. QED BY <2>1 DEF WorkersInv, LeasesOK, Seqs
<1>2. ~Closing
  <2>1. \A t \in Closers : frame[t].pc = "idle"
    BY DEF Registry, QuiescingOK
  <2>2. shutdown = NoShutdown
    BY DEF WorkersInv, ClosingOK
  <2>3. QED BY <2>1, <2>2 DEF Closing
<1>3. \A w \in Seqs : frame'[w] = frame[w]
  OBVIOUS
<1>4. \A t \in Closers : frame'[t] = frame[t]
  OBVIOUS
<1>5. OwnersOK'
  <2>1. ASSUME NEW d \in Clients, Owning(frame'[d]), frame'[d] = frame[d], NEW r, r = frame'[d].lease
        PROVE  /\ r \in attempts' /\ r \notin shared' /\ ~entry'[attempt'[r].instance].explicit
               /\ \A e \in Clients \ {d} : frame'[e].lease # r
               /\ frame'[d].pc \in {"current", "body"} => frame'[d].method \in {"queue", "start"}
               /\ frame'[r].pc = IF Launched(frame'[d]) THEN "recv" ELSE "unborn"
               /\ frame'[d].pc = "register" => workers'[r] = "absent"
               /\ frame'[d].pc = "rendezvous" => workers'[r] # "absent"
    <3>1. Owner(d, r) /\ r \in Seqs /\ r # n
      BY <1>1, <2>1, OwnerHas
    <3>2. ~entry'[attempt'[r].instance].explicit
      BY <3>1 DEF Owner, PrivacyKept, Private
    <3>3. r \in attempts' /\ r \notin shared'
      BY <3>1 DEF Owner
    <3>4. \A e \in Clients \ {d} : frame'[e].lease # r
      BY <3>1 DEF Owner
    <3>5. frame'[r] = frame[r]
      BY <1>3, <3>1
    <3>6. QED BY <2>1, <3>2, <3>3, <3>4, <3>5 DEF WorkersInv, OwnersOK
  <2>2. ASSUME frame'[c].pc = "reserved", frame'[c].lease = n, ~entry'[attempt'[n].instance].explicit,
               shared' = shared
        PROVE  /\ n \in attempts' /\ n \notin shared' /\ ~entry'[attempt'[n].instance].explicit
               /\ \A e \in Clients \ {c} : frame'[e].lease # n
               /\ frame'[n].pc = "unborn"
    BY <1>1, <1>3, <2>2
  <2>3. \A d \in Clients \ {c} : frame'[d] = frame[d]
    OBVIOUS
  <2>4. ASSUME NEW d \in Clients, Owning(frame'[d])
        PROVE  LET r == frame'[d].lease IN
               /\ r \in attempts' /\ r \notin shared' /\ ~entry'[attempt'[r].instance].explicit
               /\ \A e \in Clients \ {d} : frame'[e].lease # r
               /\ frame'[d].pc \in {"current", "body"} => frame'[d].method \in {"queue", "start"}
               /\ frame'[r].pc = IF Launched(frame'[d]) THEN "recv" ELSE "unborn"
               /\ frame'[d].pc = "register" => workers'[r] = "absent"
               /\ frame'[d].pc = "rendezvous" => workers'[r] # "absent"
    <3>1. CASE frame'[d] = frame[d]
      BY <2>1, <2>4, <3>1
    <3>2. CASE frame'[d] # frame[d]
      <4>1. d = c
        BY <2>3, <3>2
      <4>2. QED BY <2>2, <3>2, <4>1 DEF Launched
    <3>3. QED BY <3>1, <3>2
  <2>5. QED BY <2>4 DEF OwnersOK
<1>6. LeasesOK'
  <2>1. next_sequence \in Nat /\ \A d \in Clients : frame[d].lease \in Nat
    BY BoundsAssumption, FrameIsGood DEF Typed, TypeOK, Frames, Seqs
  <2>2. shared \subseteq Nat
    BY DEF Typed, TypeOK, Seqs
  <2>3. \A d \in Clients : frame'[d].lease < n + 1
    BY <2>1 DEF WorkersInv, LeasesOK
  <2>4. \A s \in shared' : s < n + 1
    <3>1. shared' \subseteq shared \cup {n}
      OBVIOUS
    <3>2. \A s \in shared : s < n
      BY DEF WorkersInv, LeasesOK
    <3>3. QED BY <2>1, <2>2, <3>1, <3>2
  <2>5. QED BY <2>3, <2>4 DEF LeasesOK
<1>7. WorkersOK'
  <2>1. \A d \in Clients : Launched(frame[d]) => frame'[d] = frame[d]
    BY DEF Launched
  <2>2. \A w \in Seqs : w >= next_sequence' => frame'[w].pc = "unborn"
    BY <1>3 DEF WorkersInv, WorkersOK, Seqs
  <2>3. QED BY <1>3, <2>1, <2>2 DEF WorkersInv, WorkersOK
<1>8. LedgerOK'
  BY DEF WorkersInv, LedgerOK
<1>9. ReapersOK'
  <2>1. \A u \in Callers : frame'[u].pc \in JoinLabels \/ frame[u].pc \in JoinLabels => frame'[u] = frame[u]
    BY DEF JoinLabels
  <2>2. \A d \in Clients : frame'[d] = frame[d] \/ frame'[d].pc = "reserved"
    OBVIOUS
  <2>3. QED BY <1>3, <2>1, <2>2, ReapersStep
<1>10. ClosingOK'
  BY <1>2, <1>4 DEF Closing, ClosingOK
<1>11. QED BY <1>5, <1>6, <1>7, <1>8, <1>9, <1>10 DEF WorkersInv

-----------------------------------------------------------------------------
(* Every step.                                                             *)

\* Attempts keep their entry, and entries the way they were created.
LEMMA PrivacyNext ==
  ASSUME Typed, Typed', Registry, [Next]_vars
  PROVE  PrivacyKept
<1>t. attempts \subseteq Seqs /\ entry \in [Instances -> OperationEntries] /\ attempt \in [Seqs -> AttemptControls]
  BY DEF Typed, TypeOK
<1>i. \A s \in attempts : attempt[s].instance \in Instances
  BY DEF Registry, AttemptsOK
\* The two ways to see it.
<1>q. ASSUME UNCHANGED registryVars, AttemptsStep PROVE PrivacyKept
  <2>1. \A s \in attempts : attempt'[s].instance = attempt[s].instance
    BY <1>t, <1>q DEF AttemptsStep, AttemptStep
  <2>2. entry' = entry
    BY <1>q DEF registryVars
  <2>3. QED BY <2>1, <2>2 DEF PrivacyKept, Private
<1>e. ASSUME \A s \in attempts : attempt'[s].instance = attempt[s].instance,
             \A s \in attempts : entry'[attempt[s].instance].explicit = entry[attempt[s].instance].explicit
      PROVE  PrivacyKept
  BY <1>e DEF PrivacyKept, Private
<1>1. ASSUME NEW id \in Ids, NEW b \in BOOLEAN, CreateOperationInner(id, b), UNCHANGED attempt PROVE PrivacyKept
  <2>1. \A s \in attempts : attempt[s].instance # next_instance
    <3>1. \A s \in attempts : attempt[s].instance < next_instance
      BY <1>i DEF Registry, AttemptsOK, OperationsOK, Instances
    <3>2. next_instance \in Nat
      BY BoundsAssumption DEF Typed, TypeOK
    <3>3. QED BY <1>i, <3>1, <3>2 DEF Instances
  <2>2. \A i \in Instances \ {next_instance} : entry'[i] = entry[i]
    BY <1>t, <1>1 DEF CreateOperationInner
  <2>3. QED BY <1>e, <1>i, <1>1, <2>1, <2>2
<1>2. ASSUME NEW i \in Instances, NEW initial, StartAttemptInner(i, initial) PROVE PrivacyKept
  <2>1. next_sequence \notin attempts
    <3>1. \A s \in attempts : ~(s >= next_sequence)
      BY <1>t DEF Registry, FreshOK
    <3>2. next_sequence \in Nat
      BY BoundsAssumption DEF Typed, TypeOK
    <3>3. QED BY <3>1, <3>2
  <2>2. \A s \in attempts : attempt'[s] = attempt[s]
    BY <1>t, <1>2, <2>1 DEF StartAttemptInner
  <2>3. \A j \in Instances : entry'[j].explicit = entry[j].explicit
    <3>1. entry' = [entry EXCEPT ![i].attempts = @ \cup {next_sequence}]
      BY <1>2 DEF StartAttemptInner
    <3>2. QED BY <1>t, <3>1 DEF OperationEntries
  <2>4. QED BY <1>e, <1>i, <2>2, <2>3
<1>3. ASSUME UNCHANGED <<entry, attempt>> PROVE PrivacyKept
  BY <1>e, <1>3
<1>4. ASSUME NEW i \in Instances, NEW S, entry' = [entry EXCEPT ![i].attempts = S], UNCHANGED attempt
      PROVE  PrivacyKept
  <2>1. \A j \in Instances : entry'[j].explicit = entry[j].explicit
    BY <1>t, <1>4 DEF OperationEntries
  <2>2. QED BY <1>e, <1>i, <1>4, <2>1
<1>5. ASSUME NEW c \in Clients, ClientCall(c) PROVE PrivacyKept
  <2>1. ASSUME NEW id \in Ids, ReserveCreate(c, id) \/ CreateOperation(c, id) PROVE PrivacyKept
    <3>1. PICK b \in BOOLEAN : CreateOperationInner(id, b) /\ UNCHANGED attempt
      BY <2>1 DEF ReserveCreate, CreateOperation
    <3>2. QED BY <1>1, <3>1
  <2>2. ASSUME NEW i \in Instances, StartAttempt(c, i) PROVE PrivacyKept
    BY <1>2, <2>2 DEF StartAttempt
  <2>3. ASSUME NEW i \in Instances, FinishOperation(c, i) PROVE PrivacyKept
    BY <1>3, <2>3 DEF FinishOperation
  <2>4. ASSUME NEW i \in Instances, RequestOperationCancel(c, i) PROVE PrivacyKept
    <3>1. entry' = [entry EXCEPT ![i].cancellation_requested = TRUE] /\ UNCHANGED attempt
      BY <2>4 DEF RequestOperationCancel
    <3>2. \A j \in Instances : entry'[j].explicit = entry[j].explicit
      BY <1>t, <3>1 DEF OperationEntries
    <3>3. QED BY <1>e, <1>i, <3>1, <3>2
  <2>5. CASE \/ \E s \in Seqs : FinishAttempt(c, s)
             \/ \E s \in Seqs, m \in Methods, k \in TerminalClasses : CallShared(c, s, m, k)
    BY <1>q, <2>5, RegistryClient
  <2>6. QED BY <1>5, <2>1, <2>2, <2>3, <2>4, <2>5 DEF ClientCall, Ids
<1>6. ASSUME NEW t \in Clients \cup Seqs, LeaseStep(t) PROVE PrivacyKept
  <2>1. CASE Retire(t)
    <3>1. UNCHANGED attempt
      BY <2>1 DEF Retire
    <3>2. CASE UNCHANGED entry
      BY <1>3, <3>1, <3>2
    <3>3. CASE frame[t].lease \in attempts /\ operations[attempt[frame[t].lease].operation_id] # 0
      <4>1. PICK i : i = operations[attempt[frame[t].lease].operation_id]
        OBVIOUS
      <4>2. i \in Instances
        BY <1>i, <3>3, <4>1 DEF Registry, AttemptsOK
      <4>3. entry' = [entry EXCEPT ![i].attempts = @ \ {frame[t].lease}]
        BY <2>1, <3>3, <4>1 DEF Retire
      <4>4. QED BY <1>4, <3>1, <4>2, <4>3
    <3>4. QED BY <2>1, <3>2, <3>3 DEF Retire
  <2>2. CASE ~Retire(t)
    BY <1>6, <1>q, <2>2, RegistryLease
  <2>3. QED BY <2>1, <2>2
<1>7. ASSUME NEW c \in Clients, ClientStep(c) \/ ClientTask(c) PROVE PrivacyKept
  <2>1. CASE ReserveAttempt(c)
    <3>1. frame[c].instance \in Instances
      BY <2>1, Kinds, FrameIsGood DEF ReserveAttempt, At, GoodFrame
    <3>2. QED BY <1>2, <1>3, <2>1, <3>1 DEF ReserveAttempt
  <2>2. CASE ReserveRollback(c)
    BY <1>3, <2>2 DEF ReserveRollback
  <2>3. CASE \/ Spawn(c) \/ (\E k \in TerminalClasses : FinishReservation(c, k))
             \/ Launch(c) \/ Register(c) \/ Rendezvous(c)
             \/ AwaitResult(c) \/ JoinedCheck(c) \/ Recheck(c)
    BY <1>q, <2>3, RegistryClient
  <2>4. CASE DropTask(c) \/ ReapStep(c) \/ SweepStep(c)
    BY <1>q, <2>4, RegistryQuiet
  <2>5. QED BY <1>6, <1>7, <2>1, <2>2, <2>3, <2>4 DEF ClientStep, ClientTask
<1>8. ASSUME NEW w \in Seqs, WorkerStep(w) \/ RequestCancel(w) PROVE PrivacyKept
  <2>1. CASE \/ \E outcome \in {"ok", "err", "panic"} : RunOperation(w, outcome)
             \/ Send(w) \/ RecordWorkerExit(w) \/ RequestCancel(w)
    BY <1>q, <2>1, RegistryQuiet
  <2>2. QED BY <1>6, <1>8, <2>1 DEF WorkerStep
<1>9. ASSUME NEW t \in Closers, BeginQuiesce(t) \/ CloserStep(t) PROVE PrivacyKept
  <2>1. CASE CachedOutcome(t) \/ Drain(t) \/ ReapStep(t) \/ SweepStep(t)
    BY <1>q, <2>1, RegistryQuiet
  <2>2. CASE Close(t)
    BY <1>3, <2>2 DEF Close
  <2>3. CASE BeginQuiesce(t)
    <3>1. UNCHANGED attempt
      BY <2>3 DEF BeginQuiesce
    <3>2. CASE UNCHANGED entry
      BY <1>3, <3>1, <3>2
    <3>3. CASE entry' = [i \in Instances |->
                [entry[i] EXCEPT !.cancellation_requested =
                    @ \/ \E id \in Ids : operations[id] = i]]
      <4>1. ASSUME NEW j \in Instances PROVE entry'[j].explicit = entry[j].explicit
        <5>1. PICK b : b = (entry[j].cancellation_requested \/ \E id \in Ids : operations[id] = j)
          OBVIOUS
        <5>2. entry'[j] = [entry[j] EXCEPT !.cancellation_requested = b]
          BY <3>3, <5>1
        <5>3. QED BY <1>t, <5>2 DEF OperationEntries
      <4>2. QED BY <1>e, <1>i, <3>1, <4>1
    <3>4. QED BY <2>3, <3>2, <3>3 DEF BeginQuiesce
  <2>4. QED BY <1>9, <2>1, <2>2, <2>3 DEF CloserStep
<1>10. CASE Poison \/ (\E t \in Threads : SpuriousWake(t)) \/ UNCHANGED vars
  BY <1>q, <1>10, RegistryQuiet
<1>11. QED BY <1>5, <1>7, <1>8, <1>9, <1>10 DEF Next

\* Where a step leaves the outcome alone.
LEMMA OutcomeKept == UNCHANGED shutdown => OutcomeStep
BY DEF OutcomeStep

\* The worker's records in the ledger.
LEMMA LedgerSteps ==
  ASSUME NEW ledger \in Ledgers, NEW w
  PROVE  /\ NoteStarted(ledger, w).outstanding = ledger.outstanding \cup {w}
         /\ NoteStarted(ledger, w).joined = ledger.joined
         /\ NoteJoined(ledger, w).outstanding = ledger.outstanding \ {w}
         /\ NoteJoined(ledger, w).joined \subseteq ledger.joined \cup {w}
<1>1. /\ NoteStarted(ledger, w).outstanding = ledger.outstanding \cup {w}
      /\ NoteStarted(ledger, w).joined = ledger.joined
  BY DEF NoteStarted, Ledgers
<1>2. PICK E, order :
        NoteJoined(ledger, w) =
          [ledger EXCEPT !.outstanding = ledger.outstanding \ {w},
                         !.joined = (ledger.joined \cup {w}) \ E, !.joined_order = order]
  BY DEF NoteJoined
<1>3. NoteJoined(ledger, w).outstanding = ledger.outstanding \ {w}
      /\ NoteJoined(ledger, w).joined = (ledger.joined \cup {w}) \ E
  BY <1>2 DEF Ledgers
<1>4. QED BY <1>1, <1>3

\* Whoever calls reap_worker.
LEMMA WorkersReap ==
  ASSUME Typed, Typed', Registry, WorkersInv, PrivacyKept, NEW t \in Callers, ReapStep(t)
  PROVE  WorkersInv' /\ OutcomeStep
<1>t. t \in Threads /\ frame[t] \in Frames /\ GoodFrame(t, frame[t]) /\ frame \in [Threads -> Frames]
      /\ worker_history \in Ledgers
  BY Kinds, FrameIsGood DEF Typed, TypeOK, Ledgers
<1>o. OutcomeStep
  BY OutcomeKept DEF ReapStep, ReapTake, ReapJoin, ReapNote
<1>1. CASE ReapJoin(t) \/ (ReapTake(t) /\ UNCHANGED workers)
  BY <1>o, <1>1, CalmReap, CalmStep
<1>s. PICK s : s = frame[t].lease
  OBVIOUS
<1>2. CASE ReapTake(t) /\ workers[s] = "joinable"
  <2>1. frame[t].pc = "reap_take" /\ s \in Seqs
    BY <1>t, <1>s, <1>2 DEF ReapTake, At, GoodFrame, Bare
  <2> DEFINE g == Moved(frame[t], "reap_join")
  <2>2. g.pc = "reap_join" /\ g.lease = s /\ SetFrame(t, g)
    BY <1>t, <1>s, <1>2, MovedFields DEF Labels, ReapTake, Goto
  <2> HIDE DEF g
  <2>3. frame'[t] = g /\ \A u \in Threads \ {t} : frame'[u] = frame[u]
    BY <1>t, <2>2 DEF SetFrame
  <2>4. workers' = [workers EXCEPT ![s] = "taken"]
    BY <1>s, <1>2 DEF ReapTake
  <2>5. UNCHANGED <<next_sequence, attempts, worker_history, exited_worker_ids, joined_flag,
                    shutdown, phase, poisoned, shared>>
    BY <1>2 DEF ReapTake, registryVars
  <2>6. QED BY <1>o, <1>s, <1>2, <2>1, <2>2, <2>3, <2>4, <2>5, WorkersTake
<1>3. CASE ReapNote(t)
  <2>1. frame[t].pc = "reap_note" /\ s \in Seqs
    BY <1>t, <1>s, <1>3 DEF ReapNote, At, GoodFrame, Bare
  <2>2. CanNoteJoined(worker_history, s)
    <3>1. Reaping(t, s)
      BY <1>s, <2>1 DEF Reaping
    <3>2. QED BY <2>1, <3>1 DEF WorkersInv, ReapersOK, LedgerOK, CanNoteJoined
  <2>3. PICK k \in {"idle", "drain"} : Goto(t, k)
    BY <1>s, <1>3, <2>2, Kinds DEF ReapNote, AfterReap, Callers
  <2> DEFINE g == Moved(frame[t], k)
  <2>4. g.pc = k /\ g.lease \in {0, s} /\ SetFrame(t, g)
    BY <1>t, <1>s, <2>3, MovedFields DEF Labels, Goto
  <2> HIDE DEF g
  <2>5. frame'[t] = g /\ \A u \in Threads \ {t} : frame'[u] = frame[u]
    BY <1>t, <2>4 DEF SetFrame
  <2>6. /\ workers' = [workers EXCEPT ![s] = "absent"]
        /\ worker_history' = NoteJoined(worker_history, s)
        /\ joined_flag' = joined_flag \cup {s} /\ exited_worker_ids' = exited_worker_ids \ {s}
    BY <1>s, <1>3, <2>2 DEF ReapNote
  <2>7. UNCHANGED <<next_sequence, attempts, shutdown, phase, poisoned, shared>>
    BY <1>3 DEF ReapNote, registryVars
  <2>8. /\ worker_history'.outstanding = worker_history.outstanding \ {s}
        /\ worker_history'.joined \subseteq worker_history.joined \cup {s}
    BY <1>t, <2>6, LedgerSteps
  <2>9. WorkersInv'
    BY <1>s, <2>1, <2>4, <2>5, <2>6, <2>7, <2>8, WorkersNote
  <2>10. QED BY <1>o, <2>9
<1>4. QED
  BY <1>1, <1>2, <1>3, <1>s DEF ReapStep, ReapTake

\* The steps of a spawn that create, register and start the worker.
LEMMA WorkersSpawn ==
  ASSUME Typed, Typed', Registry, WorkersInv, PrivacyKept, NEW c \in Clients,
         Launch(c) \/ Register(c) \/ Rendezvous(c)
  PROVE  WorkersInv' /\ OutcomeStep
<1>t. c \in Threads /\ frame[c] \in Frames /\ GoodFrame(c, frame[c]) /\ frame \in [Threads -> Frames]
      /\ worker_history \in Ledgers
  BY Kinds, FrameIsGood DEF Typed, TypeOK, Ledgers
<1>o. OutcomeStep
  BY OutcomeKept DEF Launch, Register, Rendezvous
<1>s. PICK s : s = frame[c].lease
  OBVIOUS
<1>w. s \in Seqs /\ s \in Threads /\ s # c
  BY <1>t, <1>s, Kinds DEF Launch, Register, Rendezvous, At, GoodFrame, Bare
<1>1. CASE Launch(c)
  <2>1. CASE SetFrame(c, [frame[c] EXCEPT !.pc = "current", !.method = "terminal",
                                          !.program = "start_failed"])
    BY <1>o, <1>1, <2>1, CalmProgress, CalmStep
  <2>2. CASE frame' = [frame EXCEPT ![c].pc = "register", ![frame[c].lease] =
                         [NewFrame("recv") EXCEPT !.program = "worker", !.lease = frame[c].lease]]
    <3> DEFINE g == [frame[c] EXCEPT !.pc = "register"]
               h == [NewFrame("recv") EXCEPT !.program = "worker", !.lease = s]
    <3>1. g.pc = "register" /\ g.lease = s /\ h.pc = "recv"
      BY <1>t, <1>s DEF Frames, NewFrame
    <3>2. frame' = [[frame EXCEPT ![c] = g] EXCEPT ![s] = h]
      BY <1>s, <2>2
    <3> HIDE DEF g, h
    <3>3. frame'[c] = g /\ frame'[s] = h /\ \A u \in Threads \ {c, s} : frame'[u] = frame[u]
      BY <1>t, <1>w, <3>2
    <3>4. Apart /\ frame[c].pc = "launch"
      BY <1>1 DEF Launch, Apart, At
    <3>5. QED BY <1>o, <1>s, <3>1, <3>3, <3>4, WorkersLaunch
  <2>3. QED BY <1>1, <2>1, <2>2 DEF Launch
<1>2. CASE Register(c)
  <2> DEFINE g == Moved(frame[c], "rendezvous")
  <2>1. g.pc = "rendezvous" /\ g.lease = s /\ SetFrame(c, g)
    BY <1>t, <1>s, <1>2, MovedFields DEF Labels, Register, Goto
  <2> HIDE DEF g
  <2>2. frame'[c] = g /\ \A u \in Threads \ {c} : frame'[u] = frame[u]
    BY <1>t, <2>1 DEF SetFrame
  <2>3. /\ workers' = [workers EXCEPT ![s] = "joinable"]
        /\ worker_history' = NoteStarted(worker_history, s) /\ frame[c].pc = "register"
        /\ UNCHANGED <<next_sequence, attempts, exited_worker_ids, joined_flag, shutdown, phase,
                       poisoned, shared>>
    BY <1>s, <1>2 DEF Register, At, registryVars
  <2>4. /\ worker_history'.outstanding = worker_history.outstanding \cup {s}
        /\ worker_history'.joined = worker_history.joined
    BY <1>t, <2>3, LedgerSteps
  <2>5. WorkersInv'
    BY <1>s, <2>1, <2>2, <2>3, <2>4, WorkersRegister
  <2>6. QED BY <1>o, <2>5
<1>3. CASE Rendezvous(c)
  <2> DEFINE g == [frame[c] EXCEPT !.pc = "task"]
             h == [frame[s] EXCEPT !.pc = "run"]
  <2>1. frame[s] \in Frames
    BY <1>t, <1>w
  <2>2. g.pc = "task" /\ g.lease = s /\ h.pc = "run"
    BY <1>t, <1>s, <2>1 DEF Frames
  <2>3. frame' = [[frame EXCEPT ![c] = g] EXCEPT ![s] = h]
    BY <1>t, <1>s, <1>w, <1>3 DEF Rendezvous
  <2> HIDE DEF g, h
  <2>4. frame'[c] = g /\ frame'[s] = h /\ \A u \in Threads \ {c, s} : frame'[u] = frame[u]
    BY <1>t, <1>w, <2>3
  <2>5. /\ frame[c].pc = "rendezvous" /\ shared' = shared \cup {s}
        /\ UNCHANGED <<next_sequence, attempts, workers, worker_history, exited_worker_ids,
                       joined_flag, shutdown, phase, poisoned>>
    BY <1>s, <1>3 DEF Rendezvous, At, registryVars, workerVars
  <2>6. WorkersInv'
    BY <1>s, <2>2, <2>4, <2>5, WorkersRendezvous
  <2>7. QED BY <1>o, <2>6
<1>4. QED BY <1>1, <1>2, <1>3

\* Nothing has been admitted when the supervisor is built.
LEMMA WorkersInit == Init => WorkersInv
<1> SUFFICES ASSUME Init PROVE WorkersInv
  OBVIOUS
<1> USE Kinds
<1>1. \A u \in Clients \cup Closers : frame[u].pc = "idle" /\ frame[u].lease = 0
  BY DEF Init, NewFrame
<1>2. \A w \in Seqs : frame[w].pc = "unborn" /\ workers[w] = "absent"
  BY DEF Init, NewFrame
<1>3. /\ worker_history.outstanding = {} /\ worker_history.joined = {} /\ joined_flag = {}
      /\ exited_worker_ids = {} /\ shutdown = NoShutdown /\ shared = {} /\ next_sequence = 1
  BY DEF Init, NewLedger
<1>4. OwnersOK
  BY <1>1 DEF OwnersOK, Owning
<1>5. LeasesOK
  BY <1>1, <1>3 DEF LeasesOK
<1>6. WorkersOK
  BY <1>2, <1>3 DEF WorkersOK
<1>7. LedgerOK
  BY <1>2, <1>3 DEF LedgerOK
<1>8. ReapersOK
  BY <1>1, <1>2 DEF ReapersOK, Reaping, Callers
<1>9. ClosingOK
  BY <1>1, <1>3 DEF ClosingOK, Closing
<1>10. QED BY <1>4, <1>5, <1>6, <1>7, <1>8, <1>9 DEF WorkersInv

\* The admission of an attempt, by start_attempt or by reserve.
LEMMA WorkersAdmit ==
  ASSUME Typed, Typed', Registry, WorkersInv, PrivacyKept, NEW c \in Clients,
         \/ \E i \in Instances : StartAttempt(c, i)
         \/ ReserveAttempt(c) /\ MayStartAttempt(frame[c].instance)
  PROVE  WorkersInv' /\ OutcomeStep
<1>t. /\ c \in Threads /\ frame[c] \in Frames /\ GoodFrame(c, frame[c]) /\ frame \in [Threads -> Frames]
      /\ attempt \in [Seqs -> AttemptControls] /\ entry \in [Instances -> OperationEntries]
  BY Kinds, FrameIsGood DEF Typed, TypeOK
<1>o. OutcomeStep
  BY OutcomeKept DEF StartAttempt, ReserveAttempt
<1>n. PICK n : n = next_sequence
  OBVIOUS
<1>1. ASSUME NEW i \in Instances, MayStartAttempt(i), NEW initial, StartAttemptInner(i, initial)
      PROVE  /\ n \in Seqs /\ phase = "running" /\ next_sequence' = n + 1
             /\ attempts' = attempts \cup {n} /\ attempt'[n].instance = i
             /\ entry'[i].explicit = entry[i].explicit
  <2>1. n \in Seqs
    BY <1>n, <1>1, BoundsAssumption DEF MayStartAttempt, Seqs, Typed, TypeOK
  <2>2. attempt'[n].instance = i
    BY <1>t, <1>n, <1>1, <2>1 DEF StartAttemptInner
  <2>3. entry' = [entry EXCEPT ![i].attempts = @ \cup {n}]
    BY <1>n, <1>1 DEF StartAttemptInner
  <2>4. entry'[i].explicit = entry[i].explicit
    BY <1>t, <2>3 DEF OperationEntries
  <2>5. QED BY <1>n, <1>1, <2>1, <2>2, <2>4 DEF MayStartAttempt, StartAttemptInner
<1>2. ASSUME NEW i \in Instances, StartAttempt(c, i) PROVE WorkersInv'
  <2>1. MayStartAttempt(i) /\ StartAttemptInner(i, "running") /\ shared' = shared \cup {n} /\ frame' = frame
        /\ UNCHANGED <<workers, worker_history, exited_worker_ids, joined_flag, shutdown, phase, poisoned>>
    BY <1>n, <1>2 DEF StartAttempt, workerVars
  <2>2. n \in Seqs /\ phase = "running" /\ next_sequence' = n + 1 /\ attempts' = attempts \cup {n}
    BY <1>1, <2>1
  <2>3. QED BY <1>n, <2>1, <2>2, WorkersStart
<1>3. ASSUME ReserveAttempt(c), MayStartAttempt(frame[c].instance) PROVE WorkersInv'
  <2>1. PICK i : i = frame[c].instance
    OBVIOUS
  <2>2. frame[c].pc = "create" /\ i \in Instances
    BY <1>t, <1>3, <2>1 DEF ReserveAttempt, At, GoodFrame
  <2>3. ~entry[i].explicit
    BY <2>1, <2>2 DEF Registry, ReservingOK, Reserving
  <2> DEFINE g == [NewFrame("reserved") EXCEPT !.lease = n]
  <2>4. g.pc = "reserved" /\ g.lease = n
    BY DEF NewFrame
  <2>5. StartAttemptInner(i, "reserved") /\ SetFrame(c, g)
    BY <1>n, <1>3, <2>1 DEF ReserveAttempt
  <2> HIDE DEF g
  <2>6. frame'[c] = g /\ \A u \in Threads \ {c} : frame'[u] = frame[u]
    BY <1>t, <2>5 DEF SetFrame
  <2>7. /\ n \in Seqs /\ phase = "running" /\ next_sequence' = n + 1 /\ attempts' = attempts \cup {n}
        /\ ~entry'[attempt'[n].instance].explicit
    BY <1>1, <1>3, <2>1, <2>2, <2>3, <2>5
  <2>8. UNCHANGED <<workers, worker_history, exited_worker_ids, joined_flag, shutdown, phase, poisoned, shared>>
    BY <1>3 DEF ReserveAttempt, workerVars
  <2>9. QED BY <1>n, <2>2, <2>4, <2>6, <2>7, <2>8, WorkersStart
<1>4. QED BY <1>o, <1>2, <1>3

\* The worker's last step.
LEMMA WorkersEnd ==
  ASSUME Typed, Typed', Registry, WorkersInv, PrivacyKept, NEW w \in Seqs, RecordWorkerExit(w)
  PROVE  WorkersInv' /\ OutcomeStep
<1>t. w \in Threads /\ frame[w] \in Frames /\ frame \in [Threads -> Frames]
  BY Kinds, FrameIsGood DEF Typed, TypeOK
<1> DEFINE g == Moved(frame[w], "dead")
<1>1. g.pc = "dead" /\ SetFrame(w, g)
  BY <1>t, MovedFields DEF Labels, RecordWorkerExit, Goto
<1> HIDE DEF g
<1>2. frame'[w] = g /\ \A u \in Threads \ {w} : frame'[u] = frame[u]
  BY <1>t, <1>1 DEF SetFrame
<1>3. /\ frame[w].pc = "exit" /\ exited_worker_ids' = exited_worker_ids \cup {w}
      /\ UNCHANGED <<next_sequence, attempts, workers, worker_history, joined_flag, shutdown,
                     phase, poisoned, shared>>
  BY DEF RecordWorkerExit, At, registryVars
<1>4. WorkersInv'
  BY <1>1, <1>2, <1>3, WorkersExit
<1>5. QED BY <1>3, <1>4, OutcomeKept

\* The inductive step.
LEMMA WorkersNext ==
  ASSUME Typed, Typed', Registry, WorkersInv, [Next]_vars
  PROVE  WorkersInv' /\ OutcomeStep
<1>p. PrivacyKept
  BY PrivacyNext
<1>c. ASSUME Still, CalmFrames PROVE WorkersInv' /\ OutcomeStep
  <2>1. WorkersInv'
    BY <1>c, <1>p, CalmStep
  <2>2. UNCHANGED shutdown
    BY <1>c DEF Still
  <2>3. QED BY <2>1, <2>2, OutcomeKept
<1>1. ASSUME NEW c \in Clients, ClientCall(c) PROVE WorkersInv' /\ OutcomeStep
  <2>1. CASE \E i \in Instances : StartAttempt(c, i)
    BY <1>p, <2>1, WorkersAdmit
  <2>2. CASE \/ \E id \in Ids : ReserveCreate(c, id) \/ CreateOperation(c, id)
             \/ \E i \in Instances : FinishOperation(c, i) \/ RequestOperationCancel(c, i)
             \/ \E s \in Seqs : FinishAttempt(c, s)
             \/ \E s \in Seqs, m \in Methods, k \in TerminalClasses : CallShared(c, s, m, k)
    BY <1>c, <2>2, CalmCall
  <2>3. QED BY <1>1, <2>1, <2>2 DEF ClientCall, Ids
<1>2. ASSUME NEW t \in Clients \cup Seqs, LeaseStep(t) PROVE WorkersInv' /\ OutcomeStep
  BY <1>c, <1>2, CalmLease
<1>3. ASSUME NEW c \in Clients, ClientStep(c) \/ ClientTask(c) PROVE WorkersInv' /\ OutcomeStep
  <2>1. CASE ReserveAttempt(c) /\ MayStartAttempt(frame[c].instance)
    BY <1>p, <2>1, WorkersAdmit
  <2>2. CASE \/ ReserveAttempt(c) /\ ~MayStartAttempt(frame[c].instance)
             \/ ReserveRollback(c) \/ Spawn(c) \/ (\E k \in TerminalClasses : FinishReservation(c, k))
             \/ JoinedCheck(c) \/ Recheck(c) \/ AwaitResult(c) \/ DropTask(c)
    BY <1>c, <2>2, CalmProgress
  <2>3. CASE Launch(c) \/ Register(c) \/ Rendezvous(c)
    BY <1>p, <2>3, WorkersSpawn
  <2>4. CASE ReapStep(c)
    BY <1>p, <2>4, Kinds, WorkersReap
  <2>5. CASE SweepStep(c)
    BY <1>c, <2>5, Kinds, CalmRest
  <2>6. QED BY <1>2, <1>3, <2>1, <2>2, <2>3, <2>4, <2>5 DEF ClientStep, ClientTask
<1>4. ASSUME NEW w \in Seqs, WorkerStep(w) \/ RequestCancel(w) PROVE WorkersInv' /\ OutcomeStep
  <2>1. CASE (\E outcome \in {"ok", "err", "panic"} : RunOperation(w, outcome)) \/ Send(w) \/ RequestCancel(w)
    BY <1>c, <2>1, CalmRest
  <2>2. CASE RecordWorkerExit(w)
    BY <1>p, <2>2, WorkersEnd
  <2>3. QED BY <1>2, <1>4, <2>1, <2>2 DEF WorkerStep
<1>5. ASSUME NEW t \in Closers, BeginQuiesce(t) \/ CloserStep(t) PROVE WorkersInv' /\ OutcomeStep
  <2>1. CASE BeginQuiesce(t) \/ CachedOutcome(t) \/ Drain(t) \/ SweepStep(t)
    BY <1>c, <2>1, Kinds, CalmRest
  <2>2. CASE Close(t)
    BY <1>p, <2>2, WorkersClose
  <2>3. CASE ReapStep(t)
    BY <1>p, <2>3, Kinds, WorkersReap
  <2>4. QED BY <1>5, <2>1, <2>2, <2>3 DEF CloserStep
<1>6. CASE Poison \/ (\E t \in Threads : SpuriousWake(t)) \/ UNCHANGED vars
  BY <1>c, <1>6, CalmRest
<1>7. QED BY <1>1, <1>3, <1>4, <1>5, <1>6 DEF Next

\* The inductive invariant holds in every reachable state.
LEMMA WorkersHold == Spec => [](Typed /\ Registry /\ WorkersInv)
<1>1. Init => Typed /\ Registry /\ WorkersInv
  BY TypedInit, RegistryInit, WorkersInit
<1>2. Typed /\ Registry /\ WorkersInv /\ [Next]_vars => (Typed /\ Registry /\ WorkersInv)'
  BY TypedNext, RegistryNext, WorkersNext
<1>3. QED BY <1>1, <1>2, PTL DEF Spec

(***************************************************************************)
(* While shutdown and SupervisedTask::wait compete in reap_worker, every   *)
(* join handle has exactly one owner, a worker is registered once, and no  *)
(* wait reports a reap error for a worker that ran, whatever the capacity  *)
(* of the completed-worker history.                                        *)
(***************************************************************************)
THEOREM WorkersReaped == Spec => []ReapInv
<1>1. Typed /\ Registry /\ WorkersInv => ReapInv
  <2> SUFFICES ASSUME Typed, Registry, WorkersInv PROVE ReapInv
    OBVIOUS
  <2>1. exited_worker_ids \subseteq worker_history.outstanding
    BY DEF WorkersInv, WorkersOK, LedgerOK, Typed, TypeOK
  <2>2. ASSUME NEW c \in Clients, frame[c].pc = "register"
        PROVE  CanNoteStarted(worker_history, frame[c].lease)
    <3>1. PICK s : s = frame[c].lease
      OBVIOUS
    <3>2. Owning(frame[c]) /\ Launched(frame[c])
      BY <2>2 DEF Owning, Launched
    <3>3. s \in Seqs /\ frame[s].pc = "recv"
      BY <3>1, <3>2, OwnerHas
    <3>4. workers[s] = "absent"
      BY <2>2, <3>1, <3>2 DEF WorkersInv, OwnersOK
    <3>5. s \notin worker_history.outstanding
      BY <3>4 DEF WorkersInv, LedgerOK
    <3>6. s \notin worker_history.joined
      BY <3>3 DEF WorkersInv, LedgerOK, WorkersOK
    <3>7. QED BY <3>1, <3>5, <3>6 DEF CanNoteStarted
  <2>3. JoinHandleOwned
    BY <2>1, <2>2 DEF JoinHandleOwned, WorkersInv, LedgerOK, ReapersOK, Callers
  <2>4. WaitNeverMisreports
    BY DEF WaitNeverMisreports, WorkersInv, ReapersOK
  <2>5. QED BY <2>3, <2>4 DEF ReapInv
<1>2. QED BY <1>1, WorkersHold, PTL

(***************************************************************************)
(* When shutdown has an outcome nothing is active, every worker thread     *)
(* that was created has ended and was joined, none can appear, and the     *)
(* outcome says so.                                                        *)
(***************************************************************************)
THEOREM ShutdownAlwaysSound == Spec => []ShutdownSound
<1>1. Typed /\ Registry /\ WorkersInv => ShutdownSound
  <2> SUFFICES ASSUME Typed, Registry, WorkersInv, shutdown # NoShutdown PROVE ShutdownSound
    BY DEF ShutdownSound
  <2>1. attempts = {} /\ \A w \in Seqs : workers[w] = "absent"
    BY DEF WorkersInv, ClosingOK, Closing
  <2>2. \A c \in Clients : ~Owning(frame[c])
    BY <2>1 DEF WorkersInv, OwnersOK
  <2>3. \A c \in Clients : frame[c].pc \notin {"launch", "register", "rendezvous"}
    BY <2>2 DEF Owning
  <2>4. \A w \in Seqs : frame[w].pc \in {"unborn", "dead"}
    BY <2>1, <2>3 DEF WorkersInv, WorkersOK, Launched
  <2>5. /\ phase = "closed" /\ shutdown.active_operations = {} /\ shutdown.retained_tasks = {}
        /\ shutdown.expected_worker_ids = shutdown.joined_worker_ids
    BY DEF WorkersInv, ClosingOK
  <2>6. QED BY <2>1, <2>3, <2>4, <2>5 DEF ShutdownSound
<1>2. QED BY <1>1, WorkersHold, PTL

(***************************************************************************)
(* Repeated and concurrent shutdowns agree: an outcome is never replaced   *)
(* by a different one, except to disclose that the mutex was poisoned      *)
(* since.                                                                  *)
(***************************************************************************)
THEOREM OutcomeStaysFinal == Spec => OutcomeFinal
<1>1. Typed /\ Registry /\ WorkersInv /\ (Typed /\ Registry /\ WorkersInv)' /\ [Next]_vars =>
        [shutdown # NoShutdown =>
           shutdown' \in {shutdown, [shutdown EXCEPT !.state_poisoned = TRUE]}]_vars
  BY WorkersNext DEF OutcomeStep
<1>2. QED BY <1>1, WorkersHold, PTL DEF Spec, OutcomeFinal
=============================================================================
