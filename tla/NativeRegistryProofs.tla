------------------------ MODULE NativeRegistryProofs ------------------------
(***************************************************************************)
(* What the native request registry and its speculative lane promise, for  *)
(* any ids, lanes and number of nonces: RequestsInv, CloseInv, the two     *)
(* action properties and the refinement of the operation contract, from    *)
(* the inductive invariant IInv.  Every behaviour of OpenSpec is one of    *)
(* Spec, so what is proved of Spec holds of both.                          *)
(***************************************************************************)
EXTENDS NativeRequestRegistry, FiniteSetTheorems, TLAPS

Requests ==
    [id : Ids \cup {"none"}, lane : Lanes \cup {"none"},
     phase : {"none", "reserved", "queued", "running", "terminal", "released"},
     cancelled : BOOLEAN, terminal : Classes \cup {"none"}]

-----------------------------------------------------------------------------
(* TypeOK in pieces.                                                       *)

RegistryTypes ==
    /\ phase \in {"running", "quiescing", "closed"}
    /\ next_nonce \in 0 .. MaxNonce
    /\ active \in [Ids -> Nonces \cup {None}]
    /\ joined_worker \in BOOLEAN /\ poisoned \in BOOLEAN

OutcomeTypes ==
    shutdown \in {NoOutcome} \cup
      [phase : {"closed"}, state_poisoned : BOOLEAN, active_operations : Nat,
       joined_worker : BOOLEAN]

RequestTypes == request \in [Nonces -> Requests] /\ leases \subseteq Nonces

OwnerTypes ==
    owner \in [pc : {"idle", "sweep", "cached", "wait", "asleep"},
               then : {"idle", "cached"}, snapshot : SUBSET Nonces]

LaneTypes ==
    /\ permits \subseteq Nonces /\ disabled \in BOOLEAN
    /\ admitted \in Nonces \cup {None}
    /\ preemption \in [foreground : Nonces \cup {None}, overdue : BOOLEAN]

-----------------------------------------------------------------------------
(* The inductive invariant.                                                *)

\* A nonce that was not handed out has left nothing; a request has its id and
\* lane from the start, a class from its terminal phase on, and is released
\* exactly when its lease is gone.
Born ==
    \A n \in Nonces :
      /\ n >= next_nonce => request[n] = NoRequest /\ n \notin leases
      /\ n < next_nonce =>
           /\ request[n].id \in Ids /\ request[n].phase # "none"
           /\ (request[n].phase = "released") = (n \notin leases)
           /\ (request[n].terminal # "none") = (request[n].phase \in {"terminal", "released"})

\* The entries and the leases say the same, in both directions.
Entries ==
    /\ \A n \in leases : active[request[n].id] = n
    /\ \A id \in Ids : active[id] # None => active[id] \in leases /\ request[active[id]].id = id

\* The permit is the one AdmissionState knows; a watch is of a foreground that
\* was reserved, and whoever held the lane when it began was cancelled.
Lane ==
    /\ permits = {admitted} \ {None}
    /\ admitted # None => admitted < next_nonce
    /\ preemption.foreground = None => preemption = NoWatch
    /\ preemption.foreground # None =>
         /\ preemption.foreground < next_nonce
         /\ request[preemption.foreground].lane = "foreground"
         /\ admitted # None => request[admitted].cancelled

\* Where the owner is, what it has still to cancel, and what a closed registry
\* and its outcome mean.
Closing ==
    /\ owner.pc = "sweep" => phase = "quiescing"
    /\ owner.pc \in {"cached", "wait", "asleep"} => phase # "running"
    /\ owner.pc \in {"wait", "asleep"} => shutdown = NoOutcome
    /\ phase # "running" =>
         \A n \in leases : request[n].cancelled \/ (owner.pc = "sweep" /\ n \in owner.snapshot)
    /\ phase = "closed" => leases = {}
    /\ shutdown # NoOutcome =>
         phase = "closed" /\ shutdown.active_operations = 0
           /\ (shutdown.joined_worker => joined_worker)

\* Whom the owner has still to cancel was reserved.
Swept == \A n \in owner.snapshot : n < next_nonce

IInv == TypeOK /\ Swept /\ Born /\ Entries /\ Lane /\ Closing

\* TypeOK is the conjunction of its pieces.
LEMMA TypeParts ==
    TypeOK <=> RegistryTypes /\ OutcomeTypes /\ RequestTypes /\ OwnerTypes /\ LaneTypes
BY DEF TypeOK, RegistryTypes, OutcomeTypes, RequestTypes, OwnerTypes, LaneTypes, Requests

-----------------------------------------------------------------------------
(* What a step does to the requests, the entries and the leases.           *)

Record(n, p, c, t) ==
    [id |-> request[n].id, lane |-> request[n].lane, phase |-> p, cancelled |-> c, terminal |-> t]

Kept == UNCHANGED <<next_nonce, active, request, leases>>

\* cancel_all of one control
Stopped(n) ==
    /\ n < next_nonce
    /\ request' = [request EXCEPT ![n] = Record(n, request[n].phase, TRUE, request[n].terminal)]
    /\ UNCHANGED <<next_nonce, active, leases>>

\* A method of the lease of n.
Moved(n, p, t) ==
    /\ n \in leases /\ request[n].terminal = "none"
    /\ \/ p \in {"queued", "running"} /\ t = "none"
       \/ p = "terminal" /\ t \in Classes
    /\ request' = [request EXCEPT ![n] = Record(n, p, request[n].cancelled, t)]
    /\ UNCHANGED <<next_nonce, active, leases>>

\* The drop of the lease of n.
Dropped(n, t) ==
    /\ n \in leases /\ t \in Classes
    /\ request[n].terminal # "none" => t = request[n].terminal
    /\ request' = [request EXCEPT ![n] = Record(n, "released", request[n].cancelled, t)]
    /\ leases' = leases \ {n}
    /\ active' = [active EXCEPT ![request[n].id] = None]
    /\ UNCHANGED next_nonce

\* A reservation.
Added(id, lane) ==
    /\ phase = "running" /\ active[id] = None /\ next_nonce < MaxNonce
    /\ next_nonce' = next_nonce + 1
    /\ active' = [active EXCEPT ![id] = next_nonce]
    /\ request' = [request EXCEPT ![next_nonce] =
                     [id |-> id, lane |-> lane, phase |-> "reserved", cancelled |-> FALSE,
                      terminal |-> "none"]]
    /\ leases' = leases \cup {next_nonce}
    /\ phase' = "running"

Summary ==
    \/ Kept
    \/ \E n \in Nonces : Stopped(n)
    \/ \E n \in Nonces, p \in {"queued", "running", "terminal"}, t \in Classes \cup {"none"} :
          Moved(n, p, t)
    \/ \E n \in Nonces, t \in Classes : Dropped(n, t)
    \/ \E id \in Ids, lane \in Lanes : Added(id, lane)

\* A cancellation sets the flag of one request and nothing else.
LEMMA CancelledRecord ==
    ASSUME RequestTypes, NEW n \in Nonces
    PROVE  Cancelled({n}) =
             [request EXCEPT ![n] = Record(n, request[n].phase, TRUE, request[n].terminal)]
<1>1. request[n] \in Requests
  BY DEF RequestTypes
<1>2. ASSUME NEW c
      PROVE  [request[n] EXCEPT !.cancelled = c] =
               Record(n, request[n].phase, c, request[n].terminal)
  BY <1>1 DEF Requests, Record
<1> QED BY <1>2 DEF Cancelled, RequestTypes

\* A transition writes the phase of its own request.
LEMMA PhaseRecord ==
    ASSUME RequestTypes, NEW n \in Nonces, NEW p, request' = [request EXCEPT ![n].phase = p]
    PROVE  request' =
             [request EXCEPT ![n] = Record(n, p, request[n].cancelled, request[n].terminal)]
<1>1. request[n] \in Requests
  BY DEF RequestTypes
<1>2. [request[n] EXCEPT !.phase = p] =
        Record(n, p, request[n].cancelled, request[n].terminal)
  BY <1>1 DEF Requests, Record
<1> QED BY <1>2 DEF RequestTypes

Settles(n, p, t) == request' = [request EXCEPT ![n].terminal = t, ![n].phase = p]

\* A terminal transition writes the class too.
LEMMA ClassRecord ==
    ASSUME RequestTypes, NEW n \in Nonces, NEW p, NEW t, Settles(n, p, t)
    PROVE  request' = [request EXCEPT ![n] = Record(n, p, request[n].cancelled, t)]
<1>1. request[n] \in Requests
  BY DEF RequestTypes
<1>2. [[request[n] EXCEPT !.terminal = t] EXCEPT !.phase = p] =
        Record(n, p, request[n].cancelled, t)
  <2>1. PICK x : x = [request[n] EXCEPT !.terminal = t]
    OBVIOUS
  <2>2. x = Record(n, request[n].phase, request[n].cancelled, t)
    BY <1>1, <2>1 DEF Requests, Record
  <2>3. [x EXCEPT !.phase = p] = Record(n, p, request[n].cancelled, t)
    BY <2>2 DEF Record
  <2> QED BY <2>1, <2>3
<1>3. [request EXCEPT ![n].terminal = t, ![n].phase = p] =
        [request EXCEPT ![n] = [[request[n] EXCEPT !.terminal = t] EXCEPT !.phase = p]]
  BY DEF RequestTypes
<1> QED BY <1>2, <1>3 DEF Settles

\* Every step of an executor, a canceller, an admission or the owner does one
\* of these to the requests.
LEMMA StepSummary ==
    ASSUME RegistryTypes, RequestTypes, OwnerTypes, LaneTypes, Born, Entries, Lane, Swept,
           [Next]_vars
    PROVE  Summary
<1>1. CASE \/ \E n \in Nonces : ReserveLane(n) \/ DropPermit(n) \/ ObserveForegroundRunning(n)
           \/ LimitPasses \/ Status \/ BeginQuiesce \/ Shutdown \/ SweepDone \/ CachedOutcome
           \/ Drain \/ RecordWorkerJoined \/ MarkClosed \/ Poison \/ UNCHANGED vars
  <2>1. Kept
    BY <1>1 DEF ReserveLane, DropPermit, ObserveForegroundRunning, LimitPasses, Status,
       BeginQuiesce, Shutdown, SweepDone, CachedOutcome, Drain, RecordWorkerJoined, MarkClosed,
       Poison, vars, registryVars, Kept
  <2> QED BY <2>1 DEF Summary
<1>2. ASSUME NEW id \in Ids, NEW lane \in Lanes, Reserve(id, lane) PROVE Summary
  <2>1. Added(id, lane)
    BY <1>2 DEF Reserve, Admitted, Added
  <2> QED BY <2>1 DEF Summary
<1>3. ASSUME NEW n \in Nonces, Queue(n) \/ Start(n) PROVE Summary
  <2>1. PICK p \in {"queued", "running"}, f \in {"reserved", "queued"} : Transition(n, f, p)
    BY <1>3 DEF Queue, Start
  <2>2. n < next_nonce
    BY <2>1, NonceAssumption DEF Transition, RequireCurrent, Born, RegistryTypes, Nonces
  <2>3. request[n].terminal = "none"
    BY <2>1, <2>2 DEF Transition, Born
  <2>4. Moved(n, p, "none")
    BY <2>1, <2>3, PhaseRecord DEF Transition, RequireCurrent, Moved, registryVars
  <2> QED BY <2>4 DEF Summary
<1>4. ASSUME NEW n \in Nonces, NEW class \in Classes, Terminal(n, class) \/ RejectQueued(n, class)
      PROVE  Summary
  <2>1. request' = [request EXCEPT ![n] = Record(n, "terminal", request[n].cancelled, class)]
    <3>1. Settles(n, "terminal", class)
      BY <1>4 DEF Terminal, RejectQueued, Settles
    <3> QED BY <3>1, ClassRecord
  <2>2. Moved(n, "terminal", class)
    BY <1>4, <2>1 DEF Terminal, RejectQueued, RequireCurrent, Moved, registryVars
  <2> QED BY <2>2 DEF Summary
<1>5. ASSUME NEW n \in Nonces, DropLease(n) PROVE Summary
  <2>1. RequireCurrent(n)
    BY <1>5 DEF DropLease, RequireCurrent, Entries
  <2>2. request[n] \in Requests
    BY DEF RequestTypes
  <2>3. Given(request[n]) \in Classes
        /\ (request[n].terminal # "none" => Given(request[n]) = request[n].terminal)
    BY <2>2 DEF Given, Classes, Requests
  <2>4. Dropped(n, Given(request[n]))
    <3>1. Settles(n, "released", Given(request[n]))
      BY <1>5, <2>1 DEF DropLease, Settles
    <3>2. request' = [request EXCEPT ![n] =
                        Record(n, "released", request[n].cancelled, Given(request[n]))]
      BY <3>1, ClassRecord
    <3> QED BY <1>5, <2>1, <2>3, <3>2 DEF DropLease, Dropped
  <2> QED BY <2>3, <2>4 DEF Summary
<1>6. ASSUME NEW n \in Nonces, CancelAll(n) \/ Sweep(n) PROVE Summary
  <2>1. n < next_nonce
    <3>1. CASE CancelAll(n)
      BY <3>1, NonceAssumption DEF CancelAll, Born, RegistryTypes, Nonces, NoRequest
    <3>2. CASE Sweep(n)
      BY <3>2, NonceAssumption DEF Sweep, Swept, RegistryTypes, Nonces
    <3> QED BY <1>6, <3>1, <3>2
  <2>2. request' = Cancelled({n}) /\ UNCHANGED <<next_nonce, active, leases>>
    BY <1>6 DEF CancelAll, Sweep, registryVars
  <2> QED BY <2>1, <2>2, CancelledRecord DEF Summary, Stopped
<1>7. ASSUME NEW n \in Nonces, PreemptForForeground(n) PROVE Summary
  <2>1. CASE request' = request
    BY <1>7, <2>1 DEF PreemptForForeground, Summary, Kept, registryVars
  <2>2. CASE admitted # None /\ request' = Cancelled({admitted})
    <3>1. admitted \in Nonces /\ admitted < next_nonce
      BY <2>2 DEF LaneTypes, Lane
    <3>2. Stopped(admitted)
      BY <1>7, <2>2, <3>1, CancelledRecord DEF PreemptForForeground, Stopped, registryVars
    <3> QED BY <3>1, <3>2 DEF Summary
  <2> QED BY <1>7, <2>1, <2>2 DEF PreemptForForeground
<1> QED BY <1>1, <1>2, <1>3, <1>4, <1>5, <1>6, <1>7
    DEF Next, RequestNext, OwnerNext, OwnerStep, Executor, Finish

-----------------------------------------------------------------------------
(* The parts of the invariant that follow from the summary.                *)

\* Requests and leases keep their types, whatever a step does to them.
LEMMA RequestTypesStep ==
    ASSUME RegistryTypes, RequestTypes, Born, Summary
    PROVE  RequestTypes'
<1>1. CASE Kept
  BY <1>1 DEF Kept, RequestTypes
<1>2. ASSUME NEW n \in Nonces, Stopped(n) PROVE RequestTypes'
  <2>1. Record(n, request[n].phase, TRUE, request[n].terminal) \in Requests
    BY DEF RequestTypes, Requests, Record
  <2> QED BY <1>2, <2>1 DEF Stopped, RequestTypes
<1>3. ASSUME NEW n \in Nonces, NEW p \in {"queued", "running", "terminal"},
             NEW t \in Classes \cup {"none"}, Moved(n, p, t)
      PROVE  RequestTypes'
  <2>1. Record(n, p, request[n].cancelled, t) \in Requests
    BY DEF RequestTypes, Requests, Record
  <2> QED BY <1>3, <2>1 DEF Moved, RequestTypes
<1>4. ASSUME NEW n \in Nonces, NEW t \in Classes, Dropped(n, t) PROVE RequestTypes'
  <2>1. Record(n, "released", request[n].cancelled, t) \in Requests
    BY DEF RequestTypes, Requests, Record
  <2> QED BY <1>4, <2>1 DEF Dropped, RequestTypes
<1>5. ASSUME NEW id \in Ids, NEW lane \in Lanes, Added(id, lane) PROVE RequestTypes'
  <2>1. next_nonce \in Nonces
    BY <1>5, NonceAssumption DEF Added, RegistryTypes, Nonces
  <2>2. [id |-> id, lane |-> lane, phase |-> "reserved", cancelled |-> FALSE,
         terminal |-> "none"] \in Requests
    BY DEF Requests
  <2> QED BY <1>5, <2>1, <2>2 DEF Added, RequestTypes
<1> QED BY <1>1, <1>2, <1>3, <1>4, <1>5 DEF Summary

\* Nonces are handed out in order, a class is written with the terminal phase,
\* and the drop of a lease releases its request.
LEMMA BornStep ==
    ASSUME RegistryTypes, RequestTypes, Born, Summary
    PROVE  Born'
<1>1. CASE Kept
  BY <1>1 DEF Kept, Born
<1>2. ASSUME NEW n \in Nonces, Stopped(n) PROVE Born'
  <2>1. /\ request'[n] = Record(n, request[n].phase, TRUE, request[n].terminal)
        /\ \A m \in Nonces \ {n} : request'[m] = request[m]
        /\ n < next_nonce /\ UNCHANGED <<next_nonce, leases>>
    BY <1>2 DEF Stopped, RequestTypes
  <2>2. \A m \in Nonces : /\ request'[m].id = request[m].id
                          /\ request'[m].phase = request[m].phase
                          /\ request'[m].terminal = request[m].terminal
    BY <2>1 DEF Record
  <2>3. \A m \in Nonces : m >= next_nonce => request'[m] = request[m]
    BY <2>1, NonceAssumption DEF RegistryTypes, Nonces
  <2> QED BY <2>1, <2>2, <2>3 DEF Born
<1>3. ASSUME NEW n \in Nonces, NEW p \in {"queued", "running", "terminal"},
             NEW t \in Classes \cup {"none"}, Moved(n, p, t)
      PROVE  Born'
  BY <1>3 DEF Moved, Born, Record, RequestTypes, Classes
<1>4. ASSUME NEW n \in Nonces, NEW t \in Classes, Dropped(n, t) PROVE Born'
  BY <1>4 DEF Dropped, Born, Record, RequestTypes, Classes
<1>5. ASSUME NEW id \in Ids, NEW lane \in Lanes, Added(id, lane) PROVE Born'
  <2>1. next_nonce \in Nonces /\ next_nonce' = next_nonce + 1
    BY <1>5, NonceAssumption DEF Added, RegistryTypes, Nonces
  <2>2. request'[next_nonce] = [id |-> id, lane |-> lane, phase |-> "reserved",
                                cancelled |-> FALSE, terminal |-> "none"]
        /\ \A m \in Nonces \ {next_nonce} : request'[m] = request[m]
    BY <1>5, <2>1 DEF Added, RequestTypes
  <2>3. leases' = leases \cup {next_nonce}
    BY <1>5 DEF Added
  <2> SUFFICES ASSUME NEW m \in Nonces
               PROVE  /\ m >= next_nonce' => request'[m] = NoRequest /\ m \notin leases'
                      /\ m < next_nonce' =>
                           /\ request'[m].id \in Ids /\ request'[m].phase # "none"
                           /\ (request'[m].phase = "released") = (m \notin leases')
                           /\ (request'[m].terminal # "none") =
                                (request'[m].phase \in {"terminal", "released"})
    BY DEF Born
  <2>4. CASE m = next_nonce
    BY <2>1, <2>2, <2>3, <2>4 DEF Nonces
  <2>5. CASE m # next_nonce
    BY <2>1, <2>2, <2>3, <2>5 DEF Born, Nonces
  <2> QED BY <2>4, <2>5
<1> QED BY <1>1, <1>2, <1>3, <1>4, <1>5 DEF Summary

\* An entry is written and removed together with its lease.
LEMMA EntriesStep ==
    ASSUME RegistryTypes, RequestTypes, Born, Entries, Summary
    PROVE  Entries'
<1>1. CASE Kept
  BY <1>1 DEF Kept, Entries
<1>2. ASSUME NEW n \in Nonces, Stopped(n) PROVE Entries'
  BY <1>2 DEF Stopped, Entries, Record, RequestTypes
<1>3. ASSUME NEW n \in Nonces, NEW p \in {"queued", "running", "terminal"},
             NEW t \in Classes \cup {"none"}, Moved(n, p, t)
      PROVE  Entries'
  BY <1>3 DEF Moved, Entries, Record, RequestTypes
<1>4. ASSUME NEW n \in Nonces, NEW t \in Classes, Dropped(n, t) PROVE Entries'
  <2>1. /\ \A m \in Nonces : request'[m].id = request[m].id
        /\ leases' = leases \ {n}
        /\ active' = [active EXCEPT ![request[n].id] = None]
    BY <1>4 DEF Dropped, Record, RequestTypes
  <2>2. request[n].id \in Ids /\ active[request[n].id] = n
    BY <1>4, NonceAssumption DEF Dropped, Entries, Born, RegistryTypes, Nonces
  <2> QED BY <2>1, <2>2 DEF Entries, RegistryTypes, RequestTypes
<1>5. ASSUME NEW id \in Ids, NEW lane \in Lanes, Added(id, lane) PROVE Entries'
  <2>1. next_nonce \in Nonces /\ next_nonce # None
    BY <1>5, NonceAssumption DEF Added, RegistryTypes, Nonces, None
  <2>2. request'[next_nonce].id = id
        /\ \A m \in Nonces \ {next_nonce} : request'[m] = request[m]
    BY <1>5, <2>1 DEF Added, RequestTypes
  <2>3. /\ leases' = leases \cup {next_nonce} /\ active[id] = None
        /\ active' = [active EXCEPT ![id] = next_nonce]
    BY <1>5 DEF Added
  <2>4. next_nonce \notin leases
    BY <2>1 DEF Born, Nonces
  <2>5. \A m \in leases : request[m].id \in Ids /\ m \in Nonces /\ m # None
    BY NonceAssumption DEF Born, RequestTypes, RegistryTypes, Nonces, None
  <2>6. \A m \in leases' : active'[request'[m].id] = m
    BY <2>1, <2>2, <2>3, <2>4, <2>5 DEF Entries, RegistryTypes, RequestTypes
  <2>7. ASSUME NEW i \in Ids, active'[i] # None
        PROVE  active'[i] \in leases' /\ request'[active'[i]].id = i
    BY <2>1, <2>2, <2>3, <2>4, <2>5, <2>7 DEF Entries, RegistryTypes, RequestTypes
  <2> QED BY <2>6, <2>7 DEF Entries
<1> QED BY <1>1, <1>2, <1>3, <1>4, <1>5 DEF Summary

\* What a cancellation, a phase and a lease can only become.
LEMMA Monotone ==
    ASSUME RegistryTypes, RequestTypes, Born, Summary
    PROVE  /\ next_nonce <= next_nonce'
           /\ \A m \in Nonces : m < next_nonce =>
                /\ request'[m].lane = request[m].lane
                /\ request[m].cancelled => request'[m].cancelled
<1> DEFINE Later == \A m \in Nonces : m < next_nonce =>
                      /\ request'[m].lane = request[m].lane
                      /\ request[m].cancelled => request'[m].cancelled
<1>0. next_nonce <= next_nonce
  BY NonceAssumption DEF RegistryTypes
<1>1. ASSUME Kept PROVE next_nonce' = next_nonce /\ Later
  BY <1>1 DEF Kept
<1>2. ASSUME NEW n \in Nonces, Stopped(n) PROVE next_nonce' = next_nonce /\ Later
  BY <1>2 DEF Stopped, Record, RequestTypes
<1>3. ASSUME NEW n \in Nonces, NEW p \in {"queued", "running", "terminal"},
             NEW t \in Classes \cup {"none"}, Moved(n, p, t)
      PROVE  next_nonce' = next_nonce /\ Later
  BY <1>3 DEF Moved, Record, RequestTypes
<1>4. ASSUME NEW n \in Nonces, NEW t \in Classes, Dropped(n, t)
      PROVE  next_nonce' = next_nonce /\ Later
  BY <1>4 DEF Dropped, Record, RequestTypes
<1>5. ASSUME NEW id \in Ids, NEW lane \in Lanes, Added(id, lane)
      PROVE  next_nonce <= next_nonce' /\ Later
  BY <1>5, NonceAssumption DEF Added, RegistryTypes, RequestTypes, Nonces
<1> HIDE DEF Later
<1>6. next_nonce <= next_nonce' /\ Later
  BY <1>0, <1>1, <1>2, <1>3, <1>4, <1>5 DEF Summary
<1> QED BY <1>6 DEF Later

-----------------------------------------------------------------------------
(* The registry, the owner and the lane.                                   *)

\* The phase, the nonces, the entries and the flags keep their types.
LEMMA RegistryTypesStep ==
    ASSUME RegistryTypes, RequestTypes, Born, Summary, [Next]_vars
    PROVE  RegistryTypes'
<1>0. next_nonce' \in 0 .. MaxNonce
  <2>1. next_nonce' = next_nonce \/ (next_nonce < MaxNonce /\ next_nonce' = next_nonce + 1)
    BY DEF Summary, Kept, Stopped, Moved, Dropped, Added
  <2> QED BY <2>1, NonceAssumption DEF RegistryTypes
<1>1. active' \in [Ids -> Nonces \cup {None}]
  <2>1. ASSUME NEW id \in Ids, NEW lane \in Lanes, Added(id, lane)
        PROVE  active' \in [Ids -> Nonces \cup {None}]
    <3>1. next_nonce \in Nonces
      BY <2>1, NonceAssumption DEF Added, RegistryTypes, Nonces
    <3> QED BY <2>1, <3>1 DEF Added, RegistryTypes
  <2>2. ASSUME NEW n \in Nonces, NEW t \in Classes, Dropped(n, t)
        PROVE  active' \in [Ids -> Nonces \cup {None}]
    BY <2>2 DEF Dropped, RegistryTypes
  <2> QED BY <2>1, <2>2 DEF RegistryTypes, Summary, Kept, Stopped, Moved
<1>2. phase' \in {"running", "quiescing", "closed"}
  BY DEF RegistryTypes, Next, RequestNext, OwnerNext, OwnerStep, Executor, Finish, Reserve,
     Admitted, Queue, Start, Transition, Terminal, RejectQueued, DropLease, CancelAll, Poison,
     Quiesced, BeginQuiesce, Shutdown, Sweep, SweepDone, CachedOutcome, Drain,
     RecordWorkerJoined, MarkClosed, ReserveLane, PreemptForForeground, LimitPasses,
     ObserveForegroundRunning, Status, DropPermit, vars, registryVars
<1>3. joined_worker' \in BOOLEAN /\ poisoned' \in BOOLEAN
  BY DEF RegistryTypes, Next, RequestNext, OwnerNext, OwnerStep, Executor, Finish, Reserve,
     Admitted, Queue, Start, Transition, Terminal, RejectQueued, DropLease, CancelAll, Poison,
     BeginQuiesce, Shutdown, Sweep, SweepDone, CachedOutcome, Drain,
     RecordWorkerJoined, MarkClosed, ReserveLane, PreemptForForeground, LimitPasses,
     ObserveForegroundRunning, Status, DropPermit, vars, registryVars
<1> QED BY <1>0, <1>1, <1>2, <1>3 DEF RegistryTypes

\* What a request's own steps leave to the owner: its place, unless they wake
\* it, and whom it still has to cancel.
Watched ==
    /\ UNCHANGED <<phase, joined_worker, shutdown, poisoned>>
    /\ \/ UNCHANGED owner
       \/ /\ owner.pc = "asleep"
          /\ owner' = [pc |-> "wait", then |-> owner.then, snapshot |-> owner.snapshot]

\* Only drained.notify_all reaches the owner from outside.
LEMMA RequestsWatch ==
    ASSUME OwnerTypes, RequestNext
    PROVE  Watched
<1>1. CASE owner' = owner
  BY <1>1 DEF RequestNext, Executor, Finish, Reserve, Admitted, Queue, Start, Transition, Terminal,
     RejectQueued, DropLease, CancelAll, ReserveLane, PreemptForForeground, LimitPasses,
     ObserveForegroundRunning, Status, DropPermit, registryVars, Watched
<1>2. CASE owner' # owner
  <2>1. NotifyAll
    BY <1>2 DEF RequestNext, Executor, Finish, Reserve, Admitted, Queue, Start, Transition,
     Terminal, RejectQueued, DropLease, CancelAll, ReserveLane, PreemptForForeground, LimitPasses,
     ObserveForegroundRunning, Status, DropPermit, NotifyAll
  <2>2. UNCHANGED <<phase, joined_worker, shutdown, poisoned>>
    BY DEF RequestNext, Executor, Finish, Reserve, Admitted, Queue, Start, Transition, Terminal,
     RejectQueued, DropLease, CancelAll, ReserveLane, PreemptForForeground, LimitPasses,
     ObserveForegroundRunning, Status, DropPermit, registryVars
  <2>3. [owner EXCEPT !.pc = "wait"] =
          [pc |-> "wait", then |-> owner.then, snapshot |-> owner.snapshot]
    BY DEF OwnerTypes
  <2> QED BY <1>2, <2>1, <2>2, <2>3 DEF NotifyAll, Watched
<1> QED BY <1>1, <1>2

\* The owner's place and its snapshot keep their types.
LEMMA OwnerTypesStep ==
    ASSUME RegistryTypes, OwnerTypes, [Next]_vars
    PROVE  OwnerTypes'
<1>1. CASE RequestNext
  BY <1>1, RequestsWatch DEF Watched, OwnerTypes
<1>2. CASE RecordWorkerJoined \/ MarkClosed \/ Poison \/ UNCHANGED vars
  BY <1>2 DEF RecordWorkerJoined, MarkClosed, Poison, vars, OwnerTypes
<1>3. CASE BeginQuiesce \/ Shutdown
  <2>1. Active \subseteq Nonces
    BY DEF Active, RegistryTypes
  <2> QED BY <1>3, <2>1 DEF BeginQuiesce, Shutdown, Quiesced, OwnerTypes
<1>4. CASE SweepDone \/ CachedOutcome \/ Drain
  BY <1>4 DEF SweepDone, CachedOutcome, Drain, OwnerTypes
<1>5. ASSUME NEW n \in Nonces, Sweep(n) PROVE OwnerTypes'
  BY <1>5 DEF Sweep, OwnerTypes
<1> QED BY <1>1, <1>2, <1>3, <1>4, <1>5 DEF Next, OwnerNext, OwnerStep

\* The outcome of a shutdown keeps its type: it counts an empty registry.
LEMMA OutcomeTypesStep ==
    ASSUME RegistryTypes, OutcomeTypes, [Next]_vars
    PROVE  OutcomeTypes'
<1>1. CASE shutdown' = shutdown
  BY <1>1 DEF OutcomeTypes
<1>2. CASE Drain /\ Active = {}
  <2>1. Cardinality(Active) = 0
    BY <1>2, FS_EmptySet
  <2>2. shutdown' = [phase |-> "closed", state_poisoned |-> poisoned,
                     active_operations |-> 0, joined_worker |-> joined_worker]
    BY <1>2, <2>1 DEF Drain
  <2> QED BY <2>2 DEF OutcomeTypes, RegistryTypes
<1>3. shutdown' = shutdown \/ (Drain /\ Active = {})
  BY DEF Next, RequestNext, OwnerNext, OwnerStep, Executor, Finish, Reserve,
     Admitted, Queue, Start, Transition, Terminal, RejectQueued, DropLease, CancelAll, Poison,
     Quiesced, BeginQuiesce, Shutdown, Sweep, SweepDone, CachedOutcome, Drain,
     RecordWorkerJoined, MarkClosed, ReserveLane, PreemptForForeground, LimitPasses,
     ObserveForegroundRunning, Status, DropPermit, vars, registryVars
<1> QED BY <1>1, <1>2, <1>3

\* The entries name exactly the leases.
LEMMA ActiveIsLeases ==
    ASSUME RegistryTypes, RequestTypes, Born, Entries
    PROVE  Active = leases
<1>1. ASSUME NEW n \in leases PROVE n \in Active
  <2>1. n \in Nonces /\ request[n].id \in Ids /\ n # None
    BY <1>1, NonceAssumption DEF RequestTypes, Born, RegistryTypes, Nonces, None
  <2>2. active[request[n].id] = n
    BY <1>1 DEF Entries
  <2> QED BY <2>1, <2>2 DEF Active
<1>2. Active \subseteq leases
  BY DEF Active, Entries
<1> QED BY <1>1, <1>2

\* Whom the owner has still to cancel was reserved.
LEMMA SweptStep ==
    ASSUME RegistryTypes, RequestTypes, OwnerTypes, Born, Entries, Swept, Summary, [Next]_vars
    PROVE  Swept'
<1>1. next_nonce <= next_nonce'
  BY Monotone
<1>2. next_nonce \in Int /\ next_nonce' \in Int
  BY NonceAssumption, RegistryTypesStep DEF RegistryTypes
<1>3. owner'.snapshot \subseteq owner.snapshot \/ owner'.snapshot = Active
  <2>1. CASE RequestNext
    BY <2>1, RequestsWatch DEF Watched
  <2>2. CASE RecordWorkerJoined \/ MarkClosed \/ Poison \/ UNCHANGED vars
    BY <2>2 DEF RecordWorkerJoined, MarkClosed, Poison, vars
  <2>3. CASE BeginQuiesce \/ Shutdown
    BY <2>3 DEF BeginQuiesce, Shutdown, Quiesced, OwnerTypes
  <2>4. CASE SweepDone \/ CachedOutcome \/ Drain
    BY <2>4 DEF SweepDone, CachedOutcome, Drain, OwnerTypes
  <2>5. ASSUME NEW n \in Nonces, Sweep(n) PROVE owner'.snapshot \subseteq owner.snapshot
    BY <2>5 DEF Sweep, OwnerTypes
  <2> QED BY <2>1, <2>2, <2>3, <2>4, <2>5 DEF Next, OwnerNext, OwnerStep
<1>4. \A n \in Active : n < next_nonce
  <2>1. ASSUME NEW n \in leases PROVE n < next_nonce
    BY <1>2, <2>1, NonceAssumption DEF Born, RequestTypes, Nonces
  <2> QED BY <2>1, ActiveIsLeases
<1> QED BY <1>1, <1>2, <1>3, <1>4 DEF Swept, OwnerTypes, Nonces, Active, RegistryTypes

\* Once a quiesce took its snapshot nobody is reserved, so whoever is active
\* was cancelled or is still in the snapshot; a closed registry stays empty.
LEMMA ClosingStep ==
    ASSUME RegistryTypes, OutcomeTypes, RequestTypes, OwnerTypes, Born, Entries, Closing, Summary,
           [Next]_vars
    PROVE  Closing'
<1>0. Active = leases
  BY ActiveIsLeases
<1>m. ASSUME phase # "running" PROVE leases' \subseteq leases
  BY <1>m DEF Summary, Kept, Stopped, Moved, Dropped, Added
<1>c. ASSUME NEW m \in leases PROVE request[m].cancelled => request'[m].cancelled
  <2>1. m \in Nonces /\ m < next_nonce
    BY <1>c, NonceAssumption DEF Born, RequestTypes, RegistryTypes, Nonces
  <2> QED BY <2>1, Monotone
<1>1. CASE Watched
  <2>1. CASE phase = "running"
    BY <1>1, <2>1 DEF Watched, Closing
  <2>2. CASE phase # "running"
    BY <1>1, <2>2, <1>m, <1>c DEF Watched, Closing
  <2> QED BY <2>1, <2>2
<1>2. CASE /\ UNCHANGED <<phase, owner, shutdown, leases, request>>
           /\ joined_worker => joined_worker'
  BY <1>2 DEF Closing, OutcomeTypes
<1>3. CASE MarkClosed
  BY <1>3, <1>0 DEF MarkClosed, Closing
<1>4. CASE BeginQuiesce \/ Shutdown
  <2>1. UNCHANGED <<joined_worker, shutdown, leases, request>> /\ owner.pc = "idle"
    BY <1>4 DEF BeginQuiesce, Shutdown
  <2>2. PICK then \in {"idle", "cached"} : Quiesced(then)
    BY <1>4 DEF BeginQuiesce, Shutdown
  <2>3. CASE phase = "closed"
    <3>1. owner' = [owner EXCEPT !.pc = then] /\ phase' = phase
      BY <2>2, <2>3 DEF Quiesced
    <3>2. owner'.pc = then
      BY <3>1 DEF OwnerTypes
    <3> QED BY <2>1, <2>3, <3>1, <3>2 DEF Closing
  <2>4. CASE phase # "closed"
    <3>1. phase' = "quiescing" /\ owner'.pc = "sweep" /\ owner'.snapshot = leases
      BY <1>0, <2>2, <2>4 DEF Quiesced
    <3> QED BY <2>1, <2>4, <3>1 DEF Closing
  <2> QED BY <2>3, <2>4
<1>5. ASSUME NEW n \in Nonces, Sweep(n) PROVE Closing'
  <2>1. /\ UNCHANGED <<phase, joined_worker, shutdown, leases>> /\ owner.pc = "sweep"
        /\ owner' = [owner EXCEPT !.snapshot = @ \ {n}]
        /\ request' = Cancelled({n})
    BY <1>5 DEF Sweep, registryVars
  <2>2. owner'.pc = "sweep" /\ owner'.snapshot = owner.snapshot \ {n}
    BY <2>1 DEF OwnerTypes
  <2>3. request'[n].cancelled
    <3>1. request'[n] = Record(n, request[n].phase, TRUE, request[n].terminal)
      BY <2>1, CancelledRecord DEF RequestTypes
    <3> QED BY <3>1 DEF Record
  <2> QED BY <2>1, <2>2, <2>3, <1>c DEF Closing
<1>6. CASE SweepDone
  <2>1. /\ UNCHANGED <<phase, joined_worker, shutdown, leases, request>>
        /\ owner.pc = "sweep" /\ owner.snapshot = {}
        /\ owner'.pc = owner.then /\ owner.then \in {"idle", "cached"}
    BY <1>6 DEF SweepDone, registryVars, OwnerTypes
  <2> QED BY <2>1 DEF Closing
<1>7. CASE CachedOutcome
  <2>1. /\ UNCHANGED <<phase, joined_worker, shutdown, leases, request>> /\ owner.pc = "cached"
        /\ owner'.pc = IF shutdown # NoOutcome THEN "idle" ELSE "wait"
    BY <1>7 DEF CachedOutcome, registryVars, OwnerTypes
  <2> QED BY <2>1 DEF Closing
<1>8. CASE Drain
  <2>1. CASE Active # {}
    <3>1. /\ UNCHANGED <<phase, joined_worker, shutdown, leases, request>> /\ owner.pc = "wait"
          /\ owner'.pc = "asleep"
      BY <1>8, <2>1 DEF Drain, OwnerTypes
    <3> QED BY <3>1 DEF Closing
  <2>2. CASE Active = {}
    <3>1. Cardinality(Active) = 0
      BY <2>2, FS_EmptySet
    <3>2. /\ UNCHANGED <<joined_worker, leases, request>> /\ phase' = "closed"
          /\ owner'.pc = "idle"
          /\ shutdown' = [phase |-> "closed", state_poisoned |-> poisoned,
                          active_operations |-> 0, joined_worker |-> joined_worker]
      BY <1>8, <2>2, <3>1 DEF Drain, OwnerTypes
    <3>3. shutdown'.active_operations = 0 /\ (shutdown'.joined_worker => joined_worker')
      BY <3>2
    <3> QED BY <1>0, <2>2, <3>2, <3>3 DEF Closing
  <2> QED BY <2>1, <2>2
<1>9. CASE RequestNext
  BY <1>1, <1>9, RequestsWatch
<1>10. CASE RecordWorkerJoined \/ Poison \/ UNCHANGED vars
  BY <1>2, <1>10 DEF RecordWorkerJoined, Poison, vars, registryVars
<1> QED BY <1>3, <1>4, <1>5, <1>6, <1>7, <1>8, <1>9, <1>10 DEF Next, OwnerNext, OwnerStep

\* The lane's permit and watch keep their types.
LEMMA LaneTypesStep ==
    ASSUME LaneTypes, [Next]_vars
    PROVE  LaneTypes'
<1>1. CASE UNCHANGED laneVars
  BY <1>1 DEF laneVars, LaneTypes
<1>2. /\ NoWatch \in [foreground : Nonces \cup {None}, overdue : BOOLEAN]
      /\ Retired \in {NoWatch, preemption}
  BY DEF NoWatch, Retired
<1>3. ASSUME NEW n \in Nonces, ReserveLane(n) \/ DropPermit(n) \/ ObserveForegroundRunning(n)
      PROVE  LaneTypes'
  BY <1>2, <1>3 DEF ReserveLane, DropPermit, ObserveForegroundRunning, LaneTypes
<1>4. ASSUME NEW n \in Nonces, PreemptForForeground(n) PROVE LaneTypes'
  <2>1. preemption' = [foreground |-> n, overdue |-> FALSE] \/ preemption' = Retired
    BY <1>4 DEF PreemptForForeground
  <2>2. preemption' \in [foreground : Nonces \cup {None}, overdue : BOOLEAN]
    <3>1. [foreground |-> n, overdue |-> FALSE] \in
             [foreground : Nonces \cup {None}, overdue : BOOLEAN]
      OBVIOUS
    <3> QED BY <1>2, <2>1, <3>1 DEF LaneTypes
  <2>3. UNCHANGED <<disabled, admitted, permits>>
    BY <1>4 DEF PreemptForForeground
  <2> QED BY <2>2, <2>3 DEF LaneTypes
<1>5. CASE LimitPasses \/ Status
  BY <1>2, <1>5 DEF LimitPasses, Status, LaneTypes
<1>6. CASE \/ OwnerNext \/ Poison \/ UNCHANGED vars
           \/ \E id \in Ids, lane \in Lanes : Reserve(id, lane)
           \/ \E n \in Nonces : \/ Queue(n) \/ Start(n) \/ Finish(n) \/ DropLease(n) \/ CancelAll(n)
                                \/ \E class \in Classes : RejectQueued(n, class)
  <2>1. UNCHANGED laneVars
    BY <1>6 DEF OwnerNext, OwnerStep, Finish, Reserve, Admitted, Queue, Start, Transition, Terminal,
       RejectQueued, DropLease, CancelAll, Poison, BeginQuiesce, Shutdown, Sweep, SweepDone,
       CachedOutcome, Drain, RecordWorkerJoined, MarkClosed, vars
  <2> QED BY <1>1, <2>1
<1> QED BY <1>3, <1>4, <1>5, <1>6 DEF Next, RequestNext, Executor

\* A watch begins with the cancellation of the holder of the lane, and the lane
\* is given to nobody before the watch is over.
LEMMA LaneStep ==
    ASSUME RegistryTypes, RequestTypes, LaneTypes, Born, Lane, Summary, [Next]_vars
    PROVE  Lane'
<1>0. next_nonce \in Int /\ next_nonce' \in Int /\ next_nonce <= next_nonce'
  BY NonceAssumption, RegistryTypesStep, Monotone DEF RegistryTypes
<1>m. \A m \in Nonces : m < next_nonce =>
        /\ m < next_nonce' /\ request'[m].lane = request[m].lane
        /\ request[m].cancelled => request'[m].cancelled
  BY <1>0, Monotone DEF Nonces
<1>n. \A n \in Nonces : n # None /\ (request[n].lane # "none" => n < next_nonce)
  BY <1>0, NonceAssumption DEF Born, NoRequest, Nonces, None
<1>w. NoWatch.foreground = None
  BY DEF NoWatch
<1>1. CASE UNCHANGED laneVars
  BY <1>1, <1>m DEF laneVars, Lane, LaneTypes
<1>2. Retired \in {NoWatch, preemption}
  BY DEF Retired
<1>3. ASSUME NEW n \in Nonces, ReserveLane(n) PROVE Lane'
  <2>1. n < next_nonce
    BY <1>3, <1>n DEF ReserveLane
  <2>2. preemption' = Retired /\ request' = request /\ next_nonce' = next_nonce
    BY <1>3 DEF ReserveLane, registryVars
  <2>3. CASE admitted' = n /\ permits' = permits \cup {n} /\ admitted = None /\ Retired = NoWatch
    BY <2>1, <2>2, <2>3, <1>n, <1>w DEF Lane
  <2>4. CASE UNCHANGED <<admitted, permits>>
    BY <2>2, <2>4, <1>2, <1>w DEF Lane
  <2> QED BY <1>3, <2>3, <2>4 DEF ReserveLane
<1>4. ASSUME NEW n \in Nonces, PreemptForForeground(n) PROVE Lane'
  <2>1. n < next_nonce /\ request[n].lane = "foreground" /\ UNCHANGED <<admitted, permits>>
    BY <1>4, <1>n DEF PreemptForForeground
  <2>2. CASE preemption' = Retired
    BY <2>1, <2>2, <1>2, <1>w, <1>m DEF Lane, LaneTypes
  <2>3. CASE admitted # None /\ request' = Cancelled({admitted})
             /\ preemption' = [foreground |-> n, overdue |-> FALSE]
    <3>1. admitted \in Nonces /\ admitted < next_nonce
      BY <2>3 DEF LaneTypes, Lane
    <3>2. request'[admitted] =
            Record(admitted, request[admitted].phase, TRUE, request[admitted].terminal)
      BY <2>3, <3>1, CancelledRecord DEF RequestTypes
    <3>3. request'[admitted].cancelled
      BY <3>2 DEF Record
    <3>4. preemption'.foreground = n
      BY <2>3
    <3> QED BY <2>1, <3>1, <3>3, <3>4, <1>m, <1>n DEF Lane
  <2> QED BY <1>4, <2>2, <2>3 DEF PreemptForForeground
<1>5. CASE LimitPasses
  <2>1. preemption'.foreground = preemption.foreground /\ preemption # NoWatch
        /\ UNCHANGED <<admitted, permits>>
    BY <1>5 DEF LimitPasses, LaneTypes
  <2> QED BY <2>1, <1>m DEF Lane, LaneTypes
<1>6. CASE Status
  <2>1. preemption' = Retired /\ UNCHANGED <<admitted, permits>>
    BY <1>6 DEF Status
  <2> QED BY <2>1, <1>2, <1>w, <1>m DEF Lane, LaneTypes
<1>7. ASSUME NEW n \in Nonces, ObserveForegroundRunning(n) PROVE Lane'
  <2>1. preemption' = NoWatch /\ UNCHANGED <<admitted, permits>>
    BY <1>7 DEF ObserveForegroundRunning
  <2> QED BY <2>1, <1>w, <1>m DEF Lane, LaneTypes
<1>8. ASSUME NEW n \in Nonces, DropPermit(n) PROVE Lane'
  <2>1. admitted = n /\ n # None
    BY <1>8, <1>n DEF DropPermit, Lane
  <2>2. admitted' = None /\ permits' = permits \ {n} /\ preemption' = preemption
    BY <1>8, <2>1 DEF DropPermit
  <2> QED BY <2>1, <2>2, <1>m DEF Lane, LaneTypes
<1>9. CASE \/ OwnerNext \/ Poison \/ UNCHANGED vars
           \/ \E id \in Ids, lane \in Lanes : Reserve(id, lane)
           \/ \E n \in Nonces : \/ Queue(n) \/ Start(n) \/ Finish(n) \/ DropLease(n) \/ CancelAll(n)
                                \/ \E class \in Classes : RejectQueued(n, class)
  <2>1. UNCHANGED laneVars
    BY <1>9 DEF OwnerNext, OwnerStep, Finish, Reserve, Admitted, Queue, Start, Transition, Terminal,
       RejectQueued, DropLease, CancelAll, Poison, BeginQuiesce, Shutdown, Sweep, SweepDone,
       CachedOutcome, Drain, RecordWorkerJoined, MarkClosed, vars
  <2> QED BY <1>1, <2>1
<1> QED BY <1>3, <1>4, <1>5, <1>6, <1>7, <1>8, <1>9 DEF Next, RequestNext, Executor

-----------------------------------------------------------------------------
(* The invariant and what it implies.                                      *)

\* A new registry and a new admission satisfy the invariant.
LEMMA InitInv == Init => IInv
<1> SUFFICES ASSUME Init PROVE IInv
  OBVIOUS
<1>1. RegistryTypes /\ OutcomeTypes /\ OwnerTypes
  <2>1. RegistryTypes
    <3>1. joined_worker \in BOOLEAN /\ poisoned \in BOOLEAN
      BY DEF Init
    <3>2. next_nonce \in 0 .. MaxNonce /\ active \in [Ids -> Nonces \cup {None}]
      BY NonceAssumption DEF Init
    <3> QED BY <3>1, <3>2 DEF Init, RegistryTypes
  <2>2. OutcomeTypes
    BY DEF Init, OutcomeTypes
  <2>3. OwnerTypes
    BY DEF Init, OwnerTypes
  <2> QED BY <2>1, <2>2, <2>3
<1>2. RequestTypes
  <2>1. NoRequest \in Requests
    BY DEF NoRequest, Requests
  <2> QED BY <2>1 DEF Init, RequestTypes
<1>3. LaneTypes
  BY DEF Init, LaneInit, LaneTypes, NoWatch
<1>4. Swept /\ Born /\ Entries
  BY NonceAssumption DEF Init, Swept, Born, Entries, Nonces
<1>5. Lane
  BY DEF Init, LaneInit, Lane, NoWatch
<1>6. Closing
  BY DEF Init, Closing
<1> QED BY <1>1, <1>2, <1>3, <1>4, <1>5, <1>6, TypeParts DEF IInv

\* Every step of an executor, a canceller, an admission or the owner preserves it.
LEMMA StepInv == IInv /\ [Next]_vars => IInv'
<1> SUFFICES ASSUME IInv, [Next]_vars PROVE IInv'
  OBVIOUS
<1>1. /\ RegistryTypes /\ OutcomeTypes /\ RequestTypes /\ OwnerTypes /\ LaneTypes
      /\ Swept /\ Born /\ Entries /\ Lane /\ Closing
  BY TypeParts DEF IInv
<1>2. Summary
  BY <1>1, StepSummary
<1>3. RegistryTypes' /\ OutcomeTypes' /\ RequestTypes' /\ OwnerTypes' /\ LaneTypes'
  BY <1>1, <1>2, RegistryTypesStep, OutcomeTypesStep, RequestTypesStep, OwnerTypesStep,
     LaneTypesStep
<1>4. TypeOK'
  BY <1>3 DEF TypeOK, RegistryTypes, OutcomeTypes, RequestTypes, OwnerTypes, LaneTypes, Requests
<1>5. Swept' /\ Born' /\ Entries' /\ Lane' /\ Closing'
  BY <1>1, <1>2, SweptStep, BornStep, EntriesStep, LaneStep, ClosingStep
<1> QED BY <1>4, <1>5 DEF IInv

\* The invariant holds in every reachable state.
LEMMA Invariant == Spec => []IInv
<1> QED BY InitInv, StepInv, PTL DEF Spec

(***************************************************************************)
(* Between any two calls, and whether or not somebody closes the registry: *)
(* the ids are held exactly by the leases, the speculative lane is         *)
(* exclusive, a preemption keeps it free for its foreground, and no        *)
(* foreground that is gone keeps it.                                       *)
(***************************************************************************)
THEOREM RequestsSound == Spec => []RequestsInv
<1>1. ASSUME IInv PROVE RequestsInv
  <2>0. /\ RegistryTypes /\ RequestTypes /\ LaneTypes /\ Born /\ Entries /\ Lane
    BY <1>1, TypeParts DEF IInv
  <2>1. \A n \in leases : n \in Nonces /\ n < next_nonce /\ request[n].phase # "released"
    BY <2>0, NonceAssumption DEF Born, RequestTypes, RegistryTypes, Nonces
  <2>2. HeldByLease
    BY <2>0, <2>1, ActiveIsLeases DEF HeldByLease, Entries
  <2>3. LaneHeld
    BY <2>0 DEF Lane, LaneHeld, NoWatch
  <2>4. LaneUsable
    <3> SUFFICES ASSUME permits = {}, ~disabled, \A n \in leases : request[n].lane # "foreground"
                 PROVE  LaneStatus = "available"
      BY DEF LaneUsable
    <3>1. admitted = None
      BY <2>0 DEF Lane
    <3>2. Retired = NoWatch
      <4>1. CASE preemption = NoWatch
        BY <4>1 DEF Retired
      <4>2. CASE preemption # NoWatch
        <5>1. preemption.foreground \in Nonces /\ preemption.foreground < next_nonce
              /\ request[preemption.foreground].lane = "foreground"
          BY <2>0, <4>2 DEF Lane, LaneTypes
        <5>2. request[preemption.foreground].phase = "released"
          BY <2>0, <5>1 DEF Born
        <5> QED BY <4>2, <5>2 DEF Retired
      <4> QED BY <4>1, <4>2
    <3> QED BY <3>1, <3>2 DEF LaneStatus
  <2> QED BY <2>2, <2>3, <2>4 DEF RequestsInv
<1> QED BY Invariant, <1>1, PTL

(***************************************************************************)
(* While the registry quiesces and closes, whoever is active was asked to  *)
(* stop, and a closed registry has no request, with or without a poison.   *)
(***************************************************************************)
THEOREM CloseSound == Spec => []CloseInv
<1>1. ASSUME IInv PROVE CloseInv
  <2>0. Active = leases
    BY <1>1, ActiveIsLeases, TypeParts DEF IInv
  <2>1. QuiescedCancelled
    BY <1>1, <2>0 DEF IInv, Closing, QuiescedCancelled
  <2>2. ClosedEmpty
    BY <1>1, <2>0 DEF IInv, Closing, ClosedEmpty
  <2> QED BY <1>1, <2>1, <2>2 DEF IInv, CloseInv
<1> QED BY Invariant, <1>1, PTL

(***************************************************************************)
(* Closed is final, and so is the outcome every later shutdown answers:    *)
(* begin_quiesce_and_cancel_all does not reopen a closed registry, and an  *)
(* owner that waits has seen no outcome.                                   *)
(***************************************************************************)
THEOREM ClosedIsFinal == Spec => ClosedStays
<1>1. ASSUME IInv, [Next]_vars
      PROVE  /\ phase = "closed" => phase' = "closed"
             /\ shutdown # NoOutcome => shutdown' = shutdown
  <2>0. OwnerTypes /\ Closing
    BY <1>1, TypeParts DEF IInv
  <2>1. CASE RequestNext
    BY <2>0, <2>1, RequestsWatch DEF Watched
  <2>2. CASE OwnerNext \/ Poison \/ UNCHANGED vars
    BY <2>0, <2>2 DEF OwnerNext, OwnerStep, BeginQuiesce, Shutdown, Quiesced, Sweep, SweepDone,
       CachedOutcome, Drain, RecordWorkerJoined, MarkClosed, Poison, Closing, vars, registryVars
  <2> QED BY <1>1, <2>1, <2>2 DEF Next
<1>2. ASSUME IInv, [Next]_vars
      PROVE  [/\ phase = "closed" => phase' = "closed"
              /\ shutdown # NoOutcome => shutdown' = shutdown]_vars
  BY <1>1, <1>2
<1> QED BY Invariant, <1>2, PTL DEF Spec, ClosedStays

(***************************************************************************)
(* A watch ends only when its own foreground runs or was released, and the *)
(* lane is disabled only for a foreground that runs, late.                 *)
(***************************************************************************)
THEOREM PreemptionIsMeasured == Spec => PreemptionMeasured
<1> DEFINE Measured ==
      /\ preemption # NoWatch /\ preemption'.foreground # preemption.foreground
           => request[preemption.foreground].phase \in {"running", "released"}
      /\ disabled' # disabled
           => preemption.overdue /\ request[preemption.foreground].phase = "running"
<1>1. ASSUME IInv, [Next]_vars PROVE Measured
  <2>0. LaneTypes /\ Lane
    BY <1>1, TypeParts DEF IInv
  <2>1. CASE UNCHANGED <<disabled, preemption>>
    BY <2>1
  <2>2. CASE preemption' = Retired /\ UNCHANGED disabled
    BY <2>2 DEF Retired
  <2>3. ASSUME NEW n \in Nonces, PreemptForForeground(n) PROVE Measured
    <3>1. UNCHANGED disabled /\ (preemption' = Retired \/ Retired = NoWatch)
      BY <2>3 DEF PreemptForForeground
    <3> QED BY <3>1 DEF Retired
  <2>4. ASSUME NEW n \in Nonces, ObserveForegroundRunning(n) PROVE Measured
    BY <2>0, <2>4 DEF ObserveForegroundRunning, LaneTypes
  <2>5. CASE LimitPasses
    BY <2>0, <2>5 DEF LimitPasses, LaneTypes
  <2>6. CASE \/ OwnerNext \/ Poison \/ UNCHANGED vars
             \/ \E id \in Ids, lane \in Lanes : Reserve(id, lane)
             \/ \E n \in Nonces : \/ Queue(n) \/ Start(n) \/ Finish(n) \/ DropLease(n)
                                  \/ CancelAll(n) \/ DropPermit(n)
                                  \/ \E class \in Classes : RejectQueued(n, class)
    <3>1. UNCHANGED <<disabled, preemption>>
      BY <2>6 DEF OwnerNext, OwnerStep, Finish, Reserve, Admitted, Queue, Start, Transition,
         Terminal, RejectQueued, DropLease, CancelAll, Poison, BeginQuiesce, Shutdown, Sweep,
         SweepDone, CachedOutcome, Drain, RecordWorkerJoined, MarkClosed, DropPermit, vars, laneVars
    <3> QED BY <2>1, <3>1
  <2>7. CASE Status \/ \E n \in Nonces : ReserveLane(n)
    BY <2>2, <2>7 DEF Status, ReserveLane
  <2> QED BY <1>1, <2>3, <2>4, <2>5, <2>6, <2>7 DEF Next, RequestNext, Executor
<1>2. ASSUME IInv, [Next]_vars PROVE [Measured]_vars
  BY <1>1, <1>2
<1> QED BY Invariant, <1>2, PTL DEF Spec, PreemptionMeasured

-----------------------------------------------------------------------------
(* The refinement of the operation contract.                               *)

\* The contract's generation of the nonce n is n + 1.
LEMMA NonceSeqs ==
    /\ \A n \in Nonces : n + 1 \in 1 .. MaxNonce /\ (n + 1) - 1 = n /\ n + 1 # 0
    /\ \A s \in 1 .. MaxNonce : s - 1 \in Nonces /\ (s - 1) + 1 = s
BY NonceAssumption DEF Nonces

AbstractActive == [id \in Ids |-> active[id] + 1]

AbstractOutcome == [s \in 1 .. MaxNonce |-> Outcome(s - 1)]

\* What the contract says of a request with the record r.
OutcomeOf(r) ==
    IF r.phase = "none" THEN "unborn"
    ELSE IF r.terminal # "none" THEN r.terminal
    ELSE IF r.cancelled THEN "cancelling" ELSE "open"

\* An outcome depends only on the record of its request.
LEMMA OutcomeIs ==
    \A n \in Nonces : Outcome(n) = OutcomeOf(request[n]) /\ Outcome(n)' = OutcomeOf(request'[n])
BY DEF Outcome, OutcomeOf

\* A step that writes one record changes one outcome of the contract.
LEMMA OneOutcome ==
    ASSUME RequestTypes, NEW n \in Nonces, NEW r, request' = [request EXCEPT ![n] = r]
    PROVE  AbstractOutcome' = [AbstractOutcome EXCEPT ![n + 1] = OutcomeOf(r)]
<1>1. request'[n] = r /\ \A m \in Nonces \ {n} : request'[m] = request[m]
  BY DEF RequestTypes
<1>2. n + 1 \in 1 .. MaxNonce /\ Outcome((n + 1) - 1)' = OutcomeOf(r)
  BY <1>1, NonceSeqs, OutcomeIs
<1>3. ASSUME NEW s \in 1 .. MaxNonce, s # n + 1 PROVE Outcome(s - 1)' = Outcome(s - 1)
  <2>1. s - 1 \in Nonces \ {n}
    BY <1>3, NonceAssumption DEF Nonces
  <2> QED BY <1>1, <2>1, OutcomeIs
<1> QED BY <1>2, <1>3 DEF AbstractOutcome

\* The entry of a lease is the generation of its nonce.
LEMMA LeaseActive ==
    ASSUME RegistryTypes, RequestTypes, Born, Entries, NEW n \in leases
    PROVE  /\ request[n].id \in Ids /\ AbstractActive[request[n].id] = n + 1
           /\ n \in Nonces /\ n < next_nonce /\ AbstractOutcome[n + 1] = OutcomeOf(request[n])
<1>1. n \in Nonces /\ n < next_nonce /\ request[n].id \in Ids
  BY NonceAssumption DEF RequestTypes, Born, RegistryTypes, Nonces
<1>2. active[request[n].id] = n
  BY DEF Entries
<1>3. AbstractOutcome[n + 1] = OutcomeOf(request[n])
  BY <1>1, NonceSeqs, OutcomeIs DEF AbstractOutcome
<1> QED BY <1>1, <1>2, <1>3 DEF AbstractActive

\* A reservation admits the next generation of its id.
LEMMA AddedRefines ==
    ASSUME RegistryTypes, RequestTypes, Born, NEW id \in Ids, NEW lane \in Lanes, Added(id, lane)
    PROVE  Contract!Next
<1>0. PICK s \in 1 .. MaxNonce : s = next_nonce + 1
  BY NonceAssumption DEF Added, RegistryTypes
<1> DEFINE r == [id |-> id, lane |-> lane, phase |-> "reserved", cancelled |-> FALSE,
                 terminal |-> "none"]
<1>1. next_nonce \in Nonces
  BY NonceAssumption DEF Added, RegistryTypes, Nonces
<1>2. OutcomeOf(r) = "open"
  BY DEF OutcomeOf
<1>3. AbstractOutcome' = [AbstractOutcome EXCEPT ![s] = "open"]
  <2>1. request' = [request EXCEPT ![next_nonce] = r]
    BY DEF Added
  <2> HIDE DEF r
  <2> QED BY <1>0, <1>1, <1>2, <2>1, OneOutcome
<1>4. \A q \in 1 .. MaxNonce : q >= s => AbstractOutcome[q] = "unborn"
  <2> SUFFICES ASSUME NEW q \in 1 .. MaxNonce, q >= s PROVE AbstractOutcome[q] = "unborn"
    OBVIOUS
  <2>1. q - 1 \in Nonces /\ q - 1 >= next_nonce
    BY <1>0, NonceAssumption DEF RegistryTypes, Nonces
  <2>2. request[q - 1] = NoRequest
    BY <2>1 DEF Born
  <2> QED BY <2>2 DEF AbstractOutcome, Outcome, NoRequest
<1>5. AbstractActive[id] = 0 /\ AbstractActive' = [AbstractActive EXCEPT ![id] = s]
  <2>1. active[id] = -1 /\ active' = [active EXCEPT ![id] = next_nonce]
    BY DEF Added, None
  <2>2. AbstractActive[id] = 0
    BY <2>1 DEF AbstractActive
  <2>3. \A i \in Ids : active'[i] + 1 = IF i = id THEN s ELSE active[i] + 1
    BY <1>0, <2>1 DEF RegistryTypes
  <2> QED BY <2>2, <2>3 DEF AbstractActive
<1>6. Contract!Admit(id, s)
  BY <1>3, <1>4, <1>5 DEF Contract!Admit, AbstractActive, AbstractOutcome
<1> QED BY <1>6 DEF Contract!Next

\* A cancellation asks at most one generation to stop.
LEMMA StoppedRefines ==
    ASSUME RegistryTypes, RequestTypes, Born, NEW n \in Nonces, Stopped(n)
    PROVE  Contract!Next
<1> DEFINE r == Record(n, request[n].phase, TRUE, request[n].terminal)
<1>1. AbstractOutcome' = [AbstractOutcome EXCEPT ![n + 1] = OutcomeOf(r)]
  <2>1. request' = [request EXCEPT ![n] = r]
    BY DEF Stopped
  <2> HIDE DEF r
  <2> QED BY <2>1, OneOutcome
<1>2. OutcomeOf(r) = IF OutcomeOf(request[n]) = "open" THEN "cancelling" ELSE OutcomeOf(request[n])
  BY DEF OutcomeOf, Record, RequestTypes, Requests, Classes
<1>3. n + 1 \in 1 .. MaxNonce /\ AbstractOutcome[n + 1] = OutcomeOf(request[n])
  BY NonceSeqs, OutcomeIs DEF AbstractOutcome
<1>4. AbstractActive' = AbstractActive
  BY DEF Stopped, AbstractActive
<1>5. AbstractOutcome' = [s \in 1 .. MaxNonce |->
                            IF s \in {n + 1} /\ AbstractOutcome[s] = "open"
                              THEN "cancelling" ELSE AbstractOutcome[s]]
  BY <1>1, <1>2, <1>3 DEF AbstractOutcome
<1>6. Contract!Cancel({n + 1})
  BY <1>4, <1>5 DEF Contract!Cancel, AbstractActive, AbstractOutcome
<1> QED BY <1>3, <1>6 DEF Contract!Next

\* A method of a lease stutters, or settles the class of its own generation.
LEMMA MovedRefines ==
    ASSUME RegistryTypes, RequestTypes, Born, Entries, NEW n \in Nonces,
           NEW p \in {"queued", "running", "terminal"}, NEW t \in Classes \cup {"none"},
           Moved(n, p, t)
    PROVE  Contract!Next \/ UNCHANGED Contract!vars
<1> DEFINE r == Record(n, p, request[n].cancelled, t)
<1>1. AbstractOutcome' = [AbstractOutcome EXCEPT ![n + 1] = OutcomeOf(r)]
  <2>1. request' = [request EXCEPT ![n] = r]
    BY DEF Moved
  <2> HIDE DEF r
  <2> QED BY <2>1, OneOutcome
<1>2. /\ request[n].id \in Ids /\ AbstractActive[request[n].id] = n + 1
      /\ n < next_nonce /\ AbstractOutcome[n + 1] = OutcomeOf(request[n])
  BY LeaseActive DEF Moved
<1>3. AbstractActive' = AbstractActive
  BY DEF Moved, AbstractActive
<1>4. request[n].phase # "none" /\ request[n].terminal = "none" /\ request[n].cancelled \in BOOLEAN
  BY <1>2 DEF Moved, Born, RequestTypes, Requests
<1>5. CASE t = "none"
  <2>1. OutcomeOf(r) = OutcomeOf(request[n])
    BY <1>4, <1>5 DEF OutcomeOf, Record
  <2>2. AbstractOutcome' = AbstractOutcome
    BY <1>1, <1>2, <2>1 DEF AbstractOutcome
  <2> QED BY <1>3, <2>2 DEF Contract!vars, AbstractActive, AbstractOutcome
<1>6. CASE t \in Classes
  <2>1. OutcomeOf(r) = t
    BY <1>6 DEF OutcomeOf, Record, Classes
  <2>2. AbstractOutcome[n + 1] \in {"open", "cancelling"}
    BY <1>2, <1>4 DEF OutcomeOf
  <2>3. n + 1 # 0
    BY NonceSeqs
  <2>4. PICK id \in Ids : id = request[n].id
    BY <1>2
  <2>5. Contract!Terminal(id, t)
    BY <1>1, <1>2, <1>3, <2>1, <2>2, <2>3, <2>4
    DEF Contract!Terminal, Contract!Settle, AbstractActive, AbstractOutcome
  <2> QED BY <1>6, <2>5 DEF Contract!Next, Contract!Classes, Classes
<1> QED BY <1>5, <1>6

\* A dropped lease releases its generation, and settles it first if need be.
LEMMA DroppedRefines ==
    ASSUME RegistryTypes, RequestTypes, Born, Entries, NEW n \in Nonces, NEW t \in Classes,
           Dropped(n, t)
    PROVE  Contract!Next
<1> DEFINE r == Record(n, "released", request[n].cancelled, t)
<1>1. AbstractOutcome' = [AbstractOutcome EXCEPT ![n + 1] = t]
  <2>1. request' = [request EXCEPT ![n] = r]
    BY DEF Dropped
  <2>2. OutcomeOf(r) = t
    BY DEF OutcomeOf, Record, Classes
  <2> HIDE DEF r
  <2> QED BY <2>1, <2>2, OneOutcome
<1>2. /\ request[n].id \in Ids /\ AbstractActive[request[n].id] = n + 1
      /\ n < next_nonce /\ AbstractOutcome[n + 1] = OutcomeOf(request[n])
  BY LeaseActive DEF Dropped
<1>3. AbstractActive' = [AbstractActive EXCEPT ![request[n].id] = 0]
  <2>1. active' = [active EXCEPT ![request[n].id] = -1]
    BY DEF Dropped, None
  <2> QED BY <1>2, <2>1 DEF AbstractActive, RegistryTypes
<1>i. PICK id \in Ids : id = request[n].id
  BY <1>2
<1>4. request[n].phase # "none" /\ n + 1 # 0
  BY <1>2, NonceSeqs DEF Born
<1>5. CASE request[n].terminal = "none"
  <2>1. AbstractOutcome[n + 1] \in {"open", "cancelling"}
    BY <1>2, <1>4, <1>5 DEF OutcomeOf
  <2>2. Contract!TerminalAndRelease(id, t)
    BY <1>i, <1>1, <1>2, <1>3, <1>4, <2>1
    DEF Contract!TerminalAndRelease, Contract!Settle, Contract!Free, AbstractActive, AbstractOutcome
  <2> QED BY <2>2 DEF Contract!Next, Contract!Classes, Classes
<1>6. CASE request[n].terminal # "none"
  <2>1. t = request[n].terminal
    BY <1>6 DEF Dropped
  <2>2. AbstractOutcome[n + 1] = t
    BY <1>2, <1>4, <1>6, <2>1 DEF OutcomeOf
  <2>3. AbstractOutcome' = AbstractOutcome
    BY <1>1, <2>2 DEF AbstractOutcome
  <2>4. Contract!Release(id)
    BY <1>i, <1>2, <1>3, <1>4, <2>2, <2>3
    DEF Contract!Release, Contract!Free, Contract!Classes, Classes, AbstractActive, AbstractOutcome
  <2> QED BY <2>4 DEF Contract!Next
<1> QED BY <1>5, <1>6

\* Every step of the registry is a step of the contract, or none.
LEMMA NextRefines == IInv /\ [Next]_vars => [Contract!Next]_(Contract!vars)
<1> SUFFICES ASSUME IInv, [Next]_vars PROVE Contract!Next \/ UNCHANGED Contract!vars
  OBVIOUS
<1>0. RegistryTypes /\ RequestTypes /\ Born /\ Entries
  BY TypeParts DEF IInv
<1>1. Summary
  BY StepSummary, TypeParts DEF IInv
<1>2. CASE Kept
  <2>1. AbstractActive' = AbstractActive /\ AbstractOutcome' = AbstractOutcome
    BY <1>2 DEF Kept, AbstractActive, AbstractOutcome, Outcome
  <2> QED BY <2>1 DEF Contract!vars, AbstractActive, AbstractOutcome
<1> QED BY <1>0, <1>1, <1>2, AddedRefines, StoppedRefines, MovedRefines, DroppedRefines DEF Summary

(***************************************************************************)
(* The registry keeps the operation contract of ADR-003 for any ids and    *)
(* any number of nonces: an id is active at most once, its request gets    *)
(* exactly one terminal class whichever of finish, reject, cancel or drop  *)
(* comes first, and only the lease of that very reservation frees it.      *)
(***************************************************************************)
THEOREM RegistryRefinesContract == Spec => ImplementsContract
<1>1. Init => Contract!Init
  <2> SUFFICES ASSUME Init PROVE Contract!Init
    OBVIOUS
  <2>1. AbstractActive = [id \in Ids |-> 0]
    BY DEF Init, AbstractActive, None
  <2>2. AbstractOutcome = [s \in 1 .. MaxNonce |-> "unborn"]
    BY NonceSeqs DEF Init, AbstractOutcome, Outcome, NoRequest
  <2> QED BY <2>1, <2>2 DEF Contract!Init, AbstractActive, AbstractOutcome
<1> QED BY <1>1, NextRefines, Invariant, PTL DEF Spec, ImplementsContract, Contract!Spec

=============================================================================
