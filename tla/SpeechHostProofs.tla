-------------------------- MODULE SpeechHostProofs --------------------------
(***************************************************************************)
(* Proofs about module SpeechHost: its invariant and the refinement of the *)
(* operation contract, for any ids, permits and callers and however often  *)
(* an id is used again.                                                    *)
(***************************************************************************)
EXTENDS SpeechHost, TLAPS

-----------------------------------------------------------------------------
(* The inductive invariant.                                                *)

\* Places at which a request has its identity.
Held == {"queued", "started", "dispatching", "dispatched"} \cup TaskPlaces

\* Places at which it also has a permit.
Admitted == {"started", "dispatching", "dispatched"} \cup TaskPlaces

\* Sequences are handed out in order.
Numbers ==
    \A s \in Seqs :
      /\ s >= next_sequence =>
           request[s] = NoRequest /\ work[s] = NoWork /\ call[s] = "none"
      /\ s < next_sequence => request[s].id \in Ids /\ request[s].at # "none"

\* What the record r and the work w of a request have to do with its place.
Placed(r, w) ==
    /\ r.at \in {"none", "queued", "started", "dispatching"} => w.at = "none"
    /\ r.at \in {"joining", "monitor", "draining"} => w.at \in {"worker", "sent", "gone"}
    /\ r.at = "dispatched" => w.at # "none"
    /\ r.at \in {"publishing", "routing", "over"} => w.at \notin {"loading", "worker"}
    /\ w.final # "none" => w.at \in {"sent", "gone"}
    /\ r.at \in Admitted => r.permit
    /\ r.at \in {"abandoned", "joining", "draining"} => r.ends # "none" /\ r.cancelled
    /\ r.at = "none" <=> r.phase = "none"
    /\ r.at \in Held \ {"publishing"} => r.terminal = "none" /\ r.phase \in {"queued", "running"}
    /\ r.at \in {"publishing", "routing", "over"} => r.terminal # "none"

Places == \A s \in Seqs : Placed(request[s], work[s])

\* The maps, and the places of the requests.
Maps ==
    /\ \A s \in Seqs :
         /\ request[s].at \in Held =>
              operations[request[s].id] = s /\ routes[request[s].id] = s
         /\ request[s].at = "routing" =>
              operations[request[s].id] = 0 /\ routes[request[s].id] = s
    /\ \A id \in Ids :
         /\ operations[id] # 0 =>
              request[operations[id]].id = id /\ request[operations[id]].at \in Held
         /\ routes[id] # 0 =>
              /\ request[routes[id]].id = id
              /\ request[routes[id]].at \in Held \cup {"routing"}

\* How far the shutdown is, and what is over by then.
Closing ==
    /\ ~admitting => coordinator.at \in {"idling", "done"}
    /\ coordinator.at # "none" => shutdown_started
    /\ shutdown_started => phase # "running"
    /\ \A z \in Callers : caller[z].at = "sweeping" => phase # "running"
    /\ \A z \in Callers : caller[z].at = "sweeping" /\ caller[z].closes =>
         /\ shutdown_started /\ coordinator.at = "none"
         /\ \A y \in Callers : caller[y].at = "sweeping" /\ caller[y].closes => y = z
    /\ coordinator.at \in {"joining", "draining", "idling", "done"} => ~accepting
    /\ coordinator.at \in {"draining", "idling", "done"} =>
         \A s \in Seqs : work[s].at \notin LeasedPlaces
    /\ coordinator.at \in {"idling", "done"} => \A id \in Ids : operations[id] = 0
    /\ coordinator.at = "done" => \A s \in Seqs : ~request[s].task
    /\ phase = "closed" => coordinator.at = "done"

IInv == TypeOK /\ ~faulted /\ Numbers /\ Places /\ Maps /\ Closing
-----------------------------------------------------------------------------
(* What a step has to show.                                                *)

\* Only s moves; other requests may be cancelled in the backend.
Others(s) ==
    \A q \in Seqs \ {s} :
      request'[q] = request[q] /\ work'[q].at = work[q].at /\ work'[q].final = work[q].final

\* s keeps its id, and is where its record and its work say it is.
Moved(s) ==
    /\ request'[s].id = request[s].id
    /\ Placed(request'[s], work'[s])

\* s stays among the requests that have their identity, or where it was.
Walks(s) ==
    /\ UNCHANGED <<operations, routes>>
    /\ request'[s].at = request[s].at \/ (request[s].at \in Held /\ request'[s].at \in Held)

\* s gives its identity back.
Leaves(s) ==
    /\ request[s].at \in Held /\ request'[s].at = "routing"
    /\ operations' = [operations EXCEPT ![request[s].id] = 0]
    /\ UNCHANGED routes

\* s gives its route back.
Fades(s) ==
    /\ request[s].at = "routing" /\ request'[s].at = "over"
    /\ routes' = [routes EXCEPT ![request[s].id] = 0]
    /\ UNCHANGED operations

\* Sequences are positive.
LEMMA SeqsNat == Seqs \subseteq Nat \ {0}
  BY BoundsAssumption DEF Seqs

\* A request that has a place was handed out, and has an id.
LEMMA HeldHasId ==
  ASSUME Numbers, TypeOK, NEW s \in Seqs, request[s].at # "none"
  PROVE  request[s].id \in Ids /\ s < next_sequence
  BY SeqsNat, BoundsAssumption DEF Numbers, NoRequest, TypeOK

\* A request that has its identity is active.
LEMMA HeldIsActive ==
  ASSUME Numbers, TypeOK, Maps, NEW s \in Seqs, request[s].at \in Held
  PROVE  /\ request[s].id \in Ids
         /\ operations[request[s].id] = s
         /\ operations[request[s].id] # 0
  BY HeldHasId, SeqsNat DEF Maps, Held, TaskPlaces

\* The maps still match when s keeps its identity, or stays where it is.
LEMMA MapsWalk ==
  ASSUME TypeOK, Numbers, Maps, NEW s \in Seqs, Others(s), Walks(s),
         request'[s].id = request[s].id
  PROVE  Maps'
<1>1. \A q \in Seqs : /\ request'[q].id = request[q].id
                      /\ request'[q].at = request[q].at \/
                           (request[q].at \in Held /\ request'[q].at \in Held)
  BY DEF Others, Walks
<1>2. "routing" \notin Held
  BY DEF Held, TaskPlaces
<1>3. operations' = operations /\ routes' = routes
  BY DEF Walks
<1>4. \A id \in Ids : /\ operations[id] # 0 => operations[id] \in Seqs
                      /\ routes[id] # 0 => routes[id] \in Seqs
  BY DEF TypeOK
<1>5. QED BY <1>1, <1>2, <1>3, <1>4 DEF Maps

\* They match when s gives its identity back: its route then waits for its release.
LEMMA MapsLeave ==
  ASSUME TypeOK, Numbers, Maps, NEW s \in Seqs, Others(s), Leaves(s),
         request'[s].id = request[s].id
  PROVE  Maps'
<1>0. /\ request[s].id \in Ids /\ operations[request[s].id] = s /\ routes[request[s].id] = s
      /\ s # 0
  BY HeldIsActive, SeqsNat DEF Leaves, Maps
<1>1. \A q \in Seqs : request'[q].id = request[q].id
  BY DEF Others
<1>2. \A q \in Seqs : q # s => request'[q].at = request[q].at
  BY DEF Others
<1>3. "routing" \notin Held
  BY DEF Held, TaskPlaces
<1>4. \A id \in Ids : /\ operations[id] # 0 => operations[id] \in Seqs
                      /\ routes[id] # 0 => routes[id] \in Seqs
  BY DEF TypeOK
<1>5. routes' = routes
  BY DEF Leaves
<1>6. /\ operations'[request[s].id] = 0
      /\ \A id \in Ids : id # request[s].id => operations'[id] = operations[id]
  BY <1>0 DEF Leaves, TypeOK
<1>7. \A q \in Seqs : /\ request'[q].at \in Held =>
                           operations'[request'[q].id] = q /\ routes'[request'[q].id] = q
                      /\ request'[q].at = "routing" =>
                           operations'[request'[q].id] = 0 /\ routes'[request'[q].id] = q
  <2> SUFFICES ASSUME NEW q \in Seqs
               PROVE  /\ request'[q].at \in Held =>
                           operations'[request'[q].id] = q /\ routes'[request'[q].id] = q
                      /\ request'[q].at = "routing" =>
                           operations'[request'[q].id] = 0 /\ routes'[request'[q].id] = q
    OBVIOUS
  <2>1. CASE q = s
    BY <2>1, <1>0, <1>1, <1>3, <1>5, <1>6 DEF Leaves
  <2>2. CASE q # s
    <3>1. request[q].at \in Held \cup {"routing"} => request[q].id \in Ids
      BY HeldHasId DEF Held, TaskPlaces
    <3>2. request[q].at \in Held => request[q].id # request[s].id
      BY <2>2, <1>0 DEF Maps
    <3>3. request[q].at = "routing" => request[q].id # request[s].id
      BY <2>2, <1>0 DEF Maps
    <3>4. QED BY <2>2, <3>1, <3>2, <3>3, <1>1, <1>2, <1>5, <1>6 DEF Maps
  <2>3. QED BY <2>1, <2>2
<1>8. \A id \in Ids :
         /\ operations'[id] # 0 =>
              request'[operations'[id]].id = id /\ request'[operations'[id]].at \in Held
         /\ routes'[id] # 0 =>
              /\ request'[routes'[id]].id = id
              /\ request'[routes'[id]].at \in Held \cup {"routing"}
  <2> SUFFICES ASSUME NEW id \in Ids
               PROVE  /\ operations'[id] # 0 =>
                           request'[operations'[id]].id = id /\ request'[operations'[id]].at \in Held
                      /\ routes'[id] # 0 =>
                           /\ request'[routes'[id]].id = id
                           /\ request'[routes'[id]].at \in Held \cup {"routing"}
    OBVIOUS
  <2>1. operations'[id] # 0 => operations'[id] = operations[id] /\ operations[id] # s
    BY <1>0, <1>6 DEF Maps
  <2>2. request'[s].at = "routing"
    BY DEF Leaves
  <2>3. QED BY <2>1, <2>2, <1>1, <1>2, <1>4, <1>5 DEF Maps
<1>9. QED BY <1>7, <1>8 DEF Maps

\* They match when s gives its route back, which no later generation can have yet.
LEMMA MapsFade ==
  ASSUME TypeOK, Numbers, Maps, NEW s \in Seqs, Others(s), Fades(s),
         request'[s].id = request[s].id
  PROVE  Maps'
<1>0. /\ request[s].id \in Ids /\ routes[request[s].id] = s /\ operations[request[s].id] = 0
      /\ s # 0
  BY HeldHasId, SeqsNat DEF Fades, Maps
<1>1. \A q \in Seqs : request'[q].id = request[q].id
  BY DEF Others
<1>2. \A q \in Seqs : q # s => request'[q].at = request[q].at
  BY DEF Others
<1>3. "over" \notin Held /\ "routing" \notin Held
  BY DEF Held, TaskPlaces
<1>4. /\ routes'[request[s].id] = 0
      /\ \A id \in Ids : id # request[s].id => routes'[id] = routes[id]
  BY <1>0 DEF Fades, TypeOK
<1>5. operations' = operations
  BY DEF Fades
<1>6. \A q \in Seqs : /\ request'[q].at \in Held =>
                           operations'[request'[q].id] = q /\ routes'[request'[q].id] = q
                      /\ request'[q].at = "routing" =>
                           operations'[request'[q].id] = 0 /\ routes'[request'[q].id] = q
  <2> SUFFICES ASSUME NEW q \in Seqs
               PROVE  /\ request'[q].at \in Held =>
                           operations'[request'[q].id] = q /\ routes'[request'[q].id] = q
                      /\ request'[q].at = "routing" =>
                           operations'[request'[q].id] = 0 /\ routes'[request'[q].id] = q
    OBVIOUS
  <2>1. CASE q = s
    BY <2>1, <1>3 DEF Fades
  <2>2. CASE q # s
    <3>1. request[q].at \in Held \cup {"routing"} =>
             request[q].id \in Ids /\ request[q].id # request[s].id
      BY <2>2, <1>0, HeldHasId DEF Held, TaskPlaces, Maps
    <3>2. QED BY <2>2, <3>1, <1>1, <1>2, <1>4, <1>5 DEF Maps
  <2>3. QED BY <2>1, <2>2
<1>7. \A id \in Ids :
         /\ operations'[id] # 0 =>
              request'[operations'[id]].id = id /\ request'[operations'[id]].at \in Held
         /\ routes'[id] # 0 =>
              /\ request'[routes'[id]].id = id
              /\ request'[routes'[id]].at \in Held \cup {"routing"}
  <2> SUFFICES ASSUME NEW id \in Ids
               PROVE  /\ operations'[id] # 0 =>
                           request'[operations'[id]].id = id /\ request'[operations'[id]].at \in Held
                      /\ routes'[id] # 0 =>
                           /\ request'[routes'[id]].id = id
                           /\ request'[routes'[id]].at \in Held \cup {"routing"}
    OBVIOUS
  <2>1. /\ operations[id] # 0 => operations[id] \in Seqs /\ operations[id] # s
        /\ routes[id] # 0 => routes[id] \in Seqs
    BY <1>3 DEF TypeOK, Maps, Fades
  <2>2. routes'[id] # 0 => routes'[id] = routes[id] /\ routes[id] # s
    BY <1>0, <1>4 DEF Maps
  <2>3. QED BY <2>1, <2>2, <1>1, <1>2, <1>5 DEF Maps
<1>8. QED BY <1>6, <1>7 DEF Maps

\* The places of the others are not touched by a step of s.
LEMMA PlacesKept ==
  ASSUME TypeOK, TypeOK', Places, NEW s \in Seqs, Others(s), Moved(s)
  PROVE  Places'
<1> SUFFICES ASSUME NEW q \in Seqs PROVE Placed(request'[q], work'[q])
  BY DEF Places
<1>1. CASE q = s
  BY <1>1 DEF Moved
<1>2. CASE q # s
  BY <1>2 DEF Others, Places, Placed
<1>3. QED BY <1>1, <1>2

\* A step of a request that was handed out leaves the free sequences free.
LEMMA NumbersKept ==
  ASSUME TypeOK, TypeOK', Numbers, NEW s \in Seqs, s < next_sequence, Others(s), Moved(s),
         request'[s].at # "none",
         \A q \in Seqs : q >= next_sequence => work'[q] = work[q] /\ call'[q] = call[q],
         UNCHANGED next_sequence
  PROVE  Numbers'
<1> SUFFICES ASSUME NEW q \in Seqs
             PROVE  /\ q >= next_sequence' =>
                         request'[q] = NoRequest /\ work'[q] = NoWork /\ call'[q] = "none"
                    /\ q < next_sequence' => request'[q].id \in Ids /\ request'[q].at # "none"
  BY DEF Numbers
<1>1. q \in Nat /\ s \in Nat /\ next_sequence \in Nat
  BY SeqsNat, BoundsAssumption DEF TypeOK
<1>2. CASE q = s
  BY <1>1, <1>2 DEF Moved, Numbers
<1>3. CASE q # s
  BY <1>1, <1>3 DEF Others, Numbers
<1>4. QED BY <1>2, <1>3

\* Nothing the shutdown has seen the end of begins again.
LEMMA ClosingKept ==
  ASSUME TypeOK, Closing,
         UNCHANGED <<phase, shutdown_started, caller, coordinator, admitting, accepting>>,
         \A q \in Seqs : work'[q].at \in LeasedPlaces => work[q].at \in LeasedPlaces \/ accepting,
         \A id \in Ids : operations'[id] # 0 => operations[id] # 0,
         \A q \in Seqs : request'[q].task =>
            request[q].task \/ \E id \in Ids : operations[id] # 0
  PROVE  Closing'
  BY DEF Closing

(***************************************************************************)
(* A step of one request: the types of what it changes, the facts above,   *)
(* and that nothing begins which the shutdown had seen the end of.         *)
(***************************************************************************)
StepOK(s) ==
    /\ request[s].at # "none" /\ request'[s].at # "none"
    /\ UNCHANGED <<hostVars, next_sequence, faulted, admitting, closed, accepting, closeVars>>
    /\ request' \in [Seqs -> Requests] /\ work' \in [Seqs -> Works]
    /\ call' \in [Seqs -> {"none", "captured", "requested", "backend"}]
    /\ Others(s) /\ Moved(s)
    /\ Walks(s) \/ Leaves(s) \/ Fades(s)
    /\ \A q \in Seqs : q >= next_sequence => work'[q] = work[q] /\ call'[q] = call[q]
    /\ work'[s].at \in LeasedPlaces => work[s].at \in LeasedPlaces \/ accepting
    /\ request'[s].task => request[s].task \/ request[s].at \in Held

\* A step of one request keeps the invariant.
LEMMA StepKeeps ==
  ASSUME IInv, NEW s \in Seqs, StepOK(s)
  PROVE  IInv'
<1> USE DEF IInv
<1>0. request[s].id \in Ids /\ s < next_sequence
  BY HeldHasId DEF StepOK
<1>1. TypeOK'
  <2>1. operations' \in [Ids -> Seqs \cup {0}] /\ routes' \in [Ids -> Seqs \cup {0}]
    BY <1>0 DEF StepOK, Walks, Leaves, Fades, TypeOK
  <2>2. QED BY <2>1 DEF StepOK, TypeOK, hostVars, closeVars
<1>2. Maps'
  BY MapsWalk, MapsLeave, MapsFade DEF StepOK, Moved
<1>3. Places'
  BY <1>1, PlacesKept DEF StepOK
<1>4. Numbers'
  BY <1>0, <1>1, NumbersKept DEF StepOK
<1>5. Closing'
  <2>1. UNCHANGED <<phase, shutdown_started, caller, coordinator, admitting, accepting>>
    BY DEF StepOK, hostVars, closeVars
  <2>2. \A q \in Seqs : work'[q].at \in LeasedPlaces => work[q].at \in LeasedPlaces \/ accepting
    BY DEF StepOK, Others
  <2>3. \A id \in Ids : operations'[id] # 0 => operations[id] # 0
    BY <1>0 DEF StepOK, Walks, Leaves, Fades, TypeOK
  <2>4. request[s].at \in Held => \E id \in Ids : operations[id] # 0
    BY HeldIsActive
  <2>5. \A q \in Seqs : request'[q].task =>
           request[q].task \/ \E id \in Ids : operations[id] # 0
    BY <2>4 DEF StepOK, Others
  <2>6. QED BY <2>1, <2>2, <2>3, <2>5, ClosingKept
<1>6. ~faulted'
  BY DEF StepOK
<1>7. QED BY <1>1, <1>2, <1>3, <1>4, <1>5, <1>6

-----------------------------------------------------------------------------
(* The backend's part of a step.                                           *)

\* A cancel by id leaves every work where it is.
LEMMA StoppedKeeps ==
  ASSUME TypeOK, Numbers, NEW id
  PROVE  /\ Stopped(id) \in [Seqs -> Works]
         /\ \A q \in Seqs : /\ Stopped(id)[q].at = work[q].at
                            /\ Stopped(id)[q].final = work[q].final
                            /\ q >= next_sequence => Stopped(id)[q] = work[q]
<1>1. \A q \in Seqs : q >= next_sequence => work[q].at = "none"
  BY DEF Numbers, NoWork
<1>2. \A q \in Seqs : work[q] \in Works
  BY DEF TypeOK
<1>3. \A q \in Seqs : [work[q] EXCEPT !.cancelled = TRUE] \in Works
  BY <1>2 DEF Works
<1>4. Stopped(id) \in [Seqs -> Works]
  BY <1>2, <1>3 DEF Stopped
<1>5. \A q \in Seqs : q >= next_sequence => q \notin InBackend(id)
  BY <1>1 DEF InBackend, LeasedPlaces
<1>6. \A q \in Seqs : Stopped(id)[q].at = work[q].at /\ Stopped(id)[q].final = work[q].final
  BY <1>2 DEF Stopped, Works
<1>7. \A q \in Seqs : q >= next_sequence => Stopped(id)[q] = work[q]
  BY <1>5 DEF Stopped
<1>8. QED BY <1>4, <1>6, <1>7

\* CancelBackend gives s the record r, up to the flag, and leaves every work where it is.
LEMMA CancelBackendKeeps ==
  ASSUME TypeOK, Numbers, NEW s \in Seqs, NEW r \in Requests, CancelBackend(s, r)
  PROVE  /\ work' \in [Seqs -> Works]
         /\ \A q \in Seqs : /\ work'[q].at = work[q].at /\ work'[q].final = work[q].final
                            /\ q >= next_sequence => work'[q] = work[q]
         /\ \E b \in BOOLEAN : request' = [request EXCEPT ![s] = [r EXCEPT !.accepted = b]]
<1>1. CASE r.accepted
  <2>1. r = [r EXCEPT !.accepted = TRUE]
    BY <1>1 DEF Requests
  <2>2. work' = work /\ request' = [request EXCEPT ![s] = r]
    BY <1>1 DEF CancelBackend
  <2>3. QED BY <2>1, <2>2 DEF TypeOK
<1>2. CASE ~r.accepted
  <2>1. work' = Stopped(r.id)
    BY <1>2 DEF CancelBackend
  <2>2. request' = [request EXCEPT ![s] = [r EXCEPT !.accepted = (InBackend(r.id) # {})]]
    BY <1>2 DEF CancelBackend
  <2>3. (InBackend(r.id) # {}) \in BOOLEAN
    OBVIOUS
  <2>4. QED BY <2>1, <2>2, <2>3, StoppedKeeps
<1>3. QED BY <1>1, <1>2

\* BackendPoll moves the work of s only, and starts none once the backend has closed.
LEMMA BackendPollKeeps ==
  ASSUME TypeOK, NEW s \in Seqs, BackendPoll(s)
  PROVE  /\ work' \in [Seqs -> Works]
         /\ \A q \in Seqs \ {s} : work'[q] = work[q]
         /\ work'[s].final = work[s].final
         /\ \/ work'[s].at = "refused"
            \/ work'[s].at = "loading" /\ accepting
<1>1. work[s] \in Works
  BY DEF TypeOK
<1>2. CASE accepting /\ InBackend(request[s].id) = {}
  <2>1. work' = [work EXCEPT ![s].at = "loading"]
    BY <1>2 DEF BackendPoll
  <2>2. QED BY <1>1, <1>2, <2>1 DEF TypeOK, Works
<1>3. CASE ~(accepting /\ InBackend(request[s].id) = {})
  <2>1. work' = [work EXCEPT ![s].at = "refused"]
    BY <1>3 DEF BackendPoll
  <2>2. QED BY <1>1, <2>1 DEF TypeOK, Works
<1>4. QED BY <1>2, <1>3

-----------------------------------------------------------------------------
(* The steps of a request.                                                 *)

\* The record of s is replaced by r, and the calls of cancel stay where they are.
LEMMA RequestSet ==
  ASSUME TypeOK, NEW s \in Seqs, NEW r \in Requests, request' = [request EXCEPT ![s] = r]
  PROVE  /\ request' \in [Seqs -> Requests]
         /\ request'[s] = r
         /\ \A q \in Seqs \ {s} : request'[q] = request[q]
  BY DEF TypeOK

\* A step of s between places at which it has its identity.
LEMMA WalkStep ==
  ASSUME IInv, NEW s \in Seqs, NEW r \in Requests, request' = [request EXCEPT ![s] = r],
         UNCHANGED <<hostVars, next_sequence, faulted, admitting, closed, accepting, closeVars,
                     call, operations, routes>>,
         request[s].at \in Held, r.at \in Held, r.id = request[s].id, Placed(r, work'[s]),
         work' \in [Seqs -> Works],
         \A q \in Seqs \ {s} : work'[q].at = work[q].at /\ work'[q].final = work[q].final,
         \A q \in Seqs : q >= next_sequence => work'[q] = work[q],
         work'[s].at \in LeasedPlaces => work[s].at \in LeasedPlaces \/ accepting
  PROVE  StepOK(s)
<1>1. /\ request' \in [Seqs -> Requests] /\ request'[s] = r
      /\ \A q \in Seqs \ {s} : request'[q] = request[q]
  BY RequestSet DEF IInv
<1>2. Others(s) /\ Moved(s)
  BY <1>1 DEF Others, Moved
<1>3. "none" \notin Held
  BY DEF Held, TaskPlaces
<1>4. QED BY <1>1, <1>2, <1>3 DEF StepOK, IInv, TypeOK, Walks

\* The same when the backend is left alone.
LEMMA QuietWalk ==
  ASSUME IInv, NEW s \in Seqs, NEW r \in Requests, request' = [request EXCEPT ![s] = r],
         UNCHANGED <<hostVars, next_sequence, faulted, admitting, closed, accepting, closeVars,
                     call, operations, routes, work>>,
         request[s].at \in Held, r.at \in Held, r.id = request[s].id, Placed(r, work[s])
  PROVE  StepOK(s)
<1>1. work' \in [Seqs -> Works]
  BY DEF IInv, TypeOK
<1>2. QED BY <1>1, WalkStep

\* The same when the backend is cancelled by id on the way.
LEMMA CancelWalk ==
  ASSUME IInv, NEW s \in Seqs, NEW r \in Requests, CancelBackend(s, r),
         UNCHANGED <<hostVars, next_sequence, faulted, admitting, closed, accepting, closeVars,
                     call, operations, routes>>,
         request[s].at \in Held, r.at \in Held, r.id = request[s].id, Placed(r, work[s])
  PROVE  StepOK(s)
<1>1. /\ work' \in [Seqs -> Works]
      /\ \A q \in Seqs : /\ work'[q].at = work[q].at /\ work'[q].final = work[q].final
                         /\ q >= next_sequence => work'[q] = work[q]
  BY CancelBackendKeeps DEF IInv
<1>2. PICK b \in BOOLEAN : request' = [request EXCEPT ![s] = [r EXCEPT !.accepted = b]]
  BY CancelBackendKeeps DEF IInv
<1> DEFINE p == [r EXCEPT !.accepted = b]
<1>3. /\ p \in Requests /\ p.at = r.at /\ p.id = r.id /\ p.phase = r.phase
      /\ p.permit = r.permit /\ p.ends = r.ends /\ p.cancelled = r.cancelled
      /\ p.terminal = r.terminal
  BY DEF Requests
<1>4. request' = [request EXCEPT ![s] = p]
  BY <1>2
<1> HIDE DEF p
<1>5. Placed(p, work'[s])
  BY <1>1, <1>3 DEF Placed
<1>6. QED BY <1>1, <1>3, <1>4, <1>5, WalkStep

\* The registry's release of s, in one section with its terminal class.
LEMMA ReleasedStep ==
  ASSUME IInv, NEW s \in Seqs, NEW class \in Classes, Released(s, class),
         UNCHANGED <<requestUnchanged, work>>,
         request[s].at \in Held, work[s].at \notin {"loading", "worker"}
  PROVE  StepOK(s)
<1> DEFINE r == [request[s] EXCEPT !.phase = "released", !.terminal = class, !.at = "routing"]
<1>1. request[s] \in Requests /\ Placed(request[s], work[s])
  BY DEF IInv, TypeOK, Places
<1>2. /\ r \in Requests /\ r.at = "routing" /\ r.id = request[s].id /\ r.phase = "released"
      /\ r.terminal = class /\ r.task = request[s].task
  BY <1>1 DEF Requests, CallPlaces, Classes
<1>3. request' = [request EXCEPT ![s] = r]
  BY <1>1 DEF Released, Requests, IInv, TypeOK
<1> HIDE DEF r
<1>4. /\ request' \in [Seqs -> Requests] /\ request'[s] = r
      /\ \A q \in Seqs \ {s} : request'[q] = request[q]
  BY <1>2, <1>3, RequestSet DEF IInv
<1>5. Placed(r, work[s])
  BY <1>1, <1>2 DEF Placed, Held, Admitted, TaskPlaces, Classes
<1>6. Others(s) /\ Moved(s)
  BY <1>2, <1>4, <1>5 DEF Others, Moved, requestUnchanged
<1>7. Leaves(s)
  BY <1>2, <1>4 DEF Leaves, Released, requestUnchanged
<1>8. "none" \notin Held
  BY DEF Held, TaskPlaces
<1>9. QED BY <1>2, <1>4, <1>6, <1>7, <1>8 DEF StepOK, IInv, TypeOK, requestUnchanged, Released

\* acquire_backend_lease, start and start_attempt: the request gets its permit.
LEMMA AcquireOK ==
  ASSUME IInv, NEW s \in Seqs, Acquire(s)
  PROVE  StepOK(s)
<1> DEFINE r == [request[s] EXCEPT !.at = "started", !.phase = "running", !.permit = TRUE]
<1>1. request[s] \in Requests /\ work[s] \in Works /\ Placed(request[s], work[s])
  BY DEF IInv, TypeOK, Places
<1>2. request[s].at = "queued"
  BY DEF Acquire
<1>3. /\ r \in Requests /\ r.id = request[s].id
      /\ r.at = "started" /\ r.phase = "running" /\ r.permit = TRUE
      /\ r.at \in Held /\ Placed(r, work[s])
  BY <1>1, <1>2 DEF Requests, Placed, Held, Admitted, TaskPlaces, CallPlaces, Works
<1>4. request' = [request EXCEPT ![s] = r]
  BY <1>1 DEF Acquire, Requests, IInv, TypeOK
<1> HIDE DEF r
<1>5. request[s].at \in Held
  BY <1>2 DEF Held, TaskPlaces
<1>6. QED BY <1>3, <1>4, <1>5, QuietWalk DEF Acquire, requestUnchanged

\* The request leaves the queue cancelled, or its setup fails.
LEMMA QueueOK ==
  ASSUME IInv, NEW s \in Seqs, QueueCancelled(s) \/ QueueFails(s)
  PROVE  StepOK(s)
<1>1. request[s].at = "queued" /\ work[s].at = "none"
  BY DEF QueueCancelled, QueueFails, IInv, Places, Placed
<1>2. \E class \in Classes : Released(s, class)
  BY DEF QueueCancelled, QueueFails, Classes
<1>3. QED BY <1>1, <1>2, ReleasedStep DEF QueueCancelled, QueueFails, Held

\* The last look at the flag before the dispatch.
LEMMA StartedOK ==
  ASSUME IInv, NEW s \in Seqs, Started(s)
  PROVE  StepOK(s)
<1> DEFINE r == [request[s] EXCEPT !.at = "dispatching"]
<1>1. request[s] \in Requests /\ Placed(request[s], work[s])
  BY DEF IInv, TypeOK, Places
<1>2. request[s].at = "started" /\ request[s].at \in Held /\ work[s].at = "none"
  BY <1>1 DEF Started, Placed, Held
<1>3. CASE request[s].cancelled
  BY <1>2, <1>3, ReleasedStep DEF Started, Classes
<1>4. CASE ~request[s].cancelled
  <2>1. r \in Requests /\ r.id = request[s].id /\ r.at \in Held /\ Placed(r, work[s])
    BY <1>1, <1>2 DEF Requests, Placed, Held, Admitted, TaskPlaces, CallPlaces
  <2>2. request' = [request EXCEPT ![s] = r]
    BY <1>1, <1>4 DEF Started, Requests, IInv, TypeOK
  <2> HIDE DEF r
  <2>3. QED BY <1>2, <1>4, <2>1, <2>2, QuietWalk DEF Started, requestUnchanged
<1>5. QED BY <1>3, <1>4

\* The work of s is polled for the first time, and its record becomes r.
LEMMA PollStep ==
  ASSUME IInv, NEW s \in Seqs, NEW r \in Requests, request' = [request EXCEPT ![s] = r],
         BackendPoll(s), UNCHANGED <<requestUnchanged, operations, faulted>>,
         request[s].at \in Held, r.id = request[s].id, r.at \in {"dispatched", "abandoned"},
         Placed(r, [work[s] EXCEPT !.at = "refused"]), work[s].at = "none"
  PROVE  StepOK(s)
<1>1. work[s] \in Works /\ Placed(request[s], work[s]) /\ request[s].at # "none"
  BY DEF IInv, TypeOK, Places, Held, TaskPlaces
<1>2. s < next_sequence
  BY <1>1, HeldHasId DEF IInv
<1>3. /\ work' \in [Seqs -> Works]
      /\ \A q \in Seqs \ {s} : work'[q] = work[q]
      /\ work'[s].final = work[s].final
      /\ work'[s].at = "refused" \/ (work'[s].at = "loading" /\ accepting)
  BY BackendPollKeeps DEF IInv
<1>4. s \in Nat /\ next_sequence \in Nat
  BY SeqsNat, BoundsAssumption DEF IInv, TypeOK
<1>5. \A q \in Seqs : q >= next_sequence => work'[q] = work[q]
  BY <1>2, <1>3, <1>4
<1>6. work[s].final = "none"
  BY <1>1 DEF Placed
<1>7. Placed(r, work'[s]) /\ r.at \in Held
  BY <1>1, <1>3, <1>6 DEF Placed, Held, TaskPlaces, Works
<1>8. work'[s].at \in LeasedPlaces => accepting
  BY <1>3 DEF LeasedPlaces
<1>9. QED BY <1>3, <1>5, <1>7, <1>8, WalkStep DEF requestUnchanged

\* The first poll of the dispatch.
LEMMA DispatchOK ==
  ASSUME IInv, NEW s \in Seqs, Dispatch(s)
  PROVE  StepOK(s)
<1> DEFINE r == [request[s] EXCEPT !.at = "dispatched"]
<1>1. request[s] \in Requests /\ work[s] \in Works /\ Placed(request[s], work[s])
  BY DEF IInv, TypeOK, Places
<1>2. request[s].at = "dispatching" /\ work[s].at = "none" /\ request[s].at \in Held
  BY <1>1 DEF Dispatch, Placed, Held
<1>3. /\ r \in Requests /\ r.id = request[s].id /\ r.at = "dispatched"
      /\ Placed(r, [work[s] EXCEPT !.at = "refused"])
  BY <1>1, <1>2 DEF Requests, Placed, Held, Admitted, TaskPlaces, CallPlaces, Works
<1>4. request' = [request EXCEPT ![s] = r]
  BY <1>1 DEF Dispatch, Requests, IInv, TypeOK
<1> HIDE DEF r
<1>5. QED BY <1>2, <1>3, <1>4, PollStep DEF Dispatch

\* The first poll of a dispatch that was abandoned before it.
LEMMA AbandonedPollOK ==
  ASSUME IInv, NEW s \in Seqs, AbandonedPoll(s)
  PROVE  StepOK(s)
<1>1. request[s] \in Requests /\ work[s] \in Works /\ Placed(request[s], work[s])
  BY DEF IInv, TypeOK, Places
<1>2. request[s].at = "abandoned" /\ work[s].at = "none" /\ request[s].at \in Held
  BY DEF AbandonedPoll, Held, TaskPlaces
<1>3. Placed(request[s], [work[s] EXCEPT !.at = "refused"])
  BY <1>1, <1>2 DEF Placed, Works
<1>4. request' = [request EXCEPT ![s] = request[s]]
  BY DEF AbandonedPoll, IInv, TypeOK
<1>5. QED BY <1>1, <1>2, <1>3, <1>4, PollStep DEF AbandonedPoll

\* While a request has its identity, tasks are admitted.
LEMMA HeldAdmits ==
  ASSUME IInv, NEW s \in Seqs, request[s].at \in Held
  PROVE  admitting
<1>1. \E id \in Ids : operations[id] # 0
  BY HeldIsActive DEF IInv
<1>2. QED BY <1>1 DEF IInv, Closing, TypeOK

\* An abandoned dispatch keeps its identity and its permit, whoever told the backend.
LEMMA AbandonOK ==
  ASSUME IInv, NEW s \in Seqs, request[s].at \in {"dispatching", "dispatched"},
         NEW class \in {"cancelled", "failed"}, NEW told \in BOOLEAN, Abandon(s, class, told),
         UNCHANGED requestUnchanged
  PROVE  StepOK(s)
<1> DEFINE r == [request[s] EXCEPT !.at = "abandoned", !.task = TRUE, !.ends = class,
                                   !.cancelled = TRUE]
<1>1. request[s] \in Requests /\ work[s] \in Works /\ Placed(request[s], work[s])
  BY DEF IInv, TypeOK, Places
<1>2. request[s].at \in Held
  BY DEF Held
<1>3. r \in Requests /\ r.id = request[s].id /\ r.at \in Held /\ Placed(r, work[s])
  <2>1. /\ r \in Requests /\ r.id = request[s].id /\ r.at = "abandoned"
        /\ r.ends = class /\ r.cancelled = TRUE
        /\ r.permit = request[s].permit /\ r.phase = request[s].phase
        /\ r.terminal = request[s].terminal
    BY <1>1 DEF Requests, TaskPlaces
  <2> HIDE DEF r
  <2>2. r.at \in Held
    BY <2>1 DEF Held, TaskPlaces
  <2>3. Placed(r, work[s])
    BY <1>1, <1>2, <2>1, <2>2 DEF Placed, Held, Admitted, TaskPlaces
  <2>4. QED BY <2>1, <2>2, <2>3
<1>4. admitting
  BY <1>2, HeldAdmits
<1>5. /\ IF told THEN request' = [request EXCEPT ![s] = r] /\ UNCHANGED work
                 ELSE CancelBackend(s, r)
      /\ UNCHANGED <<operations, faulted>>
  BY <1>4 DEF Abandon
<1> HIDE DEF r
<1>6. CASE told
  BY <1>2, <1>3, <1>5, <1>6, QuietWalk DEF requestUnchanged
<1>7. CASE ~told
  BY <1>2, <1>3, <1>5, <1>7, CancelWalk DEF requestUnchanged
<1>8. QED BY <1>6, <1>7

\* A cancellation, a deadline or a dropped future abandons the dispatch.
LEMMA DispatchStopsOK ==
  ASSUME IInv, NEW s \in Seqs, DispatchStops(s)
  PROVE  StepOK(s)
<1>1. request[s] \in Requests
  BY DEF IInv, TypeOK
<1>2. request[s].cancelled \in BOOLEAN
  BY <1>1 DEF Requests
<1>3. QED BY <1>2, AbandonOK DEF DispatchStops

\* finish_backend on the error of the dispatch.
LEMMA DispatchFailsOK ==
  ASSUME IInv, NEW s \in Seqs, DispatchFails(s)
  PROVE  StepOK(s)
<1>1. request[s].at \in Held /\ work[s].at \notin {"loading", "worker"}
  BY DEF DispatchFails, Held
<1>2. \E class \in Classes : Released(s, class)
  BY DEF DispatchFails, Classes
<1>3. QED BY <1>1, <1>2, ReleasedStep DEF DispatchFails

\* The final relay takes the request over from its future.
LEMMA TicketOK ==
  ASSUME IInv, NEW s \in Seqs, Ticket(s)
  PROVE  StepOK(s)
<1> DEFINE r == [request[s] EXCEPT !.at = "monitor", !.task = TRUE]
<1>1. request[s] \in Requests /\ Placed(request[s], work[s])
  BY DEF IInv, TypeOK, Places
<1>2. request[s].at \in Held /\ work[s].at \in {"worker", "sent", "gone"}
      /\ request[s].at = "dispatched"
  BY DEF Ticket, Held
<1>3. r \in Requests /\ r.id = request[s].id /\ r.at \in Held /\ Placed(r, work[s])
  BY <1>1, <1>2 DEF Requests, Placed, Held, Admitted, TaskPlaces, CallPlaces
<1>4. admitting
  BY <1>2, HeldAdmits
<1>5. request' = [request EXCEPT ![s] = r] /\ UNCHANGED <<operations, faulted, work>>
  BY <1>1, <1>4 DEF Ticket, Requests, IInv, TypeOK
<1> HIDE DEF r
<1>6. QED BY <1>2, <1>3, <1>5, QuietWalk DEF Ticket, requestUnchanged

\* The abandoned dispatch failed, or its ticket was joined.
LEMMA AbandonedEndsOK ==
  ASSUME IInv, NEW s \in Seqs, AbandonedFails(s) \/ AbandonedJoined(s)
  PROVE  StepOK(s)
<1>1. request[s] \in Requests /\ Placed(request[s], work[s])
  BY DEF IInv, TypeOK, Places
<1>2. request[s].at \in Held /\ request[s].ends \in Classes
  BY <1>1 DEF AbandonedFails, AbandonedJoined, Held, TaskPlaces, Placed, Requests, Classes
<1>3. work[s].at \notin {"loading", "worker"}
  BY <1>1 DEF AbandonedFails, AbandonedJoined, Placed
<1>4. Released(s, request[s].ends) /\ UNCHANGED <<requestUnchanged, work>>
  BY DEF AbandonedFails, AbandonedJoined
<1>5. QED BY <1>2, <1>3, <1>4, ReleasedStep

\* An abandoned dispatch that brought a ticket waits for its final.
LEMMA AbandonedTicketOK ==
  ASSUME IInv, NEW s \in Seqs, AbandonedTicket(s)
  PROVE  StepOK(s)
<1> DEFINE r == [request[s] EXCEPT !.at = "joining"]
<1>1. request[s] \in Requests /\ work[s] \in Works /\ Placed(request[s], work[s])
  BY DEF IInv, TypeOK, Places
<1>2. request[s].at = "abandoned" /\ work[s].at \in {"worker", "sent", "gone"}
  BY DEF AbandonedTicket
<1>3. /\ r \in Requests /\ r.id = request[s].id
      /\ r.at = "joining"
      /\ r.at \in Held /\ Placed(r, work[s])
  BY <1>1, <1>2 DEF Requests, Placed, Held, Admitted, TaskPlaces, CallPlaces, Works
<1>4. CancelBackend(s, r)
  BY <1>1 DEF AbandonedTicket, Requests, IInv, TypeOK
<1> HIDE DEF r
<1>5. request[s].at \in Held
  BY <1>2 DEF Held, TaskPlaces
<1>6. QED BY <1>3, <1>4, <1>5, CancelWalk DEF AbandonedTicket, requestUnchanged

\* The terminal class is recorded and the identity kept.
LEMMA TerminalStep ==
  ASSUME IInv, NEW s \in Seqs, NEW class \in Classes, Terminal(s, class),
         UNCHANGED <<requestUnchanged, work>>,
         request[s].at \in Held, work[s].at \in {"sent", "gone"}, request[s].permit
  PROVE  StepOK(s)
<1> DEFINE r == [request[s] EXCEPT !.phase = "terminal", !.terminal = class, !.at = "publishing"]
<1>1. request[s] \in Requests /\ Placed(request[s], work[s])
  BY DEF IInv, TypeOK, Places
<1>2. /\ r \in Requests /\ r.id = request[s].id /\ r.at = "publishing" /\ r.phase = "terminal"
      /\ r.terminal = class /\ r.permit
  BY <1>1 DEF Requests, TaskPlaces, Classes
<1>3. request' = [request EXCEPT ![s] = r]
  BY <1>1 DEF Terminal, Requests, IInv, TypeOK
<1> HIDE DEF r
<1>4. r.at \in Held /\ Placed(r, work[s])
  BY <1>1, <1>2 DEF Placed, Held, Admitted, TaskPlaces, Classes
<1>5. QED BY <1>2, <1>3, <1>4, QuietWalk DEF Terminal, requestUnchanged

\* A request with a final result has its permit, and no work that runs.
LEMMA FinalPlaced ==
  ASSUME IInv, NEW s \in Seqs, request[s].at \in {"monitor", "draining"}, work[s].final # "none"
  PROVE  /\ request[s].at \in Held /\ request[s].permit /\ work[s].at \in {"sent", "gone"}
         /\ work[s].final \in Classes
  BY DEF IInv, TypeOK, Places, Placed, Held, Admitted, TaskPlaces, Works

\* The final relay records the final of the backend.
LEMMA MonitorFinalOK ==
  ASSUME IInv, NEW s \in Seqs, MonitorFinal(s)
  PROVE  StepOK(s)
<1>1. /\ request[s].at \in Held /\ request[s].permit /\ work[s].at \in {"sent", "gone"}
      /\ work[s].final \in Classes
  BY FinalPlaced DEF MonitorFinal
<1>2. \E class \in Classes : Terminal(s, class)
  BY <1>1 DEF MonitorFinal, Classes
<1>3. QED BY <1>1, <1>2, TerminalStep DEF MonitorFinal

\* The final relay polls the cancellation, and drains the backend.
LEMMA MonitorCancelledOK ==
  ASSUME IInv, NEW s \in Seqs, MonitorCancelled(s)
  PROVE  StepOK(s)
<1> DEFINE r == [request[s] EXCEPT !.at = "draining", !.ends = "cancelled"]
<1>1. request[s] \in Requests /\ work[s] \in Works /\ Placed(request[s], work[s])
  BY DEF IInv, TypeOK, Places
<1>2. request[s].at = "monitor" /\ request[s].cancelled
  BY DEF MonitorCancelled
<1>3. /\ r \in Requests /\ r.id = request[s].id
      /\ r.at = "draining" /\ r.ends = "cancelled"
      /\ r.at \in Held /\ Placed(r, work[s])
  BY <1>1, <1>2 DEF Requests, Placed, Held, Admitted, TaskPlaces, CallPlaces, Works
<1>4. CancelBackend(s, r)
  BY <1>1 DEF MonitorCancelled, Requests, IInv, TypeOK
<1> HIDE DEF r
<1>5. request[s].at \in Held
  BY <1>2 DEF Held, TaskPlaces
<1>6. QED BY <1>3, <1>4, <1>5, CancelWalk DEF MonitorCancelled, requestUnchanged

\* A deadline passes in the final relay, which drains the backend.
LEMMA MonitorTimeoutOK ==
  ASSUME IInv, NEW s \in Seqs, MonitorTimeout(s)
  PROVE  StepOK(s)
<1> DEFINE r == [request[s] EXCEPT !.at = "draining", !.ends = "failed", !.cancelled = TRUE]
<1>1. request[s] \in Requests /\ work[s] \in Works /\ Placed(request[s], work[s])
  BY DEF IInv, TypeOK, Places
<1>2. request[s].at = "monitor"
  BY DEF MonitorTimeout
<1>3. /\ r \in Requests /\ r.id = request[s].id
      /\ r.at = "draining" /\ r.ends = "failed" /\ r.cancelled = TRUE
      /\ r.at \in Held /\ Placed(r, work[s])
  BY <1>1, <1>2 DEF Requests, Placed, Held, Admitted, TaskPlaces, CallPlaces, Works
<1>4. CancelBackend(s, r)
  BY <1>1 DEF MonitorTimeout, Requests, IInv, TypeOK
<1> HIDE DEF r
<1>5. request[s].at \in Held
  BY <1>2 DEF Held, TaskPlaces
<1>6. QED BY <1>3, <1>4, <1>5, CancelWalk DEF MonitorTimeout, requestUnchanged

\* The final of a drained backend ends the request.
LEMMA DrainedOK ==
  ASSUME IInv, NEW s \in Seqs, Drained(s)
  PROVE  StepOK(s)
<1>1. /\ request[s].at \in Held /\ request[s].permit /\ work[s].at \in {"sent", "gone"}
  BY FinalPlaced DEF Drained
<1>2. CASE request[s].ends = "cancelled"
  BY <1>1, <1>2, TerminalStep DEF Drained, Classes
<1>3. CASE request[s].ends # "cancelled"
  BY <1>1, <1>3, ReleasedStep DEF Drained, Classes
<1>4. QED BY <1>2, <1>3

\* release_terminal gives the identity back.
LEMMA ReleaseOK ==
  ASSUME IInv, NEW s \in Seqs, Release(s)
  PROVE  StepOK(s)
<1> DEFINE r == [request[s] EXCEPT !.phase = "released", !.at = "routing"]
<1>1. request[s] \in Requests /\ Placed(request[s], work[s])
  BY DEF IInv, TypeOK, Places
<1>2. request[s].at = "publishing" /\ request[s].at \in Held
  BY DEF Release, Held, TaskPlaces
<1>3. /\ r \in Requests /\ r.at = "routing" /\ r.id = request[s].id /\ r.phase = "released"
      /\ r.terminal = request[s].terminal /\ r.task = request[s].task
  BY <1>1 DEF Requests, CallPlaces
<1>4. request' = [request EXCEPT ![s] = r]
  BY <1>1 DEF Release, Requests, IInv, TypeOK
<1> HIDE DEF r
<1>5. /\ request' \in [Seqs -> Requests] /\ request'[s] = r
      /\ \A q \in Seqs \ {s} : request'[q] = request[q]
  BY <1>3, <1>4, RequestSet DEF IInv
<1>6. Placed(r, work[s])
  BY <1>1, <1>2, <1>3 DEF Placed, Held, Admitted, TaskPlaces
<1>7. Others(s) /\ Moved(s)
  BY <1>3, <1>5, <1>6 DEF Others, Moved, Release, requestUnchanged
<1>8. Leaves(s)
  BY <1>2, <1>3, <1>5 DEF Leaves, Release, requestUnchanged
<1>9. QED BY <1>2, <1>3, <1>5, <1>7, <1>8 DEF StepOK, IInv, TypeOK, requestUnchanged, Release

\* A step at which s stays where it is.
LEMMA StayStep ==
  ASSUME IInv, NEW s \in Seqs, request[s].at # "none",
         NEW r \in Requests, request' = [request EXCEPT ![s] = r],
         UNCHANGED <<hostVars, next_sequence, faulted, admitting, closed, accepting, closeVars,
                     operations, routes>>,
         r.at = request[s].at, r.id = request[s].id, Placed(r, work'[s]),
         r.task => request[s].task,
         work' \in [Seqs -> Works],
         call' \in [Seqs -> {"none", "captured", "requested", "backend"}],
         \A q \in Seqs \ {s} : work'[q].at = work[q].at /\ work'[q].final = work[q].final,
         \A q \in Seqs : q >= next_sequence => work'[q] = work[q] /\ call'[q] = call[q],
         work'[s].at \in LeasedPlaces => work[s].at \in LeasedPlaces \/ accepting
  PROVE  StepOK(s)
<1>1. /\ request' \in [Seqs -> Requests] /\ request'[s] = r
      /\ \A q \in Seqs \ {s} : request'[q] = request[q]
  BY RequestSet DEF IInv
<1>2. Others(s) /\ Moved(s)
  BY <1>1 DEF Others, Moved
<1>3. QED BY <1>1, <1>2 DEF StepOK, Walks

\* The reaper joins the task of a request that is over.
LEMMA TaskJoinedOK ==
  ASSUME IInv, NEW s \in Seqs, TaskJoined(s)
  PROVE  StepOK(s)
<1> DEFINE r == [request[s] EXCEPT !.task = FALSE]
<1>1. request[s] \in Requests /\ Placed(request[s], work[s]) /\ request[s].at = "over"
  BY DEF IInv, TypeOK, Places, TaskJoined
<1>2. r \in Requests /\ r.at = request[s].at /\ r.id = request[s].id /\ Placed(r, work[s])
      /\ ~r.task
  BY <1>1 DEF Requests, Placed
<1>3. request' = [request EXCEPT ![s] = r]
  BY <1>1 DEF TaskJoined, Requests, IInv, TypeOK
<1> HIDE DEF r
<1>4. QED BY <1>1, <1>2, <1>3, StayStep DEF TaskJoined, requestUnchanged, IInv, TypeOK

\* release_route finds the route of its own generation.
LEMMA ReleaseRouteOK ==
  ASSUME IInv, NEW s \in Seqs, ReleaseRoute(s)
  PROVE  StepOK(s)
<1> DEFINE r == Over(request[s])
<1>1. request[s] \in Requests /\ work[s] \in Works /\ Placed(request[s], work[s])
      /\ request[s].at = "routing"
  BY DEF IInv, TypeOK, Places, ReleaseRoute
<1>2. request[s].id \in Ids /\ s < next_sequence /\ routes[request[s].id] = s
  BY <1>1, HeldHasId DEF IInv, Maps
<1>3. /\ r \in Requests /\ r.at = "over" /\ r.id = request[s].id /\ r.task = request[s].task
      /\ r.phase = request[s].phase /\ r.terminal = request[s].terminal
  BY <1>1 DEF Over, NoRequest, Requests, Classes
<1>4. request' = [request EXCEPT ![s] = r]
  BY DEF ReleaseRoute
<1>5. Fades(s) /\ UNCHANGED faulted
  BY <1>1, <1>2, <1>3, <1>4, RequestSet DEF ReleaseRoute, Fades, registryVars, IInv
<1> HIDE DEF r
<1>6. /\ request' \in [Seqs -> Requests] /\ request'[s] = r
      /\ \A q \in Seqs \ {s} : request'[q] = request[q]
  BY <1>3, <1>4, RequestSet DEF IInv
<1>7. NoWork \in Works
  BY DEF NoWork, Works, Classes
<1>8. /\ work' \in [Seqs -> Works]
      /\ \A q \in Seqs \ {s} : work'[q] = work[q]
      /\ work'[s] = work[s] \/ work'[s] = NoWork
  BY <1>1, <1>7 DEF ReleaseRoute, IInv, TypeOK
<1>9. Placed(r, work'[s])
  BY <1>1, <1>3, <1>8 DEF Placed, NoWork, Held, Admitted, TaskPlaces
<1>10. Others(s) /\ Moved(s)
  BY <1>3, <1>6, <1>8, <1>9 DEF Others, Moved
<1>11. s \in Nat /\ next_sequence \in Nat
  BY SeqsNat, BoundsAssumption DEF IInv, TypeOK
<1>12. \A q \in Seqs : q >= next_sequence => work'[q] = work[q]
  BY <1>2, <1>8, <1>11
<1>13. work'[s].at \in LeasedPlaces => work[s].at \in LeasedPlaces
  BY <1>8 DEF NoWork, LeasedPlaces
<1>14. QED BY <1>1, <1>3, <1>5, <1>6, <1>8, <1>10, <1>12, <1>13
           DEF StepOK, ReleaseRoute, registryVars, IInv, TypeOK

-----------------------------------------------------------------------------
(* The steps of the backend and of a cancel.                               *)

\* The work of s moves on, its request stays.
LEMMA WorkStep ==
  ASSUME IInv, NEW s \in Seqs, work[s].at # "none", NEW w \in Works,
         work' = [work EXCEPT ![s] = w], UNCHANGED workUnchanged,
         Placed(request[s], w), w.at \in LeasedPlaces => work[s].at \in LeasedPlaces
  PROVE  StepOK(s)
<1>1. request[s] \in Requests /\ Placed(request[s], work[s])
  BY DEF IInv, TypeOK, Places
<1>2. request[s].at # "none"
  BY <1>1 DEF Placed
<1>3. request' = [request EXCEPT ![s] = request[s]]
  BY DEF workUnchanged, IInv, TypeOK
<1>4. /\ work' \in [Seqs -> Works] /\ work'[s] = w
      /\ \A q \in Seqs \ {s} : work'[q] = work[q]
  BY DEF IInv, TypeOK
<1>5. s < next_sequence /\ s \in Nat /\ next_sequence \in Nat
  BY <1>2, HeldHasId, SeqsNat, BoundsAssumption DEF IInv, TypeOK
<1>6. \A q \in Seqs : q >= next_sequence => work'[q] = work[q]
  BY <1>4, <1>5
<1>7. QED BY <1>1, <1>2, <1>3, <1>4, <1>6, StayStep DEF workUnchanged, registryVars, IInv, TypeOK

\* The load of a model ends.
LEMMA LoadedOK ==
  ASSUME IInv, NEW s \in Seqs, Loaded(s)
  PROVE  StepOK(s)
<1>1. work[s] \in Works /\ Placed(request[s], work[s]) /\ work[s].at = "loading"
  BY DEF IInv, TypeOK, Places, Loaded
<1>2. PICK place \in {"worker", "failing"} : work' = [work EXCEPT ![s].at = place]
  BY DEF Loaded
<1> DEFINE w == [work[s] EXCEPT !.at = place]
<1>3. w \in Works /\ w.at = place /\ w.final = work[s].final
  BY <1>1 DEF Works
<1>4. work' = [work EXCEPT ![s] = w]
  BY <1>1, <1>2 DEF IInv, TypeOK, Works
<1> HIDE DEF w
<1>5. Placed(request[s], w)
  BY <1>1, <1>3 DEF Placed
<1>6. QED BY <1>1, <1>3, <1>4, <1>5, WorkStep DEF Loaded, LeasedPlaces

\* The worker of the backend sends its final.
LEMMA WorkerSendsOK ==
  ASSUME IInv, NEW s \in Seqs, WorkerSends(s)
  PROVE  StepOK(s)
<1>1. work[s] \in Works /\ Placed(request[s], work[s]) /\ work[s].at = "worker"
  BY DEF IInv, TypeOK, Places, WorkerSends
<1>2. PICK class \in Classes : work' = [work EXCEPT ![s].at = "sent", ![s].final = class]
  BY DEF WorkerSends
<1> DEFINE w == [work[s] EXCEPT !.at = "sent", !.final = class]
<1>3. w \in Works /\ w.at = "sent" /\ w.final = class
  BY <1>1 DEF Works
<1>4. work' = [work EXCEPT ![s] = w]
  BY <1>1, <1>2 DEF IInv, TypeOK, Works
<1> HIDE DEF w
<1>5. Placed(request[s], w)
  BY <1>1, <1>3 DEF Placed
<1>6. QED BY <1>1, <1>3, <1>4, <1>5, WorkStep DEF WorkerSends, LeasedPlaces

\* The worker of the backend is gone.
LEMMA WorkerEndsOK ==
  ASSUME IInv, NEW s \in Seqs, WorkerEnds(s)
  PROVE  StepOK(s)
<1>1. /\ work[s] \in Works /\ Placed(request[s], work[s])
      /\ work[s].at \in {"failing", "sent"}
  BY DEF IInv, TypeOK, Places, WorkerEnds
<1> DEFINE w == IF request[s].at = "over" THEN NoWork
                ELSE [work[s] EXCEPT !.at = IF work[s].at = "sent" THEN "gone" ELSE "refused"]
<1>2. work' = [work EXCEPT ![s] = w]
  BY DEF WorkerEnds
<1>3. w \in Works /\ w.at \notin LeasedPlaces /\ Placed(request[s], w)
  BY <1>1 DEF Works, NoWork, Placed, LeasedPlaces, Held, Admitted, TaskPlaces, Classes
<1> HIDE DEF w
<1>4. QED BY <1>1, <1>2, <1>3, WorkStep DEF WorkerEnds

\* A call of cancel captured a request that was handed out.
LEMMA CallHasRequest ==
  ASSUME IInv, NEW s \in Seqs, call[s] # "none"
  PROVE  /\ request[s].at # "none" /\ request[s].id \in Ids
         /\ s < next_sequence /\ s \in Nat /\ next_sequence \in Nat
  BY SeqsNat, BoundsAssumption DEF IInv, Numbers, TypeOK

\* Only the call that captured s moves on.
LEMMA CallSet ==
  ASSUME IInv, NEW s \in Seqs, s < next_sequence, s \in Nat, next_sequence \in Nat,
         NEW c \in {"none", "captured", "requested", "backend"}, call' = [call EXCEPT ![s] = c]
  PROVE  /\ call' \in [Seqs -> {"none", "captured", "requested", "backend"}]
         /\ \A q \in Seqs : q >= next_sequence => call'[q] = call[q]
  BY DEF IInv, TypeOK

\* cancel_captured sets the flag of the identity it captured, or does nothing.
LEMMA RequestOK ==
  ASSUME IInv, NEW s \in Seqs, Request(s)
  PROVE  StepOK(s)
<1>1. /\ request[s].at # "none" /\ request[s].id \in Ids
      /\ s < next_sequence /\ s \in Nat /\ next_sequence \in Nat
  BY CallHasRequest DEF Request
<1>2. request[s] \in Requests /\ Placed(request[s], work[s]) /\ work \in [Seqs -> Works]
      /\ request \in [Seqs -> Requests]
  BY DEF IInv, TypeOK, Places
<1>3. PICK c \in {"none", "captured", "requested", "backend"} : call' = [call EXCEPT ![s] = c]
  BY DEF Request
<1>4. /\ call' \in [Seqs -> {"none", "captured", "requested", "backend"}]
      /\ \A q \in Seqs : q >= next_sequence => call'[q] = call[q]
  BY <1>1, <1>3, CallSet
<1>5. PICK b \in BOOLEAN : request' = [request EXCEPT ![s] = [request[s] EXCEPT !.cancelled = b]]
                           /\ (request[s].cancelled => b)
  <2>1. request[s] = [request[s] EXCEPT !.cancelled = request[s].cancelled]
    BY <1>2 DEF Requests
  <2>2. request[s].cancelled \in BOOLEAN
    BY <1>2 DEF Requests
  <2>3. request = [request EXCEPT ![s] = request[s]]
    BY <1>2
  <2>4. CASE operations[request[s].id] = s /\ ~request[s].cancelled
    BY <2>4, <1>2 DEF Request
  <2>5. CASE ~(operations[request[s].id] = s /\ ~request[s].cancelled)
    BY <2>1, <2>2, <2>3, <2>5 DEF Request
  <2>6. QED BY <2>4, <2>5
<1> DEFINE r == [request[s] EXCEPT !.cancelled = b]
<1>6. /\ r \in Requests /\ r.at = request[s].at /\ r.id = request[s].id /\ r.task = request[s].task
      /\ Placed(r, work[s])
  BY <1>2, <1>5 DEF Requests, Placed
<1>7. request' = [request EXCEPT ![s] = r]
  BY <1>5
<1> HIDE DEF r
<1>8. QED BY <1>1, <1>2, <1>4, <1>6, <1>7, StayStep DEF Request, callUnchanged, registryVars

\* The snapshot of a cancel changes no request.
LEMMA SnapshotOK ==
  ASSUME IInv, NEW s \in Seqs, Snapshot(s)
  PROVE  StepOK(s)
<1>1. /\ request[s].at # "none" /\ request[s].id \in Ids
      /\ s < next_sequence /\ s \in Nat /\ next_sequence \in Nat
  BY CallHasRequest DEF Snapshot
<1>2. request[s] \in Requests /\ Placed(request[s], work[s]) /\ work \in [Seqs -> Works]
      /\ request' = [request EXCEPT ![s] = request[s]]
  BY DEF IInv, TypeOK, Places, Snapshot
<1>3. PICK c \in {"none", "captured", "requested", "backend"} : call' = [call EXCEPT ![s] = c]
  BY DEF Snapshot
<1>4. /\ call' \in [Seqs -> {"none", "captured", "requested", "backend"}]
      /\ \A q \in Seqs : q >= next_sequence => call'[q] = call[q]
  BY <1>1, <1>3, CallSet
<1>5. QED BY <1>1, <1>2, <1>4, StayStep DEF Snapshot, callUnchanged, registryVars

\* A cancel reaches the backend.
LEMMA CallBackendOK ==
  ASSUME IInv, NEW s \in Seqs, CallBackend(s)
  PROVE  StepOK(s)
<1>1. /\ request[s].at # "none" /\ request[s].id \in Ids
      /\ s < next_sequence /\ s \in Nat /\ next_sequence \in Nat
  BY CallHasRequest DEF CallBackend
<1>2. request[s] \in Requests /\ Placed(request[s], work[s])
  BY DEF IInv, TypeOK, Places
<1>3. /\ call' \in [Seqs -> {"none", "captured", "requested", "backend"}]
      /\ \A q \in Seqs : q >= next_sequence => call'[q] = call[q]
  BY <1>1, CallSet DEF CallBackend
<1>4. /\ work' \in [Seqs -> Works]
      /\ \A q \in Seqs : /\ work'[q].at = work[q].at /\ work'[q].final = work[q].final
                         /\ q >= next_sequence => work'[q] = work[q]
  BY <1>2, CancelBackendKeeps DEF IInv, CallBackend
<1>5. PICK b \in BOOLEAN : request' = [request EXCEPT ![s] = [request[s] EXCEPT !.accepted = b]]
  BY <1>2, CancelBackendKeeps DEF IInv, CallBackend
<1> DEFINE r == [request[s] EXCEPT !.accepted = b]
<1>6. /\ r \in Requests /\ r.at = request[s].at /\ r.id = request[s].id /\ r.task = request[s].task
      /\ Placed(r, work[s])
  BY <1>2 DEF Requests, Placed
<1>7. request' = [request EXCEPT ![s] = r]
  BY <1>5
<1> HIDE DEF r
<1>8. Placed(r, work'[s])
  BY <1>4, <1>6 DEF Placed
<1>9. QED BY <1>1, <1>3, <1>4, <1>6, <1>7, <1>8, StayStep DEF CallBackend, callUnchanged, registryVars

-----------------------------------------------------------------------------
(* Admission, and the steps of the callers and of the coordinator.         *)

\* The invariant holds at first.
LEMMA InitIInv == Init => IInv
<1> SUFFICES ASSUME Init PROVE IInv
  OBVIOUS
<1>1. NoRequest \in Requests /\ NoWork \in Works
  BY DEF NoRequest, NoWork, Requests, Works, Classes, CallPlaces, TaskPlaces
<1>2. TypeOK
  <2>1. next_sequence \in 1 .. MaxSequence
    BY BoundsAssumption DEF Init
  <2>2. request \in [Seqs -> Requests] /\ work \in [Seqs -> Works]
    BY <1>1 DEF Init
  <2>3. caller \in [Callers -> CallerStates]
    BY DEF Init, CallerStates
  <2>4. QED BY <2>1, <2>2, <2>3 DEF Init, TypeOK
<1>3. Numbers
  BY SeqsNat DEF Init, Numbers
<1>4. Placed(NoRequest, NoWork)
  BY DEF Placed, NoRequest, NoWork, Held, Admitted, TaskPlaces
<1>5. Places
  BY <1>4 DEF Init, Places
<1>6. Maps
  <2>1. NoRequest.at = "none" /\ "none" \notin Held
    BY DEF NoRequest, Held, TaskPlaces
  <2>2. QED BY <2>1 DEF Init, Maps
<1>7. Closing
  BY DEF Init, Closing, NoWork, NoRequest
<1>8. QED BY <1>2, <1>3, <1>5, <1>6, <1>7 DEF IInv, Init

\* The request that is reserved has the next sequence, which is free in both maps.
LEMMA ReserveOK ==
  ASSUME IInv, NEW id \in Ids, Reserve(id)
  PROVE  IInv'
<1> DEFINE n == next_sequence
           r == [NoRequest EXCEPT !.id = id, !.phase = "queued", !.at = "queued"]
<1>1. n \in Seqs /\ n \in Nat /\ n + 1 \in 1 .. MaxSequence /\ n # 0
  BY BoundsAssumption DEF Reserve, IInv, TypeOK, Seqs
<1>2. request[n] = NoRequest /\ work[n] = NoWork /\ call[n] = "none"
  BY <1>1 DEF IInv, Numbers
<1>3. /\ r \in Requests /\ r.id = id /\ r.at = "queued" /\ r.phase = "queued"
      /\ r.terminal = "none" /\ ~r.task
  BY DEF NoRequest, Requests, CallPlaces
<1>4. Placed(r, NoWork)
  BY DEF NoRequest, NoWork, Placed, Held, Admitted, TaskPlaces
<1>5. request' = [request EXCEPT ![n] = r] /\ next_sequence' = n + 1
      /\ operations' = [operations EXCEPT ![id] = n] /\ routes' = [routes EXCEPT ![id] = n]
      /\ work' = work /\ call' = call /\ phase = "running"
      /\ operations[id] = 0 /\ routes[id] = 0
  BY DEF Reserve, backendVars
<1> HIDE DEF n, r
<1>6. /\ request' \in [Seqs -> Requests] /\ request'[n] = r
      /\ \A q \in Seqs \ {n} : request'[q] = request[q]
  BY <1>1, <1>3, <1>5 DEF IInv, TypeOK
<1>7. /\ operations' \in [Ids -> Seqs \cup {0}] /\ routes' \in [Ids -> Seqs \cup {0}]
      /\ operations'[id] = n /\ routes'[id] = n
      /\ \A i \in Ids : i # id => operations'[i] = operations[i] /\ routes'[i] = routes[i]
  BY <1>1, <1>5 DEF IInv, TypeOK
<1>8. TypeOK'
  BY <1>1, <1>5, <1>6, <1>7 DEF IInv, TypeOK, Reserve, hostVars, backendVars, closeVars
<1>9. Numbers'
  <2> SUFFICES ASSUME NEW q \in Seqs
               PROVE  /\ q >= n + 1 =>
                           request'[q] = NoRequest /\ work'[q] = NoWork /\ call'[q] = "none"
                      /\ q < n + 1 => request'[q].id \in Ids /\ request'[q].at # "none"
    BY <1>5 DEF Numbers
  <2>1. q \in Nat
    BY SeqsNat
  <2>2. CASE q = n
    BY <2>1, <2>2, <1>1, <1>3, <1>6
  <2>3. CASE q # n
    BY <2>1, <2>3, <1>1, <1>5, <1>6 DEF IInv, Numbers, n
  <2>4. QED BY <2>2, <2>3
<1>10. Places'
  <2> SUFFICES ASSUME NEW q \in Seqs PROVE Placed(request'[q], work'[q])
    BY DEF Places
  <2>1. CASE q = n
    BY <2>1, <1>2, <1>4, <1>5, <1>6
  <2>2. CASE q # n
    BY <2>2, <1>5, <1>6 DEF IInv, Places
  <2>3. QED BY <2>1, <2>2
<1>11. Maps'
  <2>1. /\ "queued" \in Held /\ "none" \notin Held /\ "routing" \notin Held
        /\ NoRequest.at = "none"
    BY DEF Held, TaskPlaces, NoRequest
  <2>2. \A q \in Seqs : q # n /\ request[q].at \in Held \cup {"routing"} =>
           request[q].id \in Ids /\ request[q].id # id
    <3> SUFFICES ASSUME NEW q \in Seqs, q # n, request[q].at \in Held \cup {"routing"}
                 PROVE  request[q].id \in Ids /\ request[q].id # id
      OBVIOUS
    <3>1. request[q].id \in Ids
      BY <2>1, HeldHasId DEF IInv
    <3>2. routes[request[q].id] = q /\ q # 0
      BY SeqsNat DEF IInv, Maps
    <3>3. QED BY <3>1, <3>2, <1>5
  <2>3. \A i \in Ids : i # id => /\ operations[i] # n /\ routes[i] # n
                                 /\ operations[i] # 0 => operations[i] \in Seqs
                                 /\ routes[i] # 0 => routes[i] \in Seqs
    BY <1>1, <1>2, <2>1 DEF IInv, Maps, TypeOK
  <2>4. \A q \in Seqs : /\ request'[q].at \in Held =>
                             operations'[request'[q].id] = q /\ routes'[request'[q].id] = q
                        /\ request'[q].at = "routing" =>
                             operations'[request'[q].id] = 0 /\ routes'[request'[q].id] = q
    <3> SUFFICES ASSUME NEW q \in Seqs
                 PROVE  /\ request'[q].at \in Held =>
                             operations'[request'[q].id] = q /\ routes'[request'[q].id] = q
                        /\ request'[q].at = "routing" =>
                             operations'[request'[q].id] = 0 /\ routes'[request'[q].id] = q
      OBVIOUS
    <3>1. CASE q = n
      BY <3>1, <1>3, <1>6, <1>7, <2>1
    <3>2. CASE q # n
      BY <3>2, <1>6, <1>7, <2>2 DEF IInv, Maps
    <3>3. QED BY <3>1, <3>2
  <2>5. \A i \in Ids :
           /\ operations'[i] # 0 =>
                request'[operations'[i]].id = i /\ request'[operations'[i]].at \in Held
           /\ routes'[i] # 0 =>
                /\ request'[routes'[i]].id = i
                /\ request'[routes'[i]].at \in Held \cup {"routing"}
    <3> SUFFICES ASSUME NEW i \in Ids
                 PROVE  /\ operations'[i] # 0 =>
                             request'[operations'[i]].id = i /\ request'[operations'[i]].at \in Held
                        /\ routes'[i] # 0 =>
                             /\ request'[routes'[i]].id = i
                             /\ request'[routes'[i]].at \in Held \cup {"routing"}
      OBVIOUS
    <3>1. CASE i = id
      BY <3>1, <1>3, <1>6, <1>7, <2>1
    <3>2. CASE i # id
      BY <3>2, <1>6, <1>7, <2>3 DEF IInv, Maps
    <3>3. QED BY <3>1, <3>2
  <2>6. QED BY <2>4, <2>5 DEF Maps
<1>12. Closing'
  <2>1. ~shutdown_started /\ coordinator.at = "none" /\ admitting
    BY <1>5 DEF IInv, Closing
  <2>2. \A q \in Seqs : request'[q].task = request[q].task \/ ~request'[q].task
    BY <1>3, <1>6
  <2>3. QED BY <1>5, <2>1 DEF IInv, Closing, Reserve, hostVars, closeVars, backendVars
<1>13. ~faulted'
  BY DEF IInv, Reserve
<1>14. QED BY <1>8, <1>9, <1>10, <1>11, <1>12, <1>13 DEF IInv

\* A step that leaves the requests and the maps alone.
LEMMA CloserStep ==
  ASSUME IInv, TypeOK', Closing', UNCHANGED <<routes, registryVars, faulted, request>>,
         \A q \in Seqs : /\ work'[q].at = work[q].at /\ work'[q].final = work[q].final
                         /\ q >= next_sequence => work'[q] = work[q] /\ call'[q] = call[q]
  PROVE  IInv'
<1>1. Numbers'
  BY DEF IInv, Numbers, registryVars
<1>2. Places'
  BY DEF IInv, Places, Placed
<1>3. Maps'
  BY DEF IInv, Maps, registryVars
<1>4. QED BY <1>1, <1>2, <1>3 DEF IInv

\* A call of cancel captures a request that was handed out, or nothing happens.
LEMMA SweptKeeps ==
  ASSUME IInv, NEW id \in Ids, Swept(id)
  PROVE  /\ call' \in [Seqs -> {"none", "captured", "requested", "backend"}]
         /\ \A q \in Seqs : q >= next_sequence => call'[q] = call[q]
<1>1. CASE routes[id] # 0 /\ call[routes[id]] = "none"
  <2>1. routes[id] \in Seqs /\ request[routes[id]].at # "none"
    <3>1. "none" \notin Held
      BY DEF Held, TaskPlaces
    <3>2. routes[id] \in Seqs
      BY <1>1 DEF IInv, TypeOK
    <3>3. request[routes[id]].at \in Held \cup {"routing"}
      BY <1>1 DEF IInv, Maps
    <3>4. QED BY <3>1, <3>2, <3>3
  <2>2. routes[id] < next_sequence
    BY <2>1, HeldHasId DEF IInv
  <2>3. routes[id] \in Nat /\ next_sequence \in Nat
    <3>1. routes[id] \in Nat
      BY <2>1, SeqsNat
    <3>2. next_sequence \in Nat
      BY BoundsAssumption DEF IInv, TypeOK
    <3>3. QED BY <3>1, <3>2
  <2>4. QED BY <1>1, <2>1, <2>2, <2>3, CallSet DEF Swept
<1>2. CASE ~(routes[id] # 0 /\ call[routes[id]] = "none")
  BY <1>2 DEF Swept, IInv, TypeOK
<1>3. QED BY <1>1, <1>2

\* cancel captures the request of a route.
LEMMA CaptureOK ==
  ASSUME IInv, NEW id \in Ids, Capture(id)
  PROVE  IInv'
<1>1. Swept(id)
  BY DEF Capture, Swept
<1>2. TypeOK' /\ Closing'
  BY <1>1, SweptKeeps
     DEF IInv, TypeOK, Closing, Capture, callUnchanged, hostVars, registryVars, closeVars
<1>3. QED BY <1>1, <1>2, SweptKeeps, CloserStep DEF Capture, callUnchanged

\* The first caller of quiesce or shutdown stops the admission.
LEMMA BeginOK ==
  ASSUME IInv, NEW z \in Callers, NEW closes \in BOOLEAN, Begin(z, closes)
  PROVE  IInv'
<1> DEFINE c == [at |-> "sweeping", sweep |-> Routed, closes |-> closes]
<1>1. c \in CallerStates /\ c.at = "sweeping" /\ c.closes = closes
  BY DEF CallerStates, Routed
<1>2. caller' = [caller EXCEPT ![z] = c] /\ phase # "closed" /\ phase' = "quiescing"
      /\ (closes => ~shutdown_started) /\ shutdown_started' = (shutdown_started \/ closes)
      /\ coordinator' = coordinator /\ admitting' = admitting /\ accepting' = accepting
      /\ work' = work /\ operations' = operations /\ request' = request /\ call' = call
  BY DEF Begin, IInv, Closing, backendVars, registryVars
<1> HIDE DEF c
<1>3. caller' \in [Callers -> CallerStates] /\ caller'[z] = c
      /\ \A y \in Callers : y # z => caller'[y] = caller[y]
  BY <1>1, <1>2 DEF IInv, TypeOK
<1>4. TypeOK'
  BY <1>2, <1>3 DEF IInv, TypeOK, Begin, registryVars, backendVars
<1>5. Closing'
  BY <1>1, <1>2, <1>3 DEF IInv, Closing
<1>6. QED BY <1>2, <1>4, <1>5, CloserStep DEF Begin, backendVars, registryVars

\* A later caller of shutdown waits.
LEMMA FollowOK ==
  ASSUME IInv, NEW z \in Callers, Follow(z)
  PROVE  IInv'
<1> DEFINE c == [caller[z] EXCEPT !.at = "waiting", !.closes = TRUE]
<1>1. caller \in [Callers -> CallerStates] /\ caller[z] \in CallerStates
  BY DEF IInv, TypeOK
<1>2. c \in CallerStates /\ c.at = "waiting"
  BY <1>1 DEF CallerStates
<1>3. caller' = [caller EXCEPT ![z] = c]
  BY <1>1 DEF Follow, CallerStates
<1> HIDE DEF c
<1>4. caller' \in [Callers -> CallerStates] /\ caller'[z] = c
      /\ \A y \in Callers : y # z => caller'[y] = caller[y]
  BY <1>1, <1>2, <1>3
<1>5. TypeOK'
  BY <1>4 DEF IInv, TypeOK, Follow, hostVars, registryVars, backendVars
<1>6. Closing'
  BY <1>2, <1>4 DEF IInv, Closing, Follow, hostVars, registryVars, backendVars
<1>7. QED BY <1>5, <1>6, CloserStep DEF Follow, registryVars, backendVars

\* A caller that waited is answered.
LEMMA AnsweredOK ==
  ASSUME IInv, NEW z \in Callers, Answered(z)
  PROVE  IInv'
<1> DEFINE c == [caller[z] EXCEPT !.at = "done"]
<1>1. caller \in [Callers -> CallerStates] /\ caller[z] \in CallerStates
  BY DEF IInv, TypeOK
<1>2. c \in CallerStates /\ c.at = "done"
  BY <1>1 DEF CallerStates
<1>3. caller' = [caller EXCEPT ![z] = c]
  BY <1>1 DEF Answered, CallerStates
<1> HIDE DEF c
<1>4. caller' \in [Callers -> CallerStates] /\ caller'[z] = c
      /\ \A y \in Callers : y # z => caller'[y] = caller[y]
  BY <1>1, <1>2, <1>3
<1>5. TypeOK'
  BY <1>4 DEF IInv, TypeOK, Answered, hostVars, registryVars, backendVars
<1>6. Closing'
  BY <1>2, <1>4 DEF IInv, Closing, Answered, hostVars, registryVars, backendVars
<1>7. QED BY <1>5, <1>6, CloserStep DEF Answered, registryVars, backendVars

\* A caller cancels an id of its sweep.
LEMMA SweepOK ==
  ASSUME IInv, NEW z \in Callers, Sweep(z)
  PROVE  IInv'
<1>1. caller \in [Callers -> CallerStates] /\ caller[z] \in CallerStates
  BY DEF IInv, TypeOK
<1>2. PICK id \in caller[z].sweep : /\ Swept(id)
                                    /\ caller' = [caller EXCEPT ![z].sweep = @ \ {id}]
  BY DEF Sweep
<1> DEFINE c == [caller[z] EXCEPT !.sweep = @ \ {id}]
<1>3. id \in Ids
  BY <1>1 DEF CallerStates
<1>4. c \in CallerStates /\ c.at = caller[z].at /\ c.closes = caller[z].closes
  BY <1>1 DEF CallerStates
<1>5. caller' = [caller EXCEPT ![z] = c]
  BY <1>1, <1>2 DEF CallerStates
<1> HIDE DEF c
<1>6. /\ caller' \in [Callers -> CallerStates]
      /\ \A y \in Callers : caller'[y].at = caller[y].at /\ caller'[y].closes = caller[y].closes
  BY <1>1, <1>4, <1>5
<1>7. TypeOK'
  BY <1>2, <1>3, <1>6, SweptKeeps DEF IInv, TypeOK, Sweep, callUnchanged, hostVars, registryVars
<1>8. Closing'
  BY <1>6 DEF IInv, Closing, Sweep, callUnchanged, hostVars, registryVars
<1>9. QED BY <1>2, <1>3, <1>7, <1>8, SweptKeeps, CloserStep DEF Sweep, callUnchanged

\* The sweep is over: limiters close, and the only coordinator begins.
LEMMA CloseOK ==
  ASSUME IInv, NEW z \in Callers, Close(z)
  PROVE  IInv'
<1>1. caller \in [Callers -> CallerStates] /\ caller[z] \in CallerStates
  BY DEF IInv, TypeOK
<1>2. PICK at \in {"waiting", "done"} : caller' = [caller EXCEPT ![z].at = at]
  BY DEF Close
<1> DEFINE c == [caller[z] EXCEPT !.at = at]
<1>3. c \in CallerStates /\ c.at # "sweeping"
  BY <1>1 DEF CallerStates
<1>4. caller' = [caller EXCEPT ![z] = c]
  BY <1>1, <1>2 DEF CallerStates
<1> HIDE DEF c
<1>5. caller' \in [Callers -> CallerStates] /\ caller'[z] = c
      /\ \A y \in Callers : y # z => caller'[y] = caller[y]
  BY <1>1, <1>3, <1>4
<1>6. Routed \in SUBSET Ids
  BY DEF Routed
<1>7. TypeOK'
  BY <1>5, <1>6 DEF IInv, TypeOK, Close, hostVars, registryVars, backendVars
<1>8. Closing'
  <2>1. CASE caller[z].closes
    <3>1. /\ shutdown_started /\ coordinator.at = "none"
          /\ \A y \in Callers : caller[y].at = "sweeping" /\ caller[y].closes => y = z
      BY <2>1 DEF IInv, Closing, Close
    <3>2. coordinator'.at = "cancelling"
      BY <2>1 DEF Close, IInv, TypeOK
    <3>3. QED BY <1>3, <1>5, <3>1, <3>2
              DEF IInv, Closing, Close, hostVars, registryVars, backendVars
  <2>2. CASE ~caller[z].closes
    BY <1>3, <1>5, <2>2 DEF IInv, Closing, Close, hostVars, registryVars, backendVars
  <2>3. QED BY <2>1, <2>2
<1>9. QED BY <1>7, <1>8, CloserStep DEF Close, registryVars, backendVars

\* The coordinator cancels an id once more.
LEMMA CoordinatorSweepOK ==
  ASSUME IInv, CoordinatorSweep
  PROVE  IInv'
<1>1. PICK id \in coordinator.sweep :
         Swept(id) /\ coordinator' = [coordinator EXCEPT !.sweep = @ \ {id}]
  BY DEF CoordinatorSweep
<1>2. id \in Ids
  BY DEF IInv, TypeOK
<1>3. coordinator'.at = coordinator.at
  BY <1>1 DEF IInv, TypeOK
<1>4. TypeOK'
  BY <1>1, <1>2, SweptKeeps DEF IInv, TypeOK, CoordinatorSweep, callUnchanged, hostVars, registryVars
<1>5. Closing'
  BY <1>3 DEF IInv, Closing, CoordinatorSweep, callUnchanged, hostVars, registryVars
<1>6. QED BY <1>1, <1>2, <1>4, <1>5, SweptKeeps, CloserStep DEF CoordinatorSweep, callUnchanged

\* The backend closes and cancels what it has.
LEMMA BackendShutdownOK ==
  ASSUME IInv, BackendShutdown
  PROVE  IInv'
<1>1. /\ work' \in [Seqs -> Works]
      /\ \A q \in Seqs : work'[q].at = work[q].at /\ work'[q].final = work[q].final
  BY DEF BackendShutdown, IInv, TypeOK, Works
<1>2. \A q \in Seqs : q >= next_sequence => work'[q] = work[q]
  <2> SUFFICES ASSUME NEW q \in Seqs, q >= next_sequence PROVE work'[q] = work[q]
    OBVIOUS
  <2>1. request[q] = NoRequest
    BY DEF IInv, Numbers
  <2>2. request[q].id \notin Ids
    BY <2>1, IdsAssumption DEF NoRequest
  <2>3. QED BY <2>2 DEF BackendShutdown
<1>3. coordinator.at = "cancelling" /\ coordinator'.at = "joining"
  BY DEF BackendShutdown, IInv, TypeOK
<1>4. TypeOK'
  BY <1>1 DEF BackendShutdown, IInv, TypeOK, hostVars, registryVars
<1>5. Closing'
  BY <1>1, <1>3 DEF BackendShutdown, IInv, Closing, hostVars, registryVars
<1>6. QED BY <1>1, <1>2, <1>4, <1>5, CloserStep DEF BackendShutdown

\* The backend has nothing left, and takes nothing any more.
LEMMA BackendJoinedOK ==
  ASSUME IInv, BackendJoined
  PROVE  IInv'
<1>1. \A q \in Seqs : work[q].at \notin LeasedPlaces
  <2> SUFFICES ASSUME NEW q \in Seqs, work[q].at \in LeasedPlaces PROVE FALSE
    OBVIOUS
  <2>1. request[q].at # "none"
    BY DEF IInv, Places, Placed, LeasedPlaces
  <2>2. request[q].id \in Ids
    BY <2>1, HeldHasId DEF IInv
  <2>3. q \in InBackend(request[q].id)
    BY <2>2 DEF InBackend, LeasedPlaces
  <2>4. QED BY <2>2, <2>3 DEF BackendJoined
<1>2. coordinator.at = "joining" /\ coordinator'.at = "draining"
  BY DEF BackendJoined, IInv, TypeOK
<1>3. TypeOK'
  BY DEF BackendJoined, IInv, TypeOK, hostVars, registryVars, backendVars
<1>4. Closing'
  BY <1>1, <1>2 DEF BackendJoined, IInv, Closing, hostVars, registryVars, backendVars
<1>5. QED BY <1>3, <1>4, CloserStep DEF BackendJoined, backendVars

\* No request is active, and none can be: tasks are no longer needed.
LEMMA ActiveEmptyOK ==
  ASSUME IInv, ActiveEmpty
  PROVE  IInv'
<1>1. \A id \in Ids : operations[id] = 0
  BY DEF ActiveEmpty, Active, IInv
<1>2. coordinator.at = "draining" /\ coordinator'.at = "idling"
  BY DEF ActiveEmpty, IInv, TypeOK
<1>3. TypeOK'
  BY DEF ActiveEmpty, IInv, TypeOK, hostVars, registryVars, backendVars
<1>4. Closing'
  BY <1>1, <1>2 DEF ActiveEmpty, IInv, Closing, hostVars, registryVars, backendVars
<1>5. QED BY <1>3, <1>4, CloserStep DEF ActiveEmpty, backendVars

\* The shutdown is published when no task is left.
LEMMA PublishOK ==
  ASSUME IInv, Publish
  PROVE  IInv'
<1>1. coordinator.at = "idling" /\ coordinator'.at = "done"
  BY DEF Publish, IInv, TypeOK
<1>2. TypeOK'
  BY DEF Publish, IInv, TypeOK, registryVars, backendVars
<1>3. Closing'
  BY <1>1 DEF Publish, IInv, Closing, registryVars, backendVars
<1>4. QED BY <1>2, <1>3, CloserStep DEF Publish, backendVars

-----------------------------------------------------------------------------
(* The invariant of the host.                                              *)

\* Every step of a request, of a call that captured it or of its work is one of the above.
LEMMA RequestSteps ==
  ASSUME IInv, NEW s \in Seqs,
         \/ Moves(s) \/ Acquire(s) \/ QueueFails(s) \/ DispatchStops(s) \/ MonitorTimeout(s)
         \/ CallMoves(s) \/ Loaded(s) \/ WorkerSends(s) \/ WorkerEnds(s)
  PROVE  StepOK(s)
<1>1. CASE Moves(s)
  BY <1>1, QueueOK, StartedOK, DispatchOK, DispatchFailsOK, TicketOK, AbandonedPollOK,
     AbandonedEndsOK, AbandonedTicketOK, MonitorFinalOK, MonitorCancelledOK, DrainedOK,
     ReleaseOK, ReleaseRouteOK, TaskJoinedOK DEF Moves
<1>2. CASE CallMoves(s)
  BY <1>2, RequestOK, SnapshotOK, CallBackendOK DEF CallMoves
<1>3. QED BY <1>1, <1>2, AcquireOK, QueueOK, DispatchStopsOK, MonitorTimeoutOK,
             LoadedOK, WorkerSendsOK, WorkerEndsOK

\* Every step keeps the invariant.
LEMMA NextIInv == IInv /\ [Next]_vars => IInv'
<1> SUFFICES ASSUME IInv, [Next]_vars PROVE IInv'
  OBVIOUS
<1>1. ASSUME NEW id \in Ids, Reserve(id) \/ Capture(id) PROVE IInv'
  BY <1>1, ReserveOK, CaptureOK
<1>2. ASSUME NEW s \in Seqs,
             \/ Moves(s) \/ Acquire(s) \/ QueueFails(s) \/ DispatchStops(s) \/ MonitorTimeout(s)
             \/ CallMoves(s) \/ Loaded(s) \/ WorkerSends(s) \/ WorkerEnds(s)
      PROVE  IInv'
  BY <1>2, RequestSteps, StepKeeps
<1>3. ASSUME NEW z \in Callers,
             (\E closes \in BOOLEAN : Begin(z, closes)) \/ Follow(z) \/ CloserMoves(z)
      PROVE  IInv'
  BY <1>3, BeginOK, FollowOK, SweepOK, CloseOK, AnsweredOK DEF CloserMoves
<1>4. CASE CoordinatorMoves
  BY <1>4, CoordinatorSweepOK, BackendShutdownOK, BackendJoinedOK, ActiveEmptyOK, PublishOK
     DEF CoordinatorMoves
<1>5. CASE UNCHANGED vars
  <2>1. TypeOK' /\ Closing'
    BY <1>5 DEF IInv, TypeOK, Closing, vars, hostVars, registryVars, backendVars, closeVars
  <2>2. QED BY <1>5, <2>1, CloserStep DEF vars, backendVars
<1>6. QED BY <1>1, <1>2, <1>3, <1>4, <1>5 DEF Next

\* The invariant holds in every behaviour.
LEMMA AlwaysIInv == Spec => []IInv
  BY InitIInv, NextIInv, PTL DEF Spec

\* The invariant says what the host promises.
LEMMA IInvHostInv == IInv => HostInv
<1> SUFFICES ASSUME IInv PROVE HostInv
  OBVIOUS
<1>1. RoutesMatch
  <2> SUFFICES ASSUME NEW id \in Ids
               PROVE  /\ operations[id] # 0 => routes[id] = operations[id]
                      /\ routes[id] # 0 /\ operations[id] = 0 => request[routes[id]].at = "routing"
    BY DEF RoutesMatch, IInv
  <2>1. /\ operations[id] # 0 => operations[id] \in Seqs
        /\ routes[id] # 0 => routes[id] \in Seqs
    BY DEF IInv, TypeOK
  <2>2. operations[id] # 0 => routes[id] = operations[id]
    BY <2>1 DEF IInv, Maps
  <2>3. routes[id] # 0 /\ operations[id] = 0 => request[routes[id]].at = "routing"
    <3> SUFFICES ASSUME routes[id] # 0, operations[id] = 0, request[routes[id]].at # "routing"
                 PROVE  FALSE
      OBVIOUS
    <3>1. request[routes[id]].id = id /\ request[routes[id]].at \in Held
      BY DEF IInv, Maps
    <3>2. operations[id] = routes[id]
      BY <2>1, <3>1 DEF IInv, Maps
    <3>3. QED BY <3>2
  <2>4. QED BY <2>2, <2>3
<1>2. WorkOwned
  <2> SUFFICES ASSUME NEW s \in Seqs, work[s].at \in {"loading", "worker"}
               PROVE  operations[request[s].id] = s /\ request[s].permit
    BY DEF WorkOwned
  <2>1. request[s].at \in Admitted
    BY DEF IInv, TypeOK, Places, Placed, Requests, Admitted, CallPlaces, TaskPlaces
  <2>2. request[s].at \in Held
    BY <2>1 DEF Admitted, Held
  <2>3. request[s].permit
    BY <2>1 DEF IInv, Places, Placed
  <2>4. QED BY <2>2, <2>3 DEF IInv, Maps
<1>3. ClosedSound
  BY DEF IInv, Closing, ClosedSound, Active, LeasedPlaces
<1>4. QED BY <1>1, <1>2, <1>3 DEF HostInv, IInv

(***************************************************************************)
(* The host keeps its promises for any ids, any number of permits and of   *)
(* callers, and however often an id is used again: the two maps agree, no  *)
(* release faults the host, work of the backend has the identity and the   *)
(* permit of its request, and a published shutdown is the end of all work. *)
(***************************************************************************)
THEOREM HostSound == Spec => []HostInv
  BY AlwaysIInv, IInvHostInv, PTL

-----------------------------------------------------------------------------
(* The operation contract.                                                 *)

OutcomeOf(r) ==
    IF r.phase = "none" THEN "unborn"
    ELSE IF r.terminal # "none" THEN r.terminal
    ELSE IF r.cancelled THEN "cancelling" ELSE "open"

\* A step of s keeps a terminal class, and does not forget a cancellation before it.
Faithful(s) ==
    /\ request[s].terminal # "none" => request'[s].terminal = request[s].terminal
    /\ request[s].terminal = "none" /\ request[s].cancelled =>
         IF request'[s].terminal = "none" THEN request'[s].cancelled
                                          ELSE request'[s].terminal # "completed"

\* The outcome depends on the record only.
LEMMA OutcomeIs ==
  ASSUME NEW s \in Seqs
  PROVE  Outcome(s) = OutcomeOf(request[s]) /\ Outcome(s)' = OutcomeOf(request'[s])
  BY DEF Outcome, OutcomeOf

\* A step that keeps the records of all requests and the registry is a stutter.
LEMMA StillRefines ==
  ASSUME UNCHANGED <<request, operations>>
  PROVE  UNCHANGED Contract!vars
  BY DEF Outcome, Contract!vars

\* A faithful step of one request is a step of the contract.
LEMMA StepRefines ==
  ASSUME IInv, NEW s \in Seqs, StepOK(s), Faithful(s)
  PROVE  Contract!Next \/ UNCHANGED Contract!vars
<1> DEFINE out == [q \in Seqs |-> Outcome(q)]
           id == request[s].id
<1>1. \A q \in Seqs \ {s} : Outcome(q)' = Outcome(q)
  BY OutcomeIs DEF StepOK, Others
<1>2. /\ request[s] \in Requests /\ request'[s] \in Requests
      /\ Placed(request[s], work[s]) /\ Placed(request'[s], work'[s])
      /\ request[s].at # "none" /\ request'[s].at # "none"
  BY DEF IInv, TypeOK, Places, StepOK, Moved
<1>3. request[s].phase # "none" /\ request'[s].phase # "none"
  BY <1>2 DEF Placed
<1>4. id \in Ids
  BY <1>2, HeldHasId DEF IInv
<1>5. CASE request[s].terminal # "none"
  <2>1. Outcome(s)' = Outcome(s) /\ Outcome(s) \in Contract!Classes
    BY <1>2, <1>3, <1>5, OutcomeIs DEF Faithful, OutcomeOf, Requests, Classes, Contract!Classes
  <2>2. out' = out
    BY <1>1, <2>1
  <2>3. CASE Walks(s) \/ Fades(s)
    BY <2>2, <2>3 DEF Walks, Fades, Contract!vars
  <2>4. CASE Leaves(s)
    <3>1. operations[id] = s /\ operations[id] # 0
      BY <2>4, HeldIsActive DEF Leaves, IInv
    <3>2. Contract!Release(id)
      BY <2>1, <2>2, <2>4, <3>1 DEF Leaves, Contract!Release, Contract!Free
    <3>3. QED BY <1>4, <3>2 DEF Contract!Next
  <2>5. QED BY <2>3, <2>4 DEF StepOK
<1>6. CASE request[s].terminal = "none" /\ request'[s].terminal = "none"
  <2>1. Walks(s)
    BY <1>2, <1>6 DEF StepOK, Leaves, Fades, Placed
  <2>2. Outcome(s) \in {"open", "cancelling"} /\ Outcome(s)' \in {"open", "cancelling"}
        /\ (Outcome(s) = "cancelling" => Outcome(s)' = "cancelling")
    BY <1>2, <1>3, <1>6, OutcomeIs DEF Faithful, OutcomeOf
  <2>3. CASE Outcome(s)' = Outcome(s)
    BY <1>1, <2>1, <2>3 DEF Walks, Contract!vars
  <2>4. CASE Outcome(s)' # Outcome(s)
    <3>1. Outcome(s) = "open" /\ Outcome(s)' = "cancelling"
      BY <2>2, <2>4
    <3>2. out' = [q \in Seqs |-> IF q \in {s} /\ out[q] = "open" THEN "cancelling" ELSE out[q]]
      BY <1>1, <3>1
    <3>3. Contract!Cancel({s})
      BY <2>1, <3>2 DEF Walks, Contract!Cancel
    <3>4. QED BY <3>3 DEF Contract!Next
  <2>5. QED BY <2>3, <2>4
<1>7. CASE request[s].terminal = "none" /\ request'[s].terminal # "none"
  <2> DEFINE class == request'[s].terminal
  <2>1. class \in Contract!Classes /\ Outcome(s)' = class
    BY <1>2, <1>3, <1>7, OutcomeIs DEF OutcomeOf, Requests, Classes, Contract!Classes
  <2>2. request[s].at \in Held
    BY <1>2, <1>7 DEF Placed, Requests, Held, CallPlaces, TaskPlaces
  <2>3. operations[id] = s /\ operations[id] # 0
    BY <2>2, HeldIsActive DEF IInv
  <2>4. out[s] \in {"open", "cancelling"} /\ (out[s] = "cancelling" => class # "completed")
    BY <1>3, <1>7, OutcomeIs DEF Faithful, OutcomeOf
  <2>5. out' = [out EXCEPT ![s] = class]
    BY <1>1, <2>1
  <2>6. Contract!Settle(operations[id], class)
    BY <2>3, <2>4, <2>5 DEF Contract!Settle
  <2>7. CASE Walks(s)
    <3>1. Contract!Terminal(id, class)
      BY <2>3, <2>6, <2>7 DEF Walks, Contract!Terminal
    <3>2. QED BY <1>4, <2>1, <3>1 DEF Contract!Next
  <2>8. CASE Leaves(s)
    <3>1. Contract!TerminalAndRelease(id, class)
      BY <2>3, <2>6, <2>8 DEF Leaves, Contract!TerminalAndRelease, Contract!Free
    <3>2. QED BY <1>4, <2>1, <3>1 DEF Contract!Next
  <2>9. CASE Fades(s)
    BY <2>2, <2>9 DEF Fades, Held, TaskPlaces
  <2>10. QED BY <2>7, <2>8, <2>9 DEF StepOK
<1>8. QED BY <1>5, <1>6, <1>7

\* The terminal class of s is recorded, with or without the release of its identity.
LEMMA SettledFaithful ==
  ASSUME IInv, NEW s \in Seqs, NEW class \in Classes,
         Released(s, class) \/ Terminal(s, class),
         request[s].at \in Held \ {"publishing"}, request[s].cancelled => class # "completed"
  PROVE  Faithful(s)
<1>1. request[s] \in Requests /\ request[s].terminal = "none"
  BY DEF IInv, TypeOK, Places, Placed
<1>2. request'[s].terminal = class
  BY <1>1 DEF Released, Terminal, IInv, TypeOK, Requests
<1>3. class # "none"
  BY DEF Classes
<1>4. QED BY <1>1, <1>2, <1>3 DEF Faithful

\* The record of s becomes r, which keeps what the contract sees.
LEMMA KeptFaithful ==
  ASSUME IInv, NEW s \in Seqs, NEW r \in Requests, r.terminal = request[s].terminal,
         request[s].cancelled => r.cancelled,
         \/ request' = [request EXCEPT ![s] = r]
         \/ CancelBackend(s, r)
  PROVE  Faithful(s)
<1>1. CASE request' = [request EXCEPT ![s] = r]
  BY <1>1, RequestSet DEF IInv, Faithful
<1>2. CASE CancelBackend(s, r)
  <2>1. PICK b \in BOOLEAN : request' = [request EXCEPT ![s] = [r EXCEPT !.accepted = b]]
    BY <1>2, CancelBackendKeeps DEF IInv
  <2> DEFINE p == [r EXCEPT !.accepted = b]
  <2>2. p \in Requests /\ p.terminal = r.terminal /\ p.cancelled = r.cancelled
    BY DEF Requests
  <2>3. request' = [request EXCEPT ![s] = p]
    BY <2>1
  <2> HIDE DEF p
  <2>4. request'[s] = p
    BY <2>2, <2>3, RequestSet DEF IInv
  <2>5. QED BY <2>2, <2>4 DEF Faithful
<1>3. QED BY <1>1, <1>2

\* What a request does by itself is faithful.
LEMMA MovesFaithful ==
  ASSUME IInv, NEW s \in Seqs, Moves(s) \/ Acquire(s) \/ QueueFails(s) \/ MonitorTimeout(s)
  PROVE  Faithful(s)
<1>1. request[s] \in Requests /\ Placed(request[s], work[s]) /\ request \in [Seqs -> Requests]
  BY DEF IInv, TypeOK, Places
<1>2. CASE QueueCancelled(s) \/ QueueFails(s) \/ (Started(s) /\ request[s].cancelled)
           \/ DispatchFails(s)
  <2>1. request[s].at \in Held \ {"publishing"}
    BY <1>2 DEF QueueCancelled, QueueFails, Started, DispatchFails, Held
  <2>2. \E class \in Classes \ {"completed"} : Released(s, class)
    BY <1>2 DEF QueueCancelled, QueueFails, Started, DispatchFails, Classes
  <2>3. QED BY <2>1, <2>2, SettledFaithful
<1>3. CASE AbandonedFails(s) \/ AbandonedJoined(s)
  <2>1. request[s].at \in Held \ {"publishing"} /\ request[s].ends \in Classes \ {"completed"}
    BY <1>1, <1>3
       DEF AbandonedFails, AbandonedJoined, Held, TaskPlaces, Placed, Requests, Classes
  <2>2. Released(s, request[s].ends)
    BY <1>3 DEF AbandonedFails, AbandonedJoined
  <2>3. QED BY <2>1, <2>2, SettledFaithful
<1>4. CASE MonitorFinal(s)
  <2>1. request[s].at \in Held \ {"publishing"} /\ work[s].final \in Classes
    BY <1>4, FinalPlaced DEF MonitorFinal
  <2>2. \E class \in Classes : Terminal(s, class) /\ (request[s].cancelled => class # "completed")
    BY <1>4, <2>1 DEF MonitorFinal, Classes
  <2>3. QED BY <2>1, <2>2, SettledFaithful
<1>5. CASE Drained(s)
  <2>1. request[s].at \in Held \ {"publishing"}
    BY <1>5 DEF Drained, Held, TaskPlaces
  <2>2. \E class \in Classes \ {"completed"} : Released(s, class) \/ Terminal(s, class)
    BY <1>5 DEF Drained, Classes
  <2>3. QED BY <2>1, <2>2, SettledFaithful
<1>6. CASE Started(s) /\ ~request[s].cancelled
  <2> DEFINE r == [request[s] EXCEPT !.at = "dispatching"]
  <2>1. r \in Requests /\ r.terminal = request[s].terminal
    BY <1>1 DEF Requests, CallPlaces
  <2>2. request' = [request EXCEPT ![s] = r]
    BY <1>1, <1>6 DEF Started, Requests
  <2> HIDE DEF r
  <2>3. QED BY <1>6, <2>1, <2>2, KeptFaithful
<1>7. CASE Acquire(s) \/ Dispatch(s)
  BY <1>1, <1>7 DEF Acquire, Dispatch, Faithful, Requests
<1>8. CASE Ticket(s)
  <2>1. admitting
    BY <1>8, HeldAdmits DEF Ticket, Held
  <2>2. request' = [request EXCEPT ![s].at = "monitor", ![s].task = TRUE]
    BY <1>8, <2>1 DEF Ticket
  <2>3. QED BY <1>1, <2>2 DEF Faithful, Requests
<1>9. CASE AbandonedPoll(s)
  BY <1>9 DEF AbandonedPoll, Faithful
<1>10. CASE AbandonedTicket(s)
  <2> DEFINE r == [request[s] EXCEPT !.at = "joining"]
  <2>1. r \in Requests /\ r.terminal = request[s].terminal /\ r.cancelled = request[s].cancelled
    BY <1>1 DEF Requests, TaskPlaces
  <2>2. CancelBackend(s, r)
    BY <1>10 DEF AbandonedTicket
  <2> HIDE DEF r
  <2>3. QED BY <2>1, <2>2, KeptFaithful
<1>11. CASE MonitorCancelled(s)
  <2> DEFINE r == [request[s] EXCEPT !.at = "draining", !.ends = "cancelled"]
  <2>1. r \in Requests /\ r.terminal = request[s].terminal /\ r.cancelled = request[s].cancelled
    BY <1>1 DEF Requests, TaskPlaces
  <2>2. CancelBackend(s, r)
    BY <1>11 DEF MonitorCancelled
  <2> HIDE DEF r
  <2>3. QED BY <2>1, <2>2, KeptFaithful
<1>12. CASE MonitorTimeout(s)
  <2> DEFINE r == [request[s] EXCEPT !.at = "draining", !.ends = "failed", !.cancelled = TRUE]
  <2>1. r \in Requests /\ r.terminal = request[s].terminal /\ r.cancelled
    BY <1>1 DEF Requests, TaskPlaces
  <2>2. CancelBackend(s, r)
    BY <1>12 DEF MonitorTimeout
  <2> HIDE DEF r
  <2>3. QED BY <2>1, <2>2, KeptFaithful
<1>13. CASE Release(s) \/ TaskJoined(s)
  BY <1>1, <1>13 DEF Release, TaskJoined, Faithful, Requests
<1>14. CASE ReleaseRoute(s)
  <2>1. request[s].terminal # "none"
    BY <1>1, <1>14 DEF ReleaseRoute, Placed
  <2>2. request'[s] = Over(request[s])
    BY <1>1, <1>14 DEF ReleaseRoute
  <2>3. request'[s].terminal = request[s].terminal
    BY <2>2 DEF Over, NoRequest
  <2>4. QED BY <2>1, <2>3 DEF Faithful
<1>15. QED BY <1>2, <1>3, <1>4, <1>5, <1>6, <1>7, <1>8, <1>9, <1>10, <1>11, <1>12, <1>13, <1>14
           DEF Moves

\* A dispatch is given up with the cancellation of its request.
LEMMA StopsFaithful ==
  ASSUME IInv, NEW s \in Seqs, DispatchStops(s)
  PROVE  Faithful(s)
<1>1. PICK class \in {"cancelled", "failed"}, told \in BOOLEAN : Abandon(s, class, told)
  <2>1. request[s].cancelled \in BOOLEAN
    BY DEF IInv, TypeOK, Requests
  <2>2. QED BY <2>1 DEF DispatchStops
<1>2. admitting
  BY HeldAdmits DEF DispatchStops, Held
<1> DEFINE r == [request[s] EXCEPT !.at = "abandoned", !.task = TRUE, !.ends = class,
                                   !.cancelled = TRUE]
<1>3. request[s] \in Requests
  BY DEF IInv, TypeOK
<1>4. r \in Requests /\ r.terminal = request[s].terminal /\ r.cancelled
  BY <1>3 DEF Requests, TaskPlaces
<1>5. request' = [request EXCEPT ![s] = r] \/ CancelBackend(s, r)
  BY <1>1, <1>2 DEF Abandon
<1> HIDE DEF r
<1>6. QED BY <1>4, <1>5, KeptFaithful

\* A call of cancel, and the backend, only ever set flags of the record.
LEMMA CallFaithful ==
  ASSUME IInv, NEW s \in Seqs, CallMoves(s) \/ Loaded(s) \/ WorkerSends(s) \/ WorkerEnds(s)
  PROVE  Faithful(s)
<1>1. request[s] \in Requests /\ request \in [Seqs -> Requests]
  BY DEF IInv, TypeOK
<1>2. CASE Request(s)
  BY <1>1, <1>2 DEF Request, Faithful, Requests
<1>3. CASE CallBackend(s)
  BY <1>1, <1>3, KeptFaithful DEF CallBackend
<1>4. CASE Snapshot(s) \/ Loaded(s) \/ WorkerSends(s) \/ WorkerEnds(s)
  <2>1. request' = request
    BY <1>4 DEF Snapshot, Loaded, WorkerSends, WorkerEnds, workUnchanged
  <2>2. QED BY <2>1 DEF Faithful
<1>5. QED BY <1>2, <1>3, <1>4 DEF CallMoves

\* A reservation admits the next generation of its id.
LEMMA ReserveRefines ==
  ASSUME IInv, NEW id \in Ids, Reserve(id)
  PROVE  Contract!Next
<1>1. PICK n \in Seqs : n = next_sequence
  BY BoundsAssumption DEF Reserve, IInv, TypeOK, Seqs
<1> DEFINE out == [q \in Seqs |-> Outcome(q)]
           r == [NoRequest EXCEPT !.id = id, !.phase = "queued", !.at = "queued"]
<1>2. \A q \in Seqs : q >= n => out[q] = "unborn"
  BY <1>1, OutcomeIs DEF IInv, Numbers, OutcomeOf, NoRequest
<1>3. r \in Requests /\ OutcomeOf(r) = "open"
  BY DEF NoRequest, Requests, CallPlaces, OutcomeOf
<1>4. request' = [request EXCEPT ![n] = r] /\ operations[id] = 0
      /\ operations' = [operations EXCEPT ![id] = n]
  BY <1>1 DEF Reserve
<1> HIDE DEF r
<1>5. request'[n] = r /\ \A q \in Seqs \ {n} : request'[q] = request[q]
  BY <1>1, <1>3, <1>4, RequestSet DEF IInv
<1>6. out' = [out EXCEPT ![n] = "open"]
  <2>1. Outcome(n)' = "open"
    BY <1>1, <1>3, <1>5, OutcomeIs
  <2>2. \A q \in Seqs \ {n} : Outcome(q)' = Outcome(q)
    BY <1>5, OutcomeIs
  <2>3. QED BY <1>1, <2>1, <2>2
<1>7. Contract!Admit(id, n)
  BY <1>2, <1>4, <1>6 DEF Contract!Admit
<1>8. QED BY <1>1, <1>7 DEF Contract!Next

\* Every step of the host is a step of the contract, or none.
LEMMA NextRefines == IInv /\ [Next]_vars => [Contract!Next]_(Contract!vars)
<1> SUFFICES ASSUME IInv, [Next]_vars PROVE Contract!Next \/ UNCHANGED Contract!vars
  OBVIOUS
<1>1. ASSUME NEW id \in Ids, Reserve(id) PROVE Contract!Next
  BY <1>1, ReserveRefines
<1>2. ASSUME NEW s \in Seqs,
             \/ Moves(s) \/ Acquire(s) \/ QueueFails(s) \/ DispatchStops(s) \/ MonitorTimeout(s)
             \/ CallMoves(s) \/ Loaded(s) \/ WorkerSends(s) \/ WorkerEnds(s)
      PROVE  Contract!Next \/ UNCHANGED Contract!vars
  <2>1. Faithful(s)
    BY <1>2, MovesFaithful, StopsFaithful, CallFaithful
  <2>2. StepOK(s)
    BY <1>2, RequestSteps
  <2>3. QED BY <2>1, <2>2, StepRefines
<1>3. ASSUME NEW id \in Ids, Capture(id) PROVE UNCHANGED <<request, operations>>
  BY <1>3 DEF Capture, callUnchanged, registryVars
<1>4. ASSUME NEW z \in Callers,
             (\E closes \in BOOLEAN : Begin(z, closes)) \/ Follow(z) \/ CloserMoves(z)
      PROVE  UNCHANGED <<request, operations>>
  BY <1>4 DEF Begin, Follow, CloserMoves, Sweep, Close, Answered, callUnchanged, registryVars
<1>5. CoordinatorMoves => UNCHANGED <<request, operations>>
  BY DEF CoordinatorMoves, CoordinatorSweep, BackendShutdown, BackendJoined, ActiveEmpty, Publish,
         callUnchanged, registryVars
<1>6. UNCHANGED vars => UNCHANGED <<request, operations>>
  BY DEF vars, registryVars
<1>7. QED BY <1>1, <1>2, <1>3, <1>4, <1>5, <1>6, StillRefines DEF Next

(***************************************************************************)
(* The host keeps the operation contract of ADR-003 for any ids and any    *)
(* number of generations: an identity is active at most once, gets exactly *)
(* one terminal class, is released by its own generation after it, and a   *)
(* cancellation that came first excludes Completed, on every path of the   *)
(* host that settles a request.                                            *)
(***************************************************************************)
THEOREM HostRefinesContract == Spec => ImplementsContract
<1>1. Init => Contract!Init
  BY DEF Init, Contract!Init, Outcome, NoRequest
<1>2. IInv /\ [Next]_vars => [Contract!Next]_(Contract!vars)
  BY NextRefines
<1>3. QED BY <1>1, <1>2, AlwaysIInv, PTL DEF Spec, ImplementsContract, Contract!Spec

=============================================================================
