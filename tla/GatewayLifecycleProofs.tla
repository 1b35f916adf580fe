----------------------- MODULE GatewayLifecycleProofs -----------------------
(***************************************************************************)
(* What the gateway promises of its requests and of its close, for any     *)
(* ids, backends, slots, semaphores and number of sequences, with or       *)
(* without a poison: GatewayInv, CloseInv and the refinement of the        *)
(* operation contract, from the inductive invariant IInv.                  *)
(***************************************************************************)
EXTENDS GatewayLifecycle, FiniteSetTheorems, TLAPS

Places == CallPlaces \cup ExecutorPlaces \cup {"none", "over"}

\* Where a request has its backend, and where a permit of it.
HolderPlaces == ExecutorPlaces \cup {"holding", "dispatch", "polled", "executing", "stopping"}

Requests ==
    [id : Ids \cup {"none"}, kind : Kinds \cup {"none", "exact", "counted"},
     phase : {"none", "queued", "running", "terminal", "released"},
     token : BOOLEAN, terminal : Classes \cup {"none"}, stop : BOOLEAN,
     at : Places, backend : Backends \cup {"none"}, slot : 0 .. MaxAdmissions,
     candidates : [Backends -> 0 .. MaxAdmissions], gone : BOOLEAN,
     final : Classes \cup {"none"}]

Tasks == [at : {"none", "setup", "left", "worker", "sent"}, cancelled : BOOLEAN]

-----------------------------------------------------------------------------
(* TypeOK in pieces.                                                       *)

RequestTypes == request \in [Seqs -> Requests]

TaskTypes == task \in [Backends -> [Seqs -> Tasks]]

RegistryTypes ==
    /\ poisoned \in BOOLEAN
    /\ next_sequence \in 1 .. MaxSequence
    /\ operations \in [Ids -> Seqs \cup {0}]

GatewayTypes ==
    /\ backends \subseteq Backends /\ accepting \subseteq Backends
    /\ admission \in [Backends -> 1 .. MaxAdmissions]
    /\ closed \in BOOLEAN
    /\ client \in Ids \cup {"none"}

CloseTypes ==
    /\ phase \in {"running", "quiescing", "closed"}
    /\ shutdown_error \in BOOLEAN
    /\ report \in {NoReport} \cup
          [result : {"ok", "error"}, expected : SUBSET Backends, joined : SUBSET Backends]
    /\ closer \in [Closers -> {"idle", "lead", "wait", "done"}]
    /\ sweep \subseteq Ids
    /\ coordinator \in
          [at : {"none", "joining", "done"}, expected : SUBSET Backends, joined : SUBSET Backends]

-----------------------------------------------------------------------------
(* The inductive invariant.                                                *)

Live(r) == r.at \in CallPlaces \cup ExecutorPlaces

\* What is so of a request with the record r, whatever the others do: how far its
\* record is where its future or executor stands.
Sound(r) ==
    /\ r.at = "none" => r = NoRequest
    /\ r.at # "none" => r.id \in Ids /\ r.phase # "none"
    /\ r.at \in {"none", "over"} => r.kind = "none" /\ r.backend = "none"
    /\ r.at \in CallPlaces \cup {"ticket", "await"} => r.terminal = "none"
    /\ r.at \in HolderPlaces \cup {"waiting"} => r.backend \in Backends
    /\ r.at = "publishing" => r.final # "none"
    /\ r.gone \/ r.final # "none" => r.at \in ExecutorPlaces

\* The request with the record r and its operation t in backend b.
Paired(r, b, t) ==
    /\ (t.at = "setup") = (r.at \in {"polled", "executing", "stopping"} /\ r.backend = b)
    /\ t.at = "worker" => r.at \in ExecutorPlaces /\ r.backend = b /\ r.final = "none"
    /\ r.backend = b /\ (r.at \in {"await", "late"} \/ (r.at = "ticket" /\ r.gone))
         => t.at \in {"none", "sent"} \/ t.cancelled

Each ==
    \A s \in Seqs :
      /\ Sound(request[s])
      /\ \A b \in Backends : Paired(request[s], b, task[b][s])

\* A request holds its id while it lives, and an executor that told of its end has
\* a terminal class unless the registry was poisoned.
Entries ==
    /\ \A s \in Seqs :
         /\ s >= next_sequence => request[s].at = "none"
         /\ Live(request[s]) => operations[request[s].id] = s
         /\ request[s].at \in {"late", "publishing"} => request[s].terminal # "none" \/ poisoned
    /\ \A id \in Ids : operations[id] # 0 => request[operations[id]].at # "none"

\* The permits of a semaphore.
Permits == \A b \in Backends, n \in 0 .. MaxAdmissions : Cardinality(Holders(b, n)) <= Slots

\* Shutdown has one leader, who starts the coordinator; a backend that was joined
\* takes no work and has none.
Closing ==
    /\ phase = "running" => coordinator.at = "none" /\ \A z \in Closers : closer[z] # "lead"
    /\ \A z \in Closers : closer[z] = "lead" =>
         /\ coordinator.at = "none"
         /\ \A y \in Closers : closer[y] = "lead" => y = z
    /\ coordinator.at # "none" => coordinator.expected = backends
    /\ coordinator.joined \subseteq coordinator.expected \ accepting
    /\ \A b \in coordinator.joined, s \in Seqs : task[b][s].at = "none"
    /\ (phase = "closed") = (coordinator.at = "done")
    /\ phase = "closed" =>
         /\ coordinator.joined = backends /\ report.joined = backends
         /\ report.result = "ok" => \A id \in Ids : operations[id] = 0

IInv == TypeOK /\ Each /\ Entries /\ Permits /\ Closing

\* TypeOK is the conjunction of its pieces.
LEMMA TypeParts ==
    TypeOK <=> RegistryTypes /\ RequestTypes /\ TaskTypes /\ GatewayTypes /\ CloseTypes
BY DEF TypeOK, RegistryTypes, RequestTypes, TaskTypes, GatewayTypes, CloseTypes,
   Requests, Tasks, Places

-----------------------------------------------------------------------------
(* The records of requests.                                                *)

\* A record, field by field.
Record(id, kind, p, token, t, stop, at, b, n, C, gone, final) ==
    [id |-> id, kind |-> kind, phase |-> p, token |-> token, terminal |-> t, stop |-> stop,
     at |-> at, backend |-> b, slot |-> n, candidates |-> C, gone |-> gone, final |-> final]

\* The record r with what a future or an executor writes.
With(r, at, kind, p, t, b, n, C) ==
    Record(r.id, kind, p, r.token, t, r.stop, at, b, n, C, r.gone, r.final)

NoCandidates == [b \in Backends |-> 0]

\* The record of a request that was reserved, or that is over.
Plain(id, kind, p, token, t, at) ==
    Record(id, kind, p, token, t, FALSE, at, "none", 0, NoCandidates, FALSE, "none")

\* A record is its fields.
LEMMA Itself ==
    \A r \in Requests :
      r = Record(r.id, r.kind, r.phase, r.token, r.terminal, r.stop, r.at, r.backend, r.slot,
                 r.candidates, r.gone, r.final)
BY DEF Requests, Record

\* A record that was never used.
Blank(no, C, id, kind, p, token, t, at) ==
    [id |-> id, kind |-> kind, phase |-> p, token |-> token, terminal |-> t, stop |-> no,
     at |-> at, backend |-> "none", slot |-> 0, candidates |-> C, gone |-> no, final |-> "none"]

\* A request that was reserved.
LEMMA ReservedRecord ==
    ASSUME NEW id, NEW kind
    PROVE  [NoRequest EXCEPT !.id = id, !.kind = kind, !.phase = "queued", !.at = "setup"] =
             Plain(id, kind, "queued", FALSE, "none", "setup")
<1>n. PICK no : no = FALSE
  OBVIOUS
<1>c. PICK C : C = NoCandidates
  OBVIOUS
<1>0. NoRequest = Blank(no, C, "none", "none", "none", no, "none", "none")
  BY <1>n, <1>c DEF NoRequest, Blank, NoCandidates
<1>1. PICK x1 : x1 = [NoRequest EXCEPT !.id = id]
  OBVIOUS
<1>2. x1 = Blank(no, C, id, "none", "none", no, "none", "none")
  BY <1>0, <1>1 DEF Blank
<1>3. PICK x2 : x2 = [x1 EXCEPT !.kind = kind]
  OBVIOUS
<1>4. x2 = Blank(no, C, id, kind, "none", no, "none", "none")
  BY <1>2, <1>3 DEF Blank
<1>5. PICK x3 : x3 = [x2 EXCEPT !.phase = "queued"]
  OBVIOUS
<1>6. x3 = Blank(no, C, id, kind, "queued", no, "none", "none")
  BY <1>4, <1>5 DEF Blank
<1>7. PICK x4 : x4 = [x3 EXCEPT !.at = "setup"]
  OBVIOUS
<1>8. x4 = Blank(no, C, id, kind, "queued", no, "none", "setup")
  BY <1>6, <1>7 DEF Blank
<1> QED BY <1>n, <1>c, <1>1, <1>3, <1>5, <1>7, <1>8 DEF Plain, Record, Blank

\* A request that is over.
LEMMA OverRecord ==
    ASSUME NEW r
    PROVE  Over(r) = Plain(r.id, "none", r.phase, r.token, r.terminal, "over")
<1>n. PICK no : no = FALSE
  OBVIOUS
<1>c. PICK C : C = NoCandidates
  OBVIOUS
<1>0. NoRequest = Blank(no, C, "none", "none", "none", no, "none", "none")
  BY <1>n, <1>c DEF NoRequest, Blank, NoCandidates
<1>1. PICK x1 : x1 = [NoRequest EXCEPT !.at = "over"]
  OBVIOUS
<1>2. x1 = Blank(no, C, "none", "none", "none", no, "none", "over")
  BY <1>0, <1>1 DEF Blank
<1>3. PICK x2 : x2 = [x1 EXCEPT !.id = r.id]
  OBVIOUS
<1>4. x2 = Blank(no, C, r.id, "none", "none", no, "none", "over")
  BY <1>2, <1>3 DEF Blank
<1>5. PICK x3 : x3 = [x2 EXCEPT !.phase = r.phase]
  OBVIOUS
<1>6. x3 = Blank(no, C, r.id, "none", r.phase, no, "none", "over")
  BY <1>4, <1>5 DEF Blank
<1>7. PICK x4 : x4 = [x3 EXCEPT !.token = r.token]
  OBVIOUS
<1>8. x4 = Blank(no, C, r.id, "none", r.phase, r.token, "none", "over")
  BY <1>6, <1>7 DEF Blank
<1>9. PICK x5 : x5 = [x4 EXCEPT !.terminal = r.terminal]
  OBVIOUS
<1>10. x5 = Blank(no, C, r.id, "none", r.phase, r.token, r.terminal, "over")
  BY <1>8, <1>9 DEF Blank
<1> QED BY <1>n, <1>c, <1>1, <1>3, <1>5, <1>7, <1>9, <1>10 DEF Over, Plain, Record, Blank

\* A request that is over and was released with the class it had.
LEMMA ReleasedRecord ==
    ASSUME NEW r
    PROVE  [Over(r) EXCEPT !.phase = "released"] =
             Plain(r.id, "none", "released", r.token, r.terminal, "over")
<1>n. PICK no : no = FALSE
  OBVIOUS
<1>c. PICK C : C = NoCandidates
  OBVIOUS
<1>9. PICK x5 : x5 = Over(r)
  OBVIOUS
<1>10. x5 = Blank(no, C, r.id, "none", r.phase, r.token, r.terminal, "over")
  BY <1>n, <1>c, <1>9, OverRecord DEF Plain, Record, Blank
<1>11. PICK x6 : x6 = [x5 EXCEPT !.phase = "released"]
  OBVIOUS
<1>12. x6 = Blank(no, C, r.id, "none", "released", r.token, r.terminal, "over")
  BY <1>10, <1>11 DEF Blank
<1> QED BY <1>n, <1>c, <1>9, <1>11, <1>12 DEF Plain, Record, Blank

\* A request that ended with a terminal class.
LEMMA SettledRecord ==
    ASSUME NEW r, NEW class
    PROVE  [Over(r) EXCEPT !.phase = "released", !.terminal = class] =
             Plain(r.id, "none", "released", r.token, class, "over")
<1>n. PICK no : no = FALSE
  OBVIOUS
<1>c. PICK C : C = NoCandidates
  OBVIOUS
<1>9. PICK x5 : x5 = Over(r)
  OBVIOUS
<1>10. x5 = Blank(no, C, r.id, "none", r.phase, r.token, r.terminal, "over")
  BY <1>n, <1>c, <1>9, OverRecord DEF Plain, Record, Blank
<1>11. PICK x6 : x6 = [x5 EXCEPT !.phase = "released"]
  OBVIOUS
<1>12. x6 = Blank(no, C, r.id, "none", "released", r.token, r.terminal, "over")
  BY <1>10, <1>11 DEF Blank
<1>13. PICK x7 : x7 = [x6 EXCEPT !.terminal = class]
  OBVIOUS
<1>14. x7 = Blank(no, C, r.id, "none", "released", r.token, class, "over")
  BY <1>12, <1>13 DEF Blank
<1> QED BY <1>n, <1>c, <1>9, <1>11, <1>13, <1>14 DEF Plain, Record, Blank

\* A step to another place.
LEMMA WritesAt ==
    ASSUME NEW r \in Requests, NEW a
    PROVE  [r EXCEPT !.at = a] =
             With(r, a, r.kind, r.phase, r.terminal, r.backend, r.slot, r.candidates)
<1>0. r = With(r, r.at, r.kind, r.phase, r.terminal, r.backend, r.slot, r.candidates)
  BY Itself DEF With
<1>1. PICK x1 : x1 = [r EXCEPT !.at = a]
  OBVIOUS
<1>2. x1 = With(r, a, r.kind, r.phase, r.terminal, r.backend, r.slot, r.candidates)
  BY <1>0, <1>1 DEF With, Record
<1> QED BY <1>1, <1>2

\* The candidates that were resolved.
LEMMA WritesCandidates ==
    ASSUME NEW r \in Requests, NEW a, NEW D
    PROVE  [r EXCEPT !.at = a, !.candidates = D] =
             With(r, a, r.kind, r.phase, r.terminal, r.backend, r.slot, D)
<1>0. r = With(r, r.at, r.kind, r.phase, r.terminal, r.backend, r.slot, r.candidates)
  BY Itself DEF With
<1>1. PICK x1 : x1 = [r EXCEPT !.at = a]
  OBVIOUS
<1>2. x1 = With(r, a, r.kind, r.phase, r.terminal, r.backend, r.slot, r.candidates)
  BY <1>0, <1>1 DEF With, Record
<1>3. PICK x2 : x2 = [x1 EXCEPT !.candidates = D]
  OBVIOUS
<1>4. x2 = With(r, a, r.kind, r.phase, r.terminal, r.backend, r.slot, D)
  BY <1>2, <1>3 DEF With, Record
<1> QED BY <1>1, <1>3, <1>4

\* A permit, and the start of the operation.
LEMMA WritesPhase ==
    ASSUME NEW r \in Requests, NEW a, NEW q
    PROVE  [r EXCEPT !.at = a, !.phase = q] =
             With(r, a, r.kind, q, r.terminal, r.backend, r.slot, r.candidates)
<1>0. r = With(r, r.at, r.kind, r.phase, r.terminal, r.backend, r.slot, r.candidates)
  BY Itself DEF With
<1>1. PICK x1 : x1 = [r EXCEPT !.at = a]
  OBVIOUS
<1>2. x1 = With(r, a, r.kind, r.phase, r.terminal, r.backend, r.slot, r.candidates)
  BY <1>0, <1>1 DEF With, Record
<1>3. PICK x2 : x2 = [x1 EXCEPT !.phase = q]
  OBVIOUS
<1>4. x2 = With(r, a, r.kind, q, r.terminal, r.backend, r.slot, r.candidates)
  BY <1>2, <1>3 DEF With, Record
<1> QED BY <1>1, <1>3, <1>4

\* A terminal class.
LEMMA WritesTerminal ==
    ASSUME NEW r \in Requests, NEW a, NEW q, NEW class
    PROVE  [r EXCEPT !.at = a, !.phase = q, !.terminal = class] =
             With(r, a, r.kind, q, class, r.backend, r.slot, r.candidates)
<1>0. r = With(r, r.at, r.kind, r.phase, r.terminal, r.backend, r.slot, r.candidates)
  BY Itself DEF With
<1>1. PICK x1 : x1 = [r EXCEPT !.at = a]
  OBVIOUS
<1>2. x1 = With(r, a, r.kind, r.phase, r.terminal, r.backend, r.slot, r.candidates)
  BY <1>0, <1>1 DEF With, Record
<1>3. PICK x2 : x2 = [x1 EXCEPT !.phase = q]
  OBVIOUS
<1>4. x2 = With(r, a, r.kind, q, r.terminal, r.backend, r.slot, r.candidates)
  BY <1>2, <1>3 DEF With, Record
<1>5. PICK x3 : x3 = [x2 EXCEPT !.terminal = class]
  OBVIOUS
<1>6. x3 = With(r, a, r.kind, q, class, r.backend, r.slot, r.candidates)
  BY <1>4, <1>5 DEF With, Record
<1> QED BY <1>1, <1>3, <1>5, <1>6

\* An exact count came back.
LEMMA WritesKind ==
    ASSUME NEW r \in Requests, NEW a, NEW k
    PROVE  [r EXCEPT !.at = a, !.kind = k] =
             With(r, a, k, r.phase, r.terminal, r.backend, r.slot, r.candidates)
<1>0. r = With(r, r.at, r.kind, r.phase, r.terminal, r.backend, r.slot, r.candidates)
  BY Itself DEF With
<1>1. PICK x1 : x1 = [r EXCEPT !.at = a]
  OBVIOUS
<1>2. x1 = With(r, a, r.kind, r.phase, r.terminal, r.backend, r.slot, r.candidates)
  BY <1>0, <1>1 DEF With, Record
<1>3. PICK x2 : x2 = [x1 EXCEPT !.kind = k]
  OBVIOUS
<1>4. x2 = With(r, a, k, r.phase, r.terminal, r.backend, r.slot, r.candidates)
  BY <1>2, <1>3 DEF With, Record
<1> QED BY <1>1, <1>3, <1>4

\* The next candidate is to be tried.
LEMMA WritesRetry ==
    ASSUME NEW r \in Requests
    PROVE  [r EXCEPT !.at = "choose", !.backend = "none", !.slot = 0,
                     !.kind = IF r.kind = "counted" THEN "exact" ELSE r.kind] =
             With(r, "choose", IF r.kind = "counted" THEN "exact" ELSE r.kind, r.phase, r.terminal,
                  "none", 0, r.candidates)
<1>0. r = With(r, r.at, r.kind, r.phase, r.terminal, r.backend, r.slot, r.candidates)
  BY Itself DEF With
<1>1. PICK x1 : x1 = [r EXCEPT !.at = "choose"]
  OBVIOUS
<1>2. x1 = With(r, "choose", r.kind, r.phase, r.terminal, r.backend, r.slot, r.candidates)
  BY <1>0, <1>1 DEF With, Record
<1>3. PICK x2 : x2 = [x1 EXCEPT !.backend = "none"]
  OBVIOUS
<1>4. x2 = With(r, "choose", r.kind, r.phase, r.terminal, "none", r.slot, r.candidates)
  BY <1>2, <1>3 DEF With, Record
<1>5. PICK x3 : x3 = [x2 EXCEPT !.slot = 0]
  OBVIOUS
<1>6. x3 = With(r, "choose", r.kind, r.phase, r.terminal, "none", 0, r.candidates)
  BY <1>4, <1>5 DEF With, Record
<1>7. PICK x4 : x4 = [x3 EXCEPT !.kind = IF r.kind = "counted" THEN "exact" ELSE r.kind]
  OBVIOUS
<1>8. x4 = With(r, "choose", IF r.kind = "counted" THEN "exact" ELSE r.kind, r.phase, r.terminal,
                "none", 0, r.candidates)
  BY <1>6, <1>7 DEF With, Record
<1> QED BY <1>1, <1>3, <1>5, <1>7, <1>8

\* A candidate is tried.
LEMMA WritesBackend ==
    ASSUME NEW r \in Requests, NEW a, NEW c, NEW m
    PROVE  [r EXCEPT !.at = a, !.backend = c, !.slot = m, !.candidates[c] = 0] =
             With(r, a, r.kind, r.phase, r.terminal, c, m, [r.candidates EXCEPT ![c] = 0])
<1>0. r = With(r, r.at, r.kind, r.phase, r.terminal, r.backend, r.slot, r.candidates)
  BY Itself DEF With
<1>1. PICK x1 : x1 = [r EXCEPT !.at = a]
  OBVIOUS
<1>2. x1 = With(r, a, r.kind, r.phase, r.terminal, r.backend, r.slot, r.candidates)
  BY <1>0, <1>1 DEF With, Record
<1>3. PICK x2 : x2 = [x1 EXCEPT !.backend = c]
  OBVIOUS
<1>4. x2 = With(r, a, r.kind, r.phase, r.terminal, c, r.slot, r.candidates)
  BY <1>2, <1>3 DEF With, Record
<1>5. PICK x3 : x3 = [x2 EXCEPT !.slot = m]
  OBVIOUS
<1>6. x3 = With(r, a, r.kind, r.phase, r.terminal, c, m, r.candidates)
  BY <1>4, <1>5 DEF With, Record
<1>7. PICK x4 : x4 = [x3 EXCEPT !.candidates[c] = 0]
  OBVIOUS
<1>8. x4 = With(r, a, r.kind, r.phase, r.terminal, c, m, [r.candidates EXCEPT ![c] = 0])
  BY <1>6, <1>7 DEF With, Record
<1> QED BY <1>1, <1>3, <1>5, <1>7, <1>8

-----------------------------------------------------------------------------
(* The operations of the backends.                                         *)

\* A backend's operation t is left alone or cancelled.
Nudged(t, u) == u.at = t.at /\ (t.cancelled => u.cancelled)

\* A cancellation moves no operation.
LEMMA CancelInTasks ==
    ASSUME NEW t \in [Backends -> [Seqs -> Tasks]], NEW b \in Backends, NEW S
    PROVE  /\ CancelIn(t, b, S) \in [Backends -> [Seqs -> Tasks]]
           /\ \A c \in Backends, q \in Seqs : Nudged(t[c][q], CancelIn(t, b, S)[c][q])
           /\ \A q \in Seqs : q \in S => \/ CancelIn(t, b, S)[b][q].at = "none"
                                         \/ CancelIn(t, b, S)[b][q].cancelled
<1> DEFINE g == [r \in Seqs |-> IF r \in S /\ t[b][r].at # "none"
                                  THEN [t[b][r] EXCEPT !.cancelled = TRUE] ELSE t[b][r]]
<1>1. ASSUME NEW q \in Seqs
      PROVE  /\ [t[b][q] EXCEPT !.cancelled = TRUE] \in Tasks
             /\ [t[b][q] EXCEPT !.cancelled = TRUE].at = t[b][q].at
             /\ [t[b][q] EXCEPT !.cancelled = TRUE].cancelled
  <2>1. t[b][q] \in Tasks
    OBVIOUS
  <2> QED BY <2>1 DEF Tasks
<1>2. g \in [Seqs -> Tasks]
  BY <1>1
<1>3. \A q \in Seqs : /\ Nudged(t[b][q], g[q])
                      /\ q \in S => g[q].at = "none" \/ g[q].cancelled
  BY <1>1 DEF Nudged
<1> HIDE DEF g
<1>4. CancelIn(t, b, S) = [t EXCEPT ![b] = g]
  BY DEF CancelIn, g
<1>5. CancelIn(t, b, S)[b] = g /\ \A c \in Backends \ {b} : CancelIn(t, b, S)[c] = t[c]
  BY <1>4
<1>6. \A c \in Backends, q \in Seqs : Nudged(t[c][q], t[c][q])
  BY DEF Nudged
<1> QED BY <1>2, <1>3, <1>4, <1>5, <1>6

\* An operation goes to another place, and the others stay.
LEMMA MovedTasks ==
    ASSUME TaskTypes, NEW b \in Backends, NEW s \in Seqs,
           NEW place \in {"none", "left", "worker", "sent"}
    PROVE  /\ Moved(b, s, place) \in [Backends -> [Seqs -> Tasks]]
           /\ Moved(b, s, place)[b][s].at = place
           /\ \A c \in Backends, q \in Seqs : c # b \/ q # s => Moved(b, s, place)[c][q] = task[c][q]
<1> DEFINE t == IF place = "none" THEN NoTask ELSE [task[b][s] EXCEPT !.at = place]
<1>1. task[b][s] \in Tasks
  BY DEF TaskTypes
<1>2. t \in Tasks /\ t.at = place
  BY <1>1 DEF Tasks, NoTask
<1> HIDE DEF t
<1>3. Moved(b, s, place) = [task EXCEPT ![b] = [task[b] EXCEPT ![s] = t]]
  BY DEF Moved, t
<1>4. [task[b] EXCEPT ![s] = t] \in [Seqs -> Tasks]
  BY <1>2 DEF TaskTypes
<1>5. /\ [task[b] EXCEPT ![s] = t][s] = t
      /\ \A q \in Seqs \ {s} : [task[b] EXCEPT ![s] = t][q] = task[b][q]
  BY DEF TaskTypes
<1>6. /\ Moved(b, s, place)[b] = [task[b] EXCEPT ![s] = t]
      /\ \A c \in Backends \ {b} : Moved(b, s, place)[c] = task[c]
  BY <1>3 DEF TaskTypes
<1>7. Moved(b, s, place) \in [Backends -> [Seqs -> Tasks]]
  BY <1>3, <1>4 DEF TaskTypes
<1> QED BY <1>2, <1>5, <1>6, <1>7

\* The backends in B cancel what they have under the ids.
LEMMA SweptTasks ==
    ASSUME TaskTypes, NEW B, NEW ids
    PROVE  /\ SweptBackends(B, ids) \in [Backends -> [Seqs -> Tasks]]
           /\ \A c \in Backends, q \in Seqs : Nudged(task[c][q], SweptBackends(B, ids)[c][q])
<1>1. ASSUME NEW b \in Backends
      PROVE  /\ SweptBackends(B, ids)[b] \in [Seqs -> Tasks]
             /\ \A q \in Seqs : Nudged(task[b][q], SweptBackends(B, ids)[b][q])
  <2> DEFINE S == {s \in Seqs : request[s].id \in ids}
  <2>1. SweptBackends(B, ids)[b] = IF b \in B THEN CancelIn(task, b, S)[b] ELSE task[b]
    BY DEF SweptBackends
  <2> HIDE DEF S
  <2>2. task \in [Backends -> [Seqs -> Tasks]]
    BY DEF TaskTypes
  <2>3. /\ CancelIn(task, b, S)[b] \in [Seqs -> Tasks]
        /\ \A q \in Seqs : Nudged(task[b][q], CancelIn(task, b, S)[b][q])
    BY <2>2, CancelInTasks
  <2>4. \A q \in Seqs : Nudged(task[b][q], task[b][q])
    BY DEF Nudged
  <2> QED BY <2>1, <2>2, <2>3, <2>4
<1>2. SweptBackends(B, ids) = [b \in Backends |-> SweptBackends(B, ids)[b]]
  BY DEF SweptBackends
<1> QED BY <1>1, <1>2

-----------------------------------------------------------------------------
(* What a step does to the requests and to the operations of backends.     *)

\* A backend that takes no work and has none stays so; all but the operations of
\* s are left alone or cancelled.
TasksStep(s) ==
    /\ TaskTypes'
    /\ \A b \in Backends, q \in Seqs \ {s} : Nudged(task[b][q], task'[b][q])
    /\ \A b \in Backends \ accepting : task[b][s].at = "none" => task'[b][s].at = "none"

\* The request s goes on with the record r.
Own(s, r) ==
    /\ r \in Requests /\ request' = [request EXCEPT ![s] = r]
    /\ Sound(r) /\ \A b \in Backends : Paired(r, b, task'[b][s])
    /\ TasksStep(s)
    /\ UNCHANGED <<next_sequence, poisoned>>

\* A step of its future or its executor.
Goes(s, r) ==
    /\ Own(s, r) /\ UNCHANGED operations
    /\ Live(request[s]) /\ Live(r)
    /\ r.id = request[s].id /\ r.token = request[s].token
    /\ r.at \in HolderPlaces =>
         /\ r.backend = request[s].backend /\ r.slot = request[s].slot
         /\ \/ request[s].at \in HolderPlaces
            \/ Cardinality(Holders(r.backend, r.slot)) < Slots
    /\ \/ r.terminal = request[s].terminal
       \/ r.terminal \in Classes /\ request[s].terminal = "none"
    /\ r.at \in {"late", "publishing"} => r.terminal # "none" \/ poisoned

\* Its end: the registry frees its id, unless it is poisoned.
Ends(s, r) ==
    /\ Own(s, r)
    /\ Live(request[s]) /\ r.at = "over"
    /\ r.id = request[s].id /\ r.token = request[s].token
    /\ \/ poisoned /\ r.terminal = request[s].terminal /\ UNCHANGED operations
       \/ /\ ~poisoned /\ r.terminal \in Classes
          /\ request[s].terminal \in {"none", r.terminal}
          /\ operations' = [operations EXCEPT ![request[s].id] = 0]

\* A reservation.
Adds(id, kind) ==
    /\ phase = "running" /\ phase' = phase /\ operations[id] = 0
    /\ next_sequence \in Seqs /\ next_sequence' = next_sequence + 1
    /\ operations' = [operations EXCEPT ![id] = next_sequence]
    /\ request' = [request EXCEPT ![next_sequence] =
                     Plain(id, kind, "queued", FALSE, "none", "setup")]
    /\ UNCHANGED <<task, poisoned>>

\* The tokens of some requests in the registry are set.
Marks(S) ==
    /\ S \subseteq Active /\ request' = Tokens(S)
    /\ UNCHANGED <<next_sequence, operations, task, poisoned>>

\* Backends cancel.
Rests ==
    /\ TaskTypes' /\ \A b \in Backends, q \in Seqs : Nudged(task[b][q], task'[b][q])
    /\ UNCHANGED <<next_sequence, operations, request>> /\ poisoned' \in {poisoned, TRUE}

Summary ==
    \/ Rests
    \/ \E id \in Ids, kind \in Kinds : Adds(id, kind)
    \/ \E S \in SUBSET Seqs : Marks(S)
    \/ \E s \in Seqs : Own(s, request[s]) /\ UNCHANGED <<request, operations>>
    \/ \E s \in Seqs, r \in Requests : Goes(s, r) \/ Ends(s, r)

-----------------------------------------------------------------------------
(* The steps of a request's future.                                        *)

\* The records that are written are well typed.
LEMMA WithTypes ==
    ASSUME NEW r \in Requests, NEW at \in Places, NEW kind \in Kinds \cup {"none", "exact", "counted"},
           NEW p \in {"none", "queued", "running", "terminal", "released"},
           NEW t \in Classes \cup {"none"}, NEW b \in Backends \cup {"none"},
           NEW n \in 0 .. MaxAdmissions, NEW C \in [Backends -> 0 .. MaxAdmissions]
    PROVE  With(r, at, kind, p, t, b, n, C) \in Requests
BY DEF With, Record, Requests

\* So are the records of requests that were reserved, or that are over.
LEMMA PlainTypes ==
    ASSUME NEW id \in Ids \cup {"none"}, NEW kind \in Kinds \cup {"none"},
           NEW p \in {"none", "queued", "running", "terminal", "released"},
           NEW token \in BOOLEAN, NEW t \in Classes \cup {"none"}, NEW at \in Places
    PROVE  Plain(id, kind, p, token, t, at) \in Requests
<1>1. PICK no \in BOOLEAN : no = FALSE
  OBVIOUS
<1>2. 0 \in 0 .. MaxAdmissions
  BY BoundsAssumption
<1>3. PICK C \in [Backends -> 0 .. MaxAdmissions] : C = NoCandidates
  <2>1. NoCandidates \in [Backends -> 0 .. MaxAdmissions]
    BY <1>2 DEF NoCandidates
  <2> QED BY <2>1
<1>4. Record(id, kind, p, token, t, no, at, "none", 0, C, no, "none") \in Requests
  BY <1>2 DEF Record, Requests
<1> QED BY <1>1, <1>3, <1>4 DEF Plain

\* Its fields.
LEMMA PlainFields ==
    ASSUME NEW id, NEW kind, NEW p, NEW token, NEW t, NEW at
    PROVE  LET r == Plain(id, kind, p, token, t, at) IN
           /\ r.id = id /\ r.kind = kind /\ r.phase = p /\ r.token = token /\ r.terminal = t
           /\ r.at = at /\ r.backend = "none" /\ r.final = "none" /\ ~r.gone
BY DEF Plain, Record

\* The operations of s end with the step, or none was under way.
Idle(s) == TasksStep(s) /\ \A b \in Backends : task'[b][s].at \notin {"setup", "worker"}

\* A request that is over.
LEMMA OverOwn ==
    ASSUME RequestTypes, NEW s \in Seqs, Sound(request[s]), Live(request[s]),
           NEW p \in {request[s].phase, "released"}, NEW t \in Classes \cup {"none"},
           request' = [request EXCEPT ![s] =
                         Plain(request[s].id, "none", p, request[s].token, t, "over")],
           Idle(s), UNCHANGED <<next_sequence, poisoned>>
    PROVE  Own(s, Plain(request[s].id, "none", p, request[s].token, t, "over"))
<1>1. /\ request[s] \in Requests /\ request[s].id \in Ids /\ request[s].token \in BOOLEAN
      /\ request[s].phase \in {"queued", "running", "terminal", "released"}
  BY DEF RequestTypes, Requests, Sound, Live, CallPlaces, ExecutorPlaces
<1> DEFINE r == Plain(request[s].id, "none", p, request[s].token, t, "over")
<1>2. r \in Requests
  BY <1>1, PlainTypes DEF Places
<1>3. /\ r.id = request[s].id /\ r.kind = "none" /\ r.phase = p /\ r.at = "over"
      /\ r.backend = "none" /\ r.final = "none" /\ ~r.gone
  BY PlainFields
<1> HIDE DEF r
<1>4. Sound(r)
  BY <1>1, <1>3 DEF Sound, CallPlaces, HolderPlaces, ExecutorPlaces
<1>5. ASSUME NEW b \in Backends PROVE Paired(r, b, task'[b][s])
  BY <1>3 DEF Paired, Idle, ExecutorPlaces
<1> QED BY <1>2, <1>4, <1>5 DEF Own, Idle, r

\* A future that returns.
LEMMA FinishedEnds ==
    ASSUME RequestTypes, Each, NEW s \in Seqs, NEW class \in Classes,
           request[s].at \in CallPlaces, Finished(s, class), Idle(s),
           UNCHANGED <<next_sequence, poisoned>>
    PROVE  \E r \in Requests : Ends(s, r)
<1>1. Sound(request[s]) /\ Live(request[s]) /\ request[s].terminal = "none"
  BY DEF Each, Sound, Live
<1>2. request[s] \in Requests
  BY DEF RequestTypes
<1>3. CASE poisoned
  <2> DEFINE r == Plain(request[s].id, "none", request[s].phase, request[s].token, "none", "over")
  <2>1. request' = [request EXCEPT ![s] = r] /\ UNCHANGED operations
    BY <1>1, <1>3, OverRecord DEF Finished
  <2>2. Own(s, r)
    BY <1>1, <2>1, OverOwn
  <2>3. /\ r.id = request[s].id /\ r.token = request[s].token /\ r.terminal = "none"
        /\ r.at = "over"
    BY PlainFields
  <2> HIDE DEF r
  <2>4. Ends(s, r)
    BY <1>1, <1>3, <2>1, <2>2, <2>3 DEF Ends
  <2> QED BY <2>2, <2>4 DEF Own
<1>4. CASE ~poisoned
  <2> DEFINE r == Plain(request[s].id, "none", "released", request[s].token, class, "over")
  <2>1. /\ request' = [request EXCEPT ![s] = r]
        /\ operations' = [operations EXCEPT ![request[s].id] = 0]
    BY <1>4, SettledRecord DEF Finished
  <2>2. Own(s, r)
    BY <1>1, <2>1, OverOwn
  <2>3. /\ r.id = request[s].id /\ r.token = request[s].token /\ r.terminal = class
        /\ r.at = "over"
    BY PlainFields
  <2> HIDE DEF r
  <2>4. Ends(s, r)
    BY <1>1, <1>4, <2>1, <2>2, <2>3 DEF Ends
  <2> QED BY <2>2, <2>4 DEF Own
<1> QED BY <1>3, <1>4

\* The future goes on with the record r.
Onward(s, r) ==
    /\ r \in Requests /\ request' = [request EXCEPT ![s] = r]
    /\ r.id = request[s].id /\ r.token = request[s].token /\ r.terminal = request[s].terminal
    /\ r.gone = request[s].gone /\ r.final = request[s].final
    /\ r.phase \in {request[s].phase, "running"} /\ r.at \in CallPlaces \cup {"ticket"}
    /\ r.at \in HolderPlaces \cup {"waiting"} => r.backend \in Backends
    /\ r.at \in HolderPlaces =>
         /\ r.backend = request[s].backend /\ r.slot = request[s].slot
         /\ request[s].at \in HolderPlaces \/ Cardinality(Holders(r.backend, r.slot)) < Slots
    /\ UNCHANGED <<operations, next_sequence, poisoned>>

\* A step of the future is one of the request.
LEMMA OnwardGoes ==
    ASSUME RequestTypes, Each, NEW s \in Seqs, request[s].at \in CallPlaces, NEW r,
           Onward(s, r), TasksStep(s),
           \A c \in Backends :
             /\ (task'[c][s].at = "setup") = (r.at \in {"polled", "executing", "stopping"} /\ r.backend = c)
             /\ task'[c][s].at = "worker" => r.at = "ticket" /\ r.backend = c
    PROVE  \E q \in Requests : Goes(s, q)
<1>0. /\ request[s] \in Requests /\ Sound(request[s]) /\ Live(request[s])
      /\ request[s].terminal = "none" /\ request[s].id \in Ids
      /\ request[s].phase \in {"queued", "running", "terminal", "released"}
      /\ request[s].final = "none" /\ ~request[s].gone
  <2>1. request[s] \in Requests /\ Sound(request[s]) /\ Live(request[s])
    BY DEF RequestTypes, Each, Live
  <2>2. request[s].at \notin ExecutorPlaces /\ request[s].at # "none"
    BY DEF CallPlaces, ExecutorPlaces
  <2> QED BY <2>1, <2>2 DEF Sound, Requests
<1>1. /\ r \in Requests /\ r.id \in Ids /\ r.phase # "none" /\ r.terminal = "none"
      /\ r.final = "none" /\ ~r.gone /\ r.at \in CallPlaces \cup {"ticket"}
  BY <1>0 DEF Onward
<1>2. Sound(r)
  BY <1>1 DEF Sound, Onward, CallPlaces, ExecutorPlaces
<1>3. ASSUME NEW c \in Backends PROVE Paired(r, c, task'[c][s])
  BY <1>1 DEF Paired, CallPlaces, ExecutorPlaces
<1>4. Own(s, r)
  BY <1>1, <1>2, <1>3 DEF Own, Onward
<1>5. Live(r) /\ r.at \notin {"late", "publishing"}
  BY <1>1 DEF Live, CallPlaces, ExecutorPlaces
<1>6. Goes(s, r)
  BY <1>0, <1>4, <1>5 DEF Goes, Onward
<1> QED BY <1>1, <1>6

\* A setup error that is retried.
LEMMA RetryGoes ==
    ASSUME RequestTypes, Each, NEW s \in Seqs, request[s].at \in CallPlaces, Retry(s), Idle(s),
           UNCHANGED <<next_sequence, poisoned>>
    PROVE  \E r \in Requests : Goes(s, r)
<1> DEFINE kind == IF request[s].kind = "counted" THEN "exact" ELSE request[s].kind
           r == With(request[s], "choose", kind, request[s].phase, request[s].terminal, "none", 0,
                     request[s].candidates)
<1>1. /\ request[s] \in Requests /\ request[s].candidates \in [Backends -> 0 .. MaxAdmissions]
      /\ request[s].kind \in Kinds \cup {"none", "exact", "counted"}
      /\ request[s].phase \in {"none", "queued", "running", "terminal", "released"}
      /\ request[s].terminal \in Classes \cup {"none"}
  BY DEF RequestTypes, Requests
<1>2. /\ kind \in Kinds \cup {"none", "exact", "counted"} /\ 0 \in 0 .. MaxAdmissions
      /\ "choose" \in Places
  BY <1>1, BoundsAssumption DEF Places, CallPlaces
<1>3. request' = [request EXCEPT ![s] = r]
  <2>1. [request[s] EXCEPT !.at = "choose", !.backend = "none", !.slot = 0, !.kind = kind] = r
    BY <1>1, WritesRetry
  <2> QED BY <2>1 DEF Retry
<1> HIDE DEF kind
<1>4. r \in Requests
  BY <1>1, <1>2, WithTypes
<1>5. /\ r.id = request[s].id /\ r.token = request[s].token /\ r.terminal = request[s].terminal
      /\ r.gone = request[s].gone /\ r.final = request[s].final
      /\ r.phase = request[s].phase /\ r.at = "choose"
  BY DEF With, Record
<1> HIDE DEF r
<1>6. Onward(s, r)
  BY <1>3, <1>4, <1>5 DEF Onward, Retry, CallPlaces, HolderPlaces, ExecutorPlaces
<1> QED BY <1>5, <1>6, OnwardGoes DEF Idle

\* Where a request is in its setup, its backend has the operation; elsewhere
\* none.
LEMMA SetupTasks ==
    ASSUME Each, NEW s \in Seqs, request[s].at \in CallPlaces
    PROVE  /\ request[s].at \notin {"polled", "executing", "stopping"} =>
                \A b \in Backends : task[b][s].at \notin {"setup", "worker"}
           /\ request[s].at \in {"polled", "executing", "stopping"} =>
                /\ request[s].backend \in Backends /\ task[request[s].backend][s].at = "setup"
                /\ \A b \in Backends \ {request[s].backend} : task[b][s].at \notin {"setup", "worker"}
           /\ request[s].at \in {"waiting", "holding", "dispatch"} => request[s].backend \in Backends
<1>1. request[s].at \notin ExecutorPlaces
  BY DEF CallPlaces, ExecutorPlaces
<1>2. \A b \in Backends : task[b][s].at # "worker"
  BY <1>1 DEF Each, Paired
<1>3. \A b \in Backends : (task[b][s].at = "setup") =
                            (request[s].at \in {"polled", "executing", "stopping"} /\ request[s].backend = b)
  BY DEF Each, Paired
<1>4. request[s].at \in HolderPlaces \cup {"waiting"} => request[s].backend \in Backends
  BY DEF Each, Sound
<1> QED BY <1>2, <1>3, <1>4 DEF HolderPlaces

\* A step that leaves the backends alone.
LEMMA TasksUnchanged ==
    ASSUME TaskTypes, UNCHANGED task, NEW s \in Seqs
    PROVE  TasksStep(s)
BY DEF TaskTypes, TasksStep, Nudged

\* Before its setup no operation of the request is under way.
LEMMA IdleBefore ==
    ASSUME TaskTypes, Each, NEW s \in Seqs,
           request[s].at \in CallPlaces \ {"polled", "executing", "stopping"}, UNCHANGED task
    PROVE  Idle(s)
BY TasksUnchanged, SetupTasks DEF Idle

\* Nor when the backend cancels.
LEMMA IdleCancelled ==
    ASSUME TaskTypes, Each, NEW s \in Seqs, NEW S,
           request[s].at = "holding", task' = CancelIn(task, request[s].backend, S)
    PROVE  Idle(s)
<1>1. /\ request[s].backend \in Backends /\ \A b \in Backends : task[b][s].at \notin {"setup", "worker"}
  BY SetupTasks DEF CallPlaces
<1>2. task \in [Backends -> [Seqs -> Tasks]]
  BY DEF TaskTypes
<1>3. /\ task' \in [Backends -> [Seqs -> Tasks]]
      /\ \A b \in Backends, q \in Seqs : Nudged(task[b][q], task'[b][q])
  BY <1>1, <1>2, CancelInTasks
<1> QED BY <1>1, <1>3 DEF Idle, TasksStep, TaskTypes, Nudged

\* The operation ends, or its blocking task is left behind.
LEMMA IdleDropped ==
    ASSUME TaskTypes, Each, NEW s \in Seqs, request[s].at \in {"polled", "executing", "stopping"},
           NEW place \in {"none", "left"}, NEW S,
           \/ task' = Moved(request[s].backend, s, place)
           \/ task' = CancelIn(Moved(request[s].backend, s, place), request[s].backend, S)
    PROVE  Idle(s)
<1> DEFINE b == request[s].backend
           t == Moved(b, s, place)
<1>1. /\ b \in Backends /\ task[b][s].at = "setup"
      /\ \A c \in Backends \ {b} : task[c][s].at \notin {"setup", "worker"}
  BY SetupTasks DEF CallPlaces
<1>2. /\ t \in [Backends -> [Seqs -> Tasks]] /\ t[b][s].at = place
      /\ \A c \in Backends, q \in Seqs : c # b \/ q # s => t[c][q] = task[c][q]
  BY <1>1, MovedTasks
<1>3. /\ task' \in [Backends -> [Seqs -> Tasks]]
      /\ \A c \in Backends, q \in Seqs : Nudged(t[c][q], task'[c][q])
  <2>1. CASE task' = t
    BY <1>2, <2>1 DEF Nudged
  <2>2. CASE task' = CancelIn(t, b, S)
    <3> HIDE DEF t
    <3> QED BY <1>1, <1>2, <2>2, CancelInTasks
  <2> QED BY <2>1, <2>2
<1> HIDE DEF t, b
<1>4. task'[b][s].at = place
  BY <1>1, <1>2, <1>3 DEF Nudged
<1>5. \A c \in Backends, q \in Seqs : c # b \/ q # s => Nudged(task[c][q], task'[c][q])
  BY <1>2, <1>3
<1>6. TasksStep(s)
  <2>1. \A c \in Backends : task[c][s].at = "none" => task'[c][s].at = "none"
    BY <1>1, <1>5 DEF Nudged
  <2> QED BY <1>3, <1>5, <2>1 DEF TasksStep, TaskTypes
<1>7. \A c \in Backends : task'[c][s].at \notin {"setup", "worker"}
  <2>1. ASSUME NEW c \in Backends, c # b PROVE task'[c][s].at \notin {"setup", "worker"}
    BY <1>1, <1>5, <2>1 DEF Nudged
  <2> QED BY <1>4, <2>1
<1> QED BY <1>6, <1>7 DEF Idle

\* What the future of a request does to the registry.
Moves(s) == \E r \in Requests : Goes(s, r) \/ Ends(s, r)

\* The steps that end the future or go on with the next candidate.
LEMMA SetupEnds ==
    ASSUME RequestTypes, TaskTypes, Each, NEW s \in Seqs,
           \/ SetupRefused(s) \/ WaitCancelled(s) \/ WaitFails(s) \/ HoldingCancelled(s)
           \/ DispatchFails(s) \/ TokenInSetup(s) \/ StartupTimeout(s) \/ CallerGone(s)
           \/ TaskFails(s) \/ Counted(s) \/ (request[s].at = "stopping" /\ Preflight(s))
    PROVE  Moves(s)
<1>0. Classes = {"completed", "cancelled", "failed"}
  BY DEF Classes
<1>1. request[s].at \in CallPlaces
  BY DEF SetupRefused, WaitCancelled, WaitFails, HoldingCancelled, DispatchFails, TokenInSetup,
     StartupTimeout, CallerGone, TaskFails, Counted, Preflight, Ready, CallPlaces
<1>2. UNCHANGED <<next_sequence, poisoned>>
  BY DEF SetupRefused, WaitCancelled, WaitFails, HoldingCancelled, DispatchFails, TokenInSetup,
     StartupTimeout, CallerGone, TaskFails, Counted, Preflight, callUnchanged
<1>3. Retry(s) \/ \E class \in Classes : Finished(s, class)
  <2>1. CancelledClass(s) \in Classes
    BY <1>0 DEF CancelledClass
  <2>2. SetupError(s) => Retry(s) \/ \E class \in Classes : Finished(s, class)
    BY <1>0 DEF SetupError
  <2> QED BY <1>0, <2>1, <2>2
    DEF SetupRefused, WaitCancelled, WaitFails, HoldingCancelled, DispatchFails, TokenInSetup,
     StartupTimeout, CallerGone, TaskFails, Counted, Preflight
<1>4. Idle(s)
  <2>1. CASE SetupRefused(s) \/ WaitCancelled(s) \/ WaitFails(s) \/ DispatchFails(s)
    BY <1>1, <2>1, IdleBefore DEF SetupRefused, WaitCancelled, WaitFails, DispatchFails
  <2>2. CASE HoldingCancelled(s)
    BY <2>2, IdleCancelled DEF HoldingCancelled
  <2>3. \A b : Dropped(b) \subseteq {"none", "left"}
    BY DEF Dropped
  <2>4. CASE TokenInSetup(s)
    BY <2>3, <2>4, IdleDropped DEF TokenInSetup
  <2>5. CASE StartupTimeout(s)
    BY <2>3, <2>5, IdleDropped DEF StartupTimeout
  <2>6. CASE CallerGone(s)
    BY <1>1, <2>3, <2>6, IdleBefore, IdleDropped DEF CallerGone
  <2>7. CASE TaskFails(s) \/ Counted(s) \/ Preflight(s)
    BY <2>7, IdleDropped DEF TaskFails, Counted, Preflight, Ready
  <2> QED BY <2>1, <2>2, <2>4, <2>5, <2>6, <2>7
<1> QED BY <1>1, <1>2, <1>3, <1>4, RetryGoes, FinishedEnds DEF Moves

\* A step of the future to another place.
LEMMA AtOnward ==
    ASSUME RequestTypes, NEW s \in Seqs, NEW a \in CallPlaces \cup {"ticket"},
           request' = [request EXCEPT ![s].at = a],
           request[s].at \in HolderPlaces, request[s].backend \in Backends,
           UNCHANGED <<operations, next_sequence, poisoned>>
    PROVE  \E r : Onward(s, r) /\ r.at = a /\ r.backend = request[s].backend
<1> DEFINE r == With(request[s], a, request[s].kind, request[s].phase, request[s].terminal,
                     request[s].backend, request[s].slot, request[s].candidates)
<1>1. request[s] \in Requests
  BY DEF RequestTypes
<1>2. request' = [request EXCEPT ![s] = r]
  <2>1. request' = [request EXCEPT ![s] = [request[s] EXCEPT !.at = a]]
    OBVIOUS
  <2>2. [request[s] EXCEPT !.at = a] = r
    BY <1>1, WritesAt
  <2> QED BY <2>1, <2>2
<1>3. r \in Requests
  <2>1. a \in Places
    BY DEF Places, ExecutorPlaces
  <2> QED BY <1>1, <2>1 DEF Requests, With, Record
<1>4. /\ r.id = request[s].id /\ r.token = request[s].token /\ r.terminal = request[s].terminal
      /\ r.gone = request[s].gone /\ r.final = request[s].final /\ r.phase = request[s].phase
      /\ r.at = a /\ r.backend = request[s].backend /\ r.slot = request[s].slot
  BY DEF With, Record
<1> HIDE DEF r
<1>5. Onward(s, r)
  BY <1>2, <1>3, <1>4 DEF Onward
<1> QED BY <1>4, <1>5

\* A candidate is found and waited for, and a permit is taken.
LEMMA AdmissionGoes ==
    ASSUME RequestTypes, TaskTypes, GatewayTypes, Each, NEW s \in Seqs,
           Resolve(s) \/ (\E b \in Backends : AdmitBegin(s, b)) \/ Acquire(s)
    PROVE  Moves(s)
<1>0. /\ request[s] \in Requests /\ request[s].candidates \in [Backends -> 0 .. MaxAdmissions]
      /\ request[s].kind \in Kinds \cup {"none", "exact", "counted"}
      /\ request[s].phase \in {"none", "queued", "running", "terminal", "released"}
      /\ request[s].terminal \in Classes \cup {"none"} /\ request[s].slot \in 0 .. MaxAdmissions
      /\ request[s].backend \in Backends \cup {"none"}
  BY DEF RequestTypes, Requests
<1>1. /\ request[s].at \in {"setup", "choose", "waiting"}
      /\ UNCHANGED <<operations, next_sequence, poisoned, task>>
  BY DEF Resolve, AdmitBegin, Acquire, callUnchanged
<1>2. TasksStep(s) /\ \A b \in Backends : task'[b][s].at \notin {"setup", "worker"}
  BY <1>1, IdleBefore DEF CallPlaces, Idle
<1>3. ASSUME NEW r, Onward(s, r), r.at \in {"choose", "waiting", "holding"} PROVE Moves(s)
  <2>1. request[s].at \in CallPlaces
    BY <1>1 DEF CallPlaces
  <2> QED BY <1>2, <1>3, <2>1, OnwardGoes DEF Moves
<1>4. CASE Resolve(s)
  <2>1. PICK C \in SUBSET backends :
          request' = [request EXCEPT ![s] =
                        [request[s] EXCEPT !.at = "choose",
                           !.candidates = [b \in Backends |-> IF b \in C THEN admission[b] ELSE 0]]]
    BY <1>4 DEF Resolve
  <2>2. PICK D : D = [b \in Backends |-> IF b \in C THEN admission[b] ELSE 0]
    OBVIOUS
  <2>3. D \in [Backends -> 0 .. MaxAdmissions]
    BY <2>2, BoundsAssumption DEF GatewayTypes
  <2> DEFINE r == With(request[s], "choose", request[s].kind, request[s].phase, request[s].terminal,
                       request[s].backend, request[s].slot, D)
  <2>4. request' = [request EXCEPT ![s] = r]
    <3>1. [request[s] EXCEPT !.at = "choose", !.candidates = D] = r
      <4>1. request[s] \in Requests
        BY <1>0
      <4> QED BY <4>1, WritesCandidates, Zenon
    <3> QED BY <2>1, <2>2, <3>1
  <2>5. r \in Requests
    BY <1>0, <2>3, WithTypes DEF Places, CallPlaces
  <2>6. /\ r.id = request[s].id /\ r.token = request[s].token /\ r.terminal = request[s].terminal
        /\ r.gone = request[s].gone /\ r.final = request[s].final /\ r.phase = request[s].phase
        /\ r.at = "choose"
    BY DEF With, Record
  <2> HIDE DEF r
  <2>7. Onward(s, r)
    BY <1>1, <2>4, <2>5, <2>6 DEF Onward, CallPlaces, HolderPlaces, ExecutorPlaces
  <2> QED BY <1>3, <2>6, <2>7
<1>5. ASSUME NEW b \in Backends, AdmitBegin(s, b) PROVE Moves(s)
  <2> DEFINE n == request[s].candidates[b]
             D == [request[s].candidates EXCEPT ![b] = 0]
             r == With(request[s], "waiting", request[s].kind, request[s].phase, request[s].terminal,
                       b, n, D)
  <2>1. n \in 0 .. MaxAdmissions /\ D \in [Backends -> 0 .. MaxAdmissions]
    BY <1>0, BoundsAssumption
  <2>2. request' = [request EXCEPT ![s] = r]
    <3>1. [request[s] EXCEPT !.at = "waiting", !.backend = b, !.slot = n, !.candidates[b] = 0] = r
      <4>1. request[s] \in Requests
        BY <1>0
      <4> QED BY <4>1, WritesBackend, Zenon
    <3> QED BY <1>5, <3>1 DEF AdmitBegin
  <2> HIDE DEF n, D
  <2>3. r \in Requests
    BY <1>0, <2>1, WithTypes DEF Places, CallPlaces
  <2>4. /\ r.id = request[s].id /\ r.token = request[s].token /\ r.terminal = request[s].terminal
        /\ r.gone = request[s].gone /\ r.final = request[s].final /\ r.phase = request[s].phase
        /\ r.at = "waiting" /\ r.backend = b
    BY DEF With, Record
  <2> HIDE DEF r
  <2>5. Onward(s, r)
    BY <1>1, <2>2, <2>3, <2>4 DEF Onward, CallPlaces, HolderPlaces, ExecutorPlaces
  <2> QED BY <1>3, <2>4, <2>5
<1>6. CASE Acquire(s)
  <2> DEFINE r == With(request[s], "holding", request[s].kind, "running", request[s].terminal,
                       request[s].backend, request[s].slot, request[s].candidates)
  <2>0. request[s].backend \in Backends /\ Cardinality(Holders(request[s].backend, request[s].slot)) < Slots
    BY <1>6, SetupTasks DEF Acquire, CallPlaces
  <2>1. request' = [request EXCEPT ![s] = r]
    <3>1. [request[s] EXCEPT !.at = "holding", !.phase = "running"] = r
      BY <1>0, WritesPhase
    <3> QED BY <1>6, <3>1 DEF Acquire
  <2>2. r \in Requests
    BY <1>0, WithTypes DEF Places, CallPlaces
  <2>3. /\ r.id = request[s].id /\ r.token = request[s].token /\ r.terminal = request[s].terminal
        /\ r.gone = request[s].gone /\ r.final = request[s].final /\ r.phase = "running"
        /\ r.at = "holding" /\ r.backend = request[s].backend /\ r.slot = request[s].slot
    BY DEF With, Record
  <2> HIDE DEF r
  <2>4. Onward(s, r)
    BY <1>1, <2>0, <2>1, <2>2, <2>3 DEF Onward, CallPlaces
  <2> QED BY <1>3, <2>3, <2>4
<1> QED BY <1>4, <1>5, <1>6

\* The operation is registered, and becomes a ticket.
LEMMA SetupGoes ==
    ASSUME RequestTypes, TaskTypes, Each, NEW s \in Seqs,
           \/ Dispatch(s) \/ Register(s) \/ Suspend(s) \/ StopInSetup(s) \/ Ticket(s)
           \/ (request[s].at \in {"polled", "executing"} /\ Preflight(s))
    PROVE  Moves(s)
<1> DEFINE b == request[s].backend
<1>0. /\ request[s] \in Requests /\ request[s].at \in {"holding", "dispatch", "polled", "executing", "stopping"}
      /\ request[s].at \in CallPlaces /\ request[s].at \in HolderPlaces
      /\ UNCHANGED <<operations, next_sequence, poisoned>>
  BY DEF Dispatch, Register, Suspend, StopInSetup, Ticket, Preflight, Ready, callUnchanged,
     RequestTypes, CallPlaces, HolderPlaces
<1>1. /\ b \in Backends
      /\ \A c \in Backends \ {b} : task[c][s].at \notin {"setup", "worker"}
      /\ task[b][s].at # "worker"
      /\ (task[b][s].at = "setup") = (request[s].at \in {"polled", "executing", "stopping"})
  BY <1>0, SetupTasks
<1>2. ASSUME NEW a \in CallPlaces \cup {"ticket"}, request' = [request EXCEPT ![s].at = a],
             TasksStep(s), \A c \in Backends \ {b} : task'[c][s].at \notin {"setup", "worker"},
             (task'[b][s].at = "setup") = (a \in {"polled", "executing", "stopping"}),
             task'[b][s].at = "worker" => a = "ticket"
      PROVE  Moves(s)
  <2>1. PICK r : Onward(s, r) /\ r.at = a /\ r.backend = b
    BY <1>0, <1>1, <1>2, AtOnward
  <2>2. \A c \in Backends :
             /\ (task'[c][s].at = "setup") = (r.at \in {"polled", "executing", "stopping"} /\ r.backend = c)
             /\ task'[c][s].at = "worker" => r.at = "ticket" /\ r.backend = c
    BY <1>1, <1>2, <2>1
  <2> QED BY <1>0, <1>2, <2>1, <2>2, OnwardGoes DEF Moves
<1>t. task \in [Backends -> [Seqs -> Tasks]]
  BY DEF TaskTypes
<1>3. CASE Dispatch(s)
  <2>1. UNCHANGED task /\ request' = [request EXCEPT ![s].at = "dispatch"] /\ request[s].at = "holding"
    BY <1>3 DEF Dispatch
  <2>2. TasksStep(s)
    BY <2>1, TasksUnchanged
  <2> QED BY <1>1, <1>2, <2>1, <2>2 DEF CallPlaces
<1>4. CASE Register(s)
  <2> DEFINE t == [at |-> "setup", cancelled |-> FALSE]
  <2>1. /\ task' = [task EXCEPT ![b] = [task[b] EXCEPT ![s] = t]]
        /\ request' = [request EXCEPT ![s].at = "polled"] /\ b \in accepting
    BY <1>4 DEF Register, Refuses
  <2>2. t \in Tasks /\ t.at = "setup"
    BY DEF Tasks
  <2> HIDE DEF t
  <2>3. /\ task' \in [Backends -> [Seqs -> Tasks]] /\ task'[b][s] = t
        /\ \A c \in Backends, q \in Seqs : c # b \/ q # s => task'[c][q] = task[c][q]
    BY <1>1, <1>t, <2>1, <2>2
  <2>4. TasksStep(s)
    BY <1>1, <2>1, <2>3 DEF TasksStep, TaskTypes, Nudged
  <2> QED BY <1>1, <1>2, <2>1, <2>2, <2>3, <2>4 DEF CallPlaces
<1>5. CASE StopInSetup(s)
  <2>1. /\ task' = CancelIn(task, b, SameId(s)) /\ request' = [request EXCEPT ![s].at = "stopping"]
        /\ request[s].at = "executing"
    BY <1>5 DEF StopInSetup
  <2>2. /\ task' \in [Backends -> [Seqs -> Tasks]]
        /\ \A c \in Backends, q \in Seqs : Nudged(task[c][q], task'[c][q])
    BY <1>1, <1>t, <2>1, CancelInTasks
  <2>3. TasksStep(s)
    BY <2>2 DEF TasksStep, TaskTypes, Nudged
  <2> QED BY <1>1, <1>2, <2>1, <2>2, <2>3 DEF CallPlaces, Nudged
<1>6. CASE Ticket(s)
  <2>1. /\ task' = Moved(b, s, "worker") /\ request' = [request EXCEPT ![s].at = "ticket"]
        /\ request[s].at \in {"polled", "executing", "stopping"}
    BY <1>6 DEF Ticket, Ready
  <2>2. /\ task' \in [Backends -> [Seqs -> Tasks]] /\ task'[b][s].at = "worker"
        /\ \A c \in Backends, q \in Seqs : c # b \/ q # s => task'[c][q] = task[c][q]
    BY <1>1, <2>1, MovedTasks
  <2>3. TasksStep(s)
    BY <1>1, <2>1, <2>2 DEF TasksStep, TaskTypes, Nudged
  <2>4. /\ \A c \in Backends \ {b} : task'[c][s].at \notin {"setup", "worker"}
        /\ (task'[b][s].at = "setup") = ("ticket" \in {"polled", "executing", "stopping"})
    BY <1>1, <2>2
  <2> QED BY <1>2, <2>1, <2>3, <2>4
<1>7. CASE request[s].at \in {"polled", "executing"} /\ Preflight(s)
  <2> DEFINE r == With(request[s], "dispatch", "counted", request[s].phase, request[s].terminal,
                       b, request[s].slot, request[s].candidates)
  <2>1. request' = [request EXCEPT ![s] = r] /\ task' = Moved(b, s, "none")
    <3>1. [request[s] EXCEPT !.at = "dispatch", !.kind = "counted"] = r
      BY <1>0, WritesKind
    <3> QED BY <1>7, <3>1 DEF Preflight
  <2>2. r \in Requests
    BY <1>0 DEF Requests, With, Record, Places, CallPlaces
  <2>3. /\ r.id = request[s].id /\ r.token = request[s].token /\ r.terminal = request[s].terminal
        /\ r.gone = request[s].gone /\ r.final = request[s].final /\ r.phase = request[s].phase
        /\ r.at = "dispatch" /\ r.backend = b /\ r.slot = request[s].slot
    BY DEF With, Record
  <2> HIDE DEF r
  <2>4. Onward(s, r)
    BY <1>0, <1>1, <2>1, <2>2, <2>3 DEF Onward, CallPlaces
  <2>5. Idle(s)
    BY <1>7, <2>1, IdleDropped
  <2> QED BY <1>0, <2>3, <2>4, <2>5, OnwardGoes DEF Idle, Moves
<1>8. CASE Suspend(s)
  <2>1. /\ UNCHANGED task /\ request' = [request EXCEPT ![s].at = "executing"]
        /\ request[s].at = "polled"
    BY <1>8 DEF Suspend
  <2>2. TasksStep(s)
    BY <2>1, TasksUnchanged
  <2> QED BY <1>1, <1>2, <2>1, <2>2 DEF CallPlaces
<1> QED BY <1>3, <1>4, <1>5, <1>6, <1>7, <1>8


-----------------------------------------------------------------------------
(* The steps of the executor and of the worker.                            *)

\* The executor goes on with the record r.
Runs(s, r) ==
    /\ r \in Requests /\ request' = [request EXCEPT ![s] = r] /\ r.at \in ExecutorPlaces
    /\ r.id = request[s].id /\ r.token = request[s].token
    /\ r.phase \in {request[s].phase, "terminal"}
    /\ r.backend = request[s].backend /\ r.slot = request[s].slot
    /\ \/ r.terminal = request[s].terminal
       \/ r.terminal \in Classes /\ request[s].terminal = "none"
    /\ r.at \in {"ticket", "await"} => r.terminal = "none"
    /\ r.at \in {"late", "publishing"} => r.terminal # "none" \/ poisoned
    /\ r.at = "publishing" => r.final # "none"
    /\ UNCHANGED <<operations, next_sequence, poisoned>>

\* Its worker, if there is one, was cancelled when nobody listens to it.
Served(s, r) ==
    \A b \in Backends :
      /\ task'[b][s].at # "setup"
      /\ task'[b][s].at = "worker" => r.backend = b /\ r.final = "none"
      /\ r.backend = b /\ (r.at \in {"await", "late"} \/ (r.at = "ticket" /\ r.gone))
           => task'[b][s].at \in {"none", "sent"} \/ task'[b][s].cancelled

\* A step of the executor is one of the request.
LEMMA ExecutorGoes ==
    ASSUME Each, NEW s \in Seqs, request[s].at \in ExecutorPlaces,
           NEW r, Runs(s, r), Served(s, r), TasksStep(s)
    PROVE  Moves(s)
<1>1. request[s].id \in Ids /\ request[s].phase # "none" /\ request[s].backend \in Backends
  BY DEF Each, Sound, HolderPlaces, ExecutorPlaces
<1>2. Sound(r)
  BY <1>1 DEF Runs, Sound, HolderPlaces, ExecutorPlaces, CallPlaces
<1>3. \A b \in Backends : Paired(r, b, task'[b][s])
  BY DEF Runs, Served, Paired, ExecutorPlaces
<1>4. Own(s, r)
  BY <1>2, <1>3 DEF Runs, Own
<1>5. Live(request[s]) /\ Live(r) /\ request[s].at \in HolderPlaces
  BY DEF Runs, Live, HolderPlaces
<1>6. Goes(s, r)
  BY <1>4, <1>5 DEF Runs, Goes
<1> QED BY <1>6 DEF Moves, Runs

\* Of an executor's request only the worker is under way.
LEMMA ExecutorTasks ==
    ASSUME Each, NEW s \in Seqs, request[s].at \in ExecutorPlaces
    PROVE  /\ request[s].backend \in Backends
           /\ \A b \in Backends : Paired(request[s], b, task[b][s]) /\ task[b][s].at # "setup"
BY DEF Each, Sound, Paired, HolderPlaces, ExecutorPlaces

\* What the cancellation handle of a ticket does.
LEMMA Handle ==
    ASSUME TaskTypes, Each, NEW s \in Seqs, request[s].at \in ExecutorPlaces,
           task' = HandleCancel(s)
    PROVE  /\ TaskTypes' /\ TasksStep(s)
           /\ \A b \in Backends, q \in Seqs : Nudged(task[b][q], task'[b][q])
           /\ \/ task'[request[s].backend][s].at = "none"
              \/ task'[request[s].backend][s].cancelled
<1>1. task \in [Backends -> [Seqs -> Tasks]] /\ request[s].backend \in Backends
  BY ExecutorTasks DEF TaskTypes
<1>2. /\ task' \in [Backends -> [Seqs -> Tasks]]
      /\ \A c \in Backends, q \in Seqs : Nudged(task[c][q], task'[c][q])
      /\ \A q \in Seqs : q \in {s} => \/ task'[request[s].backend][q].at = "none"
                                      \/ task'[request[s].backend][q].cancelled
  BY <1>1, CancelInTasks DEF HandleCancel
<1>3. TaskTypes'
  BY <1>2 DEF TaskTypes
<1>4. TasksStep(s)
  BY <1>2, <1>3 DEF TasksStep, Nudged
<1> QED BY <1>2, <1>3, <1>4

\* A terminal class of the executor, or the error recorded.
LEMMA TerminalGoes ==
    ASSUME RequestTypes, Each, NEW s \in Seqs, request[s].at \in {"ticket", "await"},
           NEW class \in Classes, NEW place \in {"late", "publishing"}, Terminal(s, class, place),
           place = "publishing" => request[s].final # "none",
           TasksStep(s), UNCHANGED <<operations, next_sequence, poisoned>>,
           \A b \in Backends :
             /\ task'[b][s].at # "setup"
             /\ task'[b][s].at = "worker" => request[s].backend = b /\ request[s].final = "none"
             /\ request[s].backend = b /\ place = "late"
                  => task'[b][s].at \in {"none", "sent"} \/ task'[b][s].cancelled
    PROVE  Moves(s)
<1>0. /\ request[s] \in Requests /\ request[s].terminal = "none"
      /\ request[s].at \in ExecutorPlaces /\ place \in ExecutorPlaces
  BY DEF RequestTypes, Each, Sound, ExecutorPlaces
<1>1. ASSUME NEW p \in {request[s].phase, "terminal"}, NEW t \in Classes \cup {"none"},
             t # "none" \/ poisoned,
             request' = [request EXCEPT ![s] =
                           With(request[s], place, request[s].kind, p, t, request[s].backend,
                                request[s].slot, request[s].candidates)]
      PROVE  Moves(s)
  <2> DEFINE r == With(request[s], place, request[s].kind, p, t, request[s].backend,
                       request[s].slot, request[s].candidates)
  <2>1. r \in Requests
    BY <1>0 DEF Requests, With, Record, Places
  <2>2. /\ r.id = request[s].id /\ r.token = request[s].token /\ r.terminal = t
        /\ r.gone = request[s].gone /\ r.final = request[s].final /\ r.phase = p
        /\ r.at = place /\ r.backend = request[s].backend /\ r.slot = request[s].slot
    BY DEF With, Record
  <2>3. request' = [request EXCEPT ![s] = r]
    BY <1>1
  <2> HIDE DEF r
  <2>4. Runs(s, r)
    BY <1>0, <1>1, <2>1, <2>2, <2>3 DEF Runs
  <2>5. Served(s, r)
    BY <2>2 DEF Served
  <2> QED BY <1>0, <2>4, <2>5, ExecutorGoes
<1>2. CASE poisoned
  <2>1. request' = [request EXCEPT ![s] = [request[s] EXCEPT !.at = place]]
    BY <1>2 DEF Terminal
  <2> QED BY <1>0, <1>1, <1>2, <2>1, WritesAt
<1>3. CASE ~poisoned
  <2>1. request' = [request EXCEPT ![s] =
                      [request[s] EXCEPT !.at = place, !.phase = "terminal", !.terminal = class]]
    BY <1>3 DEF Terminal
  <2>2. "none" \notin Classes
    BY DEF Classes
  <2> QED BY <1>0, <1>1, <2>1, <2>2, WritesTerminal
<1> QED BY <1>2, <1>3

\* The steps of an executor that lives on, and the result of its worker.
LEMMA ExecutorSteps ==
    ASSUME RequestTypes, TaskTypes, Each, Entries, NEW s \in Seqs,
           \/ ExecutorAlone(s) \/ ExecutorFinal(s) \/ ExecutorDeadline(s) \/ DropTicket(s)
           \/ \E b \in Backends : WorkerSends(b, s)
    PROVE  Moves(s)
<1>0. /\ request[s] \in Requests /\ request[s].at \in ExecutorPlaces
      /\ UNCHANGED <<operations, next_sequence, poisoned>>
  BY DEF ExecutorAlone, ExecutorFinal, ExecutorDeadline, DropTicket, WorkerSends, RequestTypes,
     ExecutorPlaces, executorUnchanged, registryVars, Each, Paired
<1>1. /\ request[s].backend \in Backends /\ Sound(request[s])
      /\ \A b \in Backends : Paired(request[s], b, task[b][s]) /\ task[b][s].at # "setup"
  BY <1>0, ExecutorTasks DEF Each
<1>2. CASE ExecutorAlone(s)
  <2> DEFINE r == [request[s] EXCEPT !.at = "await"]
  <2>1. r \in Requests
    BY <1>0 DEF Requests, Places, ExecutorPlaces
  <2>2. /\ r.id = request[s].id /\ r.token = request[s].token /\ r.terminal = request[s].terminal
        /\ r.gone = request[s].gone /\ r.final = request[s].final /\ r.phase = request[s].phase
        /\ r.at = "await" /\ r.backend = request[s].backend /\ r.slot = request[s].slot
    BY <1>0 DEF Requests
  <2>3. /\ request' = [request EXCEPT ![s] = r] /\ UNCHANGED task
        /\ request[s].at = "ticket" /\ request[s].gone
    BY <1>2 DEF ExecutorAlone
  <2> HIDE DEF r
  <2>4. TasksStep(s)
    BY <2>3, TasksUnchanged
  <2>5. request[s].terminal = "none"
    BY <1>1, <2>3 DEF Sound
  <2>6. ASSUME NEW b \in Backends
        PROVE /\ task'[b][s].at # "setup"
              /\ task'[b][s].at = "worker" => r.backend = b /\ r.final = "none"
              /\ r.backend = b => task'[b][s].at \in {"none", "sent"} \/ task'[b][s].cancelled
    BY <1>1, <2>2, <2>3 DEF Paired
  <2>7. Runs(s, r)
    BY <1>0, <2>1, <2>2, <2>3, <2>5 DEF Runs, ExecutorPlaces
  <2>8. Served(s, r)
    BY <2>6 DEF Served
  <2> QED BY <1>0, <2>4, <2>7, <2>8, ExecutorGoes
<1>3. CASE ExecutorFinal(s)
  <2>1. /\ UNCHANGED task /\ request[s].at \in {"ticket", "await"} /\ request[s].final # "none"
        /\ \E class \in {request[s].final, "failed"} : Terminal(s, class, "publishing")
    BY <1>3 DEF ExecutorFinal
  <2>2. {request[s].final, "failed"} \subseteq Classes
    BY <1>0, <2>1 DEF Requests, Classes
  <2>3. TasksStep(s)
    BY <2>1, TasksUnchanged
  <2>4. \A b \in Backends : task'[b][s].at \notin {"setup", "worker"}
    BY <1>1, <2>1 DEF Paired
  <2> QED BY <1>0, <2>1, <2>2, <2>3, <2>4, TerminalGoes
<1>4. CASE ExecutorDeadline(s)
  <2>1. request[s].at = "ticket" /\ task' = HandleCancel(s) /\ Terminal(s, "failed", "late")
    BY <1>4 DEF ExecutorDeadline
  <2>2. /\ TasksStep(s) /\ \A b \in Backends : Nudged(task[b][s], task'[b][s])
        /\ \/ task'[request[s].backend][s].at = "none"
           \/ task'[request[s].backend][s].cancelled
    BY <1>0, <2>1, Handle
  <2>3. ASSUME NEW b \in Backends
        PROVE /\ task'[b][s].at # "setup"
              /\ task'[b][s].at = "worker" => request[s].backend = b /\ request[s].final = "none"
              /\ request[s].backend = b
                   => task'[b][s].at \in {"none", "sent"} \/ task'[b][s].cancelled
    BY <1>1, <2>2 DEF Paired, Nudged
  <2>4. "failed" \in Classes
    BY DEF Classes
  <2> QED BY <1>0, <2>1, <2>2, <2>3, <2>4, TerminalGoes
<1>5. CASE DropTicket(s)
  <2> DEFINE r == [request[s] EXCEPT !.gone = TRUE]
  <2>1. r \in Requests
    BY <1>0 DEF Requests
  <2>2. /\ r.id = request[s].id /\ r.token = request[s].token /\ r.terminal = request[s].terminal
        /\ r.final = request[s].final /\ r.phase = request[s].phase
        /\ r.at = request[s].at /\ r.backend = request[s].backend /\ r.slot = request[s].slot
    BY <1>0 DEF Requests
  <2>3. /\ request' = [request EXCEPT ![s] = r]
        /\ task' = IF request[s].at = "ticket" THEN HandleCancel(s) ELSE task
    BY <1>5 DEF DropTicket
  <2> HIDE DEF r
  <2>4. TasksStep(s) /\ \A b \in Backends : Nudged(task[b][s], task'[b][s])
    <3>1. CASE request[s].at = "ticket"
      BY <1>0, <2>3, <3>1, Handle
    <3>2. CASE request[s].at # "ticket"
      BY <2>3, <3>2, TasksUnchanged DEF Nudged
    <3> QED BY <3>1, <3>2
  <2>5. ASSUME NEW b \in Backends
        PROVE /\ task'[b][s].at # "setup"
              /\ task'[b][s].at = "worker" => r.backend = b /\ r.final = "none"
    BY <1>1, <2>2, <2>4 DEF Paired, Nudged
  <2>6. r.at \in {"ticket", "await"} => r.terminal = "none"
    BY <1>1, <2>2 DEF Sound
  <2>7. r.at = "publishing" => r.final # "none"
    BY <1>1, <2>2 DEF Sound
  <2>8. ASSUME NEW b \in Backends, r.backend = b, r.at \in {"await", "late", "ticket"}
        PROVE  task'[b][s].at \in {"none", "sent"} \/ task'[b][s].cancelled
    <3>1. CASE request[s].at = "ticket"
      BY <1>0, <2>2, <2>3, <2>8, <3>1, Handle
    <3>2. CASE request[s].at # "ticket"
      BY <1>1, <2>2, <2>4, <2>8, <3>2 DEF Paired, Nudged
    <3> QED BY <3>1, <3>2
  <2>9. r.at \in {"late", "publishing"} => r.terminal # "none" \/ poisoned
    BY <2>2 DEF Entries
  <2>10. Runs(s, r)
    BY <1>0, <2>1, <2>2, <2>3, <2>6, <2>7, <2>9 DEF Runs
  <2>11. Served(s, r)
    BY <2>5, <2>8 DEF Served
  <2> QED BY <1>0, <2>4, <2>10, <2>11, ExecutorGoes
<1>6. ASSUME NEW b \in Backends, WorkerSends(b, s) PROVE Moves(s)
  <2>1. PICK class \in Classes : request' = [request EXCEPT ![s] = [request[s] EXCEPT !.final = class]]
    BY <1>6 DEF WorkerSends
  <2> DEFINE r == [request[s] EXCEPT !.final = class]
  <2>2. r \in Requests
    BY <1>0 DEF Requests
  <2>3. /\ r.id = request[s].id /\ r.token = request[s].token /\ r.terminal = request[s].terminal
        /\ r.gone = request[s].gone /\ r.final = class /\ r.phase = request[s].phase
        /\ r.at = request[s].at /\ r.backend = request[s].backend /\ r.slot = request[s].slot
    BY <1>0 DEF Requests
  <2>4. request' = [request EXCEPT ![s] = r] /\ class # "none"
    BY <2>1 DEF Classes
  <2> HIDE DEF r
  <2>5. /\ task' \in [Backends -> [Seqs -> Tasks]] /\ task'[b][s].at = "sent"
        /\ \A c \in Backends, q \in Seqs : c # b \/ q # s => task'[c][q] = task[c][q]
    BY <1>6, MovedTasks DEF WorkerSends
  <2>6. task[b][s].at = "worker" /\ request[s].backend = b
    BY <1>1, <1>6 DEF WorkerSends, Paired
  <2>7. TasksStep(s)
    BY <2>5, <2>6 DEF TasksStep, TaskTypes, Nudged
  <2>8. \A c \in Backends : task'[c][s].at \notin {"setup", "worker"}
    BY <1>1, <2>5, <2>6 DEF Paired
  <2>9. Served(s, r)
    BY <2>3, <2>5, <2>6, <2>8 DEF Served
  <2>10. Runs(s, r)
    <3>1. request[s].at \in {"ticket", "await"} => request[s].terminal = "none"
      BY <1>1 DEF Sound
    <3>2. request[s].at \in {"late", "publishing"} => request[s].terminal # "none" \/ poisoned
      BY DEF Entries
    <3> QED BY <1>0, <2>2, <2>3, <2>4, <3>1, <3>2 DEF Runs
  <2> QED BY <1>0, <2>7, <2>9, <2>10, ExecutorGoes
<1> QED BY <1>2, <1>3, <1>4, <1>5, <1>6

\* The end of an executor.
LEMMA ReleaseEnds ==
    ASSUME RequestTypes, TaskTypes, Each, Entries, NEW s \in Seqs, ExecutorRelease(s)
    PROVE  Moves(s)
<1>1. /\ request[s] \in Requests /\ request[s].at \in ExecutorPlaces /\ Live(request[s])
      /\ Sound(request[s]) /\ request[s].final # "none"
      /\ request[s].at \in {"late", "publishing"}
      /\ UNCHANGED <<next_sequence, poisoned, task>>
  BY DEF ExecutorRelease, RequestTypes, ExecutorPlaces, Live, Each, Sound
<1>2. Idle(s)
  <2>1. \A b \in Backends : task[b][s].at \notin {"setup", "worker"}
    BY <1>1, ExecutorTasks DEF Paired
  <2> QED BY <1>1, <2>1, TasksUnchanged DEF Idle
<1>3. CASE poisoned
  <2> DEFINE r == Plain(request[s].id, "none", request[s].phase, request[s].token,
                        request[s].terminal, "over")
  <2>1. request' = [request EXCEPT ![s] = r] /\ UNCHANGED operations
    BY <1>3, OverRecord DEF ExecutorRelease
  <2>2. request[s].terminal \in Classes \cup {"none"}
    BY <1>1 DEF Requests
  <2>3. Own(s, r)
    BY <1>1, <1>2, <2>1, <2>2, OverOwn
  <2>4. /\ r.id = request[s].id /\ r.token = request[s].token /\ r.terminal = request[s].terminal
        /\ r.at = "over"
    BY PlainFields
  <2> HIDE DEF r
  <2>5. Ends(s, r)
    BY <1>1, <1>3, <2>1, <2>3, <2>4 DEF Ends
  <2> QED BY <2>3, <2>5 DEF Own, Moves
<1>4. CASE ~poisoned
  <2> DEFINE r == Plain(request[s].id, "none", "released", request[s].token,
                        request[s].terminal, "over")
  <2>1. /\ request' = [request EXCEPT ![s] = r]
        /\ operations' = [operations EXCEPT ![request[s].id] = 0]
    BY <1>4, ReleasedRecord DEF ExecutorRelease
  <2>2. request[s].terminal \in Classes
    BY <1>1, <1>4 DEF Requests, Entries
  <2>3. Own(s, r)
    BY <1>1, <1>2, <2>1, <2>2, OverOwn
  <2>4. /\ r.id = request[s].id /\ r.token = request[s].token /\ r.terminal = request[s].terminal
        /\ r.at = "over"
    BY PlainFields
  <2> HIDE DEF r
  <2>5. Ends(s, r)
    BY <1>1, <1>4, <2>1, <2>2, <2>3, <2>4 DEF Ends
  <2> QED BY <2>3, <2>5 DEF Own, Moves
<1> QED BY <1>3, <1>4

\* A task ends of which the request knows nothing.
LEMMA TaskGoes ==
    ASSUME RequestTypes, TaskTypes, Each, NEW s \in Seqs, NEW b \in Backends,
           LeftEnds(b, s) \/ WorkerEnds(b, s)
    PROVE  Own(s, request[s]) /\ UNCHANGED <<request, operations>>
<1>1. /\ task[b][s].at \in {"left", "sent"} /\ task' = Moved(b, s, "none")
      /\ UNCHANGED <<request, operations, next_sequence, poisoned>>
  BY DEF LeftEnds, WorkerEnds, registryVars
<1>2. /\ task' \in [Backends -> [Seqs -> Tasks]] /\ task'[b][s].at = "none"
      /\ \A c \in Backends, q \in Seqs : c # b \/ q # s => task'[c][q] = task[c][q]
  BY <1>1, MovedTasks
<1>3. TasksStep(s)
  BY <1>2 DEF TasksStep, TaskTypes, Nudged
<1>4. Sound(request[s]) /\ request[s] \in Requests /\ request' = [request EXCEPT ![s] = request[s]]
  BY <1>1 DEF Each, RequestTypes
<1>5. ASSUME NEW c \in Backends PROVE Paired(request[s], c, task'[c][s])
  <2>1. Paired(request[s], c, task[c][s])
    BY DEF Each
  <2>2. CASE c = b
    BY <1>1, <1>2, <2>1, <2>2 DEF Paired
  <2>3. CASE c # b
    BY <1>2, <2>1, <2>3
  <2> QED BY <2>2, <2>3
<1> QED BY <1>1, <1>3, <1>4, <1>5 DEF Own

\* Stop is asked for.
LEMMA StopGoes ==
    ASSUME RequestTypes, TaskTypes, Each, Entries, NEW s \in Seqs, Stop(s)
    PROVE  Moves(s)
<1> DEFINE r == [request[s] EXCEPT !.stop = TRUE]
<1>1. /\ request[s] \in Requests /\ Sound(request[s])
      /\ \A b \in Backends : Paired(request[s], b, task[b][s])
  BY DEF RequestTypes, Each
<1>2. r \in Requests
  BY <1>1 DEF Requests
<1>3. /\ r.id = request[s].id /\ r.token = request[s].token /\ r.terminal = request[s].terminal
      /\ r.gone = request[s].gone /\ r.final = request[s].final /\ r.phase = request[s].phase
      /\ r.at = request[s].at /\ r.backend = request[s].backend /\ r.slot = request[s].slot
      /\ r.kind = request[s].kind
  BY <1>1 DEF Requests
<1>4. /\ request' = [request EXCEPT ![s] = r]
      /\ UNCHANGED <<task, operations, next_sequence, poisoned>>
      /\ request[s].kind # "none"
  BY DEF Stop, registryVars
<1> HIDE DEF r
<1>5. Live(request[s]) /\ request[s].at # "none"
  <2>1. request[s].at \notin {"none", "over"}
    BY <1>1, <1>4 DEF Sound
  <2> QED BY <1>1, <2>1 DEF Live, Requests, Places
<1>6. Sound(r)
  BY <1>1, <1>3, <1>5 DEF Sound
<1>7. \A b \in Backends : Paired(r, b, task'[b][s])
  BY <1>1, <1>3, <1>4 DEF Paired
<1>8. TasksStep(s)
  BY <1>4, TasksUnchanged
<1>9. Own(s, r)
  BY <1>2, <1>4, <1>6, <1>7, <1>8 DEF Own
<1>10. Goes(s, r)
  <2>1. request[s].at \in {"late", "publishing"} => request[s].terminal # "none" \/ poisoned
    BY DEF Entries
  <2> QED BY <1>3, <1>4, <1>5, <1>9, <2>1 DEF Goes, Live
<1> QED BY <1>2, <1>10 DEF Moves

-----------------------------------------------------------------------------
(* Every step is one of the summary.                                       *)

\* A reservation.
LEMMA ReserveAdds ==
    ASSUME RegistryTypes, NEW id \in Ids, NEW kind \in Kinds, Reserve(id, kind)
    PROVE  Adds(id, kind)
<1>1. next_sequence \in Seqs
  BY BoundsAssumption DEF RegistryTypes, Reserve, Seqs
<1>2. request' = [request EXCEPT ![next_sequence] =
                     Plain(id, kind, "queued", FALSE, "none", "setup")]
  BY ReservedRecord DEF Reserve
<1> QED BY <1>1, <1>2 DEF Adds, Reserve, lifecycleVars

\* The token of the request that holds an id.
LEMMA TokenMarks ==
    ASSUME RequestTypes, RegistryTypes, TaskTypes, NEW id \in Ids, CancelToken(id)
    PROVE  Rests \/ \E S \in SUBSET Seqs : Marks(S)
<1>1. UNCHANGED <<next_sequence, operations, task, poisoned>>
  BY DEF CancelToken, registryVars
<1>2. CASE poisoned \/ operations[id] = 0
  BY <1>1, <1>2 DEF CancelToken, Rests, TaskTypes, Nudged, RegistryTypes
<1>3. CASE ~(poisoned \/ operations[id] = 0)
  <2>1. PICK s \in Seqs : s = operations[id]
    BY <1>3 DEF RegistryTypes
  <2>2. {s} \subseteq Active /\ {s} \subseteq Seqs
    BY <1>3, <2>1 DEF Active
  <2>3. request' = [request EXCEPT ![s] = [request[s] EXCEPT !.token = TRUE]]
    BY <1>3, <2>1 DEF CancelToken
  <2>4. PICK x : x = [request[s] EXCEPT !.token = TRUE]
    OBVIOUS
  <2>5. Tokens({s}) = [q \in Seqs |-> IF q = s THEN x ELSE request[q]]
    BY <2>4 DEF Tokens
  <2>6. request' = Tokens({s})
    BY <2>3, <2>4, <2>5 DEF RequestTypes
  <2>7. Marks({s})
    BY <1>1, <2>2, <2>6 DEF Marks
  <2> QED BY <2>2, <2>7
<1> QED BY <1>2, <1>3

\* The first caller of shutdown sets every token.
LEMMA ShutdownMarks ==
    ASSUME RegistryTypes, TaskTypes, NEW z \in Closers, BeginShutdown(z)
    PROVE  Rests \/ \E S \in SUBSET Seqs : Marks(S)
<1>1. UNCHANGED <<next_sequence, operations, task, poisoned>>
  BY DEF BeginShutdown, registryVars
<1>2. CASE phase = "running"
  <2>1. Active \subseteq Seqs
    BY DEF Active, RegistryTypes
  <2>2. Marks(Active)
    BY <1>1, <1>2 DEF BeginShutdown, Marks
  <2> QED BY <2>1, <2>2
<1>3. CASE phase # "running"
  <2>1. UNCHANGED request
    BY <1>3 DEF BeginShutdown
  <2> QED BY <1>1, <2>1 DEF Rests, TaskTypes, Nudged, RegistryTypes
<1> QED BY <1>2, <1>3

\* The steps that only the backends notice, if anybody.
LEMMA OtherRests ==
    ASSUME RegistryTypes, RequestTypes, TaskTypes, Each,
           \/ \E b \in Backends : RegisterBackend(b) \/ SetBackendConcurrency(b)
           \/ \E s \in Seqs : ExecutorStop(s)
           \/ CancelBackends
           \/ \E z \in Closers : Lead(z) \/ ClosedReport(z)
           \/ CoordinatorMoves
           \/ Poison
    PROVE  Rests
<1> DEFINE Quiet == UNCHANGED <<next_sequence, operations, request>> /\ poisoned' \in {poisoned, TRUE}
<1>1. ASSUME Quiet, UNCHANGED task PROVE Rests
  BY <1>1 DEF Rests, TaskTypes, Nudged
<1>2. CASE \E b \in Backends : RegisterBackend(b) \/ SetBackendConcurrency(b)
  BY <1>1, <1>2 DEF RegisterBackend, SetBackendConcurrency, registryVars
<1>3. ASSUME NEW s \in Seqs, ExecutorStop(s) PROVE Rests
  <2>1. request[s].at \in ExecutorPlaces /\ task' = HandleCancel(s)
    BY <1>3 DEF ExecutorStop, ExecutorPlaces
  <2>2. TaskTypes' /\ \A b \in Backends, q \in Seqs : Nudged(task[b][q], task'[b][q])
    BY <2>1, Handle
  <2> QED BY <1>3, <2>2 DEF Rests, ExecutorStop, executorUnchanged, registryVars
<1>4. ASSUME NEW B, NEW ids, Quiet, task' = SweptBackends(B, ids) PROVE Rests
  BY <1>4, SweptTasks DEF Rests, TaskTypes
<1>5. CASE CancelBackends
  BY <1>4, <1>5 DEF CancelBackends, registryVars
<1>6. ASSUME NEW z \in Closers, Lead(z) PROVE Rests
  BY <1>4, <1>6 DEF Lead, registryVars
<1>7. ASSUME NEW z \in Closers, ClosedReport(z) PROVE Rests
  BY <1>1, <1>7 DEF ClosedReport, registryVars
<1>8. CASE Coordinated
  BY <1>1, <1>8 DEF Coordinated, registryVars
<1>9. ASSUME NEW b \in Backends, BackendJoined(b) PROVE Rests
  BY <1>1, <1>9 DEF BackendJoined, registryVars
<1>10. ASSUME NEW b \in Backends, BackendShutdown(b) PROVE Rests
  <2>1. task \in [Backends -> [Seqs -> Tasks]] /\ task' = CancelIn(task, b, Seqs)
    BY <1>10 DEF BackendShutdown, TaskTypes
  <2>2. TaskTypes' /\ \A c \in Backends, q \in Seqs : Nudged(task[c][q], task'[c][q])
    BY <2>1, CancelInTasks DEF TaskTypes
  <2> QED BY <1>10, <2>2 DEF Rests, BackendShutdown, registryVars
<1>11. CASE Poison
  BY <1>1, <1>11 DEF Poison
<1> QED BY <1>2, <1>3, <1>5, <1>6, <1>7, <1>8, <1>9, <1>10, <1>11 DEF CoordinatorMoves

\* Every step of the gateway is one of the summary.
LEMMA StepSummary ==
    ASSUME TypeOK, Each, Entries, [Next]_vars
    PROVE  Summary
<1>0. RegistryTypes /\ RequestTypes /\ TaskTypes /\ GatewayTypes
  BY TypeParts
<1>1. ASSUME NEW s \in Seqs, Moves(s) PROVE Summary
  BY <1>1 DEF Moves, Summary
<1>2. CASE \/ \E b \in Backends : RegisterBackend(b) \/ SetBackendConcurrency(b)
           \/ \E s \in Seqs : ExecutorStop(s)
           \/ CancelBackends
           \/ \E z \in Closers : Lead(z) \/ ClosedReport(z)
           \/ CoordinatorMoves
           \/ Poison
  BY <1>0, <1>2, OtherRests DEF Summary
<1>3. ASSUME NEW id \in Ids, NEW kind \in Kinds, Reserve(id, kind) PROVE Summary
  BY <1>0, <1>3, ReserveAdds DEF Summary
<1>4. ASSUME NEW s \in Seqs, CallMoves(s) \/ CallMoved(s) PROVE Summary
  <2>1. CASE Preflight(s)
    BY <1>0, <1>1, <2>1, SetupEnds, SetupGoes DEF Preflight, Ready
  <2>2. CASE ~Preflight(s)
    BY <1>0, <1>1, <1>4, <2>2, SetupEnds, SetupGoes, AdmissionGoes DEF CallMoves, CallMoved
  <2> QED BY <2>1, <2>2
<1>5. ASSUME NEW s \in Seqs,
             ExecutorMoves(s) \/ ExecutorAlone(s) \/ ExecutorDeadline(s) \/ DropTicket(s) \/ Stop(s)
      PROVE  Summary
  BY <1>0, <1>1, <1>5, ExecutorSteps, ReleaseEnds, StopGoes DEF ExecutorMoves
<1>6. ASSUME NEW b \in Backends, NEW s \in Seqs, TaskEnds(b, s) PROVE Summary
  <2>1. CASE WorkerSends(b, s)
    BY <1>0, <1>1, <2>1, ExecutorSteps
  <2>2. CASE LeftEnds(b, s) \/ WorkerEnds(b, s)
    BY <1>0, <2>2, TaskGoes DEF Summary
  <2> QED BY <1>6, <2>1, <2>2 DEF TaskEnds
<1>7. ASSUME NEW id \in Ids, CancelToken(id) PROVE Summary
  BY <1>0, <1>7, TokenMarks DEF Summary
<1>8. ASSUME NEW z \in Closers, BeginShutdown(z) PROVE Summary
  BY <1>0, <1>8, ShutdownMarks DEF Summary
<1>9. CASE UNCHANGED vars
  BY <1>0, <1>9 DEF Summary, Rests, TaskTypes, Nudged, vars, registryVars
<1>10. CASE Next
  BY <1>2, <1>3, <1>4, <1>5, <1>6, <1>7, <1>8, <1>10 DEF Next
<1> QED BY <1>9, <1>10

-----------------------------------------------------------------------------
(* The invariant follows from the summary.                                 *)

\* The tokens are all that Tokens changes.
LEMMA TokenRecord ==
    ASSUME RequestTypes, NEW S, NEW q \in Seqs
    PROVE  LET r == Tokens(S)[q] IN
           /\ r \in Requests
           /\ r.id = request[q].id /\ r.terminal = request[q].terminal
           /\ r.gone = request[q].gone /\ r.final = request[q].final /\ r.phase = request[q].phase
           /\ r.at = request[q].at /\ r.backend = request[q].backend /\ r.slot = request[q].slot
           /\ r.kind = request[q].kind
           /\ q \notin S => r = request[q]
           /\ q \in S => r.token = TRUE
<1>1. request[q] \in Requests
  BY DEF RequestTypes
<1>2. CASE q \in S
  <2>1. PICK x : x = [request[q] EXCEPT !.token = TRUE]
    OBVIOUS
  <2>2. /\ x \in Requests
        /\ x.id = request[q].id /\ x.terminal = request[q].terminal
        /\ x.gone = request[q].gone /\ x.final = request[q].final /\ x.phase = request[q].phase
        /\ x.at = request[q].at /\ x.backend = request[q].backend /\ x.slot = request[q].slot
        /\ x.kind = request[q].kind /\ x.token = TRUE
    BY <1>1, <2>1 DEF Requests
  <2>3. Tokens(S)[q] = x
    BY <1>2, <2>1 DEF Tokens
  <2> QED BY <1>2, <2>2, <2>3
<1>3. CASE q \notin S
  <2>1. Tokens(S)[q] = request[q]
    BY <1>3 DEF Tokens
  <2> QED BY <1>1, <1>3, <2>1
<1> QED BY <1>2, <1>3

\* A cancellation of the operation changes nothing between it and its request.
LEMMA NudgedPaired ==
    ASSUME NEW r, NEW b, NEW t, NEW u, Paired(r, b, t), Nudged(t, u)
    PROVE  Paired(r, b, u)
BY DEF Paired, Nudged

\* Nor does a step that leaves alone what the two know of each other.
LEMMA LikePaired ==
    ASSUME NEW r, NEW q, NEW b, NEW t, Paired(r, b, t), q.at = r.at, q.backend = r.backend,
           q.final = r.final, q.gone = r.gone
    PROVE  Paired(q, b, t)
BY DEF Paired

\* A sequence that was not given out has no operation.
LEMMA UnbornTasks ==
    ASSUME Each, Entries, next_sequence \in Seqs, RegistryTypes
    PROVE  /\ request[next_sequence].at = "none"
           /\ \A b \in Backends : task[b][next_sequence].at \notin {"setup", "worker"}
<1>1. request[next_sequence].at = "none"
  <2>1. next_sequence >= next_sequence
    BY DEF RegistryTypes
  <2> QED BY <2>1 DEF Entries
<1> QED BY <1>1 DEF Each, Paired, ExecutorPlaces

\* The types of the registry, its requests and the operations.
LEMMA TypesStep ==
    ASSUME RegistryTypes, RequestTypes, TaskTypes, Summary
    PROVE  RegistryTypes' /\ RequestTypes' /\ TaskTypes'
<1>1. CASE Rests
  BY <1>1 DEF Rests, RegistryTypes, RequestTypes
<1>2. ASSUME NEW id \in Ids, NEW kind \in Kinds, Adds(id, kind)
      PROVE  RegistryTypes' /\ RequestTypes' /\ TaskTypes'
  <2>1. RegistryTypes'
    BY <1>2, BoundsAssumption DEF Adds, RegistryTypes, Seqs
  <2>2. PICK no \in BOOLEAN : no = FALSE
    OBVIOUS
  <2>3. Plain(id, kind, "queued", no, "none", "setup") \in Requests
    BY PlainTypes DEF Places, CallPlaces
  <2>4. PICK r \in Requests : r = Plain(id, kind, "queued", FALSE, "none", "setup")
    BY <2>2, <2>3
  <2>5. RequestTypes'
    BY <1>2, <2>4 DEF Adds, RequestTypes
  <2> QED BY <1>2, <2>1, <2>5 DEF Adds, TaskTypes
<1>3. ASSUME NEW S \in SUBSET Seqs, Marks(S)
      PROVE  RegistryTypes' /\ RequestTypes' /\ TaskTypes'
  <2>1. \A q \in Seqs : Tokens(S)[q] \in Requests
    BY TokenRecord
  <2>2. Tokens(S) = [q \in Seqs |-> Tokens(S)[q]]
    BY DEF Tokens
  <2>3. RequestTypes'
    BY <1>3, <2>1, <2>2 DEF Marks, RequestTypes
  <2> QED BY <1>3, <2>3 DEF Marks, RegistryTypes, TaskTypes
<1>4. ASSUME NEW s \in Seqs, Own(s, request[s]), UNCHANGED <<request, operations>>
      PROVE  RegistryTypes' /\ RequestTypes' /\ TaskTypes'
  BY <1>4 DEF Own, TasksStep, RegistryTypes, RequestTypes
<1>5. ASSUME NEW s \in Seqs, NEW r \in Requests, Goes(s, r) \/ Ends(s, r)
      PROVE  RegistryTypes' /\ RequestTypes' /\ TaskTypes'
  <2>1. Own(s, r)
    BY <1>5 DEF Goes, Ends
  <2>2. RequestTypes' /\ TaskTypes'
    BY <2>1 DEF Own, TasksStep, RequestTypes
  <2>3. operations' \in [Ids -> Seqs \cup {0}]
    BY <1>5 DEF Goes, Ends, RegistryTypes
  <2> QED BY <2>1, <2>2, <2>3 DEF Own, RegistryTypes
<1> QED BY <1>1, <1>2, <1>3, <1>4, <1>5 DEF Summary

\* What is so of each request stays so.
LEMMA EachStep ==
    ASSUME RegistryTypes, RequestTypes, TaskTypes, Each, Entries, Summary
    PROVE  Each'
<1> SUFFICES ASSUME NEW q \in Seqs
             PROVE  /\ Sound(request'[q])
                    /\ \A b \in Backends : Paired(request'[q], b, task'[b][q])
  BY DEF Each
<1>0. Sound(request[q]) /\ \A b \in Backends : Paired(request[q], b, task[b][q])
  BY DEF Each
<1>1. CASE Rests
  BY <1>0, <1>1, NudgedPaired DEF Rests
<1>2. ASSUME NEW id \in Ids, NEW kind \in Kinds, Adds(id, kind)
      PROVE  /\ Sound(request'[q])
             /\ \A b \in Backends : Paired(request'[q], b, task'[b][q])
  <2>1. CASE q = next_sequence
    <3>0. PICK no : no = FALSE
      OBVIOUS
    <3>1. PICK r : r = Plain(id, kind, "queued", no, "none", "setup")
      OBVIOUS
    <3>2. /\ r.id = id /\ r.phase = "queued" /\ r.terminal = "none"
          /\ r.at = "setup" /\ r.final = "none" /\ ~r.gone
      BY <3>1, PlainFields
    <3>3. request'[q] = r
      BY <1>2, <2>1, <3>0, <3>1 DEF Adds, RequestTypes
    <3>4. Sound(r)
      BY <3>2 DEF Sound, CallPlaces, ExecutorPlaces, HolderPlaces
    <3>5. \A b \in Backends : Paired(r, b, task'[b][q])
      BY <1>2, <2>1, <3>2, UnbornTasks DEF Adds, Paired
    <3> QED BY <3>3, <3>4, <3>5
  <2>2. CASE q # next_sequence
    <3>1. request'[q] = request[q]
      BY <1>2, <2>2 DEF Adds, RequestTypes
    <3> QED BY <1>0, <1>2, <3>1 DEF Adds
  <2> QED BY <2>1, <2>2
<1>3. ASSUME NEW S \in SUBSET Seqs, Marks(S)
      PROVE  /\ Sound(request'[q])
             /\ \A b \in Backends : Paired(request'[q], b, task'[b][q])
  <2>1. CASE q \notin S
    <3>1. request'[q] = request[q]
      BY <1>3, <2>1, TokenRecord DEF Marks
    <3> QED BY <1>0, <1>3, <3>1 DEF Marks
  <2>2. CASE q \in S
    <3>1. request[q].at # "none"
      BY <1>3, <2>2 DEF Marks, Active, Entries
    <3>2. PICK r : r = Tokens(S)[q]
      OBVIOUS
    <3>3. /\ r.id = request[q].id /\ r.terminal = request[q].terminal
          /\ r.gone = request[q].gone /\ r.final = request[q].final /\ r.phase = request[q].phase
          /\ r.at = request[q].at /\ r.backend = request[q].backend /\ r.kind = request[q].kind
      BY <3>2, TokenRecord
    <3>4. Sound(r)
      BY <1>0, <3>1, <3>3 DEF Sound
    <3>5. \A b \in Backends : Paired(r, b, task[b][q])
      BY <1>0, <3>3, LikePaired
    <3> QED BY <1>3, <3>2, <3>4, <3>5 DEF Marks
  <2> QED BY <2>1, <2>2
<1>4. ASSUME NEW s \in Seqs, NEW r, Own(s, r)
      PROVE  /\ Sound(request'[q])
             /\ \A b \in Backends : Paired(request'[q], b, task'[b][q])
  <2>1. CASE q = s
    <3>1. request'[q] = r
      BY <1>4, <2>1 DEF Own, RequestTypes
    <3> QED BY <1>4, <2>1, <3>1 DEF Own
  <2>2. CASE q # s
    <3>1. request'[q] = request[q]
      BY <1>4, <2>2 DEF Own, RequestTypes
    <3>2. \A b \in Backends : Nudged(task[b][q], task'[b][q])
      BY <1>4, <2>2 DEF Own, TasksStep
    <3> QED BY <1>0, <3>1, <3>2, NudgedPaired
  <2> QED BY <2>1, <2>2
<1> QED BY <1>1, <1>2, <1>3, <1>4 DEF Summary, Goes, Ends

\* Whoever lives keeps its id.
LEMMA EntriesStep ==
    ASSUME RegistryTypes, RequestTypes, Each, Entries, Summary
    PROVE  Entries'
<1>0. /\ 0 \notin Seqs /\ \A s \in Seqs : s \in Nat
      /\ \A s \in Seqs : request[s].at # "none" => request[s].id \in Ids
      /\ \A s \in Seqs : Live(request[s]) => request[s].at # "none"
  <2>1. \A s \in Seqs : Sound(request[s])
    BY DEF Each
  <2> QED BY <2>1 DEF Seqs, Sound, Live, CallPlaces, ExecutorPlaces
<1>1. CASE Rests
  <2>1. UNCHANGED <<next_sequence, operations, request>>
    BY <1>1 DEF Rests
  <2>2. poisoned => poisoned'
    BY <1>1 DEF Rests
  <2> QED BY <2>1, <2>2 DEF Entries
<1>2. ASSUME NEW id \in Ids, NEW kind \in Kinds, Adds(id, kind) PROVE Entries'
  <2>0. PICK no : no = FALSE
    OBVIOUS
  <2>1. PICK r : r = Plain(id, kind, "queued", no, "none", "setup")
    OBVIOUS
  <2>2. r.id = id /\ r.at = "setup"
    BY <2>1, PlainFields
  <2>3. /\ request' = [request EXCEPT ![next_sequence] = r] /\ next_sequence \in Seqs
        /\ operations' = [operations EXCEPT ![id] = next_sequence] /\ operations[id] = 0
        /\ next_sequence' = next_sequence + 1 /\ poisoned' = poisoned
    BY <1>2, <2>0, <2>1 DEF Adds
  <2>4. /\ request'[next_sequence] = r /\ operations'[id] = next_sequence
        /\ \A q \in Seqs \ {next_sequence} : request'[q] = request[q]
        /\ \A i \in Ids \ {id} : operations'[i] = operations[i]
    BY <2>3 DEF RequestTypes, RegistryTypes
  <2>5. ASSUME NEW s \in Seqs
        PROVE /\ s >= next_sequence' => request'[s].at = "none"
              /\ Live(request'[s]) => operations'[request'[s].id] = s
              /\ request'[s].at \in {"late", "publishing"} => request'[s].terminal # "none" \/ poisoned'
    <3>1. CASE s = next_sequence
      BY <1>0, <2>2, <2>3, <2>4, <3>1 DEF RegistryTypes
    <3>2. CASE s # next_sequence
      <4>1. request'[s] = request[s]
        BY <2>4, <3>2
      <4>2. s >= next_sequence' => request'[s].at = "none"
        BY <1>0, <2>3, <4>1 DEF Entries
      <4>3. Live(request[s]) => operations[request[s].id] = s /\ request[s].id \in Ids
        BY <1>0 DEF Entries
      <4>4. Live(request[s]) => operations'[request[s].id] = s
        BY <1>0, <2>3, <2>4, <4>3
      <4> QED BY <2>3, <4>1, <4>2, <4>4 DEF Entries
    <3> QED BY <3>1, <3>2
  <2>6. ASSUME NEW i \in Ids, operations'[i] # 0 PROVE request'[operations'[i]].at # "none"
    <3>1. CASE i = id
      BY <2>2, <2>4, <3>1
    <3>2. CASE i # id
      <4>1. operations[i] \in Seqs /\ request[operations[i]].at # "none" /\ operations'[i] = operations[i]
        BY <2>4, <2>6, <3>2 DEF Entries, RegistryTypes
      <4>2. CASE operations[i] = next_sequence
        BY <2>2, <2>4, <4>1, <4>2
      <4>3. CASE operations[i] # next_sequence
        BY <2>4, <4>1, <4>3
      <4> QED BY <4>2, <4>3
    <3> QED BY <3>1, <3>2
  <2> QED BY <2>5, <2>6 DEF Entries
<1>3. ASSUME NEW S \in SUBSET Seqs, Marks(S) PROVE Entries'
  <2>1. \A q \in Seqs : /\ request'[q].id = request[q].id /\ request'[q].at = request[q].at
                        /\ request'[q].terminal = request[q].terminal
    BY <1>3, TokenRecord DEF Marks
  <2>2. \A q \in Seqs : Live(request'[q]) = Live(request[q])
    BY <2>1 DEF Live
  <2>3. UNCHANGED <<next_sequence, operations, poisoned>>
    BY <1>3 DEF Marks
  <2> QED BY <2>1, <2>2, <2>3 DEF Entries, RegistryTypes
<1>4. ASSUME NEW s \in Seqs, Own(s, request[s]), UNCHANGED <<request, operations>>
      PROVE  Entries'
  BY <1>4 DEF Own, Entries
<1>5. ASSUME NEW s \in Seqs, NEW r \in Requests, Goes(s, r) PROVE Entries'
  <2>1. /\ request'[s] = r /\ \A q \in Seqs \ {s} : request'[q] = request[q]
        /\ UNCHANGED <<next_sequence, operations, poisoned>>
    BY <1>5 DEF Goes, Own, RequestTypes
  <2>2. Live(request[s]) /\ r.id = request[s].id /\ r.at # "none"
    BY <1>5 DEF Goes, Live, CallPlaces, ExecutorPlaces
  <2>3. r.at \in {"late", "publishing"} => r.terminal # "none" \/ poisoned
    BY <1>5 DEF Goes
  <2>4. ~(s >= next_sequence)
    BY <1>0, <2>2 DEF Entries
  <2> QED BY <2>1, <2>2, <2>3, <2>4 DEF Entries, RegistryTypes
<1>6. ASSUME NEW s \in Seqs, NEW r \in Requests, Ends(s, r) PROVE Entries'
  <2>1. /\ request'[s] = r /\ \A q \in Seqs \ {s} : request'[q] = request[q]
        /\ UNCHANGED <<next_sequence, poisoned>>
    BY <1>6 DEF Ends, Own, RequestTypes
  <2>2. /\ Live(request[s]) /\ r.at = "over" /\ ~Live(r)
        /\ operations[request[s].id] = s /\ request[s].id \in Ids
    BY <1>0, <1>6 DEF Ends, Live, CallPlaces, ExecutorPlaces, Entries
  <2>3. ~(s >= next_sequence)
    BY <1>0, <2>2 DEF Entries
  <2>4. operations' = operations \/ operations' = [operations EXCEPT ![request[s].id] = 0]
    BY <1>6 DEF Ends
  <2>5. \A i \in Ids : operations'[i] = operations[i] \/ (i = request[s].id /\ operations'[i] = 0)
    BY <2>4 DEF RegistryTypes
  <2>6. ASSUME NEW q \in Seqs
        PROVE /\ q >= next_sequence' => request'[q].at = "none"
              /\ Live(request'[q]) => operations'[request'[q].id] = q
              /\ request'[q].at \in {"late", "publishing"} => request'[q].terminal # "none" \/ poisoned'
    <3>1. CASE q = s
      BY <2>1, <2>2, <2>3, <3>1
    <3>2. CASE q # s
      <4>1. Live(request[q]) => operations[request[q].id] = q /\ request[q].id \in Ids
        BY <1>0 DEF Entries
      <4>2. Live(request[q]) => operations'[request[q].id] = q
        BY <2>2, <2>5, <3>2, <4>1
      <4> QED BY <2>1, <3>2, <4>2 DEF Entries
    <3> QED BY <3>1, <3>2
  <2>7. ASSUME NEW i \in Ids, operations'[i] # 0 PROVE request'[operations'[i]].at # "none"
    <3>1. operations'[i] = operations[i] /\ operations[i] \in Seqs /\ request[operations[i]].at # "none"
      BY <2>5, <2>7 DEF Entries, RegistryTypes
    <3> QED BY <2>1, <2>2, <3>1
  <2> QED BY <2>6, <2>7 DEF Entries
<1> QED BY <1>1, <1>2, <1>3, <1>4, <1>5, <1>6 DEF Summary

\* A semaphore has finitely many holders.
LEMMA HoldersFinite ==
    ASSUME NEW b, NEW n
    PROVE  IsFiniteSet(Holders(b, n)) /\ IsFiniteSet(Holders(b, n)')
<1>1. IsFiniteSet(Seqs)
  BY FS_Interval, BoundsAssumption DEF Seqs
<1>2. Holders(b, n) \subseteq Seqs /\ Holders(b, n)' \subseteq Seqs
  BY DEF Holders
<1> QED BY <1>1, <1>2, FS_Subset

\* With no more holders than before the permits suffice.
LEMMA FewerHolders ==
    ASSUME Permits, NEW b \in Backends, NEW n \in 0 .. MaxAdmissions,
           Holders(b, n)' \subseteq Holders(b, n)
    PROVE  Cardinality(Holders(b, n)') <= Slots
<1>1. PICK H : H = Holders(b, n)
  OBVIOUS
<1>2. PICK G : G = Holders(b, n)'
  OBVIOUS
<1>3. IsFiniteSet(H) /\ IsFiniteSet(G) /\ G \subseteq H /\ Cardinality(H) <= Slots
  BY <1>1, <1>2, HoldersFinite DEF Permits
<1>4. Cardinality(G) <= Cardinality(H) /\ Cardinality(G) \in Nat /\ Cardinality(H) \in Nat
  BY <1>3, FS_Subset, FS_CardinalityType
<1> QED BY <1>2, <1>3, <1>4, BoundsAssumption

\* So they do with one more, if a permit was free.
LEMMA OneMoreHolder ==
    ASSUME NEW b \in Backends, NEW n \in 0 .. MaxAdmissions, NEW s \in Seqs,
           Holders(b, n)' \subseteq Holders(b, n) \cup {s}, Cardinality(Holders(b, n)) < Slots
    PROVE  Cardinality(Holders(b, n)') <= Slots
<1>1. PICK H : H = Holders(b, n)
  OBVIOUS
<1>2. PICK G : G = Holders(b, n)'
  OBVIOUS
<1>3. IsFiniteSet(H) /\ IsFiniteSet(G) /\ G \subseteq H \cup {s} /\ Cardinality(H) < Slots
  BY <1>1, <1>2, HoldersFinite
<1>4. /\ IsFiniteSet(H \cup {s})
      /\ Cardinality(H \cup {s}) = Cardinality(H) \/ Cardinality(H \cup {s}) = Cardinality(H) + 1
  BY <1>3, FS_AddElement
<1>5. Cardinality(G) <= Cardinality(H \cup {s})
  BY <1>3, <1>4, FS_Subset
<1>6. Cardinality(G) \in Nat /\ Cardinality(H) \in Nat
  BY <1>3, FS_CardinalityType
<1> QED BY <1>2, <1>3, <1>4, <1>5, <1>6, BoundsAssumption

\* Nobody has a permit that was not free.
LEMMA PermitsStep ==
    ASSUME RegistryTypes, RequestTypes, Each, Entries, Permits, Summary
    PROVE  Permits'
<1> SUFFICES ASSUME NEW b \in Backends, NEW n \in 0 .. MaxAdmissions
             PROVE  Cardinality(Holders(b, n)') <= Slots
  BY DEF Permits
<1> DEFINE At(r) == r.backend = b /\ r.slot = n /\ r.at \in HolderPlaces
<1>0. /\ \A q : q \in Holders(b, n) <=> q \in Seqs /\ At(request[q])
      /\ \A q : q \in Holders(b, n)' <=> q \in Seqs /\ At(request'[q])
  BY DEF Holders, HolderPlaces
<1> HIDE DEF At
<1>1. CASE Rests
  <2>1. UNCHANGED request
    BY <1>1 DEF Rests
  <2> QED BY <1>0, <2>1, FewerHolders
<1>2. ASSUME NEW id \in Ids, NEW kind \in Kinds, Adds(id, kind)
      PROVE  Cardinality(Holders(b, n)') <= Slots
  <2>0. PICK no : no = FALSE
    OBVIOUS
  <2>1. PICK r : r = Plain(id, kind, "queued", no, "none", "setup")
    OBVIOUS
  <2>2. r.at = "setup"
    BY <2>1, PlainFields
  <2>3. ~At(r)
    BY <2>2 DEF At, HolderPlaces, ExecutorPlaces
  <2>4. /\ request'[next_sequence] = r
        /\ \A q \in Seqs \ {next_sequence} : request'[q] = request[q]
    BY <1>2, <2>0, <2>1 DEF Adds, RequestTypes
  <2> QED BY <1>0, <2>3, <2>4, FewerHolders
<1>3. ASSUME NEW S \in SUBSET Seqs, Marks(S) PROVE Cardinality(Holders(b, n)') <= Slots
  <2>1. \A q \in Seqs : /\ request'[q].at = request[q].at /\ request'[q].slot = request[q].slot
                        /\ request'[q].backend = request[q].backend
    BY <1>3, TokenRecord DEF Marks
  <2>2. \A q \in Seqs : At(request'[q]) => At(request[q])
    BY <2>1 DEF At
  <2> QED BY <1>0, <2>2, FewerHolders
<1>4. ASSUME NEW s \in Seqs, UNCHANGED request PROVE Cardinality(Holders(b, n)') <= Slots
  BY <1>0, <1>4, FewerHolders
<1>5. ASSUME NEW s \in Seqs, NEW r \in Requests, Goes(s, r)
      PROVE  Cardinality(Holders(b, n)') <= Slots
  <2>1. request'[s] = r /\ \A q \in Seqs \ {s} : request'[q] = request[q]
    BY <1>5 DEF Goes, Own, RequestTypes
  <2>2. CASE ~At(r)
    BY <1>0, <2>1, <2>2, FewerHolders
  <2>3. CASE At(r) /\ request[s].at \in HolderPlaces
    <3>1. At(request[s])
      BY <1>5, <2>3 DEF Goes, At
    <3> QED BY <1>0, <2>1, <3>1, FewerHolders
  <2>4. CASE At(r) /\ request[s].at \notin HolderPlaces
    <3>1. Cardinality(Holders(b, n)) < Slots
      BY <1>5, <2>4 DEF Goes, At
    <3>2. Holders(b, n)' \subseteq Holders(b, n) \cup {s}
      BY <1>0, <2>1
    <3> QED BY <3>1, <3>2, OneMoreHolder
  <2> QED BY <2>2, <2>3, <2>4
<1>6. ASSUME NEW s \in Seqs, NEW r \in Requests, Ends(s, r)
      PROVE  Cardinality(Holders(b, n)') <= Slots
  <2>1. request'[s] = r /\ \A q \in Seqs \ {s} : request'[q] = request[q]
    BY <1>6 DEF Ends, Own, RequestTypes
  <2>2. ~At(r)
    BY <1>6 DEF Ends, At, HolderPlaces, ExecutorPlaces
  <2> QED BY <1>0, <2>1, <2>2, FewerHolders
<1> QED BY <1>1, <1>2, <1>3, <1>4, <1>5, <1>6 DEF Summary

-----------------------------------------------------------------------------
(* The close.                                                              *)

\* A backend that takes no work and has none gets none, and after the gateway
\* stopped to admit no id is taken again.
LEMMA StaysDrained ==
    ASSUME RegistryTypes, Summary
    PROVE  /\ \A b \in Backends \ accepting, s \in Seqs :
                task[b][s].at = "none" => task'[b][s].at = "none"
           /\ phase # "running" => \A id \in Ids : operations[id] = 0 => operations'[id] = 0
<1>1. CASE Rests
  BY <1>1 DEF Rests, Nudged
<1>2. CASE \E id \in Ids, kind \in Kinds : Adds(id, kind)
  BY <1>2 DEF Adds
<1>3. CASE \E S \in SUBSET Seqs : Marks(S)
  BY <1>3 DEF Marks
<1>4. ASSUME NEW s \in Seqs, NEW r, Own(s, r)
      PROVE  \A b \in Backends \ accepting, q \in Seqs :
                task[b][q].at = "none" => task'[b][q].at = "none"
  BY <1>4 DEF Own, TasksStep, Nudged
<1>5. CASE \E s \in Seqs : Own(s, request[s]) /\ UNCHANGED <<request, operations>>
  BY <1>4, <1>5
<1>6. ASSUME NEW s \in Seqs, NEW r \in Requests, Goes(s, r) \/ Ends(s, r)
      PROVE  \A id \in Ids : operations[id] = 0 => operations'[id] = 0
  BY <1>6 DEF Goes, Ends, RegistryTypes
<1>7. CASE \E s \in Seqs, r \in Requests : Goes(s, r) \/ Ends(s, r)
  BY <1>4, <1>6, <1>7 DEF Goes, Ends
<1> QED BY <1>1, <1>2, <1>3, <1>5, <1>7 DEF Summary

\* The close goes on as it was.
CloseKept ==
    /\ UNCHANGED <<phase, report, backends, accepting, closer, sweep, coordinator, admission, closed>>
    /\ shutdown_error' = TRUE \/ UNCHANGED shutdown_error
    /\ client' \in Ids \cup {client, "none"}

\* The steps of the gateway and of its close itself.
CloseSteps ==
    \/ \E b \in Backends : RegisterBackend(b) \/ SetBackendConcurrency(b)
    \/ \E z \in Closers : BeginShutdown(z) \/ Lead(z) \/ ClosedReport(z)
    \/ CoordinatorMoves

\* All other steps leave the close as it was.
LEMMA OtherSteps ==
    ASSUME [Next]_vars
    PROVE  CloseSteps \/ CloseKept
<1>1. ASSUME NEW s \in Seqs, CallMoves(s) PROVE CloseKept
  <2>1. shutdown_error' = TRUE \/ UNCHANGED shutdown_error
    BY <1>1 DEF CallMoves, Resolve, SetupRefused, AdmitBegin, WaitCancelled, Dispatch,
       HoldingCancelled, Register, DispatchFails, Suspend, StopInSetup, TokenInSetup, Finished, SetupError, Retry
  <2>2. UNCHANGED callUnchanged
    BY <1>1 DEF CallMoves, Resolve, SetupRefused, AdmitBegin, WaitCancelled, Dispatch,
       HoldingCancelled, Register, DispatchFails, Suspend, StopInSetup, TokenInSetup
  <2> QED BY <2>1, <2>2 DEF CloseKept, callUnchanged, gatewayVars, closeVars
<1>2. ASSUME NEW s \in Seqs, CallMoved(s) PROVE CloseKept
  <2>1. shutdown_error' = TRUE \/ UNCHANGED shutdown_error
    BY <1>2 DEF CallMoved, Acquire, WaitFails, StartupTimeout, CallerGone, TaskFails, Preflight,
       Counted, Ticket, Finished, SetupError, Retry
  <2>2. UNCHANGED callUnchanged
    BY <1>2 DEF CallMoved, Acquire, WaitFails, StartupTimeout, CallerGone, TaskFails, Preflight,
       Counted, Ticket
  <2> QED BY <2>1, <2>2 DEF CloseKept, callUnchanged, gatewayVars, closeVars
<1>3. ASSUME NEW s \in Seqs,
             \/ ExecutorFinal(s) \/ ExecutorStop(s) \/ ExecutorAlone(s) \/ ExecutorDeadline(s)
             \/ DropTicket(s)
      PROVE  CloseKept
  <2>1. shutdown_error' = TRUE \/ UNCHANGED shutdown_error
    BY <1>3 DEF ExecutorFinal, ExecutorStop, ExecutorAlone, ExecutorDeadline, DropTicket, Terminal
  <2>2. UNCHANGED executorUnchanged
    BY <1>3 DEF ExecutorFinal, ExecutorStop, ExecutorAlone, ExecutorDeadline, DropTicket
  <2> QED BY <2>1, <2>2 DEF CloseKept, executorUnchanged, gatewayVars, closeVars
<1>4. ASSUME NEW s \in Seqs, ExecutorRelease(s) \/ Stop(s) PROVE CloseKept
  BY <1>4 DEF ExecutorRelease, Stop, CloseKept, lifecycleVars, gatewayVars, closeVars
<1>5. ASSUME NEW id \in Ids, NEW kind \in Kinds, Reserve(id, kind) PROVE CloseKept
  BY <1>5 DEF Reserve, CloseKept, lifecycleVars, gatewayVars, closeVars
<1>6. ASSUME NEW b \in Backends, NEW s \in Seqs, TaskEnds(b, s) PROVE CloseKept
  BY <1>6 DEF TaskEnds, LeftEnds, WorkerSends, WorkerEnds, CloseKept, lifecycleVars, gatewayVars,
     closeVars
<1>7. ASSUME NEW id \in Ids, CancelToken(id) PROVE CloseKept
  BY <1>7 DEF CancelToken, CloseKept, lifecycleVars, gatewayVars, closeVars
<1>8. CASE CancelBackends \/ Poison
  BY <1>8 DEF CancelBackends, Poison, CloseKept, lifecycleVars, gatewayVars, closeVars
<1>9. CASE UNCHANGED vars
  BY <1>9 DEF vars, CloseKept, lifecycleVars, gatewayVars, closeVars
<1>10. CASE Next
  BY <1>1, <1>2, <1>3, <1>4, <1>5, <1>6, <1>7, <1>8, <1>10 DEF Next, ExecutorMoves, CloseSteps
<1> QED BY <1>9, <1>10

\* The types of the gateway's own state and of its close.
LEMMA CloseTypesStep ==
    ASSUME GatewayTypes, CloseTypes, RegistryTypes, RequestTypes, Each, Entries, [Next]_vars
    PROVE  GatewayTypes' /\ CloseTypes'
<1>1. CASE CloseKept
  BY <1>1 DEF CloseKept, GatewayTypes, CloseTypes
<1>2. ASSUME NEW b \in Backends, RegisterBackend(b) \/ SetBackendConcurrency(b)
      PROVE  GatewayTypes' /\ CloseTypes'
  BY <1>2, BoundsAssumption
  DEF RegisterBackend, SetBackendConcurrency, lifecycleVars, closeVars, GatewayTypes, CloseTypes
<1>3. ASSUME NEW z \in Closers, BeginShutdown(z) PROVE GatewayTypes' /\ CloseTypes'
  <2>1. GatewayTypes'
    BY <1>3 DEF BeginShutdown, gatewayVars, GatewayTypes
  <2>2. \A s \in Active : request[s].id \in Ids
    <3>1. \A s \in Active : s \in Seqs /\ request[s].at # "none"
      BY DEF Active, RegistryTypes, Entries
    <3> QED BY <3>1 DEF Each, Sound
  <2>3. sweep' \subseteq Ids
    BY <1>3, <2>2 DEF BeginShutdown, CloseTypes
  <2>4. shutdown_error' \in BOOLEAN
    BY <1>3 DEF BeginShutdown, CloseTypes
  <2>5. phase' \in {"running", "quiescing", "closed"}
    BY <1>3 DEF BeginShutdown, CloseTypes
  <2>6. closer' \in [Closers -> {"idle", "lead", "wait", "done"}]
    BY <1>3 DEF BeginShutdown, CloseTypes
  <2>7. UNCHANGED <<report, coordinator>>
    BY <1>3 DEF BeginShutdown
  <2> QED BY <2>1, <2>3, <2>4, <2>5, <2>6, <2>7 DEF CloseTypes
<1>4. ASSUME NEW z \in Closers, Lead(z) PROVE GatewayTypes' /\ CloseTypes'
  BY <1>4 DEF Lead, lifecycleVars, GatewayTypes, CloseTypes
<1>5. ASSUME NEW z \in Closers, ClosedReport(z) PROVE GatewayTypes' /\ CloseTypes'
  BY <1>5 DEF ClosedReport, lifecycleVars, gatewayVars, GatewayTypes, CloseTypes
<1>6. CASE Coordinated
  <2>1. GatewayTypes'
    BY <1>6 DEF Coordinated, gatewayVars, GatewayTypes
  <2>2. shutdown_error' \in BOOLEAN
    BY <1>6 DEF Coordinated, CloseTypes
  <2>3. PICK result \in {"ok", "error"} :
          report' = [result |-> result, expected |-> coordinator.expected, joined |-> coordinator.joined]
    BY <1>6 DEF Coordinated
  <2>4. report' \in [result : {"ok", "error"}, expected : SUBSET Backends, joined : SUBSET Backends]
    BY <2>3 DEF CloseTypes
  <2>5. coordinator' \in
          [at : {"none", "joining", "done"}, expected : SUBSET Backends, joined : SUBSET Backends]
    BY <1>6 DEF Coordinated, CloseTypes
  <2>6. phase' = "closed" /\ UNCHANGED <<closer, sweep>>
    BY <1>6 DEF Coordinated
  <2> QED BY <2>1, <2>2, <2>4, <2>5, <2>6 DEF CloseTypes
<1>7. ASSUME NEW b \in Backends, BackendShutdown(b) PROVE GatewayTypes' /\ CloseTypes'
  BY <1>7 DEF BackendShutdown, lifecycleVars, gatewayVars, closeVars, GatewayTypes, CloseTypes
<1>8. ASSUME NEW b \in Backends, BackendJoined(b) PROVE GatewayTypes' /\ CloseTypes'
  <2>1. coordinator' \in
          [at : {"none", "joining", "done"}, expected : SUBSET Backends, joined : SUBSET Backends]
    <3>1. coordinator' = [coordinator EXCEPT !.joined = coordinator.joined \cup {b}]
      BY <1>8 DEF BackendJoined
    <3> QED BY <3>1 DEF CloseTypes
  <2>2. UNCHANGED <<phase, shutdown_error, report, closer, sweep>> /\ GatewayTypes'
    BY <1>8 DEF BackendJoined, lifecycleVars, gatewayVars, GatewayTypes
  <2> QED BY <2>1, <2>2 DEF CloseTypes
<1> QED BY <1>1, <1>2, <1>3, <1>4, <1>5, <1>6, <1>7, <1>8, OtherSteps DEF CloseSteps, CoordinatorMoves

\* Then what is so of the close stays so.
LEMMA ClosingStays ==
    ASSUME RegistryTypes, CloseTypes, Closing, Summary,
           UNCHANGED <<phase, report, backends, accepting, closer, coordinator>>
    PROVE  Closing'
<1>1. \A b \in coordinator.joined, s \in Seqs : task'[b][s].at = "none"
  <2>1. coordinator.joined \subseteq Backends \ accepting
    BY DEF Closing, CloseTypes
  <2> QED BY <2>1, StaysDrained DEF Closing
<1>2. phase = "closed" /\ report.result = "ok" => \A id \in Ids : operations'[id] = 0
  BY StaysDrained DEF Closing
<1> QED BY <1>1, <1>2 DEF Closing

\* The steps of the gateway and of its close.
LEMMA ClosingStep ==
    ASSUME RegistryTypes, GatewayTypes, CloseTypes, Closing, Summary, [Next]_vars
    PROVE  Closing'
<1>0. \A b \in coordinator.joined, s \in Seqs : task'[b][s].at = "none"
  <2>1. coordinator.joined \subseteq Backends \ accepting
    BY DEF Closing, CloseTypes
  <2> QED BY <2>1, StaysDrained DEF Closing
<1>1. CASE CloseKept
  BY <1>1, ClosingStays DEF CloseKept
<1>2. ASSUME NEW b \in Backends, SetBackendConcurrency(b) PROVE Closing'
  BY <1>2, ClosingStays DEF SetBackendConcurrency, lifecycleVars, closeVars
<1>3. ASSUME NEW b \in Backends, RegisterBackend(b) PROVE Closing'
  <2>1. /\ phase = "running" /\ UNCHANGED <<phase, report, accepting, closer, coordinator>>
    BY <1>3 DEF RegisterBackend, lifecycleVars, closeVars
  <2> QED BY <1>0, <2>1 DEF Closing
<1>4. ASSUME NEW z \in Closers, BeginShutdown(z) PROVE Closing'
  <2>1. UNCHANGED <<report, backends, accepting, coordinator, operations>> /\ closer[z] = "idle"
    BY <1>4 DEF BeginShutdown, gatewayVars, registryVars
  <2>2. CASE phase = "running"
    <3>1. phase' = "quiescing" /\ closer' = [closer EXCEPT ![z] = "lead"]
      BY <1>4, <2>2 DEF BeginShutdown
    <3>2. coordinator.at = "none" /\ \A y \in Closers : closer[y] # "lead"
      BY <2>2 DEF Closing
    <3>3. \A y \in Closers : closer'[y] = "lead" => y = z
      BY <3>1, <3>2 DEF CloseTypes
    <3> QED BY <1>0, <2>1, <3>1, <3>2, <3>3 DEF Closing
  <2>3. CASE phase # "running"
    <3>1. phase' = phase /\ closer' = [closer EXCEPT ![z] = IF phase = "closed" THEN "done" ELSE "wait"]
      BY <1>4, <2>3 DEF BeginShutdown
    <3>2. \A y \in Closers : closer'[y] = "lead" => closer[y] = "lead"
      BY <3>1 DEF CloseTypes
    <3> QED BY <1>0, <2>1, <2>3, <3>1, <3>2 DEF Closing
  <2> QED BY <2>2, <2>3
<1>5. ASSUME NEW z \in Closers, Lead(z) PROVE Closing'
  <2>1. /\ UNCHANGED <<phase, report, backends, accepting, operations>> /\ closer[z] = "lead"
        /\ coordinator' = [at |-> "joining", expected |-> backends, joined |-> {}]
        /\ closer' = [closer EXCEPT ![z] = "wait"]
    BY <1>5 DEF Lead, lifecycleVars, registryVars
  <2>2. /\ coordinator.at = "none" /\ \A y \in Closers : closer[y] = "lead" => y = z
        /\ phase # "running"
    BY <2>1 DEF Closing
  <2>3. \A y \in Closers : closer'[y] # "lead"
    BY <2>1, <2>2 DEF CloseTypes
  <2>4. phase # "closed"
    BY <2>2 DEF Closing
  <2> QED BY <2>1, <2>2, <2>3, <2>4 DEF Closing
<1>6. ASSUME NEW z \in Closers, ClosedReport(z) PROVE Closing'
  <2>1. /\ UNCHANGED <<phase, report, backends, accepting, coordinator, operations>>
        /\ closer' = [closer EXCEPT ![z] = "done"]
    BY <1>6 DEF ClosedReport, lifecycleVars, gatewayVars, registryVars
  <2>2. \A y \in Closers : closer'[y] = "lead" => closer[y] = "lead"
    BY <2>1 DEF CloseTypes
  <2> QED BY <1>0, <2>1, <2>2 DEF Closing
<1>7. CASE Coordinated
  <2>1. /\ UNCHANGED <<backends, accepting, closer, operations>> /\ phase' = "closed"
        /\ coordinator.at = "joining" /\ coordinator.joined = coordinator.expected
        /\ coordinator' = [coordinator EXCEPT !.at = "done"]
    BY <1>7 DEF Coordinated, gatewayVars, registryVars
  <2>2. /\ coordinator'.at = "done" /\ coordinator'.joined = coordinator.joined
        /\ coordinator'.expected = coordinator.expected
    BY <2>1 DEF CloseTypes
  <2>3. PICK result \in {"ok", "error"} :
          report' = [result |-> result, expected |-> coordinator.expected, joined |-> coordinator.joined]
    BY <1>7 DEF Coordinated
  <2>4. report'.joined = coordinator.joined /\ report'.result = result
    BY <2>3
  <2>5. ASSUME report'.result = "ok", NEW id \in Ids PROVE operations'[id] = 0
    <3>1. ~shutdown_error /\ ~poisoned
      BY <1>7, <2>5 DEF Coordinated
    <3>2. Active = {}
      BY <1>7, <3>1 DEF Coordinated
    <3> QED BY <2>1, <3>2 DEF Active
  <2>6. coordinator.expected = backends /\ phase # "running"
    BY <2>1 DEF Closing
  <2>7. \A y \in Closers : closer[y] # "lead"
    BY <2>1 DEF Closing
  <2> QED BY <1>0, <2>1, <2>2, <2>4, <2>5, <2>6, <2>7 DEF Closing
<1>8. ASSUME NEW b \in Backends, BackendShutdown(b) PROVE Closing'
  <2>1. /\ UNCHANGED <<phase, report, backends, closer, coordinator, operations>>
        /\ accepting' \subseteq accepting
    BY <1>8 DEF BackendShutdown, lifecycleVars, gatewayVars, registryVars, closeVars
  <2> QED BY <1>0, <2>1 DEF Closing
<1>9. ASSUME NEW b \in Backends, BackendJoined(b) PROVE Closing'
  <2>1. /\ UNCHANGED <<phase, report, backends, accepting, closer, operations, task>>
        /\ coordinator.at = "joining" /\ b \in coordinator.expected \ accepting
        /\ \A s \in Seqs : task[b][s].at = "none"
        /\ coordinator' = [coordinator EXCEPT !.joined = coordinator.joined \cup {b}]
    BY <1>9 DEF BackendJoined, lifecycleVars, gatewayVars, registryVars
  <2>2. /\ coordinator'.at = "joining" /\ coordinator'.joined = coordinator.joined \cup {b}
        /\ coordinator'.expected = coordinator.expected
    BY <2>1 DEF CloseTypes
  <2>3. phase # "closed" /\ phase # "running"
    BY <2>1 DEF Closing
  <2>4. \A y \in Closers : closer[y] # "lead"
    BY <2>1 DEF Closing
  <2> QED BY <1>0, <2>1, <2>2, <2>3, <2>4 DEF Closing
<1> QED BY <1>1, <1>2, <1>3, <1>4, <1>5, <1>6, <1>7, <1>8, <1>9, OtherSteps
        DEF CloseSteps, CoordinatorMoves

-----------------------------------------------------------------------------

\* The invariant holds of the start.
LEMMA InitInv == Init => IInv
<1> SUFFICES ASSUME Init PROVE IInv
  OBVIOUS
<1>0. \A s \in Seqs : request[s] = NoRequest
  BY DEF Init
<1>1. /\ NoRequest.id = "none" /\ NoRequest.kind = "none" /\ NoRequest.phase = "none"
      /\ NoRequest.terminal = "none" /\ NoRequest.at = "none" /\ NoRequest.backend = "none"
      /\ NoRequest.final = "none" /\ ~NoRequest.gone
  BY DEF NoRequest
<1>2. NoRequest \in Requests
  <2>1. PICK no \in BOOLEAN : no = FALSE
    OBVIOUS
  <2>0. 0 \in 0 .. MaxAdmissions
    BY BoundsAssumption
  <2>2. PICK C \in [Backends -> 0 .. MaxAdmissions] : C = NoCandidates
    <3>1. NoCandidates \in [Backends -> 0 .. MaxAdmissions]
      BY <2>0 DEF NoCandidates
    <3> QED BY <3>1
  <2>3. NoRequest = Blank(no, C, "none", "none", "none", no, "none", "none")
    BY <2>1, <2>2 DEF NoRequest, Blank, NoCandidates
  <2>4. Blank(no, C, "none", "none", "none", no, "none", "none") \in Requests
    BY BoundsAssumption DEF Blank, Requests, Places
  <2> QED BY <2>3, <2>4
<1>3. TypeOK
  <2>1. RequestTypes
    BY <1>2 DEF Init, RequestTypes
  <2>2. TaskTypes
    <3>1. NoTask \in Tasks
      BY DEF NoTask, Tasks
    <3> QED BY <3>1 DEF Init, TaskTypes
  <2>3. RegistryTypes
    <3>1. poisoned \in BOOLEAN
      BY DEF Init
    <3>2. next_sequence \in 1 .. MaxSequence
      BY BoundsAssumption DEF Init
    <3>3. operations \in [Ids -> Seqs \cup {0}]
      BY DEF Init
    <3> QED BY <3>1, <3>2, <3>3 DEF RegistryTypes
  <2>4. GatewayTypes
    <3>1. closed \in BOOLEAN
      BY DEF Init
    <3>2. 1 \in 1 .. MaxAdmissions
      BY BoundsAssumption
    <3>3. admission \in [Backends -> 1 .. MaxAdmissions]
      BY <3>2 DEF Init
    <3>4. backends \subseteq Backends /\ accepting \subseteq Backends /\ client \in Ids \cup {"none"}
      BY DEF Init
    <3> QED BY <3>1, <3>3, <3>4 DEF GatewayTypes
  <2>5. CloseTypes
    BY DEF Init, CloseTypes, NoReport, NoCoordinator
  <2> QED BY <2>1, <2>2, <2>3, <2>4, <2>5, TypeParts
<1>4. Each
  <2>1. Sound(NoRequest)
    BY <1>1 DEF Sound, CallPlaces, ExecutorPlaces, HolderPlaces
  <2>2. NoTask.at = "none"
    BY DEF NoTask
  <2>3. \A b \in Backends, s \in Seqs : task[b][s] = NoTask
    BY DEF Init
  <2>4. \A b \in Backends : Paired(NoRequest, b, NoTask)
    BY <1>1, <2>2 DEF Paired
  <2> QED BY <1>0, <2>1, <2>3, <2>4 DEF Each
<1>5. Entries
  BY <1>0, <1>1 DEF Init, Entries, Live, CallPlaces, ExecutorPlaces
<1>6. Permits
  <2>1. \A b \in Backends, n \in 0 .. MaxAdmissions : Holders(b, n) = {}
    BY <1>0, <1>1 DEF Holders, ExecutorPlaces
  <2> QED BY <2>1, FS_EmptySet, BoundsAssumption DEF Permits
<1>7. Closing
  BY DEF Init, Closing, NoCoordinator
<1> QED BY <1>3, <1>4, <1>5, <1>6, <1>7 DEF IInv

\* Every step preserves the invariant.
LEMMA StepInv == IInv /\ [Next]_vars => IInv'
<1> SUFFICES ASSUME IInv, [Next]_vars PROVE IInv'
  OBVIOUS
<1>1. /\ TypeOK /\ Each /\ Entries /\ Permits /\ Closing /\ RegistryTypes /\ RequestTypes
      /\ TaskTypes /\ GatewayTypes /\ CloseTypes
  BY TypeParts DEF IInv
<1>2. Summary
  BY <1>1, StepSummary
<1>3. RegistryTypes' /\ RequestTypes' /\ TaskTypes'
  BY <1>1, <1>2, TypesStep
<1>4. GatewayTypes' /\ CloseTypes'
  BY <1>1, CloseTypesStep
<1>5. TypeOK'
  BY <1>3, <1>4 DEF TypeOK, RegistryTypes, RequestTypes, TaskTypes, GatewayTypes, CloseTypes,
     Requests, Tasks, Places
<1>6. Each' /\ Entries' /\ Permits' /\ Closing'
  BY <1>1, <1>2, EachStep, EntriesStep, PermitsStep, ClosingStep
<1> QED BY <1>5, <1>6 DEF IInv

\* The inductive invariant holds in every reachable state.
LEMMA Invariant == Spec => []IInv
BY InitInv, StepInv, PTL DEF Spec

-----------------------------------------------------------------------------
(* The theorems.                                                           *)

(***************************************************************************)
(* Permits and identities outlast the workers, also when the consumer is   *)
(* gone, a deadline answered the ticket or the registry is poisoned, and   *)
(* whoever no longer listens to a worker has cancelled it: for any number  *)
(* of requests, backends, slots and semaphores (ExecutionTicket in         *)
(* fte-types, OperationLease and admit in fte-router).                     *)
(***************************************************************************)
THEOREM GatewaySound == Spec => []GatewayInv
<1>1. IInv => GatewayInv
  <2> SUFFICES ASSUME IInv PROVE GatewayInv
    OBVIOUS
  <2>1. Each /\ Entries /\ Permits /\ RequestTypes
    BY TypeParts DEF IInv
  <2>2. ASSUME NEW b \in Backends, NEW s \in Seqs, task[b][s].at = "worker"
        PROVE  /\ request[s].at \in ExecutorPlaces /\ request[s].backend = b
               /\ operations[request[s].id] = s
    <3>1. request[s].at \in ExecutorPlaces /\ request[s].backend = b
      BY <2>1, <2>2 DEF Each, Paired
    <3> QED BY <2>1, <3>1 DEF Entries, Live
  <2>3. ASSUME NEW b \in Backends, NEW n \in 1 .. MaxAdmissions
        PROVE  Cardinality({s \in Holders(b, n) : task[b][s].at = "worker"}) <= Slots
    <3>1. PICK H : H = Holders(b, n)
      OBVIOUS
    <3>2. PICK G : G = {s \in H : task[b][s].at = "worker"}
      OBVIOUS
    <3>3. n \in 0 .. MaxAdmissions
      BY BoundsAssumption
    <3>4. IsFiniteSet(H) /\ G \subseteq H /\ Cardinality(H) <= Slots
      BY <2>1, <3>1, <3>2, <3>3, HoldersFinite DEF Permits
    <3>5. /\ Cardinality(G) <= Cardinality(H) /\ IsFiniteSet(G)
          /\ Cardinality(G) \in Nat /\ Cardinality(H) \in Nat
      BY <3>4, FS_Subset, FS_CardinalityType
    <3>6. Cardinality(G) <= Slots
      BY <3>4, <3>5, BoundsAssumption
    <3> QED BY <3>1, <3>2, <3>6
  <2>4. WorkersAdmitted
    BY <2>2, <2>3 DEF WorkersAdmitted
  <2>5. ASSUME NEW s \in Seqs,
               \/ request[s].at \in {"await", "late"}
               \/ request[s].at = "ticket" /\ request[s].gone
        PROVE  LET t == task[request[s].backend][s] IN t.at \in {"none", "sent"} \/ t.cancelled
    <3>1. request[s].backend \in Backends
      BY <2>1, <2>5 DEF Each, Sound, HolderPlaces, ExecutorPlaces
    <3> QED BY <2>1, <2>5, <3>1 DEF Each, Paired
  <2>6. SilencedCancelled
    BY <2>5 DEF SilencedCancelled
  <2> QED BY <2>4, <2>6 DEF GatewayInv
<1> QED BY <1>1, Invariant, PTL

(***************************************************************************)
(* A report without error was taken when no request was active and every   *)
(* backend was drained, and neither comes back; with an error the backends *)
(* are drained all the same (shutdown_with_report in fte-router).          *)
(***************************************************************************)
THEOREM GatewayCloses == Spec => []CloseInv
<1>1. IInv => CloseInv
  <2> SUFFICES ASSUME IInv PROVE CloseInv
    OBVIOUS
  <2>1. TypeOK /\ Each /\ Entries /\ Closing /\ RegistryTypes /\ RequestTypes
    BY TypeParts DEF IInv
  <2>2. ASSUME phase = "closed" PROVE report.joined = backends
    BY <2>1, <2>2 DEF Closing
  <2>3. ASSUME phase = "closed", NEW b \in backends, NEW s \in Seqs PROVE task[b][s].at = "none"
    BY <2>1, <2>3 DEF Closing
  <2>4. ASSUME phase = "closed", report.result = "ok"
        PROVE  Active = {} /\ \A s \in Seqs : request[s].at \in {"none", "over"}
    <3>1. \A id \in Ids : operations[id] = 0
      BY <2>1, <2>4 DEF Closing
    <3>2. Active = {}
      BY <3>1 DEF Active
    <3>3. ASSUME NEW s \in Seqs, Live(request[s]) PROVE FALSE
      <4>1. request[s].id \in Ids /\ operations[request[s].id] = s
        BY <2>1, <3>3 DEF Each, Sound, Entries, Live, CallPlaces, ExecutorPlaces
      <4> QED BY <3>1, <4>1 DEF Seqs
    <3>4. \A s \in Seqs : request[s].at \in Places
      BY <2>1 DEF RequestTypes, Requests
    <3> QED BY <3>2, <3>3, <3>4 DEF Live, Places
  <2>5. ClosedSound
    BY <2>2, <2>3, <2>4 DEF ClosedSound
  <2> QED BY <2>1, <2>5 DEF CloseInv
<1> QED BY <1>1, Invariant, PTL

-----------------------------------------------------------------------------
(* The contract of ADR-003.                                                *)

\* How far a request with the record r is.
OutcomeOf(r) ==
    IF r.phase = "none" THEN "unborn"
    ELSE IF r.terminal # "none" THEN r.terminal
    ELSE IF r.token THEN "cancelling" ELSE "open"

AbstractOutcome == [s \in Seqs |-> Outcome(s)]

\* What the contract sees of a request.
LEMMA OutcomeIs == \A s \in Seqs : AbstractOutcome[s] = OutcomeOf(request[s])
BY DEF AbstractOutcome, Outcome, OutcomeOf

\* And after a step.
LEMMA OutcomeIsNext == \A s \in Seqs : AbstractOutcome'[s] = OutcomeOf(request'[s])
BY DEF AbstractOutcome, Outcome, OutcomeOf

\* A step of one request changes at most its own outcome.
LEMMA OneOutcome ==
    ASSUME RequestTypes, NEW s \in Seqs, NEW r, request' = [request EXCEPT ![s] = r]
    PROVE  AbstractOutcome' = [AbstractOutcome EXCEPT ![s] = OutcomeOf(r)]
<1>1. request'[s] = r /\ \A q \in Seqs \ {s} : request'[q] = request[q]
  BY DEF RequestTypes
<1>2. \A q \in Seqs : AbstractOutcome'[q] = IF q = s THEN OutcomeOf(r) ELSE AbstractOutcome[q]
  BY <1>1, OutcomeIs, OutcomeIsNext
<1>3. /\ AbstractOutcome = [q \in Seqs |-> AbstractOutcome[q]]
      /\ AbstractOutcome' = [q \in Seqs |-> AbstractOutcome'[q]]
  BY DEF AbstractOutcome
<1> HIDE DEF AbstractOutcome
<1> QED BY <1>2, <1>3

\* A reservation is an admission.
LEMMA AddsRefines ==
    ASSUME RegistryTypes, RequestTypes, Each, Entries, NEW id \in Ids, NEW kind \in Kinds,
           Adds(id, kind)
    PROVE  Contract!Next
<1>0. PICK no : no = FALSE
  OBVIOUS
<1>1. PICK r : r = Plain(id, kind, "queued", no, "none", "setup")
  OBVIOUS
<1>2. r.phase = "queued" /\ r.terminal = "none" /\ r.token = no
  BY <1>1, PlainFields
<1>3. OutcomeOf(r) = "open"
  BY <1>0, <1>2 DEF OutcomeOf
<1>4. PICK s \in Seqs : s = next_sequence
  BY DEF Adds
<1>5. request' = [request EXCEPT ![s] = r] /\ operations' = [operations EXCEPT ![id] = s]
  BY <1>0, <1>1, <1>4 DEF Adds
<1>6. AbstractOutcome' = [AbstractOutcome EXCEPT ![s] = "open"]
  BY <1>3, <1>5, OneOutcome
<1>7. ASSUME NEW q \in Seqs, q >= s PROVE AbstractOutcome[q] = "unborn"
  <2>1. request[q].at = "none"
    BY <1>4, <1>7 DEF Entries
  <2>2. request[q] = NoRequest
    BY <2>1 DEF Each, Sound
  <2>3. request[q].phase = "none"
    BY <2>2 DEF NoRequest
  <2> QED BY <2>3, OutcomeIs DEF OutcomeOf
<1>8. operations[id] = 0
  BY DEF Adds
<1>9. Contract!Admit(id, s)
  BY <1>5, <1>6, <1>7, <1>8 DEF Contract!Admit, AbstractOutcome
<1> QED BY <1>9 DEF Contract!Next

\* The tokens are a cancellation.
LEMMA MarksRefines ==
    ASSUME RegistryTypes, RequestTypes, Each, Entries, NEW S \in SUBSET Seqs, Marks(S)
    PROVE  Contract!Next
<1>1. ASSUME NEW q \in Seqs
      PROVE  OutcomeOf(request'[q]) = IF q \in S /\ OutcomeOf(request[q]) = "open"
                                        THEN "cancelling" ELSE OutcomeOf(request[q])
  <2>1. /\ request'[q].phase = request[q].phase /\ request'[q].terminal = request[q].terminal
        /\ q \notin S => request'[q] = request[q]
        /\ q \in S => request'[q].token = TRUE
    BY TokenRecord DEF Marks
  <2>2. q \in S => request[q].phase # "none"
    BY DEF Marks, Active, Entries, Each, Sound
  <2>3. request[q].terminal # "open"
    BY DEF RequestTypes, Requests, Classes
  <2>4. CASE q \notin S
    BY <2>1, <2>4
  <2>5. CASE q \in S /\ request[q].terminal # "none"
    BY <2>1, <2>2, <2>3, <2>5 DEF OutcomeOf
  <2>6. CASE q \in S /\ request[q].terminal = "none"
    <3>1. OutcomeOf(request'[q]) = "cancelling"
      BY <2>1, <2>2, <2>6 DEF OutcomeOf
    <3>2. OutcomeOf(request[q]) \in {"open", "cancelling"}
      BY <2>2, <2>6 DEF OutcomeOf
    <3> QED BY <2>6, <3>1, <3>2
  <2> QED BY <2>4, <2>5, <2>6
<1>2. \A q \in Seqs : AbstractOutcome'[q] = IF q \in S /\ AbstractOutcome[q] = "open"
                                              THEN "cancelling" ELSE AbstractOutcome[q]
  BY <1>1, OutcomeIs, OutcomeIsNext
<1>3. AbstractOutcome' = [q \in Seqs |-> AbstractOutcome'[q]]
  BY DEF AbstractOutcome
<1> HIDE DEF AbstractOutcome
<1>4. AbstractOutcome' = [q \in Seqs |-> IF q \in S /\ AbstractOutcome[q] = "open"
                                           THEN "cancelling" ELSE AbstractOutcome[q]]
  BY <1>2, <1>3
<1>5. UNCHANGED operations
  BY DEF Marks
<1>6. Contract!Cancel(S)
  BY <1>4, <1>5 DEF Contract!Cancel, AbstractOutcome
<1> QED BY <1>6 DEF Contract!Next

\* Two records that the contract does not tell apart.
LEMMA SameOutcome ==
    ASSUME NEW r, NEW q, r.phase # "none", q.phase # "none", r.terminal = q.terminal,
           r.token = q.token
    PROVE  OutcomeOf(r) = OutcomeOf(q)
BY DEF OutcomeOf

\* A step of a request keeps the contract.
LEMMA MovesRefines ==
    ASSUME RegistryTypes, RequestTypes, Each, Entries, NEW s \in Seqs, NEW r \in Requests,
           Goes(s, r) \/ Ends(s, r)
    PROVE  Contract!Next \/ UNCHANGED <<operations, AbstractOutcome>>
<1>0. /\ Own(s, r) /\ Live(request[s]) /\ r.id = request[s].id /\ r.token = request[s].token
      /\ r.at # "none"
  BY DEF Goes, Ends, Live, CallPlaces, ExecutorPlaces
<1>1. /\ request[s].id \in Ids /\ operations[request[s].id] = s /\ s # 0
      /\ request[s].phase # "none" /\ r.phase # "none"
  BY <1>0 DEF Own, Each, Sound, Entries, Live, CallPlaces, ExecutorPlaces, Seqs
<1>2. PICK id \in Ids : id = request[s].id
  BY <1>1
<1>3. AbstractOutcome' = [AbstractOutcome EXCEPT ![s] = OutcomeOf(r)]
  BY <1>0, OneOutcome DEF Own
<1>4. AbstractOutcome = [q \in Seqs |-> AbstractOutcome[q]]
  BY DEF AbstractOutcome
<1>5. ASSUME r.terminal = request[s].terminal PROVE UNCHANGED AbstractOutcome
  <2>1. OutcomeOf(r) = AbstractOutcome[s]
    BY <1>0, <1>1, <1>5, SameOutcome, OutcomeIs
  <2> HIDE DEF AbstractOutcome
  <2> QED BY <1>3, <1>4, <2>1
<1>6. ASSUME request[s].terminal = "none", r.terminal \in Classes
      PROVE  \E class \in Contract!Classes : Contract!Settle(s, class)
  <2>1. PICK class \in Contract!Classes : class = r.terminal
    BY <1>6 DEF Classes, Contract!Classes
  <2>2. OutcomeOf(r) = class
    BY <1>1, <2>1 DEF OutcomeOf, Contract!Classes
  <2>3. AbstractOutcome[s] \in {"open", "cancelling"}
    BY <1>1, <1>6, OutcomeIs DEF OutcomeOf
  <2>4. Contract!Settle(s, class)
    BY <1>3, <2>2, <2>3 DEF Contract!Settle, AbstractOutcome
  <2> QED BY <2>4
<1>7. CASE Goes(s, r)
  <2>1. UNCHANGED operations
    BY <1>7 DEF Goes
  <2>2. CASE r.terminal = request[s].terminal
    BY <1>5, <2>1, <2>2
  <2>3. CASE request[s].terminal = "none" /\ r.terminal \in Classes
    <3>1. PICK class \in Contract!Classes : Contract!Settle(s, class)
      BY <1>6, <2>3
    <3>2. Contract!Terminal(id, class)
      BY <1>1, <1>2, <2>1, <3>1 DEF Contract!Terminal
    <3> QED BY <3>2 DEF Contract!Next
  <2> QED BY <1>7, <2>2, <2>3 DEF Goes
<1>8. CASE Ends(s, r) /\ poisoned
  BY <1>5, <1>8 DEF Ends
<1>9. CASE Ends(s, r) /\ ~poisoned
  <2>1. /\ r.terminal \in Classes /\ request[s].terminal \in {"none", r.terminal}
        /\ operations' = [operations EXCEPT ![id] = 0]
    BY <1>2, <1>9 DEF Ends
  <2>2. CASE request[s].terminal = "none"
    <3>1. PICK class \in Contract!Classes : Contract!Settle(s, class)
      BY <1>6, <2>1, <2>2
    <3>2. Contract!TerminalAndRelease(id, class)
      BY <1>1, <1>2, <2>1, <3>1 DEF Contract!TerminalAndRelease, Contract!Free
    <3> QED BY <3>2 DEF Contract!Next
  <2>3. CASE request[s].terminal = r.terminal
    <3>1. UNCHANGED AbstractOutcome
      BY <1>5, <2>3
    <3>2. AbstractOutcome[s] \in Contract!Classes
      BY <1>1, <2>1, <2>3, OutcomeIs DEF OutcomeOf, Classes, Contract!Classes
    <3>3. Contract!Release(id)
      BY <1>1, <1>2, <2>1, <3>1, <3>2 DEF Contract!Release, Contract!Free, AbstractOutcome
    <3> QED BY <3>3 DEF Contract!Next
  <2> QED BY <2>1, <2>2, <2>3
<1> QED BY <1>7, <1>8, <1>9

\* Every step of the gateway is a step of the contract, or none.
LEMMA NextRefines == IInv /\ [Next]_vars => [Contract!Next]_(Contract!vars)
<1> SUFFICES ASSUME IInv, [Next]_vars PROVE Contract!Next \/ UNCHANGED Contract!vars
  OBVIOUS
<1>0. RegistryTypes /\ RequestTypes /\ Each /\ Entries /\ TypeOK
  BY TypeParts DEF IInv
<1>1. Summary
  BY <1>0, StepSummary
<1>2. ASSUME UNCHANGED <<operations, AbstractOutcome>> PROVE UNCHANGED Contract!vars
  BY <1>2 DEF Contract!vars, AbstractOutcome
<1>3. ASSUME UNCHANGED <<operations, request>> PROVE UNCHANGED Contract!vars
  <2>1. UNCHANGED AbstractOutcome
    BY <1>3 DEF AbstractOutcome, Outcome
  <2> QED BY <1>2, <1>3, <2>1
<1>4. CASE Rests
  BY <1>3, <1>4 DEF Rests
<1> QED BY <1>0, <1>1, <1>2, <1>3, <1>4, AddsRefines, MarksRefines, MovesRefines DEF Summary

(***************************************************************************)
(* The gateway keeps the operation contract of ADR-003 for any ids,        *)
(* backends and number of requests: an id is active at most once, a        *)
(* request gets exactly one terminal class, and its id is freed only with  *)
(* one, by its own lease; a poisoned registry frees nothing                *)
(* (operation_lifecycle.rs).                                               *)
(***************************************************************************)
THEOREM GatewayRefinesContract == Spec => ImplementsContract
<1>1. Init => Contract!Init
  <2> SUFFICES ASSUME Init PROVE Contract!Init
    OBVIOUS
  <2>1. AbstractOutcome = [s \in Seqs |-> "unborn"]
    BY DEF Init, AbstractOutcome, Outcome, NoRequest
  <2> QED BY <2>1 DEF Init, Contract!Init, AbstractOutcome
<1> QED BY <1>1, NextRefines, Invariant, PTL DEF Spec, ImplementsContract, Contract!Spec
=============================================================================
