----------------------- MODULE VoiceSpeculationProofs -----------------------
(***************************************************************************)
(* Proofs about module VoiceSpeculation, for any number of speculate,      *)
(* confirm, abort and handoff commands and of shutdown callers.            *)
(***************************************************************************)
EXTENDS VoiceSpeculation, TLAPS

-----------------------------------------------------------------------------
(* The inductive invariant.                                                *)

\* What the position of a speculate command says about its control and its
\* import thread.
ProducersOK ==
    \A p \in Producers :
      /\ producer[p] \in {"idle", "session", "begin"} => state[p] = "none"
      /\ producer[p] \in {"idle", "session", "begin", "prepare", "spawn", "worker", "take"} =>
           import[p] = "unborn"
      /\ import[p] = "waiting" => producer[p] \in {"decode", "precommit", "failed", "join"}
      /\ import[p] \in {"importing", "imported"} => state[p] = "confirmed"
      /\ producer[p] \in {"join", "finish_map", "finish_early"} => state[p] # "pending"

\* A recording is there from the confirmation until the import takes it.
RecordingsOK ==
    \A p \in Producers :
      /\ state[p] # "confirmed" => recording[p] = Nothing /\ taken[p] = Nothing
      /\ state[p] = "confirmed" /\ import[p] \in {"unborn", "waiting"} => recording[p] # Nothing

\* Controls that can be found exist, and are found under their own identity.
HeldOK ==
    /\ \A i \in Ids : speculations[i] # Nothing =>
         IdOf[speculations[i]] = i /\ state[speculations[i]] # "none"
    /\ \A t \in Commands :
         /\ command[t].control # Nothing => state[command[t].control] # "none"
         /\ command[t].pc \in {"decide", "forget"} => command[t].control # Nothing
         /\ command[t].pc = "remember" => command[t].control = Nothing
         /\ command[t].pc # "idle" => command[t].id \in Ids
         /\ command[t].pc \in {"idle", "look_up"} => ~command[t].answer

Decision(t) == IF t \in Confirmers THEN "confirmed" ELSE "aborted"

\* Who was told that its decision stands was told the truth, for good.
AnswersOK ==
    \A t \in Commands : command[t].answer /\ command[t].control # Nothing =>
        state[command[t].control] = Decision(t)

\* A command has removed the control p, and is on its way to abort it.
Removing(t, p) ==
    /\ command[t].control = p
    /\ command[t].pc = "decide" \/ (t \in Handoffs /\ command[t].pc = "forget")

\* While its speculate command runs, somebody can still decide a control.
ReachOK ==
    \A p \in Producers : state[p] = "pending" /\ producer[p] # "returned" =>
        speculations[IdOf[p]] = p \/ \E t \in Aborters \cup Handoffs : Removing(t, p)

VoiceInv == TypeOK /\ ProducersOK /\ RecordingsOK /\ HeldOK /\ AnswersOK

\* What a step does to the recordings.
RecordingStep ==
    \A p \in Producers :
      /\ recording[p] # Nothing => recording'[p] \in {recording[p], Nothing}
      /\ (recording[p] # Nothing /\ recording'[p] = Nothing) => taken'[p] = recording[p]
      /\ (state[p] = "confirmed" /\ import[p] = "waiting" /\ import'[p] # "waiting")
            => import'[p] = "importing"

Reachable(p) ==
    state[p] = "pending" /\ producer[p] # "returned" =>
        speculations[IdOf[p]] = p \/ \E t \in Aborters \cup Handoffs : Removing(t, p)

\* The first decision of a control stands.
LEMMA TransitionFacts ==
  ASSUME TypeOK, NEW p \in Producers, NEW next \in {"confirmed", "aborted"}, Transition(p, next)
  PROVE  /\ state' \in [Producers -> {"none", "pending", "confirmed", "aborted"}]
         /\ asleep' \subseteq Producers
         /\ state'[p] = IF state[p] = "pending" THEN next ELSE state[p]
         /\ \A q \in Producers \ {p} : state'[q] = state[q]
  BY DEF TypeOK, Transition

\* Nothing has been admitted in the initial states.
LEMMA VoiceInit == Init => VoiceInv /\ ReachOK
<1> SUFFICES ASSUME Init PROVE VoiceInv /\ ReachOK
  OBVIOUS
<1>1. TypeOK
  BY DEF Init, TypeOK, ProducerLabels, ImportLabels, CommandLabels, CloserLabels
<1>2. ProducersOK /\ RecordingsOK /\ ReachOK
  BY DEF Init, ProducersOK, RecordingsOK, ReachOK
<1>3. HeldOK /\ AnswersOK
  BY DEF Init, HeldOK, AnswersOK
<1>4. QED BY <1>1, <1>2, <1>3 DEF VoiceInv

-----------------------------------------------------------------------------
(* The speculate command and its import thread.                            *)

\* The command moves on, and may abort its control or start the import.
LEMMA ProducerMoves ==
  ASSUME VoiceInv, NEW p \in Producers, NEW label \in ProducerLabels,
         producer[p] \notin {"begin", "returned"}, ProducerGoto(p, label),
         producer[p] = "idle" => label = "session",
         producer[p] = "session" => label \in {"begin", "returned"},
         producer[p] \notin {"idle", "session"} => label \notin {"idle", "session", "begin"},
         label \in {"prepare", "spawn", "worker", "take"} => import[p] = "unborn",
         import[p] = "waiting" => label \in {"decode", "precommit", "failed", "join"},
         \/ /\ UNCHANGED <<state, asleep>>
            /\ label \in {"join", "finish_map", "finish_early"} => state[p] # "pending"
         \/ Transition(p, "aborted") /\ producer[p] \notin {"idle", "session"},
         \/ UNCHANGED import
         \/ /\ import' = [import EXCEPT ![p] = "waiting"] /\ UNCHANGED state
            /\ producer[p] = "take" /\ label = "decode",
         sessions' \subseteq sessions, early_aborts' \subseteq early_aborts,
         UNCHANGED <<speculations, recording, taken, command, lifecycle>>
  PROVE  VoiceInv' /\ RecordingStep /\ (\A q \in Producers : Reachable(q) => Reachable(q)')
<1>1. /\ state' \in [Producers -> {"none", "pending", "confirmed", "aborted"}]
      /\ asleep' \subseteq Producers
      /\ state'[p] = state[p] \/ (state[p] = "pending" /\ state'[p] = "aborted")
      /\ label \in {"join", "finish_map", "finish_early"} => state'[p] # "pending"
      /\ \A q \in Producers \ {p} : state'[q] = state[q]
  BY TransitionFacts DEF VoiceInv, TypeOK
<1>2. producer'[p] = label /\ \A q \in Producers \ {p} : producer'[q] = producer[q]
  BY DEF VoiceInv, TypeOK, ProducerGoto
<1>3. /\ import'[p] = import[p] \/ (producer[p] = "take" /\ label = "decode" /\ import'[p] = "waiting")
      /\ \A q \in Producers \ {p} : import'[q] = import[q]
  BY DEF VoiceInv, TypeOK
<1>4. TypeOK'
  <2>1. producer' \in [Producers -> ProducerLabels] /\ import' \in [Producers -> ImportLabels]
    BY DEF VoiceInv, TypeOK, ProducerGoto, ImportLabels
  <2>2. QED BY <1>1, <2>1 DEF VoiceInv, TypeOK, lifecycle
<1>5. ProducersOK'
  BY <1>1, <1>2, <1>3 DEF VoiceInv, ProducersOK
<1>6. RecordingsOK' /\ RecordingStep
  BY <1>1, <1>2, <1>3 DEF VoiceInv, ProducersOK, RecordingsOK, RecordingStep
<1>7. HeldOK' /\ AnswersOK'
  BY <1>1 DEF VoiceInv, TypeOK, HeldOK, AnswersOK, Decision
<1>8. \A q \in Producers : Reachable(q) => Reachable(q)'
  BY <1>1, <1>2 DEF Reachable, Removing
<1>9. QED BY <1>4, <1>5, <1>6, <1>7, <1>8 DEF VoiceInv

\* What every step is shown to do.
StepOK == VoiceInv' /\ RecordingStep

Kept == \A q \in Producers : Reachable(q) => Reachable(q)'

\* The sections of the speculate command outside the registry.
LEMMA VoiceProducer ==
  ASSUME VoiceInv, NEW p \in Producers,
         \/ AdmitSpeculate(p) \/ PreparedTurn(p) \/ PrepareCapture(p) \/ SpawnWorker(p)
         \/ WorkerStarts(p) \/ TakeSession(p) \/ Decode(p) \/ Precommit(p)
         \/ AbortUnconfirmed(p) \/ JoinImport(p) \/ FinishEarlyAbort(p)
  PROVE  StepOK /\ Kept
<1> USE DEF StepOK, Kept, ProducerLabels, controls, registry
<1>p. /\ producer[p] \in {"idle", "session", "begin", "prepare", "spawn", "worker", "take"} =>
           import[p] = "unborn"
      /\ import[p] = "waiting" => producer[p] \in {"decode", "precommit", "failed", "join"}
      /\ import[p] = "imported" => state[p] = "confirmed"
      /\ producer[p] \in {"join", "finish_map", "finish_early"} => state[p] # "pending"
  BY DEF VoiceInv, ProducersOK
<1>1. CASE AdmitSpeculate(p)
  BY <1>p, <1>1, ProducerMoves DEF AdmitSpeculate
<1>2. CASE PreparedTurn(p)
  BY <1>p, <1>2, ProducerMoves DEF PreparedTurn
<1>3. CASE PrepareCapture(p)
  BY <1>p, <1>3, ProducerMoves DEF PrepareCapture
<1>4. CASE SpawnWorker(p)
  BY <1>p, <1>4, ProducerMoves DEF SpawnWorker
<1>5. CASE WorkerStarts(p)
  BY <1>p, <1>5, ProducerMoves DEF WorkerStarts
<1>6. CASE TakeSession(p)
  BY <1>p, <1>6, ProducerMoves DEF TakeSession
<1>7. CASE Decode(p)
  BY <1>p, <1>7, ProducerMoves DEF Decode
<1>8. CASE Precommit(p)
  BY <1>p, <1>8, ProducerMoves DEF Precommit
<1>9. CASE AbortUnconfirmed(p)
  BY <1>p, <1>9, ProducerMoves DEF AbortUnconfirmed
<1>10. CASE JoinImport(p)
  BY <1>p, <1>10, ProducerMoves DEF JoinImport
<1>11. CASE FinishEarlyAbort(p)
  <2>1. ProducerGoto(p, "returned")
    BY <1>11 DEF FinishEarlyAbort, ProducerGoto
  <2>2. QED BY <1>p, <1>11, <2>1, ProducerMoves DEF FinishEarlyAbort
<1>12. QED
  BY <1>1, <1>2, <1>3, <1>4, <1>5, <1>6, <1>7, <1>8, <1>9, <1>10, <1>11

\* The registration of a control, or the early abort that forestalls it.
LEMMA VoiceBegin ==
  ASSUME VoiceInv, NEW p \in Producers, BeginVoiceSpeculation(p)
  PROVE  /\ StepOK
         /\ (\A q \in Producers : IdOf[q] = IdOf[p] => q = p) => Kept /\ Reachable(p)'
<1> USE IdsAssumption, NothingAssumption
<1>t. TypeOK /\ p # Nothing /\ IdOf[p] \in Ids /\ producer[p] = "begin" /\ state[p] = "none" /\ import[p] = "unborn"
  BY DEF VoiceInv, ProducersOK, BeginVoiceSpeculation
<1>f. \A t \in Commands : command[t].control # p
  BY <1>t DEF VoiceInv, HeldOK
<1>1. CASE IdOf[p] \in early_aborts
  <2>1. /\ producer' = [producer EXCEPT ![p] = "returned"] /\ early_aborts' \subseteq early_aborts
        /\ UNCHANGED <<speculations, state, sessions, recording, asleep, import, taken, command, lifecycle>>
    BY <1>1 DEF BeginVoiceSpeculation
  <2>2. producer'[p] = "returned" /\ \A q \in Producers \ {p} : producer'[q] = producer[q]
    BY <1>t, <2>1 DEF TypeOK
  <2>3. TypeOK'
    BY <1>t, <2>1 DEF TypeOK, ProducerLabels, lifecycle
  <2>4. ProducersOK'
    BY <1>t, <2>1, <2>2 DEF VoiceInv, ProducersOK
  <2>5. RecordingsOK' /\ RecordingStep
    BY <2>1 DEF VoiceInv, RecordingsOK, RecordingStep
  <2>6. HeldOK' /\ AnswersOK'
    BY <2>1 DEF VoiceInv, HeldOK, AnswersOK
  <2>7. Kept /\ Reachable(p)'
    BY <2>1, <2>2 DEF Kept, Reachable, Removing
  <2>8. QED BY <2>3, <2>4, <2>5, <2>6, <2>7 DEF StepOK, VoiceInv
<1>2. CASE IdOf[p] \notin early_aborts
  <2>1. PICK label \in {"prepare", "returned"} : producer' = [producer EXCEPT ![p] = label]
    BY <1>2 DEF BeginVoiceSpeculation
  <2>2. /\ speculations' = [speculations EXCEPT ![IdOf[p]] = p]
        /\ state' = [state EXCEPT ![p] = "pending"]
        /\ UNCHANGED <<early_aborts, sessions, recording, asleep, import, taken, command, lifecycle>>
    BY <1>2 DEF BeginVoiceSpeculation
  <2>3. /\ producer'[p] = label /\ state'[p] = "pending" /\ speculations'[IdOf[p]] = p
        /\ \A q \in Producers \ {p} : producer'[q] = producer[q] /\ state'[q] = state[q]
        /\ \A i \in Ids \ {IdOf[p]} : speculations'[i] = speculations[i]
    BY <1>t, <2>1, <2>2 DEF TypeOK
  <2>4. TypeOK'
    BY <1>t, <2>1, <2>2 DEF TypeOK, ProducerLabels, lifecycle
  <2>5. ProducersOK'
    BY <1>t, <2>2, <2>3 DEF VoiceInv, ProducersOK
  <2>6. RecordingsOK' /\ RecordingStep
    BY <1>t, <2>2, <2>3 DEF VoiceInv, RecordingsOK, RecordingStep
  <2>7. HeldOK'
    BY <1>t, <1>f, <2>2, <2>3 DEF VoiceInv, HeldOK, TypeOK
  <2>8. AnswersOK'
    BY <1>t, <1>f, <2>2, <2>3 DEF VoiceInv, AnswersOK, TypeOK
  <2>9. ASSUME \A q \in Producers : IdOf[q] = IdOf[p] => q = p PROVE Kept /\ Reachable(p)'
    BY <1>t, <2>2, <2>3, <2>9 DEF Kept, Reachable, Removing
  <2>10. QED BY <2>4, <2>5, <2>6, <2>7, <2>8, <2>9 DEF StepOK, VoiceInv
<1>3. QED BY <1>1, <1>2

\* finish_voice_speculation removes whatever is under the identity.
LEMMA VoiceFinish ==
  ASSUME VoiceInv, NEW p \in Producers, FinishVoiceSpeculation(p)
  PROVE  /\ StepOK
         /\ (\A q \in Producers : IdOf[q] = IdOf[p] => q = p) => Kept
<1> USE IdsAssumption, NothingAssumption
<1>t. TypeOK /\ IdOf[p] \in Ids /\ producer[p] = "finish_map" /\ state[p] # "pending" /\ import[p] # "waiting"
  BY DEF VoiceInv, ProducersOK, FinishVoiceSpeculation
<1>1. /\ producer'[p] = "finish_early" /\ \A q \in Producers \ {p} : producer'[q] = producer[q]
      /\ speculations'[IdOf[p]] = Nothing /\ \A i \in Ids \ {IdOf[p]} : speculations'[i] = speculations[i]
      /\ UNCHANGED <<early_aborts, sessions, state, recording, asleep, import, taken, command, lifecycle>>
  BY <1>t DEF TypeOK, FinishVoiceSpeculation, controls
<1>2. TypeOK'
  BY <1>t, <1>1 DEF TypeOK, ProducerLabels, lifecycle, FinishVoiceSpeculation
<1>3. ProducersOK'
  BY <1>t, <1>1 DEF VoiceInv, ProducersOK
<1>4. RecordingsOK' /\ RecordingStep
  BY <1>1 DEF VoiceInv, RecordingsOK, RecordingStep
<1>5. HeldOK' /\ AnswersOK'
  BY <1>1 DEF VoiceInv, HeldOK, AnswersOK
<1>6. ASSUME \A q \in Producers : IdOf[q] = IdOf[p] => q = p PROVE Kept
  BY <1>t, <1>1, <1>6 DEF Kept, Reachable, Removing
<1>7. QED BY <1>2, <1>3, <1>4, <1>5, <1>6 DEF StepOK, VoiceInv

\* The import thread.
LEMMA VoiceImport ==
  ASSUME VoiceInv, NEW p \in Producers, ImportStep(p) \/ SpuriousWake(p)
  PROVE  StepOK /\ Kept
<1> USE NothingAssumption
<1>u. /\ asleep' \subseteq Producers
      /\ UNCHANGED <<speculations, early_aborts, sessions, state, producer, command, lifecycle>>
  BY DEF ImportStep, WaitForConfirmation, ImportVoiceMessage, SpuriousWake, registry, controls, VoiceInv, TypeOK
<1>1. CASE UNCHANGED <<recording, import, taken>>
  BY <1>u, <1>1 DEF StepOK, Kept, Reachable, Removing, VoiceInv, TypeOK, ProducersOK, RecordingsOK,
                    RecordingStep, HeldOK, AnswersOK, lifecycle
<1>2. ASSUME NEW k \in ImportLabels, import' = [import EXCEPT ![p] = k],
             \/ /\ import[p] = "waiting" /\ state[p] = "confirmed" /\ k = "importing"
                /\ taken' = [taken EXCEPT ![p] = recording[p]]
                /\ recording' = [recording EXCEPT ![p] = Nothing]
             \/ /\ import[p] = "waiting" /\ state[p] = "aborted" /\ k = "error"
                /\ UNCHANGED <<recording, taken>>
             \/ import[p] = "importing" /\ k \in {"imported", "error"} /\ UNCHANGED <<recording, taken>>
      PROVE  StepOK /\ Kept
  <2>1. import'[p] = k /\ \A q \in Producers \ {p} : import'[q] = import[q]
    BY <1>2 DEF VoiceInv, TypeOK
  <2>2. \A q \in Producers \ {p} : recording'[q] = recording[q] /\ taken'[q] = taken[q]
    BY <1>2 DEF VoiceInv, TypeOK
  <2>3. TypeOK'
    BY <1>u, <1>2 DEF VoiceInv, TypeOK, lifecycle
  <2>4. ProducersOK'
    BY <1>u, <1>2, <2>1 DEF VoiceInv, ProducersOK
  <2>5. RecordingsOK' /\ RecordingStep
    BY <1>u, <1>2, <2>1, <2>2 DEF VoiceInv, TypeOK, RecordingsOK, RecordingStep
  <2>6. HeldOK' /\ AnswersOK' /\ Kept
    BY <1>u DEF VoiceInv, HeldOK, AnswersOK, Kept, Reachable, Removing
  <2>7. QED BY <2>3, <2>4, <2>5, <2>6 DEF StepOK, VoiceInv
<1>3. CASE ImportVoiceMessage(p)
  BY <1>2, <1>3 DEF ImportVoiceMessage, controls, ImportLabels
<1>4. CASE WaitForConfirmation(p)
  <2>1. CASE state[p] = "pending"
    BY <1>1, <1>4, <2>1 DEF WaitForConfirmation
  <2>2. CASE state[p] = "confirmed"
    <3>1. recording[p] # Nothing
      BY <1>4, <2>2 DEF WaitForConfirmation, VoiceInv, RecordingsOK
    <3>2. QED BY <1>2, <1>4, <2>2, <3>1 DEF WaitForConfirmation, ImportLabels
  <2>3. CASE state[p] = "aborted"
    BY <1>2, <1>4, <2>3 DEF WaitForConfirmation, ImportLabels
  <2>4. QED BY <1>4, <2>1, <2>2, <2>3 DEF WaitForConfirmation
<1>5. QED BY <1>1, <1>3, <1>4 DEF ImportStep, SpuriousWake

-----------------------------------------------------------------------------
(* The other commands.                                                     *)

CommandFrames == [pc : CommandLabels, id : Ids \cup {Nothing},
                  control : Producers \cup {Nothing}, answer : BOOLEAN]

\* A command gets a new frame and leaves the controls alone: what the frame
\* must satisfy.
LEMMA CommandMoves ==
  ASSUME VoiceInv, NEW t \in Commands, NEW g \in CommandFrames,
         command' = [command EXCEPT ![t] = g],
         speculations' \in [Ids -> Producers \cup {Nothing}],
         \A i \in Ids : speculations'[i] \in {speculations[i], Nothing},
         early_aborts' \subseteq Ids,
         g.control # Nothing => state[g.control] # "none",
         g.pc \in {"decide", "forget"} => g.control # Nothing,
         g.pc = "remember" => g.control = Nothing,
         g.pc # "idle" => g.id \in Ids,
         g.pc \in {"idle", "look_up"} => ~g.answer,
         g.answer /\ g.control # Nothing => state[g.control] = Decision(t),
         UNCHANGED <<sessions, controls, producer, import, taken, lifecycle>>
  PROVE  StepOK
<1>1. command'[t] = g /\ \A u \in Commands \ {t} : command'[u] = command[u]
  BY DEF VoiceInv, TypeOK
<1>2. TypeOK'
  BY DEF VoiceInv, TypeOK, controls, lifecycle, CommandFrames
<1>3. ProducersOK' /\ RecordingsOK' /\ RecordingStep
  BY DEF VoiceInv, ProducersOK, RecordingsOK, RecordingStep, controls
<1>4. HeldOK'
  BY <1>1 DEF VoiceInv, HeldOK, controls
<1>5. AnswersOK'
  BY <1>1 DEF VoiceInv, AnswersOK, controls, Decision
<1>6. QED BY <1>2, <1>3, <1>4, <1>5 DEF StepOK, VoiceInv

\* Admission, the look-up, and the two sections about early aborts.
LEMMA VoiceCommand ==
  ASSUME VoiceInv, NEW t \in Commands,
         \/ \E id \in Ids : AdmitCommand(t, id)
         \/ LookUp(t) \/ ForgetEarlyAbort(t) \/ RememberEarlyAbort(t)
  PROVE  StepOK /\ Kept
<1> USE IdsAssumption, NothingAssumption, CommandsAssumption
<1> DEFINE f == command[t]
<1>f. /\ f \in CommandFrames /\ command \in [Commands -> CommandFrames] /\ TypeOK
      /\ f.control # Nothing => state[f.control] # "none"
      /\ f.pc \in {"decide", "forget"} => f.control # Nothing
      /\ f.pc = "remember" => f.control = Nothing
      /\ f.pc # "idle" => f.id \in Ids
      /\ f.pc \in {"idle", "look_up"} => ~f.answer
      /\ f.answer /\ f.control # Nothing => state[f.control] = Decision(t)
  BY DEF VoiceInv, TypeOK, HeldOK, AnswersOK, CommandFrames
<1>1. ASSUME NEW id \in Ids, AdmitCommand(t, id) PROVE StepOK /\ Kept
  <2> DEFINE g == [f EXCEPT !.pc = "look_up", !.id = id]
  <2>1. /\ g \in CommandFrames /\ g.pc = "look_up" /\ g.id = id /\ g.control = f.control
        /\ g.answer = f.answer
    BY <1>f DEF CommandFrames, CommandLabels
  <2>2. command' = [command EXCEPT ![t] = g] /\ f.pc = "idle"
        /\ UNCHANGED <<registry, controls, producer, import, taken, lifecycle>>
    BY <1>1, <1>f DEF AdmitCommand
  <2> HIDE DEF g
  <2>3. StepOK
    BY <1>f, <2>1, <2>2, CommandMoves DEF TypeOK, registry
  <2>4. command'[t] = g /\ \A u \in Commands \ {t} : command'[u] = command[u]
    BY <1>f, <2>2
  <2>5. Kept
    BY <2>2, <2>4 DEF Kept, Reachable, Removing, registry, controls, Commands
  <2>6. QED BY <2>3, <2>5
<1>2. CASE LookUp(t)
  <2>i. PICK id : id = f.id
    OBVIOUS
  <2>p. PICK p : p = speculations[id]
    OBVIOUS
  <2>l. PICK label : label = AfterLookup(t, p)
    OBVIOUS
  <2>1. id \in Ids /\ f.pc = "look_up" /\ p \in Producers \cup {Nothing} /\ ~f.answer
    BY <1>f, <1>2, <2>i, <2>p DEF LookUp, TypeOK
  <2>2. /\ label \in {"remember", "returned", "forget", "decide"}
        /\ label = "remember" => p = Nothing
        /\ label \in {"forget", "decide"} => p # Nothing
        /\ p # Nothing /\ t \in Aborters \cup Handoffs => label = "decide" \/ (t \in Handoffs /\ label = "forget")
    BY <2>l DEF AfterLookup, Commands
  <2> DEFINE g == [f EXCEPT !.control = p, !.pc = label]
  <2>3. /\ g \in CommandFrames /\ g.pc = label /\ g.id = id /\ g.control = p /\ g.answer = f.answer
    BY <1>f, <2>i, <2>1, <2>2 DEF CommandFrames, CommandLabels
  <2>4. command' = [command EXCEPT ![t] = g]
    BY <1>2, <1>f, <2>i, <2>p, <2>l DEF LookUp
  <2>5. /\ t \in Confirmers => speculations' = speculations
        /\ t \notin Confirmers => speculations' = [speculations EXCEPT ![id] = Nothing]
        /\ UNCHANGED <<early_aborts, sessions, controls, producer, import, taken, lifecycle>>
    BY <1>2, <2>i DEF LookUp
  <2> HIDE DEF g
  <2>6. /\ speculations' \in [Ids -> Producers \cup {Nothing}]
        /\ \A i \in Ids : speculations'[i] \in {speculations[i], Nothing}
        /\ \A i \in Ids \ {id} : speculations'[i] = speculations[i]
    BY <1>f, <2>1, <2>5 DEF TypeOK
  <2>7. p # Nothing => state[p] # "none"
    BY <2>1, <2>p DEF VoiceInv, HeldOK
  <2>8. StepOK
    BY <1>f, <2>1, <2>2, <2>3, <2>4, <2>5, <2>6, <2>7, CommandMoves DEF TypeOK
  <2>9. command'[t] = g /\ \A u \in Commands \ {t} : command'[u] = command[u]
    BY <1>f, <2>4
  <2>10. ASSUME NEW q \in Producers, Reachable(q) PROVE Reachable(q)'
    <3> SUFFICES ASSUME state[q] = "pending", producer[q] # "returned"
                 PROVE  speculations'[IdOf[q]] = q \/ \E u \in Aborters \cup Handoffs : Removing(u, q)'
      BY <2>5 DEF Reachable, controls
    <3>1. CASE speculations[IdOf[q]] = q
      <4>1. CASE IdOf[q] # id \/ t \in Confirmers
        BY <2>5, <2>6, <3>1, <4>1
      <4>2. CASE IdOf[q] = id /\ t \notin Confirmers
        BY <2>2, <2>3, <2>9, <2>p, <3>1, <4>2 DEF Removing, Commands
      <4>3. QED BY <4>1, <4>2
    <3>2. CASE \E u \in Aborters \cup Handoffs : Removing(u, q)
      BY <2>1, <2>9, <3>2 DEF Removing, Commands
    <3>3. QED BY <2>10, <3>1, <3>2 DEF Reachable
  <2>11. QED BY <2>8, <2>10 DEF Kept
<1>3. CASE ForgetEarlyAbort(t)
  <2>1. PICK label : label = IF t \in Handoffs THEN "decide" ELSE "returned"
    OBVIOUS
  <2> DEFINE g == [f EXCEPT !.pc = label]
  <2>2. /\ g \in CommandFrames /\ g.pc = label /\ g.id = f.id /\ g.control = f.control
        /\ g.answer = f.answer
    BY <1>f, <2>1 DEF CommandFrames, CommandLabels
  <2>3. /\ command' = [command EXCEPT ![t] = g] /\ f.pc = "forget" /\ early_aborts' \subseteq early_aborts
        /\ UNCHANGED <<speculations, sessions, controls, producer, import, taken, lifecycle>>
    BY <1>3, <1>f, <2>1 DEF ForgetEarlyAbort, CommandGoto
  <2> HIDE DEF g
  <2>4. StepOK
    BY <1>f, <2>1, <2>2, <2>3, CommandMoves DEF TypeOK
  <2>5. command'[t] = g /\ \A u \in Commands \ {t} : command'[u] = command[u]
    BY <1>f, <2>3
  <2>6. Kept
    BY <2>1, <2>2, <2>3, <2>5 DEF Kept, Reachable, Removing, controls, Commands
  <2>7. QED BY <2>4, <2>6
<1>4. CASE RememberEarlyAbort(t)
  <2>1. PICK yes \in BOOLEAN : yes = TRUE
    OBVIOUS
  <2> DEFINE g == [f EXCEPT !.pc = "returned", !.answer = yes]
  <2>2. g \in CommandFrames /\ g.pc = "returned" /\ g.id = f.id /\ g.control = f.control
    BY <1>f DEF CommandFrames, CommandLabels
  <2>3. /\ command' = [command EXCEPT ![t] = g] /\ f.pc = "remember"
        /\ UNCHANGED <<speculations, sessions, controls, producer, import, taken, lifecycle>>
    BY <1>4, <1>f, <2>1 DEF RememberEarlyAbort
  <2>4. early_aborts' \subseteq Ids
    BY <1>4, <1>f DEF RememberEarlyAbort, TypeOK
  <2> HIDE DEF g
  <2>5. StepOK
    BY <1>f, <2>2, <2>3, <2>4, CommandMoves DEF TypeOK
  <2>6. command'[t] = g /\ \A u \in Commands \ {t} : command'[u] = command[u]
    BY <1>f, <2>3
  <2>7. Kept
    BY <2>3, <2>6 DEF Kept, Reachable, Removing, controls, Commands
  <2>8. QED BY <2>5, <2>7
<1>5. QED BY <1>1, <1>2, <1>3, <1>4

\* The decision.
LEMMA VoiceDecide ==
  ASSUME VoiceInv, NEW t \in Commands, Decide(t)
  PROVE  StepOK /\ Kept
<1> USE IdsAssumption, NothingAssumption, CommandsAssumption
<1> DEFINE f == command[t]
<1>d. PICK d : d = Decision(t)
  OBVIOUS
<1>p. PICK p : p = f.control
  OBVIOUS
<1>f. /\ f \in CommandFrames /\ command \in [Commands -> CommandFrames] /\ TypeOK
      /\ f.pc = "decide" /\ p \in Producers /\ f.id \in Ids /\ state[p] # "none"
  BY <1>p DEF VoiceInv, TypeOK, HeldOK, CommandFrames, Decide
<1>1. d \in {"confirmed", "aborted"} /\ (d = "confirmed" <=> t \in Confirmers)
  BY <1>d DEF Decision
<1>2. Transition(p, d)
  BY <1>1, <1>p DEF Decide, ConfirmWithRecording
<1>3. /\ state' \in [Producers -> {"none", "pending", "confirmed", "aborted"}]
      /\ asleep' \subseteq Producers
      /\ state'[p] = IF state[p] = "pending" THEN d ELSE state[p]
      /\ \A q \in Producers \ {p} : state'[q] = state[q]
  BY <1>1, <1>2, <1>f, TransitionFacts
<1>4. /\ recording' \in [Producers -> Confirmers \cup {Nothing}]
      /\ \A q \in Producers \ {p} : recording'[q] = recording[q]
      /\ IF d = "confirmed" /\ state[p] = "pending" THEN recording'[p] = t /\ t # Nothing
                                                    ELSE recording'[p] = recording[p]
  BY <1>1, <1>p, <1>f DEF Decide, ConfirmWithRecording, TypeOK
<1>b. Decides(p, d) \in BOOLEAN
  BY DEF Decides
<1>5. PICK yes \in BOOLEAN : yes = Decides(p, d)
  BY <1>b
<1>6. PICK label \in {"forget", "returned"} : label = IF t \in Aborters THEN "forget" ELSE "returned"
  OBVIOUS
<1> DEFINE g == [f EXCEPT !.answer = yes, !.pc = label]
<1>7. /\ g \in CommandFrames /\ g.pc = label /\ g.id = f.id /\ g.control = p /\ g.answer = yes
  BY <1>f, <1>p DEF CommandFrames, CommandLabels
<1>8. /\ command' = [command EXCEPT ![t] = g]
      /\ UNCHANGED <<speculations, early_aborts, sessions, producer, import, taken, lifecycle>>
  BY <1>d, <1>f, <1>p, <1>5, <1>6 DEF Decide, Decision, registry
<1> HIDE DEF g
<1>9. command'[t] = g /\ \A u \in Commands \ {t} : command'[u] = command[u]
  BY <1>f, <1>8
<1>10. TypeOK'
  <2>1. command' \in [Commands -> CommandFrames]
    BY <1>f, <1>7, <1>8
  <2>2. QED BY <1>f, <1>3, <1>4, <1>8, <2>1 DEF TypeOK, lifecycle, CommandFrames
<1>11. ProducersOK'
  BY <1>1, <1>3, <1>8, <1>f DEF VoiceInv, ProducersOK
<1>12. RecordingsOK' /\ RecordingStep
  BY <1>1, <1>3, <1>4, <1>8, <1>f DEF VoiceInv, RecordingsOK, RecordingStep
<1>13. HeldOK'
  <2>1. \A q \in Producers : state[q] # "none" => state'[q] # "none"
    BY <1>1, <1>3
  <2>2. QED BY <1>f, <1>6, <1>7, <1>8, <1>9, <2>1 DEF VoiceInv, HeldOK, TypeOK
<1>14. AnswersOK'
  <2>1. ASSUME NEW u \in Commands \ {t}, command[u].answer, command[u].control # Nothing
        PROVE  state'[command[u].control] = Decision(u)
    <3>1. state[command[u].control] = Decision(u) /\ command[u].control \in Producers
      BY <2>1, <1>f DEF VoiceInv, AnswersOK, CommandFrames
    <3>2. QED BY <1>3, <3>1 DEF Decision
  <2>2. yes => state'[p] = d
    BY <1>1, <1>3, <1>5 DEF Decides
  <2>3. QED BY <1>d, <1>7, <1>9, <2>1, <2>2 DEF AnswersOK
<1>15. Kept
  <2>1. ASSUME NEW q \in Producers, Reachable(q) PROVE Reachable(q)'
    <3>1. CASE q = p
      BY <1>1, <1>3, <3>1 DEF Reachable
    <3>2. CASE q # p
      <4>1. \A u \in Commands : Removing(u, q) => u # t
        BY <1>p, <3>2 DEF Removing
      <4>2. QED BY <1>3, <1>8, <1>9, <2>1, <3>2, <4>1 DEF Reachable, Removing, Commands
    <3>3. QED BY <3>1, <3>2
  <2>2. QED BY <2>1 DEF Kept
<1>16. QED BY <1>10, <1>11, <1>12, <1>13, <1>14, <1>15 DEF StepOK, VoiceInv

-----------------------------------------------------------------------------
(* Shutdown, and every step.                                               *)

CloserFrames == [pc : CloserLabels, snapshot : SUBSET Producers]

\* A shutdown caller moves, and may abort a control.
LEMMA CloserMoves ==
  ASSUME VoiceInv, closer' \in [Closers -> CloserFrames], sessions' \subseteq sessions,
         cancelled' \subseteq Producers, admitting' \in BOOLEAN,
         UNCHANGED <<state, asleep>> \/ \E p \in Producers : Transition(p, "aborted"),
         UNCHANGED <<speculations, early_aborts, recording, producer, import, taken, command>>
  PROVE  StepOK /\ Kept
<1>1. /\ state' \in [Producers -> {"none", "pending", "confirmed", "aborted"}]
      /\ asleep' \subseteq Producers
      /\ \A q \in Producers : state'[q] = state[q] \/ (state[q] = "pending" /\ state'[q] = "aborted")
  BY TransitionFacts DEF VoiceInv, TypeOK
<1>2. TypeOK'
  BY <1>1 DEF VoiceInv, TypeOK, CloserFrames
<1>3. ProducersOK' /\ RecordingsOK' /\ RecordingStep
  BY <1>1 DEF VoiceInv, ProducersOK, RecordingsOK, RecordingStep
<1>4. HeldOK' /\ AnswersOK'
  BY <1>1 DEF VoiceInv, TypeOK, HeldOK, AnswersOK, Decision
<1>5. Kept
  BY <1>1 DEF Kept, Reachable, Removing
<1>6. QED BY <1>2, <1>3, <1>4, <1>5 DEF StepOK, VoiceInv

\* The steps of AppRuntimeHandle::shutdown.
LEMMA VoiceCloser ==
  ASSUME VoiceInv, NEW t \in Closers, BeginQuiesce(t) \/ CloserStep(t)
  PROVE  StepOK /\ Kept
<1> DEFINE f == closer[t]
<1>f. /\ f \in CloserFrames /\ closer \in [Closers -> CloserFrames]
      /\ cancelled \subseteq Producers /\ admitting \in BOOLEAN /\ sessions \subseteq Producers
      /\ speculations \in [Ids -> Producers \cup {Nothing}]
  BY DEF VoiceInv, TypeOK, CloserFrames
<1>g. ASSUME NEW label \in CloserLabels, CloserGoto(t, label) PROVE closer' \in [Closers -> CloserFrames]
  BY <1>f, <1>g DEF CloserGoto, CloserFrames
<1>u. /\ early_aborts' = early_aborts /\ speculations' = speculations /\ recording' = recording
      /\ UNCHANGED <<producer, import, taken, command>> /\ sessions' \subseteq sessions
  BY DEF CloserStep, BeginQuiesce, CancelLease, InitOnce, ClearSessions, SnapshotSpeculations,
         AbortSnapshot, WorkDrained, registry, controls
<1>1. CASE BeginQuiesce(t)
  <2>1. closer' \in [Closers -> CloserFrames]
    BY <1>g, <1>1 DEF BeginQuiesce, CloserLabels
  <2>2. QED BY <1>f, <1>u, <1>1, <2>1, CloserMoves DEF BeginQuiesce, controls
<1>2. CASE CancelLease(t)
  <2>1. closer' \in [Closers -> CloserFrames]
    BY <1>f, <1>g, <1>2 DEF CancelLease, CloserLabels
  <2>2. cancelled' \subseteq Producers /\ UNCHANGED <<state, asleep, admitting>>
    BY <1>f, <1>2 DEF CancelLease, controls
  <2>3. QED BY <1>f, <1>u, <2>1, <2>2, CloserMoves
<1>3. CASE InitOnce(t)
  <2>1. closer' \in [Closers -> CloserFrames]
    BY <1>g, <1>3 DEF InitOnce, CloserLabels
  <2>2. QED BY <1>f, <1>u, <1>3, <2>1, CloserMoves DEF InitOnce, controls
<1>4. CASE ClearSessions(t)
  <2>1. closer' \in [Closers -> CloserFrames]
    BY <1>g, <1>4 DEF ClearSessions, CloserLabels
  <2>2. QED BY <1>f, <1>u, <1>4, <2>1, CloserMoves DEF ClearSessions, controls
<1>5. CASE SnapshotSpeculations(t)
  <2> DEFINE g == [pc |-> "abort", snapshot |-> {speculations[i] : i \in Ids} \ {Nothing}]
  <2>1. g \in CloserFrames
    BY <1>f DEF CloserFrames, CloserLabels
  <2>2. closer' = [closer EXCEPT ![t] = g]
    BY <1>5 DEF SnapshotSpeculations
  <2> HIDE DEF g
  <2>3. closer' \in [Closers -> CloserFrames]
    BY <1>f, <2>1, <2>2
  <2>4. QED BY <1>f, <1>u, <1>5, <2>3, CloserMoves DEF SnapshotSpeculations, controls
<1>6. CASE AbortSnapshot(t)
  <2>1. UNCHANGED <<cancelled, admitting>>
    BY <1>6 DEF AbortSnapshot
  <2>2. ASSUME NEW p \in f.snapshot, Transition(p, "aborted"),
               closer' = [closer EXCEPT ![t].snapshot = @ \ {p}]
        PROVE  StepOK /\ Kept
    <3>1. p \in Producers /\ closer' \in [Closers -> CloserFrames]
      BY <1>f, <2>2 DEF CloserFrames
    <3>2. QED BY <1>f, <1>u, <2>1, <2>2, <3>1, CloserMoves
  <2>3. CASE CloserGoto(t, "drain") /\ UNCHANGED <<state, asleep>>
    <3>1. closer' \in [Closers -> CloserFrames]
      BY <1>g, <2>3 DEF CloserLabels
    <3>2. QED BY <1>f, <1>u, <2>1, <2>3, <3>1, CloserMoves
  <2>4. QED BY <1>6, <2>2, <2>3 DEF AbortSnapshot
<1>7. CASE WorkDrained(t)
  <2>1. closer' \in [Closers -> CloserFrames]
    BY <1>g, <1>7 DEF WorkDrained, CloserLabels
  <2>2. QED BY <1>f, <1>u, <1>7, <2>1, CloserMoves DEF WorkDrained, controls
<1>8. QED BY <1>1, <1>2, <1>3, <1>4, <1>5, <1>6, <1>7 DEF CloserStep

\* Every identity names one speculation.
IdentitiesUnique == \A p, q \in Producers : IdOf[p] = IdOf[q] => p = q

\* The inductive step.  Only the last conjunct needs unique identities.
LEMMA VoiceNext ==
  ASSUME VoiceInv, [Next]_vars
  PROVE  StepOK /\ (IdentitiesUnique /\ ReachOK => ReachOK')
<1>k. Kept /\ ReachOK => ReachOK'
  BY DEF Kept, ReachOK, Reachable
<1>1. ASSUME NEW p \in Producers, AdmitSpeculate(p) \/ ProducerStep(p) \/ ImportStep(p) \/ SpuriousWake(p)
      PROVE  StepOK /\ (IdentitiesUnique /\ ReachOK => ReachOK')
  <2>1. CASE BeginVoiceSpeculation(p)
    BY <1>k, <2>1, VoiceBegin DEF IdentitiesUnique
  <2>2. CASE FinishVoiceSpeculation(p)
    BY <1>k, <2>2, VoiceFinish DEF IdentitiesUnique
  <2>3. CASE ImportStep(p) \/ SpuriousWake(p)
    BY <1>k, <2>3, VoiceImport
  <2>4. CASE \/ AdmitSpeculate(p) \/ PreparedTurn(p) \/ PrepareCapture(p) \/ SpawnWorker(p)
             \/ WorkerStarts(p) \/ TakeSession(p) \/ Decode(p) \/ Precommit(p)
             \/ AbortUnconfirmed(p) \/ JoinImport(p) \/ FinishEarlyAbort(p)
    BY <1>k, <2>4, VoiceProducer
  <2>5. QED BY <1>1, <2>1, <2>2, <2>3, <2>4 DEF ProducerStep
<1>2. ASSUME NEW t \in Commands, CommandStep(t) \/ \E id \in Ids : AdmitCommand(t, id)
      PROVE  StepOK /\ (IdentitiesUnique /\ ReachOK => ReachOK')
  BY <1>k, <1>2, VoiceCommand, VoiceDecide DEF CommandStep
<1>3. ASSUME NEW t \in Closers, BeginQuiesce(t) \/ CloserStep(t)
      PROVE  StepOK /\ (IdentitiesUnique /\ ReachOK => ReachOK')
  BY <1>k, <1>3, VoiceCloser
<1>4. CASE UNCHANGED vars
  <2>1. UNCHANGED <<speculations, early_aborts, sessions, state, recording, asleep, producer, import,
                    taken, command, admitting, cancelled, closer>>
    BY <1>4 DEF vars, registry, controls, lifecycle
  <2>2. TypeOK' /\ ProducersOK' /\ RecordingsOK' /\ HeldOK' /\ AnswersOK'
    BY <2>1 DEF VoiceInv, TypeOK, ProducersOK, RecordingsOK, HeldOK, AnswersOK
  <2>3. RecordingStep /\ Kept
    BY <2>1 DEF RecordingStep, Kept, Reachable, Removing
  <2>4. QED BY <1>k, <2>2, <2>3 DEF StepOK, VoiceInv
<1>5. QED BY <1>1, <1>2, <1>3, <1>4 DEF Next

\* The part of the invariant that holds whatever identities are used.
LEMMA VoiceHolds == Spec => []VoiceInv
<1>1. VoiceInv /\ [Next]_vars => VoiceInv'
  BY VoiceNext DEF StepOK
<1>2. QED BY <1>1, VoiceInit, PTL DEF Spec

(***************************************************************************)
(* The confirm, abort and handoff commands of any number of renderers      *)
(* agree on the decision of a control, and a turn that was told to be      *)
(* aborted never reaches the import, also when identities are repeated.    *)
(***************************************************************************)
THEOREM DecisionsAgree == Spec => [](TypeOK /\ DecisionAgrees)
<1>1. VoiceInv => TypeOK /\ DecisionAgrees
  <2> SUFFICES ASSUME VoiceInv PROVE DecisionAgrees
    BY DEF VoiceInv
  <2>1. ASSUME NEW p \in Producers, NEW t \in Aborters \cup Handoffs, Answered(t, p)
        PROVE  taken[p] = Nothing /\ \A c \in Confirmers : ~Answered(c, p)
    <3>1. state[p] = "aborted"
      BY <2>1, NothingAssumption, CommandsAssumption DEF Answered, Commands, VoiceInv, AnswersOK, Decision
    <3>2. taken[p] = Nothing
      BY <3>1 DEF VoiceInv, RecordingsOK
    <3>3. \A c \in Confirmers : ~Answered(c, p)
      BY <3>1, NothingAssumption DEF Answered, Commands, VoiceInv, AnswersOK, Decision
    <3>4. QED BY <3>2, <3>3
  <2>2. QED BY <2>1 DEF DecisionAgrees
<1>2. QED BY <1>1, VoiceHolds, PTL

(***************************************************************************)
(* When no identity is used twice, a pending control that an import thread *)
(* waits on is registered, or a command that removed it is about to abort  *)
(* it; with the theorem above, the whole invariant of the commands.        *)
(***************************************************************************)
THEOREM SpeculationSound == ASSUME IdentitiesUnique PROVE Spec => []SpeculationInv
<1>1. Init => ReachOK
  BY VoiceInit
<1>2. VoiceInv /\ ReachOK /\ [Next]_vars => ReachOK'
  BY VoiceNext
<1>3. VoiceInv /\ ReachOK => PendingReachable
  <2> SUFFICES ASSUME VoiceInv, ReachOK PROVE PendingReachable
    OBVIOUS
  <2>1. ASSUME NEW p \in Producers, state[p] = "pending", import[p] = "waiting"
        PROVE  speculations[IdOf[p]] = p \/ \E t \in Aborters \cup Handoffs : Removing(t, p)
    BY <2>1 DEF VoiceInv, ProducersOK, ReachOK
  <2>2. QED BY <2>1 DEF PendingReachable, Removing
<1>4. QED BY <1>1, <1>2, <1>3, VoiceHolds, DecisionsAgree, PTL DEF Spec, SpeculationInv

(***************************************************************************)
(* wait_for_confirmation never finds a confirmed turn without a recording, *)
(* and imports the recording of the first confirmation that was accepted.  *)
(***************************************************************************)
THEOREM FirstRecordingAlwaysStands == Spec => FirstRecordingStands
<1>1. VoiceInv /\ [Next]_vars =>
        [\A p \in Producers :
           /\ recording[p] # Nothing => recording'[p] \in {recording[p], Nothing}
           /\ (recording[p] # Nothing /\ recording'[p] = Nothing) => taken'[p] = recording[p]
           /\ (state[p] = "confirmed" /\ import[p] = "waiting" /\ import'[p] # "waiting")
                 => import'[p] = "importing"]_vars
  BY VoiceNext DEF StepOK, RecordingStep
<1>2. QED BY <1>1, VoiceHolds, PTL DEF Spec, FirstRecordingStands
=============================================================================
