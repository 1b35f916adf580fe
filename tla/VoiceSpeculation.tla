-------------------------- MODULE VoiceSpeculation --------------------------
(***************************************************************************)
(* Speculative voice turns of the Mom application: the registry in         *)
(* app_runtime.rs and the commands in commands.rs that use it.             *)
(*                                                                         *)
(* A speculate command generates a reply while the recording it answers is *)
(* not confirmed yet; an import thread waits for the confirmation and the  *)
(* reply is committed only after that thread is joined.  Confirmation,     *)
(* abort, handoff and application shutdown race the command.  One step is  *)
(* one critical section, wait or join.  A control is identified with the   *)
(* speculate command that created it.  The renderer generates the          *)
(* identity of every speculation, so IdOf is injective unless it repeats   *)
(* one.                                                                    *)
(***************************************************************************)
EXTENDS Naturals, FiniteSets

CONSTANTS
    Producers,   \* mom_llama_voice_audio_speculate commands
    Ids,         \* speculation identities
    IdOf,        \* the identity each speculate command is called with
    Confirmers,  \* mom_llama_voice_audio_speculation_confirm commands
    Aborters,    \* mom_llama_voice_audio_speculation_abort commands
    Handoffs,    \* mom_llama_voice_audio_speculation_abort_and_retarget commands
    Closers,     \* callers of AppRuntimeHandle::shutdown
    Nothing      \* no control, no recording

ASSUME IdsAssumption == IdOf \in [Producers -> Ids]
ASSUME NothingAssumption == Nothing \notin Producers \cup Confirmers \cup Ids
ASSUME CommandsAssumption ==
    /\ Confirmers \cap (Aborters \cup Handoffs) = {}
    /\ Aborters \cap Handoffs = {}

VARIABLES
    speculations,   \* voice_speculations, under its mutex
    early_aborts,   \* early_voice_speculation_aborts, under its mutex
    sessions,       \* voice_audio_sessions: the commands whose session is there
    state,          \* VoiceSpeculationControl.state
    recording,      \* VoiceSpeculationControl.recording: the confirmer's
    asleep,         \* import threads blocked in changed.wait
    producer,       \* speculate command -> where it is
    import,         \* its import thread
    taken,          \* its import thread -> the recording it was given
    command,        \* the other commands -> where they are
    admitting,      \* AppPhase is Running
    cancelled,      \* commands whose supervised lease is cancelled
    closer          \* shutdown callers; at most one runs the OnceCell closure

Commands == Confirmers \cup Aborters \cup Handoffs

registry == <<speculations, early_aborts, sessions>>
controls == <<state, recording, asleep>>
lifecycle == <<admitting, cancelled, closer>>
vars == <<registry, controls, producer, import, taken, command, lifecycle>>

ProducerLabels ==
    {"idle", "session", "begin", "prepare", "spawn", "worker", "take", "decode",
     "precommit", "failed", "join", "finish_map", "finish_early", "returned"}
ImportLabels  == {"unborn", "waiting", "importing", "imported", "error"}
CommandLabels == {"idle", "look_up", "decide", "forget", "remember", "returned"}
CloserLabels  == {"idle", "sweep", "init", "sessions", "snapshot", "abort",
                  "drain", "returned"}

TypeOK ==
    /\ speculations \in [Ids -> Producers \cup {Nothing}]
    /\ early_aborts \subseteq Ids
    /\ sessions \subseteq Producers
    /\ state \in [Producers -> {"none", "pending", "confirmed", "aborted"}]
    /\ recording \in [Producers -> Confirmers \cup {Nothing}]
    /\ asleep \subseteq Producers
    /\ producer \in [Producers -> ProducerLabels]
    /\ import \in [Producers -> ImportLabels]
    /\ taken \in [Producers -> Confirmers \cup {Nothing}]
    /\ command \in [Commands -> [pc : CommandLabels, id : Ids \cup {Nothing},
                                 control : Producers \cup {Nothing}, answer : BOOLEAN]]
    /\ admitting \in BOOLEAN
    /\ cancelled \subseteq Producers
    /\ closer \in [Closers -> [pc : CloserLabels, snapshot : SUBSET Producers]]

Init ==
    /\ speculations = [i \in Ids |-> Nothing]
    /\ early_aborts = {}
    /\ sessions = Producers
    /\ state = [p \in Producers |-> "none"]
    /\ recording = [p \in Producers |-> Nothing]
    /\ asleep = {}
    /\ producer = [p \in Producers |-> "idle"]
    /\ import = [p \in Producers |-> "unborn"]
    /\ taken = [p \in Producers |-> Nothing]
    /\ command = [t \in Commands |-> [pc |-> "idle", id |-> Nothing,
                                      control |-> Nothing, answer |-> FALSE]]
    /\ admitting = TRUE
    /\ cancelled = {}
    /\ closer = [t \in Closers |-> [pc |-> "idle", snapshot |-> {}]]

-----------------------------------------------------------------------------
(* VoiceSpeculationControl.                                                *)

\* Mutant of Transition: the import thread is not notified.
TransitionSilently(p, next) ==
    /\ state' = [state EXCEPT ![p] = IF @ = "pending" THEN next ELSE @]
    /\ UNCHANGED asleep

\* transition, and the state part of confirm_with_recording: the first
\* decision stands, and wakes the import thread.
Transition(p, next) ==
    /\ state' = [state EXCEPT ![p] = IF @ = "pending" THEN next ELSE @]
    /\ asleep' = IF state[p] = "pending" THEN asleep \ {p} ELSE asleep

\* What transition and confirm_with_recording answer.
Decides(p, next) == state[p] \in {"pending", next}

\* Mutant of ConfirmWithRecording: a later confirmation replaces the recording.
ConfirmAgain(c, p) ==
    /\ Transition(p, "confirmed")
    /\ recording' = [recording EXCEPT ![p] = IF state[p] = "aborted" THEN @ ELSE c]

\* confirm_with_recording, for a recording that is complete.
ConfirmWithRecording(c, p) ==
    /\ Transition(p, "confirmed")
    /\ recording' = [recording EXCEPT ![p] = IF state[p] = "pending" THEN c ELSE @]

\* wait_for_confirmation
WaitForConfirmation(p) ==
    /\ import[p] = "waiting"
    /\ p \notin asleep
    /\ \/ /\ state[p] = "pending"
          /\ asleep' = asleep \cup {p}
          /\ UNCHANGED <<recording, import, taken>>
       \/ /\ state[p] = "confirmed"
          /\ taken' = [taken EXCEPT ![p] = recording[p]]
          /\ recording' = [recording EXCEPT ![p] = Nothing]
          /\ import' = [import EXCEPT ![p] =
                          IF recording[p] = Nothing THEN "error" ELSE "importing"]
          /\ UNCHANGED asleep
       \/ /\ state[p] = "aborted"
          /\ import' = [import EXCEPT ![p] = "error"]
          /\ UNCHANGED <<recording, asleep, taken>>
    /\ UNCHANGED <<registry, state, producer, command, lifecycle>>

\* Condvar::wait may return without a notification.
SpuriousWake(p) ==
    /\ p \in asleep
    /\ asleep' = asleep \ {p}
    /\ UNCHANGED <<registry, state, recording, producer, import, taken, command, lifecycle>>

\* import_voice_message_with_inference, which may fail.
ImportVoiceMessage(p) ==
    /\ import[p] = "importing"
    /\ \E outcome \in {"imported", "error"} : import' = [import EXCEPT ![p] = outcome]
    /\ UNCHANGED <<registry, controls, producer, taken, command, lifecycle>>

-----------------------------------------------------------------------------
(* The registry.                                                           *)

\* begin_voice_speculation_with_prepared holds both mutexes.  A duplicate
\* identity is refused after it has replaced the control.
BeginVoiceSpeculation(p) ==
    LET id == IdOf[p] IN
    /\ producer[p] = "begin"
    /\ \/ /\ id \in early_aborts
          /\ early_aborts' = early_aborts \ {id}
          /\ producer' = [producer EXCEPT ![p] = "returned"]
          /\ UNCHANGED <<speculations, state>>
       \/ /\ id \notin early_aborts
          /\ speculations' = [speculations EXCEPT ![id] = p]
          /\ state' = [state EXCEPT ![p] = "pending"]
          /\ producer' = [producer EXCEPT ![p] =
                            IF speculations[id] = Nothing THEN "prepare" ELSE "returned"]
          /\ UNCHANGED early_aborts
    /\ UNCHANGED <<sessions, recording, asleep, import, taken, command, lifecycle>>

\* finish_voice_speculation: two sections.
FinishVoiceSpeculation(p) ==
    /\ producer[p] = "finish_map"
    /\ speculations' = [speculations EXCEPT ![IdOf[p]] = Nothing]
    /\ producer' = [producer EXCEPT ![p] = "finish_early"]
    /\ UNCHANGED <<early_aborts, sessions, controls, import, taken, command, lifecycle>>

FinishEarlyAbort(p) ==
    /\ producer[p] = "finish_early"
    /\ early_aborts' = early_aborts \ {IdOf[p]}
    /\ producer' = [producer EXCEPT ![p] = "returned"]
    /\ UNCHANGED <<speculations, sessions, controls, import, taken, command, lifecycle>>

-----------------------------------------------------------------------------
(* mom_llama_voice_audio_speculate.                                        *)

ProducerGoto(p, label) == producer' = [producer EXCEPT ![p] = label]

AdmitSpeculate(p) ==
    /\ producer[p] = "idle"
    /\ admitting
    /\ ProducerGoto(p, "session")
    /\ UNCHANGED <<registry, controls, import, taken, command, lifecycle>>

\* The preparation comes from the live voice session, which may be gone.
PreparedTurn(p) ==
    /\ producer[p] = "session"
    /\ ProducerGoto(p, IF p \in sessions THEN "begin" ELSE "returned")
    /\ UNCHANGED <<registry, controls, import, taken, command, lifecycle>>

\* Arm or detach the capture.  No capture is an early return that leaves the
\* control registered; a capture that refuses aborts and finishes.
PrepareCapture(p) ==
    /\ producer[p] = "prepare"
    /\ \/ ProducerGoto(p, "spawn") /\ UNCHANGED <<state, asleep>>
       \/ ProducerGoto(p, "returned") /\ UNCHANGED <<state, asleep>>
       \/ ProducerGoto(p, "finish_map") /\ Transition(p, "aborted")
    /\ UNCHANGED <<registry, recording, import, taken, command, lifecycle>>

\* run_blocking_with_cancellation_evidence: the supervisor accepts the worker
\* (or cannot launch it), and the worker first looks at its cancellation.
SpawnWorker(p) ==
    /\ producer[p] = "spawn"
    /\ \E label \in {"worker", "returned"} : ProducerGoto(p, label)
    /\ UNCHANGED <<registry, controls, import, taken, command, lifecycle>>

WorkerStarts(p) ==
    /\ producer[p] = "worker"
    /\ ProducerGoto(p, IF p \in cancelled THEN "returned" ELSE "take")
    /\ UNCHANGED <<registry, controls, import, taken, command, lifecycle>>

\* The silence gate may fail, which returns at once; without a session, or an
\* import thread, the control is aborted and the speculation finished.
TakeSession(p) ==
    /\ producer[p] = "take"
    /\ \/ /\ ProducerGoto(p, "returned")
          /\ UNCHANGED <<sessions, state, asleep, import>>
       \/ /\ sessions' = sessions \ {p}
          /\ ProducerGoto(p, "finish_map")
          /\ Transition(p, "aborted")
          /\ UNCHANGED import
       \/ /\ p \in sessions
          /\ sessions' = sessions \ {p}
          /\ import' = [import EXCEPT ![p] = "waiting"]
          /\ ProducerGoto(p, "decode")
          /\ UNCHANGED <<state, asleep>>
    /\ UNCHANGED <<speculations, early_aborts, recording, taken, command, lifecycle>>

\* voice_audio_finish_with_precommit_in_scope: a failed, cancelled or blocked
\* decode ends before the pre-commit join.
Decode(p) ==
    /\ producer[p] = "decode"
    /\ \E label \in {"precommit", "failed"} : ProducerGoto(p, label)
    /\ UNCHANGED <<registry, controls, import, taken, command, lifecycle>>

\* The pre-commit join, and the commit of the exchange, which may fail.
Precommit(p) ==
    /\ producer[p] = "precommit"
    /\ \/ /\ import[p] = "imported"
          /\ \E label \in {"finish_map", "failed"} : ProducerGoto(p, label)
       \/ /\ import[p] = "error"
          /\ ProducerGoto(p, "failed")
    /\ UNCHANGED <<registry, controls, import, taken, command, lifecycle>>

\* Mutant of AbortUnconfirmed: the import is joined as it is.
JoinUnconfirmed(p) ==
    /\ producer[p] = "failed"
    /\ ProducerGoto(p, "join")
    /\ UNCHANGED <<registry, controls, import, taken, command, lifecycle>>

\* abort_unconfirmed_voice_import_if_needed
AbortUnconfirmed(p) ==
    /\ producer[p] = "failed"
    /\ Transition(p, "aborted")
    /\ ProducerGoto(p, "join")
    /\ UNCHANGED <<registry, recording, import, taken, command, lifecycle>>

\* The worker joins the import thread.  A speculation that failed stays
\* registered; one that was only blocked is a result, and is finished.
JoinImport(p) ==
    /\ producer[p] = "join"
    /\ import[p] \in {"imported", "error"}
    /\ \E label \in {"returned", "finish_map"} : ProducerGoto(p, label)
    /\ UNCHANGED <<registry, controls, import, taken, command, lifecycle>>

-----------------------------------------------------------------------------
(* The other commands on a speculation.                                    *)

CommandGoto(t, label) == command' = [command EXCEPT ![t].pc = label]

AdmitCommand(t, id) ==
    /\ command[t].pc = "idle"
    /\ admitting
    /\ command' = [command EXCEPT ![t].pc = "look_up", ![t].id = id]
    /\ UNCHANGED <<registry, controls, producer, import, taken, lifecycle>>

\* Mutant of AfterLookup: a handoff returns with the control it removed.
AfterLookupDropped(t, control) ==
    CASE control = Nothing /\ t \in Aborters -> "remember"
      [] control = Nothing /\ t \notin Aborters -> "returned"
      [] control # Nothing /\ t \in Handoffs -> "returned"
      [] OTHER -> "decide"

\* Where a command goes from there.  Only abort goes on without a control,
\* and handoff drops the tombstone before it decides.
AfterLookup(t, control) ==
    CASE control = Nothing /\ t \in Aborters -> "remember"
      [] control = Nothing /\ t \notin Aborters -> "returned"
      [] control # Nothing /\ t \in Handoffs -> "forget"
      [] OTHER -> "decide"

\* The first section: confirm looks the control up, abort and handoff remove it.
LookUp(t) ==
    LET control == speculations[command[t].id] IN
    /\ command[t].pc = "look_up"
    /\ speculations' = IF t \in Confirmers THEN speculations
                       ELSE [speculations EXCEPT ![command[t].id] = Nothing]
    /\ command' = [command EXCEPT ![t].control = control, ![t].pc = AfterLookup(t, control)]
    /\ UNCHANGED <<early_aborts, sessions, controls, producer, import, taken, lifecycle>>

\* The control's own section.
Decide(t) ==
    LET p == command[t].control
        decision == IF t \in Confirmers THEN "confirmed" ELSE "aborted"
    IN
    /\ command[t].pc = "decide"
    /\ IF t \in Confirmers THEN ConfirmWithRecording(t, p)
       ELSE Transition(p, "aborted") /\ UNCHANGED recording
    /\ command' = [command EXCEPT ![t].answer = Decides(p, decision),
                     ![t].pc = IF t \in Aborters THEN "forget" ELSE "returned"]
    /\ UNCHANGED <<registry, producer, import, taken, lifecycle>>

ForgetEarlyAbort(t) ==
    /\ command[t].pc = "forget"
    /\ early_aborts' = early_aborts \ {command[t].id}
    /\ CommandGoto(t, IF t \in Handoffs THEN "decide" ELSE "returned")
    /\ UNCHANGED <<speculations, sessions, controls, producer, import, taken, lifecycle>>

\* abort_and_remove_voice_speculation without a control: a section of its own.
RememberEarlyAbort(t) ==
    /\ command[t].pc = "remember"
    /\ early_aborts' = early_aborts \cup {command[t].id}
    /\ command' = [command EXCEPT ![t].pc = "returned", ![t].answer = TRUE]
    /\ UNCHANGED <<speculations, sessions, controls, producer, import, taken, lifecycle>>

-----------------------------------------------------------------------------
(* AppRuntimeHandle::shutdown.                                             *)

CloserGoto(t, label) == closer' = [closer EXCEPT ![t].pc = label]

\* Only the caller that closes admission cancels the supervised leases.
BeginQuiesce(t) ==
    /\ closer[t].pc = "idle"
    /\ admitting' = FALSE
    /\ CloserGoto(t, IF admitting THEN "sweep" ELSE "init")
    /\ UNCHANGED <<registry, controls, producer, import, taken, command, cancelled>>

CancelLease(t) ==
    /\ closer[t].pc = "sweep"
    /\ \/ /\ \E p \in Producers \ cancelled : cancelled' = cancelled \cup {p}
          /\ UNCHANGED closer
       \/ /\ cancelled = Producers
          /\ CloserGoto(t, "init")
          /\ UNCHANGED cancelled
    /\ UNCHANGED <<registry, controls, producer, import, taken, command, admitting>>

Closing == {"sessions", "snapshot", "abort", "drain"}

\* The OnceCell: one caller runs the closure, the others wait for its result.
InitOnce(t) ==
    /\ closer[t].pc = "init"
    /\ \A u \in Closers : closer[u].pc \notin Closing
    /\ CloserGoto(t, IF \E u \in Closers : closer[u].pc = "returned"
                       THEN "returned" ELSE "sessions")
    /\ UNCHANGED <<registry, controls, producer, import, taken, command, admitting, cancelled>>

ClearSessions(t) ==
    /\ closer[t].pc = "sessions"
    /\ sessions' = {}
    /\ CloserGoto(t, "snapshot")
    /\ UNCHANGED <<speculations, early_aborts, controls, producer, import, taken,
                   command, admitting, cancelled>>

SnapshotSpeculations(t) ==
    /\ closer[t].pc = "snapshot"
    /\ closer' = [closer EXCEPT ![t] =
          [pc |-> "abort", snapshot |-> {speculations[i] : i \in Ids} \ {Nothing}]]
    /\ UNCHANGED <<registry, controls, producer, import, taken, command, admitting, cancelled>>

AbortSnapshot(t) ==
    /\ closer[t].pc = "abort"
    /\ \/ \E p \in closer[t].snapshot :
             /\ Transition(p, "aborted")
             /\ closer' = [closer EXCEPT ![t].snapshot = @ \ {p}]
       \/ /\ closer[t].snapshot = {}
          /\ CloserGoto(t, "drain")
          /\ UNCHANGED <<state, asleep>>
    /\ UNCHANGED <<registry, recording, producer, import, taken, command, admitting, cancelled>>

\* The worker drops the command's lease when it ends, before the command
\* itself finishes the speculation; without a worker the command holds it.
HoldsLease(p) ==
    /\ producer[p] \notin {"idle", "returned"}
    /\ producer[p] \in {"finish_map", "finish_early"} => import[p] = "unborn"

\* wait_for_work_drained: every admitted command has dropped its lease.
WorkDrained(t) ==
    /\ closer[t].pc = "drain"
    /\ \A p \in Producers : ~HoldsLease(p)
    /\ \A u \in Commands : command[u].pc \in {"idle", "returned"}
    /\ CloserGoto(t, "returned")
    /\ UNCHANGED <<registry, controls, producer, import, taken, command, admitting, cancelled>>

-----------------------------------------------------------------------------

ProducerStep(p) ==
    \/ PreparedTurn(p) \/ BeginVoiceSpeculation(p) \/ PrepareCapture(p) \/ SpawnWorker(p)
    \/ WorkerStarts(p) \/ TakeSession(p) \/ Decode(p) \/ Precommit(p)
    \/ AbortUnconfirmed(p) \/ JoinImport(p)
    \/ FinishVoiceSpeculation(p) \/ FinishEarlyAbort(p)

ImportStep(p) == WaitForConfirmation(p) \/ ImportVoiceMessage(p)

CommandStep(t) ==
    LookUp(t) \/ Decide(t) \/ ForgetEarlyAbort(t) \/ RememberEarlyAbort(t)

CloserStep(t) ==
    \/ CancelLease(t) \/ InitOnce(t) \/ ClearSessions(t)
    \/ SnapshotSpeculations(t) \/ AbortSnapshot(t) \/ WorkDrained(t)

Next ==
    \/ \E p \in Producers :
          AdmitSpeculate(p) \/ ProducerStep(p) \/ ImportStep(p) \/ SpuriousWake(p)
    \/ \E t \in Commands : CommandStep(t) \/ \E id \in Ids : AdmitCommand(t, id)
    \/ \E t \in Closers : BeginQuiesce(t) \/ CloserStep(t)

Spec == Init /\ [][Next]_vars

(***************************************************************************)
(* Threads keep running.  Nothing obliges the renderer to confirm or to    *)
(* abort a speculation, and nothing is assumed of spurious wake-ups.       *)
(***************************************************************************)
Fairness ==
    /\ \A p \in Producers : WF_vars(ProducerStep(p)) /\ WF_vars(ImportStep(p))
    /\ \A t \in Commands : WF_vars(CommandStep(t))
    /\ \A t \in Closers : WF_vars(CloserStep(t))

FairSpec == Spec /\ Fairness

-----------------------------------------------------------------------------

Answered(t, p) == command[t].pc = "returned" /\ command[t].control = p /\ command[t].answer

(***************************************************************************)
(* One decision per control: no command is told that it confirmed a        *)
(* control that another was told is aborted, and the recording of a turn   *)
(* that was told to be aborted never reaches the import.                   *)
(***************************************************************************)
DecisionAgrees ==
    \A p \in Producers, t \in Aborters \cup Handoffs : Answered(t, p) =>
        /\ taken[p] = Nothing
        /\ \A c \in Confirmers : ~Answered(c, p)

(***************************************************************************)
(* wait_for_confirmation's "Confirmed voice turn has no recording" cannot  *)
(* happen, and the import persists the recording of a confirmation that    *)
(* was accepted first: confirmations answered true later do not change it. *)
(***************************************************************************)
FirstRecordingStands ==
    [][\A p \in Producers :
         /\ recording[p] # Nothing => recording'[p] \in {recording[p], Nothing}
         /\ (recording[p] # Nothing /\ recording'[p] = Nothing) => taken'[p] = recording[p]
         /\ (state[p] = "confirmed" /\ import[p] = "waiting" /\ import'[p] # "waiting")
               => import'[p] = "importing"]_vars

(***************************************************************************)
(* A pending control that an import thread waits on can be decided: it is  *)
(* registered under its identity, or a command that removed it is about to *)
(* abort it.  It needs an identity to be used once.                        *)
(***************************************************************************)
PendingReachable ==
    \A p \in Producers : state[p] = "pending" /\ import[p] = "waiting" =>
        \/ speculations[IdOf[p]] = p
        \/ \E t \in Aborters \cup Handoffs :
              command[t].control = p /\ command[t].pc \in {"forget", "decide"}

(***************************************************************************)
(* "Release the conditional import before joining it so no-output results  *)
(* cannot strand this worker" (commands.rs): a worker whose decode ended   *)
(* without a commit returns, whatever the renderer does.                   *)
(***************************************************************************)
FailedReturns ==
    \A p \in Producers : (producer[p] = "failed") ~> (producer[p] = "returned")

(***************************************************************************)
(* Shutdown returns although workers may be blocked in the pre-commit join *)
(* of a turn nobody will confirm: no such worker escapes both the session  *)
(* clearing and the snapshot of the registered controls.                   *)
(***************************************************************************)
ShutdownDrains ==
    \A t \in Closers : (closer[t].pc # "idle") ~> (closer[t].pc = "returned")

(***************************************************************************)
(* What holds between any two steps of the commands: controls and threads  *)
(* are well formed, all commands agree on the decision of a control, and a *)
(* control that is waited for can be decided.                              *)
(***************************************************************************)
SpeculationInv == TypeOK /\ DecisionAgrees /\ PendingReachable
=============================================================================
