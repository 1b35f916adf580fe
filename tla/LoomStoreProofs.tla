--------------------------- MODULE LoomStoreProofs ---------------------------
(***************************************************************************)
(* What the Loom store's outbox promises, for any texts, revisions, faults *)
(* and edits: StoreInv and EditSurvives, from the inductive invariant IInv *)
(* (one named part for the rows, one for the program points of             *)
(* process_outbox_entry and the deletion, one for the links, the deletion, *)
(* the editor's bytes and the projection nobody interferes with).          *)
(***************************************************************************)
EXTENDS LoomStore, TLAPS

\* A revision beyond count has left nothing anywhere; a committed one has its
\* bytes, and a completed row no staging file.
Rows ==
    \A o \in Revisions :
        /\ o > count => row[o] = NoRow /\ previous[o] = Absent
        /\ o <= count => row[o].state # "none" /\ row[o].target \in blobs
        /\ row[o].state = "completed" => previous[o] = Absent

\* What the command under way has established.
Steps ==
    /\ pc \in Projecting \cup Deleting => entry.row \in Revisions /\ entry.row <= count
    /\ pc \in Projecting \ {"look"} => row[entry.row].state = "pending"
    /\ pc \in {"capture", "complete"} => previous[entry.row] = Absent
    /\ pc = "decide" /\ entry.seen = Absent => linked = {}
    /\ pc = "check" => linked = {}
    /\ pc = "install" => previous[entry.row] = row[entry.row].expected /\ entry.row \notin linked
    /\ pc \in {"hash", "commit"} => count < MaxRevisions /\ call.text \in Texts /\ call.kind # "none"
    /\ pc = "hash" => call.kind = "overwrite"
    /\ pc = "commit" => call.text \in blobs

\* A staging file that is linked is the visible file.
Links == \A o \in linked : previous[o] = visible /\ visible # Absent

\* A deletion runs when no row is pending, and none is committed before it is
\* settled; the slot of a tombstone is final.
Removal ==
    /\ deletion.state # "none" => deletion.row \in Revisions /\ deletion.row <= count
    /\ Live \/ Deleted \/ pc \in Deleting => Pending = {}
    /\ pc \in Deleting \cup {"hash", "commit"} => ~Deleted
    /\ pc \in Deleting \ {"prepare"} => Live
    /\ pc = "erase" => slot = Condemned
    /\ Deleted => slot = Condemned
    /\ pc \in Deleting => ~clean

\* The editor's bytes are in sight, or under the staging name of the one row that
\* is pending, and then nobody is about to overwrite or remove them.
Captured ==
    /\ visible = Absent
    /\ \E o \in Pending : previous[o] = edited
    /\ pc \in {"down", "idle", "hash", "commit", "look", "decide", "check", "relink"}
    /\ pc = "decide" => entry.seen = Absent

Edits ==
    ~Overwritten /\ ~stacked =>
        /\ \A o, q \in Pending : o = q
        /\ \A o \in Revisions : o <= count => row[o].expected \in blobs \cup {Absent}
        /\ pc = "commit" /\ call.kind # "overwrite" => call.seen \in blobs \cup {Absent}
        /\ edited \in blobs \cup {Absent, visible, slot} \/ Captured

\* Where an undisturbed projection of the newest row has got to.
Undisturbed ==
    clean =>
        /\ count \in Revisions /\ Pending \subseteq {count}
        /\ pc = "decide" => entry.seen = visible
        /\ pc \in {"verify", "drop", "complete"} => visible = row[count].target
        /\ pc \in {"discard", "capture"} => visible = row[count].expected
        /\ pc = "discard" => previous[count] = row[count].expected
        /\ pc \in {"check", "install"} => visible = Absent /\ previous[count] = row[count].expected
        /\ pc # "relink"
        /\ \/ visible = row[count].target
           \/ /\ row[count].state = "pending"
              /\ \/ visible = row[count].expected /\ previous[count] \in {Absent, row[count].expected}
                 \/ visible = Absent /\ previous[count] = row[count].expected

IInv == TypeOK /\ Rows /\ Steps /\ Links /\ Removal /\ Edits /\ Undisturbed

(***************************************************************************)
(* TypeOK in pieces.                                                       *)
(***************************************************************************)
RowTypes ==
    /\ row \in [Revisions -> [target : Files, expected : Files,
                              state : {"none", "pending", "completed"},
                              kind : Commands \cup {"none"}]]
    /\ count \in 0..MaxRevisions
    /\ blobs \subseteq Texts

FileTypes ==
    /\ visible \in Files /\ previous \in [Revisions -> Files] /\ linked \subseteq Revisions
    /\ slot \in Files

DeletionTypes ==
    deletion \in [state : {"none", "prepared", "captured", "aborted", "committed"},
                  row : 0..MaxRevisions]

ProcessTypes ==
    /\ pc \in Projecting \cup Deleting \cup {"down", "idle", "hash", "commit"}
    /\ call \in [kind : Commands \cup {"none"}, text : Files, seen : Files]
    /\ entry \in [row : 0..MaxRevisions, seen : Files, sweep : BOOLEAN]

BoundTypes == faults \in 0..MaxFaults /\ edits \in 0..MaxEdits /\ edited \in Files

FlagTypes == held \in BOOLEAN /\ clean \in BOOLEAN /\ stacked \in BOOLEAN

\* TypeOK is the conjunction of its pieces: what the store's tables, the
\* files, the deletion intent, the process and the bounds may hold.
LEMMA TypeParts ==
    TypeOK <=> RowTypes /\ FileTypes /\ DeletionTypes /\ ProcessTypes /\ BoundTypes /\ FlagTypes
BY DEF TypeOK, RowTypes, FileTypes, DeletionTypes, ProcessTypes, BoundTypes, FlagTypes

\* What Return does to the program point and the entry.
Returned ==
    /\ pc' \in {"idle", "look"}
    /\ entry' \in [row : 0..MaxRevisions, seen : Files, sweep : BOOLEAN]
    /\ pc' = "look" => entry'.row \in Revisions /\ entry'.row <= count

\* A command that returns leaves the process idle, or, in
\* recover_pending_outbox, looking at another row that has been committed.
LEMMA ReturnPlaces == ASSUME RowTypes, Rows, Return PROVE Returned
<1>1. CASE pc' = "idle" /\ entry' = NoEntry
  BY <1>1, BoundsAssumption DEF Returned, NoEntry, Files, Absent
<1>2. ASSUME NEW o \in Pending, Project(o, TRUE) PROVE Returned
  <2>1. o \in Revisions /\ o <= count
    BY <1>2, BoundsAssumption DEF Pending, Rows, NoRow, Revisions, RowTypes, Absent
  <2> QED BY <1>2, <2>1 DEF Returned, Project, Files, Revisions, Absent
<1> QED BY <1>1, <1>2 DEF Return, Pending

\* Every command and every crash keeps the outbox rows, their number and the
\* blobs well typed.
LEMMA RowTypesStep ==
    ASSUME RowTypes, FileTypes, ProcessTypes, Steps, [Next]_vars
    PROVE  RowTypes'
<1>e. pc \in Projecting \cup Deleting => entry.row \in Revisions
  BY DEF Steps
<1>c. pc \in {"hash", "commit"} => count < MaxRevisions /\ call.text \in Texts /\ call.kind # "none"
  BY DEF Steps
<1>1. CASE \/ \E t \in Texts : ImportFile(t) \/ EditReplace(t) \/ EditInPlace(t)
           \/ \E o \in Revisions : Replay(o) \/ DeleteDocument(o)
           \/ CheckpointVisible \/ Recover \/ ReconcileLifecycle \/ RejectChanged \/ Decide
           \/ Discard \/ Capture \/ Check \/ Relink \/ Install \/ Verify \/ Drop \/ Prepare
           \/ Take \/ GiveBack \/ Retire \/ Exact \/ Erase \/ Fail \/ Crash \/ Restart
           \/ EditDelete \/ UNCHANGED vars
  BY <1>1 DEF Begin, Capture, Check, CheckpointVisible, Crash, Decide, DeleteDocument, Discard,
      Drop, EditDelete, EditInPlace, EditReplace, Edited, Erase, Exact, Fail, GiveBack, Goto,
      ImportFile, Install, Leave, LinkBack, Prepare, Project, ReconcileLifecycle, Recover,
      RecoverDeletion, RejectChanged, Relink, Replay, Restart, Retire, RowTypes, Settle, Take,
      Unstage, Verify, durable, files, history, process, removal, vars
<1>2. ASSUME NEW t \in Texts, CreateDocument(t) PROVE RowTypes'
  BY <1>2 DEF Begin, CreateDocument, MayBegin, RowTypes, files, history, removal
<1>3. CASE AdoptVisibleDocument
  BY <1>3 DEF AdoptVisibleDocument, Begin, Commands, FileTypes, Files, MayBegin, RowTypes,
      files, history, removal
<1>4. ASSUME NEW t \in Texts, SaveIfSource(t) PROVE RowTypes'
  BY <1>4 DEF Begin, MayBeActive, MayBegin, RowTypes, SaveIfSource, files, history, removal
<1>5. ASSUME NEW t \in Texts, ReconcileExternal(t) PROVE RowTypes'
  BY <1>5 DEF Begin, Commands, FileTypes, Files, MayBegin, ReconcileExternal, RowTypes, files,
      history, removal
<1>6. CASE HashVisible
  BY <1>6, BoundsAssumption, <1>c DEF HashVisible, RowTypes, files, history, removal
<1>7. CASE Commit
  BY <1>7, BoundsAssumption, <1>c DEF Admissible, Commit, Pending, ProcessTypes, Revisions,
      RowTypes, files, removal
<1>8. CASE Look
  <2>1. row[entry.row] \in [target : Files, expected : Files,
                           state : {"none", "pending", "completed"},
                           kind : Commands \cup {"none"}]
    BY <1>8, <1>e DEF RowTypes, Look, Projecting
  <2> QED BY <1>8, <1>e, <2>1 DEF RowTypes, Look, Projecting, Deleted
<1>9. CASE CompleteOutbox
  <2>1. row[entry.row] \in [target : Files, expected : Files,
                           state : {"none", "pending", "completed"},
                           kind : Commands \cup {"none"}]
    BY <1>9, <1>e DEF RowTypes, CompleteOutbox, Projecting
  <2> QED BY <1>9, <1>e, <2>1 DEF RowTypes, CompleteOutbox, Projecting, Deleted
<1> QED BY <1>1, <1>2, <1>3, <1>4, <1>5, <1>6, <1>7, <1>8, <1>9
  DEF Next, Admit, Resume, Advance, Editor

\* Every step keeps the visible file, the staging files and the deletion
\* slot well typed.
LEMMA FileTypesStep ==
    ASSUME RowTypes, FileTypes, ProcessTypes, Steps, [Next]_vars
    PROVE  FileTypes'
<1>e. pc \in Projecting \cup Deleting => entry.row \in Revisions
  BY DEF Steps
<1>1. CASE \/ \E t \in Texts : CreateDocument(t) \/ SaveIfSource(t) \/ ReconcileExternal(t)
                               \/ ImportFile(t)
           \/ \E o \in Revisions : Replay(o) \/ DeleteDocument(o)
           \/ AdoptVisibleDocument \/ CheckpointVisible \/ Recover \/ ReconcileLifecycle
           \/ HashVisible \/ RejectChanged \/ Commit \/ Look \/ Decide \/ Check \/ Verify
           \/ CompleteOutbox \/ Prepare \/ Retire \/ Exact \/ Erase \/ Crash \/ Restart
           \/ UNCHANGED vars
  BY <1>1 DEF AdoptVisibleDocument, Begin, Check, CheckpointVisible, Commit, CompleteOutbox,
      Crash, CreateDocument, Decide, DeleteDocument, Erase, Exact, FileTypes, Goto, HashVisible,
      ImportFile, Leave, Look, Prepare, Project, ReconcileExternal, ReconcileLifecycle, Recover,
      RecoverDeletion, RejectChanged, Replay, Restart, Retire, SaveIfSource, Settle, Verify,
      durable, files, history, process, removal, vars
<1>2. CASE Discard
  BY <1>2 DEF Discard, FileTypes, Files, Goto, Unstage, durable, history, removal
<1>3. CASE Capture
  BY <1>3 DEF Capture, Expected, FileTypes, Files, Goto, Pending, durable, files, history,
      removal
<1>4. CASE Relink
  BY <1>4, BoundsAssumption, <1>e DEF FileTypes, LinkBack, Pending, Projecting, Relink, Staged,
      durable, files, history, removal
<1>5. CASE Install
  BY <1>5, BoundsAssumption, <1>e DEF FileTypes, Goto, Install, Pending, Projecting, RowTypes,
      Target, durable, files, history, removal
<1>6. CASE Drop
  BY <1>6 DEF Drop, FileTypes, Files, Goto, Unstage, durable, history, removal
<1>7. CASE Take
  BY <1>7 DEF FileTypes, Goto, Take, durable, files, history
<1>8. CASE GiveBack
  BY <1>8 DEF FileTypes, GiveBack, Goto, durable, files, history
<1>9. CASE Fail
  BY <1>9, BoundsAssumption, <1>e DEF Fail, FileTypes, LinkBack, Staged, durable, files, history
<1>10. ASSUME NEW t \in Texts, EditReplace(t) PROVE FileTypes'
  BY <1>10 DEF EditReplace, Edited, FileTypes, Files, durable, process
<1>11. ASSUME NEW t \in Texts, EditInPlace(t) PROVE FileTypes'
  BY <1>11 DEF EditInPlace, Edited, FileTypes, Files, durable, process
<1>12. CASE EditDelete
  BY <1>12 DEF EditDelete, Edited, FileTypes, Files, durable, process
<1> QED BY <1>1, <1>2, <1>3, <1>4, <1>5, <1>6, <1>7, <1>8, <1>9, <1>10, <1>11, <1>12
  DEF Next, Admit, Resume, Advance, Editor

\* Every step keeps the deletion intent well typed.
LEMMA DeletionTypesStep ==
    ASSUME DeletionTypes, ProcessTypes, [Next]_vars
    PROVE  DeletionTypes'
<1>1. CASE \/ \E t \in Texts : CreateDocument(t) \/ SaveIfSource(t) \/ ReconcileExternal(t)
                               \/ ImportFile(t) \/ EditReplace(t) \/ EditInPlace(t)
           \/ \E o \in Revisions : Replay(o) \/ DeleteDocument(o)
           \/ AdoptVisibleDocument \/ CheckpointVisible \/ Recover \/ HashVisible
           \/ RejectChanged \/ Commit \/ Look \/ Decide \/ Discard \/ Capture \/ Check
           \/ Relink \/ Install \/ Verify \/ Drop \/ CompleteOutbox \/ Take \/ GiveBack
           \/ Fail \/ Crash \/ EditDelete \/ UNCHANGED vars
  BY <1>1 DEF AdoptVisibleDocument, Begin, Capture, Check, CheckpointVisible, Commit,
      CompleteOutbox, Crash, CreateDocument, Decide, DeleteDocument, DeletionTypes, Discard,
      Drop, EditDelete, EditInPlace, EditReplace, Edited, Fail, GiveBack, Goto, HashVisible,
      ImportFile, Install, LinkBack, Look, Project, ReconcileExternal, Recover, RejectChanged,
      Relink, Replay, SaveIfSource, Take, Unstage, Verify, durable, files, history, process,
      removal, vars
<1>2. CASE ReconcileLifecycle
  BY <1>2 DEF Decidable, DeletionTypes, ReconcileLifecycle, RecoverDeletion, Settle, durable,
      files, history, process
<1>3. CASE Prepare
  BY <1>3 DEF DeletionTypes, Goto, Prepare, ProcessTypes, durable, files, history
<1>4. CASE Retire
  BY <1>4 DEF DeletionTypes, Leave, Retire, Settle, durable, files, history
<1>5. CASE Exact
  BY <1>5 DEF DeletionTypes, Exact, Goto, Leave, Settle, durable, files, history
<1>6. CASE Erase
  BY <1>6 DEF DeletionTypes, Erase, Leave, Settle, durable, files, history
<1>7. CASE Restart
  BY <1>7 DEF Decidable, DeletionTypes, RecoverDeletion, Restart, Settle, durable, files,
      history
<1> QED BY <1>1, <1>2, <1>3, <1>4, <1>5, <1>6, <1>7
  DEF Next, Admit, Resume, Advance, Editor

\* Every step leaves the process at a program point of the code, with a well
\* typed call and entry.
LEMMA ProcessTypesStep ==
    ASSUME RowTypes, FileTypes, ProcessTypes, Rows, Steps, [Next]_vars
    PROVE  ProcessTypes'
<1>c. pc \in {"hash", "commit"} => count < MaxRevisions /\ call.text \in Texts /\ call.kind # "none"
  BY DEF Steps
<1>1. CASE \/ \E t \in Texts : EditReplace(t) \/ EditInPlace(t)
           \/ ReconcileLifecycle \/ EditDelete \/ UNCHANGED vars
  BY <1>1 DEF EditDelete, EditInPlace, EditReplace, Edited, ProcessTypes, ReconcileLifecycle,
      RecoverDeletion, Settle, durable, files, history, process, removal, vars
<1>2. ASSUME NEW t \in Texts, CreateDocument(t) PROVE ProcessTypes'
  BY <1>2 DEF Begin, Commands, CreateDocument, Files, MayBegin, ProcessTypes, files, history,
      removal
<1>3. CASE AdoptVisibleDocument
  BY <1>3 DEF AdoptVisibleDocument, Begin, Commands, FileTypes, Files, MayBegin, ProcessTypes,
      files, history, removal
<1>4. ASSUME NEW t \in Texts, SaveIfSource(t) PROVE ProcessTypes'
  BY <1>4 DEF Begin, Commands, FileTypes, Files, MayBeActive, MayBegin, ProcessTypes,
      SaveIfSource, files, history, removal
<1>5. ASSUME NEW t \in Texts, ReconcileExternal(t) PROVE ProcessTypes'
  BY <1>5 DEF Begin, Commands, FileTypes, Files, MayBegin, ProcessTypes, ReconcileExternal,
      files, history, removal
<1>6. CASE CheckpointVisible
  BY <1>6 DEF Begin, CheckpointVisible, Commands, FileTypes, Files, ImportFile, MayBegin,
      ProcessTypes, files, history, removal
<1>7. ASSUME NEW t \in Texts, ImportFile(t) PROVE ProcessTypes'
  BY <1>7 DEF Begin, Commands, Files, ImportFile, MayBegin, ProcessTypes, files, history,
      removal
<1>8. ASSUME NEW o \in Revisions, Replay(o) PROVE ProcessTypes'
  BY <1>8 DEF Commands, Files, Idempotent, ProcessTypes, Project, Projecting, Replay, Revisions,
      durable, files, history, removal
<1>9. ASSUME NEW o \in Revisions, DeleteDocument(o) PROVE ProcessTypes'
  BY <1>9 DEF Commands, DeleteDocument, Deleting, Files, MayBeActive, Pending, ProcessTypes,
      Revisions, durable, files
<1>10. CASE Recover
  BY <1>10 DEF Commands, Files, Pending, ProcessTypes, Project, Projecting, Recover, Revisions,
      durable, files, history, removal
<1>11. CASE HashVisible
  BY <1>11 DEF FileTypes, HashVisible, ProcessTypes, files, history, removal
<1>12. CASE RejectChanged
  BY <1>12 DEF Admissible, Commands, Files, NoCall, ProcessTypes, RejectChanged, durable, files,
      history, removal
<1>13. CASE Commit
  BY <1>13, BoundsAssumption, <1>c DEF Admissible, Commands, Commit, Files, NoCall, Pending,
      ProcessTypes, Projecting, RowTypes, files, removal
<1>14. CASE Look
  BY <1>14, ReturnPlaces DEF FileTypes, Look, Pending, ProcessTypes, Projecting, Returned,
      files, history, removal
<1>15. CASE Decide
  BY <1>15, ReturnPlaces DEF Decide, Expected, Goto, Pending, ProcessTypes, Projecting,
      Returned, Staged, Target, durable, files, history, removal
<1>16. CASE Discard
  BY <1>16 DEF Discard, Goto, ProcessTypes, Projecting, Unstage, durable, history, removal
<1>17. CASE Capture
  BY <1>17, ReturnPlaces DEF Capture, Expected, Goto, Pending, ProcessTypes, Projecting,
      Returned, durable, files, history, removal
<1>18. CASE Check
  BY <1>18 DEF Check, Expected, Goto, ProcessTypes, Projecting, Staged, durable, files, history,
      removal
<1>19. CASE Relink
  BY <1>19, ReturnPlaces DEF LinkBack, Pending, ProcessTypes, Projecting, Relink, Returned,
      Staged, durable, files, history, removal
<1>20. CASE Install
  BY <1>20, ReturnPlaces DEF Goto, Install, Pending, ProcessTypes, Projecting, Returned, Target,
      durable, files, history, removal
<1>21. CASE Verify
  BY <1>21, ReturnPlaces DEF Goto, Pending, ProcessTypes, Projecting, Returned, Target, Verify,
      durable, files, history, removal
<1>22. CASE Drop
  BY <1>22 DEF Drop, Goto, ProcessTypes, Projecting, Unstage, durable, history, removal
<1>23. CASE CompleteOutbox
  BY <1>23, ReturnPlaces DEF CompleteOutbox, Pending, ProcessTypes, Projecting, Returned, files,
      history, removal
<1>24. CASE Prepare
  BY <1>24 DEF Deleting, Goto, Prepare, ProcessTypes, durable, files, history
<1>25. CASE Take
  BY <1>25 DEF Deleting, Goto, ProcessTypes, Take, durable, files, history
<1>26. CASE GiveBack
  BY <1>26 DEF Deleting, GiveBack, Goto, ProcessTypes, durable, files, history
<1>27. CASE Retire
  BY <1>27, BoundsAssumption DEF Commands, Files, Leave, NoEntry, ProcessTypes, Retire, Settle,
      durable, files, history
<1>28. CASE Exact
  <2>1. UNCHANGED call /\ \/ pc' = "erase" /\ UNCHANGED entry
                          \/ pc' = "idle" /\ entry' = NoEntry
    BY <1>28 DEF Exact, Goto, Leave
  <2>2. CASE pc' = "idle" /\ entry' = NoEntry
    BY <2>1, <2>2, BoundsAssumption DEF ProcessTypes, NoEntry, Files
  <2>3. CASE pc' = "erase" /\ UNCHANGED entry
    BY <2>1, <2>3 DEF ProcessTypes, Deleting
  <2> QED BY <2>1, <2>2, <2>3
<1>29. CASE Erase
  BY <1>29, BoundsAssumption DEF Commands, Erase, Files, Leave, NoEntry, ProcessTypes, Settle,
      durable, files, history
<1>30. CASE Fail
  BY <1>30, BoundsAssumption DEF Commands, Fail, Files, LinkBack, NoCall, NoEntry, ProcessTypes,
      Staged, durable, files, history
<1>31. CASE Crash
  BY <1>31, BoundsAssumption DEF Commands, Crash, Files, NoCall, NoEntry, ProcessTypes, durable,
      files, history
<1>32. CASE Restart
  BY <1>32 DEF Decidable, ProcessTypes, RecoverDeletion, Restart, Settle, durable, files,
      history
<1> QED BY <1>1, <1>2, <1>3, <1>4, <1>5, <1>6, <1>7, <1>8, <1>9, <1>10, <1>11, <1>12, <1>13,
      <1>14, <1>15, <1>16, <1>17, <1>18, <1>19, <1>20, <1>21, <1>22, <1>23, <1>24, <1>25, <1>26,
      <1>27, <1>28, <1>29, <1>30, <1>31, <1>32
  DEF Next, Admit, Resume, Advance, Editor

\* The faults and the edits stay within their bounds.
LEMMA BoundTypesStep ==
    ASSUME BoundTypes, [Next]_vars
    PROVE  BoundTypes'
<1>1. CASE \/ \E t \in Texts : CreateDocument(t) \/ SaveIfSource(t) \/ ReconcileExternal(t)
                               \/ ImportFile(t)
           \/ \E o \in Revisions : Replay(o) \/ DeleteDocument(o)
           \/ AdoptVisibleDocument \/ CheckpointVisible \/ Recover \/ ReconcileLifecycle
           \/ HashVisible \/ RejectChanged \/ Commit \/ Look \/ Decide \/ Discard
           \/ Capture \/ Check \/ Relink \/ Install \/ Verify \/ Drop \/ CompleteOutbox
           \/ Prepare \/ Take \/ GiveBack \/ Retire \/ Exact \/ Erase \/ Restart
           \/ UNCHANGED vars
  BY <1>1 DEF AdoptVisibleDocument, Begin, BoundTypes, Capture, Check, CheckpointVisible,
      Commit, CompleteOutbox, CreateDocument, Decide, DeleteDocument, Discard, Drop, Erase,
      Exact, GiveBack, Goto, HashVisible, ImportFile, Install, Leave, LinkBack, Look, Prepare,
      Project, ReconcileExternal, ReconcileLifecycle, Recover, RecoverDeletion, RejectChanged,
      Relink, Replay, Restart, Retire, SaveIfSource, Settle, Take, Unstage, Verify, durable,
      files, history, process, removal, vars
<1>2. CASE Fail
  BY <1>2, BoundsAssumption DEF BoundTypes, Fail, LinkBack, Staged, durable, files, history
<1>3. CASE Crash
  BY <1>3, BoundsAssumption DEF BoundTypes, Crash, durable, files, history
<1>4. ASSUME NEW t \in Texts, EditReplace(t) PROVE BoundTypes'
  BY <1>4, BoundsAssumption DEF BoundTypes, EditReplace, Edited, Files, durable, process
<1>5. ASSUME NEW t \in Texts, EditInPlace(t) PROVE BoundTypes'
  BY <1>5, BoundsAssumption DEF BoundTypes, EditInPlace, Edited, Files, durable, process
<1>6. CASE EditDelete
  BY <1>6, BoundsAssumption DEF BoundTypes, EditDelete, Edited, Files, durable, process
<1> QED BY <1>1, <1>2, <1>3, <1>4, <1>5, <1>6
  DEF Next, Admit, Resume, Advance, Editor

\* The history flags stay Boolean.
LEMMA FlagTypesStep ==
    ASSUME FlagTypes, [Next]_vars
    PROVE  FlagTypes'
<1>1. CASE \/ \E t \in Texts : CreateDocument(t) \/ SaveIfSource(t) \/ ReconcileExternal(t)
                               \/ ImportFile(t)
           \/ \E o \in Revisions : Replay(o)
           \/ AdoptVisibleDocument \/ CheckpointVisible \/ Recover \/ ReconcileLifecycle
           \/ HashVisible \/ RejectChanged \/ Look \/ Decide \/ Discard \/ Capture \/ Check
           \/ Relink \/ Install \/ Verify \/ Drop \/ CompleteOutbox \/ Prepare \/ Take
           \/ GiveBack \/ Restart \/ UNCHANGED vars
  BY <1>1 DEF AdoptVisibleDocument, Begin, Capture, Check, CheckpointVisible, CompleteOutbox,
      CreateDocument, Decide, Discard, Drop, FlagTypes, GiveBack, Goto, HashVisible, ImportFile,
      Install, LinkBack, Look, Prepare, Project, ReconcileExternal, ReconcileLifecycle, Recover,
      RecoverDeletion, RejectChanged, Relink, Replay, Restart, SaveIfSource, Settle, Take,
      Unstage, Verify, durable, files, history, process, removal, vars
<1>2. ASSUME NEW o \in Revisions, DeleteDocument(o) PROVE FlagTypes'
  BY <1>2 DEF DeleteDocument, FlagTypes, MayBeActive, Pending, durable, files
<1>3. CASE Commit
  BY <1>3 DEF Admissible, Commit, FlagTypes, Pending, files, removal
<1>4. CASE Retire
  BY <1>4 DEF FlagTypes, Leave, Retire, Settle, durable, files, history
<1>5. CASE Exact
  BY <1>5 DEF Exact, FlagTypes, Goto, Leave, Settle, durable, files, history
<1>6. CASE Erase
  BY <1>6 DEF Erase, FlagTypes, Leave, Settle, durable, files, history
<1>7. CASE Fail
  BY <1>7 DEF Fail, FlagTypes, LinkBack, Staged, durable, files, history
<1>8. CASE Crash
  BY <1>8 DEF Crash, FlagTypes, durable, files, history
<1>9. ASSUME NEW t \in Texts, EditReplace(t) PROVE FlagTypes'
  BY <1>9 DEF EditReplace, Edited, FlagTypes, durable, process
<1>10. ASSUME NEW t \in Texts, EditInPlace(t) PROVE FlagTypes'
  BY <1>10 DEF EditInPlace, Edited, FlagTypes, durable, process
<1>11. CASE EditDelete
  BY <1>11 DEF EditDelete, Edited, FlagTypes, durable, process
<1> QED BY <1>1, <1>2, <1>3, <1>4, <1>5, <1>6, <1>7, <1>8, <1>9, <1>10, <1>11
  DEF Next, Admit, Resume, Advance, Editor

\* No step writes a row, a staging file or a completion out of turn: a row
\* is numbered when its bytes are committed, and complete_outbox comes after
\* the staging file is gone.
LEMMA RowsStep ==
    ASSUME RowTypes, FileTypes, ProcessTypes, Rows, Steps, Links, Removal, [Next]_vars
    PROVE  Rows'
<1>1. CASE \/ \E t \in Texts : ImportFile(t) \/ EditReplace(t)
           \/ \E o \in Revisions : Replay(o) \/ DeleteDocument(o)
           \/ CheckpointVisible \/ Recover \/ ReconcileLifecycle \/ RejectChanged \/ Decide
           \/ Check \/ Relink \/ Install \/ Verify \/ Prepare \/ Take \/ GiveBack \/ Retire
           \/ Exact \/ Erase \/ Fail \/ Crash \/ Restart \/ EditDelete \/ UNCHANGED vars
  BY <1>1 DEF Begin, Check, CheckpointVisible, Crash, Decide, DeleteDocument, EditDelete,
      EditReplace, Edited, Erase, Exact, Fail, GiveBack, Goto, ImportFile, Install, Leave,
      LinkBack, Pending, Prepare, Project, ReconcileLifecycle, Recover, RecoverDeletion,
      RejectChanged, Relink, Replay, Restart, Retire, Rows, Settle, Take, Verify, durable,
      files, history, process, removal, vars
<1>2. ASSUME NEW t \in Texts, CreateDocument(t) PROVE Rows'
  BY <1>2 DEF Begin, CreateDocument, MayBegin, Pending, Rows, files, history, removal
<1>3. CASE AdoptVisibleDocument
  BY <1>3 DEF AdoptVisibleDocument, Begin, MayBegin, Pending, Rows, files, history, removal
<1>4. ASSUME NEW t \in Texts, SaveIfSource(t) PROVE Rows'
  BY <1>4 DEF Begin, MayBeActive, MayBegin, Pending, Rows, SaveIfSource, files, history, removal
<1>5. ASSUME NEW t \in Texts, ReconcileExternal(t) PROVE Rows'
  BY <1>5 DEF Begin, MayBegin, Pending, ReconcileExternal, Rows, files, history, removal
<1>6. CASE HashVisible
  BY <1>6 DEF HashVisible, Pending, Rows, files, history, removal
<1>7. CASE Commit
  BY <1>7 DEF Admissible, Commit, Pending, Revisions, RowTypes, Rows, Steps, files, removal
<1>8. CASE Look
  BY <1>8 DEF Look, Pending, Projecting, Removal, RowTypes, Rows, Steps, files, history, removal
<1>9. CASE Discard
  BY <1>9 DEF Discard, Goto, Pending, Rows, Unstage, durable, history, removal
<1>10. CASE Capture
  BY <1>10, BoundsAssumption DEF Capture, Expected, FileTypes, Goto, Pending, Projecting,
      Revisions, RowTypes, Rows, Steps, durable, files, history, removal
<1>11. CASE Drop
  BY <1>11 DEF Drop, Goto, Pending, Rows, Unstage, durable, history, removal
<1>12. CASE CompleteOutbox
  BY <1>12 DEF CompleteOutbox, Pending, Projecting, Revisions, RowTypes, Rows, Steps, files,
      history, removal
<1>13. ASSUME NEW t \in Texts, EditInPlace(t) PROVE Rows'
  BY <1>13 DEF EditInPlace, Edited, Links, Pending, Rows, durable, process
<1> QED BY <1>1, <1>2, <1>3, <1>4, <1>5, <1>6, <1>7, <1>8, <1>9, <1>10, <1>11, <1>12, <1>13
  DEF Next, Admit, Resume, Advance, Editor

\* Each step of process_outbox_entry and of the deletion establishes what
\* the next one relies on.
LEMMA StepsStep ==
    ASSUME RowTypes, FileTypes, ProcessTypes, Rows, Steps, Links, [Next]_vars
    PROVE  Steps'
<1>1. CASE \/ ReconcileLifecycle \/ UNCHANGED vars
  BY <1>1 DEF ReconcileLifecycle, RecoverDeletion, Settle, Steps, durable, files, history,
      process, removal, vars
<1>2. ASSUME NEW t \in Texts, CreateDocument(t) PROVE Steps'
  BY <1>2 DEF Begin, CreateDocument, Deleting, MayBegin, Projecting, Steps, files, history,
      removal
<1>3. CASE AdoptVisibleDocument
  BY <1>3 DEF AdoptVisibleDocument, Begin, Commands, Deleting, FileTypes, Files, MayBegin,
      Projecting, Steps, files, history, removal
<1>4. ASSUME NEW t \in Texts, SaveIfSource(t) PROVE Steps'
  BY <1>4 DEF Begin, Deleting, MayBeActive, MayBegin, Projecting, SaveIfSource, Steps, files,
      history, removal
<1>5. ASSUME NEW t \in Texts, ReconcileExternal(t) PROVE Steps'
  BY <1>5 DEF Begin, Deleting, MayBegin, Projecting, ReconcileExternal, Steps, files, history,
      removal
<1>6. CASE CheckpointVisible
  BY <1>6 DEF Begin, CheckpointVisible, Commands, Deleting, FileTypes, Files, ImportFile,
      MayBegin, Projecting, Steps, files, history, removal
<1>7. ASSUME NEW t \in Texts, ImportFile(t) PROVE Steps'
  BY <1>7 DEF Begin, Deleting, ImportFile, MayBegin, Projecting, Steps, files, history, removal
<1>8. ASSUME NEW o \in Revisions, Replay(o) PROVE Steps'
  BY <1>8 DEF Idempotent, Project, Replay, Steps, durable, files, history, removal
<1>9. ASSUME NEW o \in Revisions, DeleteDocument(o) PROVE Steps'
  BY <1>9 DEF DeleteDocument, MayBeActive, Pending, Projecting, Steps, durable, files
<1>10. CASE Recover
  BY <1>10 DEF NoRow, Pending, Project, Recover, Revisions, RowTypes, Rows, Steps, durable,
      files, history, removal
<1>11. CASE HashVisible
  BY <1>11 DEF Deleting, HashVisible, Projecting, Steps, files, history, removal
<1>12. CASE RejectChanged
  BY <1>12 DEF Admissible, Deleting, Projecting, RejectChanged, Steps, durable, files, history,
      removal
<1>13. CASE Commit
  BY <1>13, BoundsAssumption DEF Admissible, Commit, Pending, Revisions, RowTypes, Steps, files,
      removal
<1>14. CASE Look
  BY <1>14, ReturnPlaces DEF Deleting, Links, Look, NoRow, Pending, ProcessTypes, Projecting,
      Returned, RowTypes, Rows, Steps, files, history, removal
<1>15. CASE Decide
  BY <1>15, ReturnPlaces DEF Decide, Deleting, Expected, Goto, Pending, Projecting, Returned,
      Staged, Steps, Target, durable, files, history, removal
<1>16. CASE Discard
  BY <1>16 DEF Discard, FileTypes, Goto, Projecting, Steps, Unstage, durable, history, removal
<1>17. CASE Capture
  BY <1>17, ReturnPlaces DEF Capture, Deleting, Expected, Goto, Links, Pending, Projecting,
      Returned, Steps, durable, files, history, removal
<1>18. CASE Check
  BY <1>18 DEF Check, Expected, Goto, Projecting, Staged, Steps, durable, files, history,
      removal
<1>19. CASE Relink
  BY <1>19, ReturnPlaces DEF Deleting, LinkBack, Pending, Projecting, Relink, Returned, Staged,
      Steps, durable, files, history, removal
<1>20. CASE Install
  BY <1>20, ReturnPlaces DEF Deleting, Goto, Install, Pending, Projecting, Returned, Steps,
      Target, durable, files, history, removal
<1>21. CASE Verify
  BY <1>21, ReturnPlaces DEF Deleting, Goto, Pending, Projecting, Returned, Steps, Target,
      Verify, durable, files, history, removal
<1>22. CASE Drop
  BY <1>22 DEF Drop, FileTypes, Goto, Projecting, Steps, Unstage, durable, history, removal
<1>23. CASE CompleteOutbox
  BY <1>23, ReturnPlaces DEF CompleteOutbox, Deleting, Pending, Projecting, Returned, Steps,
      files, history, removal
<1>24. CASE Prepare
  BY <1>24 DEF Deleting, Goto, Prepare, Projecting, Steps, durable, files, history
<1>25. CASE Take
  BY <1>25 DEF Deleting, Goto, Projecting, Steps, Take, durable, files, history
<1>26. CASE GiveBack
  BY <1>26 DEF Deleting, GiveBack, Goto, Projecting, Steps, durable, files, history
<1>27. CASE Retire
  BY <1>27 DEF Deleting, Leave, Projecting, Retire, Settle, Steps, durable, files, history
<1>28. CASE Exact
  BY <1>28 DEF Deleting, Exact, Goto, Leave, Projecting, Settle, Steps, durable, files, history
<1>29. CASE Erase
  BY <1>29 DEF Deleting, Erase, Leave, Projecting, Settle, Steps, durable, files, history
<1>30. CASE Fail
  BY <1>30 DEF Deleting, Fail, LinkBack, Projecting, Staged, Steps, durable, files, history
<1>31. CASE Crash
  BY <1>31 DEF Crash, Deleting, Projecting, Steps, durable, files, history
<1>32. CASE Restart
  BY <1>32 DEF Decidable, Deleting, Projecting, RecoverDeletion, Restart, Settle, Steps,
      durable, files, history
<1>33. ASSUME NEW t \in Texts, EditReplace(t) PROVE Steps'
  BY <1>33 DEF EditReplace, Edited, Steps, durable, process
<1>34. ASSUME NEW t \in Texts, EditInPlace(t) PROVE Steps'
  BY <1>34 DEF EditInPlace, Edited, Links, Projecting, Steps, durable, process
<1>35. CASE EditDelete
  BY <1>35 DEF EditDelete, Edited, Steps, durable, process
<1> QED BY <1>1, <1>2, <1>3, <1>4, <1>5, <1>6, <1>7, <1>8, <1>9, <1>10, <1>11, <1>12, <1>13,
      <1>14, <1>15, <1>16, <1>17, <1>18, <1>19, <1>20, <1>21, <1>22, <1>23, <1>24, <1>25, <1>26,
      <1>27, <1>28, <1>29, <1>30, <1>31, <1>32, <1>33, <1>34, <1>35
  DEF Next, Admit, Resume, Advance, Editor

\* A staging file linked back to the visible name stays the visible file,
\* since an editor's replacement unlinks it.
LEMMA LinksStep ==
    ASSUME RowTypes, FileTypes, Steps, Links, [Next]_vars
    PROVE  Links'
<1>e. pc \in Projecting \cup Deleting => entry.row \in Revisions
  BY DEF Steps
<1>1. CASE \/ \E t \in Texts : CreateDocument(t) \/ SaveIfSource(t) \/ ReconcileExternal(t)
                               \/ ImportFile(t)
           \/ \E o \in Revisions : Replay(o) \/ DeleteDocument(o)
           \/ AdoptVisibleDocument \/ CheckpointVisible \/ Recover \/ ReconcileLifecycle
           \/ HashVisible \/ RejectChanged \/ Commit \/ Look \/ Decide \/ Check \/ Verify
           \/ CompleteOutbox \/ Prepare \/ Retire \/ Exact \/ Erase \/ Crash \/ Restart
           \/ UNCHANGED vars
  BY <1>1 DEF AdoptVisibleDocument, Begin, Check, CheckpointVisible, Commit, CompleteOutbox,
      Crash, CreateDocument, Decide, DeleteDocument, Erase, Exact, Goto, HashVisible,
      ImportFile, Leave, Links, Look, Prepare, Project, ReconcileExternal, ReconcileLifecycle,
      Recover, RecoverDeletion, RejectChanged, Replay, Restart, Retire, SaveIfSource, Settle,
      Verify, durable, files, history, process, removal, vars
<1>2. CASE Discard
  BY <1>2 DEF Discard, Goto, Links, Unstage, durable, history, removal
<1>3. CASE Capture
  BY <1>3 DEF Capture, Expected, Goto, Links, Pending, durable, files, history, removal
<1>4. CASE Relink
  BY <1>4 DEF LinkBack, Links, Pending, Relink, Staged, durable, files, history, removal
<1>5. CASE Install
  BY <1>5 DEF Goto, Install, Links, Pending, Target, durable, files, history, removal
<1>6. CASE Drop
  BY <1>6 DEF Drop, Goto, Links, Unstage, durable, history, removal
<1>7. CASE Take
  BY <1>7 DEF Goto, Links, Take, durable, files, history
<1>8. CASE GiveBack
  BY <1>8 DEF GiveBack, Goto, Links, durable, files, history
<1>9. CASE Fail
  BY <1>9 DEF Fail, LinkBack, Links, Staged, durable, files, history
<1>10. ASSUME NEW t \in Texts, EditReplace(t) PROVE Links'
  BY <1>10 DEF EditReplace, Edited, Links, durable, process
<1>11. ASSUME NEW t \in Texts, EditInPlace(t) PROVE Links'
  BY <1>11, TextsAssumption DEF EditInPlace, Edited, Links, FileTypes
<1>12. CASE EditDelete
  BY <1>12 DEF EditDelete, Edited, Links, durable, process
<1> QED BY <1>1, <1>2, <1>3, <1>4, <1>5, <1>6, <1>7, <1>8, <1>9, <1>10, <1>11, <1>12
  DEF Next, Admit, Resume, Advance, Editor

\* While a deletion is live or settled no row is pending, and the slot of a
\* tombstone is not touched again.
LEMMA RemovalStep ==
    ASSUME RowTypes, FileTypes, DeletionTypes, ProcessTypes, Rows, Steps, Removal, [Next]_vars
    PROVE  Removal'
<1>1. CASE UNCHANGED vars
  BY <1>1 DEF Condemned, Deleted, Live, Pending, Removal, durable, files, history, process,
      removal, vars
<1>2. ASSUME NEW t \in Texts, CreateDocument(t) PROVE Removal'
  BY <1>2 DEF Begin, Condemned, CreateDocument, Deleted, Deleting, DeletionTypes, Live,
      MayBegin, Pending, Removal, files, history, removal
<1>3. CASE AdoptVisibleDocument
  BY <1>3 DEF AdoptVisibleDocument, Begin, Condemned, Deleted, Deleting, DeletionTypes, Live,
      MayBegin, Pending, Removal, files, history, removal
<1>4. ASSUME NEW t \in Texts, SaveIfSource(t) PROVE Removal'
  BY <1>4 DEF Begin, Condemned, Deleted, Deleting, DeletionTypes, Live, MayBeActive, MayBegin,
      Pending, Removal, SaveIfSource, files, history, removal
<1>5. ASSUME NEW t \in Texts, ReconcileExternal(t) PROVE Removal'
  BY <1>5 DEF Begin, Condemned, Deleted, Deleting, DeletionTypes, Live, MayBegin, Pending,
      ReconcileExternal, Removal, files, history, removal
<1>6. CASE CheckpointVisible
  BY <1>6 DEF Begin, CheckpointVisible, Condemned, Deleted, Deleting, DeletionTypes, ImportFile,
      Live, MayBegin, Pending, Removal, files, history, removal
<1>7. ASSUME NEW t \in Texts, ImportFile(t) PROVE Removal'
  BY <1>7 DEF Begin, Condemned, Deleted, Deleting, DeletionTypes, ImportFile, Live, MayBegin,
      Pending, Removal, files, history, removal
<1>8. ASSUME NEW o \in Revisions, Replay(o) PROVE Removal'
  BY <1>8 DEF Condemned, Deleted, Deleting, DeletionTypes, Idempotent, Live, Pending, Project,
      Removal, Replay, durable, files, history, removal
<1>9. ASSUME NEW o \in Revisions, DeleteDocument(o) PROVE Removal'
  BY <1>9 DEF Condemned, DeleteDocument, Deleted, DeletionTypes, Live, MayBeActive, Pending,
      Removal, durable, files
<1>10. CASE Recover
  BY <1>10 DEF Condemned, Deleted, Deleting, DeletionTypes, Live, Pending, Project, Recover,
      Removal, durable, files, history, removal
<1>11. CASE ReconcileLifecycle
  BY <1>11 DEF Condemned, Decidable, Deleted, Deleting, DeletionTypes, Live, Pending,
      ReconcileLifecycle, RecoverDeletion, Removal, Settle, durable, files, history, process
<1>12. CASE HashVisible
  BY <1>12 DEF Condemned, Deleted, Deleting, DeletionTypes, HashVisible, Live, Pending, Removal,
      files, history, removal
<1>13. CASE RejectChanged
  BY <1>13 DEF Admissible, Condemned, Deleted, Deleting, DeletionTypes, Live, Pending,
      RejectChanged, Removal, durable, files, history, removal
<1>14. CASE Commit
  BY <1>14 DEF Admissible, Commit, Condemned, Deleted, Deleting, DeletionTypes, Live, Pending,
      Removal, RowTypes, files, removal
<1>15. CASE Look
  BY <1>15, ReturnPlaces DEF Condemned, Deleted, Deleting, DeletionTypes, Live, Look, Pending,
      Removal, Returned, files, history, removal
<1>16. CASE Decide
  BY <1>16, ReturnPlaces DEF Condemned, Decide, Deleted, Deleting, DeletionTypes, Expected,
      Goto, Live, Pending, Removal, Returned, Staged, Target, durable, files, history, removal
<1>17. CASE Discard
  BY <1>17 DEF Condemned, Deleted, Deleting, DeletionTypes, Discard, Goto, Live, Pending,
      Removal, Unstage, durable, history, removal
<1>18. CASE Capture
  BY <1>18, ReturnPlaces DEF Capture, Condemned, Deleted, Deleting, DeletionTypes, Expected,
      Goto, Live, Pending, Removal, Returned, durable, files, history, removal
<1>19. CASE Check
  BY <1>19 DEF Check, Condemned, Deleted, Deleting, DeletionTypes, Expected, Goto, Live,
      Pending, Removal, Staged, durable, files, history, removal
<1>20. CASE Relink
  BY <1>20, ReturnPlaces DEF Condemned, Deleted, Deleting, DeletionTypes, LinkBack, Live,
      Pending, Relink, Removal, Returned, Staged, durable, files, history, removal
<1>21. CASE Install
  BY <1>21, ReturnPlaces DEF Condemned, Deleted, Deleting, DeletionTypes, Goto, Install, Live,
      Pending, Removal, Returned, Target, durable, files, history, removal
<1>22. CASE Verify
  BY <1>22, ReturnPlaces DEF Condemned, Deleted, Deleting, DeletionTypes, Goto, Live, Pending,
      Removal, Returned, Target, Verify, durable, files, history, removal
<1>23. CASE Drop
  BY <1>23 DEF Condemned, Deleted, Deleting, DeletionTypes, Drop, Goto, Live, Pending, Removal,
      Unstage, durable, history, removal
<1>24. CASE CompleteOutbox
  BY <1>24, ReturnPlaces DEF CompleteOutbox, Condemned, Deleted, Deleting, DeletionTypes, Live,
      Pending, Removal, Returned, files, history, removal
<1>25. CASE Prepare
  BY <1>25 DEF Condemned, Deleted, Deleting, DeletionTypes, Goto, Live, Pending, Prepare,
      Removal, Steps, durable, files, history
<1>26. CASE Take
  BY <1>26 DEF Condemned, Deleted, Deleting, DeletionTypes, Goto, Live, Pending, Removal, Take,
      durable, files, history
<1>27. CASE GiveBack
  BY <1>27 DEF Condemned, Deleted, Deleting, DeletionTypes, GiveBack, Goto, Live, Pending,
      Removal, durable, files, history
<1>28. CASE Retire
  BY <1>28 DEF Condemned, Deleted, Deleting, DeletionTypes, Leave, Live, Pending, Removal,
      Retire, Settle, durable, files, history
<1>29. CASE Exact
  BY <1>29 DEF Condemned, Deleted, Deleting, DeletionTypes, Exact, Goto, Leave, Live, Pending,
      Removal, Settle, durable, files, history
<1>30. CASE Erase
  BY <1>30 DEF Condemned, Deleted, Deleting, DeletionTypes, Erase, Leave, Live, Pending,
      Removal, Settle, durable, files, history
<1>31. CASE Fail
  BY <1>31 DEF Condemned, Deleted, Deleting, DeletionTypes, Fail, LinkBack, Live, Pending,
      Removal, Staged, durable, files, history
<1>32. CASE Crash
  BY <1>32 DEF Condemned, Crash, Deleted, Deleting, DeletionTypes, Live, Pending, Removal,
      durable, files, history
<1>33. CASE Restart
  BY <1>33 DEF Condemned, Decidable, Deleted, Deleting, DeletionTypes, Live, Pending,
      RecoverDeletion, Removal, Restart, Settle, durable, files, history
<1>34. ASSUME NEW t \in Texts, EditReplace(t) PROVE Removal'
  BY <1>34 DEF Condemned, Deleted, DeletionTypes, EditReplace, Edited, Live, Pending, Removal,
      durable, process
<1>35. ASSUME NEW t \in Texts, EditInPlace(t) PROVE Removal'
  BY <1>35 DEF Condemned, Deleted, DeletionTypes, EditInPlace, Edited, Live, Pending, Removal,
      durable, process
<1>36. CASE EditDelete
  BY <1>36 DEF Condemned, Deleted, DeletionTypes, EditDelete, Edited, Live, Pending, Removal,
      durable, process
<1> QED BY <1>1, <1>2, <1>3, <1>4, <1>5, <1>6, <1>7, <1>8, <1>9, <1>10, <1>11, <1>12, <1>13,
      <1>14, <1>15, <1>16, <1>17, <1>18, <1>19, <1>20, <1>21, <1>22, <1>23, <1>24, <1>25, <1>26,
      <1>27, <1>28, <1>29, <1>30, <1>31, <1>32, <1>33, <1>34, <1>35, <1>36
  DEF Next, Admit, Resume, Advance, Editor

\* No step loses an editor's bytes: they go from the visible name to the
\* staging file, the slot or the blobs and back, never nowhere.
LEMMA EditsStep ==
    ASSUME RowTypes, FileTypes, ProcessTypes, Rows, Steps, Links, Removal, Edits, [Next]_vars
    PROVE  Edits'
<1>1. CASE UNCHANGED vars
  BY <1>1 DEF Captured, Edits, Overwritten, Pending, durable, files, history, process, removal,
      vars
<1>2. ASSUME NEW t \in Texts, CreateDocument(t) PROVE Edits'
  BY <1>2 DEF Begin, Captured, CreateDocument, Edits, MayBegin, Overwritten, Pending, files,
      history, removal
<1>3. CASE AdoptVisibleDocument
  BY <1>3 DEF AdoptVisibleDocument, Begin, Captured, Edits, MayBegin, Overwritten, Pending,
      files, history, removal
<1>4. ASSUME NEW t \in Texts, SaveIfSource(t) PROVE Edits'
  BY <1>4 DEF Begin, Captured, Edits, MayBeActive, MayBegin, Overwritten, Pending, Rows,
      SaveIfSource, files, history, removal
<1>5. ASSUME NEW t \in Texts, ReconcileExternal(t) PROVE Edits'
  BY <1>5 DEF Begin, Captured, Edits, MayBegin, Overwritten, Pending, ReconcileExternal, files,
      history, removal
<1>6. CASE CheckpointVisible
  BY <1>6 DEF Begin, Captured, CheckpointVisible, Edits, ImportFile, MayBegin, Overwritten,
      Pending, files, history, removal
<1>7. ASSUME NEW t \in Texts, ImportFile(t) PROVE Edits'
  BY <1>7 DEF Begin, Captured, Edits, ImportFile, MayBegin, Overwritten, Pending, files,
      history, removal
<1>8. ASSUME NEW o \in Revisions, Replay(o) PROVE Edits'
  BY <1>8 DEF Captured, Edits, Idempotent, Overwritten, Pending, Project, Replay, durable,
      files, history, removal
<1>9. ASSUME NEW o \in Revisions, DeleteDocument(o) PROVE Edits'
  BY <1>9 DEF Captured, DeleteDocument, Edits, MayBeActive, Overwritten, Pending, durable, files
<1>10. CASE Recover
  BY <1>10 DEF Captured, Edits, Overwritten, Pending, Project, Recover, durable, files, history,
      removal
<1>11. CASE ReconcileLifecycle
  BY <1>11 DEF Captured, Decidable, Edits, Overwritten, Pending, ReconcileLifecycle,
      RecoverDeletion, Settle, durable, files, history, process
<1>12. CASE HashVisible
  BY <1>12 DEF Captured, Edits, HashVisible, Overwritten, Pending, Steps, files, history,
      removal
<1>13. CASE RejectChanged
  BY <1>13 DEF Admissible, Captured, Edits, Overwritten, Pending, RejectChanged, durable, files,
      history, removal
<1>14. CASE Commit
  <2> SUFFICES ASSUME ~Overwritten', ~stacked' PROVE Edits'
    BY DEF Edits
  <2>1. /\ count + 1 \in Revisions /\ count' = count + 1
        /\ row' = [row EXCEPT ![count + 1] =
                      [target |-> call.text, expected |-> call.seen,
                       state |-> "pending", kind |-> call.kind]]
        /\ pc' = "look" /\ UNCHANGED <<blobs, visible, slot, edited>>
    BY <1>14, BoundsAssumption DEF Commit, Steps, RowTypes, Revisions, files, removal
  <2>2. \A o \in Revisions : row'[o] = IF o = count + 1
                                        THEN [target |-> call.text, expected |-> call.seen,
                                              state |-> "pending", kind |-> call.kind]
                                        ELSE row[o]
    BY <2>1 DEF RowTypes
  <2>3. Pending = {} /\ ~stacked
    BY <1>14 DEF Commit
  <2>4. Pending' = {count + 1}
    BY <2>1, <2>2, <2>3 DEF Pending
  <2>5. ~Overwritten /\ call.kind # "overwrite"
    BY <2>1, <2>2 DEF Overwritten, Rows, NoRow, Revisions, RowTypes
  <2>6. call.seen \in blobs \cup {Absent}
    BY <1>14, <2>3, <2>5 DEF Commit, Edits
  <2>7. \A o \in Revisions : o <= count' => row'[o].expected \in blobs' \cup {Absent}
    BY <2>1, <2>2, <2>3, <2>5, <2>6 DEF Edits, Revisions, RowTypes
  <2>8. edited \in blobs \cup {Absent, visible, slot}
    BY <2>3, <2>5 DEF Edits, Captured
  <2> QED BY <2>1, <2>4, <2>7, <2>8 DEF Edits
<1>15. CASE Look
  BY <1>15, ReturnPlaces DEF Captured, Edits, Look, Overwritten, Pending, ProcessTypes, Removal,
      Returned, files, history, removal
<1>16. CASE Decide
  <2> SUFFICES ASSUME ~Overwritten, ~stacked PROVE Edits'
    BY <1>16 DEF Edits, Decide, Overwritten, durable, history
  <2>1. UNCHANGED <<row, count, blobs, visible, previous, slot, edited>> /\ pc' # "commit"
    BY <1>16, ReturnPlaces DEF Decide, durable, files, removal, history, Goto, Returned
  <2>2. CASE edited \in blobs \cup {Absent, visible, slot}
    BY <2>1, <2>2 DEF Edits, Pending
  <2>3. CASE edited \notin blobs \cup {Absent, visible, slot}
    <3>1. entry.row \in Pending
      BY <1>16 DEF Decide, Steps, Projecting, Pending, Revisions
    <3>2. Captured
      BY <2>3 DEF Edits
    <3>3. Staged = edited
      BY <3>1, <3>2 DEF Captured, Edits, Staged
    <3>4. Target # Absent /\ Expected \in blobs \cup {Absent}
      BY <1>16, TextsAssumption
         DEF Decide, Steps, Rows, RowTypes, Edits, Projecting, Target, Expected
    <3>5. pc' = "relink"
      BY <1>16, <2>3, <3>2, <3>3, <3>4 DEF Decide, Captured, Goto
    <3> QED BY <2>1, <3>2, <3>5 DEF Edits, Captured, Pending
  <2> QED BY <2>2, <2>3
<1>17. CASE Discard
  BY <1>17 DEF Captured, Discard, Edits, Goto, Overwritten, Pending, Unstage, durable, history,
      removal
<1>18. CASE Capture
  BY <1>18, ReturnPlaces DEF Capture, Captured, Edits, Expected, FileTypes, Goto, Overwritten,
      Pending, Projecting, Returned, Steps, durable, files, history, removal
<1>19. CASE Check
  BY <1>19 DEF Captured, Check, Edits, Expected, Goto, Overwritten, Pending, Projecting, Staged,
      Steps, durable, files, history, removal
<1>20. CASE Relink
  BY <1>20, ReturnPlaces DEF Captured, Edits, LinkBack, Overwritten, Pending, Projecting,
      Relink, Returned, Staged, Steps, durable, files, history, removal
<1>21. CASE Install
  BY <1>21, ReturnPlaces DEF Captured, Edits, Goto, Install, Overwritten, Pending, Returned,
      Target, durable, files, history, removal
<1>22. CASE Verify
  BY <1>22, ReturnPlaces DEF Captured, Edits, Goto, Overwritten, Pending, Returned, Target,
      Verify, durable, files, history, removal
<1>23. CASE Drop
  BY <1>23 DEF Captured, Drop, Edits, Goto, Overwritten, Pending, Unstage, durable, history,
      removal
<1>24. CASE CompleteOutbox
  BY <1>24, ReturnPlaces DEF Captured, CompleteOutbox, Edits, Overwritten, Pending, Returned,
      files, history, removal
<1>25. CASE Prepare
  BY <1>25 DEF Captured, Edits, Goto, Overwritten, Pending, Prepare, durable, files, history
<1>26. CASE Take
  BY <1>26 DEF Captured, Edits, Goto, Overwritten, Pending, Take, durable, files, history
<1>27. CASE GiveBack
  BY <1>27 DEF Captured, Edits, GiveBack, Goto, Overwritten, Pending, durable, files, history
<1>28. CASE Retire
  BY <1>28 DEF Captured, Edits, Leave, Overwritten, Pending, Retire, Settle, durable, files,
      history
<1>29. CASE Exact
  BY <1>29 DEF Captured, Edits, Exact, Goto, Leave, Overwritten, Pending, Settle, durable,
      files, history
<1>30. CASE Erase
  BY <1>30 DEF Captured, Edits, Erase, Leave, Overwritten, Pending, Settle, durable, files,
      history
<1>31. CASE Fail
  BY <1>31 DEF Captured, Edits, Fail, LinkBack, Overwritten, Pending, Staged, durable, files,
      history
<1>32. CASE Crash
  BY <1>32 DEF Captured, Crash, Edits, Overwritten, Pending, durable, files, history
<1>33. CASE Restart
  BY <1>33 DEF Captured, Decidable, Edits, Overwritten, Pending, RecoverDeletion, Restart,
      Settle, durable, files, history
<1>34. ASSUME NEW t \in Texts, EditReplace(t) PROVE Edits'
  BY <1>34 DEF Captured, EditReplace, Edited, Edits, Overwritten, Pending, durable, process
<1>35. ASSUME NEW t \in Texts, EditInPlace(t) PROVE Edits'
  BY <1>35 DEF Captured, EditInPlace, Edited, Edits, Overwritten, Pending, durable, process
<1>36. CASE EditDelete
  BY <1>36 DEF Captured, EditDelete, Edited, Edits, Overwritten, Pending, durable, process
<1> QED BY <1>1, <1>2, <1>3, <1>4, <1>5, <1>6, <1>7, <1>8, <1>9, <1>10, <1>11, <1>12, <1>13,
      <1>14, <1>15, <1>16, <1>17, <1>18, <1>19, <1>20, <1>21, <1>22, <1>23, <1>24, <1>25, <1>26,
      <1>27, <1>28, <1>29, <1>30, <1>31, <1>32, <1>33, <1>34, <1>35, <1>36
  DEF Next, Admit, Resume, Advance, Editor

\* A projection nobody interferes with goes through the code's stages in
\* order, and a crash leaves it at a stage it can be resumed from.
LEMMA UndisturbedStep ==
    ASSUME RowTypes, FileTypes, ProcessTypes, Rows, Steps, Links, Removal, Undisturbed, [Next]_vars
    PROVE  Undisturbed'
<1>1. CASE UNCHANGED vars
  BY <1>1 DEF Pending, Undisturbed, durable, files, history, process, removal, vars
<1>2. ASSUME NEW t \in Texts, CreateDocument(t) PROVE Undisturbed'
  BY <1>2 DEF Begin, CreateDocument, MayBegin, Pending, Undisturbed, files, history, removal
<1>3. CASE AdoptVisibleDocument
  BY <1>3 DEF AdoptVisibleDocument, Begin, MayBegin, Pending, Undisturbed, files, history,
      removal
<1>4. ASSUME NEW t \in Texts, SaveIfSource(t) PROVE Undisturbed'
  BY <1>4 DEF Begin, MayBeActive, MayBegin, Pending, SaveIfSource, Undisturbed, files, history,
      removal
<1>5. ASSUME NEW t \in Texts, ReconcileExternal(t) PROVE Undisturbed'
  BY <1>5 DEF Begin, MayBegin, Pending, ReconcileExternal, Undisturbed, files, history, removal
<1>6. CASE CheckpointVisible
  BY <1>6 DEF Begin, CheckpointVisible, ImportFile, MayBegin, Pending, Undisturbed, files,
      history, removal
<1>7. ASSUME NEW t \in Texts, ImportFile(t) PROVE Undisturbed'
  BY <1>7 DEF Begin, ImportFile, MayBegin, Pending, Undisturbed, files, history, removal
<1>8. ASSUME NEW o \in Revisions, Replay(o) PROVE Undisturbed'
  BY <1>8 DEF Idempotent, Pending, Project, Replay, Undisturbed, durable, files, history,
      removal
<1>9. ASSUME NEW o \in Revisions, DeleteDocument(o) PROVE Undisturbed'
  BY <1>9 DEF DeleteDocument, MayBeActive, Pending, Undisturbed, durable, files
<1>10. CASE Recover
  BY <1>10 DEF Pending, Project, Recover, Undisturbed, durable, files, history, removal
<1>11. CASE ReconcileLifecycle
  BY <1>11 DEF Decidable, Pending, ReconcileLifecycle, RecoverDeletion, Settle, Undisturbed,
      durable, files, history, process
<1>12. CASE HashVisible
  BY <1>12 DEF HashVisible, Pending, Undisturbed, files, history, removal
<1>13. CASE RejectChanged
  BY <1>13 DEF Admissible, Pending, RejectChanged, Undisturbed, durable, files, history, removal
<1>14. CASE Commit
  <2> SUFFICES ASSUME clean' PROVE Undisturbed'
    BY DEF Undisturbed
  <2>1. visible = call.seen /\ Pending = {}
    BY <1>14 DEF Commit
  <2>2. /\ count + 1 \in Revisions /\ count' = count + 1
        /\ row' = [row EXCEPT ![count + 1] =
                      [target |-> call.text, expected |-> call.seen,
                       state |-> "pending", kind |-> call.kind]]
        /\ pc' = "look" /\ UNCHANGED <<visible, previous>>
    BY <1>14, BoundsAssumption DEF Commit, Steps, RowTypes, Revisions, files
  <2>3. Pending' \subseteq {count + 1}
    BY <2>1, <2>2 DEF Pending, RowTypes
  <2>4. row'[count + 1].expected = visible /\ row'[count + 1].state = "pending"
    BY <2>1, <2>2 DEF RowTypes
  <2>5. previous[count + 1] = Absent
    BY <2>2 DEF Rows, RowTypes, Revisions
  <2> QED BY <2>2, <2>3, <2>4, <2>5 DEF Undisturbed
<1>15. CASE Look
  BY <1>15, ReturnPlaces DEF Look, Pending, ProcessTypes, Removal, Returned, Undisturbed, files,
      history, removal
<1>16. CASE Decide
  BY <1>16, ReturnPlaces DEF Decide, Expected, Goto, Pending, Projecting, Returned, Staged,
      Steps, Target, Undisturbed, durable, files, history, removal
<1>17. CASE Discard
  BY <1>17 DEF Discard, Goto, Pending, Undisturbed, Unstage, durable, history, removal
<1>18. CASE Capture
  BY <1>18, ReturnPlaces DEF Capture, Expected, FileTypes, Goto, Pending, Projecting, Returned,
      Steps, Undisturbed, durable, files, history, removal
<1>19. CASE Check
  BY <1>19 DEF Check, Expected, Goto, Pending, Projecting, Staged, Steps, Undisturbed, durable,
      files, history, removal
<1>20. CASE Relink
  BY <1>20, ReturnPlaces DEF LinkBack, Pending, Relink, Returned, Staged, Undisturbed, durable,
      files, history, removal
<1>21. CASE Install
  BY <1>21, ReturnPlaces DEF Goto, Install, Pending, Projecting, Returned, Steps, Target,
      Undisturbed, durable, files, history, removal
<1>22. CASE Verify
  BY <1>22, ReturnPlaces DEF Goto, Pending, Returned, Target, Undisturbed, Verify, durable,
      files, history, removal
<1>23. CASE Drop
  BY <1>23 DEF Drop, Goto, Pending, Undisturbed, Unstage, durable, history, removal
<1>24. CASE CompleteOutbox
  BY <1>24, ReturnPlaces DEF CompleteOutbox, Pending, Returned, Undisturbed, files, history,
      removal
<1>25. CASE Prepare
  BY <1>25 DEF Goto, Pending, Prepare, Undisturbed, durable, files, history
<1>26. CASE Take
  BY <1>26 DEF Deleting, Goto, Pending, Removal, Take, Undisturbed, durable, files, history
<1>27. CASE GiveBack
  BY <1>27 DEF Deleting, GiveBack, Goto, Pending, Removal, Undisturbed, durable, files, history
<1>28. CASE Retire
  BY <1>28 DEF Leave, Pending, Retire, Settle, Undisturbed, durable, files, history
<1>29. CASE Exact
  BY <1>29 DEF Exact, Goto, Leave, Pending, Settle, Undisturbed, durable, files, history
<1>30. CASE Erase
  BY <1>30 DEF Erase, Leave, Pending, Settle, Undisturbed, durable, files, history
<1>31. CASE Fail
  BY <1>31 DEF Deleting, Fail, LinkBack, Pending, Staged, Steps, Undisturbed, durable, files,
      history
<1>32. CASE Crash
  BY <1>32 DEF Crash, Pending, Undisturbed, durable, files, history
<1>33. CASE Restart
  BY <1>33 DEF Decidable, Pending, RecoverDeletion, Restart, Settle, Undisturbed, durable,
      files, history
<1>34. ASSUME NEW t \in Texts, EditReplace(t) PROVE Undisturbed'
  BY <1>34 DEF EditReplace, Edited, Pending, Undisturbed, durable, process
<1>35. ASSUME NEW t \in Texts, EditInPlace(t) PROVE Undisturbed'
  BY <1>35 DEF EditInPlace, Edited, Pending, Undisturbed, durable, process
<1>36. CASE EditDelete
  BY <1>36 DEF EditDelete, Edited, Pending, Undisturbed, durable, process
<1> QED BY <1>1, <1>2, <1>3, <1>4, <1>5, <1>6, <1>7, <1>8, <1>9, <1>10, <1>11, <1>12, <1>13,
      <1>14, <1>15, <1>16, <1>17, <1>18, <1>19, <1>20, <1>21, <1>22, <1>23, <1>24, <1>25, <1>26,
      <1>27, <1>28, <1>29, <1>30, <1>31, <1>32, <1>33, <1>34, <1>35, <1>36
  DEF Next, Admit, Resume, Advance, Editor

\* The empty store satisfies the inductive invariant.
LEMMA InitInv == Init => IInv
<1> SUFFICES ASSUME Init PROVE IInv
  OBVIOUS
<1>1. TypeOK
  <2>1. RowTypes
    BY BoundsAssumption DEF Init, RowTypes, NoRow, Files, Revisions
  <2>2. FileTypes
    BY TextsAssumption DEF Init, FileTypes, Files
  <2>3. DeletionTypes /\ ProcessTypes
    BY BoundsAssumption DEF Init, DeletionTypes, ProcessTypes, NoDeletion, NoCall, NoEntry, Files
  <2>4. BoundTypes
    BY BoundsAssumption, <2>2 DEF Init, BoundTypes, FileTypes
  <2>5. FlagTypes
    BY DEF Init, FlagTypes
  <2> QED BY <2>1, <2>2, <2>3, <2>4, <2>5, TypeParts
<1>2. Pending = {} /\ Rows
  BY BoundsAssumption DEF Init, Pending, Rows, NoRow, Revisions
<1>3. Steps /\ Links
  BY DEF Init, Steps, Links, Projecting, Deleting
<1>4. Removal
  BY <1>2 DEF Init, Removal, NoDeletion, Live, Deleted, Deleting
<1>5. Edits
  BY <1>2 DEF Init, Edits, Revisions
<1>6. Undisturbed
  BY DEF Init, Undisturbed
<1> QED BY <1>1, <1>2, <1>3, <1>4, <1>5, <1>6 DEF IInv

\* Every step preserves the inductive invariant.
LEMMA StepInv == IInv /\ [Next]_vars => IInv'
<1> SUFFICES ASSUME IInv, [Next]_vars PROVE IInv'
  OBVIOUS
<1>1. /\ RowTypes /\ FileTypes /\ DeletionTypes /\ ProcessTypes /\ BoundTypes /\ FlagTypes
      /\ Rows /\ Steps /\ Links /\ Removal /\ Edits /\ Undisturbed
  BY TypeParts DEF IInv
<1>2. /\ RowTypes' /\ FileTypes' /\ DeletionTypes' /\ ProcessTypes' /\ BoundTypes'
      /\ FlagTypes'
  BY <1>1, RowTypesStep, FileTypesStep, DeletionTypesStep, ProcessTypesStep, BoundTypesStep,
     FlagTypesStep
<1>3. TypeOK'
  BY <1>2 DEF TypeOK, RowTypes, FileTypes, DeletionTypes, ProcessTypes, BoundTypes, FlagTypes
<1>4. Rows' /\ Steps' /\ Links' /\ Removal'
  BY <1>1, RowsStep, StepsStep, LinksStep, RemovalStep
<1>5. Edits' /\ Undisturbed'
  BY <1>1, EditsStep, UndisturbedStep
<1> QED BY <1>3, <1>4, <1>5 DEF IInv

\* The inductive invariant holds in every reachable state.
LEMMA Invariant == Spec => []IInv
<1> QED BY InitInv, StepInv, PTL DEF Spec

(***************************************************************************)
(* At every crash point of create, save, reconcile, import, delete and     *)
(* recover a projection that nobody interferes with can be resumed and     *)
(* leaves nothing behind, and a tombstone is exact.                        *)
(***************************************************************************)
THEOREM StoreSound == Spec => []StoreInv
<1>1. ASSUME IInv PROVE StoreInv
  <2>1. Collected
    BY <1>1, BoundsAssumption DEF IInv, Rows, Collected, NoRow, TypeOK, Revisions
  <2>2. Recoverable
    BY <1>1 DEF IInv, Undisturbed, Recoverable
  <2>3. DeletedExactly
    BY <1>1 DEF IInv, Removal, DeletedExactly
  <2> QED BY <1>1, <2>1, <2>2, <2>3 DEF IInv, StoreInv
<1> QED BY Invariant, <1>1, PTL

(***************************************************************************)
(* Nothing an editor left at the visible name is lost by                   *)
(* process_outbox_entry or a deletion, unless rows were pending together   *)
(* or save_content took the file as it was.                                *)
(***************************************************************************)
THEOREM EditsNeverLost == Spec => []EditSurvives
<1>1. ASSUME IInv PROVE EditSurvives
  <2> SUFFICES ASSUME ~Overwritten, ~stacked, edited # Absent PROVE edited \in Kept
    BY DEF EditSurvives
  <2>1. CASE edited \in blobs \cup {Absent, visible, slot}
    BY <2>1 DEF Kept
  <2>2. CASE Captured
    BY <2>2 DEF Captured, Pending, Kept
  <2> QED BY <1>1, <2>1, <2>2 DEF IInv, Edits
<1> QED BY Invariant, <1>1, PTL
=============================================================================
