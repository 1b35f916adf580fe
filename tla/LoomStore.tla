------------------------------ MODULE LoomStore ------------------------------
(***************************************************************************)
(* One document of a Loom project: its revisions and visible-file outbox   *)
(* in SQLite, its immutable blobs, and the visible file that the store     *)
(* projects each revision to while other programs edit the same file       *)
(* (products/loom/crates/loom-store/src/store.rs, provenance.rs and        *)
(* reconciliation.rs).                                                     *)
(*                                                                         *)
(* A command commits its revision with a pending outbox row in one         *)
(* transaction and then projects the row to the file: the predecessor is   *)
(* moved to a staging name, checked, the target is linked in if the name   *)
(* is free, the staging file is removed and the row is completed.  The     *)
(* deletion of the document records its intent, moves the file to a        *)
(* private slot and commits a tombstone.  The project lease admits one     *)
(* process and its commands are serial, so what interleaves with a command *)
(* is an external editor, at every file operation, and a crash or an I/O   *)
(* error at every step.                                                    *)
(*                                                                         *)
(* A text stands for its bytes and for their BlobId, and one command id    *)
(* for all deletions of the document, so that there is one slot.           *)
(***************************************************************************)
EXTENDS Integers

CONSTANTS
    Texts,          \* contents a document can have
    Found,          \* what the file can be when Loom first meets it
    MaxRevisions,   \* bound: revisions, and outbox rows, of the document
    MaxFaults,      \* bound: crashes and I/O errors
    MaxEdits        \* bound: what an external editor does to the file

Absent == "absent"

ASSUME TextsAssumption == Absent \notin Texts /\ Found \subseteq Texts \cup {Absent}
ASSUME BoundsAssumption ==
    MaxRevisions \in Nat /\ MaxFaults \in Nat /\ MaxEdits \in Nat

VARIABLES
    row, count,                 \* visible_file_outbox and revisions
    blobs,                      \* .loom/blobs
    visible, previous, linked,  \* the file, and .loom/backups/outbox
    deletion, slot, held,       \* document_delete_operations, .loom/deleted
    pc, call, entry,            \* the command under way
    faults, edits,
    edited, clean, stacked      \* history: see below

durable == <<row, count, blobs>>
files == <<visible, previous, linked>>
removal == <<deletion, slot, held>>
process == <<pc, call, entry>>
history == <<edited, clean, stacked>>
vars == <<durable, files, removal, process, faults, edits, history>>

Revisions == 1..MaxRevisions
Files == Texts \cup {Absent}
Commands == {"create", "adopt", "save", "reconcile", "overwrite"}

\* Commands whose caller keeps a CommandId and may send them again.
Idempotent == {"create", "save", "reconcile"}

NoRow == [target |-> Absent, expected |-> Absent, state |-> "none", kind |-> "none"]
NoDeletion == [state |-> "none", row |-> 0]
NoCall == [kind |-> "none", text |-> Absent, seen |-> Absent]
NoEntry == [row |-> 0, seen |-> Absent, sweep |-> FALSE]

Projecting ==
    {"look", "decide", "relink", "discard", "capture", "check", "install",
     "verify", "drop", "complete"}

Deleting == {"prepare", "take", "giveback", "retire", "exact", "erase"}

(***************************************************************************)
(* previous[o] is the file <o>.previous; o is in linked while that name    *)
(* and the visible one are two links to one file, so that writing in place *)
(* changes both.  held says that the visible name, or the slot it was      *)
(* moved to, names the file that the deletion under way has opened.        *)
(*                                                                         *)
(* edited is what the editor left at the visible name.  clean says that    *)
(* the newest row was committed over its predecessor with nothing older    *)
(* pending, and that neither an editor nor a deletion has acted since, and *)
(* stacked that some row was committed while an older one was pending.     *)
(***************************************************************************)
TypeOK ==
    /\ row \in [Revisions -> [target : Files, expected : Files,
                              state : {"none", "pending", "completed"},
                              kind : Commands \cup {"none"}]]
    /\ count \in 0..MaxRevisions
    /\ blobs \subseteq Texts
    /\ visible \in Files /\ previous \in [Revisions -> Files]
    /\ linked \subseteq Revisions
    /\ deletion \in [state : {"none", "prepared", "captured", "aborted", "committed"},
                     row : 0..MaxRevisions]
    /\ slot \in Files /\ held \in BOOLEAN
    /\ pc \in Projecting \cup Deleting \cup {"down", "idle", "hash", "commit"}
    /\ call \in [kind : Commands \cup {"none"}, text : Files, seen : Files]
    /\ entry \in [row : 0..MaxRevisions, seen : Files, sweep : BOOLEAN]
    /\ faults \in 0..MaxFaults /\ edits \in 0..MaxEdits
    /\ edited \in Files /\ clean \in BOOLEAN /\ stacked \in BOOLEAN

Init ==
    /\ row = [o \in Revisions |-> NoRow] /\ count = 0
    /\ blobs = {}
    /\ visible \in Found /\ edited = visible
    /\ previous = [o \in Revisions |-> Absent] /\ linked = {}
    /\ deletion = NoDeletion /\ slot = Absent /\ held = FALSE
    /\ pc = "idle" /\ call = NoCall /\ entry = NoEntry
    /\ faults = 0 /\ edits = 0 /\ clean = FALSE /\ stacked = FALSE

Pending == {o \in Revisions : row[o].state = "pending"}

\* A deletion that is neither aborted nor committed, and the bytes it is for.
Live == deletion.state \in {"prepared", "captured"}
Deleted == deletion.state = "committed"
Condemned == row[deletion.row].target

-----------------------------------------------------------------------------
(* Commands up to their transaction.  Blobs are written before it.         *)

Begin(kind, text, seen) ==
    /\ call' = [kind |-> kind, text |-> text, seen |-> seen]
    /\ UNCHANGED <<row, count, files, entry, removal, faults, edits, history>>

\* A deleted document keeps its path, and has no commands any more.
MayBegin == pc = "idle" /\ count < MaxRevisions /\ ~Deleted

\* create_document_with_identity: neither the path nor the file may exist.
CreateDocument(text) ==
    /\ MayBegin /\ count = 0 /\ visible = Absent
    /\ blobs' = blobs \cup {text}
    /\ pc' = "commit" /\ Begin("create", text, Absent)

\* adopt_visible_document_if_absent: the file is the expected state and the target.
AdoptVisibleDocument ==
    /\ MayBegin /\ count = 0 /\ visible # Absent
    /\ blobs' = blobs \cup {visible}
    /\ pc' = "commit" /\ Begin("adopt", visible, visible)

\* active_revision takes the latest creation time and then the largest random
\* id: the clock may stand still or step back, so any revision can be active.
MayBeActive(o) == o <= count

\* save_document_if_source_idempotent: the caller edited the active revision,
\* and the visible file still shows it.
SaveIfSource(text) ==
    /\ MayBegin /\ \E o \in Revisions : MayBeActive(o) /\ visible = row[o].target
    /\ blobs' = blobs \cup {text}
    /\ pc' = "commit" /\ Begin("save", text, visible)

\* reconcile_external_idempotent, and import_external_changes_if_uncontested
\* with the visible text: the external bytes become a blob too.
ReconcileExternal(text) ==
    /\ MayBegin /\ count > 0 /\ visible # Absent
    /\ blobs' = blobs \cup {text, visible}
    /\ pc' = "commit" /\ Begin("reconcile", text, visible)

\* import_file and save_document: the caller's text, whatever is visible, once
\* no deletion is left to be settled.
ImportFile(text) ==
    /\ MayBegin /\ ~Live
    /\ pc' = "hash" /\ Begin("overwrite", text, Absent)
    /\ UNCHANGED blobs

\* checkpoint_visible reads the file, and save_content hashes it again later.
CheckpointVisible == visible # Absent /\ ImportFile(visible)

\* save_content: whatever is visible now becomes the expected state.
HashVisible ==
    /\ pc = "hash" /\ pc' = "commit"
    /\ call' = [call EXCEPT !.seen = visible]
    /\ blobs' = blobs \cup {call.text}
    /\ UNCHANGED <<row, count, files, entry, removal, faults, edits, history>>

\* Inside the transaction adoption and reconciliation hash the file again, and
\* a deletion that is not settled stops every command.
Admissible == ~Live /\ (call.kind \in {"adopt", "reconcile"} => visible = call.seen)

RejectChanged ==
    /\ pc = "commit" /\ ~Admissible
    /\ pc' = "idle" /\ call' = NoCall
    /\ UNCHANGED <<durable, files, entry, removal, faults, edits, history>>

\* The revision, its receipt and its outbox row are one transaction.
Commit ==
    /\ pc = "commit" /\ Admissible
    /\ count' = count + 1
    /\ row' = [row EXCEPT ![count + 1] =
                  [target |-> call.text, expected |-> call.seen,
                   state |-> "pending", kind |-> call.kind]]
    /\ entry' = [row |-> count + 1, seen |-> Absent, sweep |-> FALSE]
    /\ pc' = "look" /\ call' = NoCall
    /\ clean' = (visible = call.seen /\ Pending = {})
    /\ stacked' = (stacked \/ Pending # {})
    /\ UNCHANGED <<blobs, files, removal, faults, edits, edited>>

-----------------------------------------------------------------------------
(* process_outbox_entry, one action per file operation.                    *)

Target == row[entry.row].target
Expected == row[entry.row].expected
Staged == previous[entry.row]

Project(o, sweep) ==
    /\ pc' = "look"
    /\ entry' = [row |-> o, seen |-> Absent, sweep |-> sweep]

\* The entry is applied, or in conflict and left pending; recover goes on with
\* the next pending row.
Return ==
    LET rest == {o \in Pending : o > entry.row}
    IN  IF entry.sweep /\ rest # {}
          THEN \E o \in rest : (\A other \in rest : o <= other) /\ Project(o, TRUE)
          ELSE pc' = "idle" /\ entry' = NoEntry

\* The caller of a committed command sends it again.
Replay(o) ==
    /\ pc = "idle" /\ o <= count /\ row[o].kind \in Idempotent
    /\ Project(o, FALSE)
    /\ UNCHANGED <<durable, files, call, removal, faults, edits, history>>

Recover ==
    /\ pc = "idle"
    /\ \E o \in Pending : (\A other \in Pending : o <= other) /\ Project(o, TRUE)
    /\ UNCHANGED <<durable, files, call, removal, faults, edits, history>>

\* A row of a deleted document is completed without a projection.
Look ==
    /\ pc = "look"
    /\ IF row[entry.row].state = "completed" \/ Deleted
         THEN Return
         ELSE pc' = "decide" /\ entry' = [entry EXCEPT !.seen = visible]
    /\ row' = IF Deleted THEN [row EXCEPT ![entry.row].state = "completed"] ELSE row
    /\ UNCHANGED <<count, blobs, files, call, removal, faults, edits, history>>

Goto(next) == pc' = next /\ UNCHANGED entry

\* Mutant of Decide: a staging file left by an earlier attempt is always a conflict.
DecideNoResume ==
    /\ pc = "decide"
    /\ \/ entry.seen = Target /\ Goto("drop")
       \/ entry.seen # Target /\ Staged # Absent /\ Return
       \/ /\ entry.seen # Target /\ Staged = Absent
          /\ IF entry.seen # Expected THEN Return ELSE Goto("capture")
    /\ UNCHANGED <<durable, files, call, removal, faults, edits, history>>

\* What to do about the hash that was seen and about a staging file that an
\* earlier attempt left behind.
Decide ==
    /\ pc = "decide"
    /\ \/ entry.seen = Target /\ Goto("drop")
       \/ /\ entry.seen # Target /\ Staged # Absent
          /\ \/ /\ Staged # Expected
                /\ IF entry.seen = Absent THEN Goto("relink") ELSE Return
             \/ Staged = Expected /\ entry.seen = Expected /\ Goto("discard")
             \/ Staged = Expected /\ entry.seen \notin {Expected, Absent} /\ Return
             \/ Staged = Expected /\ entry.seen = Absent /\ Goto("install")
       \/ /\ entry.seen # Target /\ Staged = Absent
          /\ IF entry.seen # Expected THEN Return ELSE Goto("capture")
    /\ UNCHANGED <<durable, files, call, removal, faults, edits, history>>

\* remove_if_present of the staging file.
Unstage ==
    /\ previous' = [previous EXCEPT ![entry.row] = Absent]
    /\ linked' = linked \ {entry.row}
    /\ UNCHANGED visible

Discard ==
    /\ pc = "discard" /\ Unstage /\ Goto("capture")
    /\ UNCHANGED <<durable, call, removal, faults, edits, history>>

\* fs::rename of whatever the visible name names now.
Capture ==
    /\ pc = "capture"
    /\ \/ Expected = Absent /\ Goto("install") /\ UNCHANGED files
       \/ Expected # Absent /\ visible = Absent /\ Return /\ UNCHANGED files
       \/ /\ Expected # Absent /\ visible # Absent
          /\ previous' = [previous EXCEPT ![entry.row] = visible]
          /\ visible' = Absent /\ linked' = {}
          /\ Goto("check")
    /\ UNCHANGED <<durable, call, removal, faults, edits, history>>

\* Mutant of Check: what was captured is not compared with the expected hash.
CheckNothing ==
    /\ pc = "check" /\ Goto("install")
    /\ UNCHANGED <<durable, files, call, removal, faults, edits, history>>

Check ==
    /\ pc = "check"
    /\ Goto(IF Staged = Expected THEN "install" ELSE "relink")
    /\ UNCHANGED <<durable, files, call, removal, faults, edits, history>>

\* hard_link_if_absent of the staging file.
LinkBack ==
    IF visible = Absent /\ Staged # Absent
      THEN visible' = Staged /\ linked' = {entry.row} /\ UNCHANGED previous
      ELSE UNCHANGED files

Relink ==
    /\ pc = "relink" /\ LinkBack /\ Return
    /\ UNCHANGED <<durable, call, removal, faults, edits, history>>

\* atomic_install_if_absent.
Install ==
    /\ pc = "install"
    /\ IF visible = Absent
         THEN visible' = Target /\ Goto("verify") /\ UNCHANGED <<previous, linked>>
         ELSE Return /\ UNCHANGED files
    /\ UNCHANGED <<durable, call, removal, faults, edits, history>>

Verify ==
    /\ pc = "verify"
    /\ IF visible = Target THEN Goto("drop") ELSE Return
    /\ UNCHANGED <<durable, files, call, removal, faults, edits, history>>

Drop ==
    /\ pc = "drop" /\ Unstage /\ Goto("complete")
    /\ UNCHANGED <<durable, call, removal, faults, edits, history>>

CompleteOutbox ==
    /\ pc = "complete"
    /\ row' = [row EXCEPT ![entry.row].state = "completed"]
    /\ Return
    /\ UNCHANGED <<count, blobs, files, call, removal, faults, edits, history>>

-----------------------------------------------------------------------------
(* delete_document_file_idempotent.                                        *)

\* The file is opened and read; a deletion that was aborted may be sent again.
DeleteDocument(o) ==
    /\ pc = "idle" /\ MayBeActive(o)
    /\ \/ deletion.state = "none"
       \/ deletion.state = "aborted" /\ deletion.row = o
    /\ Pending = {} /\ visible = row[o].target
    /\ held' = TRUE /\ clean' = FALSE
    /\ pc' = "prepare" /\ entry' = [row |-> o, seen |-> Absent, sweep |-> FALSE]
    /\ UNCHANGED <<durable, files, deletion, slot, call, faults, edits, edited, stacked>>

Settle(state) == deletion' = [deletion EXCEPT !.state = state]

Leave == pc' = "idle" /\ entry' = NoEntry /\ held' = FALSE

Prepare ==
    /\ pc = "prepare" /\ Goto("take")
    /\ deletion' = [state |-> "prepared", row |-> entry.row]
    /\ UNCHANGED <<durable, files, slot, held, call, faults, edits, history>>

\* rename_if_absent to the slot, and whether it moved the file that was read.
Take ==
    /\ pc = "take"
    /\ \/ /\ visible # Absent /\ slot = Absent
          /\ slot' = visible /\ visible' = Absent /\ linked' = {}
          /\ Goto(IF held THEN "exact" ELSE "giveback") /\ UNCHANGED previous
       \/ visible # Absent /\ slot # Absent /\ Goto("retire") /\ UNCHANGED <<files, slot>>
       \/ visible = Absent /\ Goto("giveback") /\ UNCHANGED <<files, slot>>
    /\ UNCHANGED <<durable, deletion, held, call, faults, edits, history>>

\* restore_captured_path_no_clobber.
GiveBack ==
    /\ pc = "giveback" /\ Goto("retire")
    /\ IF slot # Absent /\ visible = Absent
         THEN visible' = slot /\ slot' = Absent /\ UNCHANGED <<previous, linked>>
         ELSE UNCHANGED <<files, slot>>
    /\ UNCHANGED <<durable, deletion, held, call, faults, edits, history>>

Retire ==
    /\ pc = "retire" /\ Settle("aborted") /\ Leave
    /\ UNCHANGED <<durable, files, slot, call, faults, edits, history>>

\* Mutant of Exact: the captured file is not hashed again.
ExactUnchecked ==
    /\ pc = "exact" /\ Settle("captured") /\ Goto("erase") /\ UNCHANGED held
    /\ UNCHANGED <<durable, files, slot, call, faults, edits, history>>

\* The captured file is hashed again; other bytes leave the deletion live.
Exact ==
    /\ pc = "exact"
    /\ \/ slot = Condemned /\ Settle("captured") /\ Goto("erase") /\ UNCHANGED held
       \/ slot # Condemned /\ Leave /\ UNCHANGED deletion
    /\ UNCHANGED <<durable, files, slot, call, faults, edits, history>>

Erase ==
    /\ pc = "erase" /\ Settle("committed") /\ Leave
    /\ UNCHANGED <<durable, files, slot, call, faults, edits, history>>

(***************************************************************************)
(* recover_document_delete_operations: the slot decides about a deletion   *)
(* that was interrupted, and with other bytes in it nothing is decided.    *)
(***************************************************************************)
Decidable == slot \in {Absent, Condemned}

RecoverDeletion == Settle(IF slot = Absent THEN "aborted" ELSE "committed")

\* reconcile_document_lifecycle, in front of saves, reads and snapshots.
ReconcileLifecycle ==
    /\ pc = "idle" /\ Live /\ Decidable /\ RecoverDeletion
    /\ UNCHANGED <<durable, files, slot, held, process, faults, edits, history>>

-----------------------------------------------------------------------------
(* Faults and the editor.                                                  *)

\* An I/O or database error ends the command; a failed install first tries
\* to put the captured file back.
Fail ==
    /\ pc \in Projecting \cup Deleting \cup {"hash", "commit"} /\ faults < MaxFaults
    /\ faults' = faults + 1
    /\ pc' = "idle" /\ call' = NoCall /\ entry' = NoEntry
    /\ IF pc = "install" THEN LinkBack ELSE UNCHANGED files
    /\ held' = FALSE
    /\ UNCHANGED <<durable, deletion, slot, edits, history>>

Crash ==
    /\ pc # "down" /\ faults < MaxFaults
    /\ faults' = faults + 1
    /\ pc' = "down" /\ call' = NoCall /\ entry' = NoEntry
    /\ held' = FALSE
    /\ UNCHANGED <<durable, files, deletion, slot, edits, history>>

\* The project is opened, which it cannot be before its deletions are settled.
Restart ==
    /\ pc = "down" /\ pc' = "idle"
    /\ IF Live THEN Decidable /\ RecoverDeletion ELSE UNCHANGED deletion
    /\ UNCHANGED <<durable, files, slot, held, call, entry, faults, edits, history>>

Edited(text) ==
    /\ text # visible /\ edits < MaxEdits /\ edits' = edits + 1
    /\ visible' = text /\ edited' = text /\ clean' = FALSE
    /\ UNCHANGED <<durable, deletion, slot, process, faults, stacked>>

\* Editors that write a new file and rename it into place.
EditReplace(text) ==
    /\ Edited(text) /\ linked' = {} /\ UNCHANGED previous
    /\ held' = (held /\ pc = "exact")

\* Editors that open the visible file and write it.
EditInPlace(text) ==
    /\ visible # Absent /\ (linked # {} \/ held) /\ Edited(text)
    /\ previous' = [o \in Revisions |-> IF o \in linked THEN text ELSE previous[o]]
    /\ UNCHANGED <<linked, held>>

EditDelete ==
    /\ Edited(Absent)
    /\ linked' = {} /\ UNCHANGED previous
    /\ held' = (held /\ pc = "exact")

-----------------------------------------------------------------------------
Admit ==
    \/ \E t \in Texts : CreateDocument(t) \/ SaveIfSource(t) \/ ReconcileExternal(t)
    \/ AdoptVisibleDocument \/ CheckpointVisible
    \/ \E t \in Texts : ImportFile(t)
    \/ \E o \in Revisions : Replay(o) \/ DeleteDocument(o)

\* What the process does once a command has begun.
Advance ==
    \/ HashVisible \/ RejectChanged \/ Commit
    \/ Look \/ Decide \/ Discard \/ Capture \/ Check \/ Relink
    \/ Install \/ Verify \/ Drop \/ CompleteOutbox
    \/ Prepare \/ Take \/ GiveBack \/ Retire \/ Exact \/ Erase

Editor == (\E t \in Texts : EditReplace(t) \/ EditInPlace(t)) \/ EditDelete

\* What settles a command that was interrupted.
Resume == Recover \/ ReconcileLifecycle

Next == Admit \/ Resume \/ Advance \/ Fail \/ Crash \/ Restart \/ Editor

Spec == Init /\ [][Next]_vars

(***************************************************************************)
(* A process that runs goes on, a project is opened again after a crash,   *)
(* and its owner recovers it and uses its documents again and again        *)
(* (opening the default project recovers it, project_recover is offered in *)
(* every other one, and every read or save settles deletions).             *)
(***************************************************************************)
FairSpec ==
    Spec /\ WF_vars(Advance) /\ WF_vars(Restart) /\ SF_vars(Resume)

-----------------------------------------------------------------------------
(* Correctness.                                                            *)

Kept == blobs \cup {visible, slot} \cup {previous[o] : o \in Revisions}

Overwritten == \E o \in Revisions : row[o].kind = "overwrite"

(***************************************************************************)
(* What an editor left at the visible name is never lost: it is visible,   *)
(* in a staging file, the slot or a blob, wherever a projection, a         *)
(* deletion, a crash or an error met it.  Two exceptions: save_content     *)
(* takes any file as its predecessor and keeps no copy of it, and rows     *)
(* that were pending together may undo each other (see                     *)
(* CapturedBytesRetained).                                                 *)
(***************************************************************************)
EditSurvives ==
    ~Overwritten /\ ~stacked /\ edited # Absent => edited \in Kept

(***************************************************************************)
(* The comment at the replacement boundary of process_outbox_entry: "The   *)
(* bytes at the replacement boundary are retained under                    *)
(* `.loom/backups/outbox` and restored without clobbering any newer file   *)
(* an external editor may already have installed", for every document that *)
(* was only created, saved and reconciled against the source it names.     *)
(***************************************************************************)
CapturedBytesRetained == ~Overwritten /\ edited # Absent => edited \in Kept

(***************************************************************************)
(* Crash consistency of process_outbox_entry: while no editor interferes,  *)
(* the newest row finds at every instant what it needs to be completed,    *)
(* and once it is completed the file shows its revision.                   *)
(***************************************************************************)
Recoverable ==
    clean /\ count > 0 =>
        LET r == row[count]
        IN  \/ visible = r.target
            \/ /\ r.state = "pending"
               /\ \/ visible = r.expected /\ previous[count] \in {Absent, r.expected}
                  \/ visible = Absent /\ previous[count] = r.expected

\* A completed row leaves no staging file behind, and the bytes that a row
\* projects were stored before it was committed.
Collected ==
    \A o \in Revisions :
        /\ row[o].state = "completed" => previous[o] = Absent
        /\ row[o].state # "none" => row[o].target \in blobs

(***************************************************************************)
(* A tombstone is for the bytes that the deletion named, which the slot    *)
(* keeps, and no row is left that could be projected: "neither candidate   *)
(* promotion nor crash recovery can resurrect a deleted pathname"          *)
(* (products/loom/docs/format-v1.md).                                      *)
(***************************************************************************)
DeletedExactly == Deleted => slot = Condemned /\ Pending = {}

(***************************************************************************)
(* What holds at every crash point: a projection that nobody interferes    *)
(* with can be resumed, it leaves neither staging files nor rows without   *)
(* bytes, and a tombstone is exact and final.                              *)
(***************************************************************************)
StoreInv == TypeOK /\ Recoverable /\ Collected /\ DeletedExactly

Unsettled ==
    \/ clean /\ row[count].state # "completed"
    \/ Live /\ Decidable

(***************************************************************************)
(* A revision that was committed is projected in the end, whatever the     *)
(* crashes and errors in between, unless an editor or a newer revision     *)
(* interferes; and a deletion that was interrupted is settled, unless it   *)
(* moved other bytes than it named.                                        *)
(***************************************************************************)
CommandsSettle == Unsettled ~> ~Unsettled
=============================================================================
