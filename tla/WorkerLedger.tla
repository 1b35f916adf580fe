---------------------------- MODULE WorkerLedger ----------------------------
(***************************************************************************)
(* WorkerLedger<K> of crates/operation-lifecycle/src/lib.rs as a value:    *)
(* the identities of workers whose join handle nobody has consumed yet,    *)
(* and a bounded, oldest-first history of those that were joined.          *)
(***************************************************************************)
EXTENDS Naturals, Sequences

NewLedger(history_capacity) ==
    [outstanding |-> {}, joined |-> {}, joined_order |-> <<>>,
     history_capacity |-> history_capacity]

\* note_started answers false, and changes nothing, for an identity it knows.
CanNoteStarted(ledger, identity) ==
    identity \notin ledger.joined /\ identity \notin ledger.outstanding

NoteStarted(ledger, identity) ==
    [ledger EXCEPT !.outstanding = @ \cup {identity}]

\* note_joined answers false, and changes nothing, unless it is outstanding.
CanNoteJoined(ledger, identity) == identity \in ledger.outstanding

\* The history after the push, and how many of its oldest entries the
\* eviction loop pops.
Pushed(ledger, identity) == Append(ledger.joined_order, identity)
Excess(ledger) ==
    IF Len(ledger.joined_order) + 1 > ledger.history_capacity
      THEN Len(ledger.joined_order) + 1 - ledger.history_capacity
      ELSE 0

NoteJoined(ledger, identity) ==
    LET order   == Pushed(ledger, identity)
        evicted == {order[k] : k \in 1 .. Excess(ledger)}
    IN  [ledger EXCEPT
            !.outstanding  = @ \ {identity},
            !.joined       = (@ \cup {identity}) \ evicted,
            !.joined_order = SubSeq(order, Excess(ledger) + 1, Len(order))]

WasJoined(ledger, identity) == identity \in ledger.joined

Expected(ledger) == ledger.outstanding \cup ledger.joined
=============================================================================
