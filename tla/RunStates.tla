------------------------------ MODULE RunStates ------------------------------
(***************************************************************************)
(* The four values of the one-byte run control that                        *)
(* crates/operation-lifecycle/src/lib.rs shares between a canceller and    *)
(* the executor that claims the terminal boundary, and what each of its    *)
(* operations reads or writes.  Every operation of `RunControl' has one    *)
(* linearization point, so a caller that runs it in one of its own steps   *)
(* uses these operators; module RunControl shows that the load and         *)
(* compare-exchange instructions really behave as those single steps.      *)
(***************************************************************************)

RUNNING            == "running"
CANCEL_REQUESTED   == "cancel_requested"
TERMINAL           == "terminal"
TERMINAL_CANCELLED == "terminal_cancelled"

RunStateSet == {RUNNING, CANCEL_REQUESTED, TERMINAL, TERMINAL_CANCELLED}

\* RunControl::new
NewControl(cancelled) == IF cancelled THEN CANCEL_REQUESTED ELSE RUNNING

\* The value RunControl::request_cancel leaves behind: its one
\* compare-exchange succeeds from RUNNING only.
CancelRequest(c) == IF c = RUNNING THEN CANCEL_REQUESTED ELSE c

\* RunControl::cancellation_requested
CancellationRequested(c) == c \in {CANCEL_REQUESTED, TERMINAL_CANCELLED}

\* RunControl::is_terminal
IsTerminal(c) == c \in {TERMINAL, TERMINAL_CANCELLED}

\* The value RunControl::claim_terminal tries to install over a non-terminal c.
TerminalOf(c) == IF c = RUNNING THEN TERMINAL ELSE TERMINAL_CANCELLED
=============================================================================
