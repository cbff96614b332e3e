----------------------------- MODULE ScreenRows -----------------------------
(* The rows of the table of pages: the form a row takes where a page does      *)
(* nothing unusual.                                                            *)

\* load() from an effect without a cleanup; it clears the error when it starts.
Loads == [loads |-> TRUE, keyed |-> FALSE, drops |-> FALSE, blanks |-> "no", single |-> FALSE,
          polls |-> FALSE, mute |-> FALSE, hush |-> "asked"]
LoadsNothing == [Loads EXCEPT !.loads = FALSE]

\* A handler that marks its slot, clears the error, calls, and frees the slot in its
\* finally; then says what it does with a success.
Does(slot, mark, then) ==
  [slot |-> slot, mark |-> mark, then |-> then, frees |-> "always", hush |-> TRUE,
   error |-> "page", paints |-> "no", leaves |-> "no"]
\* The same without clearing the error first, and with an error of its own.
Keeps(op)   == [op EXCEPT !.hush = FALSE]
OwnError(op) == [op EXCEPT !.error = "own"]

\* What is rendered: an error beside the data or in place of it, the button that loads
\* again, the operations offered on each row, in a form, or by a control never closed.
Beside == [hides |-> FALSE, retry |-> "error", rows |-> {}, forms |-> {}, bare |-> {}]
InPlace == [Beside EXCEPT !.hides = TRUE]
Row(load, ops, view) == [load |-> load, ops |-> ops, view |-> view]
NoOps == [o \in {} |-> Does("none", "no", "note")]
=============================================================================
