----------------------------- MODULE MCCursors ------------------------------
(* Values for the constants of Cursors. *)
EXTENDS Cursors

(* One object, always at the same urgency, so that its rows are projected  *)
(* in the order they were observed in.                                     *)
HighOnly == {[urgency |-> "high", object |-> "n"]}
=============================================================================
