----------------------------- MODULE MCDelivery -----------------------------
(* Values for the constants of Delivery. *)
EXTENDS Diagnosis, TLC

K(u, o) == [urgency |-> u, object |-> o]

(* One net object whose monitor escalates from normal to high. *)
Escalating == {K("high", "n"), K("normal", "n")}

(* Besides it, a low-urgency prose object. *)
AllBands == Escalating \cup {K("low", "p")}

Symmetry == Permutations(Reservations)
=============================================================================
