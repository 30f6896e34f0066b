------------------------------ MODULE Cursors -------------------------------
(***************************************************************************)
(* The per-recipient baseline of each object, on top of Delivery: the      *)
(* session_object_cursor row, the delta recorded with each projected row   *)
(* (session_event_state.diff_text), and what a claim does to both          *)
(* (libs/core/src/runtime/store.ts).  The artifact of a row is the row     *)
(* itself, 0 the snapshot stored before the session's first row of an      *)
(* object; a delta is known by the artifact it spans from.                 *)
(***************************************************************************)
EXTENDS Delivery

CONSTANT FirstSeen      \* objects with no snapshot before their first row

VARIABLES
    cursor,     \* per object: the artifact of session_object_cursor
    base        \* per row: the artifact its delta spans from

Objects == {k.object : k \in Kinds}
NoDelta == MaxEvents + 1
Artifacts == 0..MaxEvents
cVars == <<vars, cursor, base>>

RowsOf(o) == {e \in born : kind[e].object = o}
NewestIn(S) == CHOOSE e \in S : \A f \in S : f <= e

CInit ==
    /\ Init
    /\ cursor = [o \in Objects |-> 0]
    /\ base = [e \in Events |-> NoDelta]

(* insertEvent: a first projection seeds the cursor with the snapshot      *)
(* before the row, or with the row itself when there is none, and never    *)
(* moves an existing one; the delta spans from the cursor.                 *)
Mut_DiffsAfterSeeding(e, o) ==
    /\ cursor' = [cursor EXCEPT ![o] = IF RowsOf(o) = {} THEN e ELSE cursor[o]]
    /\ base' = [base EXCEPT ![e] = cursor'[o]]
Mut_AdvancesAtProjection(e, o) ==
    base' = [base EXCEPT ![e] = cursor[o]] /\ cursor' = [cursor EXCEPT ![o] = e]
Project(e, o) ==
    IF RowsOf(o) = {} /\ o \in FirstSeen
    THEN cursor' = [cursor EXCEPT ![o] = e] /\ UNCHANGED base
    ELSE base' = [base EXCEPT ![e] = cursor[o]] /\ UNCHANGED cursor

(* collapseNetForClaim spans the newest row of a group that collapses from *)
(* the cursor as it stands at the claim.                                   *)
Reanchored(p) ==
    {e \in Delivered(p.cands) : \E f \in p.cands : f < e /\ SameGroup(e, f)}

(* markClaimed then moves the cursor of every claimed object to the newest *)
(* row of the claimed set, wherever the cursor was.                        *)
Mark(p) ==
    /\ base' = [e \in Events |->
                  IF e \in Reanchored(p) THEN cursor[kind[e].object] ELSE base[e]]
    /\ cursor' = [o \in Objects |->
                    LET mine == p.cands \cap RowsOf(o)
                    IN  IF mine = {} THEN cursor[o] ELSE NewestIn(mine)]

CNext ==
    \/ \E e \in Events, k \in Kinds, a \in 0..Settle :
            Materialize(e, k, a) /\ Project(e, k.object)
    \/ \E lifecycle \in Lifecycles : \E p \in Decide(lifecycle, MaxEvents) :
            ClaimNow(p) /\ Mark(p)
    \/ \E r \in Reservations :
            /\ Commit(r)
            /\ IF lease[r] > 0 THEN Mark(plan[r]) ELSE UNCHANGED <<cursor, base>>
    \/ /\ UNCHANGED <<cursor, base>>
       /\ \/ \E verdict \in {"deliver", "suppress"} : Interpret(verdict)
          \/ TickEnds
          \/ AckAll
          \/ \E e \in Events : AckOne(e)
          \/ \E r \in Reservations, lifecycle \in Lifecycles, limit \in 0..MaxEvents :
                Reserve(r, lifecycle, limit)
          \/ \E r \in Reservations : Surface(r) \/ Release(r) \/ ClientGone(r)
          \/ Elapse
          \/ DaemonRestart

CSpec == CInit /\ [][CNext]_cVars

----------------------------------------------------------------------------
(* Where an object's rows are projected in the order they were observed in,*)
(* a row not yet claimed spans forward from an older artifact: its first   *)
(* delivery is never an empty or a backward delta, whatever was claimed    *)
(* between its projection and its claim.                                   *)
FreshDeltaMovesForward == \A e \in Pending : base[e] = NoDelta \/ base[e] < e

(* "A recipient that stayed away keeps spanning from its last-seen point   *)
(* across multiple shared observations" (insertEvent): until the session   *)
(* claims a row of an object, all its rows span from one artifact.         *)
AwayKeepsItsBaseline ==
    \A o \in Objects :
        Claimed \cap RowsOf(o) = {} =>
            \A e \in RowsOf(o) : base[e] \in {cursor[o], NoDelta}

(* docs/specs/002 1.1.7: "The per-recipient cursor still advances to the   *)
(* newest claimed artifact": of the rows of an object the session has      *)
(* claimed, the cursor stands at the newest.                               *)
CursorAtNewestClaimed ==
    \A o \in Objects :
        LET mine == Claimed \cap RowsOf(o)
        IN  mine # {} => cursor[o] = NewestIn(mine)

(* docs/specs/002 9.1: diffText is "the diff THIS recipient's own baseline *)
(* cursor produces against the shared observation": the delta kept with an *)
(* unread row leads to its artifact from another one, so it is not empty.  *)
DeltaSaysSomething == \A e \in Unread : base[e] # e
=============================================================================
