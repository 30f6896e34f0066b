--------------------------- MODULE CursorsProofs ----------------------------
(***************************************************************************)
(* The per-recipient cursors, for every number of rows and reservations,   *)
(* every set of objects, first seen or not, net or not.                    *)
(***************************************************************************)
EXTENDS Cursors, DeliveryProofs

(* Every object is always high or never: only then are its rows projected  *)
(* in the order they were observed in (high is debounced by default, the   *)
(* others are emitted at once).                                            *)
ObservedInOrder ==
    \A j, k \in Kinds : j.object = k.object => (j.urgency = "high" <=> k.urgency = "high")

(* A cursor stands at the snapshot or at a row of its object; a row to     *)
(* come has neither a delta nor a claim.                                   *)
CursorInv ==
    /\ cursor \in [Objects -> Artifacts]
    /\ base \in [Events -> Artifacts \cup {NoDelta}]
    /\ \A o \in Objects : cursor[o] = 0 \/ cursor[o] \in RowsOf(o)
    /\ \A e \in Events \ born : base[e] = NoDelta /\ claim[e] = "none"

CIInv == TypeOK /\ CursorInv /\ AwayKeepsItsBaseline

-----------------------------------------------------------------------------
(***************************************************************************)
(* The cursors follow the delivery: they never hinder it, so all that is   *)
(* proved of Delivery holds here.                                          *)
(***************************************************************************)

LEMMA CStepIsStep == [CNext]_cVars => [Next]_vars
<1> SUFFICES ASSUME [CNext]_cVars PROVE [Next]_vars
  OBVIOUS
<1>1. CASE \E e \in Events, k \in Kinds, a \in 0..Settle :
             Materialize(e, k, a) /\ Project(e, k.object)
  BY <1>1 DEF Next
<1>2. CASE \E lifecycle \in Lifecycles : \E p \in Decide(lifecycle, MaxEvents) :
             ClaimNow(p) /\ Mark(p)
  BY <1>2 DEF Next, DirectClaim
<1>3. CASE \E r \in Reservations :
             /\ Commit(r)
             /\ IF lease[r] > 0 THEN Mark(plan[r]) ELSE UNCHANGED <<cursor, base>>
  BY <1>3 DEF Next
<1>4. CASE UNCHANGED cVars
  BY <1>4 DEF cVars
<1>5. QED
  BY <1>1, <1>2, <1>3, <1>4 DEF CNext, Next

(* Moving cursors never decides what is delivered: every behaviour of the  *)
(* cursors is one of the delivery core.                                    *)
THEOREM CursorsOnlyFollow == CSpec => Spec
<1>1. CInit => Init
  BY DEF CInit
<1>2. QED
  BY <1>1, CStepIsStep, PTL DEF CSpec, Spec

-----------------------------------------------------------------------------
(***************************************************************************)
(* The steps that move a cursor.                                           *)
(***************************************************************************)

LEMMA NewestIsIn ==
    ASSUME NEW S \in SUBSET Events, S # {}
    PROVE  NewestIn(S) \in S /\ \A f \in S : f <= NewestIn(S)
BY NewestExists DEF NewestIn

LEMMA ArtifactsAre ==
    /\ 0 \in Artifacts /\ Events \subseteq Artifacts /\ Artifacts \subseteq Nat
    /\ \A e \in Events : e > 0
BY BoundsAssumption DEF Artifacts, Events

(* Marking a plan of rows of the session: those rows are claimed, the      *)
(* other rows keep their delta, and the objects it has no row of their     *)
(* cursor.                                                                 *)
LEMMA MarkKeepsCursors ==
    ASSUME TypeOK, CursorInv, AwayKeepsItsBaseline,
           NEW p, p.cands \subseteq born, p.cands = {} \/ p.mode # "none",
           Apply(p), Mark(p), UNCHANGED <<born, kind>>
    PROVE  /\ CursorInv' /\ AwayKeepsItsBaseline'
           /\ \A e \in Pending' : e \in Pending /\ base'[e] = base[e]
<1>1. born \subseteq Events /\ \A o : RowsOf(o)' = RowsOf(o) /\ RowsOf(o) \subseteq Events
  BY DEF TypeOK, RowsOf
<1>2. \A e \in Events : claim'[e] = IF e \in p.cands THEN p.mode ELSE claim[e]
  BY DEF Apply
<1>3. Claimed' = Claimed \cup p.cands
  BY <1>1, <1>2 DEF Claimed
<1>4. \A e \in born : kind[e].object \in Objects
  BY DEF TypeOK, Objects
<1>5. Reanchored(p) \subseteq p.cands
  BY DEF Reanchored, Delivered
<1>6. \A e \in Events \ p.cands : base'[e] = base[e]
  BY <1>5 DEF Mark
<1>7. base' \in [Events -> Artifacts \cup {NoDelta}]
  <2>1. \A e \in Reanchored(p) : cursor[kind[e].object] \in Artifacts
    BY <1>4, <1>5 DEF CursorInv
  <2>2. \A e \in Events : base[e] \in Artifacts \cup {NoDelta}
    BY DEF CursorInv
  <2>3. QED
    BY <2>1, <2>2 DEF Mark
<1>8. ASSUME NEW o \in Objects
      PROVE  /\ p.cands \cap RowsOf(o) = {} => cursor'[o] = cursor[o]
             /\ p.cands \cap RowsOf(o) # {} => cursor'[o] \in RowsOf(o)
  <2>1. cursor'[o] = IF p.cands \cap RowsOf(o) = {} THEN cursor[o]
                     ELSE NewestIn(p.cands \cap RowsOf(o))
    BY DEF Mark
  <2>2. p.cands \cap RowsOf(o) # {} => NewestIn(p.cands \cap RowsOf(o)) \in p.cands \cap RowsOf(o)
    BY <1>1, NewestIsIn
  <2>3. QED
    BY <2>1, <2>2
<1>9. cursor' \in [Objects -> Artifacts]
  <2>1. \A o \in Objects : cursor'[o] \in Artifacts
    BY <1>1, <1>8, ArtifactsAre DEF CursorInv
  <2>2. cursor' = [o \in Objects |-> cursor'[o]]
    BY DEF Mark
  <2>3. QED
    BY <2>1, <2>2
<1>10. CursorInv'
  <2>1. \A e \in Events \ born : base'[e] = NoDelta /\ claim'[e] = "none"
    BY <1>2, <1>6 DEF CursorInv
  <2>2. \A o \in Objects : cursor'[o] = 0 \/ cursor'[o] \in RowsOf(o)
    BY <1>8 DEF CursorInv
  <2>3. QED
    BY <1>1, <1>7, <1>9, <2>1, <2>2 DEF CursorInv
<1>11. AwayKeepsItsBaseline'
  <2>1. SUFFICES ASSUME NEW o \in Objects, Claimed' \cap RowsOf(o) = {},
                        NEW e \in RowsOf(o)
                 PROVE  base'[e] \in {cursor'[o], NoDelta}
    BY <1>1 DEF AwayKeepsItsBaseline
  <2>2. p.cands \cap RowsOf(o) = {} /\ Claimed \cap RowsOf(o) = {}
    BY <1>3, <2>1
  <2>3. cursor'[o] = cursor[o] /\ base'[e] = base[e]
    BY <1>1, <1>6, <1>8, <2>2
  <2>4. QED
    BY <2>2, <2>3 DEF AwayKeepsItsBaseline
<1>12. ASSUME NEW e \in Pending' PROVE e \in Pending /\ base'[e] = base[e]
  <2>1. e \in born /\ e \notin Claimed'
    BY DEF Pending, Unread
  <2>2. e \notin p.cands /\ e \in Events
    BY <1>1, <1>3, <2>1
  <2>3. e \in Unread
    BY DEF Pending, Unread, Apply
  <2>4. QED
    BY <1>3, <1>6, <2>1, <2>2, <2>3 DEF Pending
<1>13. QED
  BY <1>10, <1>11, <1>12

(* Projecting a row leaves every other row's delta alone, and gives this   *)
(* one the cursor, or nothing.                                             *)
LEMMA ProjectKeepsCursors ==
    ASSUME TypeOK, CursorInv, AwayKeepsItsBaseline,
           NEW e \in Events, NEW k \in Kinds, NEW a \in 0..Settle,
           Materialize(e, k, a), Project(e, k.object)
    PROVE  /\ CursorInv' /\ AwayKeepsItsBaseline'
           /\ \A f \in Events \ {e} : base'[f] = base[f]
           /\ base'[e] \in {cursor[k.object], NoDelta}
<1> DEFINE o == k.object
<1>1. /\ e \notin born /\ born' = born \cup {e} /\ UNCHANGED markVars
      /\ kind' = [kind EXCEPT ![e] = k]
      /\ born \subseteq Events /\ kind \in [Events -> Kinds \cup {NoKind}]
  BY DEF Materialize, TypeOK
<1>2. o \in Objects
  BY DEF Objects
<1>3. /\ RowsOf(o)' = RowsOf(o) \cup {e}
      /\ \A x : x # o => RowsOf(x)' = RowsOf(x)
      /\ \A x : e \notin RowsOf(x)
  BY <1>1 DEF RowsOf
<1>4. Claimed' = Claimed /\ Claimed \subseteq born
  BY <1>1 DEF Claimed, markVars, CursorInv
<1>5. base[e] = NoDelta /\ e \in Artifacts /\ cursor[o] \in Artifacts
  BY <1>1, <1>2, ArtifactsAre DEF CursorInv
<1>6. CASE RowsOf(o) = {} /\ o \in FirstSeen
  <2>1. cursor' = [cursor EXCEPT ![o] = e] /\ base' = base
    BY <1>6 DEF Project
  <2>2. cursor'[o] = e /\ \A x \in Objects \ {o} : cursor'[x] = cursor[x]
    BY <1>2, <2>1 DEF CursorInv
  <2>3. CursorInv'
    BY <1>1, <1>3, <1>5, <2>1, <2>2 DEF CursorInv, markVars
  <2>4. AwayKeepsItsBaseline'
    BY <1>3, <1>4, <1>5, <1>6, <2>1, <2>2 DEF AwayKeepsItsBaseline
  <2>5. QED
    BY <1>5, <2>1, <2>3, <2>4
<1>7. CASE ~(RowsOf(o) = {} /\ o \in FirstSeen)
  <2>1. base' = [base EXCEPT ![e] = cursor[o]] /\ cursor' = cursor
    BY <1>7 DEF Project
  <2>2. base'[e] = cursor[o] /\ \A f \in Events \ {e} : base'[f] = base[f]
    BY <2>1 DEF CursorInv
  <2>3. CursorInv'
    BY <1>1, <1>3, <1>5, <2>1, <2>2 DEF CursorInv, markVars
  <2>4. AwayKeepsItsBaseline'
    <3>1. \A x : RowsOf(x) \subseteq Events \ {e}
      BY <1>1 DEF RowsOf
    <3>2. QED
      BY <1>3, <1>4, <2>1, <2>2, <3>1 DEF AwayKeepsItsBaseline
  <2>5. QED
    BY <2>2, <2>3, <2>4
<1>8. QED
  BY <1>6, <1>7
-----------------------------------------------------------------------------
(***************************************************************************)
(* Every other step.                                                       *)
(***************************************************************************)

(* A step that neither projects nor claims can only end the wait of rows.  *)
Quiet ==
    /\ UNCHANGED <<cursor, base, born, kind, claim, folded>>
    /\ acked \subseteq acked' /\ gated \subseteq gated'

LEMMA QuietKeepsCursors ==
    ASSUME CursorInv, AwayKeepsItsBaseline, Quiet
    PROVE  /\ CursorInv' /\ AwayKeepsItsBaseline'
           /\ \A e \in Pending' : e \in Pending /\ base'[e] = base[e]
<1>1. \A o : RowsOf(o)' = RowsOf(o)
  BY DEF Quiet, RowsOf
<1>2. Claimed' = Claimed /\ Pending' \subseteq Pending
  BY DEF Quiet, Claimed, Pending, Unread
<1>3. QED
  BY <1>1, <1>2 DEF Quiet, CursorInv, AwayKeepsItsBaseline

(* What a step is: a projection, a claim, or quiet. *)
LEMMA CStepCases ==
    ASSUME TypeOK, [CNext]_cVars
    PROVE  \/ \E e \in Events, k \in Kinds, a \in 0..Settle :
                 Materialize(e, k, a) /\ Project(e, k.object)
           \/ \E p : /\ p.cands \subseteq born /\ (p.cands = {} \/ p.mode # "none")
                     /\ Apply(p) /\ Mark(p) /\ UNCHANGED <<born, kind>>
           \/ Quiet
<1>1. ASSUME NEW lifecycle \in Lifecycles, NEW p \in Decide(lifecycle, MaxEvents),
             ClaimNow(p), Mark(p)
      PROVE  /\ p.cands \subseteq born /\ (p.cands = {} \/ p.mode # "none")
             /\ Apply(p) /\ Mark(p) /\ UNCHANGED <<born, kind>>
  <2>1. DecidedOK(p)
    BY DecideGivesOK, BoundsAssumption DEF TypeOK
  <2>2. QED
    BY <1>1, <2>1 DEF DecidedOK, PlanOK, ClaimNow, rowVars
<1>2. ASSUME NEW r \in Reservations, Commit(r), lease[r] > 0, Mark(plan[r])
      PROVE  /\ plan[r].cands \subseteq born /\ (plan[r].cands = {} \/ plan[r].mode # "none")
             /\ Apply(plan[r]) /\ Mark(plan[r]) /\ UNCHANGED <<born, kind>>
  BY <1>2 DEF TypeOK, PlanOK, Commit, rowVars
<1>3. ASSUME NEW r \in Reservations, Commit(r), ~(lease[r] > 0), UNCHANGED <<cursor, base>>
      PROVE  Quiet
  BY <1>3 DEF Quiet, Commit, rowVars, markVars
<1>4. ASSUME UNCHANGED <<cursor, base>>,
             \/ \E verdict \in {"deliver", "suppress"} : Interpret(verdict)
             \/ TickEnds
             \/ AckAll
             \/ \E e \in Events : AckOne(e)
             \/ \E r \in Reservations, lifecycle \in Lifecycles, limit \in 0..MaxEvents :
                   Reserve(r, lifecycle, limit)
             \/ \E r \in Reservations : Surface(r) \/ Release(r) \/ ClientGone(r)
             \/ Elapse
             \/ DaemonRestart
      PROVE  Quiet
  BY <1>4 DEF Quiet, Interpret, TickEnds, AckAll, AckOne, Reserve, Surface, Release,
              ClientGone, Elapse, DaemonRestart, rowVars, markVars
<1>5. CASE UNCHANGED cVars
  BY <1>5 DEF Quiet, cVars, vars, rowVars, markVars
<1>6. CASE CNext
  <2>1. CASE \E lifecycle \in Lifecycles : \E p \in Decide(lifecycle, MaxEvents) :
               ClaimNow(p) /\ Mark(p)
    BY <1>1, <2>1
  <2>2. CASE \E r \in Reservations :
               /\ Commit(r)
               /\ IF lease[r] > 0 THEN Mark(plan[r]) ELSE UNCHANGED <<cursor, base>>
    BY <1>2, <1>3, <2>2
  <2>3. QED
    BY <1>4, <1>6, <2>1, <2>2 DEF CNext
<1>7. QED
  BY <1>5, <1>6

LEMMA CInitInv == CInit => CIInv
<1> SUFFICES ASSUME CInit PROVE CIInv
  OBVIOUS
<1>1. TypeOK
  BY InitType DEF CInit
<1>2. \A o : RowsOf(o) = {}
  BY DEF CInit, Init, RowsOf
<1>3. CursorInv
  BY ArtifactsAre DEF CInit, Init, CursorInv
<1>4. QED
  BY <1>1, <1>2, <1>3 DEF CIInv, AwayKeepsItsBaseline

LEMMA CStepInv == CIInv /\ [CNext]_cVars => CIInv'
<1> SUFFICES ASSUME CIInv, [CNext]_cVars PROVE CIInv'
  OBVIOUS
<1>1. TypeOK'
  BY CStepIsStep, StepType DEF CIInv
<1>2. CASE \E e \in Events, k \in Kinds, a \in 0..Settle :
             Materialize(e, k, a) /\ Project(e, k.object)
  BY <1>1, <1>2, ProjectKeepsCursors DEF CIInv
<1>3. CASE \E p : /\ p.cands \subseteq born /\ (p.cands = {} \/ p.mode # "none")
                  /\ Apply(p) /\ Mark(p) /\ UNCHANGED <<born, kind>>
  BY <1>1, <1>3, MarkKeepsCursors DEF CIInv
<1>4. CASE Quiet
  BY <1>1, <1>4, QuietKeepsCursors DEF CIInv
<1>5. QED
  BY <1>2, <1>3, <1>4, CStepCases DEF CIInv

(* A recipient that claims nothing of an object keeps spanning from where  *)
(* it last stood, whatever is projected, gated, acknowledged or leased.    *)
THEOREM AwayBaselineKept == CSpec => []AwayKeepsItsBaseline
<1>1. CIInv => AwayKeepsItsBaseline
  BY DEF CIInv
<1>2. QED
  BY <1>1, CInitInv, CStepInv, PTL DEF CSpec

-----------------------------------------------------------------------------
(***************************************************************************)
(* Fresh deltas.                                                           *)
(***************************************************************************)

LEMMA StepFresh ==
    ASSUME ObservedInOrder, CIInv, FreshDeltaMovesForward, [CNext]_cVars
    PROVE  FreshDeltaMovesForward'
<1> USE DEF CIInv
<1>1. ASSUME \A e \in Pending' : e \in Pending /\ base'[e] = base[e]
      PROVE  FreshDeltaMovesForward'
  BY <1>1 DEF FreshDeltaMovesForward
<1>2. ASSUME NEW e \in Events, NEW k \in Kinds, NEW a \in 0..Settle,
             Materialize(e, k, a), Project(e, k.object)
      PROVE  FreshDeltaMovesForward'
  <2>1. \A f \in Events \ {e} : base'[f] = base[f]
    BY <1>2, ProjectKeepsCursors
  <2>2. base'[e] \in {cursor[k.object], NoDelta}
    BY <1>2, ProjectKeepsCursors
  <2>3. k.object \in Objects
    BY DEF Objects
  <2>4. \A f \in RowsOf(k.object) : f < e
    <3>1. SUFFICES ASSUME NEW f \in born, kind[f].object = k.object PROVE f < e
      BY DEF RowsOf
    <3>2. kind[f] \in Kinds /\ f \in Events
      BY DEF TypeOK
    <3>3. ~(k.urgency = "high" /\ kind[f].urgency # "high")
      BY <3>1, <3>2 DEF ObservedInOrder
    <3>4. ~(f > e) /\ f # e
      BY <1>2, <3>1, <3>3 DEF Materialize
    <3>5. f \in Nat /\ e \in Nat
      BY <3>2, BoundsAssumption DEF Events
    <3>6. QED
      BY <3>4, <3>5
  <2>5. base'[e] = NoDelta \/ base'[e] < e
    BY <2>2, <2>3, <2>4, ArtifactsAre DEF CursorInv
  <2>6. Pending' \subseteq Pending \cup {e} /\ Pending \subseteq Events \ {e}
    BY <1>2 DEF Materialize, markVars, Pending, Unread, Claimed, TypeOK
  <2>7. ASSUME NEW f \in Pending' PROVE base'[f] = NoDelta \/ base'[f] < f
    <3>1. CASE f = e
      BY <2>5, <3>1
    <3>2. CASE f # e
      <4>1. f \in Pending /\ f \in Events \ {e}
        BY <2>6, <2>7, <3>2
      <4>2. QED
        BY <2>1, <4>1 DEF FreshDeltaMovesForward
    <3>3. QED
      BY <3>1, <3>2
  <2>8. QED
    BY <2>7 DEF FreshDeltaMovesForward
<1>3. CASE \E p : /\ p.cands \subseteq born /\ (p.cands = {} \/ p.mode # "none")
                  /\ Apply(p) /\ Mark(p) /\ UNCHANGED <<born, kind>>
  BY <1>1, <1>3, MarkKeepsCursors
<1>4. CASE Quiet
  BY <1>1, <1>4, QuietKeepsCursors
<1>5. QED
  BY <1>2, <1>3, <1>4, CStepCases

(* Where every object keeps one kind of urgency, the first delivery of a   *)
(* row never spans backward or from itself, however far claims moved the   *)
(* cursor while the row waited.                                            *)
THEOREM FreshDeltasMoveForward ==
    ObservedInOrder => (CSpec => []FreshDeltaMovesForward)
<1> SUFFICES ASSUME ObservedInOrder PROVE CSpec => []FreshDeltaMovesForward
  OBVIOUS
<1>1. CInit => FreshDeltaMovesForward
  BY DEF CInit, Init, FreshDeltaMovesForward, Pending, Unread
<1>2. CIInv /\ FreshDeltaMovesForward /\ [CNext]_cVars => FreshDeltaMovesForward'
  BY StepFresh
<1>3. QED
  BY <1>1, <1>2, CInitInv, CStepInv, PTL DEF CSpec
=============================================================================
