---------------------------- MODULE SessionsProofs --------------------------
(***************************************************************************)
(* What sessions and the watches they declare guarantee, for any number of *)
(* sessions, watches and overlapping ticks and any dormancy.               *)
(***************************************************************************)
EXTENDS Sessions, TLAPS

(* WatchesEndWithTheirSession is inductive with the types and this: an     *)
(* active watch has been declared by a session.                            *)
ActiveIsOwned == \A w \in Watches : Active(w) => watch[w].owner \in Sessions

IInv == TypeOK /\ ActiveIsOwned /\ WatchesEndWithTheirSession

-----------------------------------------------------------------------------
(***************************************************************************)
(* Each part of the invariant is preserved by each action.                 *)
(***************************************************************************)

LEMMA StepTypes == TypeOK /\ [Next]_vars => TypeOK'
<1> SUFFICES ASSUME TypeOK, [Next]_vars
             PROVE  TypeOK'
  OBVIOUS
<1> USE SessionsAssumption DEF TypeOK, Active
<1>1. ASSUME Elapse PROVE TypeOK'
  <2>1. \A s \in Sessions : quiet'[s] \in 0 .. Dormancy
    BY <1>1 DEF Elapse
  <2>2. ASSUME NEW w \in Watches
        PROVE  watch'[w] \in [status : {"none", "active", "reaped"},
                              owner : Sessions \cup {NoSession}, age : 0 .. Dormancy]
    <3>1. (IF watch[w].age < Dormancy THEN watch[w].age + 1 ELSE watch[w].age)
            \in 0 .. Dormancy
      OBVIOUS
    <3>2. watch'[w] = [watch[w] EXCEPT !.age = IF watch[w].age < Dormancy
                                               THEN watch[w].age + 1 ELSE watch[w].age]
      BY <1>1 DEF Elapse
    <3>3. QED
      BY <3>1, <3>2
  <2>3. QED
    BY <1>1, <2>1, <2>2 DEF Elapse
<1>2. ASSUME NEW s \in Sessions, Open(s) PROVE TypeOK'
  BY <1>2 DEF Open
<1>3. ASSUME NEW s \in Sessions, Close(s) PROVE TypeOK'
  BY <1>3 DEF Close, ReapedFor
<1>4. ASSUME NEW s \in Sessions, Touch(s) PROVE TypeOK'
  BY <1>4 DEF Touch
<1>5. ASSUME NEW w \in Watches, NEW s \in Sessions, Declare(w, s) PROVE TypeOK'
  BY <1>5 DEF Declare
<1>6. ASSUME NEW w \in Watches, Cancel(w) PROVE TypeOK'
  BY <1>6 DEF Cancel
<1>7. ASSUME NEW t \in Ticks, TickStarts(t) PROVE TypeOK'
  BY <1>7 DEF TickStarts, ReapedFor, Stale
<1>8. ASSUME NEW t \in Ticks, EvaluatePersistent(t) PROVE TypeOK'
  BY <1>8 DEF EvaluatePersistent, InsertEvent, ProjectionTargets
<1>9. ASSUME NEW t \in Ticks, ListEphemeral(t) PROVE TypeOK'
  BY <1>9 DEF ListEphemeral
<1>10. ASSUME NEW t \in Ticks, TickThrows(t) PROVE TypeOK'
  BY <1>10 DEF TickThrows
<1>11. ASSUME NEW t \in Ticks, TickEnds(t) PROVE TypeOK'
  BY <1>11 DEF TickEnds
<1>12. ASSUME NEW t \in Ticks, NEW w \in Watches, EvaluateEphemeral(t, w) PROVE TypeOK'
  BY <1>12 DEF EvaluateEphemeral, InsertEvent, ProjectionTargets
<1>13. CASE UNCHANGED vars
  BY <1>13 DEF vars
<1>14. QED
  BY <1>1, <1>2, <1>3, <1>4, <1>5, <1>6, <1>7, <1>8, <1>9, <1>10, <1>11, <1>12,
     <1>13 DEF Next

LEMMA StepOwned == TypeOK /\ ActiveIsOwned /\ [Next]_vars => ActiveIsOwned'
<1> SUFFICES ASSUME TypeOK, ActiveIsOwned, [Next]_vars
             PROVE  ActiveIsOwned'
  OBVIOUS
<1> USE SessionsAssumption DEF TypeOK, ActiveIsOwned, Active
<1>1. ASSUME Elapse PROVE ActiveIsOwned'
  BY <1>1 DEF Elapse
<1>2. ASSUME NEW s \in Sessions, Open(s) PROVE ActiveIsOwned'
  BY <1>2 DEF Open
<1>3. ASSUME NEW s \in Sessions, Close(s) PROVE ActiveIsOwned'
  BY <1>3 DEF Close, ReapedFor
<1>4. ASSUME NEW s \in Sessions, Touch(s) PROVE ActiveIsOwned'
  BY <1>4 DEF Touch
<1>5. ASSUME NEW w \in Watches, NEW s \in Sessions, Declare(w, s) PROVE ActiveIsOwned'
  BY <1>5 DEF Declare
<1>6. ASSUME NEW w \in Watches, Cancel(w) PROVE ActiveIsOwned'
  BY <1>6 DEF Cancel
<1>7. ASSUME NEW t \in Ticks, TickStarts(t) PROVE ActiveIsOwned'
  BY <1>7 DEF TickStarts, ReapedFor, Stale
<1>8. ASSUME NEW t \in Ticks, EvaluatePersistent(t) PROVE ActiveIsOwned'
  BY <1>8 DEF EvaluatePersistent, InsertEvent, ProjectionTargets
<1>9. ASSUME NEW t \in Ticks, ListEphemeral(t) PROVE ActiveIsOwned'
  BY <1>9 DEF ListEphemeral
<1>10. ASSUME NEW t \in Ticks, TickThrows(t) PROVE ActiveIsOwned'
  BY <1>10 DEF TickThrows
<1>11. ASSUME NEW t \in Ticks, TickEnds(t) PROVE ActiveIsOwned'
  BY <1>11 DEF TickEnds
<1>12. ASSUME NEW t \in Ticks, NEW w \in Watches, EvaluateEphemeral(t, w) PROVE ActiveIsOwned'
  BY <1>12 DEF EvaluateEphemeral, InsertEvent, ProjectionTargets
<1>13. CASE UNCHANGED vars
  BY <1>13 DEF vars
<1>14. QED
  BY <1>1, <1>2, <1>3, <1>4, <1>5, <1>6, <1>7, <1>8, <1>9, <1>10, <1>11, <1>12,
     <1>13 DEF Next

LEMMA StepWatches == TypeOK /\ ActiveIsOwned /\ WatchesEndWithTheirSession /\ [Next]_vars => WatchesEndWithTheirSession'
<1> SUFFICES ASSUME TypeOK, ActiveIsOwned, WatchesEndWithTheirSession, [Next]_vars
             PROVE  WatchesEndWithTheirSession'
  OBVIOUS
<1> USE SessionsAssumption DEF TypeOK, ActiveIsOwned,
    WatchesEndWithTheirSession, Active
<1>1. ASSUME Elapse PROVE WatchesEndWithTheirSession'
  BY <1>1 DEF Elapse
<1>2. ASSUME NEW s \in Sessions, Open(s) PROVE WatchesEndWithTheirSession'
  BY <1>2 DEF Open
<1>3. ASSUME NEW s \in Sessions, Close(s) PROVE WatchesEndWithTheirSession'
  BY <1>3 DEF Close, ReapedFor
<1>4. ASSUME NEW s \in Sessions, Touch(s) PROVE WatchesEndWithTheirSession'
  BY <1>4 DEF Touch
<1>5. ASSUME NEW w \in Watches, NEW s \in Sessions, Declare(w, s) PROVE WatchesEndWithTheirSession'
  BY <1>5 DEF Declare
<1>6. ASSUME NEW w \in Watches, Cancel(w) PROVE WatchesEndWithTheirSession'
  BY <1>6 DEF Cancel
<1>7. ASSUME NEW t \in Ticks, TickStarts(t) PROVE WatchesEndWithTheirSession'
  <2>1. \A w \in Watches : Active(w)' => /\ Active(w) /\ watch[w].owner \notin Stale
                                        /\ watch'[w] = watch[w]
    BY <1>7 DEF TickStarts, ReapedFor
  <2>2. \A s \in Sessions : s \notin Stale => session'[s] = session[s]
    BY <1>7 DEF TickStarts
  <2>3. \A w \in Watches : Active(w) => watch[w].owner \in Sessions
    OBVIOUS
  <2>4. QED
    BY <2>1, <2>2, <2>3
<1>8. ASSUME NEW t \in Ticks, EvaluatePersistent(t) PROVE WatchesEndWithTheirSession'
  BY <1>8 DEF EvaluatePersistent, InsertEvent, ProjectionTargets
<1>9. ASSUME NEW t \in Ticks, ListEphemeral(t) PROVE WatchesEndWithTheirSession'
  BY <1>9 DEF ListEphemeral
<1>10. ASSUME NEW t \in Ticks, TickThrows(t) PROVE WatchesEndWithTheirSession'
  BY <1>10 DEF TickThrows
<1>11. ASSUME NEW t \in Ticks, TickEnds(t) PROVE WatchesEndWithTheirSession'
  BY <1>11 DEF TickEnds
<1>12. ASSUME NEW t \in Ticks, NEW w \in Watches, EvaluateEphemeral(t, w) PROVE WatchesEndWithTheirSession'
  BY <1>12 DEF EvaluateEphemeral, InsertEvent, ProjectionTargets
<1>13. CASE UNCHANGED vars
  BY <1>13 DEF vars
<1>14. QED
  BY <1>1, <1>2, <1>3, <1>4, <1>5, <1>6, <1>7, <1>8, <1>9, <1>10, <1>11, <1>12,
     <1>13 DEF Next

LEMMA InitInv == Init => IInv
BY SessionsAssumption DEF Init, IInv, TypeOK, ActiveIsOwned, WatchesEndWithTheirSession, Active

LEMMA StepInv == IInv /\ [Next]_vars => IInv'
BY StepTypes, StepOwned, StepWatches DEF IInv

-----------------------------------------------------------------------------
(* A row for a watch goes to nobody but the session that declared it, and  *)
(* only while the watch is active.                                         *)
SilentStep ==
    newest' # newest /\ newest'.monitor \in Watches =>
        \A s \in newest'.to :
            Active(newest'.monitor) /\ s = watch[newest'.monitor].owner

LEMMA StepSilent == [Next]_vars => [SilentStep]_vars
<1> SUFFICES ASSUME Next PROVE SilentStep
  BY DEF vars
<1>1. ASSUME newest' = newest PROVE SilentStep
  BY <1>1 DEF SilentStep
<1>2. ASSUME NEW t \in Ticks, EvaluatePersistent(t) PROVE SilentStep
  BY <1>2, SessionsAssumption DEF EvaluatePersistent, InsertEvent, SilentStep
<1>3. ASSUME NEW t \in Ticks, NEW w \in Watches, EvaluateEphemeral(t, w)
      PROVE  SilentStep
  <2>1. CASE InsertEvent(w)
    <3>1. newest'.monitor = w /\ newest'.to = ProjectionTargets(w) /\ w # Persistent
      BY <2>1, SessionsAssumption DEF InsertEvent
    <3>2. \A s \in ProjectionTargets(w) : Active(w) /\ s = watch[w].owner
      BY <3>1 DEF ProjectionTargets
    <3>3. QED
      BY <3>1, <3>2 DEF SilentStep
  <2>2. QED
    BY <1>1, <1>3, <2>1 DEF EvaluateEphemeral
<1>4. QED
  BY <1>1, <1>2, <1>3
     DEF Next, Elapse, Open, Close, Touch, Declare, Cancel, TickStarts, ListEphemeral,
         TickThrows, TickEnds

-----------------------------------------------------------------------------
(* The variables have their types in every behaviour.                      *)
THEOREM SessionTypes == Spec => []TypeOK
<1>1. IInv => TypeOK
  BY DEF IInv
<1>2. QED
  BY InitInv, StepInv, <1>1, PTL DEF Spec

(* However a session ends, its watches have ended with it, and opening it  *)
(* again brings none of them back (service.ts, closeSession and            *)
(* reapDormantSessions; store.ts, reapEphemeralMonitorsForSession).        *)
THEOREM WatchesEnd == Spec => []WatchesEndWithTheirSession
<1>1. IInv => WatchesEndWithTheirSession
  BY DEF IInv
<1>2. QED
  BY InitInv, StepInv, <1>1, PTL DEF Spec

(* An event of a watch reaches its declarer only, and nobody once it was   *)
(* released, even in a tick that had listed it before (store.ts,           *)
(* insertEvent).                                                           *)
THEOREM ReleasedWatchesAreSilent == Spec => ReleasedIsSilent
<1>1. [][Next]_vars => [][SilentStep]_vars
  BY StepSilent, PTL
<1>2. QED
  BY <1>1, PTL DEF Spec, ReleasedIsSilent, SilentStep
=============================================================================
