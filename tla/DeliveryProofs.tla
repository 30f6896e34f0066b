--------------------------- MODULE DeliveryProofs ---------------------------
(***************************************************************************)
(* What Delivery guarantees for every number of rows and reservations,     *)
(* every settle and lease length and every recap limit.                    *)
(***************************************************************************)
EXTENDS Diagnosis, FiniteSetTheorems, TLAPS

(* A decided plan names rows of the session, and no recap only rows that   *)
(* are pending and in nobody's lease.                                      *)
DecidedOK(p) ==
    /\ p \in [cands : SUBSET Events, bodies : SUBSET Events,
              mode : {"delivery", "recap"}]
    /\ PlanOK(p)
    /\ p.mode = "delivery" => p.cands \subseteq Pending \ Leased

LEMMA DecideGivesOK ==
    ASSUME born \subseteq Events,
           NEW lifecycle \in Lifecycles, NEW limit \in 0..MaxEvents,
           NEW p \in Decide(lifecycle, limit)
    PROVE  DecidedOK(p)
<1>1. ASSUME NEW C, NEW B, C \subseteq Pending \ Leased, B \subseteq C
      PROVE  DecidedOK(Delivery(C, B))
  BY <1>1 DEF DecidedOK, Delivery, PlanOK, Pending, Unread
<1>2. \A u : Claimable(u) \subseteq Pending \ Leased
  BY DEF Claimable
<1>3. CASE lifecycle = "turn-interruptible"
  <2>1. p \in InterruptiblePlans(limit)
    BY <1>3 DEF Decide
  <2>2. SettledHigh \subseteq Pending \ Leased
    BY <1>2 DEF SettledHigh
  <2>3. CoalescedNormal \subseteq Pending \ Leased
    BY <1>2 DEF CoalescedNormal
  <2>4. DecidedOK(HighPlan(limit))
    <3> DEFINE reps == Oldest(Delivered(SettledHigh), IF limit = 0 THEN 1 ELSE limit)
               high == GroupsOf(SettledHigh, reps)
    <3>1. high \subseteq SettledHigh
      BY DEF GroupsOf
    <3>2. Delivered(high) \subseteq high
      BY DEF Delivered
    <3>3. HighPlan(limit) = Delivery(high \cup CoalescedNormal, Delivered(high))
      BY DEF HighPlan
    <3> HIDE DEF high
    <3>4. QED
      BY <1>1, <2>2, <2>3, <3>1, <3>2, <3>3
  <2>5. DecidedOK(Delivery(Claimable("normal"), {}))
    BY <1>1, <1>2
  <2>6. QED
    BY <2>1, <2>4, <2>5 DEF InterruptiblePlans
<1>4. CASE lifecycle = "turn-idle"
  <2>1. p = Delivery(Claimable("low"), {})
    BY <1>4 DEF Decide, IdlePlans
  <2>2. QED
    BY <1>1, <1>2, <2>1
<1>5. CASE lifecycle = "post-compact"
  <2> DEFINE B == Newest(Delivered(Unread), RecapMax)
  <2>1. p = [cands |-> Unread, bodies |-> B, mode |-> "recap"]
    BY <1>5 DEF Decide, RecapPlans
  <2>2. B \subseteq Unread
    BY DEF Newest, Delivered
  <2>3. Unread \subseteq born
    BY DEF Unread
  <2> HIDE DEF B
  <2>4. QED
    BY <2>1, <2>2, <2>3 DEF DecidedOK, PlanOK
<1>6. QED
  BY <1>3, <1>4, <1>5 DEF Lifecycles

----------------------------------------------------------------------------
(***************************************************************************)
(* Type correctness.                                                       *)
(***************************************************************************)

LEMMA ApplyKeepsTypes ==
    ASSUME TypeOK, NEW p, p.cands \subseteq born,
           p.mode \in {"none", "delivery", "recap"}, Apply(p)
    PROVE  /\ claim' \in [Events -> {"none", "delivery", "recap"}]
           /\ acked' \subseteq born /\ gated' \subseteq born /\ folded' \subseteq born
<1>1. Folds(p.cands) \subseteq born
  BY DEF Folds
<1>2. QED
  BY <1>1 DEF TypeOK, Apply

LEMMA NoPlanOK ==
    /\ NoPlan \in [cands : SUBSET Events, bodies : SUBSET Events,
                   mode : {"none", "delivery", "recap"}]
    /\ PlanOK(NoPlan)
BY DEF NoPlan, PlanOK

LEMMA AdvertisedType == Advertised \subseteq Urgencies
BY DEF Advertised

LEMMA InitType == Init => TypeOK
<1> SUFFICES ASSUME Init PROVE TypeOK
  OBVIOUS
<1> USE DEF Init
<1>1. 0 \in 0..Settle /\ 0 \in 0..LeaseTtl
  BY BoundsAssumption
<1>2. kind \in [Events -> Kinds \cup {NoKind}]
  OBVIOUS
<1>3. age \in [Events -> 0..Settle] /\ lease \in [Reservations -> 0..LeaseTtl]
  BY <1>1
<1>4. \A r \in Reservations : plan[r] = NoPlan
  OBVIOUS
<1>5. plan \in [Reservations -> [cands : SUBSET Events, bodies : SUBSET Events,
                                mode : {"none", "delivery", "recap"}]]
  BY NoPlanOK
<1>6. \A r \in Reservations : PlanOK(plan[r])
  BY <1>4, NoPlanOK
<1>7. QED
  BY <1>2, <1>3, <1>5, <1>6 DEF TypeOK

(* A step of TypeOK, one action at a time. *)
LEMMA StepType == TypeOK /\ [Next]_vars => TypeOK'
<1> SUFFICES ASSUME TypeOK, [Next]_vars PROVE TypeOK'
  OBVIOUS
<1> USE BoundsAssumption
<1>0. ASSUME Refresh PROVE (advert \subseteq Urgencies)'
  BY <1>0 DEF Refresh, Advertised
<1>1. ASSUME NEW e \in Events, NEW k \in Kinds, NEW a \in 0..Settle,
             Materialize(e, k, a)
      PROVE  TypeOK'
  BY <1>1 DEF Materialize, TypeOK, PlanOK, markVars, cycleVars
<1>2. ASSUME NEW verdict \in {"deliver", "suppress"}, Interpret(verdict)
      PROVE  TypeOK'
  BY <1>2 DEF Interpret, TypeOK, PlanOK, rowVars, cycleVars
<1>3. CASE TickEnds
  BY <1>0, <1>3 DEF TickEnds, TypeOK, PlanOK, rowVars, markVars, cycleVars
<1>4. ASSUME NEW lifecycle \in Lifecycles, DirectClaim(lifecycle)
      PROVE  TypeOK'
  <2>1. PICK p \in Decide(lifecycle, MaxEvents) : ClaimNow(p)
    BY <1>4 DEF DirectClaim
  <2>2. DecidedOK(p)
    BY <2>1, DecideGivesOK DEF TypeOK
  <2>3. /\ claim' \in [Events -> {"none", "delivery", "recap"}]
        /\ acked' \subseteq born /\ gated' \subseteq born /\ folded' \subseteq born
    BY <2>1, <2>2, ApplyKeepsTypes DEF ClaimNow, DecidedOK, PlanOK
  <2>4. Tells(p) \subseteq born
    BY <2>2 DEF Tells, GroupsOf, DecidedOK, PlanOK
  <2>5. QED
    BY <1>0, <2>1, <2>3, <2>4
       DEF ClaimNow, TypeOK, PlanOK, rowVars, tickVars, cycleVars
<1>5. CASE AckAll
  BY <1>0, <1>5 DEF AckAll, TypeOK, PlanOK, Unread, rowVars, tickVars, cycleVars
<1>6. ASSUME NEW e \in Events, AckOne(e)
      PROVE  TypeOK'
  BY <1>0, <1>6 DEF AckOne, TypeOK, PlanOK, rowVars, tickVars, cycleVars
<1>7. ASSUME NEW r \in Reservations, NEW lifecycle \in Lifecycles,
             NEW limit \in 0..MaxEvents, Reserve(r, lifecycle, limit)
      PROVE  TypeOK'
  <2>1. PICK p \in Decide(lifecycle, limit) : plan' = [plan EXCEPT ![r] = p]
    BY <1>7 DEF Reserve
  <2>2. DecidedOK(p)
    BY DecideGivesOK DEF TypeOK
  <2>3. QED
    BY <1>0, <1>7, <2>1, <2>2
       DEF Reserve, TypeOK, DecidedOK, PlanOK, rowVars, markVars, tickVars
<1>8. ASSUME NEW r \in Reservations, Surface(r)
      PROVE  TypeOK'
  <2>1. Tells(plan[r]) \subseteq born
    BY DEF Tells, GroupsOf, TypeOK, PlanOK
  <2>2. QED
    BY <1>8, <2>1 DEF Surface, TypeOK, PlanOK, rowVars, markVars, tickVars
<1>9. ASSUME NEW r \in Reservations, Commit(r)
      PROVE  TypeOK'
  <2>1. /\ claim' \in [Events -> {"none", "delivery", "recap"}]
        /\ acked' \subseteq born /\ gated' \subseteq born /\ folded' \subseteq born
    <3>1. CASE lease[r] > 0
      BY <1>9, <3>1, ApplyKeepsTypes DEF Commit, TypeOK, PlanOK
    <3>2. CASE ~(lease[r] > 0)
      BY <1>9, <3>2 DEF Commit, TypeOK, markVars
    <3>3. QED
      BY <3>1, <3>2
  <2>2. (advert \subseteq Urgencies)'
    BY <1>0, <1>9 DEF Commit, TypeOK
  <2>3. QED
    BY <1>9, <2>1, <2>2, NoPlanOK DEF Commit, TypeOK, PlanOK, rowVars, tickVars
<1>10. ASSUME NEW r \in Reservations, Release(r)
       PROVE  TypeOK'
  <2>1. (advert \subseteq Urgencies)'
    BY <1>0, <1>10 DEF Release, TypeOK
  <2>2. QED
    BY <1>10, <2>1, NoPlanOK DEF Release, TypeOK, PlanOK, rowVars, markVars, tickVars
<1>11. ASSUME NEW r \in Reservations, ClientGone(r)
       PROVE  TypeOK'
  BY <1>11, NoPlanOK DEF ClientGone, TypeOK, PlanOK, rowVars, markVars, tickVars
<1>12. CASE Elapse
  <2>1. age' \in [Events -> 0..Settle]
    BY <1>12 DEF Elapse, TypeOK, Older
  <2>2. lease' \in [Reservations -> 0..LeaseTtl]
    BY <1>12 DEF Elapse, TypeOK, Less
  <2>3. QED
    BY <1>12, <2>1, <2>2, NoPlanOK DEF Elapse, TypeOK, PlanOK, markVars, tickVars
<1>13. CASE DaemonRestart
  BY <1>13, NoPlanOK DEF DaemonRestart, TypeOK, PlanOK, rowVars, markVars
<1>14. CASE UNCHANGED vars
  BY <1>14 DEF vars, rowVars, markVars, tickVars, cycleVars, TypeOK, PlanOK
<1>15. QED
  BY <1>1, <1>2, <1>3, <1>4, <1>5, <1>6, <1>7, <1>8, <1>9, <1>10, <1>11,
     <1>12, <1>13, <1>14 DEF Next

(* Every row mark, reservation and advertisement stays in its range, and   *)
(* every mark and reservation names rows of the session: the type          *)
(* invariant of the delivery core.                                         *)
THEOREM TypeCorrect == Spec => []TypeOK
BY InitType, StepType, PTL DEF Spec

----------------------------------------------------------------------------
(***************************************************************************)
(* Leases.  Together with the types, LeasesDisjoint is inductive: a        *)
(* delivery takes only rows in nobody's lease, and nothing revives a lease.*)
(***************************************************************************)

(* A step that gives no reservation a new lease or a new plan keeps live   *)
(* reservations disjoint.                                                  *)
LEMMA FewerLeases ==
    ASSUME LeasesDisjoint,
           \A r \in Live' : r \in Live /\ plan'[r] = plan[r]
    PROVE  LeasesDisjoint'
<1> SUFFICES ASSUME NEW r \in Live', NEW s \in Live', r # s,
                    plan'[r].cands \cap plan'[s].cands # {}
             PROVE  IsRecap(r)' \/ IsRecap(s)'
  BY DEF LeasesDisjoint
<1>1. IsRecap(r) \/ IsRecap(s)
  BY DEF LeasesDisjoint
<1>2. QED
  BY <1>1 DEF IsRecap

LEMMA StepLeases == TypeOK /\ LeasesDisjoint /\ [Next]_vars => LeasesDisjoint'
<1> SUFFICES ASSUME TypeOK, LeasesDisjoint, [Next]_vars PROVE LeasesDisjoint'
  OBVIOUS
<1>1. ASSUME UNCHANGED <<lease, plan>> PROVE LeasesDisjoint'
  BY <1>1, FewerLeases DEF Live
<1>2. ASSUME NEW r \in Reservations, NEW lifecycle \in Lifecycles,
             NEW limit \in 0..MaxEvents, Reserve(r, lifecycle, limit)
      PROVE  LeasesDisjoint'
  <2>1. PICK p \in Decide(lifecycle, limit) : plan' = [plan EXCEPT ![r] = p]
    BY <1>2 DEF Reserve
  <2>2. DecidedOK(p)
    BY DecideGivesOK DEF TypeOK
  <2>3. plan'[r] = p /\ \A s \in Reservations \ {r} : plan'[s] = plan[s]
    BY <2>1 DEF TypeOK
  <2>4. \A s \in Live' : s = r \/ (s \in Live /\ s # r)
    BY <1>2 DEF Reserve, Live, TypeOK
  <2>5. ASSUME NEW s \in Live, s # r, p.cands \cap plan[s].cands # {}
        PROVE  p.mode = "recap"
    <3>1. plan[s].cands \subseteq Leased
      BY DEF Leased
    <3>2. ~ (p.cands \subseteq Pending \ Leased)
      BY <2>5, <3>1
    <3>3. QED
      BY <2>2, <3>2 DEF DecidedOK
  <2>6. SUFFICES ASSUME NEW s \in Live', NEW t \in Live', s # t,
                        plan'[s].cands \cap plan'[t].cands # {}
                 PROVE  plan'[s].mode = "recap" \/ plan'[t].mode = "recap"
    BY DEF LeasesDisjoint, IsRecap
  <2>7. s \in Reservations /\ t \in Reservations
    BY DEF Live
  <2>8. CASE s = r
    BY <2>3, <2>4, <2>5, <2>6, <2>7, <2>8
  <2>9. CASE t = r
    BY <2>3, <2>4, <2>5, <2>6, <2>7, <2>9
  <2>10. CASE s # r /\ t # r
    <3>1. s \in Live /\ t \in Live /\ plan'[s] = plan[s] /\ plan'[t] = plan[t]
      BY <2>3, <2>4, <2>7, <2>10
    <3>2. QED
      BY <2>6, <3>1 DEF LeasesDisjoint, IsRecap
  <2>11. QED
    BY <2>8, <2>9, <2>10
<1>3. ASSUME NEW r \in Reservations,
             lease' = [lease EXCEPT ![r] = 0], plan' = [plan EXCEPT ![r] = NoPlan]
      PROVE  LeasesDisjoint'
  BY <1>3, FewerLeases DEF Live, TypeOK
<1>4. ASSUME NEW r \in Reservations, ClientGone(r)
      PROVE  LeasesDisjoint'
  BY <1>4, FewerLeases DEF ClientGone, Live, TypeOK
<1>5. CASE Elapse
  <2>1. \A s \in Live' : s \in Live /\ Less(lease[s]) > 0
    BY <1>5 DEF Elapse, Live, Less, TypeOK
  <2>2. \A s \in Live' : plan'[s] = plan[s]
    BY <1>5, <2>1 DEF Elapse, Live
  <2>3. QED
    BY <2>1, <2>2, FewerLeases
<1>6. CASE DaemonRestart
  BY <1>6, FewerLeases DEF DaemonRestart, Live
<1>7. QED
  <2>1. ASSUME NEW r \in Reservations, Commit(r) \/ Release(r)
        PROVE  LeasesDisjoint'
    BY <1>3, <2>1 DEF Commit, Release
  <2>2. ASSUME NEW r \in Reservations, Surface(r)
        PROVE  LeasesDisjoint'
    BY <1>1, <2>2 DEF Surface
  <2>3. ASSUME \/ \E e \in Events, k \in Kinds, a \in 0..Settle : Materialize(e, k, a)
               \/ \E verdict \in {"deliver", "suppress"} : Interpret(verdict)
               \/ TickEnds
               \/ \E lifecycle \in Lifecycles : DirectClaim(lifecycle)
               \/ AckAll
               \/ \E e \in Events : AckOne(e)
               \/ UNCHANGED vars
        PROVE  LeasesDisjoint'
    BY <1>1, <2>3 DEF Materialize, Interpret, TickEnds, DirectClaim, ClaimNow,
                      AckAll, AckOne, cycleVars, vars
  <2>4. QED
    BY <1>2, <1>4, <1>5, <1>6, <2>1, <2>2, <2>3 DEF Next

(* No row is in two transports' hands at once, a recap's apart: what keeps *)
(* a hook and the channel from surfacing the same event twice.             *)
THEOREM Deduplicates == Spec => []LeasesDisjoint
<1>1. Init => LeasesDisjoint
  BY DEF Init, LeasesDisjoint, Live
<1>2. QED
  BY <1>1, StepLeases, TypeCorrect, PTL DEF Spec
----------------------------------------------------------------------------
(***************************************************************************)
(* Claims and messages.  ClaimedWasTold is not inductive: a commit needs   *)
(* to know that what it claims was surfaced, and a new row that it was     *)
(* never claimed before.                                                   *)
(***************************************************************************)

(* Only rows of the session are claimed, and a surfaced delivery has told  *)
(* of every row it is about to claim.                                      *)
ToldInv ==
    /\ \A e \in Events \ born : claim[e] = "none"
    /\ \A r \in Reservations :
          client[r] = "surfaced" /\ ~IsRecap(r) => plan[r].cands \subseteq told
    /\ ClaimedWasTold

(* Applying a plan whose rows were all told of, unless it is a recap.      *)
LEMMA ApplyKeepsTold ==
    ASSUME TypeOK, ToldInv, NEW p, p.cands \subseteq born, Apply(p),
           p.mode # "recap" => p.mode = "none" \/ p.cands \subseteq told',
           born' = born, told \subseteq told'
    PROVE  /\ \A e \in Events \ born' : claim'[e] = "none"
           /\ ClaimedWasTold'
<1>1. \A e \in Events : claim'[e] = IF e \in p.cands THEN p.mode ELSE claim[e]
  BY DEF Apply
<1>2. \A e \in Events \ born' : claim'[e] = "none"
  BY <1>1 DEF ToldInv
<1>3. ASSUME NEW e \in born, claim'[e] # "none"
      PROVE  e \in told' \/ claim'[e] = "recap"
  <2>1. e \in Events
    BY DEF TypeOK
  <2>2. CASE e \in p.cands
    BY <1>1, <1>3, <2>1, <2>2
  <2>3. CASE e \notin p.cands
    BY <1>1, <1>3, <2>1, <2>3 DEF ToldInv, ClaimedWasTold, Claimed
  <2>4. QED
    BY <2>2, <2>3
<1>4. QED
  BY <1>2, <1>3 DEF ClaimedWasTold, Claimed

LEMMA StepTold == TypeOK /\ ToldInv /\ [Next]_vars => ToldInv'
<1> SUFFICES ASSUME TypeOK, ToldInv, [Next]_vars PROVE ToldInv'
  OBVIOUS
<1>1. ASSUME UNCHANGED <<born, claim, told>>,
             \A r \in Reservations :
                client'[r] = "surfaced" => client[r] = "surfaced" /\ plan'[r] = plan[r]
      PROVE  ToldInv'
  BY <1>1 DEF ToldInv, ClaimedWasTold, Claimed, IsRecap
<1>2. ASSUME NEW e \in Events, NEW k \in Kinds, NEW a \in 0..Settle,
             Materialize(e, k, a)
      PROVE  ToldInv'
  BY <1>2 DEF Materialize, ToldInv, ClaimedWasTold, Claimed, IsRecap, markVars, cycleVars
<1>3. ASSUME NEW lifecycle \in Lifecycles, DirectClaim(lifecycle)
      PROVE  ToldInv'
  <2>1. PICK p \in Decide(lifecycle, MaxEvents) : ClaimNow(p)
    BY <1>3 DEF DirectClaim
  <2>2. DecidedOK(p)
    BY <2>1, BoundsAssumption, DecideGivesOK DEF TypeOK
  <2>3. p.mode # "recap" => p.cands \subseteq told'
    BY <2>1, <2>2 DEF ClaimNow, Tells
  <2>4. /\ \A e \in Events \ born' : claim'[e] = "none"
        /\ ClaimedWasTold'
    BY <2>1, <2>2, <2>3, ApplyKeepsTold DEF ClaimNow, DecidedOK, PlanOK, rowVars
  <2>5. QED
    BY <2>1, <2>4 DEF ClaimNow, ToldInv, IsRecap, cycleVars
<1>4. ASSUME NEW r \in Reservations, NEW lifecycle \in Lifecycles,
             NEW limit \in 0..MaxEvents, Reserve(r, lifecycle, limit)
      PROVE  ToldInv'
  <2>1. \A s \in Reservations :
            client'[s] = "surfaced" => client[s] = "surfaced" /\ plan'[s] = plan[s]
    BY <1>4 DEF Reserve, TypeOK
  <2>2. QED
    BY <1>1, <1>4, <2>1 DEF Reserve, rowVars, markVars
<1>5. ASSUME NEW r \in Reservations, Surface(r)
      PROVE  ToldInv'
  <2>1. ~IsRecap(r) => plan[r].cands \subseteq told'
    BY <1>5 DEF Surface, Tells, IsRecap
  <2>2. \A s \in Reservations \ {r} : client'[s] = client[s]
    BY <1>5 DEF Surface, TypeOK
  <2>3. QED
    BY <1>5, <2>1, <2>2
       DEF Surface, ToldInv, ClaimedWasTold, Claimed, IsRecap, rowVars, markVars
<1>6. ASSUME NEW r \in Reservations, Commit(r)
      PROVE  ToldInv'
  <2>1. \A s \in Reservations :
            client'[s] = "surfaced" => client[s] = "surfaced" /\ plan'[s] = plan[s]
    BY <1>6 DEF Commit, TypeOK
  <2>2. CASE lease[r] > 0
    <3>1. plan[r].cands \subseteq born
      BY DEF TypeOK, PlanOK
    <3>2. plan[r].mode # "recap" => plan[r].cands \subseteq told'
      BY <1>6 DEF Commit, ToldInv, IsRecap
    <3>3. /\ \A e \in Events \ born' : claim'[e] = "none"
          /\ ClaimedWasTold'
      BY <1>6, <2>2, <3>1, <3>2, ApplyKeepsTold DEF Commit, rowVars
    <3>4. QED
      BY <1>6, <2>1, <3>3 DEF Commit, ToldInv, IsRecap
  <2>3. CASE ~(lease[r] > 0)
    BY <1>1, <1>6, <2>1, <2>3 DEF Commit, rowVars, markVars
  <2>4. QED
    BY <2>2, <2>3
<1>7. ASSUME NEW r \in Reservations, Release(r) \/ ClientGone(r)
      PROVE  ToldInv'
  <2>1. \A s \in Reservations :
            client'[s] = "surfaced" => client[s] = "surfaced" /\ plan'[s] = plan[s]
    BY <1>7 DEF Release, ClientGone, TypeOK
  <2>2. QED
    BY <1>1, <1>7, <2>1 DEF Release, ClientGone, rowVars, markVars
<1>8. CASE Elapse
  <2>1. \A s \in Reservations :
            client'[s] = "surfaced" => client[s] = "surfaced" /\ plan'[s] = plan[s]
    BY <1>8 DEF Elapse
  <2>2. QED
    BY <1>1, <1>8, <2>1 DEF Elapse, markVars
<1>9. CASE DaemonRestart
  <2>1. \A s \in Reservations :
            client'[s] = "surfaced" => client[s] = "surfaced" /\ plan'[s] = plan[s]
    BY <1>9 DEF DaemonRestart
  <2>2. QED
    BY <1>1, <1>9, <2>1 DEF DaemonRestart, rowVars, markVars
<1>10. QED
  <2>1. ASSUME \/ \E verdict \in {"deliver", "suppress"} : Interpret(verdict)
               \/ TickEnds
               \/ AckAll
               \/ \E e \in Events : AckOne(e)
               \/ UNCHANGED vars
        PROVE  ToldInv'
    BY <1>1, <2>1 DEF Interpret, TickEnds, AckAll, AckOne, rowVars, markVars,
                      cycleVars, vars
  <2>2. QED
    BY <1>2, <1>3, <1>4, <1>5, <1>6, <1>7, <1>8, <1>9, <2>1 DEF Next

(* No transport consumes an event it has not surfaced: firstNotifiedAt is  *)
(* set on rows the agent was told of, recaps apart, through every push     *)
(* failure, lapsed lease, crash and restart.                               *)
THEOREM SurfacedBeforeClaimed == Spec => []ClaimedWasTold
<1>1. Init => ToldInv
  BY DEF Init, ToldInv, ClaimedWasTold, Claimed
<1>2. ToldInv => ClaimedWasTold
  BY DEF ToldInv
<1>3. QED
  BY <1>1, <1>2, StepTold, TypeCorrect, PTL DEF Spec
----------------------------------------------------------------------------
(***************************************************************************)
(* Folding.                                                                *)
(***************************************************************************)

(* A set of rows has a newest one: the row above which fewest others lie.  *)
LEMMA NewestExists ==
    ASSUME NEW S \in SUBSET Events, S # {}
    PROVE  \E m \in S : \A f \in S : f <= m
<1> DEFINE Above(m) == {f \in S : f > m}
           T == {Above(m) : m \in S}
<1>1. Events \subseteq Nat
  BY BoundsAssumption DEF Events
<1>2. IsFiniteSet(Events) /\ IsFiniteSet(S)
  <2>1. 1 \in Int /\ MaxEvents \in Int
    BY BoundsAssumption
  <2>2. IsFiniteSet(1..MaxEvents)
    BY <2>1, FS_Interval
  <2>3. QED
    BY <2>2, FS_Subset DEF Events
<1>3. IsWellFoundedOn(StrictSubsetOrdering(S), SUBSET S)
  BY <1>2, FS_StrictSubsetOrderingWellFounded, FS_FiniteSubsetsOfFinite
<1>4. T \subseteq SUBSET S /\ T # {}
  OBVIOUS
<1>5. PICK A \in T : \A B \in T : <<B, A>> \notin StrictSubsetOrdering(S)
  <2> HIDE DEF T
  <2>1. QED
    BY <1>3, <1>4, WFMin
<1>6. PICK m \in S : A = Above(m)
  OBVIOUS
<1>7. ASSUME NEW f \in S, ~(f <= m)
      PROVE  FALSE
  <2>1. f \in Above(m) /\ f \notin Above(f) /\ Above(f) \subseteq Above(m)
    <3>1. f \in Nat /\ m \in Nat /\ f > m
      BY <1>1, <1>7
    <3>2. ASSUME NEW g \in S, g > f PROVE g > m
      BY <1>1, <3>1, <3>2
    <3>3. ~(f > f)
      BY <3>1
    <3>4. QED
      BY <3>1, <3>2, <3>3, Zenon
  <2>2. <<Above(f), Above(m)>> \in StrictSubsetOrdering(S)
    BY <2>1 DEF StrictSubsetOrdering
  <2>3. QED
    BY <1>5, <1>6, <2>2
<1>8. QED
  BY <1>7

(* Folding a plan's rows keeps a survivor above every folded row: the      *)
(* newest row of its group in the plan, or, when an earlier claim already  *)
(* folded that one away, the survivor it was folded for.                   *)
LEMMA ApplyKeepsSurvivor ==
    ASSUME TypeOK, FoldedHasSurvivor, NEW p, p.cands \subseteq born,
           p.cands = {} \/ p.mode # "none", Apply(p), UNCHANGED <<born, kind>>
    PROVE  FoldedHasSurvivor'
<1>1. born \subseteq Events /\ Events \subseteq Nat /\ folded \subseteq born
  BY BoundsAssumption DEF TypeOK, Events
<1>2. \A e \in Events : claim'[e] = IF e \in p.cands THEN p.mode ELSE claim[e]
  BY DEF Apply
<1>3. Claimed' = Claimed \cup p.cands
  BY <1>1, <1>2 DEF Claimed
<1>4. folded' = folded \cup Folds(p.cands)
  BY DEF Apply
<1>5. \A e, f : SameGroup(e, f)' = SameGroup(e, f)
  BY DEF SameGroup
<1>6. ASSUME NEW e \in Folds(p.cands)
      PROVE  \E f \in Claimed' \ folded' : f > e /\ SameGroup(e, f)
  <2> DEFINE S == {f \in p.cands : f > e /\ SameGroup(e, f)}
  <2>1. S # {} /\ S \subseteq Events
    BY <1>1, <1>6 DEF Folds
  <2>2. PICK m \in S : \A f \in S : f <= m
    BY <2>1, NewestExists
  <2>3. ASSUME NEW f, f > m, SameGroup(m, f), f \in p.cands
        PROVE  FALSE
    <3>1. f \in Nat /\ m \in Nat /\ e \in Nat
      BY <1>1, <1>6, <2>3 DEF Folds
    <3>2. f > e
      BY <2>3, <3>1
    <3>3. SameGroup(e, f)
      BY <2>3 DEF SameGroup
    <3>4. f \in S
      BY <2>3, <3>2, <3>3
    <3>5. QED
      BY <2>2, <2>3, <3>1, <3>4
  <2>4. m \notin Folds(p.cands)
    BY <2>3 DEF Folds
  <2>5. CASE m \notin folded
    BY <1>3, <1>4, <2>4, <2>5
  <2>6. CASE m \in folded
    <3>1. PICK g \in Claimed \ folded : g > m /\ SameGroup(m, g)
      BY <2>6 DEF FoldedHasSurvivor
    <3>2. g \notin p.cands
      BY <2>3, <3>1
    <3>3. g \in Claimed' \ folded'
      BY <1>3, <1>4, <3>1, <3>2 DEF Folds
    <3>4. g \in Nat /\ m \in Nat /\ e \in Nat
      BY <1>1, <1>6, <3>1 DEF Folds, Claimed
    <3>5. g > e /\ SameGroup(e, g)
      BY <3>1, <3>4 DEF SameGroup
    <3>6. QED
      BY <3>3, <3>5
  <2>7. QED
    BY <2>5, <2>6
<1>7. ASSUME NEW e \in folded
      PROVE  \E f \in Claimed' \ folded' : f > e /\ SameGroup(e, f)
  <2>1. PICK f \in Claimed \ folded : f > e /\ SameGroup(e, f)
    BY DEF FoldedHasSurvivor
  <2>2. CASE f \notin Folds(p.cands)
    BY <1>3, <1>4, <2>1, <2>2
  <2>3. CASE f \in Folds(p.cands)
    <3>1. PICK g \in Claimed' \ folded' : g > f /\ SameGroup(f, g)
      BY <1>6, <2>3
    <3>2. g \in Nat /\ f \in Nat /\ e \in Nat
      BY <1>1, <2>1, <3>1 DEF Claimed
    <3>3. g > e /\ SameGroup(e, g)
      BY <2>1, <3>1, <3>2 DEF SameGroup
    <3>4. QED
      BY <3>1, <3>3
  <2>4. QED
    BY <2>2, <2>3
<1>8. QED
  BY <1>4, <1>5, <1>6, <1>7 DEF FoldedHasSurvivor

LEMMA StepSurvivor == TypeOK /\ FoldedHasSurvivor /\ [Next]_vars => FoldedHasSurvivor'
<1> SUFFICES ASSUME TypeOK, FoldedHasSurvivor, [Next]_vars
             PROVE  FoldedHasSurvivor'
  OBVIOUS
<1>1. ASSUME UNCHANGED <<born, kind, claim, folded>> PROVE FoldedHasSurvivor'
  BY <1>1 DEF FoldedHasSurvivor, Claimed, SameGroup
<1>2. ASSUME NEW e \in Events, NEW k \in Kinds, NEW a \in 0..Settle,
             Materialize(e, k, a)
      PROVE  FoldedHasSurvivor'
  <2>1. /\ born' = born \cup {e} /\ e \notin born
        /\ UNCHANGED <<claim, folded>>
        /\ kind' = [kind EXCEPT ![e] = k]
    BY <1>2 DEF Materialize, markVars
  <2>2. \A f \in born : kind'[f] = kind[f]
    BY <2>1 DEF TypeOK
  <2>3. \A f \in born : \A g \in born : SameGroup(f, g)' = SameGroup(f, g)
    BY <2>2 DEF SameGroup
  <2>4. folded \subseteq born /\ Claimed \subseteq born /\ Claimed \subseteq Claimed'
    BY <2>1 DEF TypeOK, Claimed
  <2>5. QED
    BY <2>1, <2>3, <2>4 DEF FoldedHasSurvivor
<1>3. ASSUME NEW lifecycle \in Lifecycles, DirectClaim(lifecycle)
      PROVE  FoldedHasSurvivor'
  <2>1. PICK p \in Decide(lifecycle, MaxEvents) : ClaimNow(p)
    BY <1>3 DEF DirectClaim
  <2>2. DecidedOK(p)
    BY <2>1, BoundsAssumption, DecideGivesOK DEF TypeOK
  <2>3. QED
    BY <2>1, <2>2, ApplyKeepsSurvivor DEF ClaimNow, DecidedOK, PlanOK, rowVars
<1>4. ASSUME NEW r \in Reservations, Commit(r)
      PROVE  FoldedHasSurvivor'
  <2>1. CASE lease[r] > 0
    <3>1. plan[r].cands \subseteq born /\ (plan[r].cands = {} \/ plan[r].mode # "none")
      BY DEF TypeOK, PlanOK
    <3>2. QED
      BY <1>4, <2>1, <3>1, ApplyKeepsSurvivor DEF Commit, rowVars
  <2>2. CASE ~(lease[r] > 0)
    BY <1>1, <1>4, <2>2 DEF Commit, rowVars, markVars
  <2>3. QED
    BY <2>1, <2>2
<1>5. ASSUME \/ \E verdict \in {"deliver", "suppress"} : Interpret(verdict)
             \/ TickEnds \/ AckAll \/ Elapse \/ DaemonRestart \/ UNCHANGED vars
             \/ \E e \in Events : AckOne(e)
             \/ \E r \in Reservations, lifecycle \in Lifecycles, limit \in 0..MaxEvents :
                    Reserve(r, lifecycle, limit)
             \/ \E r \in Reservations : Surface(r) \/ Release(r) \/ ClientGone(r)
      PROVE  FoldedHasSurvivor'
  BY <1>1, <1>5 DEF Interpret, TickEnds, AckAll, Elapse, DaemonRestart, AckOne, Reserve,
                    Surface, Release, ClientGone, rowVars, markVars, vars
<1>6. QED
  BY <1>2, <1>3, <1>4, <1>5 DEF Next

(* Collapsing never loses an object: whatever order reservations commit,   *)
(* lapse and re-deliver in, a row folded away has a newer row of its       *)
(* object that was claimed and is itself shown.                            *)
THEOREM FoldingKeepsTheNewest == Spec => []FoldedHasSurvivor
<1>1. Init => FoldedHasSurvivor
  BY DEF Init, FoldedHasSurvivor
<1>2. QED
  BY <1>1, StepSurvivor, TypeCorrect, PTL DEF Spec
-----------------------------------------------------------------------------
(***************************************************************************)
(* The hook-state file.  AdvertisedIsClaimable is not inductive: a verdict *)
(* that suppresses a row must be known to come within a tick.              *)
(***************************************************************************)

AdvertInv == AdvertisedIsClaimable /\ (judging # {} => ticking)

(* Nothing is hidden from a claim by time, or by leases that end.          *)
LEMMA AdvertisedGrows ==
    ASSUME TypeOK, UNCHANGED <<born, kind, claim, acked, gated, folded>>,
           Leased' \subseteq Leased, \A e \in born : age'[e] >= age[e]
    PROVE  Advertised \subseteq Advertised'
<1>1. ASSUME NEW u, NEW e \in Claimable(u) PROVE e \in Claimable(u)'
  BY <1>1 DEF Claimable, Pending, Unread, Claimed
<1>2. ASSUME NEW u, NEW e \in Claimable(u), age[e] >= Settle PROVE age'[e] >= Settle
  <2>1. e \in born
    BY DEF Claimable, Pending, Unread
  <2>2. age[e] \in 0..Settle /\ age'[e] >= age[e]
    BY <2>1 DEF TypeOK
  <2>3. age[e] = Settle
    BY <1>2, <2>2, BoundsAssumption
  <2>4. QED
    BY <2>2, <2>3
<1>3. ASSUME NEW u \in Urgencies,
             NEW e \in Claimable(u), u = "high" => age[e] >= Settle
      PROVE  u \in Advertised'
  <2>1. e \in Claimable(u)' /\ (u = "high" => age'[e] >= Settle)
    BY <1>1, <1>2, <1>3
  <2>2. QED
    BY <2>1 DEF Advertised
<1>4. QED
  BY <1>3 DEF Advertised

LEMMA StepAdvert == TypeOK /\ AdvertInv /\ [Next]_vars => AdvertInv'
<1> SUFFICES ASSUME TypeOK, AdvertInv, [Next]_vars PROVE AdvertInv'
  OBVIOUS
<1>1. ASSUME Refresh, UNCHANGED tickVars PROVE AdvertInv'
  BY <1>1 DEF Refresh, AdvertInv, AdvertisedIsClaimable, tickVars
<1>2. ASSUME UNCHANGED <<born, kind, markVars, tickVars, advert>>,
             Leased' \subseteq Leased, \A e \in born : age'[e] >= age[e]
      PROVE  AdvertInv'
  <2>1. Advertised \subseteq Advertised'
    BY <1>2, AdvertisedGrows DEF markVars
  <2>2. QED
    BY <1>2, <2>1 DEF AdvertInv, AdvertisedIsClaimable, tickVars
<1>3. ASSUME UNCHANGED rowVars
      PROVE  \A e \in born : age'[e] >= age[e]
  <2>1. \A e \in born : age[e] \in 0..Settle
    BY DEF TypeOK
  <2>2. QED
    BY <1>3, <2>1, BoundsAssumption DEF rowVars
<1>4. ASSUME \A r \in Live' : r \in Live /\ plan'[r] = plan[r]
      PROVE  Leased' \subseteq Leased
  BY <1>4 DEF Leased
<1>5. ASSUME NEW e \in Events, NEW k \in Kinds, NEW a \in 0..Settle,
             Materialize(e, k, a)
      PROVE  AdvertInv'
  BY <1>5 DEF Materialize, AdvertInv, AdvertisedIsClaimable
<1>6. ASSUME NEW verdict \in {"deliver", "suppress"}, Interpret(verdict)
      PROVE  AdvertInv'
  BY <1>6 DEF Interpret, AdvertInv, AdvertisedIsClaimable
<1>7. CASE TickEnds
  BY <1>7 DEF TickEnds, Refresh, AdvertInv, AdvertisedIsClaimable
<1>8. ASSUME \/ \E lifecycle \in Lifecycles : DirectClaim(lifecycle)
             \/ AckAll
             \/ \E e \in Events : AckOne(e)
             \/ \E r \in Reservations, lifecycle \in Lifecycles, limit \in 0..MaxEvents :
                    Reserve(r, lifecycle, limit)
      PROVE  AdvertInv'
  BY <1>1, <1>8 DEF DirectClaim, ClaimNow, AckAll, AckOne, Reserve
<1>9. ASSUME NEW r \in Reservations, Surface(r)
      PROVE  AdvertInv'
  <2>1. Leased' \subseteq Leased
    BY <1>4, <1>9 DEF Surface, Live
  <2>2. QED
    BY <1>2, <1>3, <1>9, <2>1 DEF Surface, rowVars
<1>10. ASSUME NEW r \in Reservations, Commit(r) \/ Release(r)
       PROVE  AdvertInv'
  <2>1. CASE Refresh
    BY <1>1, <1>10, <2>1 DEF Commit, Release
  <2>2. CASE ~Refresh
    <3>1. /\ lease[r] = 0 /\ UNCHANGED <<rowVars, markVars, tickVars, advert>>
          /\ lease' = [lease EXCEPT ![r] = 0] /\ plan' = [plan EXCEPT ![r] = NoPlan]
      BY <1>10, <2>2, BoundsAssumption DEF Commit, Release, TypeOK
    <3>2. \A s \in Live' : s \in Live /\ plan'[s] = plan[s]
      BY <3>1 DEF Live, TypeOK
    <3>3. QED
      BY <1>2, <1>3, <1>4, <3>1, <3>2 DEF rowVars
  <2>3. QED
    BY <2>1, <2>2
<1>11. ASSUME NEW r \in Reservations, ClientGone(r)
       PROVE  AdvertInv'
  <2>1. \A s \in Live' : s \in Live /\ plan'[s] = plan[s]
    BY <1>11 DEF ClientGone, Live, TypeOK
  <2>2. QED
    BY <1>2, <1>3, <1>4, <1>11, <2>1 DEF ClientGone, rowVars
<1>12. CASE Elapse
  <2>1. \A s \in Live' : s \in Live /\ Less(lease[s]) > 0
    BY <1>12 DEF Elapse, Live, Less, TypeOK
  <2>2. \A s \in Live' : s \in Live /\ plan'[s] = plan[s]
    BY <1>12, <2>1 DEF Elapse, Live
  <2>3. ASSUME NEW e \in born PROVE age'[e] >= age[e]
    <3>1. e \in Events /\ age[e] \in 0..Settle
      BY DEF TypeOK
    <3>2. age'[e] = Older(age[e])
      BY <1>12, <3>1 DEF Elapse
    <3>3. QED
      BY <3>1, <3>2, BoundsAssumption DEF Older
  <2>4. QED
    BY <1>2, <1>4, <1>12, <2>2, <2>3 DEF Elapse
<1>13. CASE DaemonRestart
  BY <1>13 DEF DaemonRestart, AdvertInv, AdvertisedIsClaimable
<1>14. CASE UNCHANGED vars
  <2>1. Leased' \subseteq Leased
    BY <1>4, <1>14 DEF vars, cycleVars, Live
  <2>2. QED
    BY <1>2, <1>3, <1>14, <2>1 DEF vars, rowVars
<1>15. QED
  BY <1>5, <1>6, <1>7, <1>8, <1>9, <1>10, <1>11, <1>12, <1>13, <1>14 DEF Next

(* The hook-state file never promises a claim more than it would find:     *)
(* reservations, commits, lapses and acknowledgements all leave it at or   *)
(* below what is claimable, and so does time.                              *)
THEOREM AdvertisesTheClaimable == Spec => []AdvertisedIsClaimable
<1>1. Init => AdvertInv
  BY DEF Init, AdvertInv, AdvertisedIsClaimable
<1>2. AdvertInv => AdvertisedIsClaimable
  BY DEF AdvertInv
<1>3. QED
  BY <1>1, <1>2, StepAdvert, TypeCorrect, PTL DEF Spec
-----------------------------------------------------------------------------
(***************************************************************************)
(* Diagnosis.  Its answers agree with the decision in every well-typed     *)
(* state, so this invariant needs no strengthening, but facts about what a *)
(* decision takes.                                                         *)
(***************************************************************************)

(* No row has as many rows below it as there are rows: a limit of MaxEvents*)
(* leaves none out.                                                        *)
LEMMA LimitTakesAll ==
    ASSUME NEW S \in SUBSET Events, S # {}
    PROVE  Oldest(S, MaxEvents) = S
<1>1. SUFFICES ASSUME NEW e \in S
               PROVE  Cardinality({f \in S : f < e}) < MaxEvents
  BY DEF Oldest
<1>2. e \in Nat /\ e >= 1 /\ e <= MaxEvents /\ MaxEvents \in Nat
  BY BoundsAssumption DEF Events
<1>3. {f \in S : f < e} \subseteq 1 .. e - 1
  <2>1. ASSUME NEW f \in S, f < e PROVE f \in 1 .. e - 1
    <3>1. f \in Nat /\ f >= 1
      BY BoundsAssumption DEF Events
    <3>2. QED
      BY <1>2, <2>1, <3>1
  <2>2. QED
    BY <2>1
<1>4. /\ IsFiniteSet(1 .. e - 1)
      /\ Cardinality(1 .. e - 1) = e - 1
  <2>1. e - 1 \in Int /\ 1 \in Int
    BY <1>2
  <2>2. /\ IsFiniteSet(1 .. e - 1)
        /\ Cardinality(1 .. e - 1) = IF 1 > e - 1 THEN 0 ELSE (e - 1) - 1 + 1
    BY <2>1, FS_Interval
  <2>3. QED
    BY <1>2, <2>2
<1>5. /\ Cardinality({f \in S : f < e}) <= e - 1
      /\ Cardinality({f \in S : f < e}) \in Nat
  <2>1. IsFiniteSet({f \in S : f < e})
    BY <1>3, <1>4, FS_Subset
  <2>2. QED
    BY <1>3, <1>4, <2>1, FS_Subset, FS_CardinalityType
<1>6. QED
  BY <1>2, <1>5

(* Every row shares a group with a row that is delivered.                  *)
LEMMA GroupsCover ==
    ASSUME NEW S \in SUBSET Events
    PROVE  GroupsOf(S, Delivered(S)) = S
<1>1. Events \subseteq Nat
  BY BoundsAssumption DEF Events
<1>2. ASSUME NEW e \in S
      PROVE  \E m \in Delivered(S) : SameGroup(e, m)
  <2> DEFINE T == {f \in S : SameGroup(e, f)}
  <2>1. T \in SUBSET Events /\ e \in T
    BY DEF SameGroup
  <2>2. PICK m \in T : \A f \in T : f <= m
    BY <2>1, NewestExists
  <2>3. ASSUME NEW f \in S, f > m, SameGroup(m, f) PROVE FALSE
    <3>1. f \in T
      BY <2>2, <2>3 DEF SameGroup
    <3>2. f \in Nat /\ m \in Nat /\ f <= m
      BY <1>1, <2>2, <3>1
    <3>3. QED
      BY <2>3, <3>2
  <2>4. m \in Delivered(S)
    BY <2>3 DEF Delivered, Folds
  <2>5. QED
    BY <2>2, <2>4
<1>3. QED
  BY <1>2 DEF GroupsOf

(* What a claim at each lifecycle point takes when nothing limits it.      *)
LEMMA InterruptibleTakes ==
    ASSUME TypeOK
    PROVE  WouldSurface("turn-interruptible") =
             IF SettledHigh # {} THEN SettledHigh \cup CoalescedNormal
             ELSE IF ReminderDue("normal") /\ Claimable("high") = {}
                  THEN Claimable("normal") ELSE {}
<1>1. WouldSurface("turn-interruptible") =
        UNION {p.cands : p \in InterruptiblePlans(MaxEvents)}
  BY DEF WouldSurface, Decide
<1>2. CASE SettledHigh # {}
  <2>1. SettledHigh \in SUBSET Events
    BY DEF SettledHigh, Claimable, Pending, Unread, TypeOK
  <2>2. Delivered(SettledHigh) \in SUBSET Events
    BY <2>1 DEF Delivered
  <2>3. GroupsOf(SettledHigh, Delivered(SettledHigh)) = SettledHigh
    BY <2>1, GroupsCover
  <2>4. Delivered(SettledHigh) # {}
    BY <1>2, <2>3 DEF GroupsOf
  <2>5. Oldest(Delivered(SettledHigh), MaxEvents) = Delivered(SettledHigh)
    BY <2>2, <2>4, LimitTakesAll
  <2>6. MaxEvents # 0
    <3>1. PICK e \in SettledHigh : TRUE
      BY <1>2
    <3>2. e \in 1..MaxEvents
      BY <2>1 DEF Events
    <3>3. QED
      BY <3>2, BoundsAssumption
  <2>7. HighPlan(MaxEvents).cands = SettledHigh \cup CoalescedNormal
    BY <2>3, <2>5, <2>6 DEF HighPlan, Delivery
  <2>8. InterruptiblePlans(MaxEvents) = {HighPlan(MaxEvents)}
    BY <1>2 DEF InterruptiblePlans
  <2>9. UNION {p.cands : p \in {HighPlan(MaxEvents)}} = HighPlan(MaxEvents).cands
    OBVIOUS
  <2>10. QED
    BY <1>1, <1>2, <2>7, <2>8, <2>9
<1>3. CASE SettledHigh = {}
  <2>1. Delivery(Claimable("normal"), {}).cands = Claimable("normal")
    BY DEF Delivery
  <2>2. QED
    BY <1>1, <1>3, <2>1 DEF InterruptiblePlans
<1>4. QED
  BY <1>2, <1>3

LEMMA IdleTakes ==
    WouldSurface("turn-idle") = IF ReminderDue("low") THEN Claimable("low") ELSE {}
<1>1. Delivery(Claimable("low"), {}).cands = Claimable("low")
  BY DEF Delivery
<1>2. WouldSurface("turn-idle") = UNION {p.cands : p \in IdlePlans}
  BY DEF WouldSurface, Decide
<1>3. QED
  BY <1>1, <1>2 DEF IdlePlans

LEMMA TypesGiveDiagnosis == TypeOK => DiagnosisMatchesClaim
<1> SUFFICES ASSUME TypeOK PROVE DiagnosisMatchesClaim
  OBVIOUS
<1> DEFINE high == WouldSurface("turn-interruptible")
           low  == WouldSurface("turn-idle")
<1>1. /\ Of("high", SettledHigh) = SettledHigh /\ Of("normal", SettledHigh) = {}
      /\ \A u \in Urgencies : Of(u, Claimable(u)) = Claimable(u)
      /\ Of("normal", CoalescedNormal) = CoalescedNormal /\ Of("high", CoalescedNormal) = {}
      /\ Of("high", Claimable("normal")) = {}
  BY DEF Of, SettledHigh, Claimable, CoalescedNormal, Urgencies
<1>2. \A u, S, T : Of(u, S \cup T) = Of(u, S) \cup Of(u, T)
  BY DEF Of
<1>3. Of("normal", {}) = {} /\ Of("high", {}) = {} /\ Of("low", {}) = {}
  BY DEF Of
<1>4. Of("high", high) = SettledHigh
  BY <1>1, <1>2, <1>3, InterruptibleTakes
<1>5. Of("normal", high) = IF SettledHigh # {} THEN CoalescedNormal
                           ELSE IF ReminderDue("normal") /\ Claimable("high") = {}
                                THEN Claimable("normal") ELSE {}
  <2>1. Of("normal", Claimable("normal")) = Claimable("normal")
    BY <1>1 DEF Urgencies
  <2>2. Of("normal", SettledHigh \cup CoalescedNormal) = CoalescedNormal
    <3>1. Of("normal", SettledHigh \cup CoalescedNormal)
            = Of("normal", SettledHigh) \cup Of("normal", CoalescedNormal)
      BY <1>2
    <3>2. Of("normal", SettledHigh) = {} /\ Of("normal", CoalescedNormal) = CoalescedNormal
      BY <1>1
    <3>3. QED
      BY <3>1, <3>2
  <2>3. QED
    BY <1>3, <2>1, <2>2, InterruptibleTakes
<1>6. Of("low", low) = IF ReminderDue("low") THEN Claimable("low") ELSE {}
  BY <1>1, <1>3, IdleTakes DEF Urgencies
<1>7. \A u : Claimable(u) \subseteq Of(u, Unread)
  BY DEF Claimable, Of, Pending
<1>8. ASSUME NEW u PROVE (ReminderHold(u) # NoHold) <=> (Of(u, Unread) # {} /\ ~ReminderDue(u))
  BY DEF ReminderHold, NoHold, Hold
<1>9. (SettleWindowHold # NoHold) <=> (Claimable("high") # {} /\ SettledHigh = {})
  BY DEF SettleWindowHold, NoHold, Hold
<1>10. \A u : ReminderDue(u) => Claimable(u) # {}
  BY DEF ReminderDue
<1>11. CoalescedNormal = IF ReminderDue("normal") THEN Claimable("normal") ELSE {}
  BY DEF CoalescedNormal
<1>12. SettledHigh \subseteq Claimable("high")
  BY DEF SettledHigh
<1>13. (NormalHold # NoHold) <=> (Of("normal", Unread) # {} /\ Of("normal", high) = {})
  <2>1. (NormalHold # NoHold) <=>
          \/ ReminderDue("normal") /\ SettleWindowHold # NoHold
          \/ ReminderHold("normal") # NoHold
    BY <1>8 DEF NormalHold, NoHold, Hold
  <2>2. QED
    BY <1>5, <1>7, <1>8, <1>9, <1>10, <1>11, <1>12, <2>1
<1>14. (ReminderHold("low") # NoHold) <=> (Of("low", Unread) # {} /\ Of("low", low) = {})
  BY <1>6, <1>7, <1>8, <1>10
<1>15. PreviewReminder <=> (Of("high", high) # {} /\ Of("normal", high) # {})
  BY <1>4, <1>5, <1>10, <1>11 DEF PreviewReminder
<1>16. PreviewHigh = Delivered(Of("high", high))
  BY <1>4 DEF PreviewHigh
<1>17. \A u \in {"normal", "low"} : ClaimedIds(u) \subseteq Claimed
  BY DEF ClaimedIds, Of, Pending, Unread
<1>18. QED
  BY <1>4, <1>9, <1>13, <1>14, <1>15, <1>16, <1>17 DEF DiagnosisMatchesClaim

(* What doctor, explain and `hook deliver --debug` say of a silent turn is *)
(* what the claim would do, in every state the runtime reaches.            *)
THEOREM DiagnosisIsTrue == Spec => []DiagnosisMatchesClaim
BY TypesGiveDiagnosis, TypeCorrect, PTL

-----------------------------------------------------------------------------
(***************************************************************************)
(* Delivery implements DeliveryPromise: every step of the runtime and its  *)
(* transports is one step of the promise, or changes nothing it speaks of. *)
(***************************************************************************)

(* What the refinement needs besides types and ToldInv: one verdict is     *)
(* awaited at a time, a recap shows a row at least as new as any it        *)
(* claims, and a surfaced reservation has told of each of its rows or of a *)
(* newer one.                                                              *)
RecapShowsNewest(p) ==
    p.mode = "recap" => \A e \in p.cands : \E t \in p.bodies : t >= e
Accounted(p, heard) == \A e \in p.cands : e \in heard \/ \E t \in heard : t > e

PromiseInv ==
    /\ judging = {} \/ \E e \in born : judging = {e}
    /\ \A r \in Reservations : RecapShowsNewest(plan[r])
    /\ \A r \in Reservations : client[r] = "surfaced" => Accounted(plan[r], told)

LEMMA RowsAreNaturals == born \subseteq Events => born \subseteq Nat
BY BoundsAssumption DEF Events

(* A recap takes every unread row and shows the newest of them. *)
LEMMA DecidedRecap ==
    ASSUME born \subseteq Events,
           NEW lifecycle \in Lifecycles, NEW limit \in 0..MaxEvents,
           NEW p \in Decide(lifecycle, limit), p.mode = "recap"
    PROVE  p.cands = Unread /\ RecapShowsNewest(p)
<1> DEFINE B == Newest(Delivered(Unread), RecapMax)
<1>1. \A q \in InterruptiblePlans(limit) : q.mode = "delivery"
  BY DEF InterruptiblePlans, HighPlan, Delivery
<1>2. \A q \in IdlePlans : q.mode = "delivery"
  BY DEF IdlePlans, Delivery
<1>3. p \in RecapPlans
  BY <1>1, <1>2 DEF Decide, Lifecycles
<1>4. Unread # {} /\ p = [cands |-> Unread, bodies |-> B, mode |-> "recap"]
  BY <1>3 DEF RecapPlans
<1>5. Unread \subseteq Events /\ Unread \subseteq Nat
  BY RowsAreNaturals DEF Unread
<1>6. PICK m \in Unread : \A f \in Unread : f <= m
  BY <1>4, <1>5, NewestExists
<1>7. \A f \in Unread : ~(f > m)
  BY <1>5, <1>6
<1>8. m \in Delivered(Unread) /\ {f \in Delivered(Unread) : f > m} = {}
  BY <1>7 DEF Delivered, Folds
<1>9. Cardinality({}) < RecapMax
  BY FS_EmptySet, BoundsAssumption
<1>10. m \in B
  BY <1>8, <1>9 DEF Newest
<1>11. \A e \in Unread : m >= e
  BY <1>5, <1>6
<1>12. QED
  BY <1>4, <1>10, <1>11 DEF RecapShowsNewest

(* A message accounts for every row of its plan. *)
LEMMA TellingAccounts ==
    ASSUME TypeOK, NEW p, PlanOK(p), RecapShowsNewest(p)
    PROVE  Accounted(p, told \cup Tells(p))
<1>1. CASE p.mode # "recap"
  BY <1>1 DEF Tells, Accounted
<1>2. CASE p.mode = "recap"
  <2>1. p.bodies \subseteq Tells(p)
    BY <1>2 DEF Tells, GroupsOf, SameGroup, PlanOK
  <2>2. p.cands \subseteq Nat /\ p.bodies \subseteq Nat
    BY RowsAreNaturals DEF TypeOK, PlanOK
  <2>3. SUFFICES ASSUME NEW e \in p.cands
                 PROVE  e \in Tells(p) \/ \E t \in Tells(p) : t > e
    BY DEF Accounted
  <2>4. PICK t \in p.bodies : t >= e
    BY <1>2 DEF RecapShowsNewest
  <2>5. t = e \/ t > e
    BY <2>2, <2>4
  <2>6. QED
    BY <2>1, <2>4, <2>5
<1>3. QED
  BY <1>1, <1>2

----------------------------------------------------------------------------
LEMMA NoPlanAccounted == RecapShowsNewest(NoPlan) /\ \A heard : Accounted(NoPlan, heard)
BY DEF RecapShowsNewest, Accounted, NoPlan

LEMMA StepPromiseInv == TypeOK /\ PromiseInv /\ [Next]_vars => PromiseInv'
<1> SUFFICES ASSUME TypeOK, PromiseInv, [Next]_vars PROVE PromiseInv'
  OBVIOUS
<1> USE DEF RecapShowsNewest, Accounted
<1>1. ASSUME judging' = judging \/ judging' = {}, born' = born, told' = told,
             \A r \in Reservations :
                \/ plan'[r] = plan[r] /\ (client'[r] = "surfaced" => client[r] = "surfaced")
                \/ plan'[r] = NoPlan
      PROVE  PromiseInv'
  <2>1. \A r \in Reservations : RecapShowsNewest(plan[r])'
    BY <1>1, NoPlanAccounted DEF PromiseInv
  <2>2. \A r \in Reservations : client'[r] = "surfaced" => Accounted(plan[r], told)'
    BY <1>1, NoPlanAccounted DEF PromiseInv
  <2>3. (judging = {} \/ \E e \in born : judging = {e})'
    BY <1>1 DEF PromiseInv
  <2>4. QED
    BY <2>1, <2>2, <2>3 DEF PromiseInv
<1>2. ASSUME NEW e \in Events, NEW k \in Kinds, NEW a \in 0..Settle,
             Materialize(e, k, a)
      PROVE  PromiseInv'
  BY <1>2 DEF Materialize, PromiseInv, cycleVars
<1>3. ASSUME NEW lifecycle \in Lifecycles, DirectClaim(lifecycle)
      PROVE  PromiseInv'
  <2>1. PICK p \in Decide(lifecycle, MaxEvents) : ClaimNow(p)
    BY <1>3 DEF DirectClaim
  <2>2. QED
    BY <2>1 DEF ClaimNow, PromiseInv, rowVars, tickVars, cycleVars
<1>4. ASSUME NEW r \in Reservations, NEW lifecycle \in Lifecycles,
             NEW limit \in 0..MaxEvents, Reserve(r, lifecycle, limit)
      PROVE  PromiseInv'
  <2>1. PICK p \in Decide(lifecycle, limit) : plan' = [plan EXCEPT ![r] = p]
    BY <1>4 DEF Reserve
  <2>2. RecapShowsNewest(p)
    BY DecidedRecap DEF TypeOK
  <2>3. \A s \in Reservations :
            /\ plan'[s] = IF s = r THEN p ELSE plan[s]
            /\ client'[s] = IF s = r THEN "reserved" ELSE client[s]
    BY <1>4, <2>1 DEF Reserve, TypeOK
  <2>4. QED
    BY <1>4, <2>2, <2>3 DEF Reserve, PromiseInv, rowVars, tickVars
<1>5. ASSUME NEW r \in Reservations, Surface(r)
      PROVE  PromiseInv'
  <2>1. Accounted(plan[r], told')
    BY <1>5, TellingAccounts DEF Surface, PromiseInv, TypeOK
  <2>2. \A s \in Reservations : client'[s] = IF s = r THEN "surfaced" ELSE client[s]
    BY <1>5 DEF Surface, TypeOK
  <2>3. told \subseteq told'
    BY <1>5 DEF Surface
  <2>4. QED
    BY <1>5, <2>1, <2>2, <2>3 DEF Surface, PromiseInv, rowVars, tickVars
<1>6. ASSUME NEW r \in Reservations, Commit(r) \/ Release(r) \/ ClientGone(r)
      PROVE  PromiseInv'
  <2>1. \A s \in Reservations :
            \/ plan'[s] = plan[s] /\ (client'[s] = "surfaced" => client[s] = "surfaced")
            \/ plan'[s] = NoPlan
    BY <1>6 DEF Commit, Release, ClientGone, TypeOK
  <2>2. QED
    BY <1>1, <1>6, <2>1 DEF Commit, Release, ClientGone, rowVars, tickVars
<1>7. CASE Elapse \/ DaemonRestart
  <2>1. \A s \in Reservations : plan'[s] = plan[s] \/ plan'[s] = NoPlan
    BY <1>7 DEF Elapse, DaemonRestart
  <2>2. QED
    BY <1>1, <1>7, <2>1 DEF Elapse, DaemonRestart, rowVars, tickVars
<1>8. QED
  <2>1. ASSUME \/ \E verdict \in {"deliver", "suppress"} : Interpret(verdict)
               \/ TickEnds
               \/ AckAll
               \/ \E e \in Events : AckOne(e)
               \/ UNCHANGED vars
        PROVE  PromiseInv'
    BY <1>1, <2>1 DEF Interpret, TickEnds, AckAll, AckOne, rowVars, tickVars,
                      cycleVars, vars
  <2>2. QED
    BY <1>2, <1>3, <1>4, <1>5, <1>6, <1>7, <2>1 DEF Next

----------------------------------------------------------------------------
(***************************************************************************)
(* Each step of Delivery as a step of DeliveryPromise.                     *)
(***************************************************************************)

Held == Pending \cap Leased

(* Applying a plan takes exactly its rows off the pending ones. *)
LEMMA ApplyTakesItsRows ==
    ASSUME TypeOK, NEW p, p.cands \subseteq born, p.cands = {} \/ p.mode # "none",
           Apply(p), born' = born
    PROVE  Pending' = Pending \ p.cands
<1>1. \A e \in born : claim'[e] = IF e \in p.cands THEN p.mode ELSE claim[e]
  BY DEF Apply, TypeOK
<1>2. folded' = folded \cup Folds(p.cands) /\ acked' = acked /\ gated' = gated
  BY DEF Apply
<1>3. Folds(p.cands) \subseteq p.cands
  BY DEF Folds
<1>4. ASSUME NEW e PROVE e \in Pending' <=> e \in Pending \ p.cands
  BY <1>1, <1>2, <1>3 DEF Pending, Unread, Claimed
<1>5. QED
  BY <1>4

LEMMA PendingUnchanged == UNCHANGED <<born, acked, gated, folded, claim>> => Pending' = Pending
BY DEF Pending, Unread, Claimed

(* Leases that lapse or end only free rows. *)
LEMMA LeasedShrinks ==
    ASSUME \A r \in Live' : r \in Live /\ plan'[r] = plan[r]
    PROVE  Leased' \subseteq Leased
BY DEF Leased

LEMMA LeasedUnchanged == UNCHANGED <<lease, plan>> => Leased' = Leased
BY DEF Leased, Live

LEMMA LeasedInBorn == TypeOK => Leased \subseteq born
BY DEF Leased, Live, TypeOK, PlanOK

LEMMA StepPromise ==
    TypeOK /\ ToldInv /\ PromiseInv /\ [Next]_vars => [Promise!Next]_(Promise!vars)
<1> SUFFICES ASSUME TypeOK, ToldInv, PromiseInv, [Next]_vars
             PROVE  Promise!Next \/ UNCHANGED <<born, Pending, Held, told>>
  BY DEF Promise!vars, Held
<1> USE DEF Held
<1>1. ASSUME NEW e \in Events, NEW k \in Kinds, NEW a \in 0..Settle,
             Materialize(e, k, a)
      PROVE  Promise!Next
  <2>1. /\ e \notin born /\ born' = born \cup {e} /\ told' = told
        /\ UNCHANGED <<claim, acked, gated, folded, lease, plan>>
    BY <1>1 DEF Materialize, markVars, cycleVars
  <2>2. claim[e] = "none" /\ e \notin acked \cup gated \cup folded
    BY <2>1 DEF ToldInv, TypeOK
  <2>3. Pending' = Pending \cup {e}
    BY <2>1, <2>2 DEF Pending, Unread, Claimed
  <2>4. Leased' = Leased /\ e \notin Leased
    BY <2>1, LeasedUnchanged, LeasedInBorn
  <2>5. Promise!Arrive(e)
    BY <2>1, <2>3, <2>4 DEF Promise!Arrive
  <2>6. QED
    BY <2>5 DEF Promise!Next
<1>2. ASSUME NEW verdict \in {"deliver", "suppress"}, Interpret(verdict)
      PROVE  Promise!Next \/ UNCHANGED <<born, Pending, Held, told>>
  <2>1. UNCHANGED <<born, claim, acked, folded, lease, plan, told>>
    BY <1>2 DEF Interpret, rowVars, cycleVars
  <2>2. Leased' = Leased
    BY <2>1, LeasedUnchanged
  <2>3. PICK e \in born : judging = {e}
    BY <1>2 DEF Interpret, PromiseInv
  <2>4. CASE gated' = gated
    BY <2>1, <2>2, <2>4, PendingUnchanged
  <2>5. CASE gated' = gated \cup {e}
    <3>1. Pending' = Pending \ {e}
      BY <2>1, <2>5 DEF Pending, Unread, Claimed
    <3>2. Promise!Withdraw(e)
      BY <2>1, <2>2, <3>1 DEF Promise!Withdraw
    <3>3. e \in Events
      BY DEF TypeOK
    <3>4. QED
      BY <3>2, <3>3 DEF Promise!Next
  <2>6. QED
    BY <1>2, <2>3, <2>4, <2>5 DEF Interpret
<1>3. ASSUME NEW lifecycle \in Lifecycles, DirectClaim(lifecycle)
      PROVE  Promise!Next
  <2>1. PICK p \in Decide(lifecycle, MaxEvents) : ClaimNow(p)
    BY <1>3 DEF DirectClaim
  <2>2. born \subseteq Events /\ MaxEvents \in 0..MaxEvents
    BY BoundsAssumption DEF TypeOK
  <2>3. DecidedOK(p)
    BY <2>2, DecideGivesOK
  <2>4. UNCHANGED <<born, lease, plan>> /\ Apply(p) /\ told' = told \cup Tells(p)
    BY <2>1 DEF ClaimNow, rowVars, cycleVars
  <2>5. Leased' = Leased
    BY <2>4, LeasedUnchanged
  <2>6. Pending' = Pending \ p.cands
    BY <2>3, <2>4, ApplyTakesItsRows DEF DecidedOK, PlanOK
  <2>7. CASE p.mode = "delivery"
    <3>1. Tells(p) = p.cands
      BY <2>7 DEF Tells
    <3>2. p.cands \subseteq Pending \ Leased
      BY <2>3, <2>7 DEF DecidedOK
    <3>3. Promise!TellNow
      BY <2>4, <2>5, <2>6, <3>1, <3>2 DEF Promise!TellNow
    <3>4. QED
      BY <3>3 DEF Promise!Next
  <2>8. CASE p.mode = "recap"
    <3>1. p.cands = Unread /\ RecapShowsNewest(p)
      BY <2>2, <2>8, DecidedRecap
    <3>2. Tells(p) \subseteq born
      BY <3>1 DEF Tells, GroupsOf, Unread
    <3>3. Pending' = {}
      BY <2>6, <3>1 DEF Pending
    <3>4. told \subseteq born
      BY DEF TypeOK
    <3>5. \A e \in Pending : e \in told' \/ \E t \in told' : t > e
      BY <2>3, <2>4, <3>1, TellingAccounts DEF DecidedOK, Accounted, Pending
    <3>6. Promise!RecapNow
      BY <2>4, <3>2, <3>3, <3>4, <3>5 DEF Promise!RecapNow
    <3>7. QED
      BY <3>6 DEF Promise!Next
  <2>9. QED
    BY <2>3, <2>7, <2>8 DEF DecidedOK
<1>4. CASE AckAll
  <2>1. UNCHANGED <<born, claim, gated, folded, lease, plan, told>>
    BY <1>4 DEF AckAll, rowVars, cycleVars
  <2>2. Leased' = Leased
    BY <2>1, LeasedUnchanged
  <2>3. acked' = acked \cup (Unread \ Leased)
    BY <1>4 DEF AckAll
  <2>4. Pending' = Held
    BY <2>1, <2>3 DEF Pending, Unread, Claimed
  <2>5. Promise!AcknowledgeAll
    BY <2>1, <2>2, <2>4 DEF Promise!AcknowledgeAll
  <2>6. QED
    BY <2>5 DEF Promise!Next
<1>5. ASSUME NEW e \in Events, AckOne(e)
      PROVE  Promise!Next
  <2>1. UNCHANGED <<born, claim, gated, folded, lease, plan, told>> /\ acked' = acked \cup {e}
    BY <1>5 DEF AckOne, rowVars, cycleVars
  <2>2. Leased' = Leased
    BY <2>1, LeasedUnchanged
  <2>3. Pending' = Pending \ {e}
    BY <2>1 DEF Pending, Unread, Claimed
  <2>4. Promise!Withdraw(e)
    BY <2>1, <2>2, <2>3 DEF Promise!Withdraw
  <2>5. QED
    BY <2>4 DEF Promise!Next
<1>6. ASSUME NEW r \in Reservations, NEW lifecycle \in Lifecycles,
             NEW limit \in 0..MaxEvents, Reserve(r, lifecycle, limit)
      PROVE  Promise!Next
  <2>1. UNCHANGED <<born, claim, acked, gated, folded, told>>
    BY <1>6 DEF Reserve, rowVars, markVars
  <2>2. Pending' = Pending
    BY <2>1, PendingUnchanged
  <2>3. \A s \in Live : s \in Live' /\ plan'[s] = plan[s]
    BY <1>6, BoundsAssumption DEF Reserve, Live, TypeOK
  <2>4. Leased \subseteq Leased'
    BY <2>3 DEF Leased
  <2>5. Promise!Hold
    BY <2>1, <2>2, <2>4 DEF Promise!Hold
  <2>6. QED
    BY <2>5 DEF Promise!Next
<1>7. ASSUME NEW r \in Reservations, Surface(r)
      PROVE  Promise!Next
  <2>1. /\ UNCHANGED <<born, claim, acked, gated, folded, lease, plan>>
        /\ told' = told \cup Tells(plan[r])
    BY <1>7 DEF Surface, rowVars, markVars
  <2>2. Pending' = Pending /\ Leased' = Leased
    BY <2>1, PendingUnchanged, LeasedUnchanged
  <2>3. told' \subseteq born
    BY <2>1 DEF Tells, GroupsOf, TypeOK, PlanOK
  <2>4. Promise!Tell
    BY <2>1, <2>2, <2>3 DEF Promise!Tell
  <2>5. QED
    BY <2>4 DEF Promise!Next
<1>8. ASSUME NEW r \in Reservations, Commit(r)
      PROVE  Promise!Next \/ UNCHANGED <<born, Pending, Held, told>>
  <2>1. /\ UNCHANGED <<born, told>>
        /\ lease' = [lease EXCEPT ![r] = 0] /\ plan' = [plan EXCEPT ![r] = NoPlan]
    BY <1>8 DEF Commit, rowVars
  <2>2. \A s \in Reservations : s \in Live' <=> s \in Live /\ s # r
    BY <2>1 DEF Live, TypeOK
  <2>3. \A s \in Live' : s \in Live /\ s # r /\ plan'[s] = plan[s]
    BY <2>1, <2>2 DEF Live, TypeOK
  <2>4. CASE lease[r] > 0
    <3>1. /\ plan[r].cands \subseteq born
          /\ plan[r].cands = {} \/ plan[r].mode # "none"
          /\ Apply(plan[r])
      BY <1>8, <2>4 DEF Commit, TypeOK, PlanOK
    <3>2. Pending' = Pending \ plan[r].cands
      BY <2>1, <3>1, ApplyTakesItsRows
    <3>3. Accounted(plan[r], told)
      BY <1>8 DEF Commit, PromiseInv
    <3>4. \A e \in Leased : e \in Leased' \/ e \in plan[r].cands
      <4>1. SUFFICES ASSUME NEW e \in Leased, e \notin plan[r].cands
                     PROVE  e \in Leased'
        OBVIOUS
      <4>2. PICK s \in Live : e \in plan[s].cands
        BY DEF Leased
      <4>3. s # r /\ s \in Reservations
        BY <4>1, <4>2 DEF Live
      <4>4. s \in Live' /\ plan'[s] = plan[s]
        BY <2>2, <2>3, <4>2, <4>3
      <4>5. QED
        BY <4>2, <4>4 DEF Leased
    <3>5. Leased' \subseteq Leased
      BY <2>3, LeasedShrinks
    <3>6. Held' = Held \cap Pending'
      BY <3>2, <3>4, <3>5
    <3>7. Promise!Discharge
      BY <2>1, <3>2, <3>3, <3>6 DEF Promise!Discharge, Accounted
    <3>8. QED
      BY <3>7 DEF Promise!Next
  <2>5. CASE ~(lease[r] > 0)
    <3>1. UNCHANGED <<claim, acked, gated, folded>>
      BY <1>8, <2>5 DEF Commit, markVars
    <3>2. Pending' = Pending
      BY <2>1, <3>1, PendingUnchanged
    <3>3. Live' = Live
      BY <2>2, <2>5 DEF Live
    <3>4. Leased' = Leased
      BY <2>3, <3>3 DEF Leased
    <3>5. QED
      BY <2>1, <3>2, <3>4
  <2>6. QED
    BY <2>4, <2>5
<1>9. ASSUME UNCHANGED <<born, claim, acked, gated, folded, told>>,
             \A s \in Live' : s \in Live /\ plan'[s] = plan[s]
      PROVE  Promise!Next
  <2>1. Pending' = Pending /\ Leased' \subseteq Leased
    BY <1>9, PendingUnchanged, LeasedShrinks
  <2>2. Promise!Drop
    BY <1>9, <2>1 DEF Promise!Drop
  <2>3. QED
    BY <2>2 DEF Promise!Next
<1>10. ASSUME NEW r \in Reservations, Release(r) \/ ClientGone(r)
       PROVE  Promise!Next
  <2>1. \A s \in Live' : s \in Live /\ plan'[s] = plan[s]
    BY <1>10 DEF Release, ClientGone, Live, TypeOK
  <2>2. QED
    BY <1>9, <1>10, <2>1 DEF Release, ClientGone, rowVars, markVars
<1>11. CASE Elapse
  <2>1. \A s \in Live' : s \in Live /\ Less(lease[s]) # 0
    BY <1>11 DEF Elapse, Live, Less, TypeOK
  <2>2. \A s \in Live' : plan'[s] = plan[s]
    BY <1>11, <2>1 DEF Elapse, Live
  <2>3. QED
    BY <1>9, <1>11, <2>1, <2>2 DEF Elapse, rowVars, markVars
<1>12. CASE DaemonRestart
  <2>1. Live' = {}
    BY <1>12 DEF DaemonRestart, Live
  <2>2. QED
    BY <1>9, <1>12, <2>1 DEF DaemonRestart, rowVars, markVars
<1>13. CASE TickEnds \/ UNCHANGED vars
  <2>1. UNCHANGED <<born, claim, acked, gated, folded, told, lease, plan>>
    BY <1>13 DEF TickEnds, rowVars, markVars, cycleVars, vars
  <2>2. QED
    BY <2>1, PendingUnchanged, LeasedUnchanged
<1>14. QED
  BY <1>1, <1>2, <1>3, <1>4, <1>5, <1>6, <1>7, <1>8, <1>10, <1>11, <1>12, <1>13
     DEF Next

(* The runtime keeps its promise: whatever ticks, claims, pushes, failures *)
(* and restarts do, no row a transport is surfacing is consumed behind its *)
(* back, and every row written off was told of, named by the agent,        *)
(* suppressed, or summed up by a recap that told of a newer one.           *)
THEOREM DeliveryKeepsPromise == Spec => KeepsPromise
<1>1. Init => Promise!Init
  BY DEF Init, Promise!Init, Pending, Unread
<1>2. Init => ToldInv /\ PromiseInv
  BY NoPlanAccounted DEF Init, ToldInv, ClaimedWasTold, Claimed, PromiseInv
<1>3. QED
  BY <1>1, <1>2, StepTold, StepPromiseInv, StepPromise, TypeCorrect, PTL
     DEF Spec, KeepsPromise, Promise!Spec
=============================================================================
