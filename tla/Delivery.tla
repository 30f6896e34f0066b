------------------------------ MODULE Delivery ------------------------------
(***************************************************************************)
(* The delivery core of the runtime, for one lead session: the rows of     *)
(* session_event_state, the claim decision (decideDelivery / applyDelivery *)
(* in libs/core/src/runtime/service.ts), the in-memory reservation         *)
(* registry (delivery-reservations.ts), and the transports that drive them *)
(* over IPC: a direct `hook claim`, and any number of concurrent           *)
(* reserve -> surface -> commit/release cycles (the hook-deliver process   *)
(* and the channel server run the same protocol).                          *)
(*                                                                         *)
(* An event is its place in the delivery order (createdAt, id).  A held    *)
(* observation keeps the time it was observed at, so a row may be inserted *)
(* before rows that already exist.                                         *)
(* Time is counted in settle units: ages stop at Settle, leases count down *)
(* from LeaseTtl (15 s and 30 s in the code, so 1 and 2).                  *)
(***************************************************************************)
EXTENDS Naturals, FiniteSets

CONSTANTS
    MaxEvents,      \* bound: rows this session ever receives
    Kinds,          \* the (urgency, object) pairs the monitors emit
    NetObjects,     \* objects of monitors with baseline-strategy "net"
    ProseObjects,   \* objects of monitors with payload.form "prose"
    Reservations,   \* bound: delivery cycles in flight, known or orphaned
    Settle,         \* DEFAULT_HIGH_URGENCY_SETTLE_MS, in time units
    LeaseTtl,       \* DEFAULT_DELIVERY_RESERVATION_TTL_MS, in time units
    RecapMax        \* MAX_RECAP_EVENTS

Urgencies  == {"low", "normal", "high"}
Lifecycles == {"turn-interruptible", "turn-idle", "post-compact"}
Events     == 1..MaxEvents

ASSUME BoundsAssumption ==
    /\ MaxEvents \in Nat
    /\ Settle \in Nat
    /\ LeaseTtl \in Nat \ {0}
    /\ RecapMax \in Nat \ {0}

ASSUME KindsAssumption ==
    \A k \in Kinds : /\ DOMAIN k = {"urgency", "object"}
                     /\ k.urgency \in Urgencies

VARIABLES
    born,       \* rows of session_event_state
    kind,       \* the urgency and object of each row
    age,        \* time since createdAt, up to Settle
    claim,      \* mode of the last claim; "none" while firstNotifiedAt is null
    acked,      \* rows with acknowledgedAt
    gated,      \* rows with interpretDecision = "suppress"
    folded,     \* rows with netSuppressedAt
    judging,    \* the rows whose interpret verdict is still awaited
    ticking,    \* a tick is under way: session refresh still to come
    advert,     \* bands the hook-state file advertises as pending
    lease,      \* time left of each reservation; 0 = not in the registry
    plan,       \* what each reservation is to claim
    client,     \* the transport process that holds the reservation id
    told        \* history: rows covered by a message handed to the agent

rowVars == <<born, kind, age>>
markVars == <<claim, acked, gated, folded>>
tickVars == <<judging, ticking>>
cycleVars == <<lease, plan, client>>
vars == <<rowVars, markVars, tickVars, advert, cycleVars, told>>

NoKind == [urgency |-> "none", object |-> "none"]
NoPlan == [cands |-> {}, bodies |-> {}, mode |-> "none"]

----------------------------------------------------------------------------
(* What the delivery queries see.                                          *)

Unread  == born \ (acked \cup gated \cup folded)
Claimed == {e \in born : claim[e] # "none"}
Pending == Unread \ Claimed

Live   == {r \in Reservations : lease[r] > 0}
Leased == UNION {plan[r].cands : r \in Live}

(* pendingForClaim: leased rows are hidden from every claim decision but   *)
(* the recap's, which reads Unread.                                        *)
Mut_ClaimableIgnoresLeases(u) == {e \in Pending : kind[e].urgency = u}
Claimable(u) == {e \in Pending \ Leased : kind[e].urgency = u}
LeasedPending(u) == {e \in Pending \cap Leased : kind[e].urgency = u}

SettledHigh == {e \in Claimable("high") : age[e] >= Settle}

(* netCollapseGroupKey: rows of a net object fold together, any other row  *)
(* is a group of its own.                                                  *)
SameGroup(e, f) ==
    e = f \/ (kind[e].object = kind[f].object /\ kind[e].object \in NetObjects)

(* computeNetCollapseView: the newest row of each group is delivered, its  *)
(* older siblings are folded away.                                         *)
Mut_KeepsOldest(S) == {e \in S : \E f \in S : f < e /\ SameGroup(e, f)}
Folds(S) == {e \in S : \E f \in S : f > e /\ SameGroup(e, f)}
Delivered(S) == S \ Folds(S)
GroupsOf(S, reps) == {e \in S : \E f \in reps : SameGroup(e, f)}

Oldest(S, n) == {e \in S : Cardinality({f \in S : f < e}) < n}
Newest(S, n) == {e \in S : Cardinality({f \in S : f > e}) < n}

Advertised ==
    {u \in Urgencies :
        \E e \in Claimable(u) : u = "high" => age[e] >= Settle}

----------------------------------------------------------------------------
(* decideDelivery: the plans a claim at a lifecycle point can produce, at  *)
(* most one.  limit is maxEvents; MaxEvents stands for undefined.          *)

ReminderDue(u) == Claimable(u) # {} /\ LeasedPending(u) = {}
CoalescedNormal == IF ReminderDue("normal") THEN Claimable("normal") ELSE {}

Delivery(cands, bodies) ==
    [cands |-> cands, bodies |-> bodies, mode |-> "delivery"]

HighPlan(limit) ==
    LET reps == Oldest(Delivered(SettledHigh), IF limit = 0 THEN 1 ELSE limit)
        high == GroupsOf(SettledHigh, reps)
    IN  Delivery(high \cup CoalescedNormal, Delivered(high))

InterruptiblePlans(limit) ==
    IF SettledHigh # {} THEN {HighPlan(limit)}
    ELSE IF ReminderDue("normal") /\ Claimable("high") = {}
         THEN {Delivery(Claimable("normal"), {})}
         ELSE {}

IdlePlans ==
    IF ReminderDue("low") THEN {Delivery(Claimable("low"), {})} ELSE {}

RecapPlans ==
    IF Unread = {} THEN {}
    ELSE {[cands |-> Unread, bodies |-> Newest(Delivered(Unread), RecapMax),
           mode |-> "recap"]}

Decide(lifecycle, limit) ==
    CASE lifecycle = "turn-interruptible" -> InterruptiblePlans(limit)
      [] lifecycle = "turn-idle"          -> IdlePlans
      [] lifecycle = "post-compact"       -> RecapPlans

(* The rows a rendered plan tells the agent of.  A recap shows its newest  *)
(* bodies only; any other message stands for all it claims: bodies, the    *)
(* steps folded under them, and reminders.                                 *)
Tells(p) ==
    IF p.mode = "recap" THEN GroupsOf(p.cands, p.bodies) ELSE p.cands

(* applyDelivery: fold the net intermediates, then mark every candidate    *)
(* claimed.                                                                *)
Apply(p) ==
    /\ folded' = folded \cup Folds(p.cands)
    /\ claim' = [e \in Events |-> IF e \in p.cands THEN p.mode ELSE claim[e]]
    /\ UNCHANGED <<acked, gated>>

Refresh == advert' = Advertised'

----------------------------------------------------------------------------
Init ==
    /\ born = {} /\ kind = [e \in Events |-> NoKind] /\ age = [e \in Events |-> 0]
    /\ claim = [e \in Events |-> "none"]
    /\ acked = {} /\ gated = {} /\ folded = {}
    /\ judging = {} /\ ticking = FALSE /\ advert = {}
    /\ lease = [r \in Reservations |-> 0]
    /\ plan = [r \in Reservations |-> NoPlan]
    /\ client = [r \in Reservations |-> "idle"]
    /\ told = {}

(***************************************************************************)
(* The daemon's tick.                                                      *)
(***************************************************************************)

(* insertEvent projects one materialized observation, observed a ago.  One *)
(* that was held back comes after newer rows; of its own object, only when *)
(* it is high (debounced by default) and they are not (emitted at once).   *)
(* A prose monitor's row is visible while its interpret verdict is awaited.*)
Materialize(e, k, a) ==
    /\ e \notin born /\ judging = {}
    /\ \A f \in born : /\ f < e => age[f] >= a
                       /\ f > e => age[f] <= a
                       /\ kind[f].object = k.object /\ f > e =>
                             k.urgency = "high" /\ kind[f].urgency # "high"
    /\ born' = born \cup {e}
    /\ kind' = [kind EXCEPT ![e] = k]
    /\ age' = [age EXCEPT ![e] = a]
    /\ judging' = IF k.object \in ProseObjects THEN {e} ELSE {}
    /\ ticking' = TRUE
    /\ UNCHANGED <<markVars, advert, cycleVars, told>>

(* recordInterpretDecision: a deliver or failed verdict leaves the row     *)
(* deliverable, a suppress verdict hides it, claimed or not.               *)
Interpret(verdict) ==
    /\ judging # {}
    /\ gated' = IF verdict = "suppress" THEN gated \cup judging ELSE gated
    /\ judging' = {}
    /\ UNCHANGED <<rowVars, claim, acked, folded, ticking, advert, cycleVars, told>>

(* tick's last statement, refreshWorkspaceSessions. *)
TickEnds ==
    /\ ticking /\ judging = {}
    /\ ticking' = FALSE
    /\ UNCHANGED <<rowVars, markVars, judging, cycleVars, told>>
    /\ Refresh

(***************************************************************************)
(* Claims and acknowledgements.                                            *)
(***************************************************************************)

(* claimDelivery: decide and apply in one call; the reply is the message.  *)
ClaimNow(p) ==
    /\ Apply(p)
    /\ told' = told \cup Tells(p)
    /\ UNCHANGED <<rowVars, tickVars, cycleVars>>
    /\ Refresh
DirectClaim(lifecycle) == \E p \in Decide(lifecycle, MaxEvents) : ClaimNow(p)

(* acknowledgeSession without ids: everything unread and not leased. *)
Mut_AckAllTakesLeased ==
    /\ acked' = acked \cup Unread
    /\ UNCHANGED <<rowVars, claim, gated, folded, tickVars, cycleVars, told>>
    /\ Refresh
AckAll ==
    /\ acked' = acked \cup (Unread \ Leased)
    /\ UNCHANGED <<rowVars, claim, gated, folded, tickVars, cycleVars, told>>
    /\ Refresh

(* acknowledgeSession with ids: any row, leased or not. *)
AckOne(e) ==
    /\ e \in born
    /\ acked' = acked \cup {e}
    /\ UNCHANGED <<rowVars, claim, gated, folded, tickVars, cycleVars, told>>
    /\ Refresh

(***************************************************************************)
(* Reserve -> surface -> commit / release.                                 *)
(***************************************************************************)

Mut_ReserveKeepsHookState(r, lifecycle, limit) ==
    /\ client[r] = "idle" /\ lease[r] = 0
    /\ \E p \in Decide(lifecycle, limit) : plan' = [plan EXCEPT ![r] = p]
    /\ lease' = [lease EXCEPT ![r] = LeaseTtl]
    /\ client' = [client EXCEPT ![r] = "reserved"]
    /\ UNCHANGED <<rowVars, markVars, tickVars, advert, told>>
(* reserveDelivery: lease what the decision names, mark nothing. *)
Reserve(r, lifecycle, limit) ==
    /\ client[r] = "idle" /\ lease[r] = 0
    /\ \E p \in Decide(lifecycle, limit) : plan' = [plan EXCEPT ![r] = p]
    /\ lease' = [lease EXCEPT ![r] = LeaseTtl]
    /\ client' = [client EXCEPT ![r] = "reserved"]
    /\ UNCHANGED <<rowVars, markVars, tickVars, told>>
    /\ Refresh

(* The push resolved, or the whole chunk was written. *)
Surface(r) ==
    /\ client[r] = "reserved"
    /\ client' = [client EXCEPT ![r] = "surfaced"]
    /\ told' = told \cup Tells(plan[r])
    /\ UNCHANGED <<rowVars, markVars, tickVars, advert, lease, plan>>

(* commitDelivery: the registry forgets the reservation; a live one is     *)
(* applied, a lapsed one changes nothing.                                  *)
Mut_CommitUnsurfaced(r) ==
    /\ client[r] # "idle"
    /\ client' = [client EXCEPT ![r] = "idle"]
    /\ lease' = [lease EXCEPT ![r] = 0]
    /\ plan' = [plan EXCEPT ![r] = NoPlan]
    /\ IF lease[r] > 0 THEN Apply(plan[r]) ELSE UNCHANGED markVars
    /\ UNCHANGED <<rowVars, tickVars, told>>
    /\ IF lease[r] > 0 THEN Refresh ELSE UNCHANGED advert
Commit(r) ==
    /\ client[r] = "surfaced"
    /\ client' = [client EXCEPT ![r] = "idle"]
    /\ lease' = [lease EXCEPT ![r] = 0]
    /\ plan' = [plan EXCEPT ![r] = NoPlan]
    /\ IF lease[r] > 0 THEN Apply(plan[r]) ELSE UNCHANGED markVars
    /\ UNCHANGED <<rowVars, tickVars, told>>
    /\ IF lease[r] > 0 THEN Refresh ELSE UNCHANGED advert

(* releaseDelivery: the push or write failed, or the claim does not fit    *)
(* and is to be reserved again.  A lapsed reservation may be gone from the *)
(* registry (any look at it prunes) and then nothing is refreshed.         *)
Release(r) ==
    /\ client[r] = "reserved"
    /\ client' = [client EXCEPT ![r] = "idle"]
    /\ lease' = [lease EXCEPT ![r] = 0]
    /\ plan' = [plan EXCEPT ![r] = NoPlan]
    /\ UNCHANGED <<rowVars, markVars, tickVars, told>>
    /\ \/ Refresh
       \/ lease[r] = 0 /\ UNCHANGED advert

(* The transport dies, or its release or commit call is rejected before    *)
(* the daemon sees it: the reservation is orphaned until it expires.       *)
ClientGone(r) ==
    /\ client[r] # "idle"
    /\ client' = [client EXCEPT ![r] = "idle"]
    /\ plan' = IF lease[r] > 0 THEN plan ELSE [plan EXCEPT ![r] = NoPlan]
    /\ UNCHANGED <<rowVars, markVars, tickVars, advert, lease, told>>

(***************************************************************************)
(* Time and the daemon's life.                                             *)
(***************************************************************************)

(* An age stops at Settle; a lease lives while expiresAt > now. *)
Mut_OlderPastSettle(a) == IF a <= Settle THEN a + 1 ELSE a
Older(a) == IF a < Settle THEN a + 1 ELSE a
Mut_LeasesNeverExpire(n) == n
Less(n) == IF n > 0 THEN n - 1 ELSE 0

(* Time passes: rows settle, leases run out (and the registry drops those  *)
(* no transport remembers).                                                *)
Elapse ==
    /\ \/ \E e \in born : age[e] < Settle
       \/ Live # {}
    /\ age' = [e \in Events |-> IF e \in born THEN Older(age[e]) ELSE age[e]]
    /\ lease' = [r \in Reservations |-> Less(lease[r])]
    /\ plan' = [r \in Reservations |->
                  IF Less(lease[r]) = 0 /\ client[r] = "idle" THEN NoPlan ELSE plan[r]]
    /\ UNCHANGED <<born, kind, markVars, tickVars, advert, client, told>>

(* A restart drops the registry and any verdict awaited; rows are durable. *)
(* The new daemon ticks at once.                                           *)
DaemonRestart ==
    /\ Live # {} \/ judging # {}
    /\ lease' = [r \in Reservations |-> 0]
    /\ plan' = [r \in Reservations |-> IF client[r] = "idle" THEN NoPlan ELSE plan[r]]
    /\ judging' = {} /\ ticking' = TRUE
    /\ UNCHANGED <<rowVars, markVars, advert, client, told>>

Next ==
    \/ \E e \in Events, k \in Kinds, a \in 0..Settle : Materialize(e, k, a)
    \/ \E verdict \in {"deliver", "suppress"} : Interpret(verdict)
    \/ TickEnds
    \/ \E lifecycle \in Lifecycles : DirectClaim(lifecycle)
    \/ AckAll
    \/ \E e \in Events : AckOne(e)
    \/ \E r \in Reservations, lifecycle \in Lifecycles, limit \in 0..MaxEvents :
            Reserve(r, lifecycle, limit)
    \/ \E r \in Reservations : Surface(r)
    \/ \E r \in Reservations : Commit(r)
    \/ \E r \in Reservations : Release(r)
    \/ \E r \in Reservations : ClientGone(r)
    \/ Elapse
    \/ DaemonRestart

Spec == Init /\ [][Next]_vars

(***************************************************************************)
(* Scheduling.  Time passes and ticks end; a transport holding a           *)
(* reservation does something with it; the channel server keeps polling.   *)
(* Pushes do not fail for ever, and commits do not for ever come too late: *)
(* without this no transport could promise anything.                       *)
(***************************************************************************)
Poll == \E r \in Reservations, limit \in 0..MaxEvents :
            Reserve(r, "turn-interruptible", limit)
CommitInTime(r) == lease[r] > 0 /\ Commit(r)

Fairness ==
    /\ WF_vars(Elapse)
    /\ WF_vars(TickEnds)
    /\ WF_vars(\E verdict \in {"deliver", "suppress"} : Interpret(verdict))
    /\ WF_vars(Poll)
    /\ \A r \in Reservations :
          /\ WF_vars(Surface(r) \/ Release(r) \/ Commit(r) \/ ClientGone(r))
          /\ SF_vars(Surface(r))
          /\ SF_vars(CommitInTime(r))

FairSpec == Spec /\ Fairness
----------------------------------------------------------------------------
(* Properties. *)

PlanOK(p) == /\ p.cands \subseteq born
             /\ p.bodies \subseteq p.cands
             /\ p.mode = "none" => p.cands = {}

(* Every variable holds what its column or registry entry can hold, and a  *)
(* reservation leases only rows of this session.                           *)
TypeOK ==
    /\ born \subseteq Events
    /\ kind \in [Events -> Kinds \cup {NoKind}]
    /\ \A e \in born : kind[e] \in Kinds
    /\ age \in [Events -> 0..Settle]
    /\ claim \in [Events -> {"none", "delivery", "recap"}]
    /\ acked \subseteq born /\ gated \subseteq born /\ folded \subseteq born
    /\ judging \subseteq born /\ ticking \in BOOLEAN
    /\ advert \subseteq Urgencies
    /\ lease \in [Reservations -> 0..LeaseTtl]
    /\ client \in [Reservations -> {"idle", "reserved", "surfaced"}]
    /\ plan \in [Reservations -> [cands : SUBSET Events, bodies : SUBSET Events,
                                  mode : {"none", "delivery", "recap"}]]
    /\ \A r \in Reservations : PlanOK(plan[r])
    /\ told \subseteq born

IsRecap(r) == plan[r].mode = "recap"

(* Cross-transport deduplication: two live reservations never hold the     *)
(* same row, unless one of them is a recap, which reads every unread row   *)
(* (docs/specs/006 4.5).                                                   *)
LeasesDisjoint ==
    \A r, s \in Live :
        r # s /\ plan[r].cands \cap plan[s].cands # {} => IsRecap(r) \/ IsRecap(s)

(* first_notified_at means "was surfaced" (006 4.5.1): a row is claimed    *)
(* only after a message handed to the agent told of it, unless a recap     *)
(* consumed it beyond the rows it shows.                                   *)
ClaimedWasTold == \A e \in Claimed : e \in told \/ claim[e] = "recap"

(* What 006 5.5 says of every transport: the claimed set equals the        *)
(* rendered set, with no exception for a recap.                            *)
ClaimedIsRendered == Claimed \subseteq told

(* A net intermediate is folded away only in favour of a newer row of its  *)
(* object that was claimed and is not itself folded (002 1.1.7): folding   *)
(* never hides where an object stands now, however claims, stale commits   *)
(* and recaps interleave.                                                  *)
FoldedHasSurvivor ==
    \A e \in folded : \E f \in Claimed \ folded : f > e /\ SameGroup(e, f)

(* Between ticks, the hook-state file advertises a band as pending only if *)
(* a claim would find a row to deliver in it (006 4.5.1: it "never         *)
(* advertises a row the reservation makes momentarily unclaimable").       *)
AdvertisedIsClaimable == ticking \/ advert \subseteq Advertised

(* The implementation of DeliveryPromise: a pending row is owed, a leased  *)
(* one held.                                                               *)
Promise == INSTANCE DeliveryPromise WITH
    Row <- Events, arrived <- born, owed <- Pending, held <- Pending \cap Leased

(* Whatever the interleaving of ticks, claims, acknowledgements, pushes,   *)
(* failures, expiries and restarts, no row that a transport is surfacing   *)
(* is consumed behind its back, and none is consumed untold (006 4.5.1).   *)
KeepsPromise == Promise!Spec

(* The agent is told of every high and normal row in the end, unless it    *)
(* acknowledges the row or the interpret gate suppresses it first: holds   *)
(* for unsettled high work, leases that hide a band and orphaned           *)
(* reservations all end.                                                   *)
PendingIsTold ==
    \A e \in Events :
        (e \in Pending /\ kind[e].urgency \in {"high", "normal"})
            ~> (e \in told \/ e \notin Pending)
=============================================================================
