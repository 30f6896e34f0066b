----------------------------- MODULE Diagnosis -----------------------------
(***************************************************************************)
(* What `hook deliver --debug`, `doctor` and `monitor explain` say of a    *)
(* silent turn (hook-delivery-diagnosis.ts, reminder-diagnosis.ts), and    *)
(* the previews by which a transport sizes a claim it has not made yet.    *)
(* All of them recompute the claim decision from the delivery queries; the *)
(* invariant sets their answers beside the decision itself.                *)
(***************************************************************************)
EXTENDS Delivery

Hold(reason, rows) == [reason |-> reason, claimed |-> rows]
NoHold == Hold("none", {})

Of(u, S) == {e \in S : kind[e].urgency = u}

(* unread rows minus the unclaimed, whoever leases those: acknowledging    *)
(* them is the remedy doctor names.                                        *)
Mut_ClaimedIncludesLeased(u) == Of(u, Unread) \ Claimable(u)
ClaimedIds(u) == Of(u, Unread) \ Of(u, Pending)

(* classifyReminderHold. *)
ReminderHold(u) ==
    IF Of(u, Unread) = {} \/ ReminderDue(u) THEN NoHold
    ELSE IF LeasedPending(u) # {} THEN Hold("reserved-in-flight", {})
         ELSE Hold("no-new-work", ClaimedIds(u))

(* classifySettleWindowHold: some settled row means nothing is held.       *)
SettleWindowHold ==
    IF Claimable("high") # {} /\ SettledHigh = {} THEN Hold("settle-window", {}) ELSE NoHold

(* classifyCoalescingWithheldHold, before classifyReminderHold.            *)
NormalHold ==
    IF ReminderDue("normal") /\ SettleWindowHold # NoHold
    THEN Hold("settle-window", {}) ELSE ReminderHold("normal")

(* previewSettledHighDelivery: the blocks a claim would render.            *)
PreviewHigh == Delivered(SettledHigh)

(* previewCoalescedReminder: whether the reminder would be appended.       *)
PreviewReminder == SettledHigh # {} /\ ReminderDue("normal")

(* What a claim made now would surface. *)
WouldSurface(lifecycle) ==
    UNION {p.cands : p \in Decide(lifecycle, MaxEvents)}

-----------------------------------------------------------------------------
(* A silent band is named as held and a band that speaks is not: the       *)
(* diagnosis agrees with the claim it explains, leases, settle windows and *)
(* escalations included; the previews promise what the claim will say; and *)
(* the rows doctor would have acknowledged are rows already claimed, none  *)
(* of them in a transport's hand unclaimed.                                *)
DiagnosisMatchesClaim ==
    LET high == WouldSurface("turn-interruptible")
        low  == WouldSurface("turn-idle")
    IN  /\ (NormalHold # NoHold) <=>
             (Of("normal", Unread) # {} /\ Of("normal", high) = {})
        /\ (ReminderHold("low") # NoHold) <=>
             (Of("low", Unread) # {} /\ Of("low", low) = {})
        /\ (SettleWindowHold # NoHold) <=>
             (Claimable("high") # {} /\ Of("high", high) = {})
        /\ PreviewReminder <=> (Of("high", high) # {} /\ Of("normal", high) # {})
        /\ PreviewHigh = Delivered(Of("high", high))
        /\ \A u \in {"normal", "low"} : ClaimedIds(u) \subseteq Claimed
=============================================================================
