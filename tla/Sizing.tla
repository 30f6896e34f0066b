------------------------------- MODULE Sizing -------------------------------
(***************************************************************************)
(* The sizing loop of both transports: reserveSizedChannelDelivery and     *)
(* reserveSizedHookDelivery preview the settled rows, reserve as many as   *)
(* fit the message, look at what they were really given, and release and   *)
(* retry when the renderer would cut it.  Preview, reserve and release are *)
(* separate calls; rows settle and other transports take and return rows   *)
(* between any two of them.  Rows are numbered by age.  A row's size       *)
(* stands for the length of its block, its joiner and its name in the      *)
(* header; Marker is the deferred marker and Footer the coalesced reminder.*)
(***************************************************************************)
EXTENDS Integers, FiniteSets, FiniteSetsExt

CONSTANTS Rows,      \* a set 1..n: settled-high rows, oldest first
          Sizes,     \* the sizes a row may have
          Cap,       \* MAX_CHANNEL_CONTENT, MAX_ADDITIONAL_CONTEXT
          Marker,    \* length of the deferred marker
          Footer,    \* length of a coalesced reminder
          Attempts   \* MAX_CHANNEL_RESERVE_ATTEMPTS, MAX_HOOK_RESERVE_ATTEMPTS

VARIABLES size,      \* size of each row
          fate,      \* "unsettled", "pending", "ours" or "away" (another transport's)
          pc,        \* what the loop does next
          attempt,   \* number of the attempt
          forced,    \* forcedCap, 0 for undefined
          previewed, \* number of rows the attempt's preview showed
          max,       \* maxEvents, 0 for undefined
          more,      \* moreDeferred
          claim,     \* the rows of the reservation
          cap,       \* Cap less the footer of the reservation's claim
          stayed     \* rows pending ever since the reservation was made

vars == <<size, fate, pc, attempt, forced, previewed, max, more, claim, cap, stayed>>
loop == <<attempt, forced, previewed, max, more>>

Status(s) == {r \in Rows : fate[r] = s}
FirstOf(S, k) == {r \in S : Cardinality({q \in S : q <= r}) <= k}
TotalLength(S) == SumFunctionOnSet(size, S)

\* packWholeBlocks, resolveHookHeaderPacking: whole blocks that fit, oldest first.
Packed(S, room) == Max({k \in 0..Cardinality(S) : k = 0 \/ TotalLength(FirstOf(S, k)) <= room})

\* packEventsUnderCap: how many to ask for; at least one.
PackUnderCap(S, room) ==
  IF Packed(S, room) = Cardinality(S) THEN Cardinality(S)
                                      ELSE Max({1, Packed(S, room - Marker)})

\* resolveChannelClaimFit, resolveHookClaimFit: includedCount.
Included(S, deferred, room) ==
  IF Packed(S, room) = Cardinality(S) /\ ~deferred THEN Cardinality(S)
                                                   ELSE Max({1, Packed(S, room - Marker)})
Fits(S, deferred, room) == Included(S, deferred, room) = Cardinality(S)

\* renderChannelEvent, renderHookDelivery: the rows whose block is in the message.
Rendered(S, deferred, room) ==
  IF Packed(S, room) = Cardinality(S) /\ ~deferred THEN S
  ELSE IF Packed(S, room - Marker) >= 1 THEN FirstOf(S, Packed(S, room - Marker))
  ELSE FirstOf(S, 1)

TypeOK ==
  /\ size \in [Rows -> Sizes]
  /\ fate \in [Rows -> {"unsettled", "pending", "ours", "away"}]
  /\ pc \in {"preview", "reserve", "validate", "recheck", "mismatch", "stop",
             "accepted", "idle", "failed", "exhausted"}
  /\ attempt \in 1..(Attempts + 1)
  /\ {forced, previewed, max} \subseteq 0..Max({1, Cardinality(Rows)})
  /\ more \in BOOLEAN /\ claim \subseteq Rows /\ stayed \subseteq Rows \ claim
  /\ cap \in {Cap, Cap - Footer}
  /\ pc \in {"validate", "recheck", "mismatch"} => attempt <= Attempts

Init ==
  /\ size \in [Rows -> Sizes]
  /\ fate \in [Rows -> {"unsettled", "pending"}]
  /\ pc = "preview" /\ attempt = 1 /\ forced = 0 /\ previewed = 0 /\ max = 0
  /\ more = FALSE /\ claim = {} /\ cap = Cap /\ stayed = {}

\* The maxEvents of an attempt whose preview is S.
Wanted(S, room) ==
  IF attempt = Attempts THEN 1
  ELSE IF S = {} THEN forced
  ELSE Max({1, IF forced = 0 THEN PackUnderCap(S, room)
                             ELSE Min({PackUnderCap(S, room), forced})})

\* The previews of the settled rows and of the coalesced reminder.
Preview ==
  /\ pc = "preview"
  /\ IF attempt > Attempts
     THEN pc' = "exhausted" /\ UNCHANGED <<previewed, max, more>>
     ELSE \E footer \in {0, Footer} :
            LET S == Status("pending") IN
            /\ previewed' = Cardinality(S)
            /\ max' = Wanted(S, Cap - footer)
            /\ more' = (S # {} /\ max' < Cardinality(S))
            /\ pc' = "reserve"
  /\ UNCHANGED <<size, fate, attempt, forced, claim, cap, stayed>>

\* reserveDelivery: nothing, a reminder without events, or the oldest rows.
ReserveNothing ==
  /\ pc = "reserve" /\ Status("pending") = {} /\ pc' = "idle"
  /\ UNCHANGED <<size, fate, loop, claim, cap, stayed>>

ReserveReminder ==
  /\ pc = "reserve" /\ Status("pending") = {}
  /\ pc' = "accepted" /\ more' = FALSE /\ claim' = {}
  /\ UNCHANGED <<size, fate, attempt, forced, previewed, max, cap, stayed>>

ReserveRows ==
  /\ pc = "reserve" /\ Status("pending") # {}
  /\ claim' = IF max = 0 THEN Status("pending") ELSE FirstOf(Status("pending"), max)
  /\ stayed' = Status("pending") \ claim'
  /\ fate' = [r \in Rows |-> IF r \in claim' THEN "ours" ELSE fate[r]]
  /\ cap' \in {Cap, Cap - Footer}
  /\ pc' = "validate"
  /\ UNCHANGED <<size, loop>>

Mut_TrustsPreview ==
  /\ pc = "validate"
  /\ pc' = IF Fits(claim, more, cap) THEN "accepted" ELSE "mismatch"
  /\ UNCHANGED <<size, fate, loop, claim, cap, stayed>>

Validate ==
  /\ pc = "validate"
  /\ pc' = IF ~Fits(claim, more, cap) THEN "mismatch"
           ELSE IF more THEN "accepted" ELSE "recheck"
  /\ UNCHANGED <<size, fate, loop, claim, cap, stayed>>

\* settledWorkRemainsBeyondClaim, and the second fit when it answers yes.
Recheck ==
  /\ pc = "recheck"
  /\ more' = (Status("pending") \ claim # {})
  /\ pc' = IF more' /\ ~Fits(claim, TRUE, cap) THEN "mismatch" ELSE "accepted"
  /\ UNCHANGED <<size, fate, attempt, forced, previewed, max, claim, cap, stayed>>

\* The recheck's preview throws: the reservation is released before the error leaves.
RecheckFails ==
  /\ pc = "recheck" /\ pc' = "stop"
  /\ UNCHANGED <<size, fate, loop, claim, cap, stayed>>

\* releaseDelivery of a claim that does not fit; the next attempt asks for less.
ReleaseAndRetry ==
  /\ pc = "mismatch"
  /\ fate' = [r \in Rows |-> IF fate[r] = "ours" THEN "pending" ELSE fate[r]]
  /\ forced' = Included(claim, more, cap)
  /\ attempt' = attempt + 1 /\ pc' = "preview"
  /\ claim' = {} /\ stayed' = {} /\ max' = 0 /\ more' = FALSE /\ previewed' = 0 /\ cap' = Cap
  /\ UNCHANGED size

ReleaseAndStop ==
  /\ pc = "stop" /\ pc' = "failed"
  /\ fate' = [r \in Rows |-> IF fate[r] = "ours" THEN "pending" ELSE fate[r]]
  /\ claim' = {} /\ stayed' = {}
  /\ UNCHANGED <<size, loop, cap>>

\* The release throws: the error leaves the loop and the lease is left to lapse.
ReleaseFails ==
  /\ pc \in {"mismatch", "stop"} /\ pc' = "failed"
  /\ UNCHANGED <<size, fate, loop, claim, cap, stayed>>

Change(r, from, to) ==
  /\ fate[r] = from /\ fate' = [fate EXCEPT ![r] = to]
  /\ stayed' = stayed \ {r}
  /\ UNCHANGED <<size, pc, loop, claim, cap>>

Settles(r) == Change(r, "unsettled", "pending")
TakenElsewhere(r) == Change(r, "pending", "away")
ReturnedElsewhere(r) == Change(r, "away", "pending")

Done == pc \in {"accepted", "idle", "failed", "exhausted"}

Next ==
  /\ ~Done
  /\ \/ Preview \/ ReserveNothing \/ ReserveReminder \/ ReserveRows \/ Validate \/ Recheck
     \/ RecheckFails \/ ReleaseAndRetry \/ ReleaseAndStop \/ ReleaseFails
     \/ \E r \in Rows : Settles(r) \/ TakenElsewhere(r) \/ ReturnedElsewhere(r)

Spec == Init /\ [][Next]_vars

-----------------------------------------------------------------------------
\* The claimed set is the rendered set: whatever the races did to the pending
\* rows between the calls, no row of an accepted claim is cut from the message.
ClaimIsShown == pc = "accepted" => Rendered(claim, more, cap) = claim

\* A message without the deferred marker was the whole of the settled work: no
\* row was left outside it that had been pending since the claim was reserved.
SignpostsTheRest == pc = "accepted" /\ claim # {} /\ ~more => stayed = {}

\* The loop answers within its attempts, the line after it is unreachable as its
\* comment says, and "nothing to deliver" is never said while it holds leased rows.
NullMeansNothing == pc # "exhausted" /\ (pc = "idle" => Status("ours") = {})
=============================================================================
