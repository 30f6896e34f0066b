------------------------------ MODULE Explain ------------------------------
(***************************************************************************)
(* `monitor explain`: the staged, read-only diagnosis of one monitor       *)
(* (explainMonitor, libs/core/src/runtime/service.ts), asked at any moment *)
(* of its ingestion.  Besides what Ingestion keeps it reads the newest row *)
(* of observation_history, which materializeSpan and a failed observe()    *)
(* write.  The monitor's definition is valid and a lead session is open.   *)
(***************************************************************************)
EXTENDS Ingestion

VARIABLE latest     \* the result of the newest observation_history row

allVars == <<vars, latest>>

STAGE_STATUS_SEVERITY == [ok |-> 0, healthy |-> 1, pending |-> 2, failure |-> 3]

ObservationStage ==
    CASE latest \in {"none", "errored"} -> "failure"
      [] latest = "no-change"           -> "healthy"
      [] OTHER                          -> "ok"

(* A batch, overdue or not, or a throttle that still suppresses.           *)
NotifyPending ==
    \/ row.debounce # <<>>
    \/ row.rollup # <<>>
    \/ row.until > 0

NotifyStage == IF NotifyPending THEN "pending" ELSE "ok"

MaterializationStage ==
    IF chain # <<>> THEN "ok"
    ELSE IF latest = "no-change" THEN "healthy"
    ELSE IF NotifyPending THEN "pending" ELSE "failure"

DeliveryStage ==
    IF chain # <<>> THEN "ok"
    ELSE IF latest = "no-change" THEN "healthy" ELSE "pending"

Stages == <<ObservationStage, NotifyStage, MaterializationStage, DeliveryStage>>

Mut_FirstNotOk(stages) ==
    IF \E i \in DOMAIN stages : stages[i] # "ok"
    THEN stages[CHOOSE i \in DOMAIN stages :
                  stages[i] # "ok" /\ \A j \in 1 .. i - 1 : stages[j] = "ok"]
    ELSE "ok"

(* explainVerdict: the most severe of the stages.                          *)
Verdict(stages) ==
    CHOOSE s \in Elements(stages) :
        \A i \in DOMAIN stages : STAGE_STATUS_SEVERITY[stages[i]] <= STAGE_STATUS_SEVERITY[s]

-----------------------------------------------------------------------------
EInit == Init /\ latest = "none"

(* materializeSpan classes the outcome by what was emitted, and only then  *)
(* by what was observed.                                                   *)
Outcome(t) ==
    IF tick'[t] # Idle THEN "triggered"
    ELSE IF row'.source > tick[t].previous THEN "suppressed" ELSE "no-change"

EIngest(t) ==
    /\ Ingest(t)
    /\ latest' = Outcome(t)

(* Not due, the window flushes without an observation: an empty window     *)
(* leaves no row.                                                          *)
ECheckWindow(t) ==
    /\ CheckWindow(t)
    /\ latest' = IF tick'[t] # Idle THEN "triggered" ELSE latest

EFailObserve(t) ==
    /\ FailObserve(t)
    /\ latest' = "errored"

(* A failed insertion adds a row of its own, best effort. *)
EMaterialize(t) ==
    /\ Materialize(t)
    /\ latest' \in IF chain' = chain THEN {"errored", latest} ELSE {latest}

Quiet ==
    \/ \E k \in Kinds : Change(k)
    \/ \E s \in Strategies : Edit(s)
    \/ \E t \in Ticks : StartObserve(t) \/ Interpreted(t)
    \/ Crash
    \/ TimeStep

ENext ==
    \/ \E t \in Ticks : \/ EIngest(t) \/ ECheckWindow(t)
                        \/ EFailObserve(t) \/ EMaterialize(t)
    \/ Quiet /\ UNCHANGED latest

ESpec == EInit /\ [][ENext]_allVars

-----------------------------------------------------------------------------
(* A report that calls the monitor fine hides nothing: whenever it is      *)
(* answered (between two awaits of the daemon) with the verdict ok or      *)
(* healthy, no observation is held and every change the baseline has       *)
(* passed was recorded, dropped on purpose, or is caught up in a crash.    *)
FineMeansNothingHeld ==
    LoopIsFree /\ Verdict(Stages) \in {"ok", "healthy"} =>
        /\ Held(row) = {}
        /\ 1 .. row.source \subseteq Elements(chain) \cup InFlight \cup forgone \cup lost

=============================================================================
