---------------------------- MODULE VerifyObserve ----------------------------
(***************************************************************************)
(* How verify judges its trigger (apps/cli/src/verify-observe.ts and the   *)
(* observe stage of commands/verify.ts): it reads the monitor's history,   *)
(* newest rows first and a limited number of them, while the daemon        *)
(* observes the world, holds what it finds and writes a row per            *)
(* evaluation.  An evaluation that began before the trigger may end after. *)
(***************************************************************************)
EXTENDS Integers, Sequences, FiniteSets

CONSTANTS
    Ticks,    \* evaluations of the monitor that may overlap
    Limit,    \* history rows a listing returns
    MaxRows   \* bound: history rows

VARIABLES
    effective,  \* the trigger changes what the monitor observes
    world,      \* whether it has
    seen,       \* what the stored fingerprint says of it
    holding,    \* notify holds the change
    eval,       \* each evaluation in flight: what it saw
    history,    \* the results, oldest first; the row's id is its index
    stage,      \* where verify is
    window,     \* the ObserveWindow
    verdict

vars == <<effective, world, seen, holding, eval, history, stage, window, verdict>>
daemonVars == <<world, seen, holding, eval, history>>

Results == {"triggered", "suppressed", "no-change"}
NoVerdict == "none"

Init ==
    /\ effective \in BOOLEAN
    /\ world = FALSE /\ seen = FALSE /\ holding \in BOOLEAN
    /\ eval = [t \in Ticks |-> "idle"]
    /\ history = <<>>
    /\ stage = "baseline"
    /\ window = [positive |-> 0, negative |-> 0, latest |-> 0,
                 noChange |-> {}, gap |-> FALSE, suppressed |-> FALSE]
    /\ verdict = NoVerdict

StartObserve(t) ==
    /\ eval[t] = "idle" /\ Len(history) < MaxRows
    /\ eval' = [eval EXCEPT ![t] = IF world THEN "changed" ELSE "unchanged"]
    /\ UNCHANGED <<effective, world, seen, holding, history, stage, window, verdict>>

(* The evaluation is ingested.  A change is emitted, or suppressed: held   *)
(* or dropped.  What is held may fall due in an evaluation that finds      *)
(* nothing; one in which it does not counts as no change.                  *)
EndObserve(t) ==
    /\ eval[t] # "idle" /\ Len(history) < MaxRows
    /\ LET saw == eval[t] = "changed"
           found == saw # seen
       IN  /\ seen' = saw
           /\ \/ (found \/ holding) /\ holding' = FALSE
                 /\ history' = Append(history, "triggered")
              \/ found /\ holding' \in {TRUE, holding}
                 /\ history' = Append(history, "suppressed")
              \/ ~found /\ UNCHANGED holding
                 /\ history' = Append(history, "no-change")
    /\ eval' = [eval EXCEPT ![t] = "idle"]
    /\ UNCHANGED <<effective, world, stage, window, verdict>>

-----------------------------------------------------------------------------
(* A listing: the newest rows, by id.                                      *)
Listed == {i \in 1 .. Len(history) : i > Len(history) - Limit}

BaselineSeen ==
    /\ stage = "baseline" /\ history # <<>>
    /\ stage' = "trigger"
    /\ window' = [window EXCEPT !.positive = Len(history), !.latest = Len(history)]
    /\ UNCHANGED <<effective, verdict>> /\ UNCHANGED daemonVars

(* The trigger's effect, somewhere between its start and its completion.   *)
Fire ==
    /\ stage = "trigger"
    /\ stage' = "fired"
    /\ world' = effective
    /\ UNCHANGED <<effective, seen, holding, eval, history, window, verdict>>

Newest(w) == IF Len(history) > w.latest THEN Len(history) ELSE w.latest
Post(w) == {i \in Listed : i > w.positive}

(* A listing with newer rows that no longer shows the last row seen has a  *)
(* gap; a suppressed row is remembered.                                    *)
Advance(w) ==
    [w EXCEPT !.latest = Newest(w),
              !.gap = @ \/ (Newest(w) > w.latest /\ w.latest \notin Listed),
              !.suppressed = @ \/ \E i \in Post(w) : history[i] = "suppressed"]

(* The no-change rows after the trigger's completion are counted, each     *)
(* once.                                                                   *)
Count(w) ==
    IF w.gap \/ w.suppressed
    THEN w
    ELSE [w EXCEPT !.noChange = @ \cup {i \in Post(w) : i > w.negative
                                                   /\ history[i] = "no-change"}]

Mut_OneRowIsEnough(w) == ~w.gap /\ ~w.suppressed /\ w.noChange # {}

RulesOut(w) == ~w.gap /\ ~w.suppressed /\ Cardinality(w.noChange) >= 2

(* resolveObserveVerdict: a triggered row wins.                            *)
Resolve(w) ==
    IF \E i \in Post(w) : history[i] = "triggered"
    THEN [window |-> w, verdict |-> "triggered"]
    ELSE LET next == Count(Advance(w))
         IN  [window |-> next,
              verdict |-> IF RulesOut(next) THEN "no-change" ELSE NoVerdict]

Judge(w) ==
    LET judged == Resolve(w)
    IN  /\ window' = judged.window
        /\ verdict' = judged.verdict
        /\ stage' = IF judged.verdict = NoVerdict THEN "observe" ELSE "judged"

(* The first listing sets the frontier that idle rows must be past.        *)
TriggerDone ==
    /\ stage = "fired"
    /\ Judge([window EXCEPT !.negative = Len(history)])
    /\ UNCHANGED effective /\ UNCHANGED daemonVars

Poll ==
    /\ stage = "observe"
    /\ Judge(window)
    /\ UNCHANGED effective /\ UNCHANGED daemonVars

Next ==
    \/ \E t \in Ticks : StartObserve(t) \/ EndObserve(t)
    \/ BaselineSeen \/ Fire \/ TriggerDone \/ Poll

Spec == Init /\ [][Next]_vars
-----------------------------------------------------------------------------
(* The variables have their types.                                         *)
TypeOK ==
    /\ history \in Seq(Results)
    /\ window.noChange \subseteq 1 .. Len(history)
    /\ window.positive <= window.latest

(* A trigger that did change what the monitor observes is never reported   *)
(* as having changed nothing, be an evaluation in flight when it fired, be *)
(* its change held back, be its row gone from the listing.                 *)
NoChangeIsTrue == verdict = "no-change" => ~effective
=============================================================================
