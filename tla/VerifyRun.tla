----------------------------- MODULE VerifyRun -----------------------------
(***************************************************************************)
(* agentmonitors verify with a daemon of its own (apps/cli/src/commands/   *)
(* verify.ts, verify-budget.ts): the stages of a run, their deadlines, and *)
(* what is taken down again, against the daemon it boots, which polls the  *)
(* monitor once an interval, holds a change for the settle time and may    *)
(* die.  verify looks at every instant; a reply takes no time.  The rules  *)
(* that turn history rows into a verdict are module VerifyObserve's.       *)
(***************************************************************************)
EXTENDS Integers

CONSTANTS
    Interval,    \* intervalMs
    Margin,      \* marginMs, a quarter of the interval
    Settles,     \* values of the monitor's settle-for, 0 without one
    ClaimSettle, \* highUrgencyClaimSettleMs
    BootTimeout, \* BOOT_TIMEOUT_MS
    CommandCap,  \* bound: how long a --trigger-cmd runs
    MaxFaults    \* bound: deaths of the daemon, signals and stuck daemons

Triggers == {"scratch", "created", "edited", "command", "manual"}

VARIABLES
    trigger, settle, high, \* what is verified, and how
    pc,       \* the stage
    left,     \* time left to the stage's deadline
    detect,   \* time left to detectDeadline
    child,    \* the daemon: "none", "booting", "up", "dead"
    temp,     \* its temporary directory is there
    file,     \* the watched file: "absent", "users" or "ours"
    session,  \* the verify session is open
    changed,  \* what the monitor watches has changed since the baseline
    due,      \* time to the monitor's next poll
    seen, held, \* the change was observed; for how long notify holds it, or -1
    rows,     \* the newest outcome, and how many idle ones since the trigger
    event,    \* age of the unread event, -1 without one, -2 once claimed
    verdict, signalled, faults

vars == <<trigger, settle, high, pc, left, detect, child, temp, file, session,
          changed, due, seen, held, rows, event, verdict, signalled, faults>>
plan == <<trigger, settle, high>>
daemonVars == <<due, seen, held, rows>>

Before == IF trigger = "edited" THEN "users" ELSE "absent"
Less(a) == IF a > 0 THEN a - 1 ELSE a
Larger(a, b) == IF a >= b THEN a ELSE b
Ended == pc \in {"end", "exited", "killed"}
Fault == faults < MaxFaults /\ faults' = faults + 1

-----------------------------------------------------------------------------
(* computeVerifyBudget *)
Claim == IF high THEN ClaimSettle ELSE 0
BaselineBudget == Interval + Margin
DetectBudget == Interval + settle + Claim + Margin
ObserveBudget == Larger(DetectBudget, 2 * Interval + Margin)

Mut_KeepsDetectDeadline == detect

PostObserve == Larger(detect, settle + Claim + Margin)

Init ==
    /\ trigger \in Triggers /\ settle \in Settles /\ high \in BOOLEAN
    /\ pc = "start" /\ left = 0 /\ detect = 0
    /\ child = "none" /\ temp = FALSE /\ file = Before
    /\ session = FALSE /\ changed = FALSE
    /\ due = 0 /\ seen = FALSE /\ held = -1
    /\ rows = [last |-> "none", idle |-> 0]
    /\ event = -1 /\ verdict = "none" /\ signalled = FALSE /\ faults = 0

-----------------------------------------------------------------------------
Boot ==
    /\ pc = "start"
    /\ pc' = "boot" /\ temp' = TRUE /\ child' = "booting" /\ left' = BootTimeout
    /\ UNCHANGED <<detect, file, session, changed, event, verdict, signalled, faults>>
    /\ UNCHANGED plan /\ UNCHANGED daemonVars

(* The run ends with a verdict: the finally blocks come next.              *)
Ends(v) == pc' = "finally" /\ verdict' = v

BootPoll ==
    /\ pc = "boot"
    /\ \/ child = "up" /\ pc' = "session" /\ UNCHANGED verdict
       \/ child = "dead" /\ Ends("daemon-died")
       \/ left = 0 /\ child = "booting" /\ Ends("daemon-died")
    /\ UNCHANGED <<left, detect, child, temp, file, session, changed, event,
                   signalled, faults>>
    /\ UNCHANGED plan /\ UNCHANGED daemonVars

OpenSession ==
    /\ pc = "session"
    /\ IF child = "up"
       THEN session' = TRUE /\ pc' = "baseline" /\ left' = BaselineBudget /\ UNCHANGED verdict
       ELSE Ends("error") /\ UNCHANGED <<session, left>>
    /\ UNCHANGED <<detect, child, temp, file, changed, event, signalled, faults>>
    /\ UNCHANGED plan /\ UNCHANGED daemonVars

(* pollUntil: the child's exit is noticed between two calls, or a call     *)
(* fails on it; nothing found by the deadline is null.                     *)
Lost ==
    /\ pc \in {"baseline", "observe", "materialize", "deliver"}
    /\ child = "dead"
    /\ \E v \in {"daemon-died", "error"} : Ends(v)
    /\ UNCHANGED <<left, detect, child, temp, file, session, changed, event,
                   signalled, faults>>
    /\ UNCHANGED plan /\ UNCHANGED daemonVars

Expires ==
    /\ pc \in {"baseline", "observe", "materialize", "deliver"}
    /\ left = 0
    /\ Ends(IF pc = "deliver" THEN "delivery-empty" ELSE "budget-exceeded")
    /\ UNCHANGED <<left, detect, child, temp, file, session, changed, event,
                   signalled, faults>>
    /\ UNCHANGED plan /\ UNCHANGED daemonVars

SeesBaseline ==
    /\ pc = "baseline" /\ child = "up" /\ left > 0 /\ rows.last # "none"
    /\ pc' = "trigger"
    /\ left' = IF trigger = "command" THEN CommandCap ELSE 0
    /\ UNCHANGED <<detect, child, temp, file, session, changed, event, verdict,
                   signalled, faults>>
    /\ UNCHANGED plan /\ UNCHANGED daemonVars

(* A scratch file may fail to match the globs: nothing watched changes.    *)
Fire ==
    /\ pc = "trigger" /\ trigger # "command"
    /\ pc' = "observe"
    /\ left' = ObserveBudget /\ detect' = DetectBudget
    /\ IF trigger = "manual"
       THEN UNCHANGED <<file, changed>>
       ELSE file' = "ours" /\ changed' \in IF trigger = "scratch" THEN BOOLEAN ELSE {TRUE}
    /\ UNCHANGED <<child, temp, session, event, verdict, signalled, faults>>
    /\ UNCHANGED plan /\ UNCHANGED daemonVars

(* Someone changes what is watched: the operator, or the command.          *)
Change ==
    /\ ~changed
    /\ \/ pc = "trigger" /\ trigger = "command"
       \/ pc = "observe" /\ trigger = "manual"
    /\ changed' = TRUE
    /\ UNCHANGED <<pc, left, detect, child, temp, file, session, event, verdict,
                   signalled, faults>>
    /\ UNCHANGED plan /\ UNCHANGED daemonVars

CommandEnds ==
    /\ pc = "trigger" /\ trigger = "command"
    /\ \/ /\ left > 0
          /\ pc' = "observe"
          /\ left' = ObserveBudget /\ detect' = DetectBudget
          /\ rows' = [rows EXCEPT !.idle = 0]
          /\ UNCHANGED verdict
       \/ Ends("setup") /\ UNCHANGED <<left, detect, rows>>
    /\ UNCHANGED <<child, temp, file, session, changed, due, seen, held, event,
                   signalled, faults>>
    /\ UNCHANGED plan

(* Two idle outcomes after the trigger, with nothing held.                 *)
OnlyIdle == rows.idle >= 2 /\ held < 0 /\ rows.last = "no-change" /\ trigger # "manual"

Observe ==
    /\ pc = "observe" /\ child = "up" /\ left > 0
    /\ \/ /\ rows.last = "triggered"
          /\ pc' = "materialize" /\ left' = PostObserve
          /\ UNCHANGED verdict
       \/ /\ OnlyIdle
          /\ Ends("no-change") /\ UNCHANGED left
    /\ UNCHANGED <<detect, child, temp, file, session, changed, event, signalled, faults>>
    /\ UNCHANGED plan /\ UNCHANGED daemonVars

Materialized ==
    /\ pc = "materialize" /\ child = "up" /\ left > 0 /\ event >= 0
    /\ pc' = "deliver"
    /\ UNCHANGED <<left, detect, child, temp, file, session, changed, event, verdict,
                   signalled, faults>>
    /\ UNCHANGED plan /\ UNCHANGED daemonVars

(* A high event is claimed once it has settled, any other by a recap.      *)
Deliver ==
    /\ pc = "deliver" /\ child = "up" /\ left > 0
    /\ event >= Claim
    /\ event' = -2
    /\ Ends("ok")
    /\ UNCHANGED <<left, detect, child, temp, file, session, changed, signalled, faults>>
    /\ UNCHANGED plan /\ UNCHANGED daemonVars

-----------------------------------------------------------------------------
Revert ==
    /\ pc = "finally"
    /\ pc' = "teardown" /\ left' = 3
    /\ file' = IF file = "ours" THEN Before ELSE file
    /\ session' = FALSE
    /\ UNCHANGED <<detect, child, temp, changed, event, verdict, signalled, faults>>
    /\ UNCHANGED plan /\ UNCHANGED daemonVars

(* SIGTERM, and SIGKILL for a daemon still there three seconds later.      *)
Teardown ==
    /\ pc = "teardown" /\ (child \in {"none", "dead"} \/ left = 0)
    /\ pc' = "end" /\ child' = "dead" /\ temp' = FALSE
    /\ UNCHANGED <<left, detect, file, session, changed, event, verdict, signalled, faults>>
    /\ UNCHANGED plan /\ UNCHANGED daemonVars

(* Once the run has armed its handler a signal reverts the file, closes    *)
(* the session and makes the process exit in at most four seconds, the run *)
(* going on meanwhile; before that, or the second time, it kills.          *)
Signal ==
    /\ ~Ended /\ pc # "start" /\ ~(pc = "trigger" /\ trigger = "command")
    /\ Fault
    /\ IF pc = "boot" \/ signalled
       THEN pc' = "killed" /\ UNCHANGED <<file, session, signalled>>
       ELSE /\ signalled' = TRUE /\ session' = FALSE
            /\ file' = IF file = "ours" THEN Before ELSE file
            /\ UNCHANGED pc
    /\ UNCHANGED <<left, detect, child, temp, changed, event, verdict>>
    /\ UNCHANGED plan /\ UNCHANGED daemonVars

Exit ==
    /\ signalled /\ ~Ended
    /\ pc' = "exited"
    /\ UNCHANGED <<left, detect, child, temp, file, session, changed, event, verdict,
                   signalled, faults>>
    /\ UNCHANGED plan /\ UNCHANGED daemonVars

-----------------------------------------------------------------------------
(* The daemon starts to listen, stops when told to, or dies.               *)
ChildMoves ==
    /\ \/ child = "booting" /\ child' = "up" /\ UNCHANGED faults
       \/ /\ child \in {"booting", "up"} /\ child' = "dead"
          /\ IF pc = "teardown" THEN UNCHANGED faults ELSE Fault
    /\ UNCHANGED <<pc, left, detect, temp, file, session, changed, event, verdict, signalled>>
    /\ UNCHANGED plan /\ UNCHANGED daemonVars

Row(o) == rows' = [last |-> o, idle |-> IF o = "no-change" /\ rows.idle < 2
                                        THEN rows.idle + 1 ELSE rows.idle]

(* A tick of the monitor.  What it holds is emitted by a poll only.        *)
Poll ==
    /\ child = "up" /\ due = 0 /\ session
    /\ due' = Interval /\ seen' = changed
    /\ IF rows.last = "none" THEN Row("baseline") /\ UNCHANGED <<held, event>>
       ELSE IF changed /\ ~seen /\ settle > 0 THEN Row("suppressed") /\ held' = 0 /\ UNCHANGED event
       ELSE IF (changed /\ ~seen) \/ (held >= settle /\ held >= 0)
       THEN Row("triggered") /\ held' = -1 /\ event' = 0
       ELSE Row("no-change") /\ UNCHANGED <<held, event>>
    /\ UNCHANGED <<pc, left, detect, child, temp, file, session, changed, verdict,
                   signalled, faults>>
    /\ UNCHANGED plan

(* The next poll of verify's finds what its stage waits for, or an end.    *)
Answered ==
    \/ pc = "boot" /\ child # "booting"
    \/ pc \in {"baseline", "observe", "materialize", "deliver"} /\ child = "dead"
    \/ /\ child = "up"
       /\ \/ pc = "baseline" /\ rows.last # "none"
          \/ pc = "observe" /\ (rows.last = "triggered" \/ OnlyIdle)
          \/ pc = "materialize" /\ event >= 0
          \/ pc = "deliver" /\ event >= Claim

(* Time passes when the daemon and verify have done what is due.           *)
Elapse ==
    /\ ~Ended
    /\ \/ pc \in {"boot", "baseline", "observe", "materialize", "deliver", "teardown"}
       \/ pc = "trigger" /\ trigger = "command"
    /\ left > 0
    /\ child = "up" /\ session => due > 0
    /\ ~Answered
    /\ left' = left - 1 /\ detect' = Less(detect)
    /\ due' = Less(due)
    /\ held' = IF held >= 0 /\ held < settle THEN held + 1 ELSE held
    /\ event' = IF event >= 0 /\ event < ClaimSettle THEN event + 1 ELSE event
    /\ UNCHANGED <<pc, child, temp, file, session, changed, seen, rows, verdict,
                   signalled, faults>>
    /\ UNCHANGED plan

Run ==
    \/ Boot \/ BootPoll \/ OpenSession \/ Lost \/ Expires \/ SeesBaseline \/ Fire
    \/ CommandEnds \/ Observe \/ Materialized \/ Deliver \/ Revert \/ Teardown \/ Exit

Next ==
    \/ Boot \/ BootPoll \/ OpenSession \/ Lost \/ Expires \/ SeesBaseline \/ Fire
    \/ Change \/ CommandEnds \/ Observe \/ Materialized \/ Deliver
    \/ Revert \/ Teardown \/ Signal \/ Exit
    \/ ChildMoves \/ Poll \/ Elapse

Spec == Init /\ [][Next]_vars /\ WF_vars(Run) /\ WF_vars(Poll) /\ WF_vars(Elapse)
-----------------------------------------------------------------------------
(* A run that ends leaves nothing behind, whatever its verdict: the daemon *)
(* is gone with its directory, and the user's file is as it was.           *)
NothingLeftBehind ==
    pc = "end" => child = "dead" /\ ~temp /\ file = Before /\ ~session

(* Issue #442, round 20: a change seen late, in the extension of the       *)
(* observe stage, still gets the time materialize and deliver need.        *)
ObservedIsDelivered ==
    pc \in {"materialize", "deliver"} /\ faults = 0 => left > 0

(* verify always comes to an end, even on a daemon that ignores SIGTERM.   *)
VerifyEnds == <>Ended

=============================================================================
