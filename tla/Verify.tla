------------------------------- MODULE Verify -------------------------------
(***************************************************************************)
(* agentmonitors verify --use-workspace-daemon (apps/cli/src/commands/     *)
(* verify.ts): a run that makes a watched file appear, waits for it to be  *)
(* delivered to a session of its own and then erases every trace of it,    *)
(* beside the daemon that goes on observing the file, holds and inserts    *)
(* its rows, sweeps what is tombstoned and reaps dormant sessions (service *)
(* .ts).  The stages between the trigger and the cleanup only read: they   *)
(* end at any moment, well or not.                                         *)
(*                                                                         *)
(* A time step is the monitor's polling interval: its source is observed   *)
(* once in each.                                                           *)
(***************************************************************************)
EXTENDS Integers

CONSTANTS
    Settle,      \* the monitor's settle-for when it debounces
    DetectCap,   \* verify's detection budget
    Budget,      \* bound: how long a run of verify lasts
    Dormancy,    \* sessionDormancyMs, longer than that and a hold together
    MaxFaults    \* bound: signals and kills, together

(* The object's rows: what verify's file does, and what the user's file of *)
(* the same path did before.                                               *)
Scratch == {"created", "deleted"}
Users == "users"

VARIABLES
    cleanup,  \* "tombstone": a scratch path; "retract-by-id": a literal glob
    settle,   \* the monitor's hold: 0 or Settle
    file,     \* the file is there
    pc,       \* where verify is
    ids,      \* the rows a retraction by id has listed
    session,  \* the status of the verify session
    quiet,    \* time since its lastActiveAt
    tick,     \* where the tick is, what observe() saw, whether the
              \* tombstone had not expired when it started
    seen,     \* the fingerprint: whether the file was there
    held, age,  \* rows held by notify, and for how long
    rows,     \* rows of monitor_events with this object's key
    tomb,     \* time the object's tombstone has left, 0 without one
    polled,   \* the source was observed in this interval
    faults

vars == <<cleanup, settle, file, pc, ids, session, quiet, tick, seen, held, age,
          rows, tomb, polled, faults>>
daemonVars == <<tick, seen, held, age, polled>>

Idle == [pc |-> "idle", saw |-> FALSE, sweeps |-> FALSE]

Init ==
    /\ cleanup \in {"tombstone", "retract-by-id"} /\ settle \in {0, Settle}
    /\ file = FALSE /\ pc = "baseline" /\ ids = {}
    /\ session = "active" /\ quiet = 0
    /\ tick = Idle /\ seen = FALSE /\ held = {} /\ age = 0
    /\ rows \in IF cleanup = "tombstone" THEN {{}} ELSE {{}, {Users}}
    /\ tomb = 0 /\ polled = FALSE /\ faults = 0

Fault == faults < MaxFaults /\ faults' = faults + 1

Larger(a, b) == IF a >= b THEN a ELSE b

(* Mutant: the change may be seen only at the next poll.                   *)
Mut_NoIntervalInTtl == DetectCap + settle

(* suppressTtlMs and orphanSuppressionTtlMs, above their floors; the next  *)
(* poll is at most an interval away, the margin less than one.             *)
SuppressTtl == DetectCap + 1 + settle
OrphanTtl == 1 + settle + 1

-----------------------------------------------------------------------------
Fire ==
    /\ pc = "baseline"
    /\ pc' = "fired" /\ file' = TRUE
    /\ UNCHANGED <<cleanup, settle, ids, session, quiet, rows, tomb, faults>>
    /\ UNCHANGED daemonVars

(* The stages are over; a claim of theirs has touched the session, or not. *)
StagesEnd ==
    /\ pc \in {"baseline", "fired"}
    /\ pc' = "over"
    /\ quiet' \in {quiet, 0}
    /\ UNCHANGED <<cleanup, settle, file, ids, session, rows, tomb, faults>>
    /\ UNCHANGED daemonVars

(* SIGINT: the file is reverted at once; the cleanup starts (again), but   *)
(* the process exits when it takes more than four seconds.                 *)
Interrupt ==
    /\ pc \in {"fired", "over", "cleaning", "listed", "closing"}
    /\ Fault
    /\ file' = FALSE
    /\ pc' \in {"cleaning", "exited"}
    /\ UNCHANGED <<cleanup, settle, ids, session, quiet, rows, tomb>>
    /\ UNCHANGED daemonVars

(* A signal before the file is made: nothing to revert yet, the session is *)
(* closed and the process about to exit, but the run goes on until then.   *)
EarlyInterrupt ==
    /\ pc = "baseline"
    /\ Fault
    /\ pc' = "leaving"
    /\ session' = "dormant" /\ quiet' = 0
    /\ UNCHANGED <<cleanup, settle, file, ids, rows, tomb>>
    /\ UNCHANGED daemonVars

FiresLate ==
    /\ pc = "leaving"
    /\ pc' = "exited" /\ file' \in {file, TRUE}
    /\ UNCHANGED <<cleanup, settle, ids, session, quiet, rows, tomb, faults>>
    /\ UNCHANGED daemonVars

Kill ==
    /\ pc \notin {"done", "exited", "killed"}
    /\ Fault
    /\ pc' = "killed"
    /\ UNCHANGED <<cleanup, settle, file, ids, session, quiet, rows, tomb>>
    /\ UNCHANGED daemonVars

Revert ==
    /\ pc = "over"
    /\ pc' = "cleaning" /\ file' = FALSE
    /\ UNCHANGED <<cleanup, settle, ids, session, quiet, rows, tomb, faults>>
    /\ UNCHANGED daemonVars

(* suppressObjectEvents: the tombstone, and what there is is retracted.    *)
Suppress ==
    /\ pc = "cleaning" /\ cleanup = "tombstone"
    /\ pc' = "closing"
    /\ tomb' = SuppressTtl
    /\ rows' = {}
    /\ UNCHANGED <<cleanup, settle, file, ids, session, quiet, faults>>
    /\ UNCHANGED daemonVars

(* The object's rows are listed as soon as there are two of them, or when  *)
(* the wait is over; then those are retracted.                             *)
ListRows ==
    /\ pc = "cleaning" /\ cleanup = "retract-by-id"
    /\ pc' = "listed"
    /\ ids' = rows
    /\ UNCHANGED <<cleanup, settle, file, session, quiet, rows, tomb, faults>>
    /\ UNCHANGED daemonVars

RetractListed ==
    /\ pc = "listed"
    /\ pc' = "closing"
    /\ rows' = rows \ ids
    /\ UNCHANGED <<cleanup, settle, file, ids, session, quiet, tomb, faults>>
    /\ UNCHANGED daemonVars

CloseSession ==
    /\ pc = "closing"
    /\ pc' = "done"
    /\ session' = "dormant" /\ quiet' = 0
    /\ UNCHANGED <<cleanup, settle, file, ids, rows, tomb, faults>>
    /\ UNCHANGED daemonVars

-----------------------------------------------------------------------------
Mut_ReapOnlyCloses ==
    /\ tick.pc = "idle"
    /\ tick' = [pc |-> "observing", saw |-> file, sweeps |-> tomb > 0]
    /\ session' = IF session = "active" /\ quiet >= Dormancy THEN "dormant" ELSE session
    /\ UNCHANGED <<cleanup, settle, file, pc, ids, quiet, seen, held, age, rows,
                   tomb, polled, faults>>

(* The tick starts: a dormant verify session is closed, and the scratch    *)
(* objects it has rows of are tombstoned; then the source is observed.     *)
TickStarts ==
    /\ tick.pc = "idle"
    /\ IF session = "active" /\ quiet >= Dormancy
       THEN /\ session' = "dormant"
            /\ IF cleanup = "tombstone" /\ rows # {}
               THEN tomb' = OrphanTtl /\ rows' = {}
               ELSE UNCHANGED <<tomb, rows>>
       ELSE UNCHANGED <<session, tomb, rows>>
    /\ tick' = [pc |-> "observing", saw |-> file, sweeps |-> tomb' > 0]
    /\ UNCHANGED <<cleanup, settle, file, pc, ids, quiet, seen, held, age, polled, faults>>

(* What observe() saw is ingested: a change is held, or inserted with all  *)
(* that is due.                                                            *)
Ingest ==
    /\ tick.pc = "observing"
    /\ LET change == IF tick.saw = seen THEN {} ELSE {IF tick.saw THEN "created" ELSE "deleted"}
           since == IF change = {} THEN age ELSE 0
       IN  IF since >= settle
           THEN rows' = rows \cup held \cup change /\ held' = {} /\ age' = 0
           ELSE held' = held \cup change /\ age' = since /\ UNCHANGED rows
    /\ seen' = tick.saw
    /\ tick' = [tick EXCEPT !.pc = "sweeping"]
    /\ polled' = TRUE
    /\ UNCHANGED <<cleanup, settle, file, pc, ids, session, quiet, tomb, faults>>


(* applyObjectSuppressions, at the end of the tick, by its starting time.  *)
Sweep ==
    /\ tick.pc = "sweeping"
    /\ tick' = Idle
    /\ rows' = IF tick.sweeps \/ tomb > 0 THEN {} ELSE rows
    /\ UNCHANGED <<cleanup, settle, file, pc, ids, session, quiet, seen, held, age,
                   tomb, polled, faults>>

Elapse ==
    /\ polled
    /\ pc \in {"done", "exited", "killed"} \/ quiet < Budget
    /\ polled' = FALSE
    /\ tomb' = Larger(tomb - 1, 0)
    /\ quiet' = IF quiet < Dormancy THEN quiet + 1 ELSE quiet
    /\ age' = IF held = {} \/ age = Settle THEN age ELSE age + 1
    /\ UNCHANGED <<cleanup, settle, file, pc, ids, session, tick, seen, held, rows, faults>>

Cleans == StagesEnd \/ FiresLate \/ Revert \/ Suppress \/ ListRows \/ RetractListed \/ CloseSession
Ticks == TickStarts \/ Ingest \/ Sweep

Next ==
    \/ Fire \/ StagesEnd \/ Interrupt \/ EarlyInterrupt \/ FiresLate \/ Kill
    \/ Revert \/ Suppress \/ ListRows \/ RetractListed \/ CloseSession
    \/ TickStarts \/ Ingest \/ Sweep \/ Elapse

Spec == Init /\ [][Next]_vars /\ WF_vars(Cleans) /\ WF_vars(Ticks) /\ SF_vars(Elapse)
-----------------------------------------------------------------------------
(* The variables have their types.                                         *)
TypeOK ==
    /\ rows \subseteq Scratch \cup {Users} /\ held \subseteq Scratch
    /\ tomb \in 0 .. Larger(SuppressTtl, OrphanTtl)
    /\ age \in 0 .. settle /\ quiet \in 0 .. Dormancy

(* Once the session of a verify has ended, the only rows of its scratch    *)
(* file are those that the tick which inserted them is about to sweep:     *)
(* what the daemon held or had yet to see when the tombstone was made is   *)
(* out before the tombstone is.                                            *)
LateRowsGo ==
    cleanup = "tombstone" /\ session = "dormant" /\ ~(pc = "exited" /\ file)
        => rows = {} \/ tick.pc = "sweeping"

(* "So nothing it left reaches a later session": whether verify ends well, *)
(* is interrupted or killed, its session ends and the rows of its scratch  *)
(* file are gone for good, those of a deletion seen later included; unless *)
(* a signal came so early that the file was made behind its back.          *)
Traceless ==
    session = "dormant" /\ (cleanup = "tombstone" /\ ~(pc = "exited" /\ file) => rows = {})
LeavesNoTrace == <>[]Traceless

=============================================================================
