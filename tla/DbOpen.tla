------------------------------- MODULE DbOpen -------------------------------
(***************************************************************************)
(* Opening a database that an earlier version wrote                        *)
(* (libs/core/src/inbox/db.ts).  Every command opens the same file, so two *)
(* processes can find the monitor_state table keyed by the monitor alone   *)
(* and both rebuild it.  The rebuild reads the old rows, drops the table,  *)
(* creates the scoped one and re-inserts the held notify batches, one row  *)
(* for each workspace, all inside one immediate transaction.  Afterwards   *)
(* every process ticks its own workspace and dispatches what it finds held *)
(* there.  A process may die anywhere.                                     *)
(***************************************************************************)
EXTENDS Integers, Sequences, FiniteSets, Functions

CONSTANTS
    Procs,          \* processes that open the database
    Workspaces,     \* workspaces; one of them may stand for "none" (NULL)
    Monitors,       \* legacy rows: one for each monitor id
    Observations,   \* held observations, 1 to their number, in the order found
    MaxFaults       \* bound: deaths

VARIABLES
    disk,       \* the committed database: [table, rows]
    work,       \* the writing transaction's copy
    writer,     \* the process in the immediate transaction, or "none"
    pc,         \* "start", "rows", "drop", "create", "insert", "commit", "ready", "down"
    legacy,     \* the rows a process read before the drop
    home,       \* the workspace a process ticks
    origin,     \* for each observation: its monitor, workspace and kind of batch
    told,       \* the observations dispatched, in order, with the workspace
    faults

vars == <<disk, work, writer, pc, legacy, home, origin, told, faults>>
givens == <<home, origin>>

Kinds == {"debounce", "rollup"}
Empty == [k \in Kinds |-> <<>>]
RowKeys == Monitors \X Workspaces

(* The scoped table: a batch for each (monitor, workspace), none is Empty. *)
ScopedEmpty == [key \in RowKeys |-> Empty]

TypeOK ==
    /\ disk.table \in {"legacy", "scoped"} /\ work.table \in {"legacy", "missing", "scoped"}
    /\ writer \in Procs \cup {"none"}
    /\ pc \in [Procs -> {"start", "rows", "drop", "create", "insert", "commit", "ready", "down"}]
    /\ \A p \in Procs : pc[p] \in {"drop", "create", "insert", "commit"} => writer = p
    /\ \A i \in DOMAIN told : told[i].o \in Observations /\ told[i].w \in Workspaces

(* The observations of a batch that are in S, pushed one after the other. *)
Pushed(batch, S) ==
    LET bucket[i \in 0 .. Len(batch)] ==
          IF i = 0 THEN <<>>
          ELSE IF batch[i] \in S THEN Append(bucket[i - 1], batch[i])
          ELSE bucket[i - 1]
    IN bucket[Len(batch)]

(* What the old version held: observations in the order they were found. *)
Held(m, k) ==
    Pushed([o \in Observations |-> o],
           {o \in Observations : origin[o].m = m /\ origin[o].k = k})

Init ==
    /\ home \in [Procs -> Workspaces]
    /\ origin \in [Observations -> [m : Monitors, w : Workspaces, k : Kinds]]
    /\ disk = [table |-> "legacy", old |-> [m \in Monitors |-> [k \in Kinds |-> Held(m, k)]],
               rows |-> ScopedEmpty]
    /\ work = disk /\ writer = "none"
    /\ pc = [p \in Procs |-> "start"]
    /\ legacy = [p \in Procs |-> <<>>]
    /\ told = <<>> /\ faults = 0

Goto(p, l) == pc' = [pc EXCEPT ![p] = l]
-----------------------------------------------------------------------------
(* BEGIN IMMEDIATE: one writer, the others wait for it (busy_timeout).     *)
Mut_Deferred(p) ==
    /\ pc[p] = "start"
    /\ writer' = p /\ work' = IF writer = "none" THEN disk ELSE work
    /\ Goto(p, "rows")
    /\ UNCHANGED <<disk, legacy, givens, told, faults>>

Begin(p) ==
    /\ pc[p] = "start" /\ writer = "none"
    /\ writer' = p /\ work' = disk
    /\ Goto(p, "rows")
    /\ UNCHANGED <<disk, legacy, givens, told, faults>>

(* A table without a workspace_path column is an old one: its rows are    *)
(* read before anything is dropped.                                       *)
ReadRows(p) ==
    /\ pc[p] = "rows"
    /\ IF work.table = "legacy"
       THEN legacy' = [legacy EXCEPT ![p] = work.old] /\ Goto(p, "drop")
       ELSE UNCHANGED legacy /\ Goto(p, "commit")
    /\ UNCHANGED <<disk, work, writer, givens, told, faults>>

DropTable(p) ==
    /\ pc[p] = "drop"
    /\ work' = [work EXCEPT !.table = "missing"]
    /\ Goto(p, "create")
    /\ UNCHANGED <<disk, writer, legacy, givens, told, faults>>

CreateTable(p) ==
    /\ pc[p] = "create"
    /\ work' = [work EXCEPT !.table = "scoped", !.rows = ScopedEmpty]
    /\ Goto(p, "insert")
    /\ UNCHANGED <<disk, writer, legacy, givens, told, faults>>

(* One old batch split by the workspace of each observation's monitor     *)
(* file, in order.                                                        *)
Partition(batch, w) ==
    [k \in Kinds |-> Pushed(batch[k], {o \in Observations : origin[o].w = w})]

Reinsert(p) ==
    /\ pc[p] = "insert"
    /\ work' = [work EXCEPT !.rows =
                 [key \in RowKeys |-> Partition(legacy[p][key[1]], key[2])]]
    /\ legacy' = [legacy EXCEPT ![p] = <<>>]
    /\ Goto(p, "commit")
    /\ UNCHANGED <<disk, writer, givens, told, faults>>

Commit(p) ==
    /\ pc[p] = "commit"
    /\ disk' = work /\ writer' = "none"
    /\ Goto(p, "ready")
    /\ UNCHANGED <<work, legacy, givens, told, faults>>

(* busy_timeout ran out behind another opener: the command fails.  A      *)
(* command is started again.                                              *)
BusyFails(p) ==
    /\ pc[p] = "start" /\ writer \notin {p, "none"} /\ faults < MaxFaults
    /\ Goto(p, "down") /\ faults' = faults + 1
    /\ UNCHANGED <<disk, work, writer, legacy, givens, told>>

(* The process dies: an open transaction is rolled back. *)
Dies(p) ==
    /\ pc[p] # "down" /\ faults < MaxFaults
    /\ faults' = faults + 1
    /\ Goto(p, "down")
    /\ writer' = IF writer = p THEN "none" ELSE writer
    /\ legacy' = [legacy EXCEPT ![p] = <<>>]
    /\ UNCHANGED <<disk, work, givens, told>>

Restarts(p) ==
    /\ pc[p] = "down" /\ Goto(p, "start")
    /\ UNCHANGED <<disk, work, writer, legacy, givens, told, faults>>

(* A tick of the process's workspace hydrates the row of one monitor and  *)
(* dispatches its batch; the emptied state is stored with it.             *)
Tick(p, m) ==
    LET key == <<m, home[p]>>
        row == disk.rows[key]
        out == row["debounce"] \o row["rollup"]
    IN /\ pc[p] = "ready" /\ writer = "none"
       /\ out # <<>>
       /\ told' = told \o [i \in DOMAIN out |-> [o |-> out[i], w |-> home[p]]]
       /\ disk' = [disk EXCEPT !.rows[key] = Empty]
       /\ UNCHANGED <<work, writer, pc, legacy, givens, faults>>

Next == \E p \in Procs :
    \/ Begin(p) \/ ReadRows(p) \/ DropTable(p) \/ CreateTable(p) \/ Reinsert(p) \/ Commit(p)
    \/ BusyFails(p) \/ Dies(p) \/ Restarts(p)
    \/ \E m \in Monitors : Tick(p, m)

Spec == Init /\ [][Next]_vars
-----------------------------------------------------------------------------
InRows(o) == \E key \in RowKeys, k \in Kinds : o \in Range(disk.rows[key][k])
ToldTimes(o) == Cardinality({i \in DOMAIN told : told[i].o = o})

(* The upgrade neither loses nor doubles a detected change, whoever opens  *)
(* first and whoever dies: each one is still in the old table, or held in  *)
(* the new one, or was dispatched, exactly one of the three, and once.     *)
UpgradeKeepsHeld == \A o \in Observations :
    LET old == IF disk.table = "legacy" THEN 1 ELSE 0
        new == IF InRows(o) THEN 1 ELSE 0
    IN old + new + ToldTimes(o) = 1

(* A change is dispatched by its own workspace and, within a batch, in the *)
(* order it was found.                                                     *)
DispatchedAtHome ==
    /\ \A i \in DOMAIN told : told[i].w = origin[told[i].o].w
    /\ \A i, j \in DOMAIN told :
          i < j /\ origin[told[i].o] = origin[told[j].o] => told[i].o < told[j].o
=============================================================================
