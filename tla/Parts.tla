------------------------------- MODULE Parts --------------------------------
(***************************************************************************)
(* Components that are checked, and proved about, each on its own: a       *)
(* behaviour is one of the component "part", for ever.  They share the     *)
(* variables v1 .. v15, which each of them knows by names of its own.      *)
(***************************************************************************)
EXTENDS Sessions, FiniteSets

CONSTANTS
    Evaluations, Limit, MaxRows,                  \* Observe
    Hooks, MaxFaults,                             \* Hook
    Rows, Sizes, Cap, Marker, Footer, Attempts,   \* Size
    Keys, Compared, Versions,                     \* Source
    Pieces, MaxConcurrency, MaxBody, MaxTotal,    \* Whole
    Hosts, MaxBeats, MaxChanges,                  \* Doc
    Procs, Items, NoItem, MaxMoves,               \* Box
    Routes, EnvelopeSizes, MaxRecords, MaxBytes, Batches, \* Outbox
    Workspaces, Monitors, Observations            \* Database

\* A listing has a limit, and the daemon awaits a tick before it starts the next.
ASSUME ObserveAssumption == Limit \in Nat /\ \A t, u \in Evaluations : t = u

\* The row is leased to a process, or in one of these states.
ASSUME HookAssumption == "pending" \notin Hooks /\ "claimed" \notin Hooks

\* Rows are numbered by age.
ASSUME SizeAssumption == Rows \subseteq Nat /\ IsFiniteSet(Rows) /\ Attempts \in Nat \ {0}

\* Pieces are numbered in the order of the config; at least one worker fetches them.
ASSUME WholeAssumption ==
    /\ IsFiniteSet(Pieces) /\ Pieces = 1 .. Cardinality(Pieces)
    /\ MaxConcurrency \in Nat \ {0} /\ MaxBody \in Nat /\ MaxTotal \in Nat

\* The world changes so often while a doctor looks.
ASSUME DoctorAssumption == MaxChanges \in Nat

\* A transaction without a process is nobody's.
ASSUME OutboxAssumption ==
    /\ "none" \notin Procs /\ EnvelopeSizes \subseteq Nat
    /\ MaxRecords \in Nat /\ MaxBytes \in Nat

\* Held observations are numbered in the order they were found.
ASSUME DatabaseAssumption ==
    /\ "none" \notin Procs
    /\ IsFiniteSet(Observations) /\ Observations = 1 .. Cardinality(Observations)

VARIABLES part, v1, v2, v3, v4, v5, v6, v7, v8, v9, v10, v11, v12, v13, v14,
          v15

shared == <<v1, v2, v3, v4, v5, v6, v7, v8, v9, v10, v11, v12, v13, v14, v15>>

\* VerifyObserve
world == v1
effective == v2
seen == v3
holding == v4
eval == v5
history == v6
stage == v7
window == v8
verdict == v9
Observe == INSTANCE VerifyObserve WITH Ticks <- Evaluations

\* HookDeliver
row == v1
pc == v2
stream == v3
signals == v4
armed == v5
output == v6
reachable == v7
by == v8
beat == v9
exit == v10
faults == v11
Hook == INSTANCE HookDeliver

\* Sizing
size == v1
fate == v3
attempt == v4
forced == v5
previewed == v6
max == v7
more == v8
claim == v9
cap == v10
stayed == v11
Size == INSTANCE Sizing

\* Sources
kind == v3
scope == v4
base == v5
health == v6
replica == v7
heard == v8
astray == v9
todo == v10
cur == v11
report == v12
edge == v13
turn == v14
raced == v15
Source == INSTANCE Sources

\* Version 0 of an object is its absence; a source without a baseline has none of these.
ASSUME SourceAssumption ==
    Compared \in Keys /\ 0 \in Versions /\ Source!NoBase \notin [Keys -> Versions]

\* Composite
nextIndex == v1
fetch == v2
read == v3
aborted == v4
workers == v5
totalBytes == v6
outcome == v7
started == v8
Whole == INSTANCE Composite WITH Parts <- Pieces, Limit <- MaxConcurrency

\* Doctor
leads == v1
beats == v3
daemon == v4
hold == v5
sawLeads == v6
sawDaemon == v7
sawHold == v8
sawBeats == v9
changes == v10
Doc == INSTANCE Doctor WITH Sessions <- Hosts

\* Inbox
cmd == v2
been == v3
printed == v4
Box == INSTANCE Inbox

\* RetryOutbox
rows == v1
writer == v2
staged == v3
call == v4
made == v5
Outbox == INSTANCE RetryOutbox WITH Sizes <- EnvelopeSizes

\* DbOpen
disk == v1
work == v2
holder == v3
place == v4
legacy == v5
home == v6
origin == v7
dispatched == v8
deaths == v9
Database == INSTANCE DbOpen WITH writer <- holder, pc <- place, told <- dispatched, faults <- deaths
-----------------------------------------------------------------------------
(* The variables of every component have their types.                      *)
Types ==
    /\ part = "sessions" => TypeOK
    /\ part = "observe" => Observe!TypeOK
    /\ part = "size" => Size!TypeOK
    /\ part = "source" => Source!TypeOK
    /\ part = "composite" => Whole!TypeOK
    /\ part = "doctor" => Doc!TypeOK
    /\ part = "outbox" => Outbox!TypeOK
    /\ part = "database" => Database!TypeOK
    /\ part = "inbox" => Box!TypeOK

(* What a transport puts on record is what it showed: no row of an         *)
(* accepted claim is cut from the message, what was left out is signposted *)
(* and "nothing to deliver" is not said over leased rows (channel.ts,      *)
(* hook.ts); a batch is claimed by the process that wrote it, a delivery   *)
(* recorded once something was written, and no failure of the pipe makes a *)
(* hook exit otherwise than 0 (hook.ts, hook deliver).                     *)
RecordedIsShown ==
    /\ part = "size" => Size!ClaimIsShown /\ Size!SignpostsTheRest /\ Size!NullMeansNothing
    /\ part = "hook" => Hook!RecordedWasShown /\ Hook!ExitsZero

(* The observations of a source add up to its baseline, after any failure, *)
(* edit or change in mid-poll, but for a file that changed between its two *)
(* reads and for the commits a quiet rebaseline passed over; and a         *)
(* composite snapshot has every part or is none, within the byte budget    *)
(* (the plugins' compare functions; composite.ts).                         *)
ObservationsAddUp ==
    /\ part = "source" => Source!ReportsAddUp
    /\ part = "composite" => Whole!CompleteOrNothing /\ Whole!NothingStartsAfterFailure

(* A report of a source is news: nothing is created twice, modified to     *)
(* what it was, or removed when it was not there, but for the same cases.  *)
ReportsAreNews == [][part = "source" => Source!TellsNews]_<<part, shared>>

(* A verdict is never better, or worse, than its evidence: verify's        *)
(* "no-change" (verify-observe.ts) and doctor's "deliverable" and exit     *)
(* code (transport-health.ts, doctor.ts).                                  *)
VerdictsAreTrue ==
    /\ part = "observe" => Observe!NoChangeIsTrue
    /\ part = "doctor" => Doc!DeliverableIsProven /\ Doc!ExitIsTruthful

(* Transactions keep what they are to keep, whoever races and whoever      *)
(* dies: the retry outbox its bounds and its batches whole, the upgrade of *)
(* the database each held observation once, to its own workspace           *)
(* (store.ts, inbox/db.ts).                                                *)
TransactionsAreWhole ==
    /\ part = "outbox" => Outbox!Bounded /\ Outbox!AllOrNothing
    /\ part = "database" => Database!UpgradeKeepsHeld /\ Database!DispatchedAtHome

(* Even when commands race, no step of an inbox item's life is skipped.    *)
NoStepSkipped == part = "inbox" => Box!NoStepSkipped
=============================================================================
