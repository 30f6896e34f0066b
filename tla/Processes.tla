----------------------------- MODULE Processes ------------------------------
(***************************************************************************)
(* The daemon's boot, and the processes and files around the daemon that   *)
(* are checked, and proved about, each on its own: a behaviour is one of   *)
(* the component "part", for ever.  The boot has its own variables; the    *)
(* others share v1 .. v19, which each knows by names of its own.           *)
(***************************************************************************)
EXTENDS Daemon

CONSTANTS
    Calls, Foreign, MaxBytes,                                             \* Call
    Cap,                                                                  \* Fetch
    Writers, Loop, MaxChanges, MaxVisits,                                 \* File
    Hosts,                                                                \* Local
    Channels, TTL, ReapAfter, BootGrace, MaxBoots, MaxMisses,             \* Reaper
    Interval, Margin, Settles, ClaimSettle, BootTimeout, CommandCap, MaxMishaps  \* Run

\* A record outlives the beats that are missed.  The timer fires every third of the
\* TTL, so that these are up to two in a row.
ASSUME ReaperAssumption ==
    /\ TTL \in Nat /\ ReapAfter \in Nat /\ BootGrace \in Nat
    /\ MaxMisses \in Nat /\ MaxMisses < TTL

\* marginMs is never 0: a quarter of the interval, or more.
ASSUME RunAssumption ==
    /\ Interval \in Nat /\ Margin \in Nat \ {0} /\ Settles \subseteq Nat
    /\ ClaimSettle \in Nat /\ BootTimeout \in Nat /\ CommandCap \in Nat

\* The limits of the daemon's socket and of a fetch are numbers of bytes.
ASSUME CallAssumption == MaxBytes \in Nat
ASSUME FetchAssumption == Cap \in Nat

\* Finitely many processes write a file; one of them is the daemon's loop.
ASSUME FileAssumption == IsFiniteSet(Writers) /\ Loop \in Writers /\ MaxChanges \in Nat

VARIABLES part, v1, v2, v3, v4, v5, v6, v7, v8, v9, v10, v11, v12, v13, v14,
          v15, v16, v17, v18, v19

shared == <<v1, v2, v3, v4, v5, v6, v7, v8, v9, v10, v11, v12, v13, v14, v15, v16,
            v17, v18, v19>>

\* IdleReaper; stop is its stopping
loop == v1
stop == v2
idle == v3
seen == v4
uptime == v5
session == v6
record == v7
channel == v8
beating == v9
orphaned == v10
boots == v11
faults == v12
Reaper == INSTANCE IdleReaper WITH stopping <- stop, MaxFaults <- MaxMisses

\* Ipc; asked is its kind, ahead its left, server its daemon and kills its faults
asked == v1
ahead == v2
behind == v3
bytes == v4
admitted == v5
running == v6
dispatched == v7
reply == v8
client == v9
link == v10
server == v11
kills == v12
Call == INSTANCE Ipc WITH
    kind <- asked, left <- ahead, daemon <- server, faults <- kills

\* CommandRun
alive == v1
holding == v2
deaf == v3
died == v4
heard == v5
armed == v6
timedOut == v7
outcome == v8
Command == INSTANCE CommandRun

\* FetchBody; phase is its pc, keeps its held and answer its outcome
phase == v1
timer == v2
outside == v3
aborted == v4
readBody == v5
declared == v6
size == v7
total == v8
keeps == v9
answer == v10
Fetch == INSTANCE FetchBody WITH pc <- phase, held <- keeps, outcome <- answer

\* HookState; place is its pc, known its seen and target its file
own == v1
db == v2
place == v3
known == v4
fd == v5
tmp == v6
target == v7
content == v8
visits == v9
met == v10
File == INSTANCE HookState WITH Procs <- Writers, pc <- place, seen <- known, file <- target

\* LocalState; local is its file, service its daemon, start its pc, hosted its record
\* and mishaps its faults
local == v1
service == v2
answers == v3
start == v4
mine == v5
hosted == v6
init == v7
gitignore == v8
monitor == v9
mishaps == v10
raced == v11
Local == INSTANCE LocalState WITH
    Sessions <- Hosts, file <- local, daemon <- service, pc <- start, record <- hosted,
    faults <- mishaps

\* VerifyRun; stage is its pc
trigger == v1
settle == v2
high == v3
stage == v5
left == v7
detect == v8
child == v9
temp == v10
file == v11
changed == v13
due == v14
held == v15
rows == v16
event == v17
verdict == v18
signalled == v19
Run == INSTANCE VerifyRun WITH pc <- stage, MaxFaults <- MaxMishaps
-----------------------------------------------------------------------------
(* The variables of every component have their types.                      *)
Types ==
    /\ part = "daemon" => TypeOK
    /\ part = "reaper" => Reaper!TypeOK
    /\ part = "call" => Call!TypeOK
    /\ part = "command" => Command!TypeOK
    /\ part = "fetch" => Fetch!TypeOK
    /\ part = "file" => File!TypeOK

(* What one process learns of another is true.  A client that was told of  *)
(* success is one whose only request was run, once, and did not throw      *)
(* (daemon-ipc.ts); a fetch ends with what really happened, held by nobody *)
(* (api-poll, fetchBody); a heartbeat is never seen half written, whoever  *)
(* renews it and whoever dies (local-permissions.ts,                       *)
(* transport-heartbeat.ts); and a socket on the coordination file is one a *)
(* daemon has answered on (local-state.ts, session start).                 *)
WhatIsToldIsTrue ==
    /\ Types
    /\ part = "call" => Call!OneRequestPerConnection /\ Call!ResultsAreEarned
    /\ part = "fetch" => Fetch!OutcomeIsTrue
    /\ part = "file" => File!OwnNeverPartial
    /\ part = "local" => Local!SocketWasAnswered

(* A daemon's workspace is not taken from under whoever uses it, and does  *)
(* not pretend to be used: it is never reaped while a channel server runs, *)
(* and a record means that a server runs, or died (transport-heartbeat.ts, *)
(* daemon.ts runLoop).                                                     *)
AttachedKeepsAlive ==
    /\ [][part = "reaper" => Reaper!ReapsUnattached]_<<part, shared>>
    /\ [](part = "reaper" => Reaper!RecordMeansServer)

(* A verification in a daemon of its own leaves nothing behind, and a      *)
(* change it saw late still gets the time to be delivered (issue #442).    *)
RunIsClean ==
    part = "run" => Run!NothingLeftBehind /\ Run!ObservedIsDelivered
=============================================================================
