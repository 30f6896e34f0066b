----------------------------- MODULE MCProcesses -----------------------------
(***************************************************************************)
(* The processes around the daemon, and the files they share, each checked *)
(* on its own: a behaviour is one of the component "part", for ever.  The  *)
(* daemon's boot has its own variables; the other components share v1 ..   *)
(* v19, those a component does not need staying 0.  A weak fairness        *)
(* condition of any component is one of Fair(1) .. Fair(8).                *)
(***************************************************************************)
EXTENDS Processes

Session == INSTANCE Sessions WITH
    Sessions <- Hosts, Leads <- {"s1"}, Watches <- {"w1"}, Ticks <- {"loop"}, Dormancy <- 2,
    session <- v1, quiet <- v2, watch <- v3, tick <- v4, newest <- v5

all == <<part, vars, shared>>

\* The shared variables after the first 12, 11, 10, 8, 5 and 0: what a component of
\* fewer variables does not use stays 0.
after12 == <<v13, v14, v15, v16, v17, v18, v19>>
after11 == <<v12, after12>>
after10 == <<v11, after11>>
after8 == <<v9, v10, after10>>
after5 == <<v6, v7, v8, after8>>
Zero12 == v13 = 0 /\ v14 = 0 /\ v15 = 0 /\ v16 = 0 /\ v17 = 0 /\ v18 = 0 /\ v19 = 0
Zero11 == v12 = 0 /\ Zero12
Zero10 == v11 = 0 /\ Zero11
Zero8 == v9 = 0 /\ v10 = 0 /\ Zero10
Zero5 == v6 = 0 /\ v7 = 0 /\ v8 = 0 /\ Zero8
Zero0 == v1 = 0 /\ v2 = 0 /\ v3 = 0 /\ v4 = 0 /\ v5 = 0 /\ Zero5

MCInit ==
    /\ Init
    /\ \/ part = "daemon" /\ Zero0
       \/ /\ socket = NoProc
          /\ \/ part = "reaper" /\ Reaper!Init /\ Zero12
             \/ part = "session" /\ Session!Init /\ Zero5
             \/ part = "call" /\ Call!Init /\ Zero12
             \/ part = "command" /\ Command!Init /\ Zero8
             \/ part = "fetch" /\ Fetch!Init /\ Zero10
             \/ part = "file" /\ File!Init /\ Zero10
             \/ part = "run" /\ Run!Init
             \/ part = "local" /\ Local!Init /\ Zero11

MCNext ==
    /\ UNCHANGED part
    /\ \/ part = "daemon" /\ Next /\ UNCHANGED shared
       \/ /\ UNCHANGED vars
          /\ \/ part = "reaper" /\ Reaper!Next /\ UNCHANGED after12
             \/ part = "session" /\ Session!Next /\ UNCHANGED after5
             \/ part = "call" /\ Call!Next /\ UNCHANGED after12
             \/ part = "command" /\ Command!Next /\ UNCHANGED after8
             \/ part = "fetch" /\ Fetch!Next /\ UNCHANGED after10
             \/ part = "file" /\ File!Next /\ UNCHANGED after10
             \/ part = "run" /\ Run!Next
             \/ part = "local" /\ Local!Next /\ UNCHANGED after11

\* The i-th weakly fair action of each component.
FairDaemon(i) == i \in Procs /\ Step(i)

FairReaper(i) ==
    \/ i = 1 /\ Reaper!TimeStep
    \/ i = 2 /\ Reaper!TickEnds
    \/ i = 3 /\ Reaper!WakeUp
    \/ i = 4 /\ Reaper!Beat("c1")
    \/ i = 5 /\ Reaper!Beat("c2")
    \/ i = 6 /\ Reaper!PollEnds("c1")
    \/ i = 7 /\ Reaper!PollEnds("c2")

FairCall(i) ==
    \/ i \in Calls /\ Call!Chunk(i)
    \/ i - 2 \in Calls /\ Call!Frame(i - 2)
    \/ i - 4 \in Calls /\ Call!Handle(i - 4)
    \/ i - 6 \in Calls /\ Call!Settle(i - 6)

FairCommand(i) ==
    \/ i = 1 /\ Command!SpawnError
    \/ i = 2 /\ Command!ExitEvent
    \/ i = 3 /\ Command!CloseEvent
    \/ i = 4 /\ Command!WallClockFires
    \/ i = 5 /\ Command!SigkillFires
    \/ i = 6 /\ Command!FallbackFires

FairFetch(i) ==
    \/ i = 1 /\ Fetch!TimerFires
    \/ i = 2 /\ v4 /\ Fetch!Rejects
    \/ i = 3 /\ (Fetch!Skip \/ Fetch!Oversize)

FairFile(i) ==
    \/ i = 1 /\ File!Refresh(Loop)
    \/ i = 2 /\ File!Step(Loop)

FairRun(i) ==
    \/ i = 1 /\ Run!Run
    \/ i = 2 /\ Run!Poll
    \/ i = 3 /\ Run!Elapse

FairLocal(i) ==
    \/ i = 1 /\ Local!Steps("s1")
    \/ i = 2 /\ Local!Steps("s2")
    \/ i = 3 /\ Local!DaemonUp

Fair(i) ==
    /\ UNCHANGED part
    /\ \/ part = "daemon" /\ FairDaemon(i) /\ UNCHANGED shared
       \/ /\ UNCHANGED vars
          /\ \/ part = "reaper" /\ FairReaper(i) /\ UNCHANGED after12
             \/ part = "session" /\ i = 1 /\ Session!Progress("loop") /\ UNCHANGED after5
             \/ part = "call" /\ FairCall(i) /\ UNCHANGED after12
             \/ part = "command" /\ FairCommand(i) /\ UNCHANGED after8
             \/ part = "fetch" /\ FairFetch(i) /\ UNCHANGED after10
             \/ part = "file" /\ FairFile(i) /\ UNCHANGED after10
             \/ part = "run" /\ FairRun(i)
             \/ part = "local" /\ FairLocal(i) /\ UNCHANGED after11

MCSpec == MCInit /\ [][MCNext]_all /\ \A i \in 1 .. 8 : WF_all(Fair(i))
-----------------------------------------------------------------------------
(* What is deserted is released: a daemon without sessions and channel     *)
(* servers stops (issue #426), and the watches of a session that is never  *)
(* heard of again end (service.ts, reapDormantSessions).                   *)
DesertedIsReleased ==
    \A s \in Hosts :
        \/ []<>((part = "reaper" => ~Reaper!Deserted)
                /\ (part = "session" => Session!HeardFrom(s)))
        \/ <>[]((part = "reaper" => Reaper!Stopped)
                /\ (part = "session" => Session!Released(s)))

(* A request the daemon took is answered, unless its client left or the    *)
(* daemon was killed, whatever another request does (daemon-ipc.ts).       *)
AdmittedIsAnswered ==
    \A c \in Calls : (part = "call" /\ Call!Owed(c)) ~> (part = "call" => Call!Answered(c))

(* Nothing it waits for hangs a tick, nor verify: the command or fetch of  *)
(* a poll comes to an end whatever the other side does, a command that     *)
(* timed out with no process left; so does verify, even on a daemon that   *)
(* ignores SIGTERM.                                                        *)
NothingHangs ==
    <>((part = "command" => Command!Over)
       /\ (part = "fetch" => Fetch!Settled)
       /\ (part = "run" => Run!Ended))

(* The hook state catches up with the database while the daemon goes on,   *)
(* whatever refreshes raced, died or left a temporary file behind; and a   *)
(* write that no other overlaps is whole and, of a heartbeat, keeps the    *)
(* last delivery (service.ts, local-permissions.ts,                        *)
(* transport-heartbeat.ts).                                                *)
FilesCatchUp ==
    /\ <>[](part = "file" /\ ~own => File!Current)
    /\ [][part = "file" => File!SoundAlone]_all

(* Sessions that go on starting get the coordination file wired in the     *)
(* end, and init takes no socket away but from a session start it races    *)
(* with (local-state.ts, session start, init).                             *)
EnabledIsWired ==
    /\ <>[](part = "local" => Local!Wired)
    /\ [][part = "local" => Local!InitKeeps]_all
=============================================================================
