------------------------------- MODULE Daemon -------------------------------
(***************************************************************************)
(* The daemon processes of one workspace around their shared files: the    *)
(* startup lock (a directory that holds a pid file) and the socket path    *)
(* (apps/cli/src/daemon-ipc.ts, commands/daemon.ts, detached-spawn.ts).    *)
(* Each step is one file-system or signal operation: processes interleave  *)
(* between any two.  Binding, closing and the late clean-ups of a stopping *)
(* daemon all act on the path, whoever bound it.  Timeouts are choices.    *)
(***************************************************************************)
EXTENDS Integers, FiniteSets

CONSTANTS
    MaxProcs,   \* bound: daemon processes ever launched, in this order
    Detached,   \* those of them launched by daemon run --detach
    MaxFaults   \* bound: crashes, daemon stop calls, signals and thefts, together

ASSUME DaemonAssumption ==
    MaxProcs \in Nat /\ MaxFaults \in Nat /\ Detached \subseteq Nat

Procs == 1 .. MaxProcs
NoProc == 0
NoLock == -1
Leftover == -1  \* the path of a socket whose process is long gone

VARIABLES
    pc,        \* where each process is
    lock,      \* NoLock, or whose pid file the lock directory holds (NoProc: none)
    thefts,    \* times the lock was taken from a process about to write its pid
    socket,    \* whose socket the path names
    listens,   \* the processes with an open listener
    stopping,  \* the processes told to stop
    late,      \* clean-ups of the path a closing process has yet to do
    report,    \* what daemon run --detach makes of the child it spawned
    crashes, stops

vars == <<pc, lock, thefts, socket, listens, stopping, late, report, crashes, stops>>

Init ==
    /\ pc = [p \in Procs |-> "off"]
    /\ lock = NoLock /\ thefts = 0 /\ socket \in {NoProc, Leftover}
    /\ listens = {} /\ stopping = {}
    /\ late = [p \in Procs |-> 0]
    /\ report = [p \in Procs |-> "none"]
    /\ crashes = 0 /\ stops = 0

MayFail == crashes + stops + thefts < MaxFaults

Alive(p) == pc[p] \notin {"off", "gone", "dead"}

(* A connect to the path is answered (probeSocket, daemonAvailable).       *)
Answered == socket # NoProc /\ socket \in listens

Go(p, from, to) == pc[p] = from /\ pc' = [pc EXCEPT ![p] = to]

(* daemon run, or a lazy boot, finds no daemon and starts the process; the *)
(* process itself looks again.                                             *)
Launch(p) ==
    /\ ~Answered
    /\ \A q \in Procs : q < p => pc[q] # "off"
    /\ Go(p, "off", "start")
    /\ report' = [report EXCEPT ![p] = IF p \in Detached THEN "waiting" ELSE @]
    /\ UNCHANGED <<lock, thefts, socket, listens, stopping, late, crashes, stops>>

Start(p) ==
    /\ Go(p, "start", IF Answered THEN "gone" ELSE "mkdir")
    /\ UNCHANGED <<lock, thefts, socket, listens, stopping, late, report, crashes, stops>>

-----------------------------------------------------------------------------
(* acquireStartupLock.  "again" is its second and last mkdir.              *)
LockStep == UNCHANGED <<socket, listens, stopping, late, report, crashes, stops>>

MakeDir(p) ==
    /\ \/ /\ lock = NoLock
          /\ lock' = NoProc
          /\ Go(p, "mkdir", "create") \/ Go(p, "again", "create")
       \/ /\ lock # NoLock
          /\ UNCHANGED lock
          /\ Go(p, "mkdir", "read") \/ Go(p, "again", "gone")
    /\ UNCHANGED thefts /\ LockStep

(* writeFileSync creates the pid file empty and then writes to it; in a    *)
(* directory someone removed it fails.                                     *)
CreatePid(p) ==
    /\ IF lock = NoLock
       THEN Go(p, "create", "gone") /\ UNCHANGED lock
       ELSE Go(p, "create", "write") /\ lock' = p
    /\ UNCHANGED thefts /\ LockStep

WritePid(p) ==
    /\ Go(p, "write", "probe")
    /\ UNCHANGED <<lock, thefts>> /\ LockStep

EmptyPid == lock \in Procs /\ pc[lock] = "write"

Stealing ==
    /\ EmptyPid => MayFail
    /\ thefts' = IF EmptyPid THEN thefts + 1 ELSE thefts

Mut_MissingPidIsStale(p) ==
    /\ LET stale == lock \in Procs => ~Alive(lock) \/ EmptyPid
       IN  Go(p, "read", IF stale THEN "unlinkPid" ELSE "gone")
    /\ Stealing
    /\ UNCHANGED lock /\ LockStep

(* No pid file, or a live holder: someone else is starting.  A pid that    *)
(* does not parse is no holder.                                            *)
ReadPid(p) ==
    /\ LET stale == lock \in Procs /\ (~Alive(lock) \/ EmptyPid)
       IN  Go(p, "read", IF stale THEN "unlinkPid" ELSE "gone")
    /\ Stealing
    /\ UNCHANGED lock /\ LockStep

UnlinkPid(p) ==
    /\ Go(p, "unlinkPid", "rmdir") \/ Go(p, "release", "releaseDir")
    /\ lock' = IF lock = NoLock THEN NoLock ELSE NoProc
    /\ UNCHANGED thefts /\ LockStep

(* rmdir of a directory that holds a pid file fails, which is ignored.     *)
RemoveDir(p) ==
    /\ \/ Go(p, "rmdir", "again")
       \/ Go(p, "releaseDir", IF p \in listens THEN "serving" ELSE "gone")
    /\ lock' = IF lock = NoProc THEN NoLock ELSE lock
    /\ UNCHANGED thefts /\ LockStep

-----------------------------------------------------------------------------
Mut_NeverUnlinks(p) ==
    /\ Go(p, "probe", "bind")
    /\ UNCHANGED <<lock, thefts, socket, listens, stopping, late, report, crashes, stops>>

(* listen: probe, unlink and bind under the lock.                          *)
Probe(p) ==
    /\ Go(p, "probe", IF Answered THEN "bind" ELSE "unlink")
    /\ UNCHANGED <<lock, thefts, socket, listens, stopping, late, report, crashes, stops>>

Unlink(p) ==
    /\ Go(p, "unlink", "bind")
    /\ socket' = NoProc
    /\ UNCHANGED <<lock, thefts, listens, stopping, late, report, crashes, stops>>

Bind(p) ==
    /\ Go(p, "bind", "release")
    /\ IF socket = NoProc
       THEN socket' = p /\ listens' = listens \cup {p}
       ELSE UNCHANGED <<socket, listens>>
    /\ UNCHANGED <<lock, thefts, stopping, late, report, crashes, stops>>

-----------------------------------------------------------------------------
(* daemon stop: the request is answered, then the server closes; its close *)
(* event and runLoop's own close() each clean the path again.              *)
StopCall(p) ==
    /\ MayFail
    /\ pc[p] = "serving" /\ socket = p /\ p \notin stopping
    /\ stopping' = stopping \cup {p}
    /\ late' = [late EXCEPT ![p] = 2]
    /\ stops' = stops + 1
    /\ UNCHANGED <<pc, lock, thefts, socket, listens, report, crashes>>

(* SIGTERM: the loop ends, and closes the server.                          *)
Terminated(p) ==
    /\ stopping' = stopping \cup {p}
    /\ late' = [late EXCEPT ![p] = IF @ = 0 THEN 1 ELSE @]

Signal(p) ==
    /\ MayFail
    /\ Alive(p) /\ p \notin stopping
    /\ Terminated(p)
    /\ stops' = stops + 1
    /\ UNCHANGED <<pc, lock, thefts, socket, listens, report, crashes>>

CloseServer(p) ==
    /\ p \in stopping
    /\ Go(p, "serving", "closed")
    /\ listens' = listens \ {p}
    /\ socket' = NoProc
    /\ UNCHANGED <<lock, thefts, stopping, late, report, crashes, stops>>

CleanupSocket(p) ==
    /\ Go(p, "closed", IF late[p] = 1 THEN "gone" ELSE "closed")
    /\ socket' = NoProc
    /\ late' = [late EXCEPT ![p] = @ - 1]
    /\ UNCHANGED <<lock, thefts, listens, stopping, report, crashes, stops>>

Die(p) ==
    /\ pc' = [pc EXCEPT ![p] = "dead"]
    /\ listens' = listens \ {p}

Crash(p) ==
    /\ MayFail /\ Alive(p)
    /\ Die(p)
    /\ crashes' = crashes + 1
    /\ UNCHANGED <<lock, thefts, socket, stopping, late, report, stops>>

-----------------------------------------------------------------------------
(* daemon run --detach, after it spawned p: wait until the path answers,   *)
(* prove by the pid of status that p is the one that answers, else         *)
(* terminate p: SIGTERM, then SIGKILL.                                     *)
Report(p, from, to) == report[p] = from /\ report' = [report EXCEPT ![p] = to]

DetachStep == UNCHANGED <<lock, thefts, socket, crashes, stops>>

DetachReady(p) ==
    /\ Answered
    /\ Report(p, "waiting", "proving")
    /\ UNCHANGED <<pc, listens, stopping, late>> /\ DetachStep

DetachProve(p) ==
    /\ Answered
    /\ Report(p, "proving", IF socket = p THEN "started" ELSE "terminate")
    /\ UNCHANGED <<pc, listens, stopping, late>> /\ DetachStep

DetachTimeout(p) ==
    /\ Report(p, "waiting", "terminate") \/ Report(p, "proving", "terminate")
    /\ UNCHANGED <<pc, listens, stopping, late>> /\ DetachStep

SendTerm(p) ==
    /\ IF Alive(p)
       THEN Report(p, "terminate", "grace") /\ Terminated(p)
       ELSE Report(p, "terminate", "failed") /\ UNCHANGED <<stopping, late>>
    /\ UNCHANGED <<pc, listens>> /\ DetachStep

GraceOver(p) ==
    /\ Report(p, "grace", "failed")
    /\ IF Alive(p) THEN Die(p) ELSE UNCHANGED <<pc, listens>>
    /\ UNCHANGED <<stopping, late>> /\ DetachStep

Step(p) ==
    \/ Start(p) \/ MakeDir(p) \/ CreatePid(p) \/ WritePid(p) \/ ReadPid(p) \/ UnlinkPid(p)
    \/ RemoveDir(p) \/ Probe(p) \/ Unlink(p) \/ Bind(p)
    \/ CloseServer(p) \/ CleanupSocket(p)

Next ==
    \E p \in Procs :
        \/ Launch(p)
        \/ Start(p) \/ MakeDir(p) \/ CreatePid(p) \/ WritePid(p) \/ ReadPid(p) \/ UnlinkPid(p)
        \/ RemoveDir(p) \/ Probe(p) \/ Unlink(p) \/ Bind(p)
        \/ CloseServer(p) \/ CleanupSocket(p)
        \/ StopCall(p) \/ Signal(p) \/ Crash(p)
        \/ DetachReady(p) \/ DetachProve(p) \/ DetachTimeout(p)
        \/ SendTerm(p) \/ GraceOver(p)

(* A process that is alive takes its steps.                                *)
Spec == Init /\ [][Next]_vars /\ \A p \in Procs : WF_vars(Step(p))
-----------------------------------------------------------------------------
Holders == {p \in Procs : pc[p] \in {"create", "write", "probe", "unlink", "bind", "release"}}

NoneDied == thefts = 0 /\ crashes = 0 /\ \A p \in Procs : pc[p] # "dead"
Undisturbed == NoneDied /\ stopping = {}

Places == {"off", "start", "mkdir", "again", "create", "write", "read", "unlinkPid", "rmdir",
           "probe", "unlink", "bind", "release", "releaseDir", "serving", "closed", "gone", "dead"}
Reports == {"none", "waiting", "proving", "started", "terminate", "grace", "failed"}

(* The variables have their types.                                         *)
TypeOK ==
    /\ pc \in [Procs -> Places] /\ report \in [Procs -> Reports]
    /\ {thefts, crashes, stops} \subseteq Nat
    /\ lock \in Procs \cup {NoProc, NoLock}
    /\ socket \in Procs \cup {NoProc, Leftover}
    /\ listens \subseteq Procs /\ stopping \subseteq Procs
    /\ late \in [Procs -> 0 .. 2]

(* Racing boots: the lock lets one process into probe, unlink and bind at  *)
(* a time, the one whose pid it names, as long as none has died in it.     *)
LockExcludes ==
    NoneDied =>
        /\ Cardinality(Holders) <= 1
        /\ \A p \in Holders : lock = IF pc[p] = "create" THEN NoProc ELSE p

(* Of any number of racing boots at most one serves, and it is the one a   *)
(* client reaches, until something is stopped or dies.                     *)
OneServes ==
    Undisturbed => Cardinality(listens) <= 1 /\ listens \subseteq {socket}

(* When --detach reports a failure its child is gone, on every path, be it *)
(* a lost race, a timeout or an unproven identity.                         *)
FailureMeansGone ==
    \A p \in Procs : report[p] = "failed" => ~Alive(p)

(* Whatever boots race: one at a time is let in, one serves, and a boot    *)
(* that is reported to have failed has left no process behind.             *)
OneDaemon == LockExcludes /\ OneServes /\ FailureMeansGone

(* Racing boots never all lose: once one was launched one of them serves,  *)
(* unless something is stopped or dies.                                    *)
SomeoneServes ==
    (\E p \in Procs : pc[p] = "start") ~> (listens # {} \/ ~Undisturbed)

(* The lock is there to prevent "two daemons running on the same           *)
(* workspace" (daemon-ipc.ts, listen).                                     *)
NeverTwoDaemons == Cardinality(listens) <= 1
=============================================================================
