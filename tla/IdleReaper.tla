----------------------------- MODULE IdleReaper -----------------------------
(***************************************************************************)
(* How long an idle daemon lives: the loop of a daemon process and its     *)
(* reaping check (apps/cli/src/commands/daemon.ts, reap-decision.ts)       *)
(* beside the channel servers whose heartbeat records are leases on it     *)
(* (transport-heartbeat.ts, commands/channel.ts).  All of it concerns one  *)
(* workspace and one host session, so that the channel servers, one of     *)
(* which may be an orphan of an earlier start, share one record.           *)
(*                                                                         *)
(* A time step is the interval of the heartbeat timer, a third of a        *)
(* record's TTL, and the daemon's polling interval as well.                *)
(***************************************************************************)
EXTENDS Integers, FiniteSets

CONSTANTS
    Channels,    \* channel server processes, each started once
    TTL,         \* intervals a record is good for
    ReapAfter,   \* intervals of idleness after which a daemon stops
    BootGrace,   \* the least of them before it has seen a session
    MaxBoots,    \* bound: daemons started
    MaxFaults    \* bound: missed heartbeats, failed scans, crashes, signals

VARIABLES
    loop,       \* where runLoop is: "off", "ticking", "sleeping" or "waking"
    stopping,   \* whether the loop was told to stop, and by whom
    idle,       \* intervals since idleSince, or None
    seen,       \* hasSeenSession
    uptime,     \* intervals since the daemon was started
    session,    \* the host session: "none", "active", "ended" or "dormant"
    record,     \* the age of the channel's record, or None
    channel,    \* where each channel server is
    beating,    \* the channel servers whose timer has fired in this interval
    orphaned,   \* the record of a running server was removed by another one
    boots, faults

vars == <<loop, stopping, idle, seen, uptime, session, record, channel,
          beating, orphaned, boots, faults>>

None == -1

Running == {c \in Channels : channel[c] \in {"up", "polling"}}

Larger(a, b) == IF a >= b THEN a ELSE b
LongIdle == Larger(ReapAfter, BootGrace)

Fault == faults < MaxFaults /\ faults' = faults + 1

Init ==
    /\ loop = "off" /\ stopping = "no"
    /\ idle = None /\ seen = FALSE /\ uptime = 0
    /\ session = "none"
    /\ record = None
    /\ channel = [c \in Channels |-> "off"]
    /\ beating = {}
    /\ orphaned = FALSE
    /\ boots = 0 /\ faults = 0

-----------------------------------------------------------------------------
(* A session start, or a command, finds no daemon and starts one.          *)
Boot ==
    /\ loop = "off" /\ boots < MaxBoots
    /\ boots' = boots + 1
    /\ loop' = "ticking" /\ stopping' = "no"
    /\ idle' = None /\ seen' = FALSE /\ uptime' = 0
    /\ UNCHANGED <<session, record, channel, beating, orphaned, faults>>

Serving == loop # "off"

OpenSession ==
    /\ Serving
    /\ session # "active"
    /\ session' = "active"
    /\ UNCHANGED <<loop, stopping, idle, seen, uptime, record, channel,
                   beating, orphaned, boots, faults>>

EndSession ==
    /\ Serving
    /\ session = "active"
    /\ session' = "ended"
    /\ UNCHANGED <<loop, stopping, idle, seen, uptime, record, channel,
                   beating, orphaned, boots, faults>>

IsHeartbeatStale(age) == age > TTL

Mut_LeaseWithoutTTL(scanned) == scanned => record # None

Mut_FailedScanIsAbsence(scanned) ==
    scanned /\ record # None /\ ~IsHeartbeatStale(record)

Attached(scanned) == scanned => record # None /\ ~IsHeartbeatStale(record)

(* shouldReap, for reaping that is enabled.                                *)
ShouldReap(active, attached, sawSession) ==
    IF active \/ attached
    THEN [reap |-> FALSE, idle |-> None, seen |-> active \/ sawSession]
    ELSE LET since == IF idle = None THEN 0 ELSE idle
         IN  [reap |-> since >= IF sawSession THEN ReapAfter
                                ELSE LongIdle,
              idle |-> since, seen |-> sawSession]

(* A tick ends, perhaps having found the session dormant; the reaping      *)
(* check follows at once, then the loop goes to sleep.  A scan of the      *)
(* registry that fails counts as an attached channel.                      *)
TickEnds ==
    /\ loop = "ticking"
    /\ loop' = "sleeping"
    /\ session' \in IF session = "active" THEN {"active", "dormant"} ELSE {session}
    /\ \E scanned \in BOOLEAN :
         LET active == session' = "active"
             decision == ShouldReap(active, Attached(scanned), seen \/ session # "none")
         IN  /\ IF scanned THEN UNCHANGED faults ELSE Fault
             /\ idle' = decision.idle
             /\ seen' = decision.seen
             /\ stopping' = IF decision.reap /\ stopping = "no" THEN "reaped" ELSE stopping
    /\ UNCHANGED <<uptime, record, channel, beating, orphaned, boots>>

(* The loop wakes up, sees whether it is to stop, and if so closes.        *)
WakeUp ==
    /\ loop = "waking"
    /\ loop' = IF stopping = "no" THEN "ticking" ELSE "off"
    /\ UNCHANGED <<stopping, idle, seen, uptime, session, record, channel,
                   beating, orphaned, boots, faults>>

(* SIGTERM or daemon stop.  A loop that sleeps is woken; one that ticks    *)
(* goes to sleep first.                                                    *)
Stop ==
    /\ Serving /\ Fault
    /\ stopping = "no"
    /\ stopping' = "asked"
    /\ loop' = IF loop = "sleeping" THEN "waking" ELSE loop
    /\ UNCHANGED <<idle, seen, uptime, session, record, channel, beating, orphaned, boots>>

-----------------------------------------------------------------------------
(* A channel server starts: the record is written at once.                 *)
Serve(c) ==
    /\ channel[c] = "off"
    /\ channel' = [channel EXCEPT ![c] = "up"]
    /\ record' = 0 /\ orphaned' = FALSE
    /\ beating' = beating \cup {c}
    /\ UNCHANGED <<loop, stopping, idle, seen, uptime, session, boots, faults>>

(* The timer fires and the record is written, or the write fails.  A       *)
(* server that is alive beats in every interval.                           *)
Beat(c) ==
    /\ c \in Running \ beating
    /\ beating' = beating \cup {c}
    /\ \/ record' = 0 /\ orphaned' = FALSE /\ UNCHANGED faults
       \/ Fault /\ UNCHANGED <<record, orphaned>>
    /\ UNCHANGED <<loop, stopping, idle, seen, uptime, session, channel, boots>>

(* A poll resolves the session, which (re)opens it, and goes on.           *)
Poll(c) ==
    /\ channel[c] = "up"
    /\ channel' = [channel EXCEPT ![c] = "polling"]
    /\ session' \in IF Serving THEN {session, "active"} ELSE {session}
    /\ UNCHANGED <<loop, stopping, idle, seen, uptime, record, beating,
                   orphaned, boots, faults>>

(* The poll returns and beats, unless the server was shut down meanwhile.  *)
PollEnds(c) ==
    /\ channel[c] \in {"polling", "closing"}
    /\ channel' = [channel EXCEPT ![c] = IF @ = "polling" THEN "up" ELSE "gone"]
    /\ IF channel[c] = "polling"
       THEN record' = 0 /\ orphaned' = FALSE
       ELSE UNCHANGED <<record, orphaned>>
    /\ UNCHANGED <<loop, stopping, idle, seen, uptime, session, beating,
                   boots, faults>>

(* stdin ends: the record of this host session is removed, whoever wrote   *)
(* it last.                                                                *)
ShutDown(c) ==
    /\ c \in Running
    /\ channel' = [channel EXCEPT ![c] = IF @ = "polling" THEN "closing" ELSE "gone"]
    /\ record' = None
    /\ orphaned' = (Running # {c})
    /\ UNCHANGED <<loop, stopping, idle, seen, uptime, session, beating,
                   boots, faults>>

CrashChannel(c) ==
    /\ channel[c] \in {"up", "polling", "closing"}
    /\ Fault
    /\ channel' = [channel EXCEPT ![c] = "crashed"]
    /\ UNCHANGED <<loop, stopping, idle, seen, uptime, session, record,
                   beating, orphaned, boots>>

(* Another transport of the machine writes its record and thereby removes  *)
(* the records that have expired.                                          *)
ReapExpiredHeartbeats ==
    /\ record # None /\ IsHeartbeatStale(record)
    /\ record' = None
    /\ UNCHANGED <<loop, stopping, idle, seen, uptime, session, channel,
                   beating, orphaned, boots, faults>>

(* No comparison looks further than the bound.                             *)
Older(age, bound) == IF age \in {None, bound} THEN age ELSE age + 1

(* An interval passes.  Nobody oversleeps it.                              *)
TimeStep ==
    /\ Running \subseteq beating
    /\ loop # "waking"
    /\ beating' = {}
    /\ loop' = IF loop = "sleeping" THEN "waking" ELSE loop
    /\ idle' = Older(idle, LongIdle)
    /\ uptime' = Older(uptime, BootGrace)
    /\ record' = Older(record, TTL + 1)
    /\ UNCHANGED <<stopping, seen, session, channel, orphaned, boots, faults>>

Next ==
    \/ Boot \/ OpenSession \/ EndSession \/ TickEnds \/ WakeUp \/ Stop
    \/ \E c \in Channels :
         \/ Serve(c) \/ Beat(c) \/ Poll(c) \/ PollEnds(c) \/ ShutDown(c)
         \/ CrashChannel(c)
    \/ ReapExpiredHeartbeats
    \/ TimeStep

Spec ==
    /\ Init /\ [][Next]_vars
    /\ WF_vars(TimeStep) /\ WF_vars(TickEnds) /\ WF_vars(WakeUp)
    /\ \A c \in Channels : WF_vars(Beat(c)) /\ WF_vars(PollEnds(c))
-----------------------------------------------------------------------------
(* The variables have their types.                                         *)
TypeOK ==
    /\ loop \in {"off", "ticking", "sleeping", "waking"}
    /\ stopping \in {"no", "asked", "reaped"}
    /\ idle \in None .. LongIdle /\ record \in None .. TTL + 1
    /\ uptime \in 0 .. BootGrace
    /\ session \in {"none", "active", "ended", "dormant"}
    /\ channel \in [Channels -> {"off", "up", "polling", "closing", "gone", "crashed"}]

Reaps == stopping = "no" /\ stopping' = "reaped"

(* A daemon is never reaped while a channel server of its workspace runs,  *)
(* although heartbeats are missed (issue #435); but for the interval after *)
(* an orphan, shutting down, removed the record of the server that took    *)
(* its place.                                                              *)
ReapsUnattached == Reaps => Running = {} \/ orphaned
AttachedKeepsAlive == [][ReapsUnattached]_vars

(* The reaper does not fire before `session start` finishes registration:  *)
(* until it has seen a session a daemon lives for the boot grace at least, *)
(* whatever channels come and go meanwhile.                                *)
BootIsGraced == [][Reaps => uptime >= BootGrace \/ session' # "none"]_vars

(* A channel server that is shut down leaves no record, even if a poll of  *)
(* its was in flight: a record means that some server runs, or died.       *)
RecordMeansServer ==
    record # None => \E c \in Channels : channel[c] \in {"up", "polling", "crashed"}

(* Without sessions and channel servers the daemon goes away in the end: a *)
(* server that died does not pin it (issue #426).                          *)
Deserted == session # "active" /\ Running = {}
Stopped == loop = "off"
DesertedDaemonStops == <>[]Deserted => <>[]Stopped

=============================================================================
