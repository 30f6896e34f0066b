----------------------------- MODULE HookState -----------------------------
(***************************************************************************)
(* The small files other programs read while AgentMonitors rewrites them.  *)
(* Both kinds go through writePrivateFileAtomic: remove the temporary      *)
(* file, create it anew, write it, rename it over the target.              *)
(*                                                                         *)
(* The hook state of a session (RuntimeService.refreshHookState) is a copy *)
(* of what the database says.  The daemon's loop rewrites it every tick,   *)
(* `daemon once` does now and then, and they share one temporary name.     *)
(*                                                                         *)
(* The heartbeat of a session's hooks (writeTransportHeartbeat) has no     *)
(* other copy: each prompt's hook deliver writes a new record and carries  *)
(* lastDeliveryAt over from the one it finds, or sets it.  Temporary names *)
(* are the processes' own.  (A channel server is alone with its record.)   *)
(***************************************************************************)
EXTENDS Naturals, FiniteSets

CONSTANTS
    Procs,          \* processes that write the file, one after another in each place
    Loop,           \* hook state: the one that goes on ticking
    MaxChanges,     \* bound: changes of what the file should say
    MaxVisits       \* bound: deaths, and refreshes by others than the loop

VARIABLES
    own,        \* tempSuffix is the process id (heartbeats), or absent (hook state)
    db,         \* version of what the database says; heartbeats: deliveries so far
    pc,         \* "idle", "remove", "create", "write", "rename"
    seen,       \* the version a process is about to write
    fd,         \* the inode a process created
    tmp,        \* temporary path -> inode
    file,       \* the inode of the target
    content,    \* inode -> version, or Empty; 0: no delivery yet
    visits,
    met         \* those whose write overlaps, or overlapped, another's

vars == <<own, db, pc, seen, fd, tmp, file, content, visits, met>>
disk == <<tmp, file, content>>

None == 0
Inodes == 1..2 * Cardinality(Procs) + 1
Empty == MaxChanges + 1
Paths == Procs \cup {"tmp"}
\* Mutant: every process writes the same temporary file.
Mut_OneTemporaryName(p) == "tmp"

Path(p) == IF own THEN p ELSE "tmp"

TypeOK ==
    /\ own \in BOOLEAN /\ db \in 0..MaxChanges
    /\ pc \in [Procs -> {"idle", "remove", "create", "write", "rename"}]
    /\ seen \in [Procs -> 0..MaxChanges] /\ fd \in [Procs -> Inodes \cup {None}]
    /\ tmp \in [Paths -> Inodes \cup {None}] /\ file \in Inodes \cup {None}
    /\ content \in [Inodes -> 0..Empty] /\ met \subseteq Procs

Init ==
    /\ own \in BOOLEAN
    /\ db = 0 /\ visits = 0 /\ file = None /\ met = {}
    /\ pc = [p \in Procs |-> "idle"] /\ seen = [p \in Procs |-> 0]
    /\ fd = [p \in Procs |-> None] /\ tmp = [x \in Paths |-> None]
    /\ content = [i \in Inodes |-> Empty]

Goto(p, l) == pc' = [pc EXCEPT ![p] = l]
InUse == {file} \cup {tmp[x] : x \in Paths} \cup {fd[p] : p \in Procs}
Fresh == CHOOSE i \in Inodes : i \notin InUse
Writing == {p \in Procs : pc[p] # "idle"}
Visit == visits < MaxVisits /\ visits' = visits + 1
-----------------------------------------------------------------------------
Begins(p, v) ==
    /\ pc[p] = "idle" /\ Goto(p, "remove")
    /\ seen' = [seen EXCEPT ![p] = v]
    /\ met' = IF Writing = {} THEN {} ELSE Writing \cup {p}
    /\ UNCHANGED <<own, fd, disk>>

Change ==
    /\ ~own /\ db < MaxChanges /\ db' = db + 1
    /\ UNCHANGED <<own, pc, seen, fd, disk, visits, met>>

(* Every tick refreshes every session of the workspace, changed or not. *)
Refresh(p) ==
    /\ ~own /\ Begins(p, db)
    /\ IF p = Loop THEN UNCHANGED visits ELSE Visit
    /\ UNCHANGED db

(* readExistingLastDeliveryAt: nothing, or nothing readable, is no delivery. *)
LastDelivery == IF file = None \/ content[file] = Empty THEN 0 ELSE content[file]

Beat(p) == own /\ Begins(p, LastDelivery) /\ UNCHANGED <<db, visits>>

(* A hook that put a delivery out says so. *)
BeatsDelivery(p) ==
    /\ own /\ db < MaxChanges /\ db' = db + 1
    /\ Begins(p, db + 1)
    /\ UNCHANGED visits

(* reapExpiredHeartbeats, or the end of the session. *)
Reaped ==
    /\ own /\ file # None /\ file' = None
    /\ UNCHANGED <<own, db, pc, seen, fd, tmp, content, visits, met>>

Mut_KeepsLeftover(p) ==
    /\ pc[p] = "remove"
    /\ Goto(p, "create")
    /\ UNCHANGED <<own, db, seen, fd, disk, visits, met>>

RemoveTemp(p) ==
    /\ pc[p] = "remove"
    /\ tmp' = [tmp EXCEPT ![Path(p)] = None]
    /\ Goto(p, "create")
    /\ UNCHANGED <<own, db, seen, fd, file, content, visits, met>>

(* O_EXCL: a temporary file somebody created in between is an error. *)
CreateTemp(p) ==
    /\ pc[p] = "create" /\ tmp[Path(p)] = None
    /\ LET i == Fresh IN
       /\ tmp' = [tmp EXCEPT ![Path(p)] = i] /\ fd' = [fd EXCEPT ![p] = i]
       /\ content' = [content EXCEPT ![i] = Empty]
    /\ Goto(p, "write")
    /\ UNCHANGED <<own, db, seen, file, visits, met>>

CreateFails(p) ==
    /\ pc[p] = "create" /\ tmp[Path(p)] # None
    /\ Goto(p, "idle")
    /\ UNCHANGED <<own, db, seen, fd, disk, visits, met>>

Write(p) ==
    /\ pc[p] = "write"
    /\ content' = [content EXCEPT ![fd[p]] = seen[p]]
    /\ Goto(p, "rename")
    /\ UNCHANGED <<own, db, seen, fd, tmp, file, visits, met>>

(* The rename moves whatever is at the temporary path; nothing there is   *)
(* an error.                                                              *)
Rename(p) ==
    /\ pc[p] = "rename"
    /\ IF tmp[Path(p)] = None
       THEN UNCHANGED <<tmp, file>>
       ELSE file' = tmp[Path(p)] /\ tmp' = [tmp EXCEPT ![Path(p)] = None]
    /\ fd' = [fd EXCEPT ![p] = None]
    /\ Goto(p, "idle")
    /\ UNCHANGED <<own, db, seen, content, visits, met>>

(* What it created stays; a daemon that died is started again. *)
Dies(p) ==
    /\ pc[p] # "idle" /\ Visit
    /\ fd' = [fd EXCEPT ![p] = None]
    /\ Goto(p, "idle")
    /\ UNCHANGED <<own, db, seen, disk, met>>

Step(p) == RemoveTemp(p) \/ CreateTemp(p) \/ CreateFails(p) \/ Write(p) \/ Rename(p)

Next ==
    \/ Change \/ Reaped
    \/ \E p \in Procs : Refresh(p) \/ Beat(p) \/ BeatsDelivery(p) \/ Step(p) \/ Dies(p)

Spec == Init /\ [][Next]_vars
\* The daemon's loop goes on; nobody else needs to.
FairSpec == Spec /\ WF_vars(Refresh(Loop)) /\ WF_vars(Step(Loop))
-----------------------------------------------------------------------------
(* "so a reader never observes a partial file" (local-permissions.ts): it  *)
(* takes a temporary file of one's own.  A heartbeat is never seen half    *)
(* written, whoever renews the record and whoever dies.                    *)
OwnNeverPartial == own /\ file # None => content[file] # Empty

(* A write that no other overlaps puts out, whole, what its process meant  *)
(* to say, whatever the deaths before it left behind; and a heartbeat of   *)
(* nothing new does not take back that something was delivered (issue      *)
(* #425).  Two that overlap may: the later rename carries the older read.  *)
SoundAlone ==
    \A p \in Procs \ met :
        pc[p] = "rename" /\ pc'[p] = "idle" /\ visits' = visits =>
            /\ file' # None /\ content'[file'] = seen[p]
            /\ own /\ file # None => content[file] <= content'[file']

(* Once the database rests, and whatever half-written, overtaken or        *)
(* abandoned refreshes came before, the hook state ends up saying what the *)
(* database says, and stays so.                                            *)
Current == file # None /\ content[file] = db
CatchesUp == ~own => <>[]Current
=============================================================================
