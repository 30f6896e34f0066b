----------------------------- MODULE LocalState -----------------------------
(***************************************************************************)
(* .claude/agentmonitors.local.md (apps/cli/src/local-state.ts), the file  *)
(* that says whether a workspace is monitored and where its daemon         *)
(* listens: read and rewritten whole by agentmonitors init (commands/init  *)
(* .ts), by session start, which waits for a daemon in between (commands/  *)
(* session.ts), and by the user.  hook deliver and session end find the    *)
(* daemon through it.                                                      *)
(*                                                                         *)
(* It is written with a plain writeFileSync: the file is truncated, then   *)
(* written, and the other processes may read it in between.  Of two who    *)
(* write at once, the later write is what the frontmatter says.            *)
(***************************************************************************)
EXTENDS Integers

CONSTANTS
    Sessions,  \* host sessions; each starts and ends over and over
    MaxFaults  \* bound: daemons that fail or stop, processes that die, edits of the
               \* user's, further runs of init

\* No file, or an empty one: both read as disabled.
Absent == [enabled |-> FALSE, bom |-> FALSE, socket |-> FALSE, failed |-> FALSE]

VARIABLES
    file,    \* the coordination file; bom: it starts with a byte order mark
    daemon,  \* "down", "booting" or "up"
    answers, \* a daemon has answered on the workspace's socket
    pc,      \* where each session's session start is; "wiring" and "marking": it has
             \* truncated the file
    mine,    \* what it read of the file
    record,  \* the daemon's record of the session: "active" or, dormant or not there, "none"
    init,    \* agentmonitors init: "idle", "looked", "missing", "enabling", "enabled",
             \* "ignored", "done"
    gitignore, monitor, \* its lines are in .gitignore; a MONITOR.md is there
    faults,
    raced    \* a session start wrote the file while init was at it

vars == <<file, daemon, answers, pc, mine, record, init, gitignore, monitor, faults, raced>>
project == <<init, gitignore, monitor, raced>>

Fault == faults < MaxFaults /\ faults' = faults + 1

(* parseFrontmatter wants a bare "---" first: with a byte order mark the   *)
(* file reads as one that is not there.                                    *)
Read == IF file.bom THEN Absent ELSE file

Init ==
    /\ file \in {Absent, [Absent EXCEPT !.enabled = TRUE],
                 [Absent EXCEPT !.enabled = TRUE, !.bom = TRUE]}
    /\ daemon = "down" /\ answers = FALSE
    /\ pc = [s \in Sessions |-> "idle"]
    /\ mine = [s \in Sessions |-> Absent]
    /\ record = [s \in Sessions |-> "none"]
    /\ init = "idle" /\ gitignore = FALSE /\ monitor = FALSE
    /\ faults = 0 /\ raced = FALSE

-----------------------------------------------------------------------------
(* session start: a disabled workspace quits at once.                      *)
Mut_BacksOff(s) ==
    /\ pc[s] = "idle" /\ Read.enabled /\ ~Read.failed
    /\ mine' = [mine EXCEPT ![s] = Read]
    /\ IF daemon = "up"
       THEN pc' = [pc EXCEPT ![s] = "answered"] /\ answers' = TRUE /\ UNCHANGED daemon
       ELSE pc' = [pc EXCEPT ![s] = "waiting"] /\ daemon' = "booting" /\ UNCHANGED answers
    /\ UNCHANGED <<file, record, faults>> /\ UNCHANGED project

Start(s) ==
    /\ pc[s] = "idle" /\ Read.enabled
    /\ mine' = [mine EXCEPT ![s] = Read]
    /\ IF daemon = "up"
       THEN pc' = [pc EXCEPT ![s] = "answered"] /\ answers' = TRUE /\ UNCHANGED daemon
       ELSE pc' = [pc EXCEPT ![s] = "waiting"] /\ daemon' = "booting" /\ UNCHANGED answers
    /\ UNCHANGED <<file, record, faults>> /\ UNCHANGED project

Answered(s) ==
    /\ pc[s] = "waiting" /\ daemon = "up"
    /\ pc' = [pc EXCEPT ![s] = "answered"]
    /\ answers' = TRUE
    /\ UNCHANGED <<file, daemon, mine, record, faults>> /\ UNCHANGED project

(* writeFileSync, first half. *)
Truncates(s, l) ==
    /\ file' = Absent /\ pc' = [pc EXCEPT ![s] = l]
    /\ raced' = (raced \/ init \in {"looked", "missing", "enabling"})
    /\ UNCHANGED <<daemon, answers, mine, record, faults, init, gitignore, monitor>>

Writes(s, state, l) ==
    /\ file' = state /\ pc' = [pc EXCEPT ![s] = l]
    /\ mine' = [mine EXCEPT ![s] = Absent]
    /\ UNCHANGED <<daemon, answers, record, faults>> /\ UNCHANGED project

(* No answer in time: what was read goes back with a marker, no socket     *)
(* added to it.                                                            *)
TimesOut(s) == pc[s] = "waiting" /\ daemon # "up" /\ Truncates(s, "marking")
MarkFailure(s) ==
    pc[s] = "marking" /\ Writes(s, [mine[s] EXCEPT !.failed = TRUE], "idle")

BeginPersist(s) == pc[s] = "answered" /\ Truncates(s, "wiring")
Persist(s) ==
    pc[s] = "wiring" /\ Writes(s, [mine[s] EXCEPT !.failed = FALSE, !.socket = TRUE], "open")

OpenSession(s) ==
    /\ pc[s] = "open"
    /\ record' = IF daemon = "up" THEN [record EXCEPT ![s] = "active"] ELSE record
    /\ pc' = [pc EXCEPT ![s] = "idle"]
    /\ UNCHANGED <<file, daemon, answers, mine, faults>> /\ UNCHANGED project

(* session end: through the socket on file, quietly nothing otherwise.     *)
End(s) ==
    /\ record[s] = "active" /\ Read.enabled /\ Read.socket /\ daemon = "up"
    /\ record' = [record EXCEPT ![s] = "none"]
    /\ UNCHANGED <<file, daemon, answers, pc, mine, faults>> /\ UNCHANGED project

-----------------------------------------------------------------------------
(* ensureEnabled reads the file with readLocalState, and again as text: a  *)
(* file that says "enabled: true" is left alone, readable or not.          *)
ReadsState ==
    /\ init = "idle"
    /\ init' = IF Read.enabled THEN "enabled" ELSE "looked"
    /\ raced' = \E s \in Sessions : pc[s] \in {"wiring", "marking"}
    /\ UNCHANGED <<file, daemon, answers, pc, mine, record, gitignore, monitor, faults>>

ReadsText ==
    /\ init = "looked"
    /\ init' = IF file.enabled THEN "enabled" ELSE "missing"
    /\ UNCHANGED <<file, daemon, answers, pc, mine, record, gitignore, monitor, faults, raced>>

BeginEnable ==
    /\ init = "missing"
    /\ init' = "enabling" /\ file' = Absent
    /\ UNCHANGED <<daemon, answers, pc, mine, record, gitignore, monitor, faults, raced>>

Enable ==
    /\ init = "enabling"
    /\ init' = "enabled" /\ file' = [Absent EXCEPT !.enabled = TRUE]
    /\ UNCHANGED <<daemon, answers, pc, mine, record, gitignore, monitor, faults, raced>>

EnsureGitignore ==
    /\ init = "enabled"
    /\ init' = "ignored" /\ gitignore' = TRUE
    /\ UNCHANGED <<file, daemon, answers, pc, mine, record, monitor, faults, raced>>

(* A monitor of that name is left unchanged; the author may want none.     *)
ScaffoldMonitor ==
    /\ init = "ignored"
    /\ init' = "done" /\ monitor' \in {monitor, TRUE}
    /\ UNCHANGED <<file, daemon, answers, pc, mine, record, gitignore, faults, raced>>

RunsInitAgain ==
    /\ init = "done" /\ Fault
    /\ init' = "idle"
    /\ UNCHANGED <<file, daemon, answers, pc, mine, record, gitignore, monitor, raced>>

(* Killed between truncating the file and writing it, or elsewhere. *)
StartDies(s) ==
    /\ pc[s] # "idle" /\ Fault
    /\ pc' = [pc EXCEPT ![s] = "idle"] /\ mine' = [mine EXCEPT ![s] = Absent]
    /\ UNCHANGED <<file, daemon, answers, record>> /\ UNCHANGED project

InitDies ==
    /\ init \notin {"idle", "done"} /\ Fault
    /\ init' = "done"
    /\ UNCHANGED <<file, daemon, answers, pc, mine, record, gitignore, monitor, raced>>

-----------------------------------------------------------------------------
DaemonUp ==
    /\ daemon = "booting"
    /\ daemon' = "up"
    /\ UNCHANGED <<file, answers, pc, mine, record, faults>> /\ UNCHANGED project

(* It fails to boot, crashes, or stops when it is idle.                    *)
DaemonDown ==
    /\ daemon # "down" /\ Fault
    /\ daemon' = "down"
    /\ UNCHANGED <<file, answers, pc, mine, record>> /\ UNCHANGED project

(* The user switches monitoring off, or deletes the file.                  *)
UserDisables ==
    /\ file.enabled /\ Fault
    /\ file' \in {Absent, [file EXCEPT !.enabled = FALSE]}
    /\ UNCHANGED <<daemon, answers, pc, mine, record>> /\ UNCHANGED project

Steps(s) == Start(s) \/ Answered(s) \/ TimesOut(s) \/ MarkFailure(s) \/ BeginPersist(s)
                \/ Persist(s) \/ OpenSession(s)

Next ==
    \/ \E s \in Sessions :
        \/ Start(s) \/ Answered(s) \/ TimesOut(s) \/ MarkFailure(s) \/ BeginPersist(s)
        \/ Persist(s) \/ OpenSession(s) \/ End(s) \/ StartDies(s)
    \/ ReadsState \/ ReadsText \/ BeginEnable \/ Enable
    \/ EnsureGitignore \/ ScaffoldMonitor \/ RunsInitAgain \/ InitDies
    \/ DaemonUp \/ DaemonDown \/ UserDisables

Spec ==
    /\ Init /\ [][Next]_vars
    /\ \A s \in Sessions : WF_vars(Steps(s))
    /\ WF_vars(DaemonUp)
-----------------------------------------------------------------------------
(* A socket on file is one a daemon has answered on: hooks are never sent  *)
(* to a socket because a boot was merely attempted.                        *)
SocketWasAnswered == file.socket => answers

(* Sessions that go on starting get the file wired in the end, whatever    *)
(* boots failed, markers were left, writes were cut short and edits were   *)
(* made on the way; unless a mark, the user or a write that died half way  *)
(* makes it read as disabled.                                              *)
Wired == Read.enabled => Read.socket /\ ~Read.failed
EnabledIsWired == <>[]Wired

(* "so a re-run never rewrites the file (which would clobber socket/db     *)
(* fields a prior session start persisted)" (init.ts): init overwrites an  *)
(* enabled file only if a session start wrote it while init was at it.     *)
InitKeeps == init' \in {"enabling", "enabled"} /\ init' # init /\ file.enabled => file' = file \/ raced
InitKeepsWiring == [][InitKeeps]_vars

=============================================================================
