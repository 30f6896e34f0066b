------------------------------ MODULE Sessions ------------------------------
(***************************************************************************)
(* Sessions and the ephemeral monitors (watches) they declare, beside the  *)
(* ticks that evaluate them (libs/core/src/runtime/service.ts and          *)
(* store.ts), for one workspace.  Every database call is atomic; a tick    *)
(* awaits between the evaluations of two monitors, and the loop's tick and *)
(* one asked for over IPC overlap.                                         *)
(***************************************************************************)
EXTENDS Integers

CONSTANTS
    Sessions, Leads,  \* host sessions, and those whose role is lead
    Watches,          \* ephemeral monitors that are ever declared
    Ticks,            \* tick() calls that may overlap
    Dormancy          \* sessionDormancyMs, in time steps

Persistent == "persistent"   \* any monitor of the directory
NoSession == "nobody"

ASSUME SessionsAssumption ==
    /\ Dormancy \in Nat /\ Leads \subseteq Sessions
    /\ Persistent \notin Watches /\ NoSession \notin Sessions

VARIABLES
    session,  \* the status of each session's row, "none" when it has none
    quiet,    \* time since its lastActiveAt, up to Dormancy
    watch,    \* each ephemeral monitor: status, session, time since createdAt
    tick,     \* each tick: where it is, the watches it has yet to evaluate
    newest    \* the newest row of monitor_events: its monitor, its recipients

vars == <<session, quiet, watch, tick, newest>>

Init ==
    /\ session = [s \in Sessions |-> "none"]
    /\ quiet = [s \in Sessions |-> 0]
    /\ watch = [w \in Watches |-> [status |-> "none", owner |-> NoSession, age |-> 0]]
    /\ tick = [t \in Ticks |-> [pc |-> "idle", todo |-> {}]]
    /\ newest = [monitor |-> Persistent, to |-> {}]

Active(w) == watch[w].status = "active"

(* reapEphemeralMonitorsForSession, for a set of sessions.                 *)
ReapedFor(owners) ==
    [w \in Watches |-> IF Active(w) /\ watch[w].owner \in owners
                       THEN [watch[w] EXCEPT !.status = "reaped"]
                       ELSE watch[w]]

(* openSession: a row that exists becomes active again.                    *)
Open(s) ==
    /\ session' = [session EXCEPT ![s] = "active"]
    /\ quiet' = [quiet EXCEPT ![s] = 0]
    /\ UNCHANGED <<watch, tick, newest>>

Mut_CloseKeepsWatches(s) ==
    /\ session[s] # "none"
    /\ session' = [session EXCEPT ![s] = "dormant"]
    /\ quiet' = [quiet EXCEPT ![s] = 0]
    /\ UNCHANGED <<watch, tick, newest>>

Close(s) ==
    /\ session[s] # "none"
    /\ session' = [session EXCEPT ![s] = "dormant"]
    /\ quiet' = [quiet EXCEPT ![s] = 0]
    /\ watch' = ReapedFor({s})
    /\ UNCHANGED <<tick, newest>>

(* touchSession: a claim, a reservation or a commit.                       *)
Touch(s) ==
    /\ session[s] # "none"
    /\ quiet' = [quiet EXCEPT ![s] = 0]
    /\ UNCHANGED <<session, watch, tick, newest>>

Declare(w, s) ==
    /\ watch[w].status = "none"
    /\ session[s] = "active" /\ s \in Leads
    /\ watch' = [watch EXCEPT ![w] = [status |-> "active", owner |-> s, age |-> 0]]
    /\ quiet' = [quiet EXCEPT ![s] = 0]
    /\ UNCHANGED <<session, tick, newest>>

Cancel(w) ==
    /\ Active(w)
    /\ watch' = [watch EXCEPT ![w].status = "reaped"]
    /\ UNCHANGED <<session, quiet, tick, newest>>

-----------------------------------------------------------------------------
(* staleActiveSessions: a watch declared lately spares its session.        *)
Stale ==
    {s \in Sessions :
        /\ session[s] = "active" /\ quiet[s] >= Dormancy
        /\ \A w \in Watches :
             ~(Active(w) /\ watch[w].owner = s /\ watch[w].age < Dormancy)}

(* tick() scans the directory and, before it evaluates anything, closes    *)
(* the dormant sessions.                                                   *)
TickStarts(t) ==
    /\ tick[t].pc = "idle"
    /\ session' = [s \in Sessions |-> IF s \in Stale THEN "dormant" ELSE session[s]]
    /\ quiet' = [s \in Sessions |-> IF s \in Stale THEN 0 ELSE quiet[s]]
    /\ watch' = ReapedFor(Stale)
    /\ tick' = [tick EXCEPT ![t].pc = "monitors"]
    /\ UNCHANGED newest

Mut_ProjectsToItsOwner(m) ==
    IF m = Persistent
    THEN {s \in Leads : session[s] # "none"}
    ELSE {s \in Leads : s = watch[m].owner /\ session[s] = "active"}

(* The sessions insertEvent projects a new row of monitor m to: every lead *)
(* session of the workspace, dormant or not; for a watch its owner alone,  *)
(* if the watch and the owner are still active.                            *)
ProjectionTargets(m) ==
    IF m = Persistent
    THEN {s \in Leads : session[s] # "none"}
    ELSE {s \in Leads : Active(m) /\ s = watch[m].owner /\ session[s] = "active"}

InsertEvent(m) == newest' = [monitor |-> m, to |-> ProjectionTargets(m)]

(* The monitors of the directory are evaluated.                            *)
EvaluatePersistent(t) ==
    /\ tick[t].pc = "monitors"
    /\ InsertEvent(Persistent)
    /\ UNCHANGED <<session, quiet, watch, tick>>

(* listActiveEphemeralMonitors, after the last of them.                    *)
ListEphemeral(t) ==
    /\ tick[t].pc = "monitors"
    /\ tick' = [tick EXCEPT ![t] =
         [pc |-> "watches",
          todo |-> {w \in Watches : Active(w) /\ session[watch[w].owner] = "active"}]]
    /\ UNCHANGED <<session, quiet, watch, newest>>

Mut_ThrowKeepsTodo(t) ==
    /\ tick[t].pc # "idle"
    /\ tick' = [tick EXCEPT ![t].pc = "idle"]
    /\ UNCHANGED <<session, quiet, watch, newest>>

(* An unknown source in the directory makes the tick throw.                *)
TickThrows(t) ==
    /\ tick[t].pc = "monitors"
    /\ tick' = [tick EXCEPT ![t].pc = "idle"]
    /\ UNCHANGED <<session, quiet, watch, newest>>

(* A listed watch has been observed: a row, or none (no change, an error). *)
EvaluateEphemeral(t, w) ==
    /\ w \in tick[t].todo
    /\ tick' = [tick EXCEPT ![t].todo = @ \ {w}]
    /\ InsertEvent(w) \/ UNCHANGED newest
    /\ UNCHANGED <<session, quiet, watch>>

TickEnds(t) ==
    /\ tick[t].pc = "watches" /\ tick[t].todo = {}
    /\ tick' = [tick EXCEPT ![t].pc = "idle"]
    /\ UNCHANGED <<session, quiet, watch, newest>>

Elapse ==
    /\ quiet' = [s \in Sessions |-> IF quiet[s] < Dormancy THEN quiet[s] + 1 ELSE quiet[s]]
    /\ watch' = [w \in Watches |-> [watch[w] EXCEPT !.age = IF @ < Dormancy THEN @ + 1 ELSE @]]
    /\ UNCHANGED <<session, tick, newest>>

Progress(t) == TickStarts(t) \/ ListEphemeral(t) \/ TickEnds(t)
               \/ \E w \in Watches : EvaluateEphemeral(t, w)

Next ==
    \/ Elapse
    \/ \E s \in Sessions :
         \/ Open(s) \/ Close(s) \/ Touch(s)
         \/ \E w \in Watches : Declare(w, s)
    \/ \E w \in Watches : Cancel(w)
    \/ \E t \in Ticks :
         \/ TickStarts(t) \/ EvaluatePersistent(t) \/ ListEphemeral(t)
         \/ TickThrows(t) \/ TickEnds(t)
         \/ \E w \in Watches : EvaluateEphemeral(t, w)

(* A tick goes on and the loop starts the next one.                        *)
Spec == Init /\ [][Next]_vars /\ \A t \in Ticks : WF_vars(Progress(t))
-----------------------------------------------------------------------------
(* The variables have their types.                                         *)
TypeOK ==
    /\ session \in [Sessions -> {"none", "active", "dormant"}]
    /\ quiet \in [Sessions -> 0 .. Dormancy]
    /\ watch \in [Watches -> [status : {"none", "active", "reaped"},
                             owner : Sessions \cup {NoSession}, age : 0 .. Dormancy]]
    /\ tick \in [Ticks -> [pc : {"idle", "monitors", "watches"}, todo : SUBSET Watches]]
    /\ newest \in [monitor : Watches \cup {Persistent}, to : SUBSET Leads]
    /\ \A t \in Ticks : tick[t].todo # {} => tick[t].pc = "watches"

(* However a session ends (close, dormancy) its watches end with it, and   *)
(* opening it again does not bring them back.                              *)
WatchesEndWithTheirSession ==
    \A w \in Watches : Active(w) => session[watch[w].owner] = "active"

(* A watch is private to the session that declared it and silent once it   *)
(* was released, even in a tick that had listed it before: its events      *)
(* reach its declarer only, and nobody after that.                         *)
ReleasedIsSilent ==
    [][newest' # newest /\ newest'.monitor \in Watches =>
         \A s \in newest'.to :
            Active(newest'.monitor) /\ s = watch[newest'.monitor].owner]_vars

(* A session that vanished without closing releases what it watched: the   *)
(* watches of a session that is never heard of again end.                  *)
HeardFrom(s) == quiet[s] < Dormancy
Released(s) == \A w \in Watches : Active(w) => watch[w].owner # s
VanishedSessionsRelease == \A s \in Sessions : []<>HeardFrom(s) \/ <>[]Released(s)
=============================================================================
