------------------------------- MODULE Doctor -------------------------------
(***************************************************************************)
(* agentmonitors doctor: the heartbeats both transports leave behind, the  *)
(* three reads that gather the input, computeTransportHealth, and the      *)
(* checks that decide the exit code.  Sessions open and close, transports  *)
(* report and fall silent, the daemon stops and reminders are muted while  *)
(* the command runs.  Monitors are valid and observed, the workspace is    *)
(* enabled: those checks pass.  A record keeps one binding: at names the   *)
(* first thing of it that is not the caller's.                             *)
(***************************************************************************)
EXTENDS Naturals, FiniteSets
CONSTANTS Sessions,    \* host sessions
          MaxBeats,    \* bound on records in the registry
          MaxChanges   \* bound on changes of the world during one run
Transports == {"hook", "channel"}
Places == {"here", "workspace", "socket", "environment"}
Beats == [transport : Transports, session : Sessions, at : Places, fresh : BOOLEAN]
HoldsOf == {"none", "muted", "unknown"}   \* unknown: the call failed or its hold names no events
VARIABLES leads,     \* active lead sessions of the workspace
          beats,     \* the heartbeat registry
          daemon,    \* whether it answers
          hold,      \* what hook.diagnose would say of each session
          pc,        \* "idle", "reported", "diagnosed" or "judged"
          sawLeads, sawDaemon, sawHold, sawBeats,   \* the input of the run
          changes
vars == <<leads, beats, daemon, hold, pc, sawLeads, sawDaemon, sawHold, sawBeats, changes>>
world == <<leads, beats, daemon, hold>>
input == <<sawLeads, sawDaemon, sawHold, sawBeats>>

Codes == {"daemon-unreachable", "workspace-mismatch", "socket-mismatch", "environment-mismatch",
          "reminders-suppressed", "heartbeat-stale", "version-skew", "channel-registration-unverified",
          "delivery-diagnosis-unavailable", "channel-session-unmatched", "channel-lead-uncovered",
          "hook-lead-uncovered"}
SharedCodes == {"daemon-unreachable", "reminders-suppressed", "delivery-diagnosis-unavailable"}
AdvisoryCodes == {"channel-registration-unverified", "version-skew"}

\* disqualifiesFromListening
Disqualifying == Codes \ (SharedCodes \cup AdvisoryCodes)

\* suppressionProblems, diagnosisUnavailableProblems, daemonProblem.
SharedProblems ==
  LET Held(how) == \E s \in sawLeads : sawHold[s] = how IN
  {c \in SharedCodes :
     \/ c = "daemon-unreachable" /\ ~sawDaemon
     \/ c = "reminders-suppressed" /\ sawDaemon /\ Held("muted")
     \/ c = "delivery-diagnosis-unavailable" /\ sawDaemon /\ Held("unknown")}

\* selectHeartbeats: a channel record may name a lead from any workspace.
Selected(t) ==
  LET candidates == {b \in sawBeats : b.transport = t}
      sameWorkspace == {b \in candidates : b.at # "workspace"}
      ofLeads(S) == {b \in S : b.session \in sawLeads}
      matches == ofLeads(IF t = "channel" THEN candidates ELSE sameWorkspace)
  IN IF matches # {} THEN matches ELSE sameWorkspace
Mismatch == [workspace |-> "workspace-mismatch", socket |-> "socket-mismatch",
             environment |-> "environment-mismatch"]
\* heartbeatProblems
HeartbeatProblems(b) ==
  (IF b.at = "here" THEN {} ELSE {Mismatch[b.at]})
  \cup (IF b.fresh THEN {} ELSE {"heartbeat-stale"})
  \cup (IF b.transport = "channel" /\ b.session \notin sawLeads THEN {"channel-session-unmatched"} ELSE {})
  \cup (IF b.transport = "channel" /\ b.fresh THEN {"channel-registration-unverified"} ELSE {})
UncoveredCode == [hook |-> "hook-lead-uncovered", channel |-> "channel-lead-uncovered"]
Uncovered(t) == sawLeads \ {b.session : b \in Selected(t)}
\* buildTransport: the problems of every match; the freshest says whether it runs.
Configured(t) == Selected(t) # {}
Running(t) == \E b \in Selected(t) : b.fresh
OwnProblems(t) ==
  (UNION {HeartbeatProblems(b) : b \in Selected(t)})
  \cup (IF Configured(t) /\ Uncovered(t) # {} THEN {UncoveredCode[t]} ELSE {})
Broken(t) == OwnProblems(t) \cap Disqualifying # {}
\* computeTransportHealth
Listening == IF sawLeads = {} THEN {} ELSE {t \in Transports : Running(t) /\ ~Broken(t)}
Deliverable == sawLeads # {} /\ Listening # {} /\ SharedProblems = {}

\* transportChecks and the daemon check: which of them fail.
DaemonFails == ~sawDaemon /\ sawLeads # {}
TransportFails(t) == Configured(t) /\ sawLeads # {} /\ Broken(t)
IdleVerdict == sawLeads = {} \/ (SharedProblems = {} /\ \A t \in Transports : ~Configured(t))
ExitCode ==
  IF DaemonFails \/ (\E t \in Transports : TransportFails(t)) \/ (~IdleVerdict /\ ~Deliverable)
  THEN 1 ELSE 0

TypeOK ==
  /\ leads \subseteq Sessions /\ beats \subseteq Beats /\ daemon \in BOOLEAN
  /\ hold \in [Sessions -> HoldsOf] /\ pc \in {"idle", "reported", "diagnosed", "judged"}
  /\ sawLeads \subseteq Sessions /\ sawBeats \subseteq Beats /\ sawDaemon \in BOOLEAN
  /\ sawHold \in [Sessions -> HoldsOf] /\ changes \in 0..MaxChanges
  /\ \A b, c \in beats : b.transport = c.transport /\ b.session = c.session
                         /\ (b.at = "workspace") = (c.at = "workspace") => b = c
NoHold == [s \in Sessions |-> "none"]
Init ==
  /\ leads \in SUBSET Sessions /\ beats = {} /\ daemon \in BOOLEAN
  /\ hold = NoHold /\ pc = "idle"
  /\ sawLeads = {} /\ sawDaemon = FALSE /\ sawHold = NoHold /\ sawBeats = {} /\ changes = 0

\* The world, before and during a run.
Bounded ==
  /\ pc # "judged" /\ UNCHANGED <<pc, input>>
  /\ changes' = IF pc = "idle" THEN changes ELSE changes + 1
\* writeTransportHeartbeat: one record per transport, workspace and session.
Beat(t, s, at) ==
  /\ beats' = {b \in beats : ~(b.transport = t /\ b.session = s /\ (b.at = "workspace") = (at = "workspace"))}
              \cup {[transport |-> t, session |-> s, at |-> at, fresh |-> TRUE]}
  /\ Cardinality(beats') <= MaxBeats
  /\ UNCHANGED <<leads, daemon, hold>>
\* The lease of a record runs out.
Lapses(b) ==
  /\ b.fresh /\ beats' = (beats \ {b}) \cup {[b EXCEPT !.fresh = FALSE]}
  /\ UNCHANGED <<leads, daemon, hold>>
SessionChanges(s) ==
  /\ leads' = (leads \ {s}) \cup ({s} \ leads)
  /\ UNCHANGED <<beats, daemon, hold>>
DaemonChanges == daemon' = ~daemon /\ UNCHANGED <<leads, beats, hold>>
HoldChanges(s, h) == hold' = [hold EXCEPT ![s] = h] /\ UNCHANGED <<leads, beats, daemon>>
WorldChanges ==
  /\ changes < MaxChanges /\ Bounded
  /\ \/ \E t \in Transports, s \in Sessions, at \in Places : Beat(t, s, at)
     \/ \E b \in beats : Lapses(b)
     \/ \E s \in Sessions : SessionChanges(s)
     \/ DaemonChanges
     \/ \E s \in Sessions, h \in HoldsOf : HoldChanges(s, h)

\* doctor.report, from the daemon or from the database it left.
Report ==
  /\ pc = "idle" /\ pc' = "reported"
  /\ sawLeads' = leads /\ sawDaemon' = daemon
  /\ UNCHANGED <<world, sawHold, sawBeats, changes>>
\* gatherDeliveryDiagnoses: a call that fails counts as unavailable.
Diagnose ==
  /\ pc = "reported" /\ pc' = "diagnosed"
  /\ sawHold' = [s \in Sessions |-> IF s \notin sawLeads \/ ~sawDaemon THEN "none"
                                    ELSE IF daemon THEN hold[s] ELSE "unknown"]
  /\ UNCHANGED <<world, sawLeads, sawDaemon, sawBeats, changes>>
\* readTransportHeartbeats, and the verdict.
Judge ==
  /\ pc = "diagnosed" /\ pc' = "judged" /\ sawBeats' = beats
  /\ UNCHANGED <<world, sawLeads, sawDaemon, sawHold, changes>>
Next == WorldChanges \/ Report \/ Diagnose \/ Judge
Spec == Init /\ [][Next]_vars
-----------------------------------------------------------------------------
Proves(t, s) == \E b \in sawBeats : b = [transport |-> t, session |-> s, at |-> "here", fresh |-> TRUE]
\* "deliverable" is never said on one session's evidence for another: some one
\* transport has a live, rightly bound record for every active lead, the daemon
\* answered, and for every lead the suppression check ran and found nothing.
DeliverableIsProven ==
  pc = "judged" /\ Deliverable =>
    /\ sawDaemon /\ \A s \in sawLeads : sawHold[s] = "none"
    /\ \E t \in Transports : \A s \in sawLeads : Proves(t, s)
\* The exit code tells the truth: with a session open, 0 means that events will
\* arrive or that no transport has reported yet and nothing mutes it; with none
\* open, no dead record makes every later run fail.
ExitIsTruthful ==
  pc = "judged" =>
    IF sawLeads = {} THEN ExitCode = 0
    ELSE ExitCode = 0 => \/ Deliverable
                         \/ /\ sawDaemon /\ \A s \in sawLeads : sawHold[s] = "none"
                            /\ \A t \in Transports, s \in sawLeads : ~Proves(t, s)
=============================================================================
