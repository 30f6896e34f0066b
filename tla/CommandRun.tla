----------------------------- MODULE CommandRun -----------------------------
(***************************************************************************)
(* runCommand of command-poll: a child process that leads a group of its   *)
(* own, a helper it may leave behind holding its pipes, the exit and close *)
(* events of the child, and three timers: the wall clock, the SIGKILL      *)
(* grace and the fallback for a close event that never comes.  POSIX only: *)
(* on Windows taskkill ends the tree at the first signal.                  *)
(***************************************************************************)
EXTENDS FiniteSets

Members == {"leader", "helper"}
Timers == {"wallClock", "sigkill", "closeFallback"}

VARIABLES alive,     \* the members of the process group that run
          holding,   \* whether the helper holds the child's pipes
          deaf,      \* members that ignore SIGTERM
          died,      \* how the leader ended: "no", "code" or "signal"
          heard,     \* events of the child delivered: subset of {"exit", "close", "error"}
          armed,     \* timers that will fire
          timedOut,
          outcome    \* "none", "result", "signal", "timeout" or "spawn_error"

vars == <<alive, holding, deaf, died, heard, armed, timedOut, outcome>>

TypeOK ==
  /\ alive \subseteq Members /\ holding \in BOOLEAN /\ deaf \subseteq Members
  /\ died \in {"no", "code", "signal"} /\ heard \subseteq {"exit", "close", "error"}
  /\ armed \subseteq Timers /\ timedOut \in BOOLEAN
  /\ outcome \in {"none", "result", "signal", "timeout", "spawn_error"}
  /\ outcome = "result" => died = "code" /\ ~timedOut
  /\ outcome # "none" => armed \subseteq {"sigkill"}

Init ==
  /\ alive \in {{}, {"leader"}, Members} /\ holding \in BOOLEAN /\ deaf \in SUBSET Members
  /\ died = "no" /\ heard = {} /\ armed = {"wallClock"} /\ timedOut = FALSE /\ outcome = "none"

\* finish: the promise is settled once; the SIGKILL timer is left to fire.
Finish(what) == outcome' = what /\ armed' = armed \cap {"sigkill"}

ResolveFromExit ==
  Finish(IF timedOut THEN "timeout" ELSE IF died = "signal" THEN "signal" ELSE "result")

SpawnError ==
  /\ alive = {} /\ died = "no" /\ heard = {} /\ outcome = "none"
  /\ heard' = {"error"} /\ Finish("spawn_error")
  /\ UNCHANGED <<alive, holding, deaf, died, timedOut>>

LeaderEnds(how) ==
  /\ "leader" \in alive /\ alive' = alive \ {"leader"} /\ died' = how
  /\ UNCHANGED <<holding, deaf, heard, armed, timedOut, outcome>>

HelperEnds ==
  /\ "helper" \in alive /\ alive' = alive \ {"helper"}
  /\ UNCHANGED <<holding, deaf, died, heard, armed, timedOut, outcome>>

Mut_WaitsForClose ==
  /\ died # "no" /\ "exit" \notin heard /\ heard' = heard \cup {"exit"}
  /\ IF outcome # "none" THEN UNCHANGED <<armed, outcome>>
     ELSE IF timedOut THEN ResolveFromExit
     ELSE armed' = armed \ {"wallClock"} /\ UNCHANGED outcome
  /\ UNCHANGED <<alive, holding, deaf, died, timedOut>>

ExitEvent ==
  /\ died # "no" /\ "exit" \notin heard /\ heard' = heard \cup {"exit"}
  /\ IF outcome # "none" THEN UNCHANGED <<armed, outcome>>
     ELSE IF timedOut THEN ResolveFromExit
     ELSE armed' = (armed \ {"wallClock"}) \cup {"closeFallback"} /\ UNCHANGED outcome
  /\ UNCHANGED <<alive, holding, deaf, died, timedOut>>

\* The close event comes after exit, once nobody holds the pipes.
CloseEvent ==
  /\ "exit" \in heard /\ "close" \notin heard /\ ~("helper" \in alive /\ holding)
  /\ heard' = heard \cup {"close"}
  /\ IF outcome # "none" THEN UNCHANGED <<armed, outcome>> ELSE ResolveFromExit
  /\ UNCHANGED <<alive, holding, deaf, died, timedOut>>

\* killProcessTree of the group.
Kill(victims) ==
  /\ alive' = alive \ victims
  /\ died' = IF "leader" \in alive \cap victims THEN "signal" ELSE died

WallClockFires ==
  /\ "wallClock" \in armed
  /\ timedOut' = TRUE /\ Kill(Members \ deaf)
  /\ armed' = (armed \ {"wallClock"}) \cup {"sigkill"}
  /\ UNCHANGED <<holding, deaf, heard, outcome>>

SigkillFires ==
  /\ "sigkill" \in armed /\ armed' = armed \ {"sigkill"}
  /\ Kill(Members)
  /\ UNCHANGED <<holding, deaf, heard, timedOut, outcome>>

FallbackFires ==
  /\ "closeFallback" \in armed /\ ResolveFromExit
  /\ UNCHANGED <<alive, holding, deaf, died, heard, timedOut>>

Events == SpawnError \/ ExitEvent \/ CloseEvent
TimersFire == WallClockFires \/ SigkillFires \/ FallbackFires
Next == Events \/ TimersFire \/ HelperEnds \/ \E how \in {"code", "signal"} : LeaderEnds(how)

Spec == Init /\ [][Next]_vars
\* Node delivers events and fires timers; processes need not end by themselves.
Fairness == /\ WF_vars(SpawnError) /\ WF_vars(ExitEvent) /\ WF_vars(CloseEvent)
            /\ WF_vars(WallClockFires) /\ WF_vars(SigkillFires) /\ WF_vars(FallbackFires)
FairSpec == Spec /\ Fairness

-----------------------------------------------------------------------------
\* A poll never hangs on its command: not on one that ignores SIGTERM, nor on a
\* helper that keeps the pipes open for ever.  A command that timed out leaves no
\* process of its group behind, even when the promise was settled before the grace
\* was over.
Over == outcome # "none" /\ (timedOut => alive = {})
RunEnds == <>Over
=============================================================================
