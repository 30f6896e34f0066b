-------------------------- MODULE ProcessesProofs ---------------------------
(***************************************************************************)
(* The idle reaper, the sockets, commands, fetches and files around the    *)
(* daemon, and a run of verify, each for any value of its constants and as *)
(* an instance of its module.                                              *)
(***************************************************************************)
EXTENDS Processes, DaemonProofs

-----------------------------------------------------------------------------
(***************************************************************************)
(* The idle reaper.  The invariant for "attached keeps alive" counts how   *)
(* often the record was not renewed: its age is at most the number of      *)
(* faults so far, and one more in an interval in which a running server    *)
(* has yet to beat.                                                        *)
(***************************************************************************)
Due == IF Reaper!Running \subseteq beating THEN 0 ELSE 1

ReaperTypes ==
    /\ channel \in [Channels -> {"off", "up", "polling", "closing", "gone", "crashed"}]
    /\ record \in Nat \cup {Reaper!None} /\ faults \in Nat

RecordIsRenewed ==
    Reaper!Running # {} /\ ~orphaned => record # Reaper!None /\ record <= faults + Due

FewMisses == faults <= MaxMisses

ReaperInv ==
    /\ ReaperTypes /\ FewMisses /\ RecordIsRenewed /\ Reaper!RecordMeansServer

LEMMA ReaperStep ==
    ASSUME ReaperInv, [Reaper!Next]_(Reaper!vars)
    PROVE  ReaperInv' /\ Reaper!ReapsUnattached
<1>0. TTL \in Nat /\ MaxMisses \in Nat /\ MaxMisses < TTL
  BY ReaperAssumption
<1> USE <1>0 DEF ReaperInv, ReaperTypes, FewMisses, RecordIsRenewed, Reaper!RecordMeansServer,
            Reaper!ReapsUnattached, Reaper!Reaps, Due, Reaper!Running, Reaper!None, Reaper!Fault
<1>1. CASE Reaper!Boot
  BY <1>1 DEF Reaper!Boot
<1>2. CASE Reaper!OpenSession
  BY <1>2 DEF Reaper!OpenSession
<1>3. CASE Reaper!EndSession
  BY <1>3 DEF Reaper!EndSession
<1>4. CASE Reaper!TickEnds
  BY <1>4 DEF Reaper!TickEnds, Reaper!ShouldReap, Reaper!Attached, Reaper!IsHeartbeatStale
<1>5. CASE Reaper!WakeUp
  BY <1>5 DEF Reaper!WakeUp
<1>6. CASE Reaper!Stop
  BY <1>6 DEF Reaper!Stop
<1>7. ASSUME NEW c \in Channels, Reaper!Serve(c) PROVE ReaperInv' /\ Reaper!ReapsUnattached
  <2>1. channel'[c] = "up" /\ record' = 0 /\ faults' = faults /\ stop' = stop
    BY <1>7 DEF Reaper!Serve
  <2>2. ReaperTypes'
    BY <1>7 DEF Reaper!Serve
  <2> QED
    BY <2>1, <2>2
<1>8. ASSUME NEW c \in Channels, Reaper!Beat(c) PROVE ReaperInv' /\ Reaper!ReapsUnattached
  <2>1. channel' = channel /\ stop' = stop /\ c \in Reaper!Running /\ c \notin beating
    BY <1>8 DEF Reaper!Beat
  <2>2. Due = 1 /\ Due' \in {0, 1} /\ Reaper!Running' = Reaper!Running
    BY <2>1
  <2>3. CASE record' = 0 /\ orphaned' = FALSE /\ faults' = faults
    BY <2>1, <2>2, <2>3
  <2>4. CASE Reaper!Fault /\ record' = record /\ orphaned' = orphaned
    BY <2>1, <2>2, <2>4
  <2> QED
    BY <1>8, <2>3, <2>4 DEF Reaper!Beat
<1>9. ASSUME NEW c \in Channels, Reaper!Poll(c) PROVE ReaperInv' /\ Reaper!ReapsUnattached
  BY <1>9 DEF Reaper!Poll
<1>10. ASSUME NEW c \in Channels, Reaper!PollEnds(c) PROVE ReaperInv' /\ Reaper!ReapsUnattached
  <2>1. CASE channel[c] = "polling"
    <3>1. channel'[c] = "up" /\ record' = 0 /\ faults' = faults /\ stop' = stop
      BY <1>10, <2>1 DEF Reaper!PollEnds
    <3>2. ReaperTypes'
      BY <1>10, <2>1 DEF Reaper!PollEnds
    <3> QED
      BY <3>1, <3>2
  <2>2. CASE channel[c] = "closing"
    <3>1. channel' = [channel EXCEPT ![c] = "gone"] /\ beating' = beating
          /\ UNCHANGED <<record, orphaned, faults, stop>>
      BY <1>10, <2>2 DEF Reaper!PollEnds
    <3>2. Reaper!Running' = Reaper!Running
      BY <2>2, <3>1
    <3>3. Due' = Due
      BY <3>1, <3>2
    <3> QED
      BY <2>2, <3>1, <3>2, <3>3
  <2> QED
    BY <1>10, <2>1, <2>2 DEF Reaper!PollEnds
<1>11. ASSUME NEW c \in Channels, Reaper!ShutDown(c) PROVE ReaperInv' /\ Reaper!ReapsUnattached
  <2>1. record' = Reaper!None /\ faults' = faults /\ stop' = stop
        /\ orphaned' = (Reaper!Running # {c})
    BY <1>11 DEF Reaper!ShutDown
  <2>2. ReaperTypes' /\ Reaper!Running' = Reaper!Running \ {c}
    BY <1>11 DEF Reaper!ShutDown
  <2> QED
    BY <2>1, <2>2
<1>12. ASSUME NEW c \in Channels, Reaper!CrashChannel(c) PROVE ReaperInv' /\ Reaper!ReapsUnattached
  BY <1>12 DEF Reaper!CrashChannel
<1>13. CASE Reaper!ReapExpiredHeartbeats
  BY <1>13 DEF Reaper!ReapExpiredHeartbeats, Reaper!IsHeartbeatStale
<1>14. CASE Reaper!TimeStep
  <2>1. channel' = channel /\ orphaned' = orphaned /\ faults' = faults /\ stop' = stop
        /\ beating' = {} /\ Due = 0
    BY <1>14 DEF Reaper!TimeStep
  <2>2. record' \in Nat \cup {Reaper!None} /\ record' <= record + 1
        /\ (record' = Reaper!None <=> record = Reaper!None)
    BY <1>14 DEF Reaper!TimeStep, Reaper!Older
  <2>3. Reaper!Running' = Reaper!Running /\ (Reaper!Running # {} => Due' = 1)
    BY <2>1
  <2> QED
    BY <2>1, <2>2, <2>3
<1>15. CASE UNCHANGED Reaper!vars
  BY <1>15 DEF Reaper!vars
<1> QED
  BY <1>1, <1>2, <1>3, <1>4, <1>5, <1>6, <1>7, <1>8, <1>9, <1>10, <1>11, <1>12, <1>13, <1>14, <1>15
     DEF Reaper!Next

(* A daemon is never reaped while a channel server of its workspace runs,  *)
(* as long as fewer heartbeats than a record lasts for are missed, and a   *)
(* record means that a server runs, or died.                               *)
THEOREM AttachedDaemonLives ==
    Reaper!Spec => Reaper!AttachedKeepsAlive /\ AttachedKeepsAlive
<1>1. Reaper!Init => ReaperInv
  BY ReaperAssumption DEF Reaper!Init, ReaperInv, ReaperTypes, FewMisses, RecordIsRenewed, Reaper!RecordMeansServer,
         Due, Reaper!Running, Reaper!None
<1>2. ReaperInv /\ [Reaper!Next]_(Reaper!vars) => ReaperInv' /\ Reaper!ReapsUnattached
  BY ReaperStep
<1>3. ReaperInv => Reaper!RecordMeansServer
  BY DEF ReaperInv
<1> QED
  BY <1>1, <1>2, <1>3, PTL DEF Reaper!Spec, Reaper!AttachedKeepsAlive, AttachedKeepsAlive

(* What "boot is graced" needs: a daemon that has seen a session has one   *)
(* on its books, and has not been idle for longer than it has been up.     *)
GraceInv ==
    /\ session \in {"none", "active", "ended", "dormant"}
    /\ uptime \in 0 .. BootGrace
    /\ idle \in Nat \cup {Reaper!None}
    /\ (seen => session # "none")
    /\ idle <= uptime \/ uptime = BootGrace

Graced == Reaper!Reaps => uptime >= BootGrace \/ session' # "none"

LEMMA GraceStep ==
    ASSUME GraceInv, [Reaper!Next]_(Reaper!vars)
    PROVE  GraceInv' /\ Graced
<1> USE ReaperAssumption DEF GraceInv, Graced, Reaper!Reaps, Reaper!None, Reaper!Fault
<1>1. CASE Reaper!Boot
  BY <1>1 DEF Reaper!Boot
<1>2. CASE Reaper!OpenSession
  BY <1>2 DEF Reaper!OpenSession
<1>3. CASE Reaper!EndSession
  BY <1>3 DEF Reaper!EndSession
<1>4. CASE Reaper!TickEnds
  <2>1. PICK scanned \in BOOLEAN :
          LET active == session' = "active"
              decision == Reaper!ShouldReap(active, Reaper!Attached(scanned),
                                            seen \/ session # "none")
          IN  /\ idle' = decision.idle /\ seen' = decision.seen
              /\ stop' = IF decision.reap /\ stop = "no" THEN "reaped" ELSE stop
    BY <1>4 DEF Reaper!TickEnds
  <2>2. session' \in IF session = "active" THEN {"active", "dormant"} ELSE {session}
    BY <1>4 DEF Reaper!TickEnds
  <2>3. uptime' = uptime
    BY <1>4 DEF Reaper!TickEnds
  <2>4. CASE session' = "active" \/ Reaper!Attached(scanned)
    <3>1. idle' = Reaper!None /\ seen' = (session' = "active" \/ seen \/ session # "none")
      BY <2>1, <2>4 DEF Reaper!ShouldReap
    <3>2. ~Reaper!Reaps
      BY <2>1, <2>4 DEF Reaper!ShouldReap
    <3>3. seen' => session' # "none"
      BY <2>2, <3>1
    <3> QED
      BY <2>2, <2>3, <3>1, <3>2, <3>3
  <2>5. CASE ~(session' = "active" \/ Reaper!Attached(scanned))
    <3>1. /\ idle' = (IF idle = Reaper!None THEN 0 ELSE idle)
          /\ seen' = (seen \/ session # "none")
      BY <2>1, <2>5 DEF Reaper!ShouldReap
    <3>2. Reaper!Reaps => idle' >= (IF seen' THEN ReapAfter ELSE Reaper!LongIdle)
      BY <2>1, <2>5 DEF Reaper!ShouldReap
    <3>3. Reaper!LongIdle \in Nat /\ Reaper!LongIdle >= BootGrace
      BY DEF Reaper!LongIdle, Reaper!Larger
    <3>4. seen' => session' # "none"
      BY <2>2, <2>5, <3>1
    <3>5. Reaper!Reaps /\ session' = "none" => idle' >= BootGrace
      <4>1. Reaper!Reaps /\ session' = "none" => idle' >= Reaper!LongIdle
        BY <3>2, <3>4
      <4> QED
        BY <3>1, <3>3, <4>1
    <3> QED
      BY <2>2, <2>3, <3>1, <3>4, <3>5
  <2> QED
    BY <2>4, <2>5
<1>5. CASE Reaper!WakeUp
  BY <1>5 DEF Reaper!WakeUp
<1>6. CASE Reaper!Stop
  BY <1>6 DEF Reaper!Stop
<1>7. ASSUME NEW c \in Channels,
             Reaper!Serve(c) \/ Reaper!Beat(c) \/ Reaper!PollEnds(c)
               \/ Reaper!ShutDown(c) \/ Reaper!CrashChannel(c)
      PROVE  GraceInv' /\ Graced
  BY <1>7 DEF Reaper!Serve, Reaper!Beat, Reaper!PollEnds, Reaper!ShutDown, Reaper!CrashChannel
<1>8. ASSUME NEW c \in Channels, Reaper!Poll(c) PROVE GraceInv' /\ Graced
  BY <1>8 DEF Reaper!Poll
<1>9. CASE Reaper!ReapExpiredHeartbeats
  BY <1>9 DEF Reaper!ReapExpiredHeartbeats
<1>10. CASE Reaper!TimeStep
  <2>1. /\ idle' \in Nat \cup {Reaper!None} /\ idle' <= idle + 1
        /\ (idle = Reaper!None => idle' = Reaper!None)
    BY <1>10 DEF Reaper!TimeStep, Reaper!Older
  <2>2. uptime' = IF uptime = BootGrace THEN uptime ELSE uptime + 1
    BY <1>10 DEF Reaper!TimeStep, Reaper!Older
  <2>3. UNCHANGED <<session, seen, stop>>
    BY <1>10 DEF Reaper!TimeStep
  <2> QED
    BY <2>1, <2>2, <2>3
<1>11. CASE UNCHANGED Reaper!vars
  BY <1>11 DEF Reaper!vars
<1> QED
  BY <1>1, <1>2, <1>3, <1>4, <1>5, <1>6, <1>7, <1>8, <1>9, <1>10, <1>11 DEF Reaper!Next

(* The reaper does not fire before session start has registered: until a   *)
(* daemon has a session on its books it lives for the boot grace, whatever *)
(* channels come and go meanwhile.                                         *)
THEOREM BootHasItsGrace == Reaper!Spec => Reaper!BootIsGraced
<1>1. Reaper!Init => GraceInv
  BY ReaperAssumption DEF Reaper!Init, GraceInv, Reaper!None
<1>2. GraceInv /\ [Reaper!Next]_(Reaper!vars) => GraceInv' /\ Graced
  BY GraceStep
<1> QED
  BY <1>1, <1>2, PTL DEF Reaper!Spec, Reaper!BootIsGraced, Graced

-----------------------------------------------------------------------------
(***************************************************************************)
(* A verify run.  What is left behind: before the end the watched file is  *)
(* the user's or ours, and from the teardown on it is the user's.  What is *)
(* seen is delivered: an event is emitted once, after the change was held, *)
(* and until it is claimed the time left exceeds the time it has to settle.*)
(***************************************************************************)
RunTypes ==
    /\ settle \in Nat /\ left \in Nat /\ detect \in Nat /\ due \in Nat /\ faults \in Nat
    /\ held \in Nat \cup {-1}
    /\ event \in (0 .. ClaimSettle) \cup {-1, -2}
    /\ rows \in [last : {"none", "baseline", "suppressed", "triggered", "no-change"}, idle : Nat]

CleanedUp ==
    /\ file \in {Run!Before, "ours"}
    /\ stage \in {"teardown", "end"} => file = Run!Before /\ ~session
    /\ stage = "end" => child = "dead" /\ ~temp

Opens == {"start", "boot", "session", "baseline"}
Waits == {"trigger", "observe", "materialize", "deliver"}

EmittedOnce ==
    /\ changed => stage \notin Opens /\ (stage = "trigger" => trigger = "command")
    /\ seen => changed
    /\ held >= 0 => seen /\ event = -1
    /\ event # -1 => seen /\ held = -1
    /\ rows.last = "triggered" => event # -1
    /\ event = -2 => stage \notin Opens \cup Waits

DaemonStays ==
    faults = 0 /\ stage \in {"session", "baseline"} \cup Waits => child = "up"

TimeIsLeft ==
    stage \in {"materialize", "deliver"} /\ faults = 0 =>
        event >= 0 /\ left > 0 /\ left > Run!Claim - event

RunInv == RunTypes /\ CleanedUp /\ EmittedOnce /\ DaemonStays /\ TimeIsLeft

(* The deadlines are numbers, and the one set when the change is seen      *)
(* leaves the time to claim it.                                            *)
LEMMA Budgets ==
    ASSUME RunTypes
    PROVE  /\ Run!Claim \in 0 .. ClaimSettle
           /\ Run!BaselineBudget \in Nat /\ Run!DetectBudget \in Nat /\ Run!ObserveBudget \in Nat
           /\ Run!PostObserve \in Nat /\ Run!PostObserve > Run!Claim
<1>1. Run!Claim \in 0 .. ClaimSettle
  BY RunAssumption DEF Run!Claim
<1>2. Run!DetectBudget \in Nat /\ Run!BaselineBudget \in Nat
  BY <1>1, RunAssumption DEF Run!DetectBudget, Run!BaselineBudget, RunTypes
<1>3. 2 * Interval + Margin \in Nat /\ settle + Run!Claim + Margin \in Nat
      /\ settle + Run!Claim + Margin > Run!Claim
  BY <1>1, RunAssumption DEF RunTypes
<1>4. Run!ObserveBudget \in Nat
  BY <1>2, <1>3 DEF Run!ObserveBudget, Run!Larger
<1>5. Run!PostObserve \in Nat /\ Run!PostObserve > Run!Claim
  BY <1>1, <1>3 DEF Run!PostObserve, Run!Larger, RunTypes
<1> QED
  BY <1>1, <1>2, <1>4, <1>5

LEMMA RunStep ==
    ASSUME RunInv, [Run!Next]_(Run!vars)
    PROVE  RunInv'
<1>0. /\ Run!Claim \in 0 .. ClaimSettle
      /\ Run!BaselineBudget \in Nat /\ Run!DetectBudget \in Nat /\ Run!ObserveBudget \in Nat
      /\ Run!PostObserve \in Nat /\ Run!PostObserve > Run!Claim
  BY Budgets DEF RunInv
<1> USE <1>0 DEF RunInv, RunTypes, CleanedUp, EmittedOnce, DaemonStays, TimeIsLeft, Opens, Waits,
                 Run!plan, Run!daemonVars, Run!Ends, Run!Fault
<1>p. UNCHANGED <<trigger, settle, high>> => Run!Before' = Run!Before /\ Run!Claim' = Run!Claim
  BY DEF Run!Before, Run!Claim
<1>1. CASE Run!Boot
  BY <1>1, <1>p, RunAssumption DEF Run!Boot
<1>2. CASE Run!BootPoll
  BY <1>2, <1>p DEF Run!BootPoll
<1>3. CASE Run!OpenSession
  BY <1>3, <1>p DEF Run!OpenSession
<1>4. CASE Run!Lost
  BY <1>4, <1>p DEF Run!Lost
<1>5. CASE Run!Expires
  BY <1>5, <1>p DEF Run!Expires
<1>6. CASE Run!SeesBaseline
  BY <1>6, <1>p, RunAssumption DEF Run!SeesBaseline
<1>7. CASE Run!Fire
  BY <1>7, <1>p DEF Run!Fire
<1>8. CASE Run!Change
  BY <1>8, <1>p DEF Run!Change
<1>9. CASE Run!CommandEnds
  BY <1>9, <1>p DEF Run!CommandEnds
<1>10. CASE Run!Observe
  BY <1>10, <1>p DEF Run!Observe
<1>11. CASE Run!Materialized
  BY <1>11, <1>p DEF Run!Materialized
<1>12. CASE Run!Deliver
  BY <1>12, <1>p DEF Run!Deliver
<1>13. CASE Run!Revert
  BY <1>13, <1>p DEF Run!Revert
<1>14. CASE Run!Teardown
  BY <1>14, <1>p DEF Run!Teardown
<1>15. CASE Run!Signal
  BY <1>15, <1>p DEF Run!Signal, Run!Ended
<1>16. CASE Run!Exit
  BY <1>16, <1>p DEF Run!Exit
<1>17. CASE Run!ChildMoves
  BY <1>17, <1>p DEF Run!ChildMoves
<1>18. CASE Run!Poll
  BY <1>18, <1>p, RunAssumption DEF Run!Poll, Run!Row
<1>19. CASE Run!Elapse
  <2>1. /\ left > 0 /\ left' = left - 1 /\ ~Run!Answered
        /\ UNCHANGED <<trigger, settle, high, stage, child, temp, file, session, changed, seen,
                       rows, faults>>
    BY <1>19 DEF Run!Elapse
  <2>2. /\ detect' \in Nat /\ due' \in Nat /\ left' \in Nat
        /\ held' \in Nat \cup {-1} /\ (held' = -1 <=> held = -1)
    BY <1>19, <2>1 DEF Run!Elapse, Run!Less
  <2>3. event' = IF event >= 0 /\ event < ClaimSettle THEN event + 1 ELSE event
    BY <1>19 DEF Run!Elapse
  <2>4. ClaimSettle \in Nat
    BY RunAssumption
  <2>5. event' \in (0 .. ClaimSettle) \cup {-1, -2} /\ (event < 0 => event' = event)
        /\ (event >= 0 => event' >= 0)
    BY <2>3, <2>4
  <2>6. TimeIsLeft'
    <3> SUFFICES ASSUME stage \in {"materialize", "deliver"}, faults = 0
                 PROVE  event' >= 0 /\ left' > 0 /\ left' > Run!Claim - event'
      BY <1>p, <2>1
    <3>1. stage = "deliver" /\ event < Run!Claim /\ event >= 0 /\ left > Run!Claim - event
      BY <2>1 DEF Run!Answered
    <3> QED
      BY <2>1, <2>3, <2>4, <3>1
  <2>7. RunTypes' /\ CleanedUp' /\ DaemonStays'
    BY <1>p, <2>1, <2>2, <2>5
  <2>8. EmittedOnce'
    <3>1. (event' = -1 <=> event = -1) /\ (event' = -2 <=> event = -2)
      BY <2>5
    <3>2. held' >= 0 <=> held >= 0
      BY <2>2
    <3> QED
      BY <2>1, <2>2, <3>1, <3>2
  <2> QED
    BY <2>6, <2>7, <2>8
<1>20. CASE UNCHANGED Run!vars
  BY <1>20, <1>p DEF Run!vars
<1> QED
  BY <1>1, <1>2, <1>3, <1>4, <1>5, <1>6, <1>7, <1>8, <1>9, <1>10, <1>11, <1>12, <1>13, <1>14,
     <1>15, <1>16, <1>17, <1>18, <1>19, <1>20 DEF Run!Next

(* For any interval, settle times and deadlines, with some margin: a run   *)
(* that ends leaves no daemon, directory, session or file of its own, and  *)
(* a change seen late still gets the time to be delivered.                 *)
THEOREM VerifyCleansUpAndWaits == Run!Spec => []RunIsClean
<1>1. Run!Init => RunInv
  BY RunAssumption
     DEF Run!Init, RunInv, RunTypes, CleanedUp, EmittedOnce, DaemonStays, TimeIsLeft, Opens, Waits
<1>2. RunInv /\ [Run!Next]_(Run!vars) => RunInv'
  BY RunStep
<1>3. RunInv => RunIsClean
  BY DEF RunInv, CleanedUp, TimeIsLeft, RunIsClean, Run!NothingLeftBehind, Run!ObservedIsDelivered
<1> QED
  BY <1>1, <1>2, <1>3, PTL DEF Run!Spec

-----------------------------------------------------------------------------
(***************************************************************************)
(* What one process learns of another is true.                             *)
(***************************************************************************)

LEMMA ReaperTypeStep ==
    ASSUME Reaper!TypeOK, [Reaper!Next]_(Reaper!vars)
    PROVE  Reaper!TypeOK'
<1>0. TTL \in Nat /\ Reaper!LongIdle \in Nat /\ BootGrace \in Nat
  BY ReaperAssumption DEF Reaper!LongIdle, Reaper!Larger
<1> USE <1>0 DEF Reaper!TypeOK, Reaper!None, Reaper!Older
<1>1. CASE Reaper!Boot
  BY <1>1 DEF Reaper!Boot
<1>2. CASE Reaper!OpenSession
  BY <1>2 DEF Reaper!OpenSession
<1>3. CASE Reaper!EndSession
  BY <1>3 DEF Reaper!EndSession
<1>4. CASE Reaper!TickEnds
  BY <1>4 DEF Reaper!TickEnds, Reaper!ShouldReap
<1>5. CASE Reaper!WakeUp
  BY <1>5 DEF Reaper!WakeUp
<1>6. CASE Reaper!Stop
  BY <1>6 DEF Reaper!Stop
<1>7. ASSUME NEW c \in Channels, Reaper!Serve(c) PROVE Reaper!TypeOK'
  BY <1>7 DEF Reaper!Serve
<1>8. ASSUME NEW c \in Channels, Reaper!Beat(c) PROVE Reaper!TypeOK'
  BY <1>8 DEF Reaper!Beat
<1>9. ASSUME NEW c \in Channels, Reaper!Poll(c) PROVE Reaper!TypeOK'
  BY <1>9 DEF Reaper!Poll
<1>10. ASSUME NEW c \in Channels, Reaper!PollEnds(c) PROVE Reaper!TypeOK'
  BY <1>10 DEF Reaper!PollEnds
<1>11. ASSUME NEW c \in Channels, Reaper!ShutDown(c) PROVE Reaper!TypeOK'
  BY <1>11 DEF Reaper!ShutDown
<1>12. ASSUME NEW c \in Channels, Reaper!CrashChannel(c) PROVE Reaper!TypeOK'
  BY <1>12 DEF Reaper!CrashChannel
<1>13. CASE Reaper!ReapExpiredHeartbeats
  BY <1>13 DEF Reaper!ReapExpiredHeartbeats
<1>14. CASE Reaper!TimeStep
  BY <1>14 DEF Reaper!TimeStep
<1>15. CASE UNCHANGED Reaper!vars
  BY <1>15 DEF Reaper!vars
<1> QED
  BY <1>1, <1>2, <1>3, <1>4, <1>5, <1>6, <1>7, <1>8, <1>9, <1>10, <1>11, <1>12, <1>13, <1>14, <1>15
     DEF Reaper!Next

LEMMA ReaperIsTyped == Reaper!Spec => []Reaper!TypeOK
<1>1. Reaper!Init => Reaper!TypeOK
  BY ReaperAssumption DEF Reaper!Init, Reaper!TypeOK, Reaper!None, Reaper!LongIdle, Reaper!Larger
<1> QED
  BY <1>1, ReaperTypeStep, PTL DEF Reaper!Spec

(* The socket.  A connection that had a handler is closed to further data, *)
(* so that it has one handler, and its result, if any, is that handler's.  *)
CallServes(c) ==
    /\ dispatched[c] \in {0, 1} /\ running[c] <= dispatched[c]
    /\ dispatched[c] = 1 => admitted[c] /\ asked[c] \in {"done", "throws", "stop"}
    /\ reply[c] = "result" => dispatched[c] = 1 /\ asked[c] \in {"done", "stop"}
    /\ client[c] = "resolved" => reply[c] = "result" /\ link[c] # "open"

CallInv == Call!TypeOK /\ \A c \in Calls : CallServes(c)

LEMMA CallStep ==
    ASSUME CallInv, [Call!Next]_(Call!vars)
    PROVE  CallInv'
<1>0. MaxBytes \in Nat /\ MaxFaults \in Nat
  BY CallAssumption, DaemonAssumption
<1> USE <1>0 DEF CallInv, CallServes, Call!TypeOK, Call!Kinds, Call!Respond, Call!Listens
<1>1. ASSUME NEW c \in Calls, Call!Connect(c) PROVE CallInv'
  BY <1>1 DEF Call!Connect, Call!server
<1>2. ASSUME NEW c \in Calls, Call!Chunk(c) PROVE CallInv'
  <2>1. PICK n \in 1 .. ahead[c] :
          /\ ahead' = [ahead EXCEPT ![c] = @ - n]
          /\ IF bytes[c] + n > MaxBytes
             THEN /\ admitted' = [admitted EXCEPT ![c] = TRUE] /\ bytes' = bytes
                  /\ reply' = [reply EXCEPT ![c] = IF link[c] = "open" THEN "error" ELSE @]
                  /\ link' = [link EXCEPT ![c] = IF @ = "open" THEN "ended" ELSE @]
             ELSE /\ bytes' = [bytes EXCEPT ![c] = @ + n]
                  /\ admitted' = admitted /\ reply' = reply /\ link' = link
    BY <1>2 DEF Call!Chunk
  <2>2. /\ UNCHANGED <<asked, behind, running, dispatched, client, server, kills>>
        /\ link[c] = "open"
    BY <1>2 DEF Call!Chunk
  <2>3. Call!TypeOK'
    <3>1. ahead[c] \in 0 .. (MaxBytes + 1) /\ ahead[c] - n \in 0 .. (MaxBytes + 1)
      OBVIOUS
    <3>2. CASE bytes[c] + n > MaxBytes
      BY <2>1, <2>2, <3>1, <3>2
    <3>3. CASE ~(bytes[c] + n > MaxBytes)
      <4>1. bytes[c] + n \in 0 .. MaxBytes
        BY <3>3
      <4>2. bytes' = [bytes EXCEPT ![c] = bytes[c] + n]
        BY <2>1, <3>3
      <4>3. bytes' \in [Calls -> 0 .. MaxBytes]
        BY <4>1, <4>2
      <4> QED
        BY <2>1, <2>2, <3>1, <3>3, <4>3
    <3> QED
      BY <3>2, <3>3
  <2>4. \A d \in Calls : CallServes(d)'
    BY <2>1, <2>2
  <2> QED
    BY <2>3, <2>4
<1>3. ASSUME NEW c \in Calls, Call!Frame(c) PROVE CallInv'
  <2>1. /\ UNCHANGED <<asked, client, server, kills>>
        /\ link[c] = "open" /\ ~admitted[c]
        /\ admitted' = [admitted EXCEPT ![c] = TRUE]
        /\ bytes' = [bytes EXCEPT ![c] = 0]
    BY <1>3 DEF Call!Frame
  <2>2. dispatched[c] = 0 /\ running[c] = 0
    BY <2>1
  <2>3. /\ ahead' \in [Calls -> 0 .. (MaxBytes + 1)] /\ behind' \in [Calls -> BOOLEAN]
        /\ bytes' \in [Calls -> 0 .. MaxBytes] /\ admitted' \in [Calls -> BOOLEAN]
    <3>1. 0 \in 0 .. MaxBytes /\ 0 \in 0 .. (MaxBytes + 1)
      OBVIOUS
    <3>2. bytes' \in [Calls -> 0 .. MaxBytes] /\ admitted' \in [Calls -> BOOLEAN]
      BY <2>1, <3>1
    <3>3. \/ ahead' = [ahead EXCEPT ![c] = 0] /\ behind' = behind
          \/ behind' = [behind EXCEPT ![c] = FALSE] /\ ahead' = ahead
      BY <1>3 DEF Call!Frame
    <3> QED
      BY <3>1, <3>2, <3>3
  <2>4. CASE asked[c] \in {"malformed", "overlimit"}
    <3>1. /\ reply' = [reply EXCEPT ![c] = "error"] /\ link' = [link EXCEPT ![c] = "ended"]
          /\ running' = running /\ dispatched' = dispatched
      BY <1>3, <2>1, <2>4 DEF Call!Frame
    <3>2. Call!TypeOK'
      BY <2>1, <2>3, <3>1
    <3>3. \A d \in Calls : CallServes(d)'
      BY <2>1, <3>1
    <3> QED
      BY <3>2, <3>3
  <2>5. CASE asked[c] \notin {"malformed", "overlimit"}
    <3>1. /\ running' = [running EXCEPT ![c] = 1] /\ dispatched' = [dispatched EXCEPT ![c] = 1]
          /\ reply' = reply /\ link' = link
      BY <1>3, <2>2, <2>5 DEF Call!Frame
    <3>2. Call!TypeOK'
      BY <2>1, <2>3, <3>1
    <3>3. \A d \in Calls : CallServes(d)'
      BY <2>1, <2>2, <2>5, <3>1
    <3> QED
      BY <3>2, <3>3
  <2> QED
    BY <2>4, <2>5
<1>4. ASSUME NEW c \in Calls, Call!Handle(c) PROVE CallInv'
  BY <1>4 DEF Call!Handle
<1>5. ASSUME NEW c \in Calls, Call!Settle(c) PROVE CallInv'
  BY <1>5 DEF Call!Settle, Call!server
<1>6. ASSUME NEW c \in Calls, Call!GiveUp(c) PROVE CallInv'
  BY <1>6 DEF Call!GiveUp
<1>7. CASE Call!DaemonDies
  BY <1>7 DEF Call!DaemonDies
<1>8. CASE UNCHANGED Call!vars
  BY <1>8 DEF Call!vars
<1> QED
  BY <1>1, <1>2, <1>3, <1>4, <1>5, <1>6, <1>7, <1>8 DEF Call!Next

(* One connection runs one request, whatever chunks and further frames     *)
(* arrive and whoever gives up or dies; a client that is told of success   *)
(* had its request run, once, by a handler that did not throw.             *)
THEOREM RequestsRunOnce ==
    Call!Spec => [](Call!TypeOK /\ Call!OneRequestPerConnection /\ Call!ResultsAreEarned)
<1>1. Call!Init => CallInv
  BY CallAssumption, DaemonAssumption DEF Call!Init, CallInv, CallServes, Call!TypeOK, Call!Kinds
<1>2. CallInv => Call!TypeOK /\ Call!OneRequestPerConnection /\ Call!ResultsAreEarned
  BY DEF CallInv, CallServes, Call!OneRequestPerConnection, Call!ResultsAreEarned
<1> QED
  BY <1>1, <1>2, CallStep, PTL DEF Call!Spec

(* A command.  Only the events of a leader that ended settle the promise   *)
(* with its code, and once it is settled only the SIGKILL timer is armed.  *)
CommandInv ==
    /\ Command!TypeOK
    /\ died # "no" => "leader" \notin alive
    /\ "exit" \in heard \/ "closeFallback" \in armed => died # "no"

LEMMA CommandStep ==
    ASSUME CommandInv, [Command!Next]_(Command!vars)
    PROVE  CommandInv'
<1> USE DEF CommandInv, Command!TypeOK, Command!Members, Command!Timers, Command!Finish,
            Command!ResolveFromExit, Command!Kill
<1>1. CASE Command!SpawnError
  BY <1>1 DEF Command!SpawnError
<1>2. CASE Command!ExitEvent
  BY <1>2 DEF Command!ExitEvent
<1>3. CASE Command!CloseEvent
  BY <1>3 DEF Command!CloseEvent
<1>4. CASE Command!WallClockFires
  BY <1>4 DEF Command!WallClockFires
<1>5. CASE Command!SigkillFires
  BY <1>5 DEF Command!SigkillFires
<1>6. CASE Command!FallbackFires
  BY <1>6 DEF Command!FallbackFires
<1>7. CASE Command!HelperEnds
  BY <1>7 DEF Command!HelperEnds
<1>8. ASSUME NEW how \in {"code", "signal"}, Command!LeaderEnds(how) PROVE CommandInv'
  BY <1>8 DEF Command!LeaderEnds
<1>9. CASE UNCHANGED Command!vars
  BY <1>9 DEF Command!vars
<1> QED
  BY <1>1, <1>2, <1>3, <1>4, <1>5, <1>6, <1>7, <1>8, <1>9
     DEF Command!Next, Command!Events, Command!TimersFire

(* A command's result is the exit code of a leader that ended by itself    *)
(* before the wall clock ran out, and nothing but the SIGKILL of a group   *)
(* that timed out outlives the promise (command-poll, runCommand).         *)
THEOREM ResultsAreExits == Command!Spec => []Command!TypeOK
<1>1. Command!Init => CommandInv
  BY DEF Command!Init, CommandInv, Command!TypeOK, Command!Members, Command!Timers
<1>2. CommandInv => Command!TypeOK
  BY DEF CommandInv
<1> QED
  BY <1>1, <1>2, CommandStep, PTL DEF Command!Spec

(* A fetch.  Where it is says how much was read; an abort has the deadline *)
(* or the outside behind it until the body is refused.                     *)
FetchInv ==
    /\ Fetch!TypeOK
    /\ phase = "fetch" => total = 0
    /\ phase = "read" => total <= Cap
    /\ phase = "refuse" => Fetch!TooLong
    /\ phase = "drain" => total > Cap
    /\ phase \in {"fetch", "read"} /\ aborted => timer = "fired" \/ outside
    /\ answer # "none" => phase = "done"
    /\ Fetch!OutcomeIsTrue

LEMMA FetchStep ==
    ASSUME FetchInv, [Fetch!Next]_(Fetch!vars)
    PROVE  FetchInv'
<1> USE FetchAssumption DEF FetchInv, Fetch!TypeOK, Fetch!OutcomeIsTrue, Fetch!TooLong, Fetch!Sizes,
            Fetch!Absent, Fetch!Settle, Fetch!Rejection, Fetch!request
<1>1. CASE Fetch!TimerFires
  BY <1>1 DEF Fetch!TimerFires
<1>2. CASE Fetch!OutsideAborts
  BY <1>2 DEF Fetch!OutsideAborts
<1>3. CASE Fetch!Headers
  <2>1. /\ UNCHANGED <<timer, outside, readBody, declared, size, total, keeps, answer>>
        /\ phase = "fetch" /\ aborted = FALSE /\ phase' \in {"skip", "refuse", "read"}
        /\ phase' = "refuse" => declared > Cap
        /\ phase' # "refuse" => aborted' = FALSE
        /\ aborted' \in BOOLEAN
    BY <1>3 DEF Fetch!Headers
  <2>2. answer = "none"
    BY <2>1
  <2>3. phase' = "read" => total <= Cap
    BY <1>3 DEF Fetch!Headers
  <2> QED
    BY <2>1, <2>2, <2>3
<1>4. CASE Fetch!Rejects
  BY <1>4 DEF Fetch!Rejects
<1>5. CASE Fetch!Skip
  BY <1>5 DEF Fetch!Skip
<1>6. CASE Fetch!Oversize
  <2>1. /\ UNCHANGED <<outside, aborted, readBody, declared, size, total>>
        /\ phase \in {"refuse", "drain"} /\ phase' = "done" /\ answer' = "oversize"
        /\ keeps' = FALSE /\ timer' \in {"armed", "fired", "cleared"}
    BY <1>6 DEF Fetch!Oversize
  <2>2. size > Cap \/ declared > Cap
    <3>1. total <= size /\ total \in Int /\ size \in Int
      OBVIOUS
    <3> QED
      BY <2>1, <3>1
  <2> QED
    BY <2>1, <2>2
<1>7. CASE Fetch!End
  BY <1>7 DEF Fetch!End
<1>8. ASSUME NEW n \in 1 .. 2, Fetch!Chunk(n) PROVE FetchInv'
  <2>1. /\ UNCHANGED <<timer, outside, readBody, declared, size, keeps, answer>>
        /\ phase = "read" /\ total + n <= size /\ total' = total + n
        /\ IF total' > Cap THEN phase' = "drain" /\ aborted' = TRUE
           ELSE phase' = "read" /\ aborted' = aborted
    BY <1>8 DEF Fetch!Chunk
  <2>2. answer = "none" /\ total' \in 0 .. size
    BY <2>1
  <2>3. CASE total' > Cap
    BY <2>1, <2>2, <2>3
  <2>4. CASE ~(total' > Cap)
    <3>1. total' <= Cap
      BY <2>2, <2>4
    <3> QED
      BY <2>1, <2>2, <2>4, <3>1
  <2> QED
    BY <2>3, <2>4
<1>9. CASE Fetch!Done \/ UNCHANGED Fetch!vars
  BY <1>9 DEF Fetch!Done, Fetch!vars
<1> QED
  BY <1>1, <1>2, <1>3, <1>4, <1>5, <1>6, <1>7, <1>8, <1>9 DEF Fetch!Next

(* For any cap: a body is whole and within it, an oversize is a real or    *)
(* declared one, a timeout had a deadline or a cancellation behind it.     *)
THEOREM OutcomesAreTrue == Fetch!Spec => [](Fetch!TypeOK /\ Fetch!OutcomeIsTrue)
<1>1. Fetch!Init => FetchInv
  BY FetchAssumption
     DEF Fetch!Init, FetchInv, Fetch!TypeOK, Fetch!OutcomeIsTrue, Fetch!Sizes, Fetch!Absent
<1>2. FetchInv => Fetch!TypeOK /\ Fetch!OutcomeIsTrue
  BY DEF FetchInv
<1> QED
  BY <1>1, <1>2, FetchStep, PTL DEF Fetch!Spec

(* A file that is replaced.  A process that creates its temporary file     *)
(* finds an inode nobody uses: there are more of them than names and open  *)
(* descriptors, of which it has neither.                                   *)
LEMMA FewValues ==
    ASSUME NEW S, IsFiniteSet(S), NEW f
    PROVE  IsFiniteSet({f[x] : x \in S}) /\ Cardinality({f[x] : x \in S}) <= Cardinality(S)
<1> DEFINE g == [x \in S |-> f[x]]
           T == {f[x] : x \in S}
<1>1. g \in Surjection(S, T)
  BY DEF Surjection
<1> HIDE DEF g, T
<1>2. IsFiniteSet(T) /\ Cardinality(T) <= Cardinality(S)
  BY <1>1, FS_Surjection
<1> QED
  BY <1>2 DEF T

LEMMA FileCardinality == \A S : File!Cardinality(S) = Cardinality(S)
BY DEF File!Cardinality, Cardinality

Holding == {"write", "rename"}

\* What a lone writer has read and made of it.
AloneInv == \A p \in Writers \ met : place[p] # "idle" =>
    /\ \A q \in Writers : place[q] # "idle" => q = p
    /\ own /\ target # File!None => content[target] <= known[p]
    /\ place[p] \in Holding => tmp[File!Path(p)] = fd[p]
    /\ place[p] = "rename" => content[fd[p]] = known[p]

FileInv ==
    /\ File!TypeOK /\ visits \in Nat
    /\ \A p \in Writers : (fd[p] # File!None) = (place[p] \in Holding)
    /\ own => \A p \in Writers :
         /\ known[p] <= db
         /\ place[p] \in Holding => tmp[p] = fd[p]
         /\ place[p] = "rename" => content[fd[p]] <= db
    /\ own /\ target # File!None => content[target] <= db
    /\ AloneInv

LEMMA FreshExists ==
    ASSUME FileInv, NEW p \in Writers, place[p] = "create", tmp[File!Path(p)] = File!None
    PROVE  File!Fresh \in File!Inodes /\ File!Fresh \notin File!InUse
<1> DEFINE n == Cardinality(Writers)
           Paths == File!Paths \ {File!Path(p)}
           Rest == Writers \ {p}
           A == {tmp[x] : x \in Paths}
           B == {fd[q] : q \in Rest}
           U == {target} \cup A \cup B
<1>1. n \in Nat /\ IsFiniteSet(Rest) /\ Cardinality(Rest) = n - 1
  BY FileAssumption, FS_CardinalityType, FS_RemoveElement
<1>2. IsFiniteSet(Paths) /\ Cardinality(Paths) <= n
  <2>1. /\ IsFiniteSet(File!Paths)
        /\ Cardinality(File!Paths) = n \/ Cardinality(File!Paths) = n + 1
    BY FileAssumption, FS_AddElement DEF File!Paths
  <2>2. File!Path(p) \in File!Paths
    BY DEF File!Path, File!Paths
  <2>3. /\ IsFiniteSet(Paths)
        /\ Cardinality(Paths) = Cardinality(File!Paths) - 1
    BY <2>1, <2>2, FS_RemoveElement
  <2> HIDE DEF n, Paths
  <2> QED
    BY <1>1, <2>1, <2>3
<1>3. /\ IsFiniteSet(A) /\ Cardinality(A) <= n
      /\ IsFiniteSet(B) /\ Cardinality(B) <= n - 1
  <2>1. IsFiniteSet(A) /\ Cardinality(A) <= Cardinality(Paths) /\ Cardinality(A) \in Nat
    BY <1>2, FewValues, FS_CardinalityType
  <2>2. IsFiniteSet(B) /\ Cardinality(B) <= Cardinality(Rest) /\ Cardinality(B) \in Nat
    BY <1>1, FewValues, FS_CardinalityType
  <2>3. Cardinality(Paths) \in Nat
    BY <1>2, FS_CardinalityType
  <2> HIDE DEF A, B, Paths, Rest, n
  <2> QED
    BY <1>1, <1>2, <2>1, <2>2, <2>3
<1>4. IsFiniteSet(U) /\ Cardinality(U) <= 2 * n
  <2> HIDE DEF A, B
  <2>1. IsFiniteSet({target} \cup A) /\ Cardinality({target} \cup A) <= n + 1
    <3> DEFINE D == A \cup {target}
    <3>1. {target} \cup A = D
      OBVIOUS
    <3>2. IsFiniteSet(D) /\ (Cardinality(D) = Cardinality(A) \/ Cardinality(D) = Cardinality(A) + 1)
      BY <1>3, FS_AddElement
    <3>3. Cardinality(A) \in Nat
      BY <1>3, FS_CardinalityType
    <3> HIDE DEF D, n
    <3>4. Cardinality(D) <= n + 1
      BY <1>1, <1>3, <3>2, <3>3
    <3> QED
      BY <3>1, <3>2, <3>4
  <2> DEFINE C == {target} \cup A
  <2>2. /\ Cardinality(C) \in Nat /\ Cardinality(B) \in Nat
        /\ Cardinality(C \cap B) \in Nat
        /\ IsFiniteSet(C \cup B)
        /\ Cardinality(C \cup B) = Cardinality(C) + Cardinality(B) - Cardinality(C \cap B)
    <3>1. IsFiniteSet(C \cap B)
      <4>1. C \cap B \in SUBSET B
        OBVIOUS
      <4> QED
        BY <1>3, <4>1, FS_Subset
    <3>2. IsFiniteSet(C)
      BY <2>1
    <3> HIDE DEF C
    <3> QED
      BY <1>3, <3>1, <3>2, FS_Union, FS_CardinalityType
  <2>3. U = C \cup B /\ Cardinality(C) <= n + 1
    BY <2>1
  <2> HIDE DEF C, U, n
  <2> QED
    BY <1>1, <1>3, <2>2, <2>3
<1>5. File!InUse \subseteq U \cup {File!None}
  <2>1. fd[p] = File!None
    BY DEF FileInv, Holding
  <2> QED
    BY <2>1 DEF File!InUse
<1>6. IsFiniteSet(File!Inodes) /\ Cardinality(File!Inodes) = 2 * n + 1
  <2>1. File!Inodes = 1 .. 2 * n + 1
    BY FileCardinality DEF File!Inodes
  <2> HIDE DEF n
  <2> DEFINE m == 2 * n + 1
  <2>2. m \in Int /\ ~(1 > m) /\ m - 1 + 1 = m
    BY <1>1
  <2>3. File!Inodes = 1 .. m
    BY <2>1
  <2> HIDE DEF m
  <2>4. IsFiniteSet(1 .. m) /\ Cardinality(1 .. m) = m
    BY <2>2, FS_Interval
  <2>5. IsFiniteSet(File!Inodes) /\ Cardinality(File!Inodes) = m
    BY <2>3, <2>4
  <2> QED
    BY <2>5 DEF m
<1>7. \E i \in File!Inodes : i \notin File!InUse
  <2>1. File!None \notin File!Inodes
    BY <1>1 DEF File!None, File!Inodes
  <2>2. SUFFICES ASSUME File!Inodes \subseteq File!InUse PROVE FALSE
    OBVIOUS
  <2>3. File!Inodes \in SUBSET U
    BY <1>5, <2>1, <2>2
  <2> HIDE DEF U
  <2>4. Cardinality(File!Inodes) <= Cardinality(U) /\ Cardinality(U) \in Nat
    BY <1>4, <2>3, FS_Subset, FS_CardinalityType
  <2> HIDE DEF n
  <2> QED
    BY <1>1, <1>4, <1>6, <2>4
<1> QED
  BY <1>7 DEF File!Fresh

\* When a process is at it, a lone writer is that process.
LEMMA LoneWriter ==
    ASSUME FileInv, NEW p \in Writers, place[p] # "idle", NEW q \in Writers \ met, place[q] # "idle"
    PROVE  q = p
BY DEF FileInv, AloneInv

LEMMA FileBegins ==
    ASSUME FileInv, NEW p \in Writers, NEW v \in 0 .. MaxChanges, File!Begins(p, v),
           db' \in 0 .. MaxChanges, db <= db', visits' \in Nat,
           own => v <= db' /\ (target # File!None => content[target] <= v)
    PROVE  FileInv'
<1>0. MaxChanges \in Nat /\ File!None \notin File!Inodes
  BY FileAssumption, FS_CardinalityType DEF File!None, File!Inodes
<1>1. /\ place[p] = "idle" /\ place' = [place EXCEPT ![p] = "remove"]
      /\ known' = [known EXCEPT ![p] = v]
      /\ met' = IF File!Writing = {} THEN {} ELSE File!Writing \cup {p}
      /\ UNCHANGED <<own, fd, tmp, target, content>>
  BY DEF File!Begins, File!Goto, File!disk
<1>2. File!TypeOK'
  BY <1>1 DEF FileInv, File!TypeOK, File!Writing
<1>3. \A q \in Writers : place'[q] \in Holding => place'[q] = place[q] /\ q # p
  BY <1>1 DEF FileInv, File!TypeOK, Holding
<1>4. \A q \in Writers : (fd'[q] # File!None) = (place'[q] \in Holding)
  BY <1>1 DEF FileInv, File!TypeOK, Holding
<1>5. own' => \A q \in Writers :
         /\ known'[q] <= db'
         /\ place'[q] \in Holding => tmp'[q] = fd'[q]
         /\ place'[q] = "rename" => content'[fd'[q]] <= db'
  <2> SUFFICES ASSUME own, NEW q \in Writers
               PROVE  /\ known'[q] <= db'
                      /\ place'[q] \in Holding => tmp'[q] = fd'[q]
                      /\ place'[q] = "rename" => content'[fd'[q]] <= db'
    BY <1>1
  <2>1. known[q] <= db /\ known[q] \in Nat /\ db \in Nat /\ db' \in Nat /\ v \in Nat
    BY <1>0 DEF FileInv, File!TypeOK
  <2>2. known'[q] <= db'
    BY <1>1, <2>1 DEF FileInv, File!TypeOK
  <2>3. ASSUME place'[q] = "rename" PROVE content'[fd'[q]] <= db'
    <3>1. place[q] = "rename" /\ content[fd[q]] <= db /\ fd[q] \in File!Inodes
      BY <1>3, <2>3 DEF FileInv, File!TypeOK, Holding
    <3>2. content[fd[q]] \in Nat
      BY <3>1, <1>0 DEF FileInv, File!TypeOK, File!Empty
    <3> QED
      BY <1>1, <2>1, <3>1, <3>2
  <2> QED
    BY <1>1, <1>3, <2>2, <2>3 DEF FileInv
<1>6. own' /\ target' # File!None => content'[target'] <= db'
  <2> SUFFICES ASSUME own, target # File!None PROVE content[target] <= db'
    BY <1>1
  <2>1. content[target] \in Nat /\ content[target] <= db /\ db \in Nat /\ db' \in Nat
    BY <1>0 DEF FileInv, File!TypeOK, File!Empty
  <2> QED
    BY <2>1
<1>7. AloneInv'
  <2>1. CASE File!Writing = {}
    <3>1. \A q \in Writers : place'[q] # "idle" => q = p
      BY <1>1, <2>1 DEF File!Writing, FileInv, File!TypeOK
    <3>2. place'[p] = "remove" /\ known'[p] = v
      BY <1>1 DEF FileInv, File!TypeOK
    <3> QED
      BY <1>1, <3>1, <3>2 DEF AloneInv, Holding
  <2>2. CASE File!Writing # {}
    <3>1. \A q \in Writers \ met' : place'[q] = "idle"
      BY <1>1, <2>2 DEF File!Writing, FileInv, File!TypeOK
    <3> QED
      BY <3>1 DEF AloneInv
  <2> QED
    BY <2>1, <2>2
<1> QED
  BY <1>2, <1>4, <1>5, <1>6, <1>7 DEF FileInv

\* A process gives up, or goes on to what needs no file of its own.
LEMMA FileGoesOn ==
    ASSUME FileInv, NEW p \in Writers, place[p] # "idle", NEW l \in {"idle", "create"},
           place' = [place EXCEPT ![p] = l], fd' = [fd EXCEPT ![p] = File!None],
           tmp' \in [File!Paths -> File!Inodes \cup {File!None}],
           own => \A q \in Writers : q # p => tmp'[q] = tmp[q],
           UNCHANGED <<own, db, known, met>>, visits' \in Nat, content' = content,
           target' \in File!Inodes \cup {File!None},
           own /\ target' # File!None => content[target'] <= db,
           l = "create" => target' = target
    PROVE  FileInv'
<1> USE DEF FileInv, File!TypeOK, Holding
<1>1. File!TypeOK'
  OBVIOUS
<1>2. \A q \in Writers : q # p => place'[q] = place[q] /\ fd'[q] = fd[q]
  OBVIOUS
<1>3. place'[p] = l /\ fd'[p] = File!None
  OBVIOUS
<1>4. \A q \in Writers : (fd'[q] # File!None) = (place'[q] \in Holding)
  BY <1>2, <1>3
<1>5. own' => \A q \in Writers :
         /\ known'[q] <= db'
         /\ place'[q] \in Holding => tmp'[q] = fd'[q]
         /\ place'[q] = "rename" => content'[fd'[q]] <= db'
  BY <1>2, <1>3
<1>6. AloneInv'
  <2> SUFFICES ASSUME NEW q \in Writers \ met, place'[q] # "idle"
               PROVE  /\ \A r \in Writers : place'[r] # "idle" => r = q
                      /\ own /\ target' # File!None => content[target'] <= known[q]
                      /\ place'[q] \in Holding => tmp'[File!Path(q)] = fd'[q]
                      /\ place'[q] = "rename" => content[fd'[q]] = known[q]
    BY DEF AloneInv, File!Path
  <2>1. place[q] # "idle"
    BY <1>2
  <2>2. q = p
    BY <2>1, LoneWriter
  <2>3. l = "create"
    BY <1>3, <2>2
  <2>4. \A r \in Writers : place[r] # "idle" => r = p
    BY <2>1, <2>2 DEF AloneInv
  <2>5. own /\ target # File!None => content[target] <= known[p]
    BY <2>1, <2>2 DEF AloneInv
  <2> QED
    BY <1>2, <1>3, <2>2, <2>3, <2>4, <2>5
<1> QED
  BY <1>1, <1>4, <1>5, <1>6

LEMMA FileStep ==
    ASSUME FileInv, [File!Next]_(File!vars)
    PROVE  FileInv'
<1>0. MaxChanges \in Nat /\ File!None \notin File!Inodes
  BY FileAssumption, FS_CardinalityType DEF File!None, File!Inodes
<1>1. CASE File!Change
  <2>1. /\ ~own /\ db' \in 0 .. MaxChanges
        /\ UNCHANGED <<own, place, known, fd, tmp, target, content, visits, met>>
    BY <1>0, <1>1 DEF File!Change, File!disk, FileInv, File!TypeOK
  <2> QED
    BY <2>1 DEF FileInv, File!TypeOK, AloneInv, File!Path, Holding, File!Empty
<1>2. CASE File!Reaped
  <2>1. target' = File!None /\ UNCHANGED <<own, db, place, known, fd, tmp, content, visits, met>>
    BY <1>2 DEF File!Reaped
  <2> QED
    BY <2>1 DEF FileInv, File!TypeOK, AloneInv, File!Path, Holding, File!Empty
<1>3. ASSUME NEW p \in Writers, File!Refresh(p) PROVE FileInv'
  <2>1. ~own /\ File!Begins(p, db) /\ db' = db /\ visits' \in Nat
    BY <1>3 DEF File!Refresh, File!Visit, FileInv
  <2>2. db \in 0 .. MaxChanges /\ db <= db
    BY <1>0 DEF FileInv, File!TypeOK
  <2> QED
    BY <2>1, <2>2, FileBegins
<1>4. ASSUME NEW p \in Writers, File!Beat(p) PROVE FileInv'
  <2>1. own /\ File!Begins(p, File!LastDelivery) /\ db' = db /\ visits' \in Nat
    BY <1>4 DEF File!Beat, FileInv
  <2>2. db \in 0 .. MaxChanges /\ db <= db /\ 0 <= db
    BY <1>0 DEF FileInv, File!TypeOK
  <2>3. target # File!None =>
          content[target] \in Nat /\ content[target] <= db /\ content[target] # File!Empty
    BY <1>0, <2>1, <2>2 DEF FileInv, File!TypeOK, File!Empty
  <2>4. /\ File!LastDelivery \in 0 .. MaxChanges /\ File!LastDelivery <= db
        /\ target # File!None => content[target] <= File!LastDelivery
    BY <1>0, <2>2, <2>3 DEF File!LastDelivery
  <2> QED
    BY <2>1, <2>2, <2>4, FileBegins
<1>5. ASSUME NEW p \in Writers, File!BeatsDelivery(p) PROVE FileInv'
  <2>1. own /\ File!Begins(p, db + 1) /\ db < MaxChanges /\ db' = db + 1 /\ visits' \in Nat
    BY <1>5 DEF File!BeatsDelivery, FileInv
  <2>2. db + 1 \in 0 .. MaxChanges /\ db \in Nat
    BY <1>0, <2>1 DEF FileInv, File!TypeOK
  <2>3. target # File!None => content[target] \in Nat /\ content[target] <= db
    BY <1>0, <2>1 DEF FileInv, File!TypeOK, File!Empty
  <2> HIDE DEF FileInv
  <2> DEFINE w == db + 1
  <2>4. /\ w \in 0 .. MaxChanges /\ w <= w /\ db <= w
        /\ target # File!None => content[target] <= w
    BY <2>2, <2>3
  <2>5. File!Begins(p, w) /\ db' = w
    BY <2>1
  <2> HIDE DEF w
  <2> QED
    BY <2>1, <2>4, <2>5, FileBegins
<1>6. ASSUME NEW p \in Writers, File!RemoveTemp(p) PROVE FileInv'
  <2>1. /\ tmp' = [tmp EXCEPT ![File!Path(p)] = File!None]
        /\ place[p] = "remove" /\ place' = [place EXCEPT ![p] = "create"]
        /\ UNCHANGED <<own, db, known, fd, target, content, visits, met>>
    BY <1>6 DEF File!RemoveTemp, File!Goto
  <2>2. tmp' \in [File!Paths -> File!Inodes \cup {File!None}]
    BY <2>1 DEF FileInv, File!TypeOK
  <2>3. fd' = [fd EXCEPT ![p] = File!None]
    <3>1. fd[p] = File!None /\ fd \in [Writers -> File!Inodes \cup {File!None}]
      BY <2>1 DEF FileInv, File!TypeOK, Holding
    <3> QED
      BY <2>1, <3>1
  <2>4. own => \A q \in Writers : q # p => tmp'[q] = tmp[q]
    BY <2>1 DEF File!Path, FileInv, File!TypeOK, File!Paths
  <2> QED
    BY <2>1, <2>2, <2>3, <2>4, FileGoesOn DEF FileInv, File!TypeOK
<1>7. ASSUME NEW p \in Writers, File!CreateFails(p) PROVE FileInv'
  <2>1. /\ place[p] = "create" /\ place' = [place EXCEPT ![p] = "idle"]
        /\ UNCHANGED <<own, db, known, fd, tmp, target, content, visits, met>>
    BY <1>7 DEF File!CreateFails, File!Goto, File!disk
  <2>2. fd' = [fd EXCEPT ![p] = File!None]
    <3>1. fd[p] = File!None /\ fd \in [Writers -> File!Inodes \cup {File!None}]
      BY <2>1 DEF FileInv, File!TypeOK, Holding
    <3> QED
      BY <2>1, <3>1
  <2> QED
    BY <2>1, <2>2, FileGoesOn DEF FileInv, File!TypeOK
<1>8. ASSUME NEW p \in Writers, File!Dies(p) PROVE FileInv'
  <2>1. /\ place[p] # "idle" /\ place' = [place EXCEPT ![p] = "idle"]
        /\ fd' = [fd EXCEPT ![p] = File!None] /\ visits' = visits + 1
        /\ UNCHANGED <<own, db, known, tmp, target, content, met>>
    BY <1>8 DEF File!Dies, File!Goto, File!disk, File!Visit
  <2>2. /\ visits' \in Nat /\ tmp' \in [File!Paths -> File!Inodes \cup {File!None}]
        /\ target' \in File!Inodes \cup {File!None}
        /\ own /\ target' # File!None => content[target'] <= db
    BY <2>1 DEF FileInv, File!TypeOK
  <2> QED
    BY <2>1, <2>2, FileGoesOn
<1>9. ASSUME NEW p \in Writers, File!Rename(p) PROVE FileInv'
  <2>1. /\ place[p] = "rename" /\ place' = [place EXCEPT ![p] = "idle"]
        /\ fd' = [fd EXCEPT ![p] = File!None]
        /\ UNCHANGED <<own, db, known, content, visits, met>>
        /\ IF tmp[File!Path(p)] = File!None
           THEN tmp' = tmp /\ target' = target
           ELSE /\ target' = tmp[File!Path(p)]
                /\ tmp' = [tmp EXCEPT ![File!Path(p)] = File!None]
    BY <1>9 DEF File!Rename, File!Goto
  <2>2. File!Path(p) \in File!Paths /\ (own => File!Path(p) = p)
    BY DEF File!Path, File!Paths
  <2>3. /\ tmp' \in [File!Paths -> File!Inodes \cup {File!None}]
        /\ target' \in File!Inodes \cup {File!None}
    BY <2>1, <2>2 DEF FileInv, File!TypeOK
  <2>4. own => \A q \in Writers : q # p => tmp'[q] = tmp[q]
    BY <2>1, <2>2 DEF FileInv, File!TypeOK, File!Paths
  <2>5. own /\ target' # File!None => content[target'] <= db
    BY <2>1, <2>2 DEF FileInv, Holding
  <2> QED
    BY <2>1, <2>3, <2>4, <2>5, FileGoesOn DEF FileInv
<1>10. ASSUME NEW p \in Writers, File!CreateTemp(p) PROVE FileInv'
  <2> DEFINE i == File!Fresh
  <2>1. /\ tmp' = [tmp EXCEPT ![File!Path(p)] = i] /\ fd' = [fd EXCEPT ![p] = i]
        /\ content' = [content EXCEPT ![i] = File!Empty]
        /\ place[p] = "create" /\ place' = [place EXCEPT ![p] = "write"]
        /\ UNCHANGED <<own, db, known, target, visits, met>>
    BY <1>10 DEF File!CreateTemp, File!Goto
  <2>2. i \in File!Inodes /\ i \notin File!InUse
    BY <1>10, FreshExists DEF File!CreateTemp
  <2> HIDE DEF i
  <2>3. target # i /\ \A q \in Writers : fd[q] # i
    BY <2>2 DEF File!InUse
  <2>4. File!Path(p) \in File!Paths /\ (own => File!Path(p) = p)
    BY DEF File!Path, File!Paths
  <2>5. File!TypeOK'
    <3>1. File!Empty \in 0 .. File!Empty
      BY <1>0 DEF File!Empty
    <3>2. /\ tmp' \in [File!Paths -> File!Inodes \cup {File!None}]
          /\ fd' \in [Writers -> File!Inodes \cup {File!None}]
          /\ content' \in [File!Inodes -> 0 .. File!Empty]
      BY <2>1, <2>2, <2>4, <3>1 DEF FileInv, File!TypeOK
    <3> QED
      BY <2>1, <3>2 DEF FileInv, File!TypeOK
  <2>6. /\ place'[p] = "write" /\ fd'[p] = i /\ tmp'[File!Path(p)] = i
        /\ \A q \in Writers : q # p => place'[q] = place[q] /\ fd'[q] = fd[q]
        /\ own => \A q \in Writers : q # p => tmp'[q] = tmp[q]
        /\ \A x \in File!Inodes : x # i => content'[x] = content[x]
    BY <2>1, <2>2, <2>4 DEF FileInv, File!TypeOK, File!Paths
  <2>7. \A q \in Writers : (fd'[q] # File!None) = (place'[q] \in Holding)
    BY <1>0, <2>2, <2>6 DEF FileInv, Holding
  <2>8. own => \A q \in Writers :
           /\ known[q] <= db
           /\ place'[q] \in Holding => tmp'[q] = fd'[q]
           /\ place'[q] = "rename" => content'[fd'[q]] <= db
    <3> SUFFICES ASSUME own, NEW q \in Writers
                 PROVE  /\ known[q] <= db
                        /\ place'[q] \in Holding => tmp'[q] = fd'[q]
                        /\ place'[q] = "rename" => content'[fd'[q]] <= db
      OBVIOUS
    <3>1. CASE q = p
      BY <2>4, <2>6, <3>1 DEF FileInv
    <3>2. CASE q # p
      <4>1. place'[q] = "rename" => fd[q] \in File!Inodes /\ fd[q] # i
        BY <1>0, <2>3, <2>6, <3>2 DEF FileInv, File!TypeOK, Holding
      <4> QED
        BY <2>6, <3>2, <4>1 DEF FileInv
    <3> QED
      BY <3>1, <3>2
  <2>9. own /\ target # File!None => content'[target] <= db
    BY <2>3, <2>6 DEF FileInv, File!TypeOK
  <2>10. AloneInv'
    <3> SUFFICES ASSUME NEW q \in Writers \ met, place'[q] # "idle"
                 PROVE  /\ \A r \in Writers : place'[r] # "idle" => r = q
                        /\ own /\ target # File!None => content'[target] <= known[q]
                        /\ place'[q] \in Holding => tmp'[File!Path(q)] = fd'[q]
                        /\ place'[q] = "rename" => content'[fd'[q]] = known[q]
      BY <2>1 DEF AloneInv, File!Path
    <3>1. place[q] # "idle" /\ q = p
      <4>1. place[q] # "idle"
        BY <2>1, <2>6
      <4> QED
        BY <2>1, <4>1, LoneWriter
    <3>2. /\ \A r \in Writers : place[r] # "idle" => r = p
          /\ own /\ target # File!None => content[target] <= known[p]
      BY <3>1 DEF FileInv, AloneInv
    <3>3. own /\ target # File!None => content'[target] = content[target]
      BY <2>3, <2>6 DEF FileInv, File!TypeOK
    <3> QED
      BY <2>6, <3>1, <3>2, <3>3
  <2> QED
    BY <2>1, <2>5, <2>7, <2>8, <2>9, <2>10 DEF FileInv
<1>11. ASSUME NEW p \in Writers, File!Write(p) PROVE FileInv'
  <2>1. /\ content' = [content EXCEPT ![fd[p]] = known[p]]
        /\ place[p] = "write" /\ place' = [place EXCEPT ![p] = "rename"]
        /\ UNCHANGED <<own, db, known, fd, tmp, target, visits, met>>
    BY <1>11 DEF File!Write, File!Goto
  <2>2. fd[p] \in File!Inodes /\ known[p] \in 0 .. File!Empty
    BY <1>0, <2>1 DEF FileInv, File!TypeOK, Holding, File!Empty
  <2>3. \A x \in File!Inodes : content'[x] = IF x = fd[p] THEN known[p] ELSE content[x]
    BY <2>1, <2>2 DEF FileInv, File!TypeOK
  <2>4. File!TypeOK'
    BY <2>1, <2>2 DEF FileInv, File!TypeOK
  <2>5. place'[p] = "rename" /\ \A q \in Writers : q # p => place'[q] = place[q]
    BY <2>1 DEF FileInv, File!TypeOK
  <2>6. \A q \in Writers : (fd'[q] # File!None) = (place'[q] \in Holding)
    BY <2>1, <2>5 DEF FileInv, Holding
  <2>7. own => \A q \in Writers :
           /\ known[q] <= db
           /\ place'[q] \in Holding => tmp[q] = fd[q]
           /\ place'[q] = "rename" => content'[fd[q]] <= db
    <3> SUFFICES ASSUME own, NEW q \in Writers
                 PROVE  /\ known[q] <= db
                        /\ place'[q] \in Holding => tmp[q] = fd[q]
                        /\ place'[q] = "rename" => content'[fd[q]] <= db
      OBVIOUS
    <3>1. place'[q] \in Holding => place[q] \in Holding
      BY <2>1, <2>5 DEF Holding
    <3>2. place'[q] = "rename" => fd[q] \in File!Inodes
      BY <3>1 DEF FileInv, File!TypeOK, Holding
    <3> QED
      BY <2>3, <2>5, <3>1, <3>2 DEF FileInv
  <2>8. own /\ target # File!None => content'[target] <= db
    BY <2>3 DEF FileInv, File!TypeOK
  <2>9. AloneInv'
    <3> SUFFICES ASSUME NEW q \in Writers \ met, place'[q] # "idle"
                 PROVE  /\ \A r \in Writers : place'[r] # "idle" => r = q
                        /\ own /\ target # File!None => content'[target] <= known[q]
                        /\ place'[q] \in Holding => tmp[File!Path(q)] = fd[q]
                        /\ place'[q] = "rename" => content'[fd[q]] = known[q]
      BY <2>1 DEF AloneInv, File!Path
    <3>1. place[q] # "idle" /\ q = p
      <4>1. place[q] # "idle"
        BY <2>1, <2>5
      <4> QED
        BY <2>1, <4>1, LoneWriter
    <3>2. /\ \A r \in Writers : place[r] # "idle" => r = p
          /\ own /\ target # File!None => content[target] <= known[p]
          /\ tmp[File!Path(p)] = fd[p]
      BY <2>1, <3>1 DEF FileInv, AloneInv, Holding
    <3>3. own /\ target # File!None => content'[target] \in {known[p], content[target]}
      BY <2>3 DEF FileInv, File!TypeOK
    <3>4. known[p] <= known[p]
      BY <1>0 DEF FileInv, File!TypeOK
    <3> QED
      BY <2>2, <2>3, <2>5, <3>1, <3>2, <3>3, <3>4
  <2> QED
    BY <2>1, <2>4, <2>6, <2>7, <2>8, <2>9 DEF FileInv
<1>12. CASE UNCHANGED File!vars
  BY <1>12 DEF File!vars, FileInv, File!TypeOK, AloneInv, File!Path
<1> QED
  BY <1>1, <1>2, <1>3, <1>4, <1>5, <1>6, <1>7, <1>8, <1>9, <1>10, <1>11, <1>12 DEF File!Next, File!Step

LEMMA FileInit == File!Init => FileInv
<1>1. MaxChanges \in Nat
  BY FileAssumption
<1> QED
  BY <1>1, FileAssumption
     DEF File!Init, FileInv, AloneInv, Holding, File!TypeOK, File!None, File!Empty

(* However many processes renew one heartbeat, and whichever of them die,  *)
(* no reader of it sees a file half written.                               *)
THEOREM HeartbeatsAreWhole == File!Spec => [](File!TypeOK /\ File!OwnNeverPartial)
<1>1. ASSUME FileInv PROVE File!TypeOK /\ File!OwnNeverPartial
  <2>1. MaxChanges \in Nat
    BY FileAssumption
  <2>2. own /\ target # File!None => content[target] <= MaxChanges /\ content[target] \in Nat
    BY <1>1, <2>1 DEF FileInv, File!TypeOK, File!Empty
  <2> QED
    BY <1>1, <2>1, <2>2 DEF FileInv, File!OwnNeverPartial, File!Empty
<1> QED
  BY <1>1, FileInit, FileStep, PTL DEF File!Spec

(* A write of a hook state or a heartbeat that no other overlaps is whole, *)
(* says what its process meant to say, and takes no delivery back that the *)
(* heartbeat before it told of: whatever processes died before, and        *)
(* whatever temporary files they left.                                     *)
THEOREM LoneWritesAreSound == File!Spec => [][File!SoundAlone]_(File!vars)
<1>1. ASSUME FileInv, File!Next PROVE File!SoundAlone
  <2> SUFFICES ASSUME NEW p \in Writers \ met, place[p] = "rename", place'[p] = "idle", visits' = visits
               PROVE  /\ target' # File!None /\ content'[target'] = known[p]
                      /\ own /\ target # File!None => content[target] <= content'[target']
    BY DEF File!SoundAlone
  <2>1. File!Rename(p)
    <3>1. visits + 1 # visits
      BY <1>1 DEF FileInv
    <3> QED
      BY <1>1, <3>1
         DEF File!Next, File!Change, File!Reaped, File!Refresh, File!Beat, File!BeatsDelivery,
             File!Begins, File!Step, File!RemoveTemp, File!CreateTemp, File!CreateFails, File!Write,
             File!Rename, File!Dies, File!Visit, File!Goto, FileInv, File!TypeOK
  <2>2. /\ tmp[File!Path(p)] = fd[p] /\ fd[p] # File!None /\ content[fd[p]] = known[p]
        /\ own /\ target # File!None => content[target] <= known[p]
    BY <1>1 DEF FileInv, AloneInv, Holding
  <2>3. target' = fd[p] /\ content' = content
    BY <2>1, <2>2 DEF File!Rename
  <2> QED
    BY <2>2, <2>3
<1>2. FileInv /\ [File!Next]_(File!vars) => [File!SoundAlone]_(File!vars)
  BY <1>1
<1> QED
  BY <1>2, FileInit, FileStep, PTL DEF File!Spec

(* The coordination file.  Who goes on to write a socket, or has read one  *)
(* to write back, does so because a daemon answered.                       *)
LocalInv ==
    /\ answers \in BOOLEAN
    /\ start \in [Hosts -> {"idle", "waiting", "marking", "answered", "wiring", "open"}]
    /\ local \in [enabled : BOOLEAN, bom : BOOLEAN, socket : BOOLEAN, failed : BOOLEAN]
    /\ mine \in [Hosts -> [enabled : BOOLEAN, bom : BOOLEAN, socket : BOOLEAN, failed : BOOLEAN]]
    /\ \A s \in Hosts : start[s] \in {"answered", "wiring"} \/ mine[s].socket => answers
    /\ Local!SocketWasAnswered

LEMMA LocalStep ==
    ASSUME LocalInv, [Local!Next]_(Local!vars)
    PROVE  LocalInv'
<1> DEFINE Files == [enabled : BOOLEAN, bom : BOOLEAN, socket : BOOLEAN, failed : BOOLEAN]
<1>0. Local!Absent \in Files /\ ~Local!Absent.socket
  BY DEF Local!Absent
<1> USE DEF LocalInv, Local!SocketWasAnswered, Local!Read, Local!project
<1>1. ASSUME NEW s \in Hosts, Local!Start(s) PROVE LocalInv'
  BY <1>0, <1>1 DEF Local!Start
<1>2. ASSUME NEW s \in Hosts, Local!Answered(s) PROVE LocalInv'
  BY <1>2 DEF Local!Answered
<1>3. ASSUME NEW s \in Hosts, Local!TimesOut(s) \/ Local!BeginPersist(s) PROVE LocalInv'
  <2>1. /\ local' = Local!Absent /\ UNCHANGED <<answers, mine>>
        /\ \/ start[s] = "waiting" /\ start' = [start EXCEPT ![s] = "marking"]
           \/ start[s] = "answered" /\ start' = [start EXCEPT ![s] = "wiring"]
    BY <1>3 DEF Local!TimesOut, Local!BeginPersist, Local!Truncates
  <2> QED
    BY <1>0, <2>1
<1>4. ASSUME NEW s \in Hosts, Local!MarkFailure(s) \/ Local!Persist(s) PROVE LocalInv'
  <2>1. PICK state \in Files : /\ local' = state /\ (state.socket => answers) /\ answers' = answers
                               /\ start' \in {[start EXCEPT ![s] = "idle"], [start EXCEPT ![s] = "open"]}
                               /\ mine' = [mine EXCEPT ![s] = Local!Absent]
    <3>1. CASE Local!MarkFailure(s)
      <4> DEFINE state == [mine[s] EXCEPT !.failed = TRUE]
      <4>1. state \in Files /\ state.socket = mine[s].socket
        OBVIOUS
      <4>2. /\ local' = state /\ start' = [start EXCEPT ![s] = "idle"]
            /\ mine' = [mine EXCEPT ![s] = Local!Absent] /\ answers' = answers
        BY <3>1 DEF Local!MarkFailure, Local!Writes
      <4> HIDE DEF state
      <4> QED
        BY <4>1, <4>2
    <3>2. CASE Local!Persist(s)
      <4> DEFINE state == [mine[s] EXCEPT !.failed = FALSE, !.socket = TRUE]
      <4>1. state \in Files
        OBVIOUS
      <4>2. /\ local' = state /\ start' = [start EXCEPT ![s] = "open"] /\ start[s] = "wiring"
            /\ mine' = [mine EXCEPT ![s] = Local!Absent] /\ answers' = answers
        BY <3>2 DEF Local!Persist, Local!Writes
      <4> HIDE DEF state
      <4> QED
        BY <4>1, <4>2
    <3> QED
      BY <1>4, <3>1, <3>2
  <2> QED
    BY <1>0, <2>1
<1>5. ASSUME NEW s \in Hosts, Local!OpenSession(s) PROVE LocalInv'
  BY <1>5 DEF Local!OpenSession
<1>6. ASSUME NEW s \in Hosts, Local!End(s) \/ Local!StartDies(s) PROVE LocalInv'
  <2>1. UNCHANGED <<local, answers>>
        /\ \/ UNCHANGED <<start, mine>>
           \/ /\ start' = [start EXCEPT ![s] = "idle"]
              /\ mine' = [mine EXCEPT ![s] = Local!Absent]
    BY <1>6 DEF Local!End, Local!StartDies
  <2> QED
    BY <1>0, <2>1
<1>7. CASE Local!ReadsState \/ Local!ReadsText \/ Local!BeginEnable \/ Local!Enable
  <2>1. /\ UNCHANGED <<answers, start, mine>>
        /\ local' \in {local, Local!Absent, [Local!Absent EXCEPT !.enabled = TRUE]}
    BY <1>7 DEF Local!ReadsState, Local!ReadsText, Local!BeginEnable, Local!Enable
  <2>2. /\ [Local!Absent EXCEPT !.enabled = TRUE] \in Files
        /\ ~[Local!Absent EXCEPT !.enabled = TRUE].socket
    BY DEF Local!Absent
  <2> QED
    BY <1>0, <2>1, <2>2
<1>8. CASE \/ Local!EnsureGitignore \/ Local!ScaffoldMonitor \/ Local!RunsInitAgain
           \/ Local!InitDies
  BY <1>8 DEF Local!EnsureGitignore, Local!ScaffoldMonitor, Local!RunsInitAgain, Local!InitDies,
              Local!Fault
<1>9. CASE Local!DaemonUp \/ Local!DaemonDown
  BY <1>9 DEF Local!DaemonUp, Local!DaemonDown, Local!Fault
<1>10. CASE Local!UserDisables
  <2>1. /\ UNCHANGED <<service, answers, start, mine, hosted, init, gitignore, monitor>>
        /\ local' = Local!Absent \/ local' = [local EXCEPT !.enabled = FALSE]
    BY <1>10 DEF Local!UserDisables
  <2>2. CASE local' = Local!Absent
    BY <1>0, <2>1, <2>2
  <2>3. CASE local' = [local EXCEPT !.enabled = FALSE]
    <3>1. /\ local' \in [enabled : BOOLEAN, bom : BOOLEAN, socket : BOOLEAN, failed : BOOLEAN]
          /\ local'.socket = local.socket
      BY <2>3
    <3> QED
      BY <2>1, <3>1
  <2> QED
    BY <2>1, <2>2, <2>3
<1>11. CASE UNCHANGED Local!vars
  BY <1>11 DEF Local!vars
<1> QED
  BY <1>1, <1>2, <1>3, <1>4, <1>5, <1>6, <1>7, <1>8, <1>9, <1>10, <1>11 DEF Local!Next

(* Whatever sessions, init, daemons and the user do: no hook is sent to a  *)
(* socket because a boot was merely attempted.                             *)
THEOREM SocketsWereAnswered == Local!Spec => []Local!SocketWasAnswered
<1>1. Local!Init => LocalInv
  <2> SUFFICES ASSUME Local!Init PROVE LocalInv
    OBVIOUS
  <2> USE DEF Local!Init, Local!Absent
  <2>1. \E e, b \in BOOLEAN :
          local = [enabled |-> e, bom |-> b, socket |-> FALSE, failed |-> FALSE]
    OBVIOUS
  <2>2. /\ local \in [enabled : BOOLEAN, bom : BOOLEAN, socket : BOOLEAN, failed : BOOLEAN]
        /\ ~local.socket
    BY <2>1
  <2> QED
    BY <2>2 DEF LocalInv, Local!SocketWasAnswered
<1>2. LocalInv => Local!SocketWasAnswered
  BY DEF LocalInv
<1> QED
  BY <1>1, <1>2, LocalStep, PTL DEF Local!Spec

(* init and the coordination file.  Where no session start wrote while     *)
(* init was at it, the file is what init found.                            *)
LookInv ==
    /\ start \in [Hosts -> {"idle", "waiting", "marking", "answered", "wiring", "open"}]
    /\ ~raced /\ init \in {"looked", "missing", "enabling"} =>
         /\ \A s \in Hosts : start[s] \notin {"wiring", "marking"}
         /\ init # "looked" => ~local.enabled

LEMMA LookStep ==
    ASSUME LookInv, [Local!Next]_(Local!vars)
    PROVE  LookInv' /\ [Local!InitKeeps]_(Local!vars)
<1> USE DEF LookInv, Local!InitKeeps, Local!project
<1>1. ASSUME NEW s \in Hosts, Local!TimesOut(s) \/ Local!BeginPersist(s)
      PROVE  LookInv' /\ Local!InitKeeps
  <2>1. /\ init' = init /\ raced' = (raced \/ init \in {"looked", "missing", "enabling"})
        /\ \E l \in {"wiring", "marking"} : start' = [start EXCEPT ![s] = l]
    BY <1>1 DEF Local!TimesOut, Local!BeginPersist, Local!Truncates
  <2> QED
    BY <2>1
<1>2. ASSUME NEW s \in Hosts, Local!MarkFailure(s) \/ Local!Persist(s)
      PROVE  LookInv' /\ Local!InitKeeps
  <2>1. /\ UNCHANGED <<init, raced>> /\ start[s] \in {"wiring", "marking"}
        /\ \E l \in {"idle", "open"} : start' = [start EXCEPT ![s] = l]
    BY <1>2 DEF Local!MarkFailure, Local!Persist, Local!Writes
  <2> QED
    BY <2>1
<1>3. ASSUME NEW s \in Hosts,
             Local!Start(s) \/ Local!Answered(s) \/ Local!OpenSession(s) \/ Local!End(s) \/ Local!StartDies(s)
      PROVE  LookInv' /\ Local!InitKeeps
  <2>1. /\ UNCHANGED <<init, raced, local>>
        /\ start' = start \/ \E l \in {"idle", "waiting", "answered"} : start' = [start EXCEPT ![s] = l]
    BY <1>3 DEF Local!Start, Local!Answered, Local!OpenSession, Local!End, Local!StartDies
  <2> QED
    BY <2>1
<1>4. CASE Local!ReadsState
  <2>1. /\ start' = start /\ local' = local /\ init' \in {"enabled", "looked"}
        /\ raced' = \E s \in Hosts : start[s] \in {"wiring", "marking"}
    BY <1>4 DEF Local!ReadsState
  <2> QED
    BY <2>1
<1>5. CASE Local!ReadsText \/ Local!BeginEnable \/ Local!Enable
  BY <1>5 DEF Local!ReadsText, Local!BeginEnable, Local!Enable, Local!Absent
<1>6. CASE Local!EnsureGitignore \/ Local!ScaffoldMonitor \/ Local!RunsInitAgain \/ Local!InitDies
  BY <1>6 DEF Local!EnsureGitignore, Local!ScaffoldMonitor, Local!RunsInitAgain, Local!InitDies
<1>7. CASE Local!DaemonUp \/ Local!DaemonDown
  BY <1>7 DEF Local!DaemonUp, Local!DaemonDown
<1>8. CASE Local!UserDisables
  <2>1. /\ UNCHANGED <<start, init, raced>> /\ local.enabled
        /\ local' \in {Local!Absent, [local EXCEPT !.enabled = FALSE]}
    BY <1>8 DEF Local!UserDisables
  <2> QED
    BY <2>1
<1>9. CASE UNCHANGED Local!vars
  BY <1>9 DEF Local!vars
<1> QED
  BY <1>1, <1>2, <1>3, <1>4, <1>5, <1>6, <1>7, <1>8, <1>9 DEF Local!Next

(* agentmonitors init never takes an enabled file for one that is not,     *)
(* byte order mark or not, and so takes no socket off it, unless a session *)
(* start wrote the file while init was at it.                              *)
THEOREM InitOverwritesNothing == Local!Spec => Local!InitKeepsWiring
<1>1. Local!Init => LookInv
  BY DEF Local!Init, LookInv
<1> QED
  BY <1>1, LookStep, PTL DEF Local!Spec, Local!InitKeepsWiring

(* What a client, a poll, a reader of a heartbeat or a hook learns of      *)
(* another process is true.                                                *)
THEOREM NobodyIsMisled ==
    \/ Spec /\ [](part = "daemon")
    \/ Reaper!Spec /\ [](part = "reaper")
    \/ Call!Spec /\ [](part = "call")
    \/ Command!Spec /\ [](part = "command")
    \/ Fetch!Spec /\ [](part = "fetch")
    \/ File!Spec /\ [](part = "file")
    \/ Local!Spec /\ [](part = "local")
    => []WhatIsToldIsTrue
<1>1. part = "daemon" /\ TypeOK => WhatIsToldIsTrue
  BY DEF WhatIsToldIsTrue, Types
<1>2. part = "reaper" /\ Reaper!TypeOK => WhatIsToldIsTrue
  BY DEF WhatIsToldIsTrue, Types
<1>3. part = "call" /\ Call!TypeOK /\ Call!OneRequestPerConnection /\ Call!ResultsAreEarned
      => WhatIsToldIsTrue
  BY DEF WhatIsToldIsTrue, Types
<1>4. part = "command" /\ Command!TypeOK => WhatIsToldIsTrue
  BY DEF WhatIsToldIsTrue, Types
<1>5. part = "fetch" /\ Fetch!TypeOK /\ Fetch!OutcomeIsTrue => WhatIsToldIsTrue
  BY DEF WhatIsToldIsTrue, Types
<1>6. part = "file" /\ File!TypeOK /\ File!OwnNeverPartial => WhatIsToldIsTrue
  BY DEF WhatIsToldIsTrue, Types
<1>7. part = "local" /\ Local!SocketWasAnswered => WhatIsToldIsTrue
  BY DEF WhatIsToldIsTrue, Types
<1> QED
  BY <1>1, <1>2, <1>3, <1>4, <1>5, <1>6, <1>7, BootTypes, ReaperIsTyped, RequestsRunOnce,
     ResultsAreExits, OutcomesAreTrue, HeartbeatsAreWhole, SocketsWereAnswered, PTL
=============================================================================
