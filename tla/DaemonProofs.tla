---------------------------- MODULE DaemonProofs ----------------------------
(***************************************************************************)
(* What the startup lock guarantees for every number of racing boots and   *)
(* of crashes, stops and signals.                                          *)
(***************************************************************************)
EXTENDS Daemon, FiniteSetTheorems, TLAPS

(* The inductive invariant.  Its parts beside TypeOK:                      *)
(* - only a launched process is told to stop, only a process told to stop  *)
(*   closes, and until it is gone it has a clean-up to do;                 *)
(* - a process that was never launched has no report;                      *)
(* - while none died, the one process between its mkdir and its rmdir is   *)
(*   the one the lock speaks of, and nobody takes the lock for stale;      *)
(* - while none was stopped either, what listens is what the path names,   *)
(*   and who is about to unlink the path knows that nothing listens.       *)
StopsInOrder ==
    \A p \in Procs :
        /\ pc[p] = "off" => p \notin stopping
        /\ pc[p] = "closed" => p \in stopping
        /\ Alive(p) /\ p \in stopping => late[p] # 0

FreshIsUnreported == \A p \in Procs : pc[p] = "off" => report[p] = "none"

InLock == {p \in Procs : pc[p] \in {"create", "write", "probe", "unlink", "bind",
                                    "release", "releaseDir"}}

LockInv ==
    NoneDied =>
        /\ \A p \in Procs : pc[p] \notin {"unlinkPid", "rmdir"}
        /\ \A p, q \in InLock : p = q
        /\ \A p \in InLock : lock = IF pc[p] \in {"create", "releaseDir"} THEN NoProc ELSE p
        /\ lock \in Procs => lock \in InLock

ServeInv ==
    Undisturbed =>
        /\ listens \subseteq {socket}
        /\ \A p \in Procs : pc[p] = "unlink" => listens = {}

IInv ==
    /\ TypeOK /\ StopsInOrder
    /\ FreshIsUnreported /\ FailureMeansGone
    /\ LockInv /\ ServeInv

LEMMA NoSuchProc == NoProc \notin Procs /\ NoLock \notin Procs /\ NoProc # NoLock
BY DEF Procs, NoProc, NoLock

-----------------------------------------------------------------------------
(***************************************************************************)
(* Each part of the invariant is preserved by each action.                 *)
(***************************************************************************)

LEMMA StepTypes == TypeOK /\ StopsInOrder /\ [Next]_vars => TypeOK'
<1> SUFFICES ASSUME TypeOK, StopsInOrder, [Next]_vars
             PROVE  TypeOK'
  OBVIOUS
<1> USE NoSuchProc DEF TypeOK, StopsInOrder, Places, Reports, Go, Alive
<1>1. ASSUME NEW p \in Procs, Launch(p) PROVE TypeOK'
  BY <1>1 DEF Launch
<1>2. ASSUME NEW p \in Procs, Start(p) PROVE TypeOK'
  BY <1>2 DEF Start
<1>3. ASSUME NEW p \in Procs, MakeDir(p) PROVE TypeOK'
  BY <1>3 DEF MakeDir, LockStep
<1>4. ASSUME NEW p \in Procs, CreatePid(p) PROVE TypeOK'
  BY <1>4 DEF CreatePid, LockStep
<1>5. ASSUME NEW p \in Procs, WritePid(p) PROVE TypeOK'
  BY <1>5 DEF WritePid, LockStep
<1>6. ASSUME NEW p \in Procs, ReadPid(p) PROVE TypeOK'
  BY <1>6 DEF ReadPid, LockStep, Stealing, EmptyPid
<1>7. ASSUME NEW p \in Procs, UnlinkPid(p) PROVE TypeOK'
  BY <1>7 DEF UnlinkPid, LockStep
<1>8. ASSUME NEW p \in Procs, RemoveDir(p) PROVE TypeOK'
  BY <1>8 DEF RemoveDir, LockStep
<1>9. ASSUME NEW p \in Procs, Probe(p) PROVE TypeOK'
  BY <1>9 DEF Probe
<1>10. ASSUME NEW p \in Procs, Unlink(p) PROVE TypeOK'
  BY <1>10 DEF Unlink
<1>11. ASSUME NEW p \in Procs, Bind(p) PROVE TypeOK'
  BY <1>11 DEF Bind
<1>12. ASSUME NEW p \in Procs, CloseServer(p) PROVE TypeOK'
  BY <1>12 DEF CloseServer
<1>13. ASSUME NEW p \in Procs, CleanupSocket(p) PROVE TypeOK'
  BY <1>13 DEF CleanupSocket
<1>14. ASSUME NEW p \in Procs, StopCall(p) PROVE TypeOK'
  BY <1>14 DEF StopCall
<1>15. ASSUME NEW p \in Procs, Signal(p) PROVE TypeOK'
  BY <1>15 DEF Signal, Terminated
<1>16. ASSUME NEW p \in Procs, Crash(p) PROVE TypeOK'
  BY <1>16 DEF Crash, Die
<1>17. ASSUME NEW p \in Procs, DetachReady(p) PROVE TypeOK'
  BY <1>17 DEF DetachReady, Report, DetachStep
<1>18. ASSUME NEW p \in Procs, DetachProve(p) PROVE TypeOK'
  BY <1>18 DEF DetachProve, Report, DetachStep
<1>19. ASSUME NEW p \in Procs, DetachTimeout(p) PROVE TypeOK'
  BY <1>19 DEF DetachTimeout, Report, DetachStep
<1>20. ASSUME NEW p \in Procs, SendTerm(p) PROVE TypeOK'
  BY <1>20 DEF SendTerm, Terminated, Report, DetachStep
<1>21. ASSUME NEW p \in Procs, GraceOver(p) PROVE TypeOK'
  BY <1>21 DEF GraceOver, Die, Report, DetachStep
<1>22. CASE UNCHANGED vars
  BY <1>22 DEF vars
<1>23. QED
  BY <1>1, <1>2, <1>3, <1>4, <1>5, <1>6, <1>7, <1>8, <1>9, <1>10, <1>11, <1>12,
     <1>13, <1>14, <1>15, <1>16, <1>17, <1>18, <1>19, <1>20, <1>21, <1>22 DEF
     Next

LEMMA StepStops == TypeOK /\ StopsInOrder /\ [Next]_vars => StopsInOrder'
<1> SUFFICES ASSUME TypeOK, StopsInOrder, [Next]_vars
             PROVE  StopsInOrder'
  OBVIOUS
<1> USE NoSuchProc DEF TypeOK, StopsInOrder, Go, Alive
<1>1. ASSUME NEW p \in Procs, Launch(p) PROVE StopsInOrder'
  BY <1>1 DEF Launch
<1>2. ASSUME NEW p \in Procs, Start(p) PROVE StopsInOrder'
  BY <1>2 DEF Start
<1>3. ASSUME NEW p \in Procs, MakeDir(p) PROVE StopsInOrder'
  BY <1>3 DEF MakeDir, LockStep
<1>4. ASSUME NEW p \in Procs, CreatePid(p) PROVE StopsInOrder'
  BY <1>4 DEF CreatePid, LockStep
<1>5. ASSUME NEW p \in Procs, WritePid(p) PROVE StopsInOrder'
  BY <1>5 DEF WritePid, LockStep
<1>6. ASSUME NEW p \in Procs, ReadPid(p) PROVE StopsInOrder'
  BY <1>6 DEF ReadPid, LockStep, Stealing, EmptyPid
<1>7. ASSUME NEW p \in Procs, UnlinkPid(p) PROVE StopsInOrder'
  BY <1>7 DEF UnlinkPid, LockStep
<1>8. ASSUME NEW p \in Procs, RemoveDir(p) PROVE StopsInOrder'
  BY <1>8 DEF RemoveDir, LockStep
<1>9. ASSUME NEW p \in Procs, Probe(p) PROVE StopsInOrder'
  BY <1>9 DEF Probe
<1>10. ASSUME NEW p \in Procs, Unlink(p) PROVE StopsInOrder'
  BY <1>10 DEF Unlink
<1>11. ASSUME NEW p \in Procs, Bind(p) PROVE StopsInOrder'
  BY <1>11 DEF Bind
<1>12. ASSUME NEW p \in Procs, CloseServer(p) PROVE StopsInOrder'
  BY <1>12 DEF CloseServer
<1>13. ASSUME NEW p \in Procs, CleanupSocket(p) PROVE StopsInOrder'
  BY <1>13 DEF CleanupSocket
<1>14. ASSUME NEW p \in Procs, StopCall(p) PROVE StopsInOrder'
  BY <1>14 DEF StopCall
<1>15. ASSUME NEW p \in Procs, Signal(p) PROVE StopsInOrder'
  BY <1>15 DEF Signal, Terminated
<1>16. ASSUME NEW p \in Procs, Crash(p) PROVE StopsInOrder'
  BY <1>16 DEF Crash, Die
<1>17. ASSUME NEW p \in Procs, DetachReady(p) PROVE StopsInOrder'
  BY <1>17 DEF DetachReady, Report, DetachStep
<1>18. ASSUME NEW p \in Procs, DetachProve(p) PROVE StopsInOrder'
  BY <1>18 DEF DetachProve, Report, DetachStep
<1>19. ASSUME NEW p \in Procs, DetachTimeout(p) PROVE StopsInOrder'
  BY <1>19 DEF DetachTimeout, Report, DetachStep
<1>20. ASSUME NEW p \in Procs, SendTerm(p) PROVE StopsInOrder'
  BY <1>20 DEF SendTerm, Terminated, Report, DetachStep
<1>21. ASSUME NEW p \in Procs, GraceOver(p) PROVE StopsInOrder'
  BY <1>21 DEF GraceOver, Die, Report, DetachStep
<1>22. CASE UNCHANGED vars
  BY <1>22 DEF vars
<1>23. QED
  BY <1>1, <1>2, <1>3, <1>4, <1>5, <1>6, <1>7, <1>8, <1>9, <1>10, <1>11, <1>12,
     <1>13, <1>14, <1>15, <1>16, <1>17, <1>18, <1>19, <1>20, <1>21, <1>22 DEF
     Next

LEMMA StepFresh == TypeOK /\ FreshIsUnreported /\ [Next]_vars => FreshIsUnreported'
<1> SUFFICES ASSUME TypeOK, FreshIsUnreported, [Next]_vars
             PROVE  FreshIsUnreported'
  OBVIOUS
<1> USE NoSuchProc DEF TypeOK, FreshIsUnreported, Go, Alive
<1>1. ASSUME NEW p \in Procs, Launch(p) PROVE FreshIsUnreported'
  BY <1>1 DEF Launch
<1>2. ASSUME NEW p \in Procs, Start(p) PROVE FreshIsUnreported'
  BY <1>2 DEF Start
<1>3. ASSUME NEW p \in Procs, MakeDir(p) PROVE FreshIsUnreported'
  BY <1>3 DEF MakeDir, LockStep
<1>4. ASSUME NEW p \in Procs, CreatePid(p) PROVE FreshIsUnreported'
  BY <1>4 DEF CreatePid, LockStep
<1>5. ASSUME NEW p \in Procs, WritePid(p) PROVE FreshIsUnreported'
  BY <1>5 DEF WritePid, LockStep
<1>6. ASSUME NEW p \in Procs, ReadPid(p) PROVE FreshIsUnreported'
  BY <1>6 DEF ReadPid, LockStep, Stealing, EmptyPid
<1>7. ASSUME NEW p \in Procs, UnlinkPid(p) PROVE FreshIsUnreported'
  BY <1>7 DEF UnlinkPid, LockStep
<1>8. ASSUME NEW p \in Procs, RemoveDir(p) PROVE FreshIsUnreported'
  BY <1>8 DEF RemoveDir, LockStep
<1>9. ASSUME NEW p \in Procs, Probe(p) PROVE FreshIsUnreported'
  BY <1>9 DEF Probe
<1>10. ASSUME NEW p \in Procs, Unlink(p) PROVE FreshIsUnreported'
  BY <1>10 DEF Unlink
<1>11. ASSUME NEW p \in Procs, Bind(p) PROVE FreshIsUnreported'
  BY <1>11 DEF Bind
<1>12. ASSUME NEW p \in Procs, CloseServer(p) PROVE FreshIsUnreported'
  BY <1>12 DEF CloseServer
<1>13. ASSUME NEW p \in Procs, CleanupSocket(p) PROVE FreshIsUnreported'
  BY <1>13 DEF CleanupSocket
<1>14. ASSUME NEW p \in Procs, StopCall(p) PROVE FreshIsUnreported'
  BY <1>14 DEF StopCall
<1>15. ASSUME NEW p \in Procs, Signal(p) PROVE FreshIsUnreported'
  BY <1>15 DEF Signal, Terminated
<1>16. ASSUME NEW p \in Procs, Crash(p) PROVE FreshIsUnreported'
  BY <1>16 DEF Crash, Die
<1>17. ASSUME NEW p \in Procs, DetachReady(p) PROVE FreshIsUnreported'
  BY <1>17 DEF DetachReady, Report, DetachStep
<1>18. ASSUME NEW p \in Procs, DetachProve(p) PROVE FreshIsUnreported'
  BY <1>18 DEF DetachProve, Report, DetachStep
<1>19. ASSUME NEW p \in Procs, DetachTimeout(p) PROVE FreshIsUnreported'
  BY <1>19 DEF DetachTimeout, Report, DetachStep
<1>20. ASSUME NEW p \in Procs, SendTerm(p) PROVE FreshIsUnreported'
  BY <1>20 DEF SendTerm, Terminated, Report, DetachStep
<1>21. ASSUME NEW p \in Procs, GraceOver(p) PROVE FreshIsUnreported'
  BY <1>21 DEF GraceOver, Die, Report, DetachStep
<1>22. CASE UNCHANGED vars
  BY <1>22 DEF vars
<1>23. QED
  BY <1>1, <1>2, <1>3, <1>4, <1>5, <1>6, <1>7, <1>8, <1>9, <1>10, <1>11, <1>12,
     <1>13, <1>14, <1>15, <1>16, <1>17, <1>18, <1>19, <1>20, <1>21, <1>22 DEF
     Next

LEMMA StepFailure == TypeOK /\ FreshIsUnreported /\ FailureMeansGone /\ [Next]_vars => FailureMeansGone'
<1> SUFFICES ASSUME TypeOK, FreshIsUnreported, FailureMeansGone, [Next]_vars
             PROVE  FailureMeansGone'
  OBVIOUS
<1> USE NoSuchProc DEF TypeOK, FreshIsUnreported, FailureMeansGone, Go, Alive
<1>1. ASSUME NEW p \in Procs, Launch(p) PROVE FailureMeansGone'
  BY <1>1 DEF Launch
<1>2. ASSUME NEW p \in Procs, Start(p) PROVE FailureMeansGone'
  BY <1>2 DEF Start
<1>3. ASSUME NEW p \in Procs, MakeDir(p) PROVE FailureMeansGone'
  BY <1>3 DEF MakeDir, LockStep
<1>4. ASSUME NEW p \in Procs, CreatePid(p) PROVE FailureMeansGone'
  BY <1>4 DEF CreatePid, LockStep
<1>5. ASSUME NEW p \in Procs, WritePid(p) PROVE FailureMeansGone'
  BY <1>5 DEF WritePid, LockStep
<1>6. ASSUME NEW p \in Procs, ReadPid(p) PROVE FailureMeansGone'
  BY <1>6 DEF ReadPid, LockStep, Stealing, EmptyPid
<1>7. ASSUME NEW p \in Procs, UnlinkPid(p) PROVE FailureMeansGone'
  BY <1>7 DEF UnlinkPid, LockStep
<1>8. ASSUME NEW p \in Procs, RemoveDir(p) PROVE FailureMeansGone'
  BY <1>8 DEF RemoveDir, LockStep
<1>9. ASSUME NEW p \in Procs, Probe(p) PROVE FailureMeansGone'
  BY <1>9 DEF Probe
<1>10. ASSUME NEW p \in Procs, Unlink(p) PROVE FailureMeansGone'
  BY <1>10 DEF Unlink
<1>11. ASSUME NEW p \in Procs, Bind(p) PROVE FailureMeansGone'
  BY <1>11 DEF Bind
<1>12. ASSUME NEW p \in Procs, CloseServer(p) PROVE FailureMeansGone'
  BY <1>12 DEF CloseServer
<1>13. ASSUME NEW p \in Procs, CleanupSocket(p) PROVE FailureMeansGone'
  BY <1>13 DEF CleanupSocket
<1>14. ASSUME NEW p \in Procs, StopCall(p) PROVE FailureMeansGone'
  BY <1>14 DEF StopCall
<1>15. ASSUME NEW p \in Procs, Signal(p) PROVE FailureMeansGone'
  BY <1>15 DEF Signal, Terminated
<1>16. ASSUME NEW p \in Procs, Crash(p) PROVE FailureMeansGone'
  BY <1>16 DEF Crash, Die
<1>17. ASSUME NEW p \in Procs, DetachReady(p) PROVE FailureMeansGone'
  BY <1>17 DEF DetachReady, Report, DetachStep
<1>18. ASSUME NEW p \in Procs, DetachProve(p) PROVE FailureMeansGone'
  BY <1>18 DEF DetachProve, Report, DetachStep
<1>19. ASSUME NEW p \in Procs, DetachTimeout(p) PROVE FailureMeansGone'
  BY <1>19 DEF DetachTimeout, Report, DetachStep
<1>20. ASSUME NEW p \in Procs, SendTerm(p) PROVE FailureMeansGone'
  BY <1>20 DEF SendTerm, Terminated, Report, DetachStep
<1>21. ASSUME NEW p \in Procs, GraceOver(p) PROVE FailureMeansGone'
  BY <1>21 DEF GraceOver, Die, Report, DetachStep
<1>22. CASE UNCHANGED vars
  BY <1>22 DEF vars
<1>23. QED
  BY <1>1, <1>2, <1>3, <1>4, <1>5, <1>6, <1>7, <1>8, <1>9, <1>10, <1>11, <1>12,
     <1>13, <1>14, <1>15, <1>16, <1>17, <1>18, <1>19, <1>20, <1>21, <1>22 DEF
     Next

LEMMA StepLock == TypeOK /\ LockInv /\ [Next]_vars => LockInv'
<1> SUFFICES ASSUME TypeOK, LockInv, [Next]_vars
             PROVE  LockInv'
  OBVIOUS
<1> USE NoSuchProc DEF TypeOK, LockInv, InLock, NoneDied, Go, Alive
<1>1. ASSUME NEW p \in Procs, Launch(p) PROVE LockInv'
  BY <1>1 DEF Launch
<1>2. ASSUME NEW p \in Procs, Start(p) PROVE LockInv'
  BY <1>2 DEF Start
<1>3. ASSUME NEW p \in Procs, MakeDir(p) PROVE LockInv'
  BY <1>3 DEF MakeDir, LockStep
<1>4. ASSUME NEW p \in Procs, CreatePid(p) PROVE LockInv'
  BY <1>4 DEF CreatePid, LockStep
<1>5. ASSUME NEW p \in Procs, WritePid(p) PROVE LockInv'
  BY <1>5 DEF WritePid, LockStep
<1>6. ASSUME NEW p \in Procs, ReadPid(p) PROVE LockInv'
  BY <1>6 DEF ReadPid, LockStep, Stealing, EmptyPid
<1>7. ASSUME NEW p \in Procs, UnlinkPid(p) PROVE LockInv'
  BY <1>7 DEF UnlinkPid, LockStep
<1>8. ASSUME NEW p \in Procs, RemoveDir(p) PROVE LockInv'
  BY <1>8 DEF RemoveDir, LockStep
<1>9. ASSUME NEW p \in Procs, Probe(p) PROVE LockInv'
  BY <1>9 DEF Probe
<1>10. ASSUME NEW p \in Procs, Unlink(p) PROVE LockInv'
  BY <1>10 DEF Unlink
<1>11. ASSUME NEW p \in Procs, Bind(p) PROVE LockInv'
  BY <1>11 DEF Bind
<1>12. ASSUME NEW p \in Procs, CloseServer(p) PROVE LockInv'
  BY <1>12 DEF CloseServer
<1>13. ASSUME NEW p \in Procs, CleanupSocket(p) PROVE LockInv'
  BY <1>13 DEF CleanupSocket
<1>14. ASSUME NEW p \in Procs, StopCall(p) PROVE LockInv'
  BY <1>14 DEF StopCall
<1>15. ASSUME NEW p \in Procs, Signal(p) PROVE LockInv'
  BY <1>15 DEF Signal, Terminated
<1>16. ASSUME NEW p \in Procs, Crash(p) PROVE LockInv'
  BY <1>16 DEF Crash, Die
<1>17. ASSUME NEW p \in Procs, DetachReady(p) PROVE LockInv'
  BY <1>17 DEF DetachReady, Report, DetachStep
<1>18. ASSUME NEW p \in Procs, DetachProve(p) PROVE LockInv'
  BY <1>18 DEF DetachProve, Report, DetachStep
<1>19. ASSUME NEW p \in Procs, DetachTimeout(p) PROVE LockInv'
  BY <1>19 DEF DetachTimeout, Report, DetachStep
<1>20. ASSUME NEW p \in Procs, SendTerm(p) PROVE LockInv'
  BY <1>20 DEF SendTerm, Terminated, Report, DetachStep
<1>21. ASSUME NEW p \in Procs, GraceOver(p) PROVE LockInv'
  BY <1>21 DEF GraceOver, Die, Report, DetachStep
<1>22. CASE UNCHANGED vars
  BY <1>22 DEF vars
<1>23. QED
  BY <1>1, <1>2, <1>3, <1>4, <1>5, <1>6, <1>7, <1>8, <1>9, <1>10, <1>11, <1>12,
     <1>13, <1>14, <1>15, <1>16, <1>17, <1>18, <1>19, <1>20, <1>21, <1>22 DEF
     Next

LEMMA StepServe == TypeOK /\ StopsInOrder /\ LockInv /\ ServeInv /\ [Next]_vars => ServeInv'
<1> SUFFICES ASSUME TypeOK, StopsInOrder, LockInv, ServeInv, [Next]_vars
             PROVE  ServeInv'
  OBVIOUS
<1> USE NoSuchProc DEF TypeOK, StopsInOrder, LockInv, ServeInv, InLock,
                       NoneDied, Undisturbed, Go, Alive, Answered
<1>1. ASSUME NEW p \in Procs, Launch(p) PROVE ServeInv'
  BY <1>1 DEF Launch
<1>2. ASSUME NEW p \in Procs, Start(p) PROVE ServeInv'
  BY <1>2 DEF Start
<1>3. ASSUME NEW p \in Procs, MakeDir(p) PROVE ServeInv'
  BY <1>3 DEF MakeDir, LockStep
<1>4. ASSUME NEW p \in Procs, CreatePid(p) PROVE ServeInv'
  BY <1>4 DEF CreatePid, LockStep
<1>5. ASSUME NEW p \in Procs, WritePid(p) PROVE ServeInv'
  BY <1>5 DEF WritePid, LockStep
<1>6. ASSUME NEW p \in Procs, ReadPid(p) PROVE ServeInv'
  BY <1>6 DEF ReadPid, LockStep, Stealing, EmptyPid
<1>7. ASSUME NEW p \in Procs, UnlinkPid(p) PROVE ServeInv'
  BY <1>7 DEF UnlinkPid, LockStep
<1>8. ASSUME NEW p \in Procs, RemoveDir(p) PROVE ServeInv'
  BY <1>8 DEF RemoveDir, LockStep
<1>9. ASSUME NEW p \in Procs, Probe(p) PROVE ServeInv'
  BY <1>9 DEF Probe
<1>10. ASSUME NEW p \in Procs, Unlink(p) PROVE ServeInv'
  BY <1>10 DEF Unlink
<1>11. ASSUME NEW p \in Procs, Bind(p) PROVE ServeInv'
  BY <1>11 DEF Bind
<1>12. ASSUME NEW p \in Procs, CloseServer(p) PROVE ServeInv'
  BY <1>12 DEF CloseServer
<1>13. ASSUME NEW p \in Procs, CleanupSocket(p) PROVE ServeInv'
  BY <1>13 DEF CleanupSocket
<1>14. ASSUME NEW p \in Procs, StopCall(p) PROVE ServeInv'
  BY <1>14 DEF StopCall
<1>15. ASSUME NEW p \in Procs, Signal(p) PROVE ServeInv'
  BY <1>15 DEF Signal, Terminated
<1>16. ASSUME NEW p \in Procs, Crash(p) PROVE ServeInv'
  BY <1>16 DEF Crash, Die
<1>17. ASSUME NEW p \in Procs, DetachReady(p) PROVE ServeInv'
  BY <1>17 DEF DetachReady, Report, DetachStep
<1>18. ASSUME NEW p \in Procs, DetachProve(p) PROVE ServeInv'
  BY <1>18 DEF DetachProve, Report, DetachStep
<1>19. ASSUME NEW p \in Procs, DetachTimeout(p) PROVE ServeInv'
  BY <1>19 DEF DetachTimeout, Report, DetachStep
<1>20. ASSUME NEW p \in Procs, SendTerm(p) PROVE ServeInv'
  BY <1>20 DEF SendTerm, Terminated, Report, DetachStep
<1>21. ASSUME NEW p \in Procs, GraceOver(p) PROVE ServeInv'
  BY <1>21 DEF GraceOver, Die, Report, DetachStep
<1>22. CASE UNCHANGED vars
  BY <1>22 DEF vars
<1>23. QED
  BY <1>1, <1>2, <1>3, <1>4, <1>5, <1>6, <1>7, <1>8, <1>9, <1>10, <1>11, <1>12,
     <1>13, <1>14, <1>15, <1>16, <1>17, <1>18, <1>19, <1>20, <1>21, <1>22 DEF
     Next

LEMMA InitInv == Init => IInv
<1> SUFFICES ASSUME Init PROVE IInv
  OBVIOUS
<1> USE NoSuchProc DEF Init
<1>1. TypeOK
  BY DEF TypeOK, Places, Reports
<1>2. StopsInOrder /\ FreshIsUnreported /\ FailureMeansGone
  BY DEF StopsInOrder, FreshIsUnreported, FailureMeansGone, Alive
<1>3. LockInv /\ ServeInv
  BY DEF LockInv, InLock, ServeInv
<1>4. QED
  BY <1>1, <1>2, <1>3 DEF IInv

LEMMA StepInv == IInv /\ [Next]_vars => IInv'
BY StepTypes, StepStops, StepFresh, StepFailure, StepLock, StepServe DEF IInv

-----------------------------------------------------------------------------
(* A set any two members of which are the same has at most one.            *)
LEMMA AtMostOne ==
    ASSUME NEW S, \A p, q \in S : p = q
    PROVE  Cardinality(S) <= 1
<1>1. CASE S = {}
  BY <1>1, FS_EmptySet
<1>2. CASE S # {}
  <2>1. PICK p \in S : TRUE
    BY <1>2
  <2>2. S = {p}
    BY <2>1
  <2>3. Cardinality({p}) = 1
    BY FS_Singleton
  <2>4. QED
    BY <2>2, <2>3
<1>3. QED
  BY <1>1, <1>2

LEMMA InvImplies == IInv => OneDaemon
<1> SUFFICES ASSUME IInv PROVE OneDaemon
  OBVIOUS
<1>1. LockExcludes
  <2>1. Holders \subseteq InLock
    BY DEF Holders, InLock
  <2>2. NoneDied => \A p, q \in Holders : p = q
    BY <2>1 DEF IInv, LockInv
  <2>3. NoneDied => \A p \in Holders : lock = IF pc[p] = "create" THEN NoProc ELSE p
    BY <2>1 DEF IInv, LockInv, Holders
  <2>4. QED
    BY <2>2, <2>3, AtMostOne DEF LockExcludes
<1>2. OneServes
  <2>1. Undisturbed => \A p, q \in listens : p = q
    BY DEF IInv, ServeInv
  <2>2. QED
    BY <2>1, AtMostOne DEF IInv, ServeInv, OneServes
<1>3. QED
  BY <1>1, <1>2 DEF IInv, OneDaemon

(* The variables have their types in every behaviour.                      *)
THEOREM BootTypes == Spec => []TypeOK
<1>1. IInv => TypeOK
  BY DEF IInv
<1>2. QED
  BY InitInv, StepInv, <1>1, PTL DEF Spec

(* However many boots race, and whatever crashes, is stopped or signalled: *)
(* one at a time is between the lock and the socket, one serves, and a     *)
(* failure that --detach reports leaves no process behind (daemon-ipc.ts,  *)
(* listen and acquireStartupLock; detached-spawn.ts).                      *)
THEOREM BootsExclude == Spec => []OneDaemon
BY InitInv, StepInv, InvImplies, PTL DEF Spec
=============================================================================
