---------------------------- MODULE HookDeliver ----------------------------
(***************************************************************************)
(* agentmonitors hook deliver (apps/cli/src/commands/hook.ts): a process   *)
(* the host spawns for a prompt, which finds its session, reserves what is *)
(* pending, writes it to stdout and only then commits.  The stream reports *)
(* a failed write twice, to the write's callback and as an 'error' event,  *)
(* in either order; a call to the daemon may be lost either way; a lease   *)
(* may lapse under the process that holds it.                              *)
(*                                                                         *)
(* One batch of rows stands for what is pending.  Whether a claim renders  *)
(* to anything (a recap of folded rows may not) is chosen when it is made. *)
(***************************************************************************)
EXTENDS FiniteSets, Integers

CONSTANTS
    Hooks,     \* processes, one per prompt
    MaxFaults  \* bound: failed writes, lost calls, lapsed leases

VARIABLES
    reachable,  \* payload, workspace, socket and session all resolve
    pc,         \* where each process is
    stream,     \* its write: "idle", "writing", "shown" or "broken"
    signals,    \* what the stream has still to report of a failed write
    armed,      \* its 'error' listener is attached
    output,     \* its reservation renders to something
    row,        \* the batch: "pending", "claimed" or the process leasing it
    by,         \* who claimed it, for the property only
    beat,       \* the hook transport's record: "none", "ran" or "delivered"
    exit,       \* exit codes
    faults

vars == <<reachable, pc, stream, signals, armed, output, row, by, beat, exit, faults>>

Fault == faults < MaxFaults /\ faults' = faults + 1

Init ==
    /\ reachable \in BOOLEAN
    /\ pc = [h \in Hooks |-> "idle"]
    /\ stream = [h \in Hooks |-> "idle"]
    /\ signals = [h \in Hooks |-> {}]
    /\ armed = [h \in Hooks |-> FALSE]
    /\ output = [h \in Hooks |-> FALSE]
    /\ row = "pending" /\ by = "none" /\ beat = "none"
    /\ exit = [h \in Hooks |-> -1] /\ faults = 0

(* The process is over; its stream's late events die with it.              *)
Quits(h) ==
    /\ pc' = [pc EXCEPT ![h] = "done"]
    /\ signals' = [signals EXCEPT ![h] = {}]
    /\ armed' = [armed EXCEPT ![h] = FALSE]
    /\ exit' = [exit EXCEPT ![h] = 0]

-----------------------------------------------------------------------------
(* Any guard that fails ends it quietly: no session_id, an unmapped event, *)
(* a disabled workspace, no socket, no daemon, an unknown session.         *)
Resolve(h) ==
    /\ pc[h] = "idle"
    /\ IF reachable
       THEN /\ pc' = [pc EXCEPT ![h] = "reserve"]
            /\ beat' = IF beat = "none" THEN "ran" ELSE beat
            /\ UNCHANGED <<signals, armed, exit>>
       ELSE Quits(h) /\ UNCHANGED beat
    /\ UNCHANGED <<reachable, by, stream, output, row, faults>>

(* Nothing to claim, or the call fails; or the reply of a reservation that *)
(* was made is lost, and the lease stays until it expires.                 *)
ReserveFails(h) ==
    /\ pc[h] = "reserve"
    /\ \/ row # "pending" /\ UNCHANGED <<row, faults>>
       \/ row = "pending" /\ row' = h /\ Fault
    /\ Quits(h)
    /\ UNCHANGED <<reachable, by, stream, output, beat>>

Reserve(h) ==
    /\ pc[h] = "reserve" /\ row = "pending"
    /\ row' = h
    /\ \E o \in BOOLEAN :
        /\ output' = [output EXCEPT ![h] = o]
        /\ pc' = [pc EXCEPT ![h] = IF o THEN "write" ELSE "commit"]
    /\ UNCHANGED <<reachable, by, stream, signals, armed, beat, exit, faults>>

(* writeStreamChunk; a write that throws at once detaches the listener.    *)
Write(h) ==
    /\ pc[h] = "write" /\ stream[h] = "idle"
    /\ \/ /\ stream' = [stream EXCEPT ![h] = "writing"]
          /\ armed' = [armed EXCEPT ![h] = TRUE]
          /\ UNCHANGED <<pc, faults>>
       \/ /\ Fault
          /\ stream' = [stream EXCEPT ![h] = "broken"]
          /\ pc' = [pc EXCEPT ![h] = "release"]
          /\ UNCHANGED armed
    /\ UNCHANGED <<reachable, by, signals, output, row, beat, exit>>

WriteFails(h) ==
    /\ stream[h] = "writing"
    /\ Fault
    /\ stream' = [stream EXCEPT ![h] = "broken"]
    /\ signals' = [signals EXCEPT ![h] = {"callback", "event"}]
    /\ UNCHANGED <<reachable, by, pc, armed, output, row, beat, exit>>

WriteSucceeds(h) ==
    /\ stream[h] = "writing"
    /\ stream' = [stream EXCEPT ![h] = "shown"]
    /\ armed' = [armed EXCEPT ![h] = FALSE]
    /\ pc' = [pc EXCEPT ![h] = "commit"]
    /\ UNCHANGED <<reachable, by, signals, output, row, beat, exit, faults>>

(* The first of the two signals rejects the write.                         *)
FailedCallback(h) ==
    /\ "callback" \in signals[h]
    /\ signals' = [signals EXCEPT ![h] = @ \ {"callback"}]
    /\ pc' = [pc EXCEPT ![h] = IF @ = "write" THEN "release" ELSE @]
    /\ UNCHANGED <<reachable, by, stream, armed, output, row, beat, exit, faults>>

(* An 'error' event nobody listens to is an uncaught exception.            *)
ErrorEvent(h) ==
    /\ "event" \in signals[h]
    /\ IF armed[h]
       THEN /\ signals' = [signals EXCEPT ![h] = @ \ {"event"}]
            /\ armed' = [armed EXCEPT ![h] = FALSE]
            /\ pc' = [pc EXCEPT ![h] = IF @ = "write" THEN "release" ELSE @]
            /\ UNCHANGED exit
       ELSE /\ signals' = [signals EXCEPT ![h] = {}]
            /\ pc' = [pc EXCEPT ![h] = "done"]
            /\ exit' = [exit EXCEPT ![h] = 1]
            /\ UNCHANGED armed
    /\ UNCHANGED <<reachable, by, stream, output, row, beat, faults>>

(* The reservation is given back, unless the call is lost; the error is    *)
(* thrown on, and swallowed.                                               *)
Release(h) ==
    /\ pc[h] = "release"
    /\ \/ row' = (IF row = h THEN "pending" ELSE row) /\ UNCHANGED faults
       \/ Fault /\ UNCHANGED row
    /\ Quits(h)
    /\ UNCHANGED <<reachable, by, stream, output, beat>>

(* commitDelivery, in the daemon: null when the lease is gone.             *)
Claims(h) ==
    IF row = h THEN row' = "claimed" /\ by' = h ELSE UNCHANGED <<row, by>>

(* Committed, or null: the lease has lapsed and the rows are delivered     *)
(* again.  What was written counts as delivered either way.                *)
Commit(h) ==
    /\ pc[h] = "commit"
    /\ Claims(h)
    /\ beat' = IF output[h] THEN "delivered" ELSE beat
    /\ Quits(h)
    /\ UNCHANGED <<reachable, stream, output, faults>>

(* The call fails, before or after the daemon has committed.               *)
CommitLost(h) ==
    /\ pc[h] = "commit" /\ Fault
    /\ UNCHANGED <<row, by>> \/ Claims(h)
    /\ Quits(h)
    /\ UNCHANGED <<reachable, stream, output, beat>>

(* The host gives up on its hook.                                          *)
Killed(h) ==
    /\ pc[h] \notin {"idle", "done"} /\ Fault
    /\ pc' = [pc EXCEPT ![h] = "done"]
    /\ stream' = [stream EXCEPT ![h] = IF @ = "writing" THEN "broken" ELSE @]
    /\ signals' = [signals EXCEPT ![h] = {}]
    /\ UNCHANGED <<reachable, by, armed, output, row, beat, exit>>

(* The lease expires, or the daemon restarts without it.                   *)
Lapses ==
    /\ row \in Hooks
    /\ IF pc[row] = "done" THEN UNCHANGED faults ELSE Fault
    /\ row' = "pending"
    /\ UNCHANGED <<reachable, by, pc, stream, signals, armed, output, beat, exit>>

Next ==
    \/ \E h \in Hooks :
        \/ Resolve(h) \/ ReserveFails(h) \/ Reserve(h)
        \/ Write(h) \/ WriteFails(h) \/ WriteSucceeds(h)
        \/ FailedCallback(h) \/ ErrorEvent(h)
        \/ Release(h) \/ Commit(h) \/ CommitLost(h) \/ Killed(h)
    \/ Lapses

Spec == Init /\ [][Next]_vars
-----------------------------------------------------------------------------
(* What is on record was shown: a batch is claimed by a process that wrote *)
(* all of it, or had nothing to write, and a delivery is only recorded     *)
(* once something was written.                                             *)
RecordedWasShown ==
    /\ row = "claimed" => stream[by] = "shown" \/ ~output[by]
    /\ beat = "delivered" => \E h \in Hooks : stream[h] = "shown"

(* Always exit 0: no failure of the pipe becomes an uncaught exception.    *)
ExitsZero == \A h \in Hooks : exit[h] <= 0
=============================================================================
