------------------------------- MODULE Inbox -------------------------------
(***************************************************************************)
(* The inbox (libs/core/src/inbox/inbox-service.ts) as the commands of     *)
(* `agentmonitors inbox` use it: every command is a process of its own     *)
(* that reads the item, checks the transition and then updates the row by  *)
(* its id.  The check and the update are two statements, so another        *)
(* command can move the item between them.                                 *)
(***************************************************************************)
EXTENDS Naturals, Sequences

CONSTANTS
    Procs,      \* commands running at the same time
    Items,
    NoItem,
    MaxMoves    \* bound: updates of one item

VARIABLES
    row,        \* item -> [state, acked, completed, errors], or absent
    cmd,        \* process -> the command between its check and its update
    been,       \* item -> the states it has been in, in order
    printed      \* process -> what its last command printed

vars == <<row, cmd, been, printed>>

States == {"queued", "acked", "in-progress", "completed", "failed", "archived"}
Absent == [state |-> "absent", acked |-> FALSE, completed |-> FALSE, errors |-> 0]
Queued == [Absent EXCEPT !.state = "queued"]
NoCommand == [item |-> NoItem, to |-> "none", errors |-> 0]

TypeOK ==
    /\ \A i \in Items : row[i].state \in States \cup {"absent"} /\ row[i].errors \in Nat
    /\ \A p \in Procs : cmd[p] # NoCommand =>
            cmd[p].item \in Items /\ row[cmd[p].item] # Absent
    /\ printed \in [Procs -> {"none", "done", "refused", "missing"}]

Init ==
    /\ row = [i \in Items |-> Absent]
    /\ cmd = [p \in Procs |-> NoCommand]
    /\ been = [i \in Items |-> <<>>]
    /\ printed = [p \in Procs |-> "none"]

(* VALID_TRANSITIONS: the states a target may be reached from. *)
Mut_FromAnyActive(to) ==
    CASE to = "acked" -> {"queued"}
      [] to = "in-progress" -> {"acked"}
      [] (to \in {"completed", "failed"}) -> {"acked", "in-progress"}
      [] to = "archived" -> {"completed", "failed"}

From(to) ==
    CASE to = "acked" -> {"queued"}
      [] to = "in-progress" -> {"acked"}
      [] (to \in {"completed", "failed"}) -> {"in-progress"}
      [] to = "archived" -> {"completed", "failed"}

Targets == States \ {"queued"}
-----------------------------------------------------------------------------
Enqueue(i) ==
    /\ row[i] = Absent
    /\ row' = [row EXCEPT ![i] = Queued]
    /\ been' = [been EXCEPT ![i] = <<"queued">>]
    /\ UNCHANGED <<cmd, printed>>

(* requireTransition: the row as it is now; fail() also keeps the body it *)
(* read, to append its error to.                                          *)
Check(p, i, to) ==
    /\ cmd[p] = NoCommand
    /\ IF row[i].state \in From(to)
       THEN cmd' = [cmd EXCEPT ![p] = [item |-> i, to |-> to, errors |-> row[i].errors]]
            /\ UNCHANGED printed
       ELSE printed' = [printed EXCEPT ![p] = IF row[i] = Absent THEN "missing" ELSE "refused"]
            /\ UNCHANGED cmd
    /\ UNCHANGED <<row, been>>

(* The update names the row by its id alone. *)
Update(p) ==
    LET c == cmd[p]
        i == c.item IN
    /\ c # NoCommand /\ Len(been[i]) <= MaxMoves
    /\ row' = [row EXCEPT
            ![i].state = c.to,
            ![i].acked = @ \/ c.to = "acked",
            ![i].completed = @ \/ c.to = "completed",
            ![i].errors = IF c.to = "failed" THEN c.errors + 1 ELSE @]
    /\ been' = [been EXCEPT ![i] = Append(@, c.to)]
    /\ cmd' = [cmd EXCEPT ![p] = NoCommand]
    /\ printed' = [printed EXCEPT ![p] = "done"]

(* A command is killed between the two statements. *)
Dies(p) ==
    /\ cmd[p] # NoCommand
    /\ cmd' = [cmd EXCEPT ![p] = NoCommand] /\ printed' = [printed EXCEPT ![p] = "none"]
    /\ UNCHANGED <<row, been>>

Next ==
    \/ \E i \in Items : Enqueue(i)
    \/ \E p \in Procs : Update(p) \/ Dies(p)
    \/ \E p \in Procs, i \in Items, to \in Targets : Check(p, i, to)

Spec == Init /\ [][Next]_vars
-----------------------------------------------------------------------------
(* The states a state must have come from. *)
Before(s) ==
    CASE s = "acked" -> {"queued"}
      [] s = "in-progress" -> {"acked"}
      [] s = "archived" -> {"completed", "failed"}
      [] OTHER -> {"in-progress"}

(* Even when commands race, no step of an item's life is skipped: every    *)
(* state it has been in was preceded, sometime before, by a state that     *)
(* state may be reached from.                                              *)
NoStepSkipped == \A i \in Items : \A n \in 2..Len(been[i]) :
    \E m \in 1..n - 1 : been[i][m] \in Before(been[i][n])

=============================================================================
