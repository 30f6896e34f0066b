-------------------------- MODULE DeliveryPromise ---------------------------
(***************************************************************************)
(* What delivery promises a session, with no word on urgency, leases or    *)
(* time: a row is owed to the agent from the moment it arrives; a transport*)
(* may hold owed rows while it surfaces them; and a held row stops being   *)
(* owed only when the agent has been told of it, names it in an            *)
(* acknowledgement, loses it to a suppress verdict, or has it summed up by *)
(* a recap.  Rows are ordered as they are delivered.                       *)
(***************************************************************************)
EXTENDS Naturals

CONSTANT Row

VARIABLES
    arrived,    \* rows ever projected to the session
    owed,       \* rows not yet accounted for
    held,       \* owed rows some transport is surfacing
    told        \* rows covered by a message handed to the agent

vars == <<arrived, owed, held, told>>

Init == arrived = {} /\ owed = {} /\ held = {} /\ told = {}

Arrive(r) ==
    /\ r \notin arrived
    /\ arrived' = arrived \cup {r}
    /\ owed' = owed \cup {r}
    /\ UNCHANGED <<held, told>>

(* Only rows that are owed become held. *)
Hold == /\ held \subseteq held' /\ held' \subseteq owed
        /\ UNCHANGED <<arrived, owed, told>>

(* A failed, abandoned or expired attempt: the rows stay owed. *)
Drop == /\ held' \subseteq held
        /\ UNCHANGED <<arrived, owed, told>>

Tell == /\ told \subseteq told' /\ told' \subseteq arrived
        /\ UNCHANGED <<arrived, owed, held>>

(* After telling: every row written off was told of, or a recap told of a  *)
(* newer one.                                                              *)
Discharge ==
    /\ owed' \subseteq owed
    /\ \A r \in owed \ owed' : r \in told \/ \E t \in told : t > r
    /\ held' = held \cap owed'
    /\ UNCHANGED <<arrived, told>>

(* One call that tells and discharges never touches a held row ... *)
TellNow ==
    /\ owed' \subseteq owed /\ (owed \ owed') \cap held = {}
    /\ told' = told \cup (owed \ owed')
    /\ UNCHANGED <<arrived, held>>

(* ... unless it is a recap, which writes off every row there is, and has  *)
(* told of each or of a newer one.                                         *)
RecapNow ==
    /\ owed' = {} /\ held' = {}
    /\ told \subseteq told' /\ told' \subseteq arrived
    /\ \A r \in owed : r \in told' \/ \E t \in told' : t > r
    /\ UNCHANGED arrived

(* "Acknowledge all unread" spares what is being surfaced ... *)
AcknowledgeAll ==
    /\ owed' = held
    /\ UNCHANGED <<arrived, held, told>>

(* ... a row acknowledged by name, or judged not worth delivering, is gone. *)
Withdraw(r) ==
    /\ owed' = owed \ {r} /\ held' = held \ {r}
    /\ UNCHANGED <<arrived, told>>

Next ==
    \/ \E r \in Row : Arrive(r) \/ Withdraw(r)
    \/ Hold \/ Drop \/ Tell \/ Discharge \/ TellNow \/ RecapNow \/ AcknowledgeAll

Spec == Init /\ [][Next]_vars
=============================================================================
