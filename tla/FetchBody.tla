----------------------------- MODULE FetchBody -----------------------------
(***************************************************************************)
(* One HTTP fetch of the api-poll source (plugins/source-api-poll,         *)
(* fetchBody and readBoundedBody): one deadline over headers and body, a   *)
(* cap on the bytes that are buffered, and a signal from outside by which  *)
(* a composite observation cancels its other parts.  The server may stay   *)
(* silent, drop the connection, and lie about its Content-Length.          *)
(***************************************************************************)
EXTENDS Integers

CONSTANTS
    Cap         \* MAX_RESPONSE_BYTES, in abstract units

VARIABLES
    pc,         \* "fetch", "skip", "refuse", "read", "drain" or "done"
    timer,      \* "armed", "fired" or "cleared"
    outside,    \* the external signal has aborted the request
    aborted,    \* controller.signal.aborted
    readBody,   \* the caller wants the body (status-code strategy: no)
    declared,   \* Content-Length, or Absent
    size,       \* what the server really sends
    total,      \* bytes read so far
    held,       \* the connection is held by this request
    outcome     \* "none", "body", "status", "timeout", "oversize", "network"

vars == <<pc, timer, outside, aborted, readBody, declared, size, total, held, outcome>>
request == <<readBody, declared, size>>

Sizes == 0..Cap + 2
Absent == -1

TypeOK ==
    /\ pc \in {"fetch", "skip", "refuse", "read", "drain", "done"}
    /\ timer \in {"armed", "fired", "cleared"}
    /\ outside \in BOOLEAN /\ aborted \in BOOLEAN /\ readBody \in BOOLEAN /\ held \in BOOLEAN
    /\ declared \in Sizes \cup {Absent} /\ size \in Sizes /\ total \in 0..size
    /\ outcome \in {"none", "body", "status", "timeout", "oversize", "network"}

Init ==
    /\ pc = "fetch" /\ timer = "armed" /\ total = 0 /\ held = TRUE /\ outcome = "none"
    /\ outside \in BOOLEAN /\ aborted = outside
    /\ readBody \in BOOLEAN /\ declared \in Sizes \cup {Absent} /\ size \in Sizes

(* The finally blocks: the timer is cleared, the listener removed. *)
Settle(result) ==
    /\ pc' = "done" /\ outcome' = result
    /\ timer' = IF timer = "armed" THEN "cleared" ELSE timer

(* A rejected fetch or read is the deadline's when the controller was     *)
(* aborted, whatever error the platform raised.                           *)
Rejection == IF aborted THEN "timeout" ELSE "network"
-----------------------------------------------------------------------------
TimerFires ==
    /\ timer = "armed" /\ pc # "done"
    /\ timer' = "fired" /\ aborted' = TRUE
    /\ UNCHANGED <<pc, outside, request, total, held, outcome>>

OutsideAborts ==
    /\ ~outside /\ pc # "done"
    /\ outside' = TRUE /\ aborted' = TRUE
    /\ UNCHANGED <<pc, timer, request, total, held, outcome>>

TooLong == declared > Cap

(* The headers arrive.  The body is cancelled unread, refused for its     *)
(* declared length, or read.                                              *)
Headers ==
    /\ pc = "fetch" /\ ~aborted
    /\ \/ ~readBody /\ pc' = "skip" /\ aborted' = aborted
       \/ readBody /\ TooLong /\ pc' = "refuse" /\ aborted' = TRUE
       \/ readBody /\ ~TooLong /\ pc' = "read" /\ aborted' = aborted
    /\ UNCHANGED <<timer, outside, request, total, held, outcome>>

(* A network failure, or the abort, rejects the fetch or a read. *)
Rejects ==
    /\ pc \in {"fetch", "read"}
    /\ held' = FALSE
    /\ Settle(Rejection)
    /\ UNCHANGED <<outside, aborted, request, total>>

Skip ==
    /\ pc = "skip" /\ held' = FALSE
    /\ Settle("status")
    /\ UNCHANGED <<outside, aborted, request, total>>

(* A chunk of n bytes: the running total, not the header, is the authority. *)
Chunk(n) ==
    /\ pc = "read" /\ ~aborted /\ total + n <= size
    /\ total' = total + n
    /\ IF total + n > Cap
       THEN pc' = "drain" /\ aborted' = TRUE
       ELSE UNCHANGED <<pc, aborted>>
    /\ UNCHANGED <<timer, outside, request, held, outcome>>

(* The unread or locked body was cancelled: its own rejection is told     *)
(* apart from the abort it caused.                                        *)
Oversize ==
    /\ pc \in {"refuse", "drain"} /\ held' = FALSE
    /\ Settle("oversize")
    /\ UNCHANGED <<outside, aborted, request, total>>

End ==
    /\ pc = "read" /\ ~aborted /\ total = size /\ held' = FALSE
    /\ Settle("body")
    /\ UNCHANGED <<outside, aborted, request, total>>

Done == pc = "done" /\ UNCHANGED vars

Next ==
    \/ TimerFires \/ OutsideAborts
    \/ Headers \/ Rejects \/ Skip \/ Oversize \/ End
    \/ \E n \in 1..2 : Chunk(n)
    \/ Done

Spec == Init /\ [][Next]_vars

(* The timer fires, an aborted request rejects, a cancel settles.  Nothing *)
(* is asked of the server.                                                 *)
FairSpec ==
    /\ Spec
    /\ WF_vars(TimerFires)
    /\ WF_vars(aborted /\ Rejects)
    /\ WF_vars(Skip \/ Oversize)
-----------------------------------------------------------------------------
(* What the caller is told is what happened: a body is the whole body and  *)
(* within the cap, an oversize is a real or declared one and never called  *)
(* a timeout, a timeout had a deadline or a cancellation behind it.        *)
OutcomeIsTrue ==
    /\ outcome = "body" => total = size /\ total <= Cap
    /\ outcome = "oversize" => size > Cap \/ TooLong
    /\ outcome = "timeout" => timer = "fired" \/ outside
    /\ outcome # "none" => ~held

(* Every fetch settles within its one deadline, whatever the server does   *)
(* after the headers: an observation cannot wedge the tick.                *)
Settled == pc = "done"
FetchSettles == <>Settled
=============================================================================
