-------------------------------- MODULE Ipc --------------------------------
(***************************************************************************)
(* The socket between the daemon and its clients: one connection of        *)
(* createDaemonServer per call of callDaemon.  A request is a frame ended  *)
(* by a newline that arrives in chunks; a client that is not callDaemon    *)
(* may send more frames behind it.  The handler runs after the data event, *)
(* so chunks, timeouts and the end of the process fall between admission   *)
(* and response.                                                           *)
(***************************************************************************)
EXTENDS Naturals, FiniteSets

CONSTANTS Calls,      \* one connection each
          Foreign,    \* those made by a client that sends frames behind the first
          MaxBytes,   \* MAX_DAEMON_REQUEST_BYTES
          MaxFaults   \* clean closes of a daemon that dies

Kinds == {"done", "throws", "malformed", "overlimit", "stop"}

VARIABLES kind,       \* what the frame asks for
          left,       \* bytes of the frame still to arrive
          behind,     \* whether a second frame is still to arrive
          bytes,      \* byteLength: what the server has buffered of it
          admitted,   \* the connection takes no more data
          running,    \* handlers started for the connection and not answered
          dispatched, \* handlers ever started for it
          reply,      \* "none", "result" or "error"
          client,     \* "idle", "waiting", "resolved" or "rejected"
          link,       \* "closed", "open", "ended" (by the server) or "reset"
          daemon,     \* "up", "stopping" (takes no new connection) or "down"
          faults

vars == <<kind, left, behind, bytes, admitted, running, dispatched, reply, client, link, daemon, faults>>
server == <<bytes, admitted, running, dispatched, reply>>

TypeOK ==
  /\ kind \in [Calls -> Kinds] /\ left \in [Calls -> 0..(MaxBytes + 1)] /\ behind \in [Calls -> BOOLEAN]
  /\ bytes \in [Calls -> 0..MaxBytes] /\ admitted \in [Calls -> BOOLEAN]
  /\ running \in [Calls -> 0..2] /\ dispatched \in [Calls -> 0..2]
  /\ reply \in [Calls -> {"none", "result", "error"}]
  /\ client \in [Calls -> {"idle", "waiting", "resolved", "rejected"}]
  /\ link \in [Calls -> {"closed", "open", "ended", "reset"}]
  /\ daemon \in {"up", "stopping", "down"} /\ faults \in 0..MaxFaults

Init ==
  /\ kind \in [Calls -> Kinds] /\ left \in [Calls -> 1..(MaxBytes + 1)]
  /\ behind = [c \in Calls |-> c \in Foreign]
  /\ bytes = [c \in Calls |-> 0] /\ admitted = [c \in Calls |-> FALSE]
  /\ running = [c \in Calls |-> 0] /\ dispatched = [c \in Calls |-> 0]
  /\ reply = [c \in Calls |-> "none"] /\ client = [c \in Calls |-> "idle"]
  /\ link = [c \in Calls |-> "closed"] /\ daemon = "up" /\ faults = 0

\* socket.connect; a refused connection is an error event.
Connect(c) ==
  /\ client[c] = "idle"
  /\ IF daemon = "up"
     THEN client' = [client EXCEPT ![c] = "waiting"] /\ link' = [link EXCEPT ![c] = "open"]
     ELSE client' = [client EXCEPT ![c] = "rejected"] /\ UNCHANGED link
  /\ UNCHANGED <<kind, left, behind, server, daemon, faults>>

Respond(c, what) ==
  /\ reply' = [reply EXCEPT ![c] = IF link[c] = "open" THEN what ELSE @]
  /\ link' = [link EXCEPT ![c] = IF @ = "open" THEN "ended" ELSE @]

\* A data event is looked at only until the first frame was admitted or refused.
Listens(c) == ~admitted[c]

\* A chunk that does not end the frame: refused when it passes the limit.
Chunk(c) ==
  /\ link[c] = "open" /\ daemon # "down" /\ Listens(c)
  /\ \E n \in 1..left[c] :
       /\ n = left[c] => bytes[c] + n > MaxBytes
       /\ left' = [left EXCEPT ![c] = @ - n]
       /\ IF bytes[c] + n > MaxBytes
          THEN admitted' = [admitted EXCEPT ![c] = TRUE] /\ Respond(c, "error") /\ UNCHANGED bytes
          ELSE bytes' = [bytes EXCEPT ![c] = @ + n] /\ UNCHANGED <<admitted, reply, link>>
  /\ UNCHANGED <<kind, behind, running, dispatched, client, daemon, faults>>

\* The chunk with the newline: the frame is parsed and refused, or its handler is started.
Frame(c) ==
  /\ link[c] = "open" /\ daemon # "down" /\ Listens(c)
  /\ left[c] > 0 \/ behind[c]
  /\ left[c] = 0 \/ bytes[c] + left[c] <= MaxBytes
  /\ admitted' = [admitted EXCEPT ![c] = TRUE]
  /\ bytes' = [bytes EXCEPT ![c] = 0]
  /\ IF left[c] > 0
     THEN left' = [left EXCEPT ![c] = 0] /\ UNCHANGED behind
     ELSE behind' = [behind EXCEPT ![c] = FALSE] /\ UNCHANGED left
  /\ IF kind[c] \in {"malformed", "overlimit"}
     THEN Respond(c, "error") /\ UNCHANGED <<running, dispatched>>
     ELSE /\ running' = [running EXCEPT ![c] = @ + 1]
          /\ dispatched' = [dispatched EXCEPT ![c] = @ + 1]
          /\ UNCHANGED <<reply, link>>
  /\ UNCHANGED <<kind, client, daemon, faults>>

Mut_ThrowsUncaught(c) ==
  /\ running[c] > 0 /\ daemon # "down"
  /\ running' = [running EXCEPT ![c] = @ - 1]
  /\ IF kind[c] = "throws"
     THEN daemon' = "down" /\ UNCHANGED <<reply, link>>
     ELSE Respond(c, "result") /\ daemon' = IF kind[c] = "stop" THEN "stopping" ELSE daemon
  /\ UNCHANGED <<kind, left, behind, bytes, admitted, dispatched, client, faults>>

\* handleRequest and the promise chain around it.
Handle(c) ==
  /\ running[c] > 0 /\ daemon # "down"
  /\ running' = [running EXCEPT ![c] = @ - 1]
  /\ Respond(c, IF kind[c] = "throws" THEN "error" ELSE "result")
  /\ daemon' = IF kind[c] = "stop" THEN "stopping" ELSE daemon
  /\ UNCHANGED <<kind, left, behind, bytes, admitted, dispatched, client, faults>>

\* callDaemon's data event: the response line settles the promise.
Settle(c) ==
  /\ client[c] = "waiting" /\ link[c] = "ended" /\ reply[c] # "none"
  /\ client' = [client EXCEPT ![c] = IF reply[c] = "result" THEN "resolved" ELSE "rejected"]
  /\ link' = [link EXCEPT ![c] = "closed"]
  /\ UNCHANGED <<kind, left, behind, server, daemon, faults>>

\* callDaemon's timeout and error events; the server sees a reset at most.
GiveUp(c) ==
  /\ client[c] = "waiting" /\ link[c] \in {"open", "reset"}
  /\ client' = [client EXCEPT ![c] = "rejected"]
  /\ link' = [link EXCEPT ![c] = "closed"]
  /\ admitted' = [admitted EXCEPT ![c] = TRUE]
  /\ UNCHANGED <<kind, left, behind, bytes, running, dispatched, reply, daemon, faults>>

\* The daemon's process ends: what it had read is closed cleanly, unread data resets.
DaemonDies ==
  /\ faults < MaxFaults /\ daemon # "down"
  /\ daemon' = "down" /\ faults' = faults + 1
  /\ link' = [c \in Calls |-> IF link[c] # "open" THEN link[c]
                              ELSE IF left[c] > 0 THEN "reset" ELSE "ended"]
  /\ running' = [c \in Calls |-> 0]
  /\ UNCHANGED <<kind, left, behind, bytes, admitted, dispatched, reply, client>>

Next ==
  \/ \E c \in Calls : Connect(c) \/ Chunk(c) \/ Frame(c) \/ Handle(c) \/ Settle(c) \/ GiveUp(c)
  \/ DaemonDies

Spec == Init /\ [][Next]_vars
Fairness == \A c \in Calls : WF_vars(Chunk(c)) /\ WF_vars(Frame(c)) /\ WF_vars(Handle(c))
                             /\ WF_vars(Settle(c))
FairSpec == Spec /\ Fairness
-----------------------------------------------------------------------------
\* "One connection admits one request, even when more frames arrive while
\* asynchronous dispatch is in flight" (createDaemonServer).
OneRequestPerConnection == \A c \in Calls : dispatched[c] <= 1

\* A client is told of success only when the handler of its request was run, once,
\* and did not throw: by no refusal, no second frame and no daemon that died.
ResultsAreEarned ==
  \A c \in Calls : client[c] = "resolved" =>
    dispatched[c] = 1 /\ kind[c] \in {"done", "stop"}

\* A request the daemon took is answered unless its client left or the daemon
\* was killed, whatever any other request did to it.
Owed(c) == running[c] > 0
Answered(c) == reply[c] # "none" \/ link[c] = "closed" \/ faults > 0
AdmittedIsAnswered == \A c \in Calls : Owed(c) ~> Answered(c)

=============================================================================
