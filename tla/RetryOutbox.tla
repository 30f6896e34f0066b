---------------------------- MODULE RetryOutbox ----------------------------
(* The durable outbox of failed materializations (runtime/store.ts,          *)
(* runtime/retry-envelope.ts): a batch of envelopes is validated, then       *)
(* admitted in one immediate transaction unless it would take any workspace  *)
(* and monitor over its bound of records or bytes.  Processes that share the *)
(* database enqueue at the same time, and die at any point.                  *)
EXTENDS Integers, Sequences, FiniteSets, Functions

CONSTANTS Procs,        \* processes with the database open
          Routes,       \* workspace and monitor pairs
          Sizes,        \* bytes of an envelope
          MaxRecords, MaxBytes,
          Batches       \* how many calls are made

VARIABLES rows,         \* committed records: call, position, route, bytes
          writer,       \* the process inside its transaction, or none
          staged,       \* what that transaction has inserted
          call,         \* [Procs -> the call of each process]
          made          \* calls made so far, by outcome

vars == <<rows, writer, staged, call, made>>

Item == [route : Routes, monitor : Routes, bytes : Sizes, plain : BOOLEAN]
Idle == [step |-> "idle", id |-> 0, items |-> <<>>]
(* An item out of the plain-data domain, or routed to another monitor.       *)
Serializes(i) == i.plain /\ i.monitor = i.route
Calls == {c \in UNION {[1..n -> Item] : n \in 1..2} :
            \A i \in DOMAIN c : c[i].monitor # c[i].route => c[i].plain}

TypeOK ==
    /\ \A r \in rows \cup staged : r.id \in 1..Batches /\ r.route \in Routes /\ r.bytes \in Sizes
    /\ writer \in Procs \cup {"none"} /\ (writer = "none" => staged = {})
    /\ \A p \in Procs : call[p].step \in {"idle", "waiting", "admitting", "inserting"}
    /\ made \in [1..Batches -> {"unmade", "open", "stored", "invalid", "full", "busy", "lost"}]

Init == /\ rows = {} /\ writer = "none" /\ staged = {}
        /\ call = [p \in Procs |-> Idle]
        /\ made = [b \in 1..Batches |-> "unmade"]

Ends(p, how) == /\ call' = [call EXCEPT ![p] = Idle]
                /\ made' = [made EXCEPT ![call[p].id] = how]

(* The whole batch is validated before the database is touched.              *)
Enqueue(p, items) ==
    /\ call[p].step = "idle"
    /\ \E b \in 1..Batches :
         /\ made[b] = "unmade" /\ \A c \in 1..(b - 1) : made[c] # "unmade"
         /\ IF \A i \in DOMAIN items : Serializes(items[i])
            THEN /\ made' = [made EXCEPT ![b] = "open"]
                 /\ call' = [call EXCEPT ![p] = [step |-> "waiting", id |-> b, items |-> items]]
            ELSE made' = [made EXCEPT ![b] = "invalid"] /\ UNCHANGED call
    /\ UNCHANGED <<rows, writer, staged>>

(* An immediate transaction takes the write lock first, or times out on it.  *)
Begin(p) ==
    /\ call[p].step = "waiting" /\ writer = "none"
    /\ writer' = p
    /\ call' = [call EXCEPT ![p].step = "admitting"]
    /\ UNCHANGED <<rows, staged, made>>
Busy(p) == /\ call[p].step = "waiting" /\ writer # "none"
           /\ Ends(p, "busy")
           /\ UNCHANGED <<rows, writer, staged>>

Row(p, i) == [id |-> call[p].id, at |-> i, route |-> call[p].items[i].route,
              bytes |-> call[p].items[i].bytes]
Bytes(S) == SumFunctionOnSet([r \in S |-> r.bytes], S)
Used(route) == {r \in rows : r.route = route}
Added(p, route) == {Row(p, i) : i \in {j \in DOMAIN call[p].items : call[p].items[j].route = route}}
Fits(p) ==
    \A route \in {call[p].items[i].route : i \in DOMAIN call[p].items} :
      /\ Cardinality(Used(route)) + Cardinality(Added(p, route)) <= MaxRecords
      /\ Bytes(Used(route)) + Bytes(Added(p, route)) <= MaxBytes

Admit(p) ==
    /\ call[p].step = "admitting"
    /\ IF Fits(p)
       THEN call' = [call EXCEPT ![p].step = "inserting"] /\ UNCHANGED <<writer, made>>
       ELSE Ends(p, "full") /\ writer' = "none"
    /\ UNCHANGED <<rows, staged>>

Insert(p) ==
    /\ call[p].step = "inserting" /\ Cardinality(staged) < Len(call[p].items)
    /\ staged' = staged \cup {Row(p, Cardinality(staged) + 1)}
    /\ UNCHANGED <<rows, writer, call, made>>
Commit(p) ==
    /\ call[p].step = "inserting" /\ Cardinality(staged) = Len(call[p].items)
    /\ rows' = rows \cup staged /\ staged' = {} /\ writer' = "none"
    /\ Ends(p, "stored")

Crash(p) ==
    /\ call[p].step # "idle"
    /\ Ends(p, "lost")
    /\ IF writer = p THEN writer' = "none" /\ staged' = {} ELSE UNCHANGED <<writer, staged>>
    /\ UNCHANGED rows

Next == \E p \in Procs :
          \/ \E items \in Calls : Enqueue(p, items)
          \/ Begin(p) \/ Busy(p) \/ Admit(p) \/ Insert(p) \/ Commit(p) \/ Crash(p)
Spec == Init /\ [][Next]_vars

-----------------------------------------------------------------------------
(* Admission keeps every workspace and monitor within both bounds, whoever   *)
(* enqueues at the same time, and a call that was refused, or whose process  *)
(* died, leaves none of its records (enqueueMaterializationRetries).         *)
Bounded ==
    \A route \in Routes : Cardinality(Used(route)) <= MaxRecords
                          /\ Bytes(Used(route)) <= MaxBytes
AllOrNothing ==
    \A r \in rows : made[r.id] = "stored"
=============================================================================
