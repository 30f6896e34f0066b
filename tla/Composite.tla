----------------------------- MODULE Composite -----------------------------
(***************************************************************************)
(* observeComposite of api-poll over mapWithConcurrency: a pool of workers *)
(* fetches the parts, the first failure aborts the batch, and the snapshot *)
(* is made of all parts or not at all.  A fetch is fetchBody with          *)
(* readBoundedBody: a request, a body read in chunks under a byte limit, a *)
(* timer and the batch's abort signal.                                     *)
(***************************************************************************)
EXTENDS Naturals, FiniteSets, FiniteSetsExt

CONSTANTS Parts,       \* a set 1..n: the parts, in the order of the config
          Limit,       \* MAX_COMPOSITE_CONCURRENCY
          MaxBody,     \* MAX_RESPONSE_BYTES
          MaxTotal     \* MAX_COMPOSITE_BYTES

VARIABLES nextIndex,
          fetch,       \* [Parts -> "waiting", "requested", "reading", "body", "done" or "failed"]
          read,        \* bytes read of each part
          aborted,     \* batchController.signal
          workers,     \* workers that still run their loop
          totalBytes,
          outcome,     \* "none", "rejected" or "resolved": what the race settled as
          started      \* parts whose fetch began after the batch had failed

vars == <<nextIndex, fetch, read, aborted, workers, totalBytes, outcome, started>>

Are(s) == {p \in Parts : fetch[p] = s}
InFlight == Are("requested") \cup Are("reading") \cup Are("body")
Length(p) == read[p] + 1     \* with the frame of the part

TypeOK ==
  /\ nextIndex \in 1..(Cardinality(Parts) + 1)
  /\ fetch \in [Parts -> {"waiting", "requested", "reading", "body", "done", "failed"}]
  /\ read \in [Parts -> 0..(MaxBody + 1)]
  /\ aborted \in BOOLEAN /\ workers \in 0..Limit /\ outcome \in {"none", "rejected", "resolved"}
  /\ totalBytes \in Nat
  /\ started \subseteq Parts /\ Cardinality(InFlight) <= workers

Init ==
  /\ nextIndex = 1 /\ fetch = [p \in Parts |-> "waiting"] /\ read = [p \in Parts |-> 0]
  /\ aborted = FALSE /\ workers = Min({Limit, Cardinality(Parts)}) /\ totalBytes = 0
  /\ outcome = "none" /\ started = {}

Set(p, s) == fetch' = [fetch EXCEPT ![p] = s]

\* The head of a worker's loop: is there another part to take?
TakesAnother == ~aborted /\ nextIndex \in Parts

\* An idle worker takes the next part, or ends.
WorkerTakes ==
  /\ Cardinality(InFlight) < workers
  /\ IF TakesAnother
     THEN /\ Set(nextIndex, "requested") /\ nextIndex' = nextIndex + 1
          /\ started' = IF aborted THEN started \cup {nextIndex} ELSE started
          /\ UNCHANGED workers
     ELSE workers' = workers - 1 /\ UNCHANGED <<fetch, nextIndex, started>>
  /\ UNCHANGED <<read, aborted, totalBytes, outcome>>

\* A fetch throws: the batch is aborted and the race lost; the worker ends.
Fails(p) ==
  /\ Set(p, "failed") /\ workers' = workers - 1
  /\ aborted' = TRUE /\ outcome' = IF outcome = "none" THEN "rejected" ELSE outcome

\* Connection error, timeout, or the abort of the batch.
FetchThrows(p) ==
  /\ fetch[p] \in {"requested", "reading"} /\ Fails(p)
  /\ UNCHANGED <<nextIndex, read, totalBytes, started>>

\* Headers: a declared length over the limit is refused before anything is read.
Headers(p, declared) ==
  /\ fetch[p] = "requested"
  /\ IF declared > MaxBody THEN Fails(p) ELSE Set(p, "reading") /\ UNCHANGED <<workers, aborted, outcome>>
  /\ UNCHANGED <<nextIndex, read, totalBytes, started>>

\* A chunk: lengths are not trusted, the limit is checked as it streams in.
ReadChunk(p) ==
  /\ fetch[p] = "reading" /\ ~aborted
  /\ read' = [read EXCEPT ![p] = @ + 1]
  /\ IF read[p] + 1 > MaxBody THEN Fails(p) ELSE UNCHANGED <<fetch, workers, aborted, outcome>>
  /\ UNCHANGED <<nextIndex, totalBytes, started>>

EndOfBody(p) ==
  /\ fetch[p] = "reading" /\ ~aborted /\ Set(p, "body")
  /\ UNCHANGED <<nextIndex, read, aborted, workers, totalBytes, outcome, started>>

Counted(p) == totalBytes + Length(p)

\* Back in the part's callback: an HTTP error, or the part counts against the budget.
PartArrives(p, status) ==
  /\ fetch[p] = "body"
  /\ IF status = "error" THEN Fails(p) /\ UNCHANGED totalBytes
     ELSE /\ totalBytes' = Counted(p)
          /\ IF totalBytes' > MaxTotal THEN Fails(p)
             ELSE Set(p, "done") /\ UNCHANGED <<workers, aborted, outcome>>
  /\ UNCHANGED <<nextIndex, read, started>>

\* Every worker ended before any failed: the snapshot is rendered, and compared if its
\* parts with the separators between them are still within the budget.
RenderedBytes == totalBytes + Cardinality(Parts) - 1

AllSettled ==
  /\ workers = 0 /\ outcome = "none"
  /\ outcome' = IF RenderedBytes > MaxTotal THEN "rejected" ELSE "resolved"
  /\ UNCHANGED <<nextIndex, fetch, read, aborted, workers, totalBytes, started>>

Next ==
  \/ WorkerTakes \/ AllSettled
  \/ \E p \in Parts : \/ FetchThrows(p) \/ ReadChunk(p) \/ EndOfBody(p)
                      \/ \E d \in {0, MaxBody + 1} : Headers(p, d)
                      \/ \E s \in {"success", "error"} : PartArrives(p, s)

Spec == Init /\ [][Next]_vars

-----------------------------------------------------------------------------
\* A snapshot has every part and is within the budget, whichever way the fetches
\* interleave: a failed or missing part never becomes a baseline with a hole in it.
CompleteOrNothing ==
  LET bytes == SumFunctionOnSet([p \in Parts |-> Length(p)], Are("done")) IN
  /\ outcome = "resolved" => Are("done") = Parts /\ bytes + Cardinality(Parts) - 1 <= MaxTotal
  /\ bytes <= MaxTotal

\* Once a part has failed no other request is sent.
NothingStartsAfterFailure == started = {}
=============================================================================
