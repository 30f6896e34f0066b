------------------------------ MODULE Watchers ------------------------------
(***************************************************************************)
(* Continuous watchers beside the tick (watchMonitors, consumeWatch and    *)
(* writeCheckpoint of libs/core/src/runtime/service.ts), for one monitor   *)
(* whose source has both observe() and watch().  A watcher holds the       *)
(* monitor's slot, so that ticks skip it; its ingests and checkpoints run  *)
(* one after the other on a promise chain of its own.  The source is       *)
(* abstract: it yields and checkpoints what it likes of the world's        *)
(* versions, in order, even after it was told to stop.                     *)
(***************************************************************************)
EXTENDS Integers, Sequences

CONSTANTS
    Tokens,      \* one per watcher that is ever started
    MaxVersion,  \* bound: changes of the world
    MaxChain,    \* bound: tasks on a watcher's chain
    MaxRestarts  \* bound: restarts of the daemon

None == "none"

ASSUME WatchersAssumption ==
    /\ {MaxVersion, MaxChain, MaxRestarts} \subseteq Nat
    /\ None \notin Tokens

VARIABLES
    world,      \* the version the world is at
    baseline,   \* the sourceState of the monitor's row
    slot,       \* activeWatchers: the token that holds the monitor
    watcher,    \* each watcher: where it is, what its source has seen
    chain,      \* each watcher's tasks, the first of them running
    tick,       \* the tick's observe() in flight, or idle
    reached,    \* the newest version ever ingested
    restarts,
    raced       \* a watcher was started while a tick awaited observe()

vars == <<world, baseline, slot, watcher, chain, tick, reached, restarts, raced>>

Idle == [pc |-> "idle"]

(* "new"; "watching": in the iterator; "ingesting": waits for its ingest;  *)
(* "ended".  "aborted" is the abort signal.                                *)
Fresh == [pc |-> "new", aborted |-> FALSE, seen |-> 0]

Init ==
    /\ world = 0 /\ baseline = 0 /\ reached = 0
    /\ slot = None
    /\ watcher = [w \in Tokens |-> Fresh]
    /\ chain = [w \in Tokens |-> <<>>]
    /\ tick = Idle
    /\ restarts = 0 /\ raced = FALSE

(* The task that runs, or is next, on a watcher's chain.                   *)
Running(w) == IF chain[w] = <<>> THEN None ELSE chain[w][1].task

(* What is queued runs in microtasks, before anyone else does anything;    *)
(* but not what waits for an adapter.                                      *)
Rests(w) == Running(w) \in {None, "interpret"}
OthersRest(w) == \A u \in Tokens \ {w} : Rests(u)
ChainsRest == \A w \in Tokens : Rests(w)

Mut_ReachSums(v) == reached' = reached + v

Reach(v) == reached' = IF v > reached THEN v ELSE reached

Change ==
    /\ world < MaxVersion
    /\ world' = world + 1
    /\ UNCHANGED <<baseline, slot, watcher, chain, tick, reached, restarts, raced>>

(* watchMonitors, and consumeWatch up to its first await.                  *)
Start(w) ==
    /\ watcher[w].pc = "new" /\ slot = None /\ ChainsRest
    /\ slot' = w
    /\ watcher' = [watcher EXCEPT ![w].pc = "watching", ![w].seen = baseline]
    /\ raced' = (raced \/ tick # Idle)
    /\ UNCHANGED <<world, baseline, chain, tick, reached, restarts>>

(* The source yields what it sees: its ingest joins the chain.             *)
Yield(w) ==
    /\ watcher[w].pc = "watching" /\ ~watcher[w].aborted
    /\ watcher[w].seen < world /\ Len(chain[w]) < MaxChain /\ OthersRest(w)
    /\ watcher' = [watcher EXCEPT ![w].pc = "ingesting", ![w].seen = world]
    /\ chain' = [chain EXCEPT ![w] = Append(@, [task |-> "ingest", v |-> world])]
    /\ UNCHANGED <<world, baseline, slot, tick, reached, restarts, raced>>

Mut_StragglerWrites(w) ==
    /\ watcher[w].pc # "new" /\ Len(chain[w]) < MaxChain /\ OthersRest(w)
    /\ chain' = [chain EXCEPT ![w] = Append(@, [task |-> "checkpoint",
                                                v |-> watcher[w].seen])]
    /\ UNCHANGED <<world, baseline, slot, watcher, tick, reached, restarts, raced>>

(* The source checkpoints what it has seen, from a callback of its own; a  *)
(* straggler is ignored.                                                   *)
Checkpoint(w) ==
    /\ watcher[w].pc # "new" /\ Len(chain[w]) < MaxChain /\ OthersRest(w)
    /\ ~watcher[w].aborted /\ slot = w
    /\ chain' = [chain EXCEPT ![w] = Append(@, [task |-> "checkpoint",
                                                v |-> watcher[w].seen])]
    /\ UNCHANGED <<world, baseline, slot, watcher, tick, reached, restarts, raced>>

(* writeCheckpoint: the row takes the state, or the write fails.           *)
RunCheckpoint(w) ==
    /\ Running(w) = "checkpoint"
    /\ baseline' \in {baseline, Head(chain[w]).v}
    /\ chain' = [chain EXCEPT ![w] = Tail(@)]
    /\ UNCHANGED <<world, slot, watcher, tick, reached, restarts, raced>>

(* ingest: its durable part, then the adapter; the row's sourceState is    *)
(* written back as it was read.                                            *)
RunIngest(w) ==
    /\ Running(w) = "ingest"
    /\ Reach(Head(chain[w]).v)
    /\ chain' = [chain EXCEPT ![w][1].task = "interpret"]
    /\ UNCHANGED <<world, baseline, slot, watcher, tick, restarts, raced>>

IngestDone(w) ==
    /\ Running(w) = "interpret"
    /\ chain' = [chain EXCEPT ![w] = Tail(@)]
    /\ watcher' = [watcher EXCEPT ![w].pc = "watching"]
    /\ UNCHANGED <<world, baseline, slot, tick, reached, restarts, raced>>

(* stop(): every signal is aborted.                                        *)
Stop ==
    /\ \E w \in Tokens : watcher[w].pc \in {"watching", "ingesting"} /\ ~watcher[w].aborted
    /\ watcher' = [w \in Tokens |->
                     IF watcher[w].pc = "new" THEN watcher[w]
                     ELSE [watcher[w] EXCEPT !.aborted = TRUE]]
    /\ UNCHANGED <<world, baseline, slot, chain, tick, reached, restarts, raced>>

Mut_EndKeepsSlot(w) ==
    /\ watcher[w].pc = "watching" /\ OthersRest(w)
    /\ watcher' = [watcher EXCEPT ![w].pc = "ended"]
    /\ UNCHANGED <<world, baseline, slot, chain, tick, reached, restarts, raced>>

(* The iterator ends, throws, or honours the abort: the slot is released,  *)
(* and what is left of the chain is flushed.                               *)
End(w) ==
    /\ watcher[w].pc = "watching" /\ OthersRest(w)
    /\ watcher' = [watcher EXCEPT ![w].pc = "ended"]
    /\ slot' = IF slot = w THEN None ELSE slot
    /\ UNCHANGED <<world, baseline, chain, tick, reached, restarts, raced>>

StartObserve ==
    /\ tick = Idle /\ slot = None /\ ChainsRest
    /\ tick' = [pc |-> "observing", previous |-> baseline, from |-> world]
    /\ UNCHANGED <<world, baseline, slot, watcher, chain, reached, restarts, raced>>

(* observe() returns the world as it was at some moment of the call.       *)
EndObserve ==
    /\ tick # Idle /\ ChainsRest
    /\ \E seen \in tick.from .. world :
         /\ baseline' = seen
         /\ IF seen > tick.previous THEN Reach(seen) ELSE UNCHANGED reached
    /\ tick' = Idle
    /\ UNCHANGED <<world, slot, watcher, chain, restarts, raced>>

(* The daemon dies and comes back: only the row survives.                  *)
Restart ==
    /\ restarts < MaxRestarts
    /\ restarts' = restarts + 1
    /\ slot' = None /\ tick' = Idle
    /\ watcher' = [w \in Tokens |-> Fresh]
    /\ chain' = [w \in Tokens |-> <<>>]
    /\ UNCHANGED <<world, baseline, reached, raced>>

Run(w) == RunCheckpoint(w) \/ RunIngest(w) \/ IngestDone(w)

Next ==
    \/ Change \/ Stop \/ Restart
    \/ StartObserve \/ EndObserve
    \/ \E w \in Tokens :
         \/ Start(w) \/ Yield(w) \/ Checkpoint(w) \/ End(w)
         \/ RunCheckpoint(w) \/ RunIngest(w) \/ IngestDone(w)

(* The chain runs and the loop keeps ticking; a source yields what it      *)
(* sees, and one that was told to stop ends.                               *)
Spec ==
    /\ Init /\ [][Next]_vars
    /\ SF_vars(StartObserve) /\ WF_vars(EndObserve)
    /\ \A w \in Tokens :
         /\ WF_vars(Run(w)) /\ SF_vars(Yield(w))
         /\ WF_vars(watcher[w].aborted /\ End(w))
-----------------------------------------------------------------------------
Known == 0 .. MaxVersion
Task == [task : {"ingest", "interpret", "checkpoint"}, v : Known]

(* The variables have their types.                                         *)
TypeOK ==
    /\ {world, baseline, reached} \subseteq Known
    /\ slot \in Tokens \cup {None}
    /\ watcher \in [Tokens -> [pc : {"new", "watching", "ingesting", "ended"},
                               aborted : BOOLEAN, seen : Known]]
    /\ chain \in [Tokens -> Seq(Task)]
    /\ \A w \in Tokens : Len(chain[w]) <= MaxChain
    /\ tick = Idle \/ tick \in [pc : {"observing"}, previous : Known, from : Known]
    /\ raced \in BOOLEAN

(* "A straggling checkpoint must never clobber a newer baseline": however  *)
(* watchers end, are superseded and checkpoint late, the stored baseline   *)
(* never goes back, unless a watcher was started over a tick in flight.    *)
BaselineNeverRewinds == [][baseline' >= baseline \/ raced]_vars

(* Whatever becomes of the watchers, each version of the world is passed   *)
(* by an ingest or by the baseline at last: no dead watcher keeps the      *)
(* monitor from the tick.                                                  *)
AlwaysDriven ==
    \A v \in 1 .. MaxVersion : (world = v) ~> (reached >= v \/ baseline >= v)
=============================================================================
