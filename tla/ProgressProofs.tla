---------------------------- MODULE ProgressProofs --------------------------
(***************************************************************************)
(* Watchers, ticks and restarts never take a stored baseline back, however *)
(* many watchers are started one after the other, whatever they checkpoint *)
(* and whenever they end; and what the release workflow and verify's       *)
(* clean-up report done is done.                                           *)
(***************************************************************************)
EXTENDS Progress, SequenceTheorems, TLAPS

(* The inductive invariant, beside TypeOK.  The watchers in the iterator   *)
(* or in an ingest are the one that holds the slot.                        *)
SlotInv ==
    \A w \in Tokens : watcher[w].pc \in {"watching", "ingesting"} <=> slot = w

(* Only a watcher that waits for its ingest has one on its chain: one that *)
(* has ended has left checkpoints at most.                                 *)
IsIngest(task) == task.task # "checkpoint"
IngestInv ==
    \A w \in Tokens : \A i \in DOMAIN chain[w] :
        IsIngest(chain[w][i]) =>
            /\ watcher[w].pc = "ingesting"
            /\ \A j \in DOMAIN chain[w] : IsIngest(chain[w][j]) => j = i

(* One chain at a time has tasks: the slot holder's, or, with the slot     *)
(* free, the one its last holder has left.                                 *)
OneChain ==
    \A w, u \in Tokens :
        w # u /\ (slot = w \/ chain[w] # <<>>) => chain[u] = <<>>

(* What is on a chain lies between the baseline and what its source has    *)
(* seen, in order; a tick under way, with no watcher beside it, saw at     *)
(* least the baseline.                                                     *)
InOrder(w) ==
    /\ \A i \in DOMAIN chain[w] :
          baseline <= chain[w][i].v /\ chain[w][i].v <= watcher[w].seen
    /\ \A i, j \in DOMAIN chain[w] : i <= j => chain[w][i].v <= chain[w][j].v
WorldLeads ==
    /\ baseline <= world
    /\ \A w \in Tokens : watcher[w].seen <= world
    /\ \A w \in Tokens : \A i \in DOMAIN chain[w] : chain[w][i].v <= world
OrderInv ==
    ~raced =>
        /\ \A w \in Tokens : slot = w => baseline <= watcher[w].seen
        /\ \A w \in Tokens : InOrder(w)
        /\ tick # Idle => /\ baseline <= tick.from
                          /\ slot = None /\ \A w \in Tokens : chain[w] = <<>>

IInv == TypeOK /\ SlotInv /\ IngestInv /\ OneChain /\ WorldLeads /\ OrderInv

-----------------------------------------------------------------------------
(***************************************************************************)
(* What becomes of a chain: a task joins it, or its first one is done.     *)
(***************************************************************************)
LEMMA KnownAreNaturals == Known \subseteq Nat /\ \A v \in Known : 0 <= v /\ v <= MaxVersion
BY WatchersAssumption DEF Known

LEMMA NumbersKnown ==
    ASSUME TypeOK
    PROVE  /\ baseline \in Nat /\ world \in Nat
           /\ \A w \in Tokens : watcher[w].seen \in Nat
           /\ \A w \in Tokens : \A i \in DOMAIN chain[w] : chain[w][i].v \in Nat
<1>1. \A w \in Tokens : \A i \in DOMAIN chain[w] : chain[w][i] \in Task
  BY DEF TypeOK
<1>2. QED
  BY <1>1, KnownAreNaturals DEF TypeOK, Task

LEMMA Joins ==
    ASSUME TypeOK, NEW w \in Tokens, NEW x \in Task, Len(chain[w]) < MaxChain,
           chain' = [chain EXCEPT ![w] = Append(@, x)]
    PROVE  /\ chain' \in [Tokens -> Seq(Task)]
           /\ \A u \in Tokens : Len(chain'[u]) <= MaxChain
           /\ \A u \in Tokens \ {w} : chain'[u] = chain[u]
           /\ Len(chain'[w]) = Len(chain[w]) + 1
           /\ \A i \in DOMAIN chain[w] : chain'[w][i] = chain[w][i]
           /\ chain'[w][Len(chain[w]) + 1] = x
<1>1. chain[w] \in Seq(Task) /\ Len(chain[w]) \in Nat
  BY DEF TypeOK
<1>2. chain'[w] = Append(chain[w], x)
  BY DEF TypeOK
<1>3. /\ Append(chain[w], x) \in Seq(Task)
      /\ Len(Append(chain[w], x)) = Len(chain[w]) + 1
      /\ \A i \in 1 .. Len(chain[w]) : Append(chain[w], x)[i] = chain[w][i]
      /\ Append(chain[w], x)[Len(chain[w]) + 1] = x
  BY <1>1, AppendProperties
<1>4. Len(chain[w]) + 1 <= MaxChain
  BY <1>1, WatchersAssumption
<1>5. DOMAIN chain[w] = 1 .. Len(chain[w])
  BY <1>1
<1>6. QED
  BY <1>2, <1>3, <1>4, <1>5 DEF TypeOK

LEMMA Leaves ==
    ASSUME TypeOK, NEW w \in Tokens, chain[w] # <<>>,
           chain' = [chain EXCEPT ![w] = Tail(@)]
    PROVE  /\ chain' \in [Tokens -> Seq(Task)]
           /\ \A u \in Tokens : Len(chain'[u]) <= MaxChain
           /\ \A u \in Tokens \ {w} : chain'[u] = chain[u]
           /\ Head(chain[w]) = chain[w][1] /\ 1 \in DOMAIN chain[w] /\ chain[w][1] \in Task
           /\ \A i \in DOMAIN chain'[w] : /\ i \in Nat /\ i + 1 \in DOMAIN chain[w]
                                          /\ i + 1 # 1
                                          /\ chain'[w][i] = chain[w][i + 1]
<1>1. chain[w] \in Seq(Task) /\ Len(chain[w]) \in Nat
  BY DEF TypeOK
<1>2. chain'[w] = Tail(chain[w])
  BY DEF TypeOK
<1>3. /\ Tail(chain[w]) \in Seq(Task) /\ Len(Tail(chain[w])) = Len(chain[w]) - 1
      /\ \A i \in 1 .. Len(Tail(chain[w])) : Tail(chain[w])[i] = chain[w][i + 1]
      /\ Len(chain[w]) # 0
  BY <1>1
<1>4. Len(chain[w]) - 1 <= MaxChain
  BY <1>1, WatchersAssumption DEF TypeOK
<1>5. Head(chain[w]) = chain[w][1] /\ 1 \in DOMAIN chain[w] /\ chain[w][1] \in Task
  BY <1>1, <1>3
<1>6. \A i \in 1 .. Len(chain[w]) - 1 :
         i \in Nat /\ i + 1 \in 1 .. Len(chain[w]) /\ i + 1 # 1
  BY <1>1
<1>7. QED
  BY <1>1, <1>2, <1>3, <1>4, <1>5, <1>6 DEF TypeOK

LEMMA Marked ==
    ASSUME TypeOK, NEW w \in Tokens, chain[w] # <<>>,
           chain' = [chain EXCEPT ![w][1].task = "interpret"]
    PROVE  /\ chain' \in [Tokens -> Seq(Task)]
           /\ \A u \in Tokens : Len(chain'[u]) <= MaxChain
           /\ \A u \in Tokens \ {w} : chain'[u] = chain[u]
           /\ Head(chain[w]) = chain[w][1] /\ 1 \in DOMAIN chain[w] /\ chain[w][1] \in Task
           /\ DOMAIN chain'[w] = DOMAIN chain[w]
           /\ chain'[w] # <<>>
           /\ \A i \in DOMAIN chain[w] : /\ chain'[w][i].v = chain[w][i].v
                                         /\ i # 1 => chain'[w][i] = chain[w][i]
<1> DEFINE first == [chain[w][1] EXCEPT !.task = "interpret"]
<1>1. chain[w] \in Seq(Task) /\ 1 \in DOMAIN chain[w] /\ chain[w][1] \in Task
      /\ Head(chain[w]) = chain[w][1]
  BY DEF TypeOK
<1>2. first \in Task /\ first.v = chain[w][1].v
  BY <1>1 DEF Task
<1> HIDE DEF first
<1>3. chain'[w] = [chain[w] EXCEPT ![1] = first]
  BY DEF TypeOK, first
<1>4. /\ chain'[w] \in Seq(Task) /\ Len(chain'[w]) = Len(chain[w])
      /\ \A i \in 1 .. Len(chain[w]) : chain'[w][i] = IF i = 1 THEN first ELSE chain[w][i]
  BY <1>1, <1>2, <1>3, ExceptSeq
<1>5. QED
  BY <1>1, <1>2, <1>4 DEF TypeOK

(* A resting chain that is not the slot holder's is empty.                 *)
LEMMA RunningTask ==
    ASSUME TypeOK, NEW w \in Tokens
    PROVE  /\ chain[w] = <<>> <=> Running(w) = None
           /\ chain[w] # <<>> => Running(w) = chain[w][1].task /\ 1 \in DOMAIN chain[w]
<1>1. chain[w] \in Seq(Task)
  BY DEF TypeOK
<1>2. chain[w] # <<>> => chain[w][1] \in Task /\ 1 \in DOMAIN chain[w]
  BY <1>1
<1>3. \A x \in Task : x.task # None
  BY DEF Task, None
<1>4. QED
  BY <1>2, <1>3 DEF Running

LEMMA IngestMarks ==
    ASSUME TypeOK, NEW w \in Tokens, RunIngest(w)
    PROVE  /\ chain' \in [Tokens -> Seq(Task)]
           /\ \A u \in Tokens : Len(chain'[u]) <= MaxChain
           /\ Head(chain[w]) \in Task
<1>1. chain[w] # <<>>
  BY RunningTask DEF RunIngest, None
<1>2. QED
  BY <1>1, Marked DEF RunIngest

LEMMA RestingIsEmpty ==
    ASSUME TypeOK, SlotInv, IngestInv, NEW w \in Tokens, Rests(w), slot # w
    PROVE  chain[w] = <<>>
BY RunningTask DEF SlotInv, IngestInv, IsIngest, Rests, None

-----------------------------------------------------------------------------
(***************************************************************************)
(* Each part of the invariant is preserved by each action.                 *)
(***************************************************************************)

LEMMA StepTypes == TypeOK /\ WorldLeads /\ [Next]_vars => TypeOK'
<1> SUFFICES ASSUME TypeOK, WorldLeads, [Next]_vars
             PROVE  TypeOK'
  OBVIOUS
<1> USE WatchersAssumption DEF TypeOK, WorldLeads, Known
<1>1. ASSUME Change PROVE TypeOK'
  BY <1>1 DEF Change
<1>2. ASSUME Stop PROVE TypeOK'
  BY <1>2 DEF Stop
<1>3. ASSUME Restart PROVE TypeOK'
  BY <1>3 DEF Restart, Fresh, Idle
<1>4. ASSUME StartObserve PROVE TypeOK'
  BY <1>4 DEF StartObserve, Idle, ChainsRest, Rests, Running
<1>5. ASSUME EndObserve PROVE TypeOK'
  BY <1>5 DEF EndObserve, Idle, ChainsRest, Rests, Running, Reach
<1>6. ASSUME NEW w \in Tokens, Start(w) PROVE TypeOK'
  <2>1. /\ watcher' = [watcher EXCEPT ![w].pc = "watching", ![w].seen = baseline]
        /\ slot' = w /\ raced' = (raced \/ tick # Idle)
        /\ UNCHANGED <<world, baseline, chain, tick, reached>>
    BY <1>6 DEF Start
  <2>2. QED
    BY <2>1
<1>7. ASSUME NEW w \in Tokens, Yield(w) PROVE TypeOK'
  <2>1. [task |-> "ingest", v |-> world] \in Task
    BY DEF Task
  <2>2. /\ chain' \in [Tokens -> Seq(Task)]
        /\ \A u \in Tokens : Len(chain'[u]) <= MaxChain
    BY <1>7, <2>1, Joins DEF Yield
  <2>3. QED
    BY <1>7, <2>2, SMTT(30) DEF Yield
<1>8. ASSUME NEW w \in Tokens, Checkpoint(w) PROVE TypeOK'
  <2>1. [task |-> "checkpoint", v |-> watcher[w].seen] \in Task
    BY DEF Task
  <2>2. /\ chain' \in [Tokens -> Seq(Task)]
        /\ \A u \in Tokens : Len(chain'[u]) <= MaxChain
    BY <1>8, <2>1, Joins DEF Checkpoint
  <2>3. QED
    BY <1>8, <2>2 DEF Checkpoint
<1>9. ASSUME NEW w \in Tokens, End(w) PROVE TypeOK'
  BY <1>9 DEF End, OthersRest, Rests, Running
<1>10. ASSUME NEW w \in Tokens, RunCheckpoint(w) PROVE TypeOK'
  <2>1. chain[w] # <<>>
    BY <1>10, RunningTask DEF RunCheckpoint, None
  <2>2. /\ chain' \in [Tokens -> Seq(Task)]
        /\ \A u \in Tokens : Len(chain'[u]) <= MaxChain
        /\ Head(chain[w]) \in Task
    BY <1>10, <2>1, Leaves DEF RunCheckpoint
  <2>3. baseline' \in Known
    BY <1>10, <2>2 DEF RunCheckpoint, Task
  <2>4. QED
    BY <1>10, <2>2, <2>3 DEF RunCheckpoint
<1>11. ASSUME NEW w \in Tokens, RunIngest(w) PROVE TypeOK'
  <2>2. /\ chain' \in [Tokens -> Seq(Task)]
        /\ \A u \in Tokens : Len(chain'[u]) <= MaxChain
        /\ Head(chain[w]) \in Task
    BY <1>11, IngestMarks
  <2>3. reached' \in Known
    BY <1>11, <2>2 DEF RunIngest, Reach, Task
  <2>4. UNCHANGED <<world, baseline, slot, watcher, tick, raced>>
    BY <1>11 DEF RunIngest
  <2>5. QED
    BY <2>2, <2>3, <2>4
<1>12. ASSUME NEW w \in Tokens, IngestDone(w) PROVE TypeOK'
  <2>1. chain[w] # <<>>
    BY <1>12, RunningTask DEF IngestDone, None
  <2>2. /\ chain' \in [Tokens -> Seq(Task)]
        /\ \A u \in Tokens : Len(chain'[u]) <= MaxChain
        /\ Head(chain[w]) \in Task
    BY <1>12, <2>1, Leaves DEF IngestDone
  <2>3. /\ watcher' = [watcher EXCEPT ![w].pc = "watching"]
        /\ UNCHANGED <<world, baseline, slot, tick, reached, raced>>
    BY <1>12 DEF IngestDone
  <2>4. QED
    BY <2>2, <2>3
<1>13. CASE UNCHANGED vars
  BY <1>13 DEF vars
<1>14. QED
  BY <1>1, <1>2, <1>3, <1>4, <1>5, <1>6, <1>7, <1>8, <1>9, <1>10, <1>11, <1>12,
     <1>13 DEF Next

LEMMA StepSlot == TypeOK /\ SlotInv /\ IngestInv /\ [Next]_vars => SlotInv'
<1> SUFFICES ASSUME TypeOK, SlotInv, IngestInv, [Next]_vars
             PROVE  SlotInv'
  OBVIOUS
<1> USE WatchersAssumption DEF TypeOK, SlotInv
<1>1. ASSUME Change PROVE SlotInv'
  BY <1>1 DEF Change
<1>2. ASSUME Stop PROVE SlotInv'
  BY <1>2 DEF Stop
<1>3. ASSUME Restart PROVE SlotInv'
  BY <1>3 DEF Restart, Fresh, Idle
<1>4. ASSUME StartObserve PROVE SlotInv'
  BY <1>4 DEF StartObserve, Idle, ChainsRest, Rests, Running
<1>5. ASSUME EndObserve PROVE SlotInv'
  BY <1>5 DEF EndObserve, Idle, ChainsRest, Rests, Running, Reach
<1>6. ASSUME NEW w \in Tokens, Start(w) PROVE SlotInv'
  BY <1>6 DEF Start, ChainsRest, Rests, Running
<1>7. ASSUME NEW w \in Tokens, Yield(w) PROVE SlotInv'
  BY <1>7 DEF Yield, OthersRest, Rests, Running
<1>8. ASSUME NEW w \in Tokens, Checkpoint(w) PROVE SlotInv'
  BY <1>8 DEF Checkpoint, OthersRest, Rests, Running
<1>9. ASSUME NEW w \in Tokens, End(w) PROVE SlotInv'
  BY <1>9 DEF End, OthersRest, Rests, Running
<1>10. ASSUME NEW w \in Tokens, RunCheckpoint(w) PROVE SlotInv'
  BY <1>10 DEF RunCheckpoint, Running
<1>11. ASSUME NEW w \in Tokens, RunIngest(w) PROVE SlotInv'
  BY <1>11 DEF RunIngest, Running, Reach
<1>12. ASSUME NEW w \in Tokens, IngestDone(w) PROVE SlotInv'
  <2>1. watcher[w].pc = "ingesting"
    BY <1>12, RunningTask DEF IngestDone, IngestInv, IsIngest, None
  <2>2. QED
    BY <1>12, <2>1 DEF IngestDone
<1>13. CASE UNCHANGED vars
  BY <1>13 DEF vars
<1>14. QED
  BY <1>1, <1>2, <1>3, <1>4, <1>5, <1>6, <1>7, <1>8, <1>9, <1>10, <1>11, <1>12,
     <1>13 DEF Next

LEMMA StepIngest == TypeOK /\ SlotInv /\ IngestInv /\ [Next]_vars => IngestInv'
<1> SUFFICES ASSUME TypeOK, SlotInv, IngestInv, [Next]_vars
             PROVE  IngestInv'
  OBVIOUS
<1> USE WatchersAssumption DEF TypeOK, SlotInv, IngestInv, IsIngest
<1>1. ASSUME Change PROVE IngestInv'
  BY <1>1 DEF Change
<1>2. ASSUME Stop PROVE IngestInv'
  BY <1>2 DEF Stop
<1>3. ASSUME Restart PROVE IngestInv'
  BY <1>3 DEF Restart, Fresh, Idle
<1>4. ASSUME StartObserve PROVE IngestInv'
  BY <1>4 DEF StartObserve, Idle, ChainsRest, Rests, Running
<1>5. ASSUME EndObserve PROVE IngestInv'
  BY <1>5 DEF EndObserve, Idle, ChainsRest, Rests, Running, Reach
<1>6. ASSUME NEW w \in Tokens, Start(w) PROVE IngestInv'
  BY <1>6 DEF Start, ChainsRest, Rests, Running
<1>7. ASSUME NEW w \in Tokens, Yield(w) PROVE IngestInv'
  BY <1>7 DEF Yield, OthersRest, Rests, Running
<1>8. ASSUME NEW w \in Tokens, Checkpoint(w) PROVE IngestInv'
  BY <1>8 DEF Checkpoint, OthersRest, Rests, Running
<1>9. ASSUME NEW w \in Tokens, End(w) PROVE IngestInv'
  BY <1>9 DEF End, OthersRest, Rests, Running
<1>10. ASSUME NEW w \in Tokens, RunCheckpoint(w) PROVE IngestInv'
  BY <1>10 DEF RunCheckpoint, Running
<1>11. ASSUME NEW w \in Tokens, RunIngest(w) PROVE IngestInv'
  BY <1>11 DEF RunIngest, Running, Reach
<1>12. ASSUME NEW w \in Tokens, IngestDone(w) PROVE IngestInv'
  BY <1>12 DEF IngestDone, Running
<1>13. CASE UNCHANGED vars
  BY <1>13 DEF vars
<1>14. QED
  BY <1>1, <1>2, <1>3, <1>4, <1>5, <1>6, <1>7, <1>8, <1>9, <1>10, <1>11, <1>12,
     <1>13 DEF Next

LEMMA StepOneChain == TypeOK /\ SlotInv /\ IngestInv /\ OneChain /\ [Next]_vars => OneChain'
<1> SUFFICES ASSUME TypeOK, SlotInv, IngestInv, OneChain, [Next]_vars
             PROVE  OneChain'
  OBVIOUS
<1> USE WatchersAssumption DEF TypeOK, SlotInv, IngestInv, OneChain, IsIngest
<1>1. ASSUME Change PROVE OneChain'
  BY <1>1 DEF Change
<1>2. ASSUME Stop PROVE OneChain'
  BY <1>2 DEF Stop
<1>3. ASSUME Restart PROVE OneChain'
  BY <1>3 DEF Restart, Fresh, Idle
<1>4. ASSUME StartObserve PROVE OneChain'
  BY <1>4 DEF StartObserve, Idle, ChainsRest, Rests, Running
<1>5. ASSUME EndObserve PROVE OneChain'
  BY <1>5 DEF EndObserve, Idle, ChainsRest, Rests, Running, Reach
<1>6. ASSUME NEW w \in Tokens, Start(w) PROVE OneChain'
  <2>1. \A u \in Tokens : chain[u] = <<>>
    BY <1>6, RestingIsEmpty, WatchersAssumption DEF Start, ChainsRest
  <2>2. QED
    BY <1>6, <2>1 DEF Start
<1>7. ASSUME NEW w \in Tokens, Yield(w) PROVE OneChain'
  BY <1>7 DEF Yield, OthersRest, Rests, Running
<1>8. ASSUME NEW w \in Tokens, Checkpoint(w) PROVE OneChain'
  BY <1>8 DEF Checkpoint, OthersRest, Rests, Running
<1>9. ASSUME NEW w \in Tokens, End(w) PROVE OneChain'
  BY <1>9 DEF End, OthersRest, Rests, Running
<1>10. ASSUME NEW w \in Tokens, RunCheckpoint(w) PROVE OneChain'
  BY <1>10 DEF RunCheckpoint, Running
<1>11. ASSUME NEW w \in Tokens, RunIngest(w) PROVE OneChain'
  BY <1>11 DEF RunIngest, Running, Reach
<1>12. ASSUME NEW w \in Tokens, IngestDone(w) PROVE OneChain'
  BY <1>12 DEF IngestDone, Running
<1>13. CASE UNCHANGED vars
  BY <1>13 DEF vars
<1>14. QED
  BY <1>1, <1>2, <1>3, <1>4, <1>5, <1>6, <1>7, <1>8, <1>9, <1>10, <1>11, <1>12,
     <1>13 DEF Next

LEMMA StepWorld == TypeOK /\ WorldLeads /\ [Next]_vars => WorldLeads'
<1> SUFFICES ASSUME TypeOK, WorldLeads, [Next]_vars
             PROVE  WorldLeads'
  OBVIOUS
<1> USE WatchersAssumption DEF TypeOK, WorldLeads, Known
<1>1. ASSUME Change PROVE WorldLeads'
  BY <1>1, NumbersKnown DEF Change
<1>2. ASSUME Stop PROVE WorldLeads'
  BY <1>2 DEF Stop
<1>3. ASSUME Restart PROVE WorldLeads'
  BY <1>3 DEF Restart, Fresh, Idle
<1>4. ASSUME StartObserve PROVE WorldLeads'
  BY <1>4 DEF StartObserve, Idle, ChainsRest, Rests, Running
<1>5. ASSUME EndObserve PROVE WorldLeads'
  BY <1>5 DEF EndObserve, Idle, ChainsRest, Rests, Running, Reach
<1>6. ASSUME NEW w \in Tokens, Start(w) PROVE WorldLeads'
  BY <1>6 DEF Start, ChainsRest, Rests, Running
<1>7. ASSUME NEW w \in Tokens, Yield(w) PROVE WorldLeads'
  <2>1. [task |-> "ingest", v |-> world] \in Task
    BY DEF Task
  <2> DEFINE n == Len(chain[w]) + 1
  <2>2. /\ \A u \in Tokens \ {w} : chain'[u] = chain[u]
        /\ DOMAIN chain'[w] = DOMAIN chain[w] \cup {n}
        /\ \A i \in DOMAIN chain[w] : chain'[w][i] = chain[w][i]
        /\ chain'[w][n].v = world
    BY <1>7, <2>1, Joins DEF Yield
  <2>3. QED
    BY <1>7, <2>2, SMTT(30) DEF Yield
<1>8. ASSUME NEW w \in Tokens, Checkpoint(w) PROVE WorldLeads'
  <2>1. [task |-> "checkpoint", v |-> watcher[w].seen] \in Task
    BY DEF Task
  <2> DEFINE n == Len(chain[w]) + 1
  <2>2. /\ \A u \in Tokens \ {w} : chain'[u] = chain[u]
        /\ DOMAIN chain'[w] = DOMAIN chain[w] \cup {n}
        /\ \A i \in DOMAIN chain[w] : chain'[w][i] = chain[w][i]
        /\ chain'[w][n].v = watcher[w].seen
    BY <1>8, <2>1, Joins DEF Checkpoint
  <2>3. QED
    BY <1>8, <2>2 DEF Checkpoint
<1>9. ASSUME NEW w \in Tokens, End(w) PROVE WorldLeads'
  BY <1>9 DEF End, OthersRest, Rests, Running
<1>10. ASSUME NEW w \in Tokens, RunCheckpoint(w) PROVE WorldLeads'
  <2>1. chain[w] # <<>>
    BY <1>10, RunningTask DEF RunCheckpoint, None
  <2>2. /\ \A u \in Tokens \ {w} : chain'[u] = chain[u]
        /\ Head(chain[w]) = chain[w][1] /\ 1 \in DOMAIN chain[w]
        /\ \A i \in DOMAIN chain'[w] : i + 1 \in DOMAIN chain[w] /\ chain'[w][i] = chain[w][i + 1]
    BY <1>10, <2>1, Leaves DEF RunCheckpoint
  <2>3. baseline' <= world
    BY <1>10, <2>2 DEF RunCheckpoint
  <2>4. QED
    BY <1>10, <2>2, <2>3 DEF RunCheckpoint
<1>11. ASSUME NEW w \in Tokens, RunIngest(w) PROVE WorldLeads'
  BY <1>11 DEF RunIngest, Running, Reach
<1>12. ASSUME NEW w \in Tokens, IngestDone(w) PROVE WorldLeads'
  BY <1>12 DEF IngestDone, Running
<1>13. CASE UNCHANGED vars
  BY <1>13 DEF vars
<1>14. QED
  BY <1>1, <1>2, <1>3, <1>4, <1>5, <1>6, <1>7, <1>8, <1>9, <1>10, <1>11, <1>12,
     <1>13 DEF Next

LEMMA StepOrder == TypeOK /\ SlotInv /\ IngestInv /\ OneChain /\ WorldLeads /\ OrderInv /\ [Next]_vars => OrderInv'
<1> SUFFICES ASSUME TypeOK, SlotInv, IngestInv, OneChain, WorldLeads, OrderInv, [Next]_vars
             PROVE  OrderInv'
  OBVIOUS
<1> USE WatchersAssumption DEF TypeOK, SlotInv, OneChain, WorldLeads, OrderInv,
    InOrder
<1>1. ASSUME Change PROVE OrderInv'
  BY <1>1 DEF Change
<1>2. ASSUME Stop PROVE OrderInv'
  BY <1>2 DEF Stop
<1>3. ASSUME Restart PROVE OrderInv'
  BY <1>3 DEF Restart, Fresh, Idle
<1>4. ASSUME StartObserve PROVE OrderInv'
  <2>1. \A u \in Tokens : chain[u] = <<>>
    BY <1>4, RestingIsEmpty, WatchersAssumption DEF StartObserve, ChainsRest
  <2>2. QED
    BY <1>4, <2>1 DEF StartObserve
<1>5. ASSUME EndObserve PROVE OrderInv'
  BY <1>5 DEF EndObserve, Idle, ChainsRest, Rests, Running, Reach
<1>6. ASSUME NEW w \in Tokens, Start(w) PROVE OrderInv'
  <2>1. \A u \in Tokens : chain[u] = <<>>
    BY <1>6, RestingIsEmpty, WatchersAssumption DEF Start, ChainsRest
  <2>2. \A u \in Tokens : DOMAIN chain'[u] = {}
    BY <1>6, <2>1 DEF Start
  <2>3. \A u \in Tokens : slot' = u => watcher'[u].seen = baseline
    BY <1>6 DEF Start
  <2>4. ~raced' => tick' = Idle
    BY <1>6 DEF Start
  <2>5. QED
    BY <1>6, NumbersKnown, <2>2, <2>3, <2>4 DEF Start
<1>7. ASSUME NEW w \in Tokens, Yield(w) PROVE OrderInv'
  BY <1>7 DEF Yield, OthersRest, Rests, Running
<1>8. ASSUME NEW w \in Tokens, Checkpoint(w) PROVE OrderInv'
  <2>1. [task |-> "checkpoint", v |-> watcher[w].seen] \in Task
    BY DEF Task
  <2> DEFINE n == Len(chain[w]) + 1
  <2>2. /\ \A u \in Tokens \ {w} : chain'[u] = chain[u]
        /\ DOMAIN chain'[w] = DOMAIN chain[w] \cup {n}
        /\ \A i \in DOMAIN chain[w] : i < n /\ chain'[w][i] = chain[w][i]
        /\ chain'[w][n].v = watcher[w].seen
    BY <1>8, <2>1, Joins DEF Checkpoint
  <2>3. ~raced => InOrder(w)'
    BY <1>8, <2>2, NumbersKnown, SMTT(30) DEF Checkpoint
  <2>4. tick # Idle => raced
    BY <1>8, WatchersAssumption DEF Checkpoint
  <2>5. QED
    BY <1>8, <2>2, <2>3, <2>4 DEF Checkpoint
<1>9. ASSUME NEW w \in Tokens, End(w) PROVE OrderInv'
  BY <1>9 DEF End, OthersRest, Rests, Running
<1>10. ASSUME NEW w \in Tokens, RunCheckpoint(w) PROVE OrderInv'
  <2>1. chain[w] # <<>>
    BY <1>10, RunningTask DEF RunCheckpoint, None
  <2>2. /\ \A u \in Tokens \ {w} : chain'[u] = chain[u] /\ chain'[u] = <<>>
        /\ Head(chain[w]) = chain[w][1] /\ 1 \in DOMAIN chain[w]
        /\ \A i \in DOMAIN chain'[w] : /\ i + 1 \in DOMAIN chain[w] /\ i + 1 >= 1
                                       /\ chain'[w][i] = chain[w][i + 1]
    BY <1>10, <2>1, Leaves DEF RunCheckpoint
  <2>3. ASSUME ~raced
        PROVE  /\ baseline' <= watcher[w].seen
               /\ \A i \in DOMAIN chain[w] : baseline' <= chain[w][i].v
    BY <1>10, <2>2, <2>3, NumbersKnown DEF RunCheckpoint
  <2>4. ~raced => InOrder(w)'
    BY <1>10, <2>2, <2>3, NumbersKnown, SMTT(30) DEF RunCheckpoint
  <2>5. \A u \in Tokens : slot = u => u = w
    BY <2>1
  <2>6. ~raced => tick = Idle
    BY <2>1
  <2>7. QED
    BY <1>10, <2>2, <2>3, <2>4, <2>5, <2>6 DEF RunCheckpoint
<1>11. ASSUME NEW w \in Tokens, RunIngest(w) PROVE OrderInv'
  BY <1>11 DEF RunIngest, Running, Reach
<1>12. ASSUME NEW w \in Tokens, IngestDone(w) PROVE OrderInv'
  <2>1. chain[w] # <<>>
    BY <1>12, RunningTask DEF IngestDone, None
  <2>2. /\ \A u \in Tokens \ {w} : chain'[u] = chain[u]
        /\ \A i \in DOMAIN chain'[w] : /\ i \in Nat /\ i + 1 \in DOMAIN chain[w]
                                       /\ chain'[w][i] = chain[w][i + 1]
    BY <1>12, <2>1, Leaves DEF IngestDone
  <2>3. /\ \A u \in Tokens : watcher'[u].seen = watcher[u].seen
        /\ UNCHANGED <<baseline, slot, tick, raced>>
    BY <1>12 DEF IngestDone
  <2>4. ~raced => InOrder(w)'
    BY <2>2, <2>3, NumbersKnown
  <2>5. ~raced => tick = Idle
    BY <2>1
  <2>6. QED
    BY <2>2, <2>3, <2>4, <2>5
<1>13. CASE UNCHANGED vars
  BY <1>13 DEF vars
<1>14. QED
  BY <1>1, <1>2, <1>3, <1>4, <1>5, <1>6, <1>7, <1>8, <1>9, <1>10, <1>11, <1>12,
     <1>13 DEF Next

LEMMA InitInv == Init => IInv
<1> SUFFICES ASSUME Init PROVE IInv
  OBVIOUS
<1>1. chain = [w \in Tokens |-> <<>>] /\ watcher = [w \in Tokens |-> Fresh] /\ slot = None
  BY DEF Init
<1>2. \A w \in Tokens : chain[w] = <<>> /\ Len(chain[w]) = 0 /\ DOMAIN chain[w] = {}
  <2>1. Len(<<>>) = 0 /\ DOMAIN <<>> = {}
    BY EmptySeq
  <2>2. QED
    BY <1>1, <2>1
<1>3. TypeOK
  <2>1. 0 \in Known /\ MaxChain \in Nat
    BY WatchersAssumption DEF Known
  <2>2. chain \in [Tokens -> Seq(Task)]
    BY <1>1, EmptySeq
  <2>3. watcher \in [Tokens -> [pc : {"new", "watching", "ingesting", "ended"},
                                aborted : BOOLEAN, seen : Known]]
    BY <1>1, <2>1 DEF Fresh
  <2>4. {world, baseline, reached} \subseteq Known /\ raced \in BOOLEAN /\ tick = Idle
    BY <2>1 DEF Init
  <2>5. \A w \in Tokens : Len(chain[w]) <= MaxChain
    <3>1. 0 <= MaxChain
      BY <2>1
    <3>2. QED
      BY <1>2, <3>1, Zenon
  <2>6. QED
    BY <1>1, <2>2, <2>3, <2>4, <2>5 DEF TypeOK
<1>4. \A w \in Tokens : watcher[w].pc = "new" /\ watcher[w].seen = 0 /\ slot # w
  BY <1>1, WatchersAssumption DEF Fresh
<1>5. SlotInv /\ IngestInv /\ OneChain /\ WorldLeads /\ OrderInv
  BY <1>2, <1>4 DEF Init, SlotInv, IngestInv, OneChain, WorldLeads, OrderInv, InOrder
<1>6. QED
  BY <1>3, <1>5 DEF IInv

LEMMA StepInv == IInv /\ [Next]_vars => IInv'
BY StepTypes, StepSlot, StepIngest, StepOneChain, StepWorld, StepOrder DEF IInv

-----------------------------------------------------------------------------
(* A step that takes the baseline back comes after a watcher was started   *)
(* over a tick in flight.                                                  *)
LEMMA StepForward == IInv /\ [Next]_vars => [baseline' >= baseline \/ raced]_vars
<1> SUFFICES ASSUME IInv, Next, ~raced PROVE baseline' >= baseline
  BY DEF vars
<1> USE DEF IInv
<1>1. baseline \in Nat /\ world \in Nat
  BY NumbersKnown
<1>2. ASSUME EndObserve PROVE baseline' >= baseline
  <2>1. tick.from \in Nat /\ baseline <= tick.from
    BY <1>2, KnownAreNaturals DEF EndObserve, OrderInv, TypeOK, Known
  <2>2. PICK saw \in tick.from .. world : baseline' = saw
    BY <1>2 DEF EndObserve
  <2>3. QED
    BY <1>1, <2>1, <2>2
<1>3. ASSUME NEW w \in Tokens, RunCheckpoint(w) PROVE baseline' >= baseline
  <2>1. chain[w] # <<>>
    BY <1>3, RunningTask DEF RunCheckpoint, None
  <2>2. Head(chain[w]) = chain[w][1] /\ 1 \in DOMAIN chain[w]
    BY <1>3, <2>1, Leaves DEF RunCheckpoint
  <2>3. chain[w][1].v \in Nat /\ baseline <= chain[w][1].v
    BY <2>2, NumbersKnown DEF OrderInv, InOrder
  <2>4. QED
    BY <1>1, <1>3, <2>2, <2>3 DEF RunCheckpoint
<1>4. ASSUME baseline' = baseline PROVE baseline' >= baseline
  BY <1>1, <1>4
<1>5. QED
  BY <1>2, <1>3, <1>4
     DEF Next, Change, Stop, Restart, StartObserve, Start, Yield, Checkpoint, End,
         RunIngest, IngestDone

-----------------------------------------------------------------------------
(* The variables have their types in every behaviour.                      *)
THEOREM WatcherTypes == Spec => []TypeOK
<1>1. IInv => TypeOK
  BY DEF IInv
<1>2. QED
  BY InitInv, StepInv, <1>1, PTL DEF Spec

(* However watchers end, are superseded and checkpoint late, and whenever  *)
(* the daemon restarts, the stored baseline never goes back, unless a      *)
(* watcher was started over a tick in flight (service.ts, writeCheckpoint  *)
(* and consumeWatch).                                                      *)
THEOREM NoRewind == Spec => BaselineNeverRewinds
<1>1. Init /\ [][Next]_vars => [][baseline' >= baseline \/ raced]_vars
  BY InitInv, StepInv, StepForward, PTL
<1>2. QED
  BY <1>1, PTL DEF Spec, BaselineNeverRewinds

-----------------------------------------------------------------------------
(***************************************************************************)
(* The release workflow.  What a run has yet to publish is what the        *)
(* registry lacks of its commit; a changeset bumps a version once.         *)
(***************************************************************************)
RunTypes ==
    run \in [phase : Ship!Phases, at : Ship!Commit \cup {Ship!None}, todo : SUBSET Ship!Package,
             result : Ship!Results]

ShipInv ==
    /\ Ship!TypeOK /\ RunTypes
    /\ \A p \in main.changed : main.version[p] < MaxRelease
    /\ run.phase # "idle" => run.at \in Ship!Commit
    /\ run.phase = "publish" => \A p \in Ship!Package : Ship!Unpublished(p) => p \in run.todo
    /\ run.phase = "publish" => \A p \in run.todo : Ship!Unpublished(p)
    /\ Ship!ReportsAreTrue

(* One commit less is queued.                                              *)
LEMMA QueueShrinks ==
    ASSUME NEW C, NEW s \in Seq(C), Len(s) <= 2, NEW i \in DOMAIN s
    PROVE  Ship!RemoveAt(s, i) \in Seq(C) /\ Len(Ship!RemoveAt(s, i)) <= 2 /\ s[i] \in C
<1>1. i \in 1 .. Len(s) /\ Len(s) \in Nat
  OBVIOUS
<1> DEFINE a == SubSeq(s, 1, i - 1)
           b == SubSeq(s, i + 1, Len(s))
<1>2. a \in Seq(C) /\ b \in Seq(C)
  BY <1>1
<1>3. Len(a) = i - 1 /\ Len(b) = Len(s) - i
  BY <1>1
<1>4. Ship!RemoveAt(s, i) = a \o b
  BY DEF Ship!RemoveAt
<1> HIDE DEF a, b
<1>5. a \o b \in Seq(C) /\ Len(a \o b) = Len(a) + Len(b)
  BY <1>2
<1> QED
  BY <1>1, <1>3, <1>4, <1>5

LEMMA ShipStep ==
    ASSUME ShipInv, [Ship!Next]_(Ship!vars)
    PROVE  ShipInv'
<1> USE ShipAssumption DEF ShipInv, Ship!TypeOK, RunTypes, Ship!ReportsAreTrue, Ship!Unpublished,
        Ship!Phases, Ship!Results, Ship!End
<1>1. ASSUME NEW p \in Ship!Package, Ship!LandChange(p) PROVE ShipInv'
  BY <1>1 DEF Ship!LandChange, Ship!Push, Ship!Commit
<1>2. CASE Ship!LandUnrelated
  BY <1>2 DEF Ship!LandUnrelated, Ship!Push
<1>3. CASE Ship!MergeVersionPR
  BY <1>3 DEF Ship!MergeVersionPR, Ship!Push, Ship!Commit
<1>4. ASSUME NEW i \in 1 .. 2, NEW passed \in BOOLEAN, Ship!CIEnds(i, passed) PROVE ShipInv'
  BY <1>4, QueueShrinks DEF Ship!CIEnds
<1>5. CASE Ship!RunStarts
  BY <1>5 DEF Ship!RunStarts
<1>6. CASE Ship!OpenVersionPR
  BY <1>6 DEF Ship!OpenVersionPR, Ship!Commit
<1>7. CASE Ship!CollateralFails
  BY <1>7 DEF Ship!CollateralFails
<1>8. CASE Ship!PublishFails
  BY <1>8 DEF Ship!PublishFails
<1>9. ASSUME NEW silent \in SUBSET Ship!Package, Ship!Gate(silent) PROVE ShipInv'
  BY <1>9 DEF Ship!Gate
<1>10. ASSUME NEW silent \in SUBSET Ship!Package, Ship!Plan(silent) PROVE ShipInv'
  <2>1. run.at \in Ship!Commit /\ run.phase = "act" /\ registry' = registry
    BY <1>10 DEF Ship!Plan
  <2>2. Ship!Candidates({}) = {p \in Ship!Package : Ship!Unpublished(p)}
    BY DEF Ship!Candidates
  <2>3. CASE run' = [run EXCEPT !.phase = "idle", !.todo = {}, !.result = "failed"]
    BY <1>10, <2>1, <2>3 DEF Ship!Plan
  <2>4. CASE /\ Ship!Candidates({}) = {}
             /\ run' = [run EXCEPT !.phase = "idle", !.todo = {}, !.result = "published"]
    BY <1>10, <2>1, <2>2, <2>4 DEF Ship!Plan
  <2>5. CASE run' = [run EXCEPT !.phase = "publish", !.todo = Ship!Candidates({})]
    BY <1>10, <2>1, <2>2, <2>5 DEF Ship!Plan
  <2> QED
    BY <1>10, <2>3, <2>4, <2>5 DEF Ship!Plan
<1>11. ASSUME NEW reported \in BOOLEAN, Ship!Publish(reported) PROVE ShipInv'
  <2>1. PICK p \in run.todo :
          /\ registry' = registry \cup {<<p, run.at.version[p]>>}
          /\ IF ~Ship!Unpublished(p) THEN Ship!End("rejected")
             ELSE IF ~reported THEN Ship!End("failed")
             ELSE IF run.todo = {p} THEN Ship!End("published")
             ELSE run' = [run EXCEPT !.todo = @ \ {p}]
    BY <1>11 DEF Ship!Publish
  <2>2. /\ run.phase = "publish" /\ run.at \in Ship!Commit /\ p \in Ship!Package
        /\ Ship!Unpublished(p) /\ UNCHANGED <<main, pr, ci, pending>>
    BY <1>11 DEF Ship!Publish
  <2>3. registry' \subseteq Ship!Package \X (0 .. MaxRelease)
    BY <2>1, <2>2 DEF Ship!Commit
  <2>4. run'.at = run.at /\ run'.todo \subseteq run.todo /\ run' \in
          [phase : Ship!Phases, at : Ship!Commit \cup {Ship!None}, todo : SUBSET Ship!Package,
           result : Ship!Results]
    BY <2>1, <2>2
  <2>5. \A q \in Ship!Package :
          /\ Ship!Unpublished(q)' => q # p /\ q \in run.todo
          /\ q # p /\ Ship!Unpublished(q) => Ship!Unpublished(q)'
    BY <2>1, <2>2, <2>4
  <2>6. CASE run'.phase = "idle" /\ run'.result = "failed"
    BY <2>2, <2>3, <2>4, <2>6
  <2>7. CASE run.todo = {p} /\ run'.phase = "idle" /\ run'.result = "published"
    BY <2>2, <2>3, <2>4, <2>5, <2>7
  <2>8. CASE run' = [run EXCEPT !.todo = @ \ {p}]
    BY <2>2, <2>3, <2>4, <2>5, <2>8
  <2> QED
    BY <2>1, <2>2, <2>6, <2>7, <2>8
<1>12. CASE UNCHANGED Ship!vars
  BY <1>12 DEF Ship!vars
<1> QED
  BY <1>1, <1>2, <1>3, <1>4, <1>5, <1>6, <1>7, <1>8, <1>9, <1>10, <1>11, <1>12 DEF Ship!Next

(* A release run that reports success has every version of its commit on   *)
(* the registry, for any packages and versions, and no version is          *)
(* published twice, whatever failed, was left unanswered or was lost.      *)
THEOREM ReleasesAreTrue == Ship!Spec => [](Ship!TypeOK /\ Ship!ReportsAreTrue)
<1>1. Ship!Init => ShipInv
  BY ShipAssumption
     DEF Ship!Init, ShipInv, Ship!TypeOK, RunTypes, Ship!ReportsAreTrue, Ship!Commit, Ship!Phases,
         Ship!Results
<1>2. ShipInv => Ship!TypeOK /\ Ship!ReportsAreTrue
  BY DEF ShipInv
<1> QED
  BY <1>1, <1>2, ShipStep, PTL DEF Ship!Spec

-----------------------------------------------------------------------------
(***************************************************************************)
(* Verify's clean-up.  Late counts the intervals that end before the last  *)
(* row of the scratch file is inserted: a tick that saw the file as it no  *)
(* longer is makes the next one find a change, a change is held for the    *)
(* settle time, and an interval ends only once it was polled.  -1: nothing *)
(* is to come.                                                             *)
(***************************************************************************)
Beat == IF polled THEN 1 ELSE 0

Late ==
    IF round.pc = "observing" /\ round.saw # file THEN Beat + 1 + settle
    ELSE IF seen # file THEN Beat + settle
    ELSE IF held # {} THEN settle - age
    ELSE -1

CheckTypes ==
    /\ cleanup \in {"tombstone", "retract-by-id"} /\ settle \in {0, Settle}
    /\ file \in BOOLEAN /\ seen \in BOOLEAN /\ polled \in BOOLEAN
    /\ stage \in {"baseline", "fired", "over", "cleaning", "listed", "closing", "leaving",
                  "done", "exited", "killed"}
    /\ session \in {"active", "dormant"}
    /\ stage = "listed" => cleanup = "retract-by-id"
    /\ round \in [pc : {"idle", "observing", "sweeping"}, saw : BOOLEAN, sweeps : BOOLEAN]

HeldIsFresh == (held = {} => age = 0) /\ (polled /\ held # {} => age < settle)

(* Before the trigger there is nothing of verify's.                        *)
NothingYet ==
    stage \in {"baseline", "leaving"} =>
        /\ ~file /\ ~seen /\ ~round.saw /\ held = {}
        /\ cleanup = "tombstone" => rows = {}

(* A run is over before its session is dormant for long enough.            *)
SessionInv ==
    /\ stage \in {"leaving", "done"} => session = "dormant"
    /\ stage \notin {"leaving", "done", "exited", "killed"} =>
         session = "active" /\ quiet <= Budget
    /\ stage \in {"exited", "killed"} /\ session = "active" /\ Late >= 0 =>
         quiet + Late <= Budget + 2 + Settle

(* The tombstone outlasts what is to come.  A tick that started under it   *)
(* sweeps; one that did not ends under it.                                 *)
TombOutlasts ==
    cleanup = "tombstone" /\ stage \in {"closing", "done"} =>
        /\ Late >= 0 => tomb > Late
        /\ round.pc = "observing" /\ ~round.sweeps /\ Late >= 0 => tomb > 1 + Beat
        /\ rows # {} => round.pc = "sweeping" /\ (round.sweeps \/ tomb > Beat)

(* Nothing is to come once the reaper has closed the session.              *)
ReapedIsRid ==
    /\ cleanup = "tombstone" /\ session = "dormant"
    /\ stage = "killed" \/ (stage = "exited" /\ ~file)
    => rows = {} /\ Late = -1

CheckInv ==
    /\ Check!TypeOK /\ CheckTypes /\ HeldIsFresh /\ NothingYet /\ SessionInv
    /\ TombOutlasts /\ ReapedIsRid

(* The next row comes one interval closer with each that ends.             *)
LEMMA LateComes ==
    ASSUME CheckInv, Check!Elapse
    PROVE  /\ Late = -1 \/ Late \in Nat \ {0}
           /\ Late = -1 => Late' = -1
           /\ Late # -1 => Late' = Late - 1
BY CheckAssumption
   DEF CheckInv, Check!TypeOK, CheckTypes, HeldIsFresh, Beat, Late, Check!Elapse

LEMMA LateStays ==
    ASSUME CheckInv, Check!Ingest
    PROVE  /\ Late = -1 \/ Late \in Nat
           /\ Late' = -1 \/ (Late' \in Nat /\ Late' <= Late)
BY CheckAssumption
   DEF CheckInv, Check!TypeOK, CheckTypes, HeldIsFresh, Beat, Late, Check!Ingest

(* A session is reaped only when its run has long been over.               *)
LEMMA ReapedLate ==
    ASSUME CheckInv, session = "active", quiet >= Dormancy
    PROVE  stage \in {"exited", "killed"} /\ Late = -1
<1>1. Late = -1 \/ Late \in Nat
  BY CheckAssumption DEF CheckInv, Check!TypeOK, CheckTypes, HeldIsFresh, Beat, Late
<1>2. quiet \in Nat
  BY CheckAssumption DEF CheckInv, Check!TypeOK
<1> QED
  BY <1>1, <1>2, CheckAssumption DEF CheckInv, CheckTypes, SessionInv

LEMMA SessionElapses ==
    ASSUME CheckInv, Check!Elapse
    PROVE  SessionInv'
<1>1. quiet \in Nat /\ quiet' \in Nat /\ quiet' <= quiet + 1
  BY CheckAssumption DEF CheckInv, Check!TypeOK, Check!Elapse
<1>2. stage \in {"done", "exited", "killed"} \/ quiet < Budget
  BY DEF Check!Elapse
<1>3. stage' = stage /\ session' = session
  BY DEF Check!Elapse
<1>4. SessionInv /\ settle \in Nat
  BY CheckAssumption DEF CheckInv, CheckTypes
<1> QED
  BY <1>1, <1>2, <1>3, <1>4, LateComes, CheckAssumption DEF SessionInv

LEMMA TombElapses ==
    ASSUME CheckInv, Check!Elapse
    PROVE  TombOutlasts'
<1>1. tomb \in Nat /\ tomb' = IF tomb >= 1 THEN tomb - 1 ELSE 0
  BY CheckAssumption
     DEF CheckInv, CheckTypes, Check!TypeOK, Check!Elapse, Check!Larger, Check!SuppressTtl, Check!OrphanTtl
<1>2. Beat = 1 /\ Beat' = 0
  BY DEF Beat, Check!Elapse
<1>3. cleanup' = cleanup /\ stage' = stage /\ round' = round /\ rows' = rows
  BY DEF Check!Elapse
<1>4. TombOutlasts
  BY DEF CheckInv
<1> QED
  BY <1>1, <1>2, <1>3, <1>4, LateComes DEF TombOutlasts

LEMMA SessionIngests ==
    ASSUME CheckInv, Check!Ingest
    PROVE  SessionInv'
<1>1. quiet \in Nat /\ quiet' = quiet /\ stage' = stage /\ session' = session
  BY CheckAssumption DEF CheckInv, Check!TypeOK, Check!Ingest
<1>2. SessionInv
  BY DEF CheckInv
<1> QED
  BY <1>1, <1>2, LateStays, CheckAssumption DEF SessionInv

LEMMA TombIngests ==
    ASSUME CheckInv, Check!Ingest
    PROVE  TombOutlasts'
<1>1. tomb \in Nat /\ tomb' = tomb /\ stage' = stage /\ cleanup' = cleanup
  BY CheckAssumption
     DEF CheckInv, CheckTypes, Check!TypeOK, Check!Ingest, Check!Larger, Check!SuppressTtl, Check!OrphanTtl
<1>2. /\ round.pc = "observing" /\ round'.pc = "sweeping" /\ round'.sweeps = round.sweeps
      /\ polled' = TRUE /\ seen' = round.saw /\ file' = file
  BY DEF Check!Ingest, CheckInv, CheckTypes
<1>3. rows = {} \/ ~(cleanup = "tombstone" /\ stage \in {"closing", "done"})
  BY <1>2 DEF CheckInv, TombOutlasts
<1>4. Beat \in {0, 1} /\ Beat' = 1
  BY <1>2 DEF Beat
<1>5. rows' # {} /\ rows = {} => Late >= 0
  BY CheckAssumption DEF Late, Beat, Check!Ingest, CheckInv, CheckTypes, Check!TypeOK, HeldIsFresh
<1>6. TombOutlasts
  BY DEF CheckInv
<1> QED
  <2>1. SUFFICES ASSUME cleanup = "tombstone", stage \in {"closing", "done"}
                 PROVE  /\ Late' >= 0 => tomb > Late'
                        /\ rows' # {} => round.sweeps \/ tomb > 1
    BY <1>1, <1>2, <1>4 DEF TombOutlasts
  <2>2. Late >= 0 => tomb > Late
    BY <2>1, <1>6 DEF TombOutlasts
  <2>3. ~round.sweeps /\ Late >= 0 => tomb > 1 + Beat
    BY <2>1, <1>2, <1>6 DEF TombOutlasts
  <2> QED
    BY <2>1, <2>2, <2>3, <1>1, <1>3, <1>4, <1>5, LateStays

LEMMA TombStarts ==
    ASSUME CheckInv, Check!TickStarts, ~(session = "active" /\ quiet >= Dormancy)
    PROVE  TombOutlasts'
<1>1. tomb \in Nat /\ tomb' = tomb /\ stage' = stage /\ cleanup' = cleanup /\ rows' = rows
  BY CheckAssumption
     DEF CheckInv, CheckTypes, Check!TypeOK, Check!TickStarts, Check!Larger, Check!SuppressTtl,
         Check!OrphanTtl
<1>2. /\ round.pc = "idle" /\ round'.pc = "observing" /\ (tomb > 0 => round'.sweeps)
      /\ round'.saw = file
  BY <1>1 DEF Check!TickStarts
<1>3. Late' = Late /\ Beat' = Beat
  BY <1>2 DEF Late, Beat, Check!TickStarts
<1>4. Late = -1 \/ Late \in Nat
  BY CheckAssumption DEF CheckInv, Check!TypeOK, CheckTypes, HeldIsFresh, Beat, Late
<1>5. TombOutlasts
  BY DEF CheckInv
<1> QED
  BY <1>1, <1>2, <1>3, <1>4, <1>5 DEF TombOutlasts

LEMMA CheckStep ==
    ASSUME CheckInv, [Check!Next]_(Check!vars)
    PROVE  CheckInv'
<1> USE CheckAssumption
    DEF CheckInv, Check!TypeOK, CheckTypes, HeldIsFresh, NothingYet, SessionInv, TombOutlasts,
        ReapedIsRid, Beat, Late, Check!daemonVars, Check!Fault, Check!Idle, Check!Scratch,
        Check!Users, Check!Larger, Check!SuppressTtl, Check!OrphanTtl
<1>1. CASE Check!Fire
  BY <1>1 DEF Check!Fire
<1>2. CASE Check!StagesEnd
  BY <1>2 DEF Check!StagesEnd
<1>3. CASE Check!Interrupt
  <2>1. Check!TypeOK'
    BY <1>3 DEF Check!Interrupt
  <2>2. CheckTypes'
    BY <1>3 DEF Check!Interrupt
  <2>3. HeldIsFresh'
    BY <1>3 DEF Check!Interrupt
  <2>4. NothingYet'
    BY <1>3 DEF Check!Interrupt
  <2>5. SessionInv'
    BY <1>3 DEF Check!Interrupt
  <2>6. TombOutlasts'
    BY <1>3 DEF Check!Interrupt
  <2>7. ReapedIsRid'
    BY <1>3 DEF Check!Interrupt
  <2> QED
    BY <2>1, <2>2, <2>3, <2>4, <2>5, <2>6, <2>7
<1>4. CASE Check!EarlyInterrupt
  BY <1>4 DEF Check!EarlyInterrupt
<1>5. CASE Check!FiresLate
  BY <1>5 DEF Check!FiresLate
<1>6. CASE Check!Kill
  <2>1. Check!TypeOK'
    BY <1>6 DEF Check!Kill
  <2>2. CheckTypes'
    BY <1>6 DEF Check!Kill
  <2>3. HeldIsFresh'
    BY <1>6 DEF Check!Kill
  <2>4. NothingYet'
    BY <1>6 DEF Check!Kill
  <2>5. SessionInv'
    BY <1>6 DEF Check!Kill
  <2>6. TombOutlasts'
    BY <1>6 DEF Check!Kill
  <2>7. ReapedIsRid'
    BY <1>6 DEF Check!Kill
  <2> QED
    BY <2>1, <2>2, <2>3, <2>4, <2>5, <2>6, <2>7
<1>7. CASE Check!Revert
  BY <1>7 DEF Check!Revert
<1>8. CASE Check!Suppress
  BY <1>8 DEF Check!Suppress
<1>9. CASE Check!ListRows
  BY <1>9 DEF Check!ListRows
<1>10. CASE Check!RetractListed
  BY <1>10 DEF Check!RetractListed
<1>11. CASE Check!CloseSession
  BY <1>11 DEF Check!CloseSession
<1>12. CASE Check!TickStarts
  <2>0. tomb' \in 0 .. DetectCap + 1 + settle
    BY <1>12 DEF Check!TickStarts
  <2>1. Check!TypeOK'
    <3>1. rows' \subseteq rows /\ settle' = settle
      BY <1>12 DEF Check!TickStarts
    <3> QED
      BY <1>12, <2>0, <3>1 DEF Check!TickStarts
  <2>2. CheckTypes'
    BY <1>12 DEF Check!TickStarts
  <2>3. HeldIsFresh'
    BY <1>12 DEF Check!TickStarts
  <2>4. NothingYet'
    BY <1>12 DEF Check!TickStarts
  <2>5. SessionInv'
    BY <1>12 DEF Check!TickStarts
  <2>6. TombOutlasts'
    <3>1. CASE session = "active" /\ quiet >= Dormancy
      BY <1>12, <3>1, ReapedLate DEF Check!TickStarts
    <3> QED
      BY <1>12, <3>1, TombStarts
  <2>7. ReapedIsRid'
    <3>1. CASE session = "active" /\ quiet >= Dormancy
      <4>1. Late' = -1
        BY <1>12, <3>1, ReapedLate DEF Check!TickStarts
      <4> HIDE DEF Late, Beat
      <4> QED
        BY <1>12, <3>1, <4>1 DEF Check!TickStarts
    <3>2. CASE ~(session = "active" /\ quiet >= Dormancy)
      BY <1>12, <3>2 DEF Check!TickStarts
    <3> QED
      BY <3>1, <3>2
  <2> QED
    BY <2>1, <2>2, <2>3, <2>4, <2>5, <2>6, <2>7
<1>13. CASE Check!Ingest
  <2>1. Check!TypeOK'
    BY <1>13 DEF Check!Ingest
  <2>2. CheckTypes'
    BY <1>13 DEF Check!Ingest
  <2>3. HeldIsFresh'
    BY <1>13 DEF Check!Ingest
  <2>4. NothingYet'
    BY <1>13 DEF Check!Ingest
  <2>5. SessionInv'
    BY <1>13, SessionIngests
  <2>6. TombOutlasts'
    BY <1>13, TombIngests
  <2>7. ReapedIsRid'
    BY <1>13 DEF Check!Ingest
  <2> QED
    BY <2>1, <2>2, <2>3, <2>4, <2>5, <2>6, <2>7
<1>14. CASE Check!Sweep
  <2>1. Check!TypeOK'
    BY <1>14 DEF Check!Sweep
  <2>2. CheckTypes'
    BY <1>14 DEF Check!Sweep
  <2>3. HeldIsFresh'
    BY <1>14 DEF Check!Sweep
  <2>4. NothingYet'
    BY <1>14 DEF Check!Sweep
  <2>5. SessionInv'
    BY <1>14 DEF Check!Sweep
  <2>6. TombOutlasts'
    BY <1>14 DEF Check!Sweep
  <2>7. ReapedIsRid'
    BY <1>14 DEF Check!Sweep
  <2> QED
    BY <2>1, <2>2, <2>3, <2>4, <2>5, <2>6, <2>7
<1>15. CASE Check!Elapse
  <2>1. Check!TypeOK'
    <3>1. tomb' \in 0 .. DetectCap + 1 + settle /\ settle' = settle
      BY <1>15 DEF Check!Elapse
    <3>2. age' \in 0 .. settle
      BY <1>15 DEF Check!Elapse
    <3>3. quiet' \in 0 .. Dormancy
      BY <1>15 DEF Check!Elapse
    <3> QED
      BY <1>15, <3>1, <3>2, <3>3 DEF Check!Elapse
  <2>2. CheckTypes'
    BY <1>15 DEF Check!Elapse
  <2>3. HeldIsFresh'
    BY <1>15 DEF Check!Elapse
  <2>4. NothingYet'
    BY <1>15 DEF Check!Elapse
  <2>5. SessionInv'
    BY <1>15, SessionElapses
  <2>6. TombOutlasts'
    BY <1>15, TombElapses
  <2>7. ReapedIsRid'
    BY <1>15 DEF Check!Elapse
  <2> QED
    BY <2>1, <2>2, <2>3, <2>4, <2>5, <2>6, <2>7
<1>16. CASE UNCHANGED Check!vars
  BY <1>16 DEF Check!vars
<1> QED
  BY <1>1, <1>2, <1>3, <1>4, <1>5, <1>6, <1>7, <1>8, <1>9, <1>10, <1>11, <1>12, <1>13, <1>14, <1>15, <1>16 DEF Check!Next

(* However verify ends - well, interrupted, interrupted again or killed -  *)
(* once its session has ended the only rows of its scratch file are those  *)
(* a tick is about to sweep, for any settle time, detection budget and     *)
(* dormancy that leave the daemon the time to see the deletion.            *)
THEOREM VerifyLeavesNoRows == Check!Spec => [](Check!TypeOK /\ Check!LateRowsGo)
<1>1. ASSUME Check!Init PROVE CheckInv
  <2>1. Late = -1
    BY <1>1 DEF Check!Init, Check!Idle, Late
  <2>2. CheckTypes /\ HeldIsFresh
    BY <1>1 DEF Check!Init, Check!Idle, CheckTypes, HeldIsFresh
  <2>3. Check!TypeOK
    <3>1. rows \in {{}, {Check!Users}} /\ held = {} /\ tomb = 0 /\ age = 0 /\ quiet = 0
      BY <1>1 DEF Check!Init
    <3>2. 0 \in 0 .. Check!Larger(Check!SuppressTtl, Check!OrphanTtl)
      BY <2>2, CheckAssumption DEF CheckTypes, Check!SuppressTtl, Check!OrphanTtl, Check!Larger
    <3>3. settle \in Nat
      BY <2>2, CheckAssumption DEF CheckTypes
    <3> QED
      BY <3>1, <3>2, <3>3, CheckAssumption DEF Check!TypeOK
  <2>4. NothingYet /\ SessionInv /\ TombOutlasts /\ ReapedIsRid
    BY <1>1, <2>1, CheckAssumption
       DEF Check!Init, Check!Idle, NothingYet, SessionInv, TombOutlasts, ReapedIsRid
  <2> QED
    BY <2>2, <2>3, <2>4 DEF CheckInv
<1>2. CheckInv => Check!TypeOK /\ Check!LateRowsGo
  BY DEF CheckInv, CheckTypes, NothingYet, SessionInv, TombOutlasts, ReapedIsRid, Check!LateRowsGo
<1> QED
  BY <1>1, <1>2, CheckStep, PTL DEF Check!Spec

(* What a release or a verify reports done is done.                        *)
THEOREM WhatIsDoneIsDone ==
    \/ Spec /\ [](part = "watchers")
    \/ Ship!Spec /\ [](part = "ship")
    \/ Check!Spec /\ [](part = "check")
    => []DoneMeansDone
<1>1. part = "watchers" /\ TypeOK => DoneMeansDone
  BY DEF DoneMeansDone, Types
<1>2. part = "ship" /\ Ship!TypeOK /\ Ship!ReportsAreTrue => DoneMeansDone
  BY DEF DoneMeansDone, Types
<1>3. part = "check" /\ Check!TypeOK /\ Check!LateRowsGo => DoneMeansDone
  BY DEF DoneMeansDone, Types
<1> QED
  BY <1>1, <1>2, <1>3, WatcherTypes, ReleasesAreTrue, VerifyLeavesNoRows, PTL
=============================================================================
