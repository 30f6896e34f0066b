----------------------------- MODULE Ingestion -----------------------------
(***************************************************************************)
(* From a change in the watched world to the shared chain of events: the   *)
(* tick of AgentMonitorRuntime (libs/core/src/runtime/service.ts), for one *)
(* persistent monitor over one object.  A tick reads the monitor's stored  *)
(* row, awaits observe(), passes what it found through notify dispatch,    *)
(* stores the row and only then materializes what was emitted, awaiting    *)
(* the Interpret adapter between two observations.  The daemon's own loop  *)
(* and an IPC daemon.tick are two ticks that may be in flight at once.     *)
(*                                                                         *)
(* The n-th change of the world is the observation n.  Times are minutes   *)
(* relative to the present, which is 0: a time step moves every stored     *)
(* time into the past, down to -Horizon, further back than any comparison  *)
(* looks.                                                                  *)
(***************************************************************************)
EXTENDS Integers, Sequences

CONSTANTS
    Ticks,          \* the ticks that may be in flight at once
    MaxChanges,     \* bound: changes of the world
    MaxFaults,      \* bound: edits, crashes and overlaps of ticks, together
    MaxAge,         \* bound: minutes a tick may take
    Horizon,        \* how far back times are told apart
    Kinds,          \* what a change may be: its salience, or "gated"
    Strategies,     \* the notify strategies the author may choose
    Interval, Settle, Suppress, Period,
    Base, Top       \* the monitor's urgency band

ASSUME IngestionAssumption ==
    /\ {MaxChanges, MaxFaults, MaxAge, Interval, Settle, Suppress} \subseteq Nat
    /\ Period \in Nat \ {0} /\ Horizon \in Nat
    /\ Interval < Horizon /\ MaxAge < Horizon
    /\ Kinds \subseteq {"low", "normal", "high", "gated"}
    /\ Strategies \subseteq {"default", "debounce", "throttle", "rollup"}
    /\ {Base, Top} \subseteq {"low", "normal", "high"}

VARIABLES
    kinds,      \* the changes of the world so far
    row,        \* the durable monitor_state row
    chain,      \* the observations of monitor_events, in the order of insertion
    tick,       \* the ticks in flight
    strategy,   \* the strategy in the monitor's file
    phase,      \* minutes since the rollup window last opened
    edits, crashes,
    overlapped, \* whether two ticks were ever in flight at once
    forgone,    \* observations dropped on purpose, or whose insertion failed
    lost        \* emitted observations a crash caught before their insertion

vars == <<kinds, row, chain, tick, strategy, phase, edits, crashes,
          overlapped, forgone, lost>>

Elements(s) == {s[i] : i \in DOMAIN s}

Idle == [pc |-> "idle"]

URGENCY_RANK == [low |-> 0, normal |-> 1, high |-> 2]

(* The salience of an observation, clamped into the monitor's band.        *)
EffectiveUrgency(v) ==
    LET rank == URGENCY_RANK[kinds[v]]
    IN  IF rank < URGENCY_RANK[Base] THEN Base
        ELSE IF rank > URGENCY_RANK[Top] THEN Top ELSE kinds[v]

Escalated(v) == URGENCY_RANK[EffectiveUrgency(v)] > URGENCY_RANK[Base]

(* The authored strategy, or what the urgency calls for without one.       *)
NotifyConfig(how, urgency) ==
    IF how # "default" THEN how
    ELSE IF urgency = "high" THEN "debounce" ELSE "immediate"

WindowMatches(at) == (phase + at) % Period = 0

(***************************************************************************)
(* dispatchNotify: the stored notify state and the new observations become *)
(* what is emitted now and the state to store.                             *)
(***************************************************************************)
Mut_RollupDropsLast(state, observations, at) ==
    LET fires == WindowMatches(at) /\ state.fired # at
    IN  [emitted |-> IF fires THEN state.rollup ELSE <<>>,
         next |-> [state EXCEPT !.rollup = IF fires THEN <<>> ELSE @ \o observations,
                                !.fired = IF fires THEN at ELSE @]]

DispatchRollup(state, observations, at) ==
    LET batch == state.rollup \o observations
        fires == WindowMatches(at) /\ state.fired # at
    IN  [emitted |-> IF fires THEN batch ELSE <<>>,
         next |-> [state EXCEPT !.rollup = IF fires THEN <<>> ELSE batch,
                                !.fired = IF fires THEN at ELSE @]]

Mut_DueAtSurvives(state) == [state EXCEPT !.dueAt = -Horizon]

(* Without a pending batch there is no due time either.                    *)
NoDebounce(state) == [state EXCEPT !.debounce = <<>>, !.dueAt = -Horizon]

Emit(acc, s) == [acc EXCEPT !.emitted = @ \o s]

Mut_EscalatedFirst(acc, v, how, at) ==
    IF Escalated(v) THEN [acc EXCEPT !.emitted = <<v>> \o @ \o acc.next.debounce,
                                     !.next = NoDebounce(@)]
    ELSE [acc EXCEPT !.next.debounce = Append(@, v), !.next.dueAt = at + Settle]

(* One observation, after those before it.                                 *)
Place(acc, v, how, at) ==
    LET state == acc.next
        notify == NotifyConfig(how, EffectiveUrgency(v))
    IN  IF Escalated(v) /\ state.debounce # <<>>
        THEN [Emit(acc, Append(state.debounce, v)) EXCEPT !.next = NoDebounce(@)]
        ELSE CASE notify = "immediate" -> Emit(acc, <<v>>)
          [] notify = "throttle" ->
               IF state.until > at THEN acc
               ELSE [Emit(acc, <<v>>) EXCEPT !.next.until = at + Suppress]
          [] OTHER ->
               [acc EXCEPT !.next.debounce = Append(@, v),
                           !.next.dueAt = at + Settle]

PlaceAll(start, observations, how, at) ==
    LET after[i \in 0 .. Len(observations)] ==
            IF i = 0 THEN start ELSE Place(after[i - 1], observations[i], how, at)
    IN  after[Len(observations)]

Mut_DueOnlyWithNews(state, observations, how, at) ==
    IF observations = <<>> THEN [emitted |-> <<>>, next |-> state]
    ELSE PlaceAll([emitted |-> state.debounce, next |-> NoDebounce(state)],
                  observations, how, at)

DispatchNotify(state, observations, how, at) ==
    IF how = "rollup"
    THEN DispatchRollup(NoDebounce(state), observations, at)
    ELSE LET due == state.debounce # <<>> /\ state.dueAt <= at
             start == [emitted |-> IF due THEN state.debounce ELSE <<>>,
                       next |-> IF due THEN NoDebounce(state) ELSE state]
         IN  PlaceAll(start, observations, how, at)

(* The shape stage's gate, which runs before the dispatch.                 *)
Passed(v) == kinds[v] # "gated"

Passing(observations) ==
    LET passing[i \in 0 .. Len(observations)] ==
            IF i = 0 THEN <<>>
            ELSE IF Passed(observations[i]) THEN Append(passing[i - 1], observations[i])
                 ELSE passing[i - 1]
    IN  passing[Len(observations)]

Held(r) == Elements(r.debounce) \cup Elements(r.rollup)

InFlight == UNION {Elements(tick[t].rest) :
    t \in {u \in Ticks : tick[u].pc \in {"materializing", "interpreting"}}}

(* Only an await lets another tick run.                                    *)
LoopIsFree == \A t \in Ticks : tick[t].pc # "materializing"

MayFault == edits + crashes + (IF overlapped THEN 1 ELSE 0) < MaxFaults

-----------------------------------------------------------------------------
Init ==
    /\ kinds = <<>>
    /\ row = [source |-> 0, debounce |-> <<>>, dueAt |-> -Horizon,
              rollup |-> <<>>, fired |-> -Horizon, until |-> -Horizon,
              last |-> -Horizon]
    /\ chain = <<>>
    /\ tick = [t \in Ticks |-> Idle]
    /\ strategy \in Strategies
    /\ phase \in 0 .. Period - 1
    /\ edits = 0 /\ crashes = 0
    /\ overlapped = FALSE
    /\ forgone = {} /\ lost = {}

Change(k) ==
    /\ Len(kinds) < MaxChanges
    /\ kinds' = Append(kinds, k)
    /\ UNCHANGED <<row, chain, tick, strategy, phase, edits, crashes,
                   overlapped, forgone, lost>>

(* The author edits the file; ticks in flight keep the definition they     *)
(* scanned.                                                                *)
Edit(s) ==
    /\ MayFault /\ s # strategy
    /\ strategy' = s
    /\ edits' = edits + 1
    /\ UNCHANGED <<kinds, row, chain, tick, phase, crashes, overlapped,
                   forgone, lost>>

(* materializeSpan is entered with what was emitted, if anything was.      *)
Materializing(emitted) ==
    IF emitted = <<>> THEN Idle ELSE [pc |-> "materializing", rest |-> emitted]

Due == row.last + Interval <= 0

Starts(t) ==
    /\ tick[t] = Idle /\ LoopIsFree
    /\ overlapped' = (overlapped \/ \E u \in Ticks : tick[u] # Idle)
    /\ overlapped' # overlapped => MayFault

(* A tick finds the monitor due, reads its row and awaits observe().       *)
StartObserve(t) ==
    /\ Starts(t)
    /\ Due
    /\ tick' = [tick EXCEPT ![t] = [pc |-> "observing", at |-> 0, how |-> strategy,
                                    previous |-> row.source, from |-> Len(kinds)]]
    /\ UNCHANGED <<kinds, row, chain, strategy, phase, edits, crashes, forgone, lost>>

(* A tick finds a rollup monitor not due: its window is looked at anyway.  *)
(* That of any other monitor is skipped.                                   *)
CheckWindow(t) ==
    /\ Starts(t)
    /\ ~Due /\ strategy = "rollup"
    /\ LET d == DispatchRollup(row, <<>>, 0)
       IN  /\ row' = d.next
           /\ tick' = [tick EXCEPT ![t] = Materializing(d.emitted)]
    /\ UNCHANGED <<kinds, chain, strategy, phase, edits, crashes, forgone, lost>>

(* observe() throws: nothing is stored.                                    *)
FailObserve(t) ==
    /\ tick[t].pc = "observing" /\ LoopIsFree
    /\ tick' = [tick EXCEPT ![t] = Idle]
    /\ UNCHANGED <<kinds, row, chain, strategy, phase, edits, crashes,
                   overlapped, forgone, lost>>

(* What an ingest drops on purpose: gated observations, throttled ones, and *)
(* a debounced batch once its monitor has become a rollup.                 *)
Waived(how, all, d) ==
    LET passed == {v \in Elements(all) : Passed(v)}
    IN  (Elements(all) \ passed)
        \cup (IF how = "throttle" THEN passed \ Elements(d.emitted) ELSE {})
        \cup (IF how = "rollup" THEN Elements(row.debounce) ELSE {})

(* ingest: observe() saw the world as it was at some moment of the call.   *)
Ingest(t) ==
    /\ tick[t].pc = "observing" /\ LoopIsFree
    /\ \E seen \in tick[t].from .. Len(kinds) :
         LET all == [i \in 1 .. seen - tick[t].previous |-> tick[t].previous + i]
             d == DispatchNotify(row, Passing(all), tick[t].how, tick[t].at)
         IN  /\ row' = [d.next EXCEPT !.source = seen, !.last = tick[t].at]
             /\ tick' = [tick EXCEPT ![t] = Materializing(d.emitted)]
             /\ forgone' = forgone \cup Waived(tick[t].how, all, d)
    /\ UNCHANGED <<kinds, chain, strategy, phase, edits, crashes, overlapped, lost>>

(* processObservation of the next emitted observation commits, and the     *)
(* adapter is awaited; or it fails and leaves its batch-mates alone.       *)
Materialize(t) ==
    /\ tick[t].pc = "materializing"
    /\ LET v == Head(tick[t].rest)
           after == Tail(tick[t].rest)
       IN  \/ /\ chain' = Append(chain, v)
              /\ tick' = [tick EXCEPT ![t] = [pc |-> "interpreting", rest |-> after]]
              /\ UNCHANGED forgone
           \/ /\ forgone' = forgone \cup {v}
              /\ tick' = [tick EXCEPT ![t] = Materializing(after)]
              /\ UNCHANGED chain
    /\ UNCHANGED <<kinds, row, strategy, phase, edits, crashes, overlapped, lost>>

(* The adapter's verdict, or its failure: the span goes on.  Without an    *)
(* adapter this follows at once.                                           *)
Interpreted(t) ==
    /\ tick[t].pc = "interpreting" /\ LoopIsFree
    /\ tick' = [tick EXCEPT ![t] = Materializing(@.rest)]
    /\ UNCHANGED <<kinds, row, chain, strategy, phase, edits, crashes,
                   overlapped, forgone, lost>>

(* The daemon dies and is started again: ticks are gone, the row is not.   *)
Crash ==
    /\ MayFault
    /\ crashes' = crashes + 1
    /\ lost' = lost \cup InFlight
    /\ tick' = [t \in Ticks |-> Idle]
    /\ UNCHANGED <<kinds, row, chain, strategy, phase, edits, overlapped, forgone>>

Older(time) == IF time = -Horizon THEN time ELSE time - 1

TimeStep ==
    /\ \A t \in Ticks : tick[t].pc = "observing" => tick[t].at > -MaxAge
    /\ phase' = (phase + 1) % Period
    /\ row' = [row EXCEPT !.dueAt = Older(@), !.fired = Older(@),
                          !.until = Older(@), !.last = Older(@)]
    /\ tick' = [t \in Ticks |-> IF tick[t].pc = "observing"
                                THEN [tick[t] EXCEPT !.at = @ - 1] ELSE tick[t]]
    /\ UNCHANGED <<kinds, chain, strategy, edits, crashes, overlapped, forgone, lost>>

TickStep(t) ==
    \/ StartObserve(t)
    \/ CheckWindow(t)
    \/ FailObserve(t)
    \/ Ingest(t)
    \/ Materialize(t)
    \/ Interpreted(t)

Next ==
    \/ \E k \in Kinds : Change(k)
    \/ \E s \in Strategies : Edit(s)
    \/ \E t \in Ticks : TickStep(t)
    \/ Crash
    \/ TimeStep

Spec == Init /\ [][Next]_vars

(* Time passes and a tick in flight goes on.  The loop's interval is far   *)
(* below a minute, so some ticks start in the minute of the window; a      *)
(* source answers at times, and at times when asked in that minute.        *)
AnswerAtWindow(t) ==
    /\ tick[t].pc = "observing"
    /\ WindowMatches(tick[t].at)
    /\ Ingest(t)

Fairness ==
    /\ WF_vars(TimeStep)
    /\ \A t \in Ticks :
         /\ SF_vars(Ingest(t)) /\ SF_vars(AnswerAtWindow(t))
         /\ WF_vars(Materialize(t)) /\ SF_vars(Interpreted(t))
         /\ SF_vars(phase = 0 /\ (StartObserve(t) \/ CheckWindow(t)))

FairSpec == Spec /\ Fairness
-----------------------------------------------------------------------------
Versions == 1 .. MaxChanges

Row ==
    [source : Nat, debounce : Seq(Nat), dueAt : -Horizon .. Settle, rollup : Seq(Nat),
     fired : -Horizon .. 0, until : -Horizon .. Suppress, last : -Horizon .. 0]

Flight ==
    {Idle}
    \cup [pc : {"observing"}, at : -MaxAge .. 0, how : Strategies,
          previous : Nat, from : Nat]
    \cup [pc : {"materializing", "interpreting"}, rest : Seq(Nat)]

(* The variables have their types, and only changes are observed.          *)
TypeOK ==
    /\ kinds \in Seq(Kinds)
    /\ row \in Row /\ row.source <= Len(kinds)
    /\ chain \in Seq(Nat)
    /\ tick \in [Ticks -> Flight]
    /\ Elements(chain) \cup Held(row) \cup InFlight \subseteq 1 .. Len(kinds)
    /\ strategy \in Strategies
    /\ phase \in 0 .. Period - 1
    /\ {edits, crashes} \subseteq Nat /\ overlapped \in BOOLEAN
    /\ forgone \cup lost \subseteq 1 .. Len(kinds)

(* Every change the stored baseline has passed is accounted for: on the    *)
(* chain, held in a batch, about to be inserted, dropped on purpose, or    *)
(* caught by a crash between the stored row and its insertion.             *)
NothingVanishes ==
    1 .. row.source \subseteq
        Elements(chain) \cup Held(row) \cup InFlight \cup forgone \cup lost

(* Nothing vanishes, and nothing is made up: what is on the chain, held or *)
(* in flight was observed, and the stored row is one (service.ts,          *)
(* dispatchNotify; store.ts, setMonitorState).                            *)
Conserved == TypeOK /\ NothingVanishes

(* As long as ticks do not overlap no change is ingested twice, whatever   *)
(* crashes, failures of the source and edits of the strategy come between. *)
IngestedOnce ==
    ~overlapped =>
        /\ \A i, j \in DOMAIN chain : chain[i] = chain[j] => i = j
        /\ Elements(chain) \cap Held(row) = {}
        /\ InFlight \cap (Elements(chain) \cup Held(row)) = {}

(* "Held-first": under one authored strategy the chain is in the order of  *)
(* the changes, although some are held and some are not.                   *)
ChainInOrder ==
    ~overlapped /\ edits = 0 /\ strategy # "default" =>
        \A i, j \in DOMAIN chain : i < j => chain[i] < chain[j]

(* A held observation is emitted at last, unless the strategy is edited.   *)
Holds(v) == v \in Held(row) /\ edits = 0
HeldIsEmitted == \A v \in Versions : Holds(v) ~> ~Holds(v)
=============================================================================
