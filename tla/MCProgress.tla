----------------------------- MODULE MCProgress -----------------------------
(***************************************************************************)
(* The components that get somewhere only because what fails is tried      *)
(* again: the source that is watched or polled, the batches a monitor      *)
(* holds, verify's clean-up beside a ticking daemon, and the release       *)
(* workflow.  A behaviour is one of the component "part", for ever.  The   *)
(* watchers have their own variables; the others share v1 .. v15, those a  *)
(* component does not need staying 0.                                      *)
(***************************************************************************)
EXTENDS Progress

CONSTANTS w1, w2

PackageDirs == <<"core", "cli">>

Pipe == INSTANCE Ingestion WITH
    Ticks <- {"loop"}, MaxChanges <- 2, MaxFaults <- 1, MaxAge <- 1, Horizon <- 2,
    Kinds <- {"normal", "high", "gated"},
    Strategies <- {"default", "debounce", "throttle", "rollup"},
    Interval <- 1, Settle <- 1, Suppress <- 1, Period <- 2, Base <- "normal", Top <- "high",
    kinds <- v1, row <- v2, chain <- v3, tick <- v4, strategy <- v5, phase <- v6,
    edits <- v7, crashes <- v8, overlapped <- v9, forgone <- v10, lost <- v11

all == <<part, vars, shared>>

\* The shared variables after the first 11, 6 and 0: what a component of fewer
\* variables does not use stays 0.
after11 == <<v12, v13, v14, v15>>
after6 == <<v7, v8, v9, v10, v11, after11>>
Zero11 == v12 = 0 /\ v13 = 0 /\ v14 = 0 /\ v15 = 0
Zero6 == v7 = 0 /\ v8 = 0 /\ v9 = 0 /\ v10 = 0 /\ v11 = 0 /\ Zero11
Zero0 == v1 = 0 /\ v2 = 0 /\ v3 = 0 /\ v4 = 0 /\ v5 = 0 /\ v6 = 0 /\ Zero6

MCInit ==
    /\ Init
    /\ \/ part = "watchers" /\ Zero0
       \/ part = "pipe" /\ Pipe!Init /\ Zero11
       \/ part = "ship" /\ Ship!Init /\ Zero6
       \/ part = "check" /\ Check!Init

Of(name, A, unused) == part = name /\ A /\ UNCHANGED <<part, unused>>

Watch(A) == Of("watchers", A, shared)
Hold(A) == Of("pipe", A, <<vars, after11>>)
Release(A) == Of("ship", A, <<vars, after6>>)
Clean(A) == Of("check", A, vars)

MCNext == Watch(Next) \/ Hold(Pipe!Next) \/ Release(Ship!Next) \/ Clean(Check!Next)

\* The weakly fair actions of the components, and then the strongly fair ones,
\* one of each component at a time.
MCSpec ==
    /\ MCInit /\ [][MCNext]_all
    /\ \A w \in Tokens :
         /\ WF_all(Watch(Run(w)))
         /\ WF_all(Watch(watcher[w].aborted /\ End(w)))
    /\ WF_all(\/ Watch(EndObserve)
              \/ Hold(Pipe!TimeStep)
              \/ Release(Ship!RunStarts)
              \/ Clean(Check!Cleans))
    /\ WF_all(\/ Hold(Pipe!Materialize("loop"))
              \/ Release(Ship!OpenVersionPR)
              \/ Clean(Check!Ticks))
    /\ SF_all(\/ Watch(StartObserve)
              \/ Hold(Pipe!Ingest("loop"))
              \/ Release(Ship!LandUnrelated)
              \/ Clean(Check!Elapse))
    /\ SF_all(\/ Watch(Yield(w1))
              \/ Hold(Pipe!AnswerAtWindow("loop"))
              \/ Release(Ship!CIEnds(1, TRUE)))
    /\ SF_all(\/ Watch(Yield(w2))
              \/ Hold(Pipe!Interpreted("loop"))
              \/ Release(Ship!MergeVersionPR))
    /\ SF_all(\/ Hold(v6 = 0 /\ (Pipe!StartObserve("loop") \/ Pipe!CheckWindow("loop")))
              \/ Release(Ship!Gate({})))
    /\ SF_all(Release(Ship!Plan({})))
    /\ SF_all(Release(Ship!Publish(TRUE)))
-----------------------------------------------------------------------------
(* A held observation is emitted at last, unless the strategy is edited    *)
(* (service.ts, dispatchNotify and dispatchRollup).                        *)
HeldIsEmitted ==
    \A v \in Pipe!Versions :
        (part = "pipe" /\ Pipe!Holds(v)) ~> (part = "pipe" => ~Pipe!Holds(v))

(* After any partial failure later commits bring every version main ends   *)
(* up with to the registry (release-gate.mjs).                             *)
Reconciles == <>[](part = "ship" => Ship!Reconciled)

(* However verify ends, its session ends and the rows of its scratch file  *)
(* are gone for good, those the daemon inserts late included (verify.ts,   *)
(* suppressScratchEvents; service.ts, applyObjectSuppressions).            *)
LeavesNoTrace == <>[](part = "check" => Check!Traceless)
=============================================================================
