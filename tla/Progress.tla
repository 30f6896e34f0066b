------------------------------ MODULE Progress ------------------------------
(***************************************************************************)
(* The watchers of a source, the release workflow and verify's clean-up    *)
(* beside a ticking daemon, which get somewhere only because what fails is *)
(* tried again.  They are checked, and proved about, each on its own: a    *)
(* behaviour is one of the component "part", for ever.  The watchers have  *)
(* their own variables; the others share v1 .. v15, which each knows by    *)
(* names of its own.                                                       *)
(***************************************************************************)
EXTENDS Watchers, FiniteSets

CONSTANTS
    Packages, MaxRelease,                            \* Ship
    Settle, DetectCap, Budget, Dormancy, MaxFaults   \* Check

ASSUME ShipAssumption == MaxRelease \in Nat

\* The default detection budget is an interval, the hold and a margin of a quarter of
\* an interval or more: two intervals at least.  A run of verify, the hold of its rows
\* and the intervals in which they are seen are over before its session is dormant.
ASSUME CheckAssumption ==
    /\ Settle \in Nat /\ DetectCap \in Nat /\ Budget \in Nat /\ Dormancy \in Nat
    /\ DetectCap >= 2 /\ Dormancy >= Budget + Settle + 3

VARIABLES part, v1, v2, v3, v4, v5, v6, v7, v8, v9, v10, v11, v12, v13, v14, v15

shared == <<v1, v2, v3, v4, v5, v6, v7, v8, v9, v10, v11, v12, v13, v14, v15>>

\* Release
main == v1
pr == v2
ci == v3
pending == v4
run == v5
registry == v6
Ship == INSTANCE Release WITH MaxVersion <- MaxRelease

\* Verify; stage is its pc and round its tick
cleanup == v1
settle == v2
file == v3
stage == v4
ids == v5
session == v6
quiet == v7
round == v8
seen == v9
held == v10
age == v11
rows == v12
tomb == v13
polled == v14
faults == v15
Check == INSTANCE Verify WITH pc <- stage, tick <- round
-----------------------------------------------------------------------------
(* The variables of every component have their types.                      *)
Types ==
    /\ part = "watchers" => TypeOK
    /\ part = "ship" => Ship!TypeOK
    /\ part = "check" => Check!TypeOK

(* What is reported done is done: a release run that reports success has   *)
(* published every version of its commit, whatever the registry left       *)
(* unanswered, and none was published twice (publish-release-packages.mjs); and    *)
(* once verify's session has ended, no row of its scratch file outlives    *)
(* the tick that inserted it (verify.ts, suppressScratchEvents;            *)
(* service.ts, applyObjectSuppressions).                                   *)
DoneMeansDone ==
    /\ Types
    /\ part = "ship" => Ship!ReportsAreTrue
    /\ part = "check" => Check!LateRowsGo
=============================================================================
