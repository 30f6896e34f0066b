------------------------------ MODULE Release ------------------------------
(* Releasing the packages (scripts/release-gate.mjs,                         *)
(* scripts/publish-release-packages.mjs): after each successful CI run on    *)
(* main, one release run at a time checks that commit out, asks a gate       *)
(* whether there is release work, and either opens the version pull request  *)
(* or publishes what the registry lacks.  The registry may not answer, a     *)
(* publish may fail on either side of its effect, CI runs end in any order.  *)
EXTENDS Integers, Sequences, FiniteSets, SequencesExt

CONSTANTS Packages,     \* PACKAGE_DIRS, in order
          MaxVersion    \* versions are 0..MaxVersion; 0 is published already

VARIABLES main,         \* the head of main: versions and pending changesets
          pr,           \* packages the open version pull request bumps
          ci,           \* commits whose CI is running
          pending,      \* the commit queued for a release run, or none
          run,          \* the release run
          registry      \* package versions on the registry

vars == <<main, pr, ci, pending, run, registry>>

Package == {Packages[i] : i \in DOMAIN Packages}
Commit == [version : [Package -> 0..MaxVersion], changed : SUBSET Package]
None == [version |-> <<>>, changed |-> {}]
Phases == {"idle", "gate", "act", "publish"}
Results == {"none", "closed", "versioned", "published", "failed", "rejected"}

TypeOK ==
    /\ main \in Commit /\ pr \subseteq Package /\ pending \in Commit \cup {None}
    /\ ci \in Seq(Commit) /\ Len(ci) <= 2
    /\ run.phase \in Phases /\ run.result \in Results /\ run.at \in Commit \cup {None}
    /\ run.todo \subseteq Package /\ registry \subseteq Package \X (0..MaxVersion)

Init ==
    /\ main = [version |-> [p \in Package |-> 0], changed |-> {}]
    /\ pr = {} /\ ci = <<>> /\ pending = None
    /\ run = [phase |-> "idle", at |-> None, todo |-> {}, result |-> "none"]
    /\ registry = Package \X {0}

-----------------------------------------------------------------------------
(* What happens on main.                                                     *)
Push(commit) == Len(ci) < 2 /\ main' = commit /\ ci' = Append(ci, commit)

LandChange(p) ==
    /\ main.version[p] < MaxVersion /\ p \notin main.changed
    /\ Push([main EXCEPT !.changed = @ \cup {p}])
    /\ UNCHANGED <<pr, pending, run, registry>>

LandUnrelated == Push(main) /\ UNCHANGED <<pr, pending, run, registry>>

MergeVersionPR ==
    /\ pr \cap main.changed # {}
    /\ Push([version |-> [p \in Package |-> main.version[p]
                            + IF p \in pr \cap main.changed THEN 1 ELSE 0],
             changed |-> main.changed \ pr])
    /\ pr' = {}
    /\ UNCHANGED <<pending, run, registry>>

(* One run may wait for the group; a later one takes its place.              *)
CIEnds(i, passed) ==
    /\ i \in DOMAIN ci
    /\ ci' = RemoveAt(ci, i)
    /\ pending' = IF passed THEN ci[i] ELSE pending
    /\ UNCHANGED <<main, pr, run, registry>>

-----------------------------------------------------------------------------
(* The release run.                                                          *)
RunStarts ==
    /\ run.phase = "idle" /\ pending # None
    /\ run' = [phase |-> "gate", at |-> pending, todo |-> {}, result |-> "none"]
    /\ pending' = None
    /\ UNCHANGED <<main, pr, ci, registry>>

(* The packages of the inventory whose version is not published, when the    *)
(* packages in "silent" get no definite answer from the registry.            *)
Unpublished(p) == <<p, run.at.version[p]>> \notin registry
Candidates(silent) == {p \in Package \ silent : Unpublished(p)}

(* Mutant: only packages the commit itself releases open the gate.           *)
Mut_GateByDiff(silent) == run.at.changed # {}
ShouldRun(silent) == run.at.changed # {} \/ Candidates(silent) # {}

End(result) == run' = [run EXCEPT !.phase = "idle", !.todo = {}, !.result = result]

Gate(silent) ==
    /\ run.phase = "gate"
    /\ IF ShouldRun(silent) THEN run' = [run EXCEPT !.phase = "act"] ELSE End("closed")
    /\ UNCHANGED <<main, pr, ci, pending, registry>>

OpenVersionPR ==
    /\ run.phase = "act" /\ run.at.changed # {}
    /\ pr' = run.at.changed
    /\ End("versioned")
    /\ UNCHANGED <<main, ci, pending, registry>>

(* The strict selection: any package without an answer ends the run.         *)
Plan(silent) ==
    /\ run.phase = "act" /\ run.at.changed = {}
    /\ IF silent # {} THEN End("failed")
       ELSE IF Candidates({}) = {} THEN End("published")
       ELSE run' = [run EXCEPT !.phase = "publish", !.todo = Candidates({})]
    /\ UNCHANGED <<main, pr, ci, pending, registry>>

CollateralFails ==
    /\ run.phase = "act" /\ run.at.changed = {}
    /\ End("failed")
    /\ UNCHANGED <<main, pr, ci, pending, registry>>

Place(p) == CHOOSE i \in DOMAIN Packages : Packages[i] = p

(* The registry takes the next package; the answer arrives or is lost.  It   *)
(* rejects a version it has.                                                 *)
Publish(reported) ==
    /\ run.phase = "publish"
    /\ \E p \in run.todo :
       /\ \A q \in run.todo : Place(p) <= Place(q)
       /\ registry' = registry \cup {<<p, run.at.version[p]>>}
       /\ IF ~Unpublished(p) THEN End("rejected")
          ELSE IF ~reported THEN End("failed")
          ELSE IF run.todo = {p} THEN End("published")
          ELSE run' = [run EXCEPT !.todo = @ \ {p}]
    /\ UNCHANGED <<main, pr, ci, pending>>

PublishFails ==
    /\ run.phase = "publish"
    /\ End("failed")
    /\ UNCHANGED <<main, pr, ci, pending, registry>>

Next ==
    \/ \E p \in Package : LandChange(p)
    \/ LandUnrelated \/ MergeVersionPR
    \/ \E i \in 1..2, passed \in BOOLEAN : CIEnds(i, passed)
    \/ RunStarts \/ OpenVersionPR \/ CollateralFails \/ PublishFails
    \/ \E silent \in SUBSET Package : Gate(silent) \/ Plan(silent)
    \/ \E reported \in BOOLEAN : Publish(reported)

(* Commits keep landing and CI, registry and workflow succeed now and then.  *)
Fairness ==
    /\ SF_vars(LandUnrelated) /\ SF_vars(CIEnds(1, TRUE))
    /\ WF_vars(RunStarts) /\ WF_vars(OpenVersionPR) /\ SF_vars(MergeVersionPR)
    /\ SF_vars(Gate({})) /\ SF_vars(Plan({})) /\ SF_vars(Publish(TRUE))
Spec == Init /\ [][Next]_vars /\ Fairness

-----------------------------------------------------------------------------
(* A run that reports success has all versions of its commit on the          *)
(* registry, whatever the registry left unanswered (main, alreadyPublished-  *)
(* OrThrow), and no version is ever published twice, also after a publish    *)
(* whose answer was lost (releaseCandidates).                                *)
ReportsAreTrue ==
    /\ run.phase = "idle" /\ run.result = "published" => \A p \in Package : ~Unpublished(p)
    /\ run.result # "rejected"

(* After any partial failure, later commits bring every version main ends    *)
(* up with to the registry (release-gate.mjs: the gate asks the registry).   *)
Reconciled == \A p \in Package : <<p, main.version[p]>> \in registry
Reconciles == <>[]Reconciled

=============================================================================
