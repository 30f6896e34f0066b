------------------------------ MODULE MCParts -------------------------------
(***************************************************************************)
(* The components of which the safety is checked, each on its own: those   *)
(* of Parts, the sessions, which have their own variables, and those of    *)
(* the instances here, which share v1 .. v15 too.  A variable that a       *)
(* component does not need stays 0.                                        *)
(***************************************************************************)
EXTENDS Parts

\* JSON values for the differences: arrays of up to two objects that are told apart
\* by an id, by the type of an id or by another field, and other pairs of shapes.
Text(t, string) == [type |-> "scalar", text |-> t, string |-> string]
Fields(f) == [type |-> "object", fields |-> f]
Elements(s) == [type |-> "array", elements |-> s]
One == Text("1", FALSE)
Two == Text("2", FALSE)
Objects ==
    {Fields(<<>>), Fields([id |-> One]), Fields([id |-> Two]), Fields([id |-> Text("1", TRUE)]),
     Fields([id |-> One, v |-> One]), Fields([id |-> Two, v |-> One])}
Json ==
    {Elements(s) : s \in UNION {[1 .. n -> Objects] : n \in 0 .. 2}}
    \cup {One, Elements(<<One, Two>>), Elements(<<Two>>), Elements(<<Fields(<<>>), One>>),
          Fields([items |-> Elements(<<One>>)]), Fields([items |-> One])}

Delta == INSTANCE Diff WITH Values <- Json, Cap <- 2, baseline <- v1, newest <- v2

Time == INSTANCE Durations WITH
    Base <- 4, Units <- <<1, 3, 7, 20>>, Limits <- {20, 21, 27, 59, 63, 64, 65, 120},
    MaxLen <- 4,
    max <- v1, text <- v2, unit <- v3

Shell(head, words) == [head |-> head, words |-> words]
Scripts ==
    {Shell("rm", {"dist", "temp"}), Shell("rm", {"dist", "flag"}),
     Shell("run-many", {"tui", "exclude"}), Shell("reset", {"tui"}), Shell("false", {}),
     Shell("exit", {}), Shell("if", {})}

Clean == INSTANCE CleanScripts WITH
    Commands <- Scripts, MaxTokens <- 5,
    script <- v1, at <- v2, status <- v3, ran <- v4, ended <- v5

all == <<part, vars, shared>>

\* The shared variables after the first 11, 10, 9, 8, 5, 4, 3, 2 and 0: what a
\* component of fewer variables does not use stays 0.
after11 == <<v12, v13, v14, v15>>
after10 == <<v11, after11>>
after9 == <<v10, after10>>
after8 == <<v9, after9>>
after5 == <<v6, v7, v8, after8>>
after4 == <<v5, after5>>
after3 == <<v4, after4>>
after2 == <<v3, after3>>
Zero11 == v12 = 0 /\ v13 = 0 /\ v14 = 0 /\ v15 = 0
Zero10 == v11 = 0 /\ Zero11
Zero9 == v10 = 0 /\ Zero10
Zero8 == v9 = 0 /\ Zero9
Zero5 == v6 = 0 /\ v7 = 0 /\ v8 = 0 /\ Zero8
Zero4 == v5 = 0 /\ Zero5
Zero3 == v4 = 0 /\ Zero4
Zero2 == v3 = 0 /\ Zero3
Zero0 == v1 = 0 /\ v2 = 0 /\ Zero2

MCInit ==
    /\ Init
    /\ \/ part = "sessions" /\ Zero0
       \/ part = "observe" /\ Observe!Init /\ Zero9
       \/ part = "hook" /\ Hook!Init /\ Zero11
       \/ part = "size" /\ Size!Init /\ Zero11
       \/ part = "source" /\ Source!Init
       \/ part = "composite" /\ Whole!Init /\ Zero8
       \/ part = "doctor" /\ Doc!Init /\ Zero10
       \/ part = "outbox" /\ Outbox!Init /\ Zero5
       \/ part = "database" /\ Database!Init /\ Zero9
       \/ part = "inbox" /\ Box!Init /\ Zero4
       \/ part = "delta" /\ Delta!Init /\ Zero2
       \/ part = "time" /\ Time!Init /\ Zero3
       \/ part = "clean" /\ Clean!Init /\ Zero5

Of(name, A, unused) == part = name /\ A /\ UNCHANGED <<part, unused>>

MCNext ==
    \/ Of("sessions", Next, shared)
    \/ Of("observe", Observe!Next, <<vars, after9>>)
    \/ Of("hook", Hook!Next, <<vars, after11>>)
    \/ Of("size", Size!Next, <<vars, after11>>)
    \/ Of("source", Source!Next, vars)
    \/ Of("composite", Whole!Next, <<vars, after8>>)
    \/ Of("doctor", Doc!Next, <<vars, after10>>)
    \/ Of("outbox", Outbox!Next, <<vars, after5>>)
    \/ Of("database", Database!Next, <<vars, after9>>)
    \/ Of("inbox", Box!Next, <<vars, after4>>)
    \/ Of("delta", Delta!Next, <<vars, after2>>)
    \/ Of("time", Time!Next, <<vars, after3>>)
    \/ Of("clean", Clean!Next, <<vars, after5>>)

MCSpec == MCInit /\ [][MCNext]_all
-----------------------------------------------------------------------------
(* Two computations of one thing agree on every input: the difference of   *)
(* two versions and the detection of a change (diff.ts), the pattern of a  *)
(* timeout and its parser, and what the clean-script guard accepts and     *)
(* what the shell then does (clean-script-contract.mjs).                   *)
ComputationsAgree ==
    /\ part = "delta" => Delta!DiffAgreesWithDetection /\ Delta!DiffTellsVersionsApart
    /\ part = "time" => Time!PatternMatchesParser
    /\ part = "clean" => Clean!AcceptedCleansUnlessExited /\ Clean!AcceptedParses
=============================================================================
