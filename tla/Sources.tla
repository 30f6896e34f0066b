------------------------------ MODULE Sources ------------------------------
(***************************************************************************)
(* The polling observation sources: what observe() reports and which state *)
(* it hands back, poll after poll, while the world moves under it.  An     *)
(* object is absent (0) or at a version.  kind says which source runs:     *)
(*   file      file-fingerprint: one object per file, hashed one by one    *)
(*   keyed     diffKeyedCollection, behind command-poll                    *)
(*   command   command-poll without a collection; health edges             *)
(*   api       api-poll without a collection; error responses              *)
(*   incoming  incoming-changes: the trees of two commits                  *)
(* For command and api the object is one: the part of the output the       *)
(* strategy compares; the other keys stand for the part it ignores.        *)
(***************************************************************************)
EXTENDS Naturals, FiniteSets

CONSTANTS Keys,      \* files, collection keys, paths, parts of an output
          Compared,  \* the key a blob strategy compares
          Versions   \* 0 is absent

VARIABLES kind, world,
          scope,     \* file: the keys the globs match
          base,      \* the baseline in the stored state; Keys -> Versions, or NoBase
          health,    \* command: "ok" or "failing"
          replica,   \* the objects as a follower of the observations knows them
          heard,     \* the health as the follower knows it
          astray,    \* keys the follower was told wrongly of, or not at all: a text that is
                     \* not the hashed one, a removal git calls a rename, a quiet rebaseline
          pc, todo,  \* file: step of the observe in progress and the files it has left
          cur,       \* file: currentHashes
          report,    \* observations of the observe in progress or, when idle, of the last:
                     \* <<key, changeKind, version of the text>>
          edge,      \* the health observation of the last, or "none"
          turn,      \* parity of the observes ended, so that a repeated report is a step
          raced      \* file: those that changed between the two reads of this observe

vars == <<kind, world, scope, base, health, replica, heard, astray, pc, todo, cur, report, edge,
          turn, raced>>
still == <<kind, world, scope>>
kept == <<base, health, replica, heard, astray>>
poll == <<pc, todo, cur, raced>>

NoBase == [none |-> TRUE]
Blank == [k \in Keys |-> 0]
Kinds == {"file", "keyed", "command", "api", "incoming"}
ChangeKinds == {"created", "modified", "deleted", "descoped", "renamed"}
Health == [failing |-> "failing", recovered |-> "ok"]

TypeOK ==
  /\ kind \in Kinds /\ world \in [Keys -> Versions] /\ scope \subseteq Keys
  /\ base = NoBase \/ base \in [Keys -> Versions]
  /\ health \in {"ok", "failing"} /\ heard \in {"ok", "failing"}
  /\ replica \in [Keys -> Versions] /\ astray \subseteq Keys /\ raced \subseteq Keys
  /\ pc \in {"idle", "hash", "compare"} /\ todo \subseteq Keys
  /\ cur \in [Keys -> Versions]
  /\ report \subseteq Keys \X ChangeKinds \X Versions /\ edge \in {"none", "failing", "recovered"} /\ turn \in 0..1

Init ==
  /\ kind \in Kinds /\ scope = Keys
  /\ world \in [Keys -> IF kind \in {"command", "api"} THEN Versions \ {0} ELSE Versions]
  /\ base = NoBase /\ health = "ok" /\ replica = Blank /\ heard = "ok" /\ astray = {}
  /\ pc = "idle" /\ todo = {} /\ cur = Blank /\ report = {} /\ edge = "none" /\ turn = 0 /\ raced = {}

\* A file is read twice: for its hash, and for the text if the hash is a new one.
BetweenReads(k) == cur[k] # 0 /\ (pc = "compare" => k \in todo)

WorldChanges(k, v) ==
  /\ world[k] # v /\ (kind \in {"command", "api"} => v # 0)
  /\ world' = [world EXCEPT ![k] = v]
  /\ raced' = IF BetweenReads(k) THEN raced \cup {k} ELSE raced
  /\ UNCHANGED <<kind, scope, kept, pc, todo, cur, report, edge, turn>>

\* The author edits the globs between two polls.
GlobsEdited(s) ==
  /\ kind = "file" /\ pc = "idle" /\ scope # s /\ scope' = s
  /\ UNCHANGED <<kind, world, kept, poll, report, edge, turn>>

\* Created and modified for what is there, absent for what no longer is.
Differences(old, new, gone) ==
  {<<k, IF old[k] = 0 THEN "created" ELSE "modified", new[k]>> :
     k \in {x \in Keys : new[x] # 0 /\ new[x] # old[x]}}
  \cup {<<k, gone[k], 0>> : k \in {x \in Keys : new[x] = 0 /\ old[x] # 0}}

Reported(obs) == {o[1] : o \in obs}

\* The runtime stores nextState with the observations it takes; the first
\* baseline is what its follower starts from.
Ends(obs, next) ==
  /\ base' = next /\ report' = IF base = NoBase THEN {} ELSE obs
  /\ replica' = IF base = NoBase THEN next
                ELSE [k \in Keys |-> IF k \notin Reported(obs) THEN replica[k]
                                     ELSE (CHOOSE o \in obs : o[1] = k)[3]]

Rejects ==
  /\ report' = {} /\ edge' = "none" /\ turn' = 1 - turn
  /\ UNCHANGED <<still, kept>>

\* The health observation of an observe that leaves the source healthy or failing.
Tells(e) ==
  /\ edge' = e /\ turn' = 1 - turn
  /\ heard' = IF e = "none" THEN heard ELSE Health[e]

\* file-fingerprint: expandGlob.
Glob ==
  /\ kind = "file" /\ pc = "idle"
  /\ todo' = {k \in scope : world[k] # 0} /\ cur' = Blank /\ pc' = "hash" /\ report' = {}
  /\ UNCHANGED <<still, kept, edge, turn, raced>>

HashFile(k) ==
  /\ pc = "hash" /\ k \in todo /\ world[k] # 0
  /\ cur' = [cur EXCEPT ![k] = world[k]] /\ todo' = todo \ {k}
  /\ UNCHANGED <<still, kept, pc, report, edge, turn, raced>>

\* The files to tell of: those whose hash is not the stored one, then those with none.
Compare ==
  /\ pc = "hash" /\ todo = {} /\ pc' = "compare"
  /\ todo' = IF base = NoBase THEN {} ELSE {k \in Keys : cur[k] # base[k]}
  /\ UNCHANGED <<still, kept, cur, report, edge, turn, raced>>

\* buildPresentObservation reads the file again.
TellPresent(k) ==
  /\ pc = "compare" /\ k \in todo /\ cur[k] # 0 /\ world[k] # 0
  /\ report' = report \cup {<<k, IF base[k] = 0 THEN "created" ELSE "modified", world[k]>>}
  /\ todo' = todo \ {k}
  /\ UNCHANGED <<still, kept, pc, cur, edge, turn, raced>>

\* fileExists tells a file that was removed from one the globs no longer match.
TellAbsent(k) ==
  /\ pc = "compare" /\ k \in todo /\ \A x \in todo : cur[x] = 0
  /\ report' = report \cup {<<k, IF world[k] = 0 THEN "deleted" ELSE "descoped", 0>>}
  /\ todo' = todo \ {k}
  /\ UNCHANGED <<still, kept, pc, cur, edge, turn, raced>>

\* A file that is gone by now, or cannot be read, fails the whole observe.
ReadFails ==
  /\ pc # "idle" /\ todo # {} /\ Rejects
  /\ pc' = "idle" /\ todo' = {} /\ cur' = Blank /\ raced' = {}

Mut_ForgetsDescoped(hashes) ==
  [k \in Keys |-> IF hashes[k] = 0 /\ world[k] # 0 /\ base # NoBase THEN base[k] ELSE hashes[k]]
Mut_HashesAtTheEnd(hashes) == [k \in Keys |-> IF hashes[k] = 0 THEN 0 ELSE world[k]]

\* nextFingerprints: the hashes of the first read.
NextFingerprints(hashes) == hashes

FileEnds ==
  /\ pc = "compare" /\ todo = {}
  /\ Ends(report, NextFingerprints(cur)) /\ Tells("none")
  /\ astray' = (astray \ Reported(report)) \cup (raced \cap Reported(report))
  /\ pc' = "idle" /\ cur' = Blank /\ raced' = {} /\ UNCHANGED <<still, health, todo>>

\* The baseline a failed run stores: the one it found.
CarriedOver(stored) == stored

\* command-poll: the run fails.
CommandFails ==
  /\ kind \in {"command", "keyed"} /\ health' = "failing"
  /\ base' = CarriedOver(base) /\ report' = {}
  /\ Tells(IF health = "failing" THEN "none" ELSE "failing")
  /\ UNCHANGED <<still, replica, astray, poll>>

\* hasChanged by strategy: the state takes the whole output, the report its compared part.
Changed(old, new) == old[Compared] # new[Compared]

CommandSucceeds ==
  /\ kind = "command" /\ health' = "ok" /\ Tells(IF health = "failing" THEN "recovered" ELSE "none")
  /\ Ends(IF base # NoBase /\ Changed(base, world)
          THEN {<<Compared, "modified", world[Compared]>>} ELSE {}, world)
  /\ UNCHANGED <<still, astray, poll>>

\* diffKeyedCollection over the parsed output.
KeyedSucceeds ==
  /\ kind = "keyed" /\ health' = "ok" /\ Tells(IF health = "failing" THEN "recovered" ELSE "none")
  /\ Ends(IF base = NoBase THEN {}
          ELSE Differences(base, world, [k \in Keys |-> "descoped"]), world)
  /\ UNCHANGED <<still, astray, poll>>

\* A timeout, an unparseable output, a duplicate key, an HTTP error, an unknown ref.
ObserveRejects ==
  /\ kind # "file" /\ Rejects /\ UNCHANGED poll

ApiAnswers ==
  /\ kind = "api"
  /\ Ends(IF base # NoBase /\ Changed(base, world)
          THEN {<<Compared, "modified", world[Compared]>>} ELSE {}, world)
  /\ Tells("none") /\ UNCHANGED <<still, health, astray, poll>>

\* A removed path that git pairs with an added one is reported under the new path only.
Paired(obs, from) == {IF o[2] = "created" THEN <<o[1], "renamed", o[3]>> ELSE o :
                        o \in {x \in obs : x[1] # from}}

\* incoming-changes: git diff of the stored commit with the current one.
RefAdvances ==
  /\ kind = "incoming"
  /\ LET obs == IF base = NoBase THEN {}
                ELSE Differences(base, world, [k \in Keys |-> "deleted"]) IN
     \/ Ends(obs, world) /\ astray' = astray \ Reported(obs)
     \/ \E from, to \in obs :
          /\ from[2] = "deleted" /\ to[2] = "created"
          /\ Ends(Paired(obs, from[1]), world)
          /\ astray' = (astray \ Reported(obs)) \cup {from[1]}
  /\ Tells("none") /\ UNCHANGED <<still, health, poll>>

\* The stored commit is gone: the new one becomes the baseline and nothing is told.
Rebaseline ==
  /\ kind = "incoming" /\ base # NoBase /\ base # world
  /\ base' = world /\ report' = {}
  /\ astray' = astray \cup {k \in Keys : base[k] # world[k]}
  /\ Tells("none") /\ UNCHANGED <<still, health, replica, poll>>

Next ==
  \/ \E k \in Keys, v \in Versions : WorldChanges(k, v)
  \/ \E s \in SUBSET Keys : GlobsEdited(s)
  \/ Glob \/ Compare \/ ReadFails \/ FileEnds
  \/ \E k \in Keys : HashFile(k) \/ TellPresent(k) \/ TellAbsent(k)
  \/ CommandFails \/ CommandSucceeds \/ KeyedSucceeds \/ ObserveRejects \/ ApiAnswers
  \/ RefAdvances \/ Rebaseline

Spec == Init /\ [][Next]_vars

-----------------------------------------------------------------------------
\* The reports add up: a follower who applies every observation to the first
\* baseline is where the stored baseline is, after any failures, edits and changes
\* in mid-poll, but for what a quiet rebaseline or a rename kept from it and for a
\* file that changed between its two reads.  Of such a file it has a text that was
\* not hashed, for ever if the file goes back, yet never wrong that it is there.
Apart(k) == k \in astray /\ (kind = "file" => replica[k] # 0 /\ base[k] # 0)
ReportsAddUp ==
  LET Follows(k) == kind \in {"command", "api"} => k = Compared IN
  /\ base # NoBase => \A k \in Keys : Follows(k) => replica[k] = base[k] \/ Apart(k)
  /\ heard = health

\* A report is news: nothing is created twice, modified to what it was, or removed
\* when it was not there.  The text of a modified file may be known already if the
\* file changed between two reads, now or when it was told of last.
Missed(k) == kind = "incoming" /\ k \in astray
TellsNews ==
  turn' # turn =>
    /\ \A o \in report' :
         CASE o[2] = "created" -> replica[o[1]] = 0 \/ Missed(o[1])
           [] o[2] = "modified" -> \/ Missed(o[1])
                                   \/ /\ replica[o[1]] # 0
                                      /\ replica[o[1]] # o[3] \/ o[1] \in astray \cup astray'
           [] o[2] = "renamed" -> replica[o[1]] # o[3] \/ Missed(o[1])
           [] OTHER -> replica[o[1]] # 0 \/ Missed(o[1])
    /\ edge' # "none" => heard # Health[edge']
ReportsAreNews == [][TellsNews]_vars
=============================================================================
