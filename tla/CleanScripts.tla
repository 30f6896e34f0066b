---------------------------- MODULE CleanScripts ----------------------------
(* The guard of the workspace's `clean` scripts                              *)
(* (scripts/clean-script-contract.mjs): a script is split into commands,     *)
(* each marked as guaranteed to run or not, and accepted when guaranteed     *)
(* commands do the required work.  The shell that runs an accepted script is *)
(* modelled beside it, command by command: commands the guard knows behave   *)
(* as it trusts them to, every other command succeeds or fails.  Scripts are *)
(* token sequences; quoting, escapes and comments are resolved by the lexer  *)
(* and abstracted.                                                           *)
EXTENDS Integers, Sequences, FiniteSets, SequencesExt

CONSTANTS Commands,     \* the commands scripts are made of, see Command
          MaxTokens     \* scripts have at most this many tokens

VARIABLES script,       \* the clean script: commands and operators
          at,           \* the command the shell comes to next
          status,       \* exit status of the last command that ran
          ran,          \* commands that ran in the foreground, in order
          ended         \* an exit or exec ended the shell

vars == <<script, at, status, ran, ended>>

Operators == {"&&", "||", ";", "newline", "&"}
AndOr == {"&&", "||"}
(* A lexed command: its head word and the words after it that matter.        *)
Command == [head : {"rm", "run-many", "reset", "true", "false", "exit", "exec",
                    "if", "other"},
            words : SUBSET {"dist", "temp", "flag", "noop", "tui", "exclude"}]
Operator == [head : Operators, words : {{}}]
IsCommand(t) == t.head \notin Operators

-----------------------------------------------------------------------------
(* The guard.                                                                *)

Reserved == {"if"}
ReservedFree(s) == \A i \in DOMAIN s : IsCommand(s[i]) => s[i].head \notin Reserved

(* The operators between two commands, or before the first or after the last. *)
GapIsValid(gap, before, after) ==
    IF \E i \in DOMAIN gap : gap[i].head \in AndOr
    THEN /\ gap[1].head \in AndOr
         /\ \A i \in 2..Len(gap) : gap[i].head = "newline"
         /\ before /\ after
    ELSE \A i \in DOMAIN gap : gap[i].head \in {";", "&"} => i = 1 /\ before

NoDanglingOperators(s) ==
    LET places == {i \in DOMAIN s : IsCommand(s[i])}
        from == places \cup {0}
        ends(i) == CHOOSE j \in (i + 1)..(Len(s) + 1) :
                     /\ j = Len(s) + 1 \/ j \in places
                     /\ \A k \in (i + 1)..(j - 1) : k \notin places
    IN \A i \in from :
         GapIsValid(SubSeq(s, i + 1, ends(i) - 1), i # 0, ends(i) # Len(s) + 1)

IsRmRf(c) == c.head = "rm" /\ "flag" \notin c.words
IsRunMany(c) == c.head = "run-many" /\ "noop" \notin c.words
IsReset(c) == c.head = "reset" /\ "noop" \notin c.words
Terminating(c) == c.head \in {"exit", "exec"}

KnownStatus(c) ==
    IF c.head = "false" THEN "fail"
    ELSE IF c.head = "true" \/ IsRmRf(c) \/ IsRunMany(c) \/ IsReset(c) THEN "success"
    ELSE "unknown"

Start == [commands |-> <<>>, pending |-> "none", last |-> "success", list |-> 0,
          terminated |-> FALSE, terminating |-> FALSE]

Reachable(g) ==
    /\ ~g.terminated /\ ~g.terminating
    /\ g.pending = "&&" => g.last = "success"
    /\ g.pending = "||" => g.last = "fail"

SplitCommand(g, c) ==
    LET fresh == ~g.terminated /\ ~g.terminating /\ g.pending = "none"
    IN [g EXCEPT
         !.commands = Append(@, [command |-> c, guaranteed |-> Reachable(g)]),
         !.list = IF fresh THEN Len(g.commands) ELSE @,
         !.last = IF Reachable(g) THEN KnownStatus(c) ELSE @,
         !.terminating = @ \/ (Reachable(g) /\ Terminating(c)),
         !.pending = "none"]

(* A lone & puts the whole and-or list before it into the background.        *)
SplitBackground(g) ==
    [g EXCEPT !.commands = [i \in DOMAIN @ |->
                              [@[i] EXCEPT !.guaranteed = @ /\ i <= g.list]],
              !.list = Len(g.commands), !.pending = "none", !.terminating = FALSE]

SplitSeparator(g) ==
    IF g.pending = "none" /\ g.terminating
    THEN [g EXCEPT !.terminated = TRUE, !.terminating = FALSE]
    ELSE g

Split(g, token) ==
    CASE IsCommand(token)             -> SplitCommand(g, token)
      [] token.head = "&"                 -> SplitBackground(g)
      [] token.head \in {";", "newline"} -> SplitSeparator(g)
      [] token.head \in AndOr         -> [g EXCEPT !.pending = IF @ = "none" THEN token.head
                                                               ELSE @]

Guaranteed(s) ==
    LET split == FoldLeft(Split, Start, s).commands
    IN {i \in DOMAIN split : split[i].guaranteed}

Lexes(s) == ReservedFree(s) /\ NoDanglingOperators(s)
CommandsOf(s) == SelectSeq(s, IsCommand)

PackageAccepted(s) ==
    LET rm == {i \in Guaranteed(s) : IsRmRf(CommandsOf(s)[i])}
    IN {"dist", "temp"} \subseteq UNION {CommandsOf(s)[i].words : i \in rm}

First(S) == CHOOSE i \in S : \A j \in S : i <= j

RootAccepted(s) ==
    LET many == {i \in Guaranteed(s) : IsRunMany(CommandsOf(s)[i])}
        reset == {i \in Guaranteed(s) : IsReset(CommandsOf(s)[i])}
    IN /\ many # {} /\ reset # {}
       /\ {"exclude", "tui"} \subseteq CommandsOf(s)[First(many)].words
       /\ First(reset) > First(many)
       /\ "tui" \in CommandsOf(s)[First(reset)].words

-----------------------------------------------------------------------------
(* The shell, from its grammar: what follows a command decides how it is run.*)

Place(i) == CHOOSE p \in DOMAIN script :
              /\ IsCommand(script[p])
              /\ Cardinality({q \in 1..p : IsCommand(script[q])}) = i
Count == Len(CommandsOf(script))
Joined(i) == IF i = 1 \/ ~\E p \in Place(i - 1)..Place(i) : script[p].head \in AndOr
             THEN "none" ELSE script[Place(i - 1) + 1].head
(* The last command of the and-or list that command i belongs to.            *)
ListEnd(i) == First({j \in i..Count : j = Count \/ Joined(j + 1) = "none"})
InBackground(i) ==
    LET p == Place(ListEnd(i)) + 1 IN p \in DOMAIN script /\ script[p].head = "&"

Outcomes(c) ==
    CASE KnownStatus(c) = "unknown" -> {"success", "fail"}
      [] OTHER                      -> {KnownStatus(c)}

Background ==
    /\ at <= Count /\ ~ended /\ Joined(at) = "none" /\ InBackground(at)
    /\ at' = ListEnd(at) + 1
    /\ status' = "success"
    /\ UNCHANGED <<script, ran, ended>>

Foreground == at <= Count /\ ~ended /\ (Joined(at) # "none" \/ ~InBackground(at))
Gated == \/ Joined(at) = "&&" /\ status = "fail"
         \/ Joined(at) = "||" /\ status = "success"

Skip ==
    /\ Foreground /\ Gated
    /\ at' = at + 1
    /\ UNCHANGED <<script, status, ran, ended>>

Execute ==
    /\ Foreground /\ ~Gated
    /\ at' = at + 1
    /\ ran' = Append(ran, at)
    /\ ended' = Terminating(CommandsOf(script)[at])
    /\ \E o \in Outcomes(CommandsOf(script)[at]) : status' = o
    /\ UNCHANGED script

Done == (ended \/ at > Count) /\ UNCHANGED vars

(* A command never follows a command directly: the lexer would have made     *)
(* one of the two.                                                           *)
Scripts ==
    {s \in UNION {[1..n -> Commands \cup Operator] : n \in 1..MaxTokens} :
       /\ \A i \in 1..(Len(s) - 1) : ~(IsCommand(s[i]) /\ IsCommand(s[i + 1]))
       /\ Lexes(s)
       /\ PackageAccepted(s) \/ RootAccepted(s)}

Init == script \in Scripts /\ at = 1 /\ status = "success" /\ ran = <<>> /\ ended = FALSE
Next == Background \/ Skip \/ Execute \/ Done
Spec == Init /\ [][Next]_vars

-----------------------------------------------------------------------------
Finished == ended \/ at > Count
Words(i) == CommandsOf(script)[i].words

CleanDone ==
    /\ PackageAccepted(script) =>
         {"dist", "temp"} \subseteq
           UNION {Words(ran[k]) : k \in {j \in DOMAIN ran : IsRmRf(CommandsOf(script)[ran[j]])}}
    /\ RootAccepted(script) =>
         \E j, k \in DOMAIN ran : /\ j < k
                                  /\ IsRunMany(CommandsOf(script)[ran[j]])
                                  /\ IsReset(CommandsOf(script)[ran[k]])

(* An accepted script does its job in every run in which the commands the    *)
(* guard trusts succeed (assertPackageCleanRemovesDistAndTemp,               *)
(* assertRootCleanRunsWorkspaceCleanAndReset): a package's script has        *)
(* removed both directories, the root's has cleaned every project and then   *)
(* reset the cache.  Unless the shell was ended by an exit or exec that the  *)
(* guard took for skipped because the command before it has an unknown       *)
(* status.                                                                   *)
AcceptedCleansUnlessExited ==
    Finished /\ (ended => ran[Len(ran)] \in Guaranteed(script)) => CleanDone

(* What the guard lets through is a script the shell parses: after && or ||  *)
(* comes a command, a separator ends a command, and no compound command is   *)
(* taken for a simple one.                                                   *)
Simple(token) == IsCommand(token) /\ token.head \notin Reserved
Expected(state, token) ==
    CASE state = "statement" /\ Simple(token)          -> "command"
      [] state = "statement" /\ token.head = "newline" -> "statement"
      [] state = "command" /\ token.head \in AndOr     -> "operand"
      [] state = "command" /\ token.head \in {";", "&", "newline"} -> "statement"
      [] state = "operand" /\ token.head = "newline"        -> "operand"
      [] state = "operand" /\ Simple(token)            -> "command"
      [] OTHER                                         -> "error"
AcceptedParses == FoldLeft(Expected, "statement", script) \in {"statement", "command"}
=============================================================================
