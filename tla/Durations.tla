----------------------------- MODULE Durations -----------------------------
(***************************************************************************)
(* The `timeout` of a source (libs/core/src/notify/notifier.ts): the       *)
(* schema pattern an author's value is validated against and the parser    *)
(* the runtime uses are two codes for one language.  The pattern is built  *)
(* from the largest value by digit ranges.  Base stands for ten and the    *)
(* units for s, m, h, d.                                                   *)
(***************************************************************************)
EXTENDS Naturals, Sequences, SequencesExt

CONSTANTS
    Base,       \* digits are 0..Base-1
    Units,      \* unit -> its milliseconds, as a sequence
    Limits,     \* MAX_OPERATION_TIMEOUT_MS, the values tried
    MaxLen      \* bound: digits of an author's value

VARIABLES max, text, unit

vars == <<max, text, unit>>

Digits == 0..Base - 1

(* The number a digit sequence names. *)
Value(s) == FoldLeft(LAMBDA acc, d : acc * Base + d, 0, s)

(* String(n): the digits of n, without leading zeros. *)
RECURSIVE DigitsOf(_)
DigitsOf(n) == IF n < Base THEN <<n>> ELSE Append(DigitsOf(n \div Base), n % Base)

(* A fragment is a set of branches; a branch gives a digit set for each   *)
(* place.                                                                 *)
AnyDigit(n) == [i \in 1..n |-> Digits]
Matches(s, fragment) == \E b \in fragment :
    Len(b) = Len(s) /\ \A i \in DOMAIN s : s[i] \in b[i]

Prefixed(d, fragment) == {<<{d}>> \o b : b \in fragment}

(* zeroRangeFragment: 0..Value(s), in exactly Len(s) places. *)
RECURSIVE ZeroRange(_)
ZeroRange(s) ==
    IF Len(s) = 1 THEN {<<0..s[1]>>}
    ELSE (IF s[1] # 0 THEN {<<0..s[1] - 1>> \o AnyDigit(Len(s) - 1)} ELSE {})
         \cup Prefixed(s[1], ZeroRange(Tail(s)))

Shorter(s) == {<<1..Base - 1>> \o AnyDigit(n - 1) : n \in 1..Len(s) - 1}

(* digitRangeFragment: 1..Value(s), without leading zeros. *)
DigitRange(s) ==
    Shorter(s) \cup
    IF Len(s) = 1 THEN {<<1..s[1]>>}
    ELSE (IF s[1] = 1 THEN {} ELSE {<<1..s[1] - 1>> \o AnyDigit(Len(s) - 1)})
         \cup Prefixed(s[1], ZeroRange(Tail(s)))

(* OPERATION_TIMEOUT_PATTERN: every unit's digits bounded by its quotient. *)
PatternAccepts == Matches(text, DigitRange(DigitsOf(max \div Units[unit])))

(* parseOperationTimeoutMs: no zero length, no leading zero, not longer   *)
(* than a timer can wait.                                                 *)
ParserAccepts ==
    /\ text # <<>>
    /\ text[1] # 0
    /\ Value(text) * Units[unit] <= max

Init == max \in Limits /\ unit \in DOMAIN Units /\ text = <<>>

(* The author types one more digit. *)
Type ==
    /\ Len(text) < MaxLen
    /\ \E d \in Digits : text' = Append(text, d)
    /\ UNCHANGED <<max, unit>>

Next == Type
Spec == Init /\ [][Next]_vars
-----------------------------------------------------------------------------
(* Validation and the runtime agree on every value: what `validate`        *)
(* accepts never fails at the first observation, and nothing valid is      *)
(* rejected while authoring.                                               *)
PatternMatchesParser == PatternAccepts = ParserAccepts
=============================================================================
