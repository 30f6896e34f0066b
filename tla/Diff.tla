-------------------------------- MODULE Diff --------------------------------
(* The delta of an object's snapshots (runtime/diff.ts): buildDiff renders   *)
(* what changed between a recipient's baseline and the newest snapshot.      *)
(* Under json-diff both are parsed and compared structurally; the change     *)
(* itself was detected by the source's own hasChanged                        *)
(* (source-api-poll), a separate algorithm.  The text diff, which differs    *)
(* exactly when the texts do, and the lengths of keys and values are         *)
(* abstracted.                                                               *)
EXTENDS Integers, Sequences, FiniteSets, FiniteSetsExt, SequencesExt

CONSTANTS Values,       \* JSON values a snapshot may hold, see below
          Cap           \* MAX_JSON_DIFF_ENTRIES

(* A JSON value: a scalar with its text and whether it is a string, an       *)
(* object as a function from its keys, an array as a sequence.               *)
Scalar(text, string) == [type |-> "scalar", text |-> text, string |-> string]
Object(fields) == [type |-> "object", fields |-> fields]
Array(elements) == [type |-> "array", elements |-> elements]

VARIABLES baseline,     \* the text the recipient last saw
          newest        \* the newest text: a value, its formatting, or no JSON

vars == <<baseline, newest>>

Texts == [json : BOOLEAN, value : Values, form : {"compact", "pretty"}]

(* hasChanged under json-diff: keys are sorted, elements are not.            *)
HasChanged(p, c) ==
    IF p.json /\ c.json THEN p.value # c.value ELSE p # c

-----------------------------------------------------------------------------
PropertyNames == <<"id", "items", "v">>
IdentityKeys == <<"id">>

KeysOf(o) == DOMAIN o.fields
IsIdentity(elements, key) ==
    /\ \A i \in DOMAIN elements : key \in KeysOf(elements[i])
                                  /\ elements[i].fields[key].type = "scalar"
    /\ \A i, j \in DOMAIN elements :
         elements[i].fields[key].text = elements[j].fields[key].text => i = j
FindIdentity(prev, curr) ==
    SelectSeq(IdentityKeys, LAMBDA k : IsIdentity(prev, k) /\ IsIdentity(curr, k))

AllObjects(elements) == \A i \in DOMAIN elements : elements[i].type = "object"
Entry(kind, path, old, new) == [kind |-> kind, path |-> path, old |-> old, new |-> new]
Nothing == [type |-> "none"]
Order(elements, key) == [i \in DOMAIN elements |-> elements[i].fields[key].text]
Copies(elements, e) == Cardinality({i \in DOMAIN elements : elements[i] = e})

(* Without an identity: a multiset match, unmatched elements in order.       *)
Unmatched(elements, others) ==
    SelectSeq([i \in DOMAIN elements |-> i],
              LAMBDA i : Copies(SubSeq(elements, 1, i), elements[i]) > Copies(others, elements[i]))
ByDeepEquality(path, prev, curr) ==
    LET gone == Unmatched(prev, curr)
        new == Unmatched(curr, prev)
        found == [i \in DOMAIN gone |-> Entry("removed", path, prev[gone[i]], Nothing)]
                 \o [i \in DOMAIN new |-> Entry("added", path, Nothing, curr[new[i]])]
    IN IF found = <<>> THEN <<Entry("reordered", path, Nothing, Array(curr))>> ELSE found

RECURSIVE Entries(_, _, _)

ByIndex(path, prev, curr) ==
    FlattenSeq([i \in 1..Max({Len(prev), Len(curr)}) |->
      LET at == Append(path, ToString(i)) IN
      CASE i > Len(curr) -> <<Entry("removed", at, prev[i], Nothing)>>
        [] i > Len(prev) -> <<Entry("added", at, Nothing, curr[i])>>
        [] OTHER         -> Entries(at, prev[i], curr[i])])

At(elements, key, text) == CHOOSE i \in DOMAIN elements : elements[i].fields[key].text = text
KeyedEntries(path, key, prev, curr) ==
    LET old == Order(prev, key)
        new == Order(curr, key)
        place(text) == path \o <<key, text>>
        gone == SelectSeq(old, LAMBDA x : ~Contains(new, x))
        more == SelectSeq(new, LAMBDA x : ~Contains(old, x))
        both == SelectSeq(new, LAMBDA x : Contains(old, x))
    IN [i \in DOMAIN gone |->
          Entry("removed", place(gone[i]), prev[At(prev, key, gone[i])], Nothing)]
       \o [i \in DOMAIN more |->
          Entry("added", place(more[i]), Nothing, curr[At(curr, key, more[i])])]
       \o FlattenSeq([i \in DOMAIN both |->
          Entries(place(both[i]), prev[At(prev, key, both[i])], curr[At(curr, key, both[i])])])

(* Mutant: matched by identity, a mere reordering shows nothing.             *)
Mut_OrderIsNoChange(path, key, prev, curr) == KeyedEntries(path, key, prev, curr)
ByKey(path, key, prev, curr) ==
    IF KeyedEntries(path, key, prev, curr) = <<>> /\ Order(prev, key) # Order(curr, key)
    THEN <<Entry("reordered", path, Nothing, Order(curr, key))>>
    ELSE KeyedEntries(path, key, prev, curr)

OfArrays(path, prev, curr) ==
    IF ~AllObjects(prev) \/ ~AllObjects(curr) THEN ByIndex(path, prev, curr)
    ELSE IF FindIdentity(prev, curr) = <<>> THEN ByDeepEquality(path, prev, curr)
    ELSE ByKey(path, Head(FindIdentity(prev, curr)), prev, curr)

OfObjects(path, prev, curr) ==
    FlattenSeq([i \in DOMAIN PropertyNames |->
      LET k == PropertyNames[i]  at == Append(path, k) IN
      CASE k \notin KeysOf(prev) \cup KeysOf(curr) -> <<>>
        [] k \notin KeysOf(curr) -> <<Entry("removed", at, prev.fields[k], Nothing)>>
        [] k \notin KeysOf(prev) -> <<Entry("added", at, Nothing, curr.fields[k])>>
        [] OTHER -> Entries(at, prev.fields[k], curr.fields[k])])

Entries(path, prev, curr) ==
    CASE prev = curr -> <<>>
      [] prev.type = "array" /\ curr.type = "array" ->
           OfArrays(path, prev.elements, curr.elements)
      [] prev.type = "object" /\ curr.type = "object" -> OfObjects(path, prev, curr)
      [] OTHER -> <<Entry("changed", path, prev, curr)>>

(* The rendered diff: its kind, the entries shown and how many are elided.   *)
BuildDiff(p, c) ==
    LET all == Entries(<<>>, p.value, c.value) IN
    CASE p = c                  -> [kind |-> "empty", shown |-> <<>>, elided |-> 0]
      [] ~p.json \/ ~c.json     -> [kind |-> "lines", shown |-> <<>>, elided |-> 0]
      [] p.json /\ c.json /\ p # c /\ all = <<>> ->
           [kind |-> "formatting", shown |-> <<>>, elided |-> 0]
      [] OTHER -> [kind |-> "structural", shown |-> SubSeq(all, 1, Min({Cap, Len(all)})),
                   elided |-> Max({0, Len(all) - Cap})]

-----------------------------------------------------------------------------
Init == baseline \in Texts /\ newest = baseline

Observe(t) == newest' = t /\ UNCHANGED baseline
Deliver == baseline' = newest /\ UNCHANGED newest
Next == Deliver \/ \E t \in Texts : Observe(t)
Spec == Init /\ [][Next]_vars

(* Whenever the source detects a change the recipient's delta shows one, and *)
(* when only the formatting differs the delta says so: the two comparisons   *)
(* never disagree (diff.ts buildDiff, "change detected <=> non-empty         *)
(* diffText").                                                               *)
DiffAgreesWithDetection ==
    LET d == BuildDiff(baseline, newest).kind IN
    /\ HasChanged(baseline, newest) => d \in {"structural", "lines"}
    /\ ~HasChanged(baseline, newest) => d \in {"empty", "formatting"}

(* A delta that elides nothing determines the newest value, up to the order  *)
(* of elements: no two versions look the same to a recipient who knows the   *)
(* baseline, whichever matching of elements each of them was diffed with.    *)
RECURSIVE Unordered(_)
Unordered(v) ==
    CASE v.type = "array" ->
           [type |-> "array", bag |->
              LET e == [i \in DOMAIN v.elements |-> Unordered(v.elements[i])]
              IN [x \in {e[i] : i \in DOMAIN e} |-> Copies(e, x)]]
      [] v.type = "object" ->
           [type |-> "object", fields |-> [k \in KeysOf(v) |-> Unordered(v.fields[k])]]
      [] OTHER -> v
DiffTellsVersionsApart ==
    LET d == BuildDiff(baseline, newest) IN
    d.kind = "structural" /\ d.elided = 0 =>
      \A other \in Values :
        BuildDiff(baseline, [newest EXCEPT !.value = other]) = d =>
          Unordered(other) = Unordered(newest.value)
=============================================================================
