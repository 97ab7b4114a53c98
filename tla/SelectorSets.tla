------------------------------ MODULE SelectorSets ------------------------------
(***************************************************************************)
(* Selector sets (pkg/common/selector) and the subscriber index that uses  *)
(* them (subscribers in pkg/agent/manager/cache/subscriber.go).            *)
(*                                                                         *)
(* The index has one list of subscriber ids for each string that String()  *)
(* returns for a combination of selectors.  String() iterates over a Go    *)
(* map, so that a combination is spelled in any order of its elements, and *)
(* not twice in the same way: a spelling is here that sequence.            *)
(***************************************************************************)
EXTENDS Naturals, Sequences, FiniteSets, FiniteSetsExt

CONSTANTS Selectors, Sids

VARIABLES
  sidMap,   \* the selectors of each registered subscriber
  selMap    \* spelling -> list of subscriber ids

vars == <<sidMap, selMap>>

Elements(seq) == {seq[i] : i \in DOMAIN seq}

\* The orders in which an iteration over a map may go through the elements of S.
Orders(S) == {q \in [1..Cardinality(S) -> S] : Elements(q) = S}

Spellings == UNION {Orders(S) : S \in (SUBSET Selectors) \ {{}}}

\* Bit p (from 0) of i.
Bit(i, p) == (i \div 2^p) % 2

\* Buggy: the last combination is left out.
powerSetShort(sarr) ==
  {{sarr[p] : p \in {q \in DOMAIN sarr : Bit(i, q - 1) = 1}} : i \in 1..(2^Len(sarr) - 2)}

\* powerSet: the elements at the 1 bits of a counter from 1 to 2^n - 1.
powerSet(sarr) ==
  {{sarr[p] : p \in {q \in DOMAIN sarr : Bit(i, q - 1) = 1}} : i \in 1..(2^Len(sarr) - 1)}

\* Array() gives the elements in any order.
Power(S) == powerSet(CHOOSE q \in Orders(S) : TRUE)

\* IncludesSet compares sizes first, then looks every element up.
IncludesSet(s1, s2) == Cardinality(s2) <= Cardinality(s1) /\ \A x \in s2 : x \in s1

\* EqualSet: sets of one size, one of which includes the other.
EqualSet(a, b) == Cardinality(a) = Cardinality(b) /\ IncludesSet(a, b)

Init ==
  /\ sidMap = [sid \in {} |-> {}]
  /\ selMap = [k \in Spellings |-> <<>>]

\* A String() call for every combination of S: the strings that may come out.
Keys(S) ==
  FoldSet(LAMBDA C, keySets : {K \cup {k} : K \in keySets, k \in Orders(C)}, {{}}, Power(S))

\* subscribers.add
add(sid, S) ==
  /\ sid \notin DOMAIN sidMap
  /\ sidMap' = [x \in (DOMAIN sidMap) \cup {sid} |-> IF x = sid THEN S ELSE sidMap[x]]
  /\ \E K \in Keys(S) :
       selMap' = [k \in Spellings |-> IF k \in K THEN Append(selMap[k], sid) ELSE selMap[k]]

\* append(sids[:i], sids[i+1:]...) shifts the array that the loop still reads.
Shift(arr, i) == [j \in DOMAIN arr |-> IF j >= i /\ j < Len(arr) THEN arr[j + 1] ELSE arr[j]]

\* The loop over one list of selMap, from index i on; len is the stored length.
RemoveFrom(sids, sid) ==
  LET loop[i \in 1..(Len(sids) + 1), arr \in [1..Len(sids) -> Sids], len \in 0..Len(sids)] ==
        IF i > Len(sids) THEN SubSeq(arr, 1, len)
        ELSE IF arr[i] = sid THEN loop[i + 1, Shift(arr, i), Len(sids) - 1]
        ELSE loop[i + 1, arr, len]
  IN loop[1, sids, Len(sids)]

\* Buggy: only the lists under one spelling of each combination are cleaned.
removeSpelled(sid) ==
  /\ sid \in DOMAIN sidMap
  /\ \E K \in Keys(sidMap[sid]) :
       selMap' = [k \in Spellings |-> IF k \in K THEN RemoveFrom(selMap[k], sid) ELSE selMap[k]]
  /\ sidMap' = [x \in (DOMAIN sidMap) \ {sid} |-> sidMap[x]]

\* subscribers.remove
remove(sid) ==
  /\ sid \in DOMAIN sidMap
  /\ selMap' = [k \in Spellings |-> RemoveFrom(selMap[k], sid)]
  /\ sidMap' = [x \in (DOMAIN sidMap) \ {sid} |-> sidMap[x]]

\* getSubIds, for the keys that the calls of String() happened to return.
getSubIds(K) == UNION {Elements(selMap[k]) : k \in K}

Next == \E sid \in Sids : remove(sid) \/ \E S \in SUBSET Selectors : add(sid, S)

Spec == Init /\ [][Next]_vars

(***************************************************************************)
(* Properties.                                                             *)
(***************************************************************************)
\* However the combinations are spelled on either side, subscribers.get finds exactly
\* the subscribers that share a selector with the entry: none that an update concerns
\* is missed, and each id found is still in sidMap (a removed one would be a nil
\* subscriber).
GetFindsAllConcerned ==
  \A S \in SUBSET Selectors : \A K \in Keys(S) :
    getSubIds(K) = {sid \in DOMAIN sidMap : sidMap[sid] \cap S # {}}

\* For the selectors of a subscriber, the counter of powerSet enumerates every non-empty
\* subset, whatever order Array() returns, and the two comparisons of sets agree with
\* the mathematical ones.
SetAlgebra ==
  \A S \in {sidMap[sid] : sid \in DOMAIN sidMap} :
    /\ \A q \in Orders(S) : powerSet(q) = (SUBSET S) \ {{}}
    /\ \A T \in SUBSET Selectors : /\ IncludesSet(S, T) <=> T \subseteq S
                                   /\ EqualSet(S, T) <=> S = T
================================================================================
