------------------------------ MODULE MergeTheorems ------------------------------
(***************************************************************************)
(* What a merge of two mappings keeps, at one level of nesting and given   *)
(* the same of the level below: the names that the entries of the one and  *)
(* of the other take are those that the merged entries take, and the merge *)
(* fails unless they are different.  yamlmerge.mergeMapping calls itself,  *)
(* so the levels are instances of this module.                             *)
(***************************************************************************)
EXTENDS YamlMerge, SequenceTheorems, TLAPS

CONSTANTS
  below(_, _),                    \* the merge of the level below
  WfBelow(_), ShapeBelow(_), NamesBelow(_), FaultyBelow(_),
  Kinds,                          \* the keys of this level, each with the kind it asks for
  leafNames(_), leafFaulty(_)     \* of an entry that is no mapping

step(acc, e) == mergeEntry(below, acc, e)
merge(d, s) == FoldLeft(step, [ok |-> TRUE, entries |-> d], s)

WfEntry(e) ==
  /\ e = Entry(e.key, e.value)
  /\ e.value.kind = "list" => IsSequence(e.value.items)
  /\ e.value.kind = "mapping" => WfBelow(e.value.entries)
EntryShape(e) ==
  /\ e.key \in DOMAIN Kinds /\ e.value.kind = Kinds[e.key]
  /\ e.value.kind = "mapping" => ShapeBelow(e.value.entries)
EntryNames(e) == IF e.value.kind = "mapping" THEN NamesBelow(e.value.entries) ELSE leafNames(e)
EntryFaulty(e) == IF e.value.kind = "mapping" THEN FaultyBelow(e.value.entries) ELSE leafFaulty(e)
EntryUnique(e) == e.value.kind = "mapping" => Unique(e.value.entries)

Wf(s) == Entries(s, WfBelow)
Shape(s) == \A i \in 1..Len(s) : EntryShape(s[i])
Names(s) == UNION {EntryNames(s[i]) : i \in 1..Len(s)}
Faulty(s) ==
  \/ \E i \in 1..Len(s) : EntryFaulty(s[i])
  \/ \E i, j \in 1..Len(s) : i # j /\ EntryNames(s[i]) \cap EntryNames(s[j]) # {}
InnerUnique(s) == \A i \in 1..Len(s) : EntryUnique(s[i])
Always(e) == TRUE

Fold == INSTANCE FoldTheorems WITH
  op <- step, EWf <- WfEntry, EShape <- EntryShape, ENames <- EntryNames, EFaulty <- EntryFaulty,
  Kept <- Unique, EKept <- Always

\* What the level below has to satisfy.
BelowLaw ==
  \A d, s : WfBelow(d) /\ WfBelow(s) =>
    LET r == below(d, s) IN
    /\ r = [ok |-> r.ok, entries |-> r.entries] /\ r.ok \in BOOLEAN /\ WfBelow(r.entries)
    /\ r.ok /\ ShapeBelow(r.entries) =>
         /\ ShapeBelow(d) /\ ShapeBelow(s)
         /\ NamesBelow(r.entries) = NamesBelow(d) \cup NamesBelow(s)
         /\ FaultyBelow(r.entries) <=>
              FaultyBelow(d) \/ FaultyBelow(s) \/ NamesBelow(d) \cap NamesBelow(s) # {}
    /\ ShapeBelow(d) /\ ShapeBelow(s) /\ ~FaultyBelow(d) /\ ~FaultyBelow(s)
         /\ NamesBelow(d) \cap NamesBelow(s) = {} => r.ok /\ ShapeBelow(r.entries)
    /\ Unique(d) => Unique(r.entries)

\* And the entries that are no mappings: two primitives under one key share a
\* name, and a list has the names of the lists it was joined from.
LeafLaw ==
  /\ \A e, f : e.key = f.key /\ e.key \in DOMAIN Kinds /\ Kinds[e.key] \notin {"list", "mapping"} =>
       leafNames(e) \cap leafNames(f) # {}
  /\ \A k, a, b : k \in DOMAIN Kinds /\ Kinds[k] = "list" /\ a.kind = "list" /\ b.kind = "list"
                    /\ IsSequence(a.items) /\ IsSequence(b.items) =>
       LET e == Entry(k, a)
           f == Entry(k, b)
           j == Entry(k, joined(a, b))
       IN  /\ leafNames(j) = leafNames(e) \cup leafNames(f)
           /\ leafFaulty(j) <=> leafFaulty(e) \/ leafFaulty(f) \/ leafNames(e) \cap leafNames(f) # {}

-----------------------------------------------------------------------------
(* Sequences *)

\* IsSequence says no more than that there is a set of members.
LEMMA SequenceOf == ASSUME NEW S, NEW s \in Seq(S) PROVE IsSequence(s)
  BY DEF IsSequence, ToSet

\* It has a length and positions.
LEMMA SequenceLen ==
  ASSUME NEW s, IsSequence(s)
  PROVE  /\ Len(s) \in Nat /\ DOMAIN s = 1..Len(s)
         /\ \E S : s \in Seq(S)
  BY DEF IsSequence

\* One element more.
LEMMA AppendSequence ==
  ASSUME NEW s, IsSequence(s), NEW e
  PROVE  /\ IsSequence(Append(s, e)) /\ Len(Append(s, e)) = Len(s) + 1
         /\ \A i \in 1..Len(s) : Append(s, e)[i] = s[i]
         /\ Append(s, e)[Len(s) + 1] = e
<1>1. PICK S : s \in Seq(S)
  BY SequenceLen
<1>2. s \in Seq(S \cup {e}) /\ e \in S \cup {e}
  BY <1>1
<1>3. Append(s, e) \in Seq(S \cup {e}) /\ Len(Append(s, e)) = Len(s) + 1
  BY <1>2
<1>4. IsSequence(Append(s, e))
  BY <1>3, SequenceOf
<1>5. \A i \in 1..Len(s) : Append(s, e)[i] = s[i]
  BY <1>2
<1>6. Append(s, e)[Len(s) + 1] = e
  BY <1>2
<1> QED
  BY <1>3, <1>4, <1>5, <1>6

\* One element replaced.
LEMMA ExceptSequence ==
  ASSUME NEW s, IsSequence(s), NEW i \in 1..Len(s), NEW e
  PROVE  /\ IsSequence([s EXCEPT ![i] = e]) /\ Len([s EXCEPT ![i] = e]) = Len(s)
         /\ [s EXCEPT ![i] = e][i] = e
         /\ \A j \in 1..Len(s) : j # i => [s EXCEPT ![i] = e][j] = s[j]
<1>1. PICK S : s \in Seq(S)
  BY SequenceLen
<1>2. s \in Seq(S \cup {e}) /\ e \in S \cup {e} /\ DOMAIN s = 1..Len(s)
  BY <1>1
<1>3. [s EXCEPT ![i] = e] \in Seq(S \cup {e}) /\ Len([s EXCEPT ![i] = e]) = Len(s)
  BY <1>2
<1>4. IsSequence([s EXCEPT ![i] = e])
  BY <1>3, SequenceOf
<1> QED
  BY <1>2, <1>3, <1>4

\* Two sequences joined.
LEMMA JoinedSequence ==
  ASSUME NEW s, NEW t, IsSequence(s), IsSequence(t)
  PROVE  /\ IsSequence(s \o t) /\ Len(s \o t) = Len(s) + Len(t)
         /\ \A i \in 1..Len(s) : (s \o t)[i] = s[i]
         /\ \A i \in 1..Len(t) : (s \o t)[Len(s) + i] = t[i]
<1>1. PICK S, T : s \in Seq(S) /\ t \in Seq(T)
  BY SequenceLen
<1>2. s \in Seq(S \cup T) /\ t \in Seq(S \cup T) /\ Len(s) \in Nat /\ Len(t) \in Nat
  BY <1>1
<1>3. s \o t \in Seq(S \cup T) /\ Len(s \o t) = Len(s) + Len(t)
  BY <1>2
<1>4. IsSequence(s \o t)
  BY <1>3, SequenceOf
<1>5. \A i \in 1..Len(s) : (s \o t)[i] = s[i]
  BY <1>2
<1>6. \A i \in 1..Len(t) : (s \o t)[Len(s) + i] = t[i]
  BY <1>2
<1> QED
  BY <1>3, <1>4, <1>5, <1>6

-----------------------------------------------------------------------------
(* One entry *)

\* The Max of SequencesExt, as the theorems about folds name it.
LEMMA MaxLink == \A S : Max(S) = Fold!Max(S)
  BY DEF Max, Fold!Max

\* The shape of a mapping, entry by entry.
LEMMA WfEntries ==
  ASSUME NEW s
  PROVE  Wf(s) <=> IsSequence(s) /\ \A i \in 1..Len(s) : WfEntry(s[i])
  BY SequenceLen DEF Wf, Entries, WfEntry

\* Appending an entry adds its summary.
LEMMA AppendAdds ==
  ASSUME NEW s, IsSequence(s), NEW e
  PROVE  LET t == Append(s, e) IN
         /\ Shape(t) <=> Shape(s) /\ EntryShape(e)
         /\ Names(t) = Names(s) \cup EntryNames(e)
         /\ Faulty(t) <=> Faulty(s) \/ EntryFaulty(e) \/ Names(s) \cap EntryNames(e) # {}
<1> DEFINE t == Append(s, e)
<1>1. /\ Len(s) \in Nat /\ Len(t) = Len(s) + 1
      /\ \A i \in 1..Len(s) : t[i] = s[i]
      /\ t[Len(s) + 1] = e
  BY AppendSequence, SequenceLen
<1> HIDE DEF t
<1>2. 1..Len(t) = 1..Len(s) \cup {Len(s) + 1}
  BY <1>1
<1>3. Shape(t) <=> Shape(s) /\ EntryShape(e)
  BY <1>1, <1>2, Zenon DEF Shape
<1>4. Names(t) = Names(s) \cup EntryNames(e)
  BY <1>1, <1>2, Zenon DEF Names
<1>5. ASSUME Faulty(t) PROVE Faulty(s) \/ EntryFaulty(e) \/ Names(s) \cap EntryNames(e) # {}
  <2>1. CASE \E i \in 1..Len(t) : EntryFaulty(t[i])
    BY <2>1, <1>1, <1>2, Zenon DEF Faulty
  <2>2. ASSUME NEW i \in 1..Len(t), NEW j \in 1..Len(t), i # j, EntryNames(t[i]) \cap EntryNames(t[j]) # {}
        PROVE  Faulty(s) \/ Names(s) \cap EntryNames(e) # {}
    <3>1. CASE i \in 1..Len(s) /\ j \in 1..Len(s)
      BY <3>1, <2>2, <1>1, Zenon DEF Faulty
    <3>2. CASE i = Len(s) + 1
      <4>1. j \in 1..Len(s) /\ t[i] = e /\ t[j] = s[j]
        BY <3>2, <2>2, <1>1, <1>2
      <4> QED
        BY <4>1, <2>2 DEF Names
    <3>3. CASE j = Len(s) + 1
      <4>1. i \in 1..Len(s) /\ t[j] = e /\ t[i] = s[i]
        BY <3>3, <2>2, <1>1, <1>2
      <4> QED
        BY <4>1, <2>2 DEF Names
    <3> QED
      BY <3>1, <3>2, <3>3, <1>2
  <2> QED
    BY <1>5, <2>1, <2>2 DEF Faulty
<1>6. ASSUME Faulty(s) PROVE Faulty(t)
  BY <1>6, <1>1, <1>2, Zenon DEF Faulty
<1>7. ASSUME EntryFaulty(e) PROVE Faulty(t)
  BY <1>7, <1>1, <1>2, Zenon DEF Faulty
<1>8. ASSUME Names(s) \cap EntryNames(e) # {} PROVE Faulty(t)
  <2>1. PICK i \in 1..Len(s) : EntryNames(s[i]) \cap EntryNames(e) # {}
    BY <1>8 DEF Names
  <2>2. i # Len(s) + 1 /\ i \in 1..Len(t) /\ Len(s) + 1 \in 1..Len(t)
    BY <2>1, <1>1
  <2> QED
    BY <2>1, <2>2, <1>1, Zenon DEF Faulty
<1> QED
  BY <1>3, <1>4, <1>5, <1>6, <1>7, <1>8 DEF t

\* Replacing an entry by one that has the sum of its summary and another's
\* adds the other's.
LEMMA ReplaceAdds ==
  ASSUME NEW s, IsSequence(s), NEW i \in 1..Len(s), NEW n, NEW e, NEW good \in BOOLEAN,
         Fold!Sums(good /\ EntryShape(n), EntryNames(n), EntryFaulty(n),
                   EntryShape(s[i]), EntryNames(s[i]), EntryFaulty(s[i]),
                   EntryShape(e), EntryNames(e), EntryFaulty(e))
  PROVE  LET t == [s EXCEPT ![i] = n] IN
         Fold!Sums(good /\ Shape(t), Names(t), Faulty(t), Shape(s), Names(s), Faulty(s),
                   EntryShape(e), EntryNames(e), EntryFaulty(e))
<1> DEFINE t == [s EXCEPT ![i] = n]
<1>1. /\ Len(s) \in Nat /\ Len(t) = Len(s) /\ t[i] = n
      /\ \A j \in 1..Len(s) : j # i => t[j] = s[j]
  BY ExceptSequence, SequenceLen
<1> HIDE DEF t
<1>2. ASSUME good, Shape(t)
      PROVE  /\ Shape(s) /\ EntryShape(e)
             /\ EntryNames(n) = EntryNames(s[i]) \cup EntryNames(e)
             /\ EntryFaulty(n) <=> EntryFaulty(s[i]) \/ EntryFaulty(e)
                                     \/ EntryNames(s[i]) \cap EntryNames(e) # {}
  <2>1. EntryShape(n)
    BY <1>2, <1>1 DEF Shape
  <2>2. /\ EntryShape(s[i]) /\ EntryShape(e)
        /\ EntryNames(n) = EntryNames(s[i]) \cup EntryNames(e)
        /\ EntryFaulty(n) <=> EntryFaulty(s[i]) \/ EntryFaulty(e)
                                \/ EntryNames(s[i]) \cap EntryNames(e) # {}
    BY <2>1, <1>2 DEF Fold!Sums
  <2>3. \A j \in 1..Len(s) : EntryShape(s[j])
    BY <2>2, <1>1, <1>2 DEF Shape
  <2> QED
    BY <2>2, <2>3 DEF Shape
<1>3. ASSUME good, Shape(t)
      PROVE  Names(t) = Names(s) \cup EntryNames(e)
  <2>1. EntryNames(t[i]) = EntryNames(s[i]) \cup EntryNames(e)
    BY <1>2, <1>3, <1>1
  <2>2. ASSUME NEW x \in Names(t) PROVE x \in Names(s) \cup EntryNames(e)
    <3>1. PICK j \in 1..Len(s) : x \in EntryNames(t[j])
      BY <2>2, <1>1 DEF Names
    <3> QED
      BY <3>1, <2>1, <1>1 DEF Names
  <2>3. ASSUME NEW x \in Names(s) PROVE x \in Names(t)
    <3>1. PICK j \in 1..Len(s) : x \in EntryNames(s[j])
      BY <2>3 DEF Names
    <3> QED
      BY <3>1, <2>1, <1>1 DEF Names
  <2>4. ASSUME NEW x \in EntryNames(e) PROVE x \in Names(t)
    BY <2>1, <2>4, <1>1 DEF Names
  <2> QED
    BY <2>2, <2>3, <2>4
<1>4. ASSUME good, Shape(t), Faulty(t)
      PROVE  Faulty(s) \/ EntryFaulty(e) \/ Names(s) \cap EntryNames(e) # {}
  <2>1. CASE \E j \in 1..Len(t) : EntryFaulty(t[j])
    <3>1. PICK j \in 1..Len(s) : EntryFaulty(t[j])
      BY <2>1, <1>1
    <3>2. CASE j # i
      BY <3>1, <3>2, <1>1 DEF Faulty
    <3>3. CASE j = i
      <4>1. EntryFaulty(s[i]) \/ EntryFaulty(e) \/ EntryNames(s[i]) \cap EntryNames(e) # {}
        BY <3>1, <3>3, <1>1, <1>2, <1>4
      <4>2. EntryNames(s[i]) \subseteq Names(s)
        BY DEF Names
      <4> QED
        BY <4>1, <4>2 DEF Faulty
    <3> QED
      BY <3>2, <3>3
  <2>2. ASSUME NEW j \in 1..Len(s), NEW k \in 1..Len(s), j # k, NEW x,
               x \in EntryNames(t[j]), x \in EntryNames(t[k]), k # i
        PROVE  Faulty(s) \/ Names(s) \cap EntryNames(e) # {}
    <3>1. x \in EntryNames(s[k]) /\ x \in Names(s)
      BY <2>2, <1>1 DEF Names
    <3>2. x \in EntryNames(s[j]) \/ x \in EntryNames(e)
      BY <2>2, <1>1, <1>2, <1>4
    <3> QED
      BY <2>2, <3>1, <3>2 DEF Faulty
  <2>3. CASE \E j, k \in 1..Len(t) : j # k /\ EntryNames(t[j]) \cap EntryNames(t[k]) # {}
    <3>1. PICK j \in 1..Len(s), k \in 1..Len(s) : j # k /\ EntryNames(t[j]) \cap EntryNames(t[k]) # {}
      BY <2>3, <1>1
    <3>2. PICK x : x \in EntryNames(t[j]) /\ x \in EntryNames(t[k])
      BY <3>1
    <3>3. k # i \/ j # i
      BY <3>1
    <3> QED
      BY <3>1, <3>2, <3>3, <2>2
  <2> QED
    BY <1>4, <2>1, <2>3 DEF Faulty
<1>5. ASSUME good, Shape(t), Faulty(s) \/ EntryFaulty(e) \/ Names(s) \cap EntryNames(e) # {}
      PROVE  Faulty(t)
  <2>1. ASSUME NEW j \in 1..Len(s), EntryFaulty(s[j]) PROVE Faulty(t)
    <3>1. EntryFaulty(t[j])
      BY <2>1, <1>1, <1>2, <1>5
    <3> QED
      BY <3>1, <1>1 DEF Faulty
  <2>2. CASE EntryFaulty(e)
    BY <2>2, <1>1, <1>2, <1>5 DEF Faulty
  <2>3. ASSUME NEW j \in 1..Len(s) PROVE EntryNames(s[j]) \subseteq EntryNames(t[j])
    BY <1>1, <1>2, <1>5
  <2>4. ASSUME NEW j \in 1..Len(s), NEW k \in 1..Len(s), j # k, EntryNames(s[j]) \cap EntryNames(s[k]) # {}
        PROVE  Faulty(t)
    BY <2>3, <2>4, <1>1 DEF Faulty
  <2>5. CASE Names(s) \cap EntryNames(e) # {}
    <3>0. PICK j \in 1..Len(s) : EntryNames(s[j]) \cap EntryNames(e) # {}
      BY <2>5 DEF Names
    <3>1. PICK x : x \in EntryNames(s[j]) /\ x \in EntryNames(e)
      BY <3>0
    <3>2. CASE j = i
      BY <3>1, <3>2, <1>1, <1>2, <1>5 DEF Faulty
    <3>3. CASE j # i
      <4>1. x \in EntryNames(t[j]) /\ x \in EntryNames(t[i])
        BY <3>1, <3>3, <2>3, <1>1, <1>2, <1>5
      <4> QED
        BY <4>1, <3>3, <1>1 DEF Faulty
    <3> QED
      BY <3>2, <3>3
  <2> QED
    BY <1>5, <2>1, <2>2, <2>4, <2>5 DEF Faulty
<1>6. ASSUME Shape(s), EntryShape(e), ~Faulty(s), ~EntryFaulty(e), Names(s) \cap EntryNames(e) = {}
      PROVE  good /\ Shape(t)
  <2>1. EntryShape(s[i]) /\ ~EntryFaulty(s[i]) /\ EntryNames(s[i]) \cap EntryNames(e) = {}
    BY <1>6 DEF Shape, Faulty, Names
  <2>2. good /\ EntryShape(n)
    BY <2>1, <1>6 DEF Fold!Sums
  <2> QED
    BY <2>2, <1>1, <1>6 DEF Shape
<1> QED
  <2>1. Fold!Sums(good /\ Shape(t), Names(t), Faulty(t), Shape(s), Names(s), Faulty(s),
                  EntryShape(e), EntryNames(e), EntryFaulty(e))
    BY <1>2, <1>3, <1>4, <1>5, <1>6 DEF Fold!Sums
  <2> QED
    BY <2>1 DEF t

-----------------------------------------------------------------------------
(* One step of the merge *)

\* The cases of mergeEntry.
LEMMA StepCases ==
  ASSUME NEW acc, NEW e, Fold!Accumulated(acc), WfEntry(e), acc.ok
  PROVE  LET i == Max(Positions(acc.entries, e.key))
             old == acc.entries[i].value
             inner == below(old.entries, e.value.entries)
             replaced(node) == [acc.entries EXCEPT ![i] = Entry(e.key, node)]
         IN
         \/ step(acc, e) = [ok |-> TRUE, entries |-> Append(acc.entries, e)]
              /\ Positions(acc.entries, e.key) = {}
         \/ /\ i \in 1..Len(acc.entries) /\ acc.entries[i].key = e.key
            /\ \/ old.kind = "mapping" /\ e.value.kind = "mapping"
                    /\ step(acc, e) = [ok |-> inner.ok, entries |-> replaced(Mapping(inner.entries))]
               \/ old.kind = "list" /\ e.value.kind = "list"
                    /\ step(acc, e) = [ok |-> TRUE, entries |-> replaced(joined(old, e.value))]
               \/ ~(old.kind = "mapping" /\ e.value.kind = "mapping")
                    /\ ~(old.kind = "list" /\ e.value.kind = "list")
                    /\ step(acc, e) = [ok |-> FALSE, entries |-> acc.entries]
<1> DEFINE here == Positions(acc.entries, e.key)
           i == Max(here)
           old == acc.entries[i].value
           inner == below(old.entries, e.value.entries)
           put(node) == [acc EXCEPT !.entries[i].value = node]
<1>1. acc = [ok |-> acc.ok, entries |-> acc.entries] /\ acc.ok = TRUE /\ Wf(acc.entries)
  BY DEF Fold!Accumulated
<1>2. IsSequence(acc.entries) /\ DOMAIN acc.entries = 1..Len(acc.entries) /\ Len(acc.entries) \in Nat
  BY <1>1, WfEntries, SequenceLen
<1>3. here \subseteq 1..Len(acc.entries)
  BY <1>2 DEF Positions
<1>4. CASE here = {}
  <2>1. step(acc, e) = [acc EXCEPT !.entries = Append(@, e)]
    BY <1>1, <1>4 DEF step, mergeEntry
  <2>2. step(acc, e) = [ok |-> TRUE, entries |-> Append(acc.entries, e)]
    BY <2>1, <1>1
  <2> QED
    BY <2>2, <1>4
<1>5. CASE here # {}
  <2>1. i \in here
    BY <1>2, <1>3, <1>5, Fold!MaxPosition, MaxLink
  <2>2. i \in 1..Len(acc.entries) /\ acc.entries[i].key = e.key
    BY <2>1, <1>3 DEF Positions
  <2>3. acc.entries[i] = Entry(e.key, old)
    BY <2>2, <1>1, WfEntries DEF WfEntry
  <2>4. ASSUME NEW node
        PROVE  put(node) = [ok |-> TRUE, entries |-> [acc.entries EXCEPT ![i] = Entry(e.key, node)]]
    <3> DEFINE one == [acc.entries[i] EXCEPT !.value = node]
               many == [acc.entries EXCEPT ![i] = one]
    <3>1. one = Entry(e.key, node)
      BY <2>3 DEF Entry
    <3>2. put(node) = [acc EXCEPT !.entries = many]
      OBVIOUS
    <3> HIDE DEF many, put
    <3>3. put(node) = [ok |-> TRUE, entries |-> many]
      BY <3>2, <1>1
    <3> QED
      BY <3>1, <3>3 DEF many
  <2>5. step(acc, e) = CASE old.kind = "mapping" /\ e.value.kind = "mapping" ->
                              [put(Mapping(inner.entries)) EXCEPT !.ok = inner.ok]
                         [] old.kind = "list" /\ e.value.kind = "list" -> put(joined(old, e.value))
                         [] OTHER -> [acc EXCEPT !.ok = FALSE]
    BY <1>1, <1>5, Zenon DEF step, mergeEntry
  <2> HIDE DEF i, old, inner, put, here
  <2>6. CASE old.kind = "mapping" /\ e.value.kind = "mapping"
    <3>1. ~(old.kind = "list" /\ e.value.kind = "list")
      BY <2>6
    <3>2. step(acc, e) = [put(Mapping(inner.entries)) EXCEPT !.ok = inner.ok]
      BY <2>5, <2>6, <3>1
    <3>3. step(acc, e) = [ok |-> inner.ok,
                          entries |-> [acc.entries EXCEPT ![i] = Entry(e.key, Mapping(inner.entries))]]
      BY <3>2, <2>4
    <3> QED
      BY <3>3, <2>2, <2>6 DEF i, old, inner, here
  <2>7. CASE old.kind = "list" /\ e.value.kind = "list"
    <3>1. ~(old.kind = "mapping" /\ e.value.kind = "mapping")
      BY <2>7
    <3>2. step(acc, e) = put(joined(old, e.value))
      BY <2>5, <2>7, <3>1
    <3> QED
      BY <3>2, <2>4, <2>2, <2>7 DEF i, old, inner, here
  <2>8. CASE ~(old.kind = "mapping" /\ e.value.kind = "mapping")
              /\ ~(old.kind = "list" /\ e.value.kind = "list")
    <3>1. step(acc, e) = [acc EXCEPT !.ok = FALSE]
      BY <2>5, <2>8
    <3>2. step(acc, e) = [ok |-> FALSE, entries |-> acc.entries]
      BY <3>1, <1>1
    <3> QED
      BY <3>2, <2>2, <2>8 DEF i, old, inner, here
  <2> QED
    BY <2>6, <2>7, <2>8
<1> QED
  BY <1>4, <1>5

\* A step keeps the form of what is accumulated, and its sum.
LEMMA StepAdds ==
  ASSUME BelowLaw, LeafLaw
  PROVE  Fold!StepLaw
<1> SUFFICES ASSUME NEW acc, NEW e, Fold!Accumulated(acc), WfEntry(e)
             PROVE  /\ Fold!Accumulated(step(acc, e))
                    /\ Fold!Sums(step(acc, e).ok /\ Shape(step(acc, e).entries),
                                 Names(step(acc, e).entries), Faulty(step(acc, e).entries),
                                 acc.ok /\ Shape(acc.entries), Names(acc.entries), Faulty(acc.entries),
                                 EntryShape(e), EntryNames(e), EntryFaulty(e))
  BY Zenon DEF Fold!StepLaw
<1> DEFINE s == acc.entries
           i == Max(Positions(acc.entries, e.key))
           old == acc.entries[i].value
           inner == below(old.entries, e.value.entries)
           r == step(acc, e)
<1>1. acc = [ok |-> acc.ok, entries |-> s] /\ acc.ok \in BOOLEAN /\ Wf(s)
  BY DEF Fold!Accumulated
<1>2. IsSequence(s) /\ DOMAIN s = 1..Len(s) /\ Len(s) \in Nat /\ \A j \in 1..Len(s) : WfEntry(s[j])
  BY <1>1, WfEntries, SequenceLen
<1>3. CASE ~acc.ok
  <2>1. step(acc, e) = acc
    BY <1>3 DEF step, mergeEntry
  <2> QED
    BY <2>1, <1>3, Zenon DEF Fold!Sums
<1>4. CASE r = [ok |-> TRUE, entries |-> Append(s, e)] /\ acc.ok
  <2>1. r.ok = TRUE /\ r.entries = Append(s, e)
    BY <1>4
  <2>2. Wf(Append(s, e))
    <3>1. IsSequence(Append(s, e)) /\ 1..Len(Append(s, e)) = 1..Len(s) \cup {Len(s) + 1}
      BY AppendSequence, <1>2
    <3>2. \A j \in 1..Len(Append(s, e)) : WfEntry(Append(s, e)[j])
      <4>1. /\ \A j \in 1..Len(s) : Append(s, e)[j] = s[j]
            /\ Append(s, e)[Len(s) + 1] = e
        BY AppendSequence, <1>2
      <4> QED
        BY <3>1, <4>1, <1>2, Zenon
    <3> QED
      BY <3>1, <3>2, WfEntries
  <2>3. Fold!Accumulated(r)
    BY <1>4, <2>1, <2>2 DEF Fold!Accumulated
  <2>4. /\ Shape(r.entries) <=> Shape(s) /\ EntryShape(e)
        /\ Names(r.entries) = Names(s) \cup EntryNames(e)
        /\ Faulty(r.entries) <=> Faulty(s) \/ EntryFaulty(e) \/ Names(s) \cap EntryNames(e) # {}
    BY <2>1, AppendAdds, <1>2, Zenon
  <2> HIDE DEF r, s
  <2>5. Fold!Sums(r.ok /\ Shape(r.entries), Names(r.entries), Faulty(r.entries),
                  acc.ok /\ Shape(s), Names(s), Faulty(s), EntryShape(e), EntryNames(e), EntryFaulty(e))
    BY <2>1, <2>4, <1>4, Zenon DEF Fold!Sums
  <2> QED
    BY <2>3, <2>5 DEF r, s
<1>5. ASSUME acc.ok, i \in 1..Len(s), s[i].key = e.key,
             NEW node, NEW good \in BOOLEAN,
             r = [ok |-> good, entries |-> [s EXCEPT ![i] = Entry(e.key, node)]],
             WfEntry(Entry(e.key, node)),
             Fold!Sums(good /\ EntryShape(Entry(e.key, node)), EntryNames(Entry(e.key, node)),
                       EntryFaulty(Entry(e.key, node)),
                       EntryShape(s[i]), EntryNames(s[i]), EntryFaulty(s[i]),
                       EntryShape(e), EntryNames(e), EntryFaulty(e))
      PROVE  /\ Fold!Accumulated(r)
             /\ Fold!Sums(r.ok /\ Shape(r.entries), Names(r.entries), Faulty(r.entries),
                          acc.ok /\ Shape(s), Names(s), Faulty(s),
                          EntryShape(e), EntryNames(e), EntryFaulty(e))
  <2> DEFINE n == Entry(e.key, node)
             t == [s EXCEPT ![i] = n]
  <2>1. r.ok = good /\ r.entries = t
    BY <1>5
  <2>2. Wf(t)
    <3>1. /\ IsSequence(t) /\ Len(t) = Len(s) /\ t[i] = n
          /\ \A j \in 1..Len(s) : j # i => t[j] = s[j]
      BY ExceptSequence, <1>2, <1>5
    <3> HIDE DEF t, n
    <3>2. \A j \in 1..Len(t) : WfEntry(t[j])
      BY <3>1, <1>2, <1>5 DEF n
    <3> QED
      BY <3>1, <3>2, WfEntries
  <2>3. Fold!Accumulated(r)
    BY <1>5, <2>1, <2>2 DEF Fold!Accumulated
  <2>4. Fold!Sums(good /\ Shape(t), Names(t), Faulty(t), Shape(s), Names(s), Faulty(s),
                  EntryShape(e), EntryNames(e), EntryFaulty(e))
    BY ReplaceAdds, <1>2, <1>5
  <2>5. (acc.ok /\ Shape(s)) <=> Shape(s)
    BY <1>5
  <2> HIDE DEF r, s, t, i
  <2>6. Fold!Sums(r.ok /\ Shape(r.entries), Names(r.entries), Faulty(r.entries),
                  acc.ok /\ Shape(s), Names(s), Faulty(s), EntryShape(e), EntryNames(e), EntryFaulty(e))
    BY <2>1, <2>4, <2>5, Zenon DEF Fold!Sums
  <2> QED
    BY <2>3, <2>6
<1>6. CASE /\ acc.ok /\ i \in 1..Len(s) /\ s[i].key = e.key
           /\ old.kind = "mapping" /\ e.value.kind = "mapping"
           /\ r = [ok |-> inner.ok, entries |-> [s EXCEPT ![i] = Entry(e.key, Mapping(inner.entries))]]
  <2> DEFINE n == Entry(e.key, Mapping(inner.entries))
  <2>1. WfBelow(old.entries) /\ WfBelow(e.value.entries) /\ WfEntry(s[i]) /\ s[i].value = old
    BY <1>2, <1>6 DEF WfEntry
  <2>2. /\ inner.ok \in BOOLEAN /\ WfBelow(inner.entries)
        /\ Fold!Sums(inner.ok /\ ShapeBelow(inner.entries), NamesBelow(inner.entries), FaultyBelow(inner.entries),
                     ShapeBelow(old.entries), NamesBelow(old.entries), FaultyBelow(old.entries),
                     ShapeBelow(e.value.entries), NamesBelow(e.value.entries), FaultyBelow(e.value.entries))
    BY <2>1, Zenon DEF BelowLaw, Fold!Sums
  <2>3. n.key = e.key /\ n.value.kind = "mapping" /\ n.value.entries = inner.entries /\ WfEntry(n)
    BY <2>2 DEF Entry, Mapping, WfEntry
  <2> HIDE DEF n, inner, old, i, s, r
  <2>4. /\ EntryShape(n) <=> e.key \in DOMAIN Kinds /\ Kinds[e.key] = "mapping" /\ ShapeBelow(inner.entries)
        /\ EntryShape(s[i]) <=> e.key \in DOMAIN Kinds /\ Kinds[e.key] = "mapping" /\ ShapeBelow(old.entries)
        /\ EntryShape(e) <=> e.key \in DOMAIN Kinds /\ Kinds[e.key] = "mapping" /\ ShapeBelow(e.value.entries)
    BY <1>6, <2>1, <2>3 DEF EntryShape
  <2>5. /\ EntryNames(n) = NamesBelow(inner.entries) /\ EntryNames(s[i]) = NamesBelow(old.entries)
        /\ EntryNames(e) = NamesBelow(e.value.entries)
        /\ EntryFaulty(n) <=> FaultyBelow(inner.entries)
        /\ EntryFaulty(s[i]) <=> FaultyBelow(old.entries)
        /\ EntryFaulty(e) <=> FaultyBelow(e.value.entries)
    BY <1>6, <2>1, <2>3 DEF EntryNames, EntryFaulty
  <2>6. Fold!Sums(inner.ok /\ EntryShape(n), EntryNames(n), EntryFaulty(n),
                  EntryShape(s[i]), EntryNames(s[i]), EntryFaulty(s[i]),
                  EntryShape(e), EntryNames(e), EntryFaulty(e))
    BY <2>2, <2>4, <2>5, Zenon DEF Fold!Sums
  <2> QED
    BY <1>5, <1>6, <2>2, <2>3, <2>6 DEF n, s, r
<1>7. CASE /\ acc.ok /\ i \in 1..Len(s) /\ s[i].key = e.key
           /\ old.kind = "list" /\ e.value.kind = "list"
           /\ r = [ok |-> TRUE, entries |-> [s EXCEPT ![i] = Entry(e.key, joined(old, e.value))]]
  <2> DEFINE n == Entry(e.key, joined(old, e.value))
  <2>1. /\ IsSequence(old.items) /\ IsSequence(e.value.items)
        /\ s[i] = Entry(e.key, old) /\ e = Entry(e.key, e.value)
    BY <1>2, <1>6, <1>7 DEF WfEntry
  <2>2. /\ n.key = e.key /\ n.value = joined(old, e.value) /\ n.value.kind = "list"
        /\ WfEntry(n)
    BY <2>1, JoinedSequence DEF Entry, joined, List, WfEntry
  <2>3. ASSUME e.key \in DOMAIN Kinds, Kinds[e.key] = "list"
        PROVE  /\ leafNames(n) = leafNames(s[i]) \cup leafNames(e)
               /\ leafFaulty(n) <=> leafFaulty(s[i]) \/ leafFaulty(e) \/ leafNames(s[i]) \cap leafNames(e) # {}
    <3> HIDE DEF old
    <3>1. LET j == Entry(e.key, joined(old, e.value)) IN
          /\ leafNames(j) = leafNames(Entry(e.key, old)) \cup leafNames(Entry(e.key, e.value))
          /\ leafFaulty(j) <=> leafFaulty(Entry(e.key, old)) \/ leafFaulty(Entry(e.key, e.value))
                                \/ leafNames(Entry(e.key, old)) \cap leafNames(Entry(e.key, e.value)) # {}
      BY <2>1, <2>3, <1>7 DEF LeafLaw
    <3> QED
      BY <3>1, <2>1
  <2> HIDE DEF n, inner, old, i, s, r
  <2>4. /\ EntryShape(n) <=> e.key \in DOMAIN Kinds /\ Kinds[e.key] = "list"
        /\ EntryShape(s[i]) <=> e.key \in DOMAIN Kinds /\ Kinds[e.key] = "list"
        /\ EntryShape(e) <=> e.key \in DOMAIN Kinds /\ Kinds[e.key] = "list"
    BY <1>7, <2>1, <2>2 DEF EntryShape, Entry
  <2>5. /\ EntryNames(n) = leafNames(n) /\ EntryNames(s[i]) = leafNames(s[i])
        /\ EntryNames(e) = leafNames(e)
        /\ EntryFaulty(n) <=> leafFaulty(n)
        /\ EntryFaulty(s[i]) <=> leafFaulty(s[i])
        /\ EntryFaulty(e) <=> leafFaulty(e)
    BY <1>7, <2>1, <2>2 DEF EntryNames, EntryFaulty, Entry
  <2>6. Fold!Sums(TRUE /\ EntryShape(n), EntryNames(n), EntryFaulty(n),
                  EntryShape(s[i]), EntryNames(s[i]), EntryFaulty(s[i]),
                  EntryShape(e), EntryNames(e), EntryFaulty(e))
    BY <2>3, <2>4, <2>5, Zenon DEF Fold!Sums
  <2> QED
    BY <1>5, <1>7, <2>2, <2>6 DEF n, s, r
<1>8. CASE /\ acc.ok /\ i \in 1..Len(s) /\ s[i].key = e.key
           /\ ~(old.kind = "mapping" /\ e.value.kind = "mapping")
           /\ ~(old.kind = "list" /\ e.value.kind = "list")
           /\ r = [ok |-> FALSE, entries |-> s]
  <2>1. r.ok = FALSE /\ r.entries = s /\ Fold!Accumulated(r)
    BY <1>8, <1>1 DEF Fold!Accumulated
  <2>2. ASSUME Shape(s), EntryShape(e) PROVE Names(s) \cap EntryNames(e) # {}
    <3>1. EntryShape(s[i])
      BY <2>2, <1>8 DEF Shape
    <3>2. e.key \in DOMAIN Kinds /\ Kinds[e.key] \notin {"list", "mapping"}
          /\ s[i].value.kind = Kinds[e.key] /\ e.value.kind = Kinds[e.key]
      BY <3>1, <2>2, <1>8 DEF EntryShape
    <3>3. leafNames(s[i]) \cap leafNames(e) # {}
      BY <3>2, <1>8 DEF LeafLaw
    <3>4. EntryNames(s[i]) = leafNames(s[i]) /\ EntryNames(e) = leafNames(e)
      BY <3>2 DEF EntryNames
    <3>5. EntryNames(s[i]) \subseteq Names(s)
      BY <1>8 DEF Names
    <3> QED
      BY <3>3, <3>4, <3>5
  <2> HIDE DEF r, s
  <2>3. Fold!Sums(r.ok /\ Shape(r.entries), Names(r.entries), Faulty(r.entries),
                  acc.ok /\ Shape(s), Names(s), Faulty(s), EntryShape(e), EntryNames(e), EntryFaulty(e))
    BY <2>1, <2>2, Zenon DEF Fold!Sums
  <2> QED
    BY <2>1, <2>3 DEF r, s
<1> QED
  BY <1>3, <1>4, <1>6, <1>7, <1>8, StepCases

\* A key is there once: a step adds it only where it is missing.
LEMMA StepKeepsUnique ==
  ASSUME BelowLaw
  PROVE  Fold!KeptLaw
<1> SUFFICES ASSUME NEW acc, NEW e, Fold!Accumulated(acc), WfEntry(e), Unique(acc.entries)
             PROVE  Unique(step(acc, e).entries)
  BY DEF Fold!KeptLaw
<1> DEFINE s == acc.entries
           i == Max(Positions(s, e.key))
<1>1. IsSequence(s) /\ DOMAIN s = 1..Len(s) /\ Len(s) \in Nat /\ \A j \in 1..Len(s) : WfEntry(s[j])
  BY WfEntries, SequenceLen DEF Fold!Accumulated
<1>2. CASE ~acc.ok
  BY <1>2 DEF step, mergeEntry
<1>3. CASE step(acc, e) = [ok |-> TRUE, entries |-> Append(s, e)] /\ Positions(s, e.key) = {}
  <2> DEFINE t == Append(s, e)
  <2>1. /\ Len(t) = Len(s) + 1 /\ DOMAIN t = 1..Len(t)
        /\ \A j \in 1..Len(s) : t[j] = s[j]
        /\ t[Len(s) + 1] = e
    BY AppendSequence, SequenceLen, <1>1
  <2>2. \A j \in 1..Len(s) : s[j].key # e.key
    BY <1>1, <1>3 DEF Positions
  <2> HIDE DEF t
  <2>3. Unique(t)
    <3> SUFFICES ASSUME NEW j \in DOMAIN t, NEW k \in DOMAIN t, t[j].key = t[k].key PROVE j = k
      BY DEF Unique
    <3>1. CASE j \in 1..Len(s) /\ k \in 1..Len(s)
      BY <3>1, <2>1, <1>1 DEF Unique
    <3>2. CASE j = Len(s) + 1
      BY <3>2, <2>1, <2>2, <1>1
    <3>3. CASE k = Len(s) + 1
      BY <3>3, <2>1, <2>2, <1>1
    <3> QED
      BY <3>1, <3>2, <3>3, <2>1, <1>1
  <2> QED
    BY <1>3, <2>3 DEF t
<1>4. ASSUME i \in 1..Len(s), s[i].key = e.key, NEW node,
             step(acc, e).entries = [s EXCEPT ![i] = Entry(e.key, node)]
      PROVE  Unique(step(acc, e).entries)
  <2> DEFINE t == [s EXCEPT ![i] = Entry(e.key, node)]
  <2>1. /\ DOMAIN t = DOMAIN s /\ t[i] = Entry(e.key, node)
        /\ \A j \in 1..Len(s) : j # i => t[j] = s[j]
    BY ExceptSequence, <1>1, <1>4
  <2>2. \A j \in 1..Len(s) : t[j].key = s[j].key
    BY <2>1, <1>4 DEF Entry
  <2> HIDE DEF t
  <2>3. Unique(t)
    BY <2>1, <2>2, <1>1 DEF Unique
  <2> QED
    BY <1>4, <2>3 DEF t
<1>5. CASE step(acc, e) = [ok |-> FALSE, entries |-> s]
  BY <1>5
<1>6. ASSUME i \in 1..Len(s), s[i].key = e.key, NEW node, NEW good,
             step(acc, e) = [ok |-> good, entries |-> [s EXCEPT ![i] = Entry(e.key, node)]]
      PROVE  Unique(step(acc, e).entries)
  <2> HIDE DEF i, s
  <2>1. step(acc, e).entries = [s EXCEPT ![i] = Entry(e.key, node)]
    BY <1>6
  <2> QED
    BY <1>4, <1>6, <2>1
<1> QED
  BY <1>2, <1>3, <1>5, <1>6, StepCases

\* So it is below the entries, if it is in both of the documents.
LEMMA StepKeepsInner ==
  ASSUME BelowLaw
  PROVE  \A acc, e : Fold!Accumulated(acc) /\ WfEntry(e) /\ InnerUnique(acc.entries) /\ EntryUnique(e) =>
           InnerUnique(step(acc, e).entries)
<1> SUFFICES ASSUME NEW acc, NEW e, Fold!Accumulated(acc), WfEntry(e), InnerUnique(acc.entries), EntryUnique(e)
             PROVE  InnerUnique(step(acc, e).entries)
  OBVIOUS
<1> DEFINE s == acc.entries
           i == Max(Positions(s, e.key))
           old == s[i].value
           inner == below(old.entries, e.value.entries)
<1>1. IsSequence(s) /\ DOMAIN s = 1..Len(s) /\ Len(s) \in Nat /\ \A j \in 1..Len(s) : WfEntry(s[j])
  BY WfEntries, SequenceLen DEF Fold!Accumulated
<1>2. CASE ~acc.ok
  BY <1>2 DEF step, mergeEntry
<1>3. CASE step(acc, e) = [ok |-> TRUE, entries |-> Append(s, e)]
  <2> DEFINE t == Append(s, e)
  <2>1. /\ Len(t) = Len(s) + 1
        /\ \A j \in 1..Len(s) : t[j] = s[j]
        /\ t[Len(s) + 1] = e
    BY AppendSequence, <1>1
  <2> HIDE DEF t
  <2>2. InnerUnique(t)
    BY <2>1, <1>1 DEF InnerUnique
  <2> QED
    BY <1>3, <2>2 DEF t
<1>4. ASSUME i \in 1..Len(s), NEW node, node.kind = "mapping" => Unique(node.entries),
             step(acc, e).entries = [s EXCEPT ![i] = Entry(e.key, node)]
      PROVE  InnerUnique(step(acc, e).entries)
  <2> DEFINE t == [s EXCEPT ![i] = Entry(e.key, node)]
  <2>1. /\ Len(t) = Len(s) /\ t[i] = Entry(e.key, node)
        /\ \A j \in 1..Len(s) : j # i => t[j] = s[j]
    BY ExceptSequence, <1>1, <1>4
  <2>2. EntryUnique(t[i])
    BY <2>1, <1>4 DEF Entry, EntryUnique
  <2> HIDE DEF t
  <2>3. InnerUnique(t)
    BY <2>1, <2>2 DEF InnerUnique
  <2> QED
    BY <1>4, <2>3 DEF t
<1>5. CASE /\ i \in 1..Len(s) /\ old.kind = "mapping" /\ e.value.kind = "mapping"
           /\ step(acc, e) = [ok |-> inner.ok, entries |-> [s EXCEPT ![i] = Entry(e.key, Mapping(inner.entries))]]
  <2>1. WfBelow(old.entries) /\ WfBelow(e.value.entries)
    BY <1>1, <1>5 DEF WfEntry
  <2>2. Unique(old.entries)
    BY <1>5 DEF InnerUnique, EntryUnique
  <2>3. Unique(inner.entries)
    BY <2>1, <2>2, Zenon DEF BelowLaw
  <2> HIDE DEF i, old, s, inner
  <2>4. Mapping(inner.entries).entries = inner.entries
    BY DEF Mapping
  <2>5. step(acc, e).entries = [s EXCEPT ![i] = Entry(e.key, Mapping(inner.entries))]
    BY <1>5
  <2> QED
    BY <1>4, <1>5, <2>3, <2>4, <2>5
<1>6. CASE /\ i \in 1..Len(s)
           /\ step(acc, e) = [ok |-> TRUE, entries |-> [s EXCEPT ![i] = Entry(e.key, joined(old, e.value))]]
  <2>1. joined(old, e.value).kind # "mapping"
    BY DEF joined, List
  <2> HIDE DEF i, old, s
  <2>2. step(acc, e).entries = [s EXCEPT ![i] = Entry(e.key, joined(old, e.value))]
    BY <1>6
  <2> QED
    BY <1>4, <1>6, <2>1, <2>2
<1>7. CASE step(acc, e) = [ok |-> FALSE, entries |-> s]
  BY <1>7
<1> QED
  BY <1>2, <1>3, <1>5, <1>6, <1>7, StepCases

-----------------------------------------------------------------------------
(* The whole merge *)

\* What BelowLaw asks of the level below, of this one.
MergeLaw ==
  \A d, s : Wf(d) /\ Wf(s) =>
    LET r == merge(d, s) IN
    /\ r = [ok |-> r.ok, entries |-> r.entries] /\ r.ok \in BOOLEAN /\ Wf(r.entries)
    /\ r.ok /\ Shape(r.entries) =>
         /\ Shape(d) /\ Shape(s)
         /\ Names(r.entries) = Names(d) \cup Names(s)
         /\ Faulty(r.entries) <=> Faulty(d) \/ Faulty(s) \/ Names(d) \cap Names(s) # {}
    /\ Shape(d) /\ Shape(s) /\ ~Faulty(d) /\ ~Faulty(s) /\ Names(d) \cap Names(s) = {} =>
         r.ok /\ Shape(r.entries)
    /\ Unique(d) => Unique(r.entries)

\* The folds of the model and of the theorems about folds are the same.
LEMMA MergeFold ==
  ASSUME NEW d, NEW s
  PROVE  merge(d, s) = Fold!Folded([ok |-> TRUE, entries |-> d], s)
<1> HIDE DEF step
<1> QED
  BY DEF merge, Fold!Folded, FoldLeft, Fold!FoldLeft, MapThenFoldSet, Fold!MapThenFoldSet, Max, Fold!Max

\* The summaries of a mapping are those of all its entries.
LEMMA SummariesAgree ==
  ASSUME NEW s
  PROVE  /\ Fold!ShapeTo(s, Len(s)) <=> Shape(s)
         /\ Fold!NamesTo(s, Len(s)) = Names(s)
         /\ Fold!FaultyTo(s, Len(s)) <=> Faulty(s)
<1>1. Fold!ShapeTo(s, Len(s)) <=> Shape(s)
  BY DEF Fold!ShapeTo, Shape
<1>2. Fold!NamesTo(s, Len(s)) = Names(s)
  BY DEF Fold!NamesTo, Names
<1>3. Fold!FaultyTo(s, Len(s)) <=> Faulty(s)
  BY DEF Fold!FaultyTo, Faulty
<1> QED
  BY <1>1, <1>2, <1>3

\* A merge adds up: it fails or gives the names of both, and it fails for
\* no other reason than what is wrong with one of them or taken by both.
THEOREM MergeAddsUp ==
  ASSUME BelowLaw, LeafLaw
  PROVE  MergeLaw
<1> SUFFICES ASSUME NEW d, NEW s, Wf(d), Wf(s)
             PROVE  LET r == merge(d, s) IN
                    /\ Fold!Accumulated(r)
                    /\ Fold!Sums(r.ok /\ Shape(r.entries), Names(r.entries), Faulty(r.entries),
                                 Shape(d), Names(d), Faulty(d), Shape(s), Names(s), Faulty(s))
                    /\ Unique(d) => Unique(r.entries)
  BY DEF MergeLaw, Fold!Accumulated, Fold!Sums
<1> DEFINE base == [ok |-> TRUE, entries |-> d]
<1>1. Fold!Accumulated(base) /\ base.entries = d /\ base.ok = TRUE
  BY DEF Fold!Accumulated
<1>2. /\ DOMAIN s = 1..Len(s) /\ Len(s) \in Nat
      /\ \A i \in DOMAIN s : WfEntry(s[i])
  BY WfEntries, SequenceLen
<1>3. Fold!StepLaw
  BY StepAdds
<1>4. merge(d, s) = Fold!Folded(base, s)
  BY MergeFold
<1> HIDE DEF base
<1>5. /\ Fold!Accumulated(Fold!Folded(base, s))
      /\ Fold!Sums(Fold!Folded(base, s).ok /\ Shape(Fold!Folded(base, s).entries),
                   Names(Fold!Folded(base, s).entries), Faulty(Fold!Folded(base, s).entries),
                   base.ok /\ Shape(base.entries), Names(base.entries), Faulty(base.entries),
                   Fold!ShapeTo(s, Len(s)), Fold!NamesTo(s, Len(s)), Fold!FaultyTo(s, Len(s)))
  BY <1>1, <1>2, <1>3, Fold!FoldLaw
<1>6. (base.ok /\ Shape(base.entries)) <=> Shape(d)
  BY <1>1
<1>7. Fold!Sums(merge(d, s).ok /\ Shape(merge(d, s).entries),
                Names(merge(d, s).entries), Faulty(merge(d, s).entries),
                Shape(d), Names(d), Faulty(d), Shape(s), Names(s), Faulty(s))
  BY <1>1, <1>4, <1>5, <1>6, SummariesAgree, Zenon DEF Fold!Sums
<1>8. ASSUME Unique(d) PROVE Unique(merge(d, s).entries)
  <2>1. \A i \in DOMAIN s : WfEntry(s[i]) /\ Always(s[i])
    BY <1>2 DEF Always
  <2>2. Fold!KeptLaw
    BY StepKeepsUnique
  <2> QED
    BY <1>1, <1>2, <1>3, <1>4, <1>8, <2>1, <2>2, Fold!FoldKeeps
<1> QED
  BY <1>4, <1>5, <1>7, <1>8

\* And what has no key twice below its entries stays so.
THEOREM MergeKeepsInner ==
  ASSUME BelowLaw, LeafLaw, NEW d, NEW s, Wf(d), Wf(s), InnerUnique(d), InnerUnique(s)
  PROVE  InnerUnique(merge(d, s).entries)
<1> DEFINE base == [ok |-> TRUE, entries |-> d]
<1>1. Fold!Accumulated(base) /\ base.entries = d
  BY DEF Fold!Accumulated
<1>2. /\ DOMAIN s = 1..Len(s) /\ Len(s) \in Nat
      /\ \A i \in 1..Len(s) : WfEntry(s[i]) /\ EntryUnique(s[i])
  BY WfEntries, SequenceLen DEF InnerUnique
<1>3. merge(d, s) = Fold!Folded(base, s)
  BY MergeFold
<1> HIDE DEF base
<1>4. PICK f : /\ f[0] = base
               /\ \A n \in 1..Len(s) : f[n] = step(f[n - 1], s[n])
               /\ Fold!Folded(base, s) = f[Len(s)]
  BY <1>2, Fold!FoldLeftTrace
<1> DEFINE T == {n \in 0..Len(s) : Fold!Accumulated(f[n]) /\ InnerUnique(f[n].entries)}
<1>5. 0 \in T
  BY <1>1, <1>2, <1>4
<1>6. ASSUME NEW n \in 1..Len(s), n - 1 \in T PROVE n \in T
  <2>1. Fold!Accumulated(step(f[n - 1], s[n]))
    BY <1>2, <1>6, StepAdds DEF Fold!StepLaw
  <2>2. InnerUnique(step(f[n - 1], s[n]).entries)
    BY <1>2, <1>6, StepKeepsInner
  <2> QED
    BY <1>4, <2>1, <2>2
<1>7. Len(s) \in T
  <2> HIDE DEF T
  <2> QED
    BY <1>2, <1>5, <1>6, Fold!TraceInduction
<1> QED
  BY <1>3, <1>4, <1>7

-----------------------------------------------------------------------------
(* The items under a key *)

\* The items under a key of one entry, and of entries that have the key once.
itemsOf(e, key) == IF e.key = key THEN e.value.items ELSE <<>>
Holds(entries, key, items) ==
  /\ \A i \in DOMAIN entries : entries[i].key = key => items = entries[i].value.items
  /\ (\A i \in DOMAIN entries : entries[i].key # key) => items = <<>>
Joined(s, key) == FlattenSeq([i \in 1..Len(s) |-> itemsOf(s[i], key)])
IsList(key) == key \in DOMAIN Kinds /\ Kinds[key] = "list"

\* A step adds the items of one entry.
LEMMA StepJoins ==
  ASSUME NEW acc, NEW e, Fold!Accumulated(acc), Unique(acc.entries), acc.ok, Shape(acc.entries),
         WfEntry(e), EntryShape(e), step(acc, e).ok,
         NEW key, IsList(key), NEW x, IsSequence(x), Holds(acc.entries, key, x)
  PROVE  Holds(step(acc, e).entries, key, x \o itemsOf(e, key))
<1> DEFINE s == acc.entries
           r == step(acc, e)
           i == Max(Positions(s, e.key))
           old == s[i].value
           inner == below(old.entries, e.value.entries)
<1>1. IsSequence(s) /\ DOMAIN s = 1..Len(s) /\ Len(s) \in Nat
  BY WfEntries, SequenceLen DEF Fold!Accumulated
<1>2. x \o <<>> = x /\ <<>> \o x = x
  BY ConcatEmptySeq DEF IsSequence
<1>3. CASE r = [ok |-> TRUE, entries |-> Append(s, e)] /\ Positions(s, e.key) = {}
  <2> DEFINE t == Append(s, e)
  <2>1. /\ Len(t) = Len(s) + 1 /\ DOMAIN t = 1..(Len(s) + 1)
        /\ \A j \in 1..Len(s) : t[j] = s[j]
        /\ t[Len(s) + 1] = e
    BY <1>1, AppendSequence, SequenceLen
  <2>2. \A j \in 1..Len(s) : s[j].key # e.key
    BY <1>1, <1>3 DEF Positions
  <2> HIDE DEF t
  <2>3. CASE e.key = key
    <3>1. x = <<>>
      BY <1>1, <2>2, <2>3 DEF Holds
    <3>2. IsSequence(e.value.items)
      BY <2>3 DEF WfEntry, EntryShape, IsList
    <3>3. <<>> \o e.value.items = e.value.items
      BY <3>2, ConcatEmptySeq DEF IsSequence
    <3>4. x \o itemsOf(e, key) = e.value.items
      BY <2>3, <3>1, <3>3 DEF itemsOf
    <3>5. \A j \in DOMAIN t : t[j].key = key => j = Len(s) + 1
      BY <1>1, <2>1, <2>2, <2>3
    <3>6. Holds(t, key, e.value.items)
      BY <1>1, <2>1, <2>3, <3>5 DEF Holds
    <3> QED
      BY <1>3, <3>4, <3>6 DEF t
  <2>4. CASE e.key # key
    <3>1. x \o itemsOf(e, key) = x
      BY <1>2, <2>4 DEF itemsOf
    <3>2. Holds(t, key, x)
      BY <1>1, <2>1, <2>4 DEF Holds
    <3> QED
      BY <1>3, <3>1, <3>2 DEF t
  <2> QED
    BY <2>3, <2>4
<1>4. CASE i \in 1..Len(s) /\ s[i].key = e.key /\ old.kind = "mapping" /\ e.value.kind = "mapping"
             /\ r = [ok |-> inner.ok, entries |-> [s EXCEPT ![i] = Entry(e.key, Mapping(inner.entries))]]
  <2> DEFINE n == Entry(e.key, Mapping(inner.entries))
             t == [s EXCEPT ![i] = n]
  <2>1. e.key # key
    BY <1>4 DEF EntryShape, IsList
  <2>2. n.key = e.key
    BY DEF Entry
  <2> HIDE DEF n, i
  <2>3. DOMAIN t = DOMAIN s /\ t[i] = n /\ \A j \in DOMAIN s : j # i => t[j] = s[j]
    BY <1>1, <1>4
  <2> HIDE DEF t
  <2>4. \A j \in DOMAIN s : t[j].key = s[j].key /\ (s[j].key = key => t[j] = s[j])
    BY <1>4, <2>1, <2>2, <2>3
  <2>5. Holds(t, key, x)
    BY <2>3, <2>4 DEF Holds
  <2>6. x \o itemsOf(e, key) = x
    BY <1>2, <2>1 DEF itemsOf
  <2> QED
    BY <1>4, <2>5, <2>6 DEF t, n
<1>5. CASE i \in 1..Len(s) /\ s[i].key = e.key /\ old.kind = "list" /\ e.value.kind = "list"
             /\ r = [ok |-> TRUE, entries |-> [s EXCEPT ![i] = Entry(e.key, joined(old, e.value))]]
  <2> DEFINE n == Entry(e.key, joined(old, e.value))
             t == [s EXCEPT ![i] = n]
  <2>1. n.key = e.key /\ n.value.items = old.items \o e.value.items
    BY DEF Entry, joined, List
  <2> HIDE DEF n, i
  <2>2. DOMAIN t = DOMAIN s /\ t[i] = n /\ \A j \in DOMAIN s : j # i => t[j] = s[j]
    BY <1>1, <1>5
  <2> HIDE DEF t
  <2>3. CASE e.key = key
    <3>1. x = old.items
      BY <1>1, <1>5, <2>3 DEF Holds
    <3>2. \A j \in DOMAIN s : t[j].key = key => j = i
      BY <1>1, <1>5, <2>1, <2>2, <2>3 DEF Unique
    <3>3. x \o itemsOf(e, key) = n.value.items
      BY <2>1, <2>3, <3>1 DEF itemsOf
    <3>4. Holds(t, key, n.value.items)
      BY <1>1, <1>5, <2>1, <2>2, <2>3, <3>2 DEF Holds
    <3> QED
      BY <1>5, <3>3, <3>4 DEF t, n
  <2>4. CASE e.key # key
    <3>1. \A j \in DOMAIN s : t[j].key = s[j].key /\ (s[j].key = key => t[j] = s[j])
      BY <1>5, <2>1, <2>2, <2>4
    <3>2. Holds(t, key, x)
      BY <2>2, <3>1 DEF Holds
    <3>3. x \o itemsOf(e, key) = x
      BY <1>2, <2>4 DEF itemsOf
    <3> QED
      BY <1>5, <3>2, <3>3 DEF t, n
  <2> QED
    BY <2>3, <2>4
<1>6. CASE r = [ok |-> FALSE, entries |-> s]
  BY <1>6
<1> QED
  <2>1. \/ r = [ok |-> TRUE, entries |-> Append(s, e)] /\ Positions(s, e.key) = {}
        \/ /\ i \in 1..Len(s) /\ s[i].key = e.key
           /\ \/ old.kind = "mapping" /\ e.value.kind = "mapping"
                   /\ r = [ok |-> inner.ok, entries |-> [s EXCEPT ![i] = Entry(e.key, Mapping(inner.entries))]]
              \/ old.kind = "list" /\ e.value.kind = "list"
                   /\ r = [ok |-> TRUE, entries |-> [s EXCEPT ![i] = Entry(e.key, joined(old, e.value))]]
              \/ r = [ok |-> FALSE, entries |-> s]
    BY StepCases, Zenon
  <2> HIDE DEF r, i, old, inner, s
  <2> QED
    BY <1>3, <1>4, <1>5, <1>6, <2>1

\* A merge that succeeds joins, under each key, the items of the source to
\* those of the destination, in their order.
THEOREM MergeJoins ==
  ASSUME BelowLaw, LeafLaw, NEW d, NEW s, Wf(d), Wf(s), Unique(d),
         merge(d, s).ok, Shape(merge(d, s).entries),
         NEW key, IsList(key), NEW x, IsSequence(x), Holds(d, key, x)
  PROVE  IsSequence(Joined(s, key)) /\ Holds(merge(d, s).entries, key, x \o Joined(s, key))
<1> DEFINE base == [ok |-> TRUE, entries |-> d]
           L == Len(s)
           I(n) == [i \in 1..n |-> itemsOf(s[i], key)]
           J(n) == FlattenSeq(I(n))
           S == ToSet(x) \cup UNION {ToSet(itemsOf(s[i], key)) : i \in 1..L}
<1>1. /\ Fold!StepLaw /\ Fold!KeptLaw
      /\ Fold!Accumulated(base)
  BY StepAdds, StepKeepsUnique DEF Fold!Accumulated
<1>2. DOMAIN s = 1..L /\ L \in Nat /\ \A i \in 1..L : WfEntry(s[i])
  BY WfEntries, SequenceLen
<1>3. \A i \in 1..L : EntryShape(s[i])
  <2>1. Shape(s)
    BY MergeAddsUp DEF MergeLaw
  <2> QED
    BY <2>1 DEF Shape
<1>4. \A i \in 1..L : itemsOf(s[i], key) \in Seq(S)
  <2>1. ASSUME NEW i \in 1..L PROVE itemsOf(s[i], key) \in Seq(ToSet(itemsOf(s[i], key)))
    <3>1. CASE s[i].key = key
      <4>1. s[i].value.kind = "list"
        BY <1>3, <3>1 DEF EntryShape, IsList
      <4>2. IsSequence(s[i].value.items)
        BY <1>2, <4>1 DEF WfEntry
      <4> QED
        BY <3>1, <4>2 DEF itemsOf, IsSequence
    <3>2. CASE s[i].key # key
      BY <3>2 DEF itemsOf
    <3> QED
      BY <3>1, <3>2
  <2>2. ASSUME NEW i \in 1..L PROVE ToSet(itemsOf(s[i], key)) \subseteq S
    OBVIOUS
  <2> HIDE DEF S
  <2>3. \A A, v : v \in Seq(A) /\ A \subseteq S => v \in Seq(S)
    OBVIOUS
  <2> QED
    BY <2>1, <2>2, <2>3
<1>5. x \in Seq(S)
  <2>1. x \in Seq(ToSet(x)) /\ ToSet(x) \subseteq S
    BY DEF IsSequence
  <2> HIDE DEF S
  <2> QED
    BY <2>1
<1> HIDE DEF S
<1>6. PICK f : /\ f[0] = base
               /\ \A n \in 1..L : f[n] = step(f[n - 1], s[n])
               /\ Fold!Folded(base, s) = f[L]
  BY <1>2, Fold!FoldLeftTrace
<1>7. J(0) = <<>> /\ \A n \in 1..L : J(n - 1) \in Seq(S) /\ J(n) = J(n - 1) \o itemsOf(s[n], key)
  <2>1. J(0) = <<>>
    <3>1. I(0) = <<>>
      OBVIOUS
    <3> HIDE DEF I
    <3> QED
      BY <3>1 DEF FlattenSeq
  <2>2. ASSUME NEW n \in 1..L PROVE J(n - 1) \in Seq(S) /\ J(n) = J(n - 1) \o itemsOf(s[n], key)
    <3>1. n \in Nat \ {0} /\ I(n) \in [1..n -> Seq(S)]
      BY <1>2, <1>4
    <3>2. [i \in 1..(n - 1) |-> I(n)[i]] = I(n - 1) /\ I(n)[n] = itemsOf(s[n], key)
      BY <1>2
    <3>3. \A u : FlattenSeq(u) = Fold!Flattened(u)
      BY DEF FlattenSeq, Fold!Flattened, Fold!FlattenSeq
    <3> DEFINE a == I(n)
    <3>a. a \in [1..n -> Seq(S)]
      BY <3>1
    <3> HIDE DEF a
    <3>4. /\ Fold!Flattened([i \in 1..(n - 1) |-> a[i]]) \in Seq(S)
          /\ Fold!Flattened(a) = Fold!Flattened([i \in 1..(n - 1) |-> a[i]]) \o a[n]
      BY <3>1, <3>a, Fold!FlattenOneMore
    <3>5. /\ FlattenSeq(I(n - 1)) \in Seq(S)
          /\ FlattenSeq(a) = FlattenSeq(I(n - 1)) \o itemsOf(s[n], key)
      <4>1. [i \in 1..(n - 1) |-> a[i]] = I(n - 1) /\ a[n] = itemsOf(s[n], key)
        BY <3>2 DEF a
      <4> HIDE DEF I
      <4> QED
        BY <3>3, <3>4, <4>1
    <3> QED
      BY <3>5 DEF a
  <2> QED
    BY <2>1, <2>2
<1> HIDE DEF J, I
<1>8. \A n \in 0..L : J(n) \in Seq(S)
  <2>1. ASSUME NEW n \in 1..L PROVE J(n) \in Seq(S)
    <3>1. J(n - 1) \in Seq(S) /\ itemsOf(s[n], key) \in Seq(S) /\ J(n) = J(n - 1) \o itemsOf(s[n], key)
      BY <1>4, <1>7
    <3> QED
      BY <3>1
  <2>2. <<>> \in Seq(S)
    OBVIOUS
  <2>3. \A n \in 0..L : n = 0 \/ n \in 1..L
    BY <1>2
  <2>4. J(0) \in Seq(S)
    BY <1>7, <2>2
  <2> QED
    BY <2>1, <2>3, <2>4
<1> DEFINE T == {n \in 0..L : /\ Fold!Accumulated(f[n]) /\ Unique(f[n].entries)
                              /\ f[n].ok /\ Shape(f[n].entries) => Holds(f[n].entries, key, x \o J(n))}
<1>9. 0 \in T
  <2>1. x \o J(0) = x
    BY <1>5, <1>7, ConcatEmptySeq
  <2>2. f[0].entries = d
    BY <1>6
  <2>3. /\ Fold!Accumulated(f[0]) /\ Unique(f[0].entries) /\ Holds(f[0].entries, key, x \o J(0))
    BY <1>1, <1>6, <2>1, <2>2
  <2> HIDE DEF base
  <2> QED
    BY <1>2, <2>3
<1>10. ASSUME NEW n \in 1..L, n - 1 \in T PROVE n \in T
  <2>1. /\ Fold!Accumulated(f[n - 1]) /\ Unique(f[n - 1].entries)
        /\ f[n - 1].ok /\ Shape(f[n - 1].entries) => Holds(f[n - 1].entries, key, x \o J(n - 1))
    BY <1>10
  <2>2. f[n] = step(f[n - 1], s[n]) /\ WfEntry(s[n]) /\ EntryShape(s[n])
    BY <1>2, <1>3, <1>6
  <2>3. /\ Fold!Accumulated(f[n])
        /\ f[n].ok /\ Shape(f[n].entries) => f[n - 1].ok /\ Shape(f[n - 1].entries)
    BY <1>1, <2>1, <2>2 DEF Fold!StepLaw, Fold!Sums
  <2>4. Unique(f[n].entries)
    BY <1>1, <2>1, <2>2 DEF Fold!KeptLaw, Always
  <2>5. ASSUME f[n].ok, Shape(f[n].entries) PROVE Holds(f[n].entries, key, x \o J(n))
    <3>1. x \o J(n - 1) \in Seq(S)
      BY <1>5, <1>7
    <3>2. IsSequence(x \o J(n - 1))
      BY <3>1, SequenceOf
    <3>3. Holds(f[n].entries, key, (x \o J(n - 1)) \o itemsOf(s[n], key))
      BY <2>1, <2>2, <2>3, <2>5, <3>2, StepJoins
    <3>4. (x \o J(n - 1)) \o itemsOf(s[n], key) = x \o (J(n - 1) \o itemsOf(s[n], key))
      <4>1. J(n - 1) \in Seq(S) /\ itemsOf(s[n], key) \in Seq(S) /\ x \in Seq(S)
        BY <1>4, <1>5, <1>7
      <4> QED
        BY <4>1, ConcatAssociative
    <3> QED
      BY <1>7, <3>3, <3>4
  <2> QED
    BY <2>3, <2>4, <2>5
<1>11. L \in T
  <2> HIDE DEF T
  <2> QED
    BY <1>2, <1>9, <1>10, Fold!TraceInduction
<1>12. merge(d, s) = f[L]
  BY <1>6, MergeFold
<1>13. Holds(merge(d, s).entries, key, x \o J(L)) /\ IsSequence(J(L))
  BY <1>2, <1>8, <1>11, <1>12, SequenceOf
<1> QED
  BY <1>13 DEF J, I, Joined
=============================================================================
