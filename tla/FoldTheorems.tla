------------------------------ MODULE FoldTheorems ------------------------------
(***************************************************************************)
(* Induction over the naturals, and what a fold computes.  A theorem that  *)
(* has an operator as a parameter cannot be cited; here the operators are  *)
(* constants of the module, so that INSTANCE FoldTheorems WITH op <- ...   *)
(* gives the theorems for the operator that a model folds with.            *)
(*                                                                         *)
(* The last theorem is about folds that accumulate entries and may fail.   *)
(* The entries have a summary that adds up: whether they have the shape    *)
(* asked for, the names they take, and whether a name is taken twice or    *)
(* something else is at fault.  What the fold accumulates from a sequence  *)
(* of elements has the sum of their summaries.                             *)
(***************************************************************************)
EXTENDS SequencesExt, WellFoundedInduction, TLAPS

CONSTANTS
  op(_, _),                             \* of [ok |-> , entries |-> ] and an element
  Wf(_), Shape(_), Names(_), Faulty(_), \* of entries
  EWf(_), EShape(_), ENames(_), EFaulty(_), \* of an element
  Kept(_), EKept(_)                     \* what the fold keeps of entries, given each element

\* A set of natural numbers that has an element has a least one; stated for
\* sets it can be cited for any property: induction by a least counterexample.
LEMMA LeastElement ==
  ASSUME NEW T, T \subseteq Nat, T # {}
  PROVE  \E n \in T : \A m \in T : n <= m
<1>1. PICK n \in T : \A m \in T : ~(<<m, n>> \in OpToRel(<, Nat))
  BY NatLessThanWellFounded, WFMin
<1>2. ASSUME NEW m \in T, m < n PROVE FALSE
  <2>1. <<m, n>> \in OpToRel(<, Nat)
    BY <1>2 DEF OpToRel
  <2> QED
    BY <1>1, <2>1
<1> QED
  BY <1>2

\* A nonempty set of positions has a greatest one.
LEMMA GreatestPosition ==
  ASSUME NEW n \in Nat, NEW S, S \subseteq 1..n, S # {}
  PROVE  \E x \in S : \A k \in S : k <= x
<1> DEFINE T == {n - k : k \in S}
<1>1. PICK x \in T : \A m \in T : x <= m
  <2>1. ASSUME NEW k \in S PROVE n - k \in Nat
    OBVIOUS
  <2>2. T \subseteq Nat /\ T # {}
    BY <2>1
  <2> HIDE DEF T
  <2> QED
    BY <2>2, LeastElement
<1>2. PICK k \in S : x = n - k
  OBVIOUS
<1>3. ASSUME NEW j \in S PROVE j <= k
  <2>1. n - j \in T
    OBVIOUS
  <2>2. n - k <= n - j
    BY <1>1, <1>2, <2>1
  <2> QED
    BY <2>2
<1> QED
  BY <1>3

\* It is what Max names.
LEMMA MaxPosition ==
  ASSUME NEW n \in Nat, NEW S, S \subseteq 1..n, S # {}
  PROVE  /\ Max(S) \in S
         /\ \A k \in S : k <= Max(S)
  BY GreatestPosition DEF Max

\* The function that MapThenFoldSet recurs on, over the first n positions.
IterOver(g, base, s, n) ==
  g = [S \in SUBSET (1..n) |-> IF S = {} THEN base ELSE op(g[S \ {Max(S)}], s[Max(S)])]

\* There is one, so that the CHOOSE in MapThenFoldSet names it.
LEMMA IterExists ==
  ASSUME NEW base, NEW s, NEW n \in Nat
  PROVE  \E g : IterOver(g, base, s, n)
<1> DEFINE T == {k \in Nat : ~ \E g : IterOver(g, base, s, k)}
<1> SUFFICES ASSUME T # {} PROVE FALSE
  OBVIOUS
<1>1. PICK k \in T : \A m \in T : k <= m
  <2>1. T \subseteq Nat
    OBVIOUS
  <2> HIDE DEF T
  <2> QED
    BY <2>1, LeastElement
<1>2. CASE k = 0
  <2> DEFINE g == [S \in SUBSET (1..0) |-> base]
  <2>1. 1..0 = {}
    OBVIOUS
  <2>2. IterOver(g, base, s, 0)
    BY <2>1 DEF IterOver
  <2> QED
    BY <1>2, <2>2
<1>3. CASE k # 0
  <2>1. k - 1 \in Nat /\ k - 1 \notin T
    BY <1>1, <1>3
  <2>2. PICK g : IterOver(g, base, s, k - 1)
    BY <2>1
  <2> DEFINE h == [S \in SUBSET (1..k) |->
                     IF k \in S THEN op(g[S \ {k}], s[k]) ELSE g[S]]
  <2>3. ASSUME NEW S \in SUBSET (1..k)
        PROVE  h[S] = IF S = {} THEN base ELSE op(h[S \ {Max(S)}], s[Max(S)])
    <3>1. CASE k \in S
      <4>1. Max(S) = k
        <5>1. Max(S) \in S /\ k <= Max(S)
          BY <3>1, MaxPosition
        <5>2. Max(S) \in 1..k
          BY <5>1
        <5>3. k \in Nat
          OBVIOUS
        <5> QED
          BY <5>1, <5>2, <5>3
      <4>2. S \ {k} \in SUBSET (1..k) /\ k \notin S \ {k}
        OBVIOUS
      <4>3. h[S \ {k}] = g[S \ {k}]
        BY <4>2
      <4> QED
        BY <3>1, <4>1, <4>3
    <3>2. CASE k \notin S
      <4>0. h[S] = g[S]
        BY <3>2
      <4>1. S \in SUBSET (1..(k - 1))
        BY <3>2, <2>1
      <4>2. g[S] = IF S = {} THEN base ELSE op(g[S \ {Max(S)}], s[Max(S)])
        BY <4>1, <2>2 DEF IterOver
      <4>3. S \ {Max(S)} \in SUBSET (1..k) /\ k \notin S \ {Max(S)}
        BY <3>2
      <4>4. h[S] = g[S] /\ h[S \ {Max(S)}] = g[S \ {Max(S)}]
        BY <3>2, <4>3
      <4> QED
        BY <4>2, <4>4
    <3> QED
      BY <3>1, <3>2
  <2>4. h = [S \in SUBSET (1..k) |-> h[S]]
    OBVIOUS
  <2> HIDE DEF h
  <2>5. IterOver(h, base, s, k)
    BY <2>3, <2>4 DEF IterOver
  <2> QED
    BY <2>5
<1> QED
  BY <1>2, <1>3

Folded(base, s) == FoldLeft(op, base, s)

\* FoldLeft goes through the sequence from its first element to its last.
THEOREM FoldLeftTrace ==
  ASSUME NEW base, NEW s, DOMAIN s = 1..Len(s), Len(s) \in Nat
  PROVE  \E f : /\ f[0] = base
                /\ \A n \in 1..Len(s) : f[n] = op(f[n - 1], s[n])
                /\ Folded(base, s) = f[Len(s)]
<1> DEFINE L == Len(s)
           iter == CHOOSE g : g = [S \in SUBSET DOMAIN s |->
                     IF S = {} THEN base ELSE op(g[S \ {Max(S)}], s[Max(S)])]
           f == [n \in 0..L |-> iter[1..n]]
<1>1. IterOver(iter, base, s, L)
  <2>1. PICK g : IterOver(g, base, s, L)
    BY IterExists
  <2>2. g = [S \in SUBSET DOMAIN s |-> IF S = {} THEN base ELSE op(g[S \ {Max(S)}], s[Max(S)])]
    BY <2>1 DEF IterOver
  <2>3. iter = [S \in SUBSET DOMAIN s |->
                  IF S = {} THEN base ELSE op(iter[S \ {Max(S)}], s[Max(S)])]
    BY <2>2, Zenon
  <2> QED
    BY <2>3 DEF IterOver
<1>2. Folded(base, s) = iter[1..L]
  BY DEF Folded, FoldLeft, MapThenFoldSet
<1> HIDE DEF iter
<1>3. f[0] = base
  BY <1>1 DEF IterOver
<1>4. ASSUME NEW n \in 1..L PROVE f[n] = op(f[n - 1], s[n])
  <2>1. Max(1..n) = n
    <3>1. 1..n \subseteq 1..L /\ 1..n # {} /\ n \in 1..n
      OBVIOUS
    <3>2. Max(1..n) \in 1..n /\ n <= Max(1..n)
      BY <3>1, MaxPosition
    <3> QED
      BY <3>2
  <2>2. (1..n) \ {n} = 1..(n - 1)
    OBVIOUS
  <2>3. iter[1..n] = op(iter[1..(n - 1)], s[n])
    <3>1. 1..n \in SUBSET (1..L) /\ 1..n # {}
      OBVIOUS
    <3> QED
      BY <1>1, <2>1, <2>2, <3>1 DEF IterOver
  <2> QED
    BY <2>3
<1>5. f[L] = iter[1..L]
  OBVIOUS
<1> HIDE DEF f
<1> QED
  BY <1>2, <1>3, <1>4, <1>5

\* The function that FlattenSeq recurs on, over the first n sequences.
FlattenOver(g, s, n) == g = [i \in 1..n |-> IF i = 1 THEN s[i] ELSE g[i - 1] \o s[i]]

\* There is one, so that the CHOOSE in FlattenSeq names it.
LEMMA FlattenExists ==
  ASSUME NEW s, NEW n \in Nat
  PROVE  \E g : FlattenOver(g, s, n)
<1> DEFINE T == {k \in Nat : ~ \E g : FlattenOver(g, s, k)}
<1> SUFFICES ASSUME T # {} PROVE FALSE
  OBVIOUS
<1>1. PICK k \in T : \A m \in T : k <= m
  <2>1. T \subseteq Nat
    OBVIOUS
  <2> HIDE DEF T
  <2> QED
    BY <2>1, LeastElement
<1>2. CASE k = 0
  <2>1. FlattenOver([i \in 1..0 |-> s[i]], s, 0)
    BY DEF FlattenOver
  <2> QED
    BY <1>2, <2>1
<1>3. CASE k # 0
  <2>1. k - 1 \in Nat /\ k - 1 \notin T
    BY <1>1, <1>3
  <2>2. PICK g : FlattenOver(g, s, k - 1)
    BY <2>1
  <2> DEFINE h == [i \in 1..k |->
                     IF i < k THEN g[i] ELSE IF i = 1 THEN s[i] ELSE g[i - 1] \o s[i]]
  <2>3. ASSUME NEW i \in 1..k
        PROVE  h[i] = IF i = 1 THEN s[i] ELSE h[i - 1] \o s[i]
    <3>1. k \in Nat
      OBVIOUS
    <3>2. i # 1 => h[i - 1] = g[i - 1]
      BY <3>1
    <3>3. CASE i < k
      <4>1. i \in 1..(k - 1)
        BY <3>1, <3>3
      <4>2. g[i] = IF i = 1 THEN s[i] ELSE g[i - 1] \o s[i]
        BY <2>2, <4>1 DEF FlattenOver
      <4> QED
        BY <3>2, <3>3, <4>2
    <3>4. CASE ~(i < k)
      BY <3>2, <3>4
    <3> QED
      BY <3>3, <3>4
  <2>4. h = [i \in 1..k |-> h[i]]
    OBVIOUS
  <2> HIDE DEF h
  <2>5. FlattenOver(h, s, k)
    BY <2>3, <2>4 DEF FlattenOver
  <2> QED
    BY <2>5
<1> QED
  BY <1>2, <1>3

\* FlattenSeq joins the sequences from the first to the last.
THEOREM FlattenTrace ==
  ASSUME NEW S, NEW s \in Seq(Seq(S))
  PROVE  \E f : /\ f[0] = <<>>
                /\ \A n \in 1..Len(s) : f[n] = f[n - 1] \o s[n]
                /\ FlattenSeq(s) = f[Len(s)]
<1>1. Len(s) \in Nat /\ DOMAIN s = 1..Len(s) /\ \A i \in 1..Len(s) : s[i] \in Seq(S)
  OBVIOUS
<1>e. CASE Len(s) = 0
  <2> DEFINE f == [n \in {0} |-> <<>>]
  <2>1. f[0] = <<>> /\ 1..Len(s) = {}
    BY <1>e
  <2>2. FlattenSeq(s) = <<>>
    BY <1>e DEF FlattenSeq
  <2> QED
    BY <1>e, <2>1, <2>2
<1>n. CASE Len(s) # 0
  <2> DEFINE g == CHOOSE h : h = [i \in 1..Len(s) |-> IF i = 1 THEN s[i] ELSE h[i - 1] \o s[i]]
             f == [n \in 0..Len(s) |-> IF n = 0 THEN <<>> ELSE g[n]]
  <2>1. g = [i \in 1..Len(s) |-> IF i = 1 THEN s[i] ELSE g[i - 1] \o s[i]]
    <3>1. PICK h : FlattenOver(h, s, Len(s))
      BY <1>1, FlattenExists
    <3>2. h = [i \in 1..Len(s) |-> IF i = 1 THEN s[i] ELSE h[i - 1] \o s[i]]
      BY <3>1 DEF FlattenOver
    <3> QED
      BY <3>2, Zenon
  <2>2. FlattenSeq(s) = g[Len(s)]
    BY <1>n DEF FlattenSeq
  <2> HIDE DEF g
  <2>3. ASSUME NEW n \in 1..Len(s) PROVE f[n] = f[n - 1] \o s[n]
    <3>1. CASE n = 1
      <4>1. f[n] = s[1] /\ f[n - 1] = <<>>
        BY <2>1, <3>1
      <4>2. s[1] \in Seq(S)
        BY <1>1, <3>1
      <4>3. <<>> \o s[1] = s[1]
        BY <4>2
      <4> HIDE DEF f
      <4> QED
        BY <3>1, <4>1, <4>3
    <3>2. CASE n # 1
      <4>1. n - 1 \in 1..Len(s)
        BY <1>1, <3>2
      <4>2. g[n] = g[n - 1] \o s[n]
        BY <2>1, <3>2
      <4>3. f[n] = g[n] /\ f[n - 1] = g[n - 1]
        BY <1>1, <3>2, <4>1
      <4> QED
        BY <4>2, <4>3
    <3> QED
      BY <3>1, <3>2
  <2>4. f[0] = <<>> /\ f[Len(s)] = g[Len(s)]
    BY <1>1, <1>n
  <2> HIDE DEF f
  <2> QED
    BY <2>2, <2>3, <2>4
<1> QED
  BY <1>e, <1>n

-----------------------------------------------------------------------------
(* Folds that add up *)

\* The summary of the first n elements.
ShapeTo(s, n) == \A i \in 1..n : EShape(s[i])
NamesTo(s, n) == UNION {ENames(s[i]) : i \in 1..n}
FaultyTo(s, n) ==
  \/ \E i \in 1..n : EFaulty(s[i])
  \/ \E i, j \in 1..n : i # j /\ ENames(s[i]) \cap ENames(s[j]) # {}

\* One more element.
LEMMA OneMore ==
  ASSUME NEW s, NEW n \in Nat \ {0}
  PROVE  /\ ShapeTo(s, n) <=> ShapeTo(s, n - 1) /\ EShape(s[n])
         /\ NamesTo(s, n) = NamesTo(s, n - 1) \cup ENames(s[n])
         /\ FaultyTo(s, n) <=>
              FaultyTo(s, n - 1) \/ EFaulty(s[n]) \/ NamesTo(s, n - 1) \cap ENames(s[n]) # {}
<1>1. 1..n = (1..(n - 1)) \cup {n} /\ n \notin 1..(n - 1)
  OBVIOUS
<1>2. ShapeTo(s, n) <=> ShapeTo(s, n - 1) /\ EShape(s[n])
  BY <1>1 DEF ShapeTo
<1>3. NamesTo(s, n) = NamesTo(s, n - 1) \cup ENames(s[n])
  BY <1>1 DEF NamesTo
<1>4. NamesTo(s, n - 1) \cap ENames(s[n]) # {} <=>
        \E i \in 1..(n - 1) : ENames(s[i]) \cap ENames(s[n]) # {}
  BY DEF NamesTo
<1>5. FaultyTo(s, n) <=>
        \/ FaultyTo(s, n - 1) \/ EFaulty(s[n])
        \/ \E i \in 1..(n - 1) : ENames(s[i]) \cap ENames(s[n]) # {}
  <2>1. \A i \in 1..(n - 1) : ENames(s[i]) \cap ENames(s[n]) = ENames(s[n]) \cap ENames(s[i])
    OBVIOUS
  <2> QED
    BY <1>1, <2>1 DEF FaultyTo
<1> QED
  BY <1>2, <1>3, <1>4, <1>5

Accumulated(acc) ==
  acc = [ok |-> acc.ok, entries |-> acc.entries] /\ acc.ok \in BOOLEAN /\ Wf(acc.entries)

\* How a summary adds up: shape, names and faults of the parts and the whole.
Sums(wholeGood, wholeNames, wholeFaulty, good, names, faulty, partGood, partNames, partFaulty) ==
  /\ wholeGood =>
       /\ good /\ partGood
       /\ wholeNames = names \cup partNames
       /\ wholeFaulty <=> faulty \/ partFaulty \/ names \cap partNames # {}
  /\ good /\ partGood /\ ~faulty /\ ~partFaulty /\ names \cap partNames = {} => wholeGood

\* What op has to do with one element.
StepLaw ==
  \A acc, e : Accumulated(acc) /\ EWf(e) =>
    /\ Accumulated(op(acc, e))
    /\ Sums(op(acc, e).ok /\ Shape(op(acc, e).entries), Names(op(acc, e).entries), Faulty(op(acc, e).entries),
            acc.ok /\ Shape(acc.entries), Names(acc.entries), Faulty(acc.entries),
            EShape(e), ENames(e), EFaulty(e))

KeptLaw ==
  \A acc, e : Accumulated(acc) /\ EWf(e) /\ Kept(acc.entries) /\ EKept(e) => Kept(op(acc, e).entries)

\* A property of the fold's steps holds at the end when every step keeps it.
LEMMA TraceInduction ==
  ASSUME NEW L \in Nat, NEW T, 0 \in T, \A n \in 1..L : n - 1 \in T => n \in T
  PROVE  L \in T
<1> DEFINE bad == {n \in 0..L : n \notin T}
<1> SUFFICES ASSUME bad # {} PROVE FALSE
  OBVIOUS
<1>1. PICK n \in bad : \A m \in bad : n <= m
  <2>1. bad \subseteq Nat
    OBVIOUS
  <2> HIDE DEF bad
  <2> QED
    BY <2>1, LeastElement
<1>2. n \in 1..L
  OBVIOUS
<1>3. n - 1 \in 0..L /\ ~(n <= n - 1)
  BY <1>2
<1>4. n - 1 \in T
  BY <1>1, <1>3
<1> QED
  BY <1>2, <1>4

\* The fold of a sequence adds up as its elements do.
THEOREM FoldLaw ==
  ASSUME StepLaw, NEW base, Accumulated(base),
         NEW s, DOMAIN s = 1..Len(s), Len(s) \in Nat, \A i \in DOMAIN s : EWf(s[i])
  PROVE  LET r == Folded(base, s) IN
         /\ Accumulated(r)
         /\ Sums(r.ok /\ Shape(r.entries), Names(r.entries), Faulty(r.entries),
                 base.ok /\ Shape(base.entries), Names(base.entries), Faulty(base.entries),
                 ShapeTo(s, Len(s)), NamesTo(s, Len(s)), FaultyTo(s, Len(s)))
<1>1. PICK f : /\ f[0] = base
               /\ \A n \in 1..Len(s) : f[n] = op(f[n - 1], s[n])
               /\ Folded(base, s) = f[Len(s)]
  BY FoldLeftTrace
<1> DEFINE Law(n) ==
             /\ Accumulated(f[n])
             /\ Sums(f[n].ok /\ Shape(f[n].entries), Names(f[n].entries), Faulty(f[n].entries),
                     base.ok /\ Shape(base.entries), Names(base.entries), Faulty(base.entries),
                     ShapeTo(s, n), NamesTo(s, n), FaultyTo(s, n))
           T == {n \in 0..Len(s) : Law(n)}
<1>2. Law(0)
  <2>1. ShapeTo(s, 0) /\ NamesTo(s, 0) = {} /\ ~FaultyTo(s, 0)
    BY DEF ShapeTo, NamesTo, FaultyTo
  <2> QED
    BY <1>1, <2>1 DEF Sums
<1>3. ASSUME NEW n \in 1..Len(s), Law(n - 1) PROVE Law(n)
  <2>1. EWf(s[n]) /\ f[n] = op(f[n - 1], s[n])
    BY <1>1
  <2>2. /\ Accumulated(f[n])
        /\ Sums(f[n].ok /\ Shape(f[n].entries), Names(f[n].entries), Faulty(f[n].entries),
                f[n - 1].ok /\ Shape(f[n - 1].entries), Names(f[n - 1].entries), Faulty(f[n - 1].entries),
                EShape(s[n]), ENames(s[n]), EFaulty(s[n]))
    BY <1>3, <2>1 DEF StepLaw
  <2>3. /\ ShapeTo(s, n) <=> ShapeTo(s, n - 1) /\ EShape(s[n])
        /\ NamesTo(s, n) = NamesTo(s, n - 1) \cup ENames(s[n])
        /\ FaultyTo(s, n) <=>
             FaultyTo(s, n - 1) \/ EFaulty(s[n]) \/ NamesTo(s, n - 1) \cap ENames(s[n]) # {}
    BY OneMore
  <2> QED
    BY <1>3, <2>2, <2>3 DEF Sums
<1> HIDE DEF Law
<1>4. Len(s) \in T
  <2>1. 0 \in T /\ \A n \in 1..Len(s) : n - 1 \in T => n \in T
    BY <1>2, <1>3
  <2> HIDE DEF T
  <2> QED
    BY <2>1, TraceInduction
<1> QED
  BY <1>1, <1>4 DEF Law

\* It keeps what each step keeps.
THEOREM FoldKeeps ==
  ASSUME StepLaw, KeptLaw, NEW base, Accumulated(base), Kept(base.entries),
         NEW s, DOMAIN s = 1..Len(s), Len(s) \in Nat, \A i \in DOMAIN s : EWf(s[i]) /\ EKept(s[i])
  PROVE  Kept(Folded(base, s).entries)
<1>1. PICK f : /\ f[0] = base
               /\ \A n \in 1..Len(s) : f[n] = op(f[n - 1], s[n])
               /\ Folded(base, s) = f[Len(s)]
  BY FoldLeftTrace
<1> DEFINE T == {n \in 0..Len(s) : Accumulated(f[n]) /\ Kept(f[n].entries)}
<1>2. 0 \in T
  BY <1>1
<1>3. ASSUME NEW n \in 1..Len(s), n - 1 \in T PROVE n \in T
  BY <1>1, <1>3 DEF StepLaw, KeptLaw
<1>4. Len(s) \in T
  <2> HIDE DEF T
  <2> QED
    BY <1>2, <1>3, TraceInduction
<1> QED
  BY <1>1, <1>4

-----------------------------------------------------------------------------
(* Joining sequences one by one *)

Flattened(s) == FlattenSeq(s)

\* Joining one sequence more.
LEMMA FlattenOneMore ==
  ASSUME NEW S, NEW n \in Nat \ {0}, NEW s \in [1..n -> Seq(S)]
  PROVE  /\ Flattened([i \in 1..(n - 1) |-> s[i]]) \in Seq(S)
         /\ Flattened(s) = Flattened([i \in 1..(n - 1) |-> s[i]]) \o s[n]
<1> DEFINE front == [i \in 1..(n - 1) |-> s[i]]
<1>1. /\ Len(s) = n /\ s \in Seq(Seq(S))
      /\ Len(front) = n - 1 /\ front \in Seq(Seq(S)) /\ n - 1 \in Nat
      /\ \A i \in 1..(n - 1) : front[i] = s[i]
  OBVIOUS
<1> HIDE DEF front
<1>0. n \in 1..n /\ 0 \in 0..(n - 1) /\ 1..(n - 1) \subseteq 1..n
      /\ \A k \in 1..(n - 1) : k - 1 \in 0..(n - 1) /\ k \in 0..(n - 1)
  OBVIOUS
<1>2. PICK f : /\ f[0] = <<>>
               /\ \A k \in 1..n : f[k] = f[k - 1] \o s[k]
               /\ FlattenSeq(s) = f[n]
  BY <1>1, FlattenTrace
<1>3. PICK g : /\ g[0] = <<>>
               /\ \A k \in 1..(n - 1) : g[k] = g[k - 1] \o front[k]
               /\ FlattenSeq(front) = g[n - 1]
  BY <1>1, FlattenTrace
<1> DEFINE T == {k \in 0..(n - 1) : g[k] = f[k] /\ g[k] \in Seq(S)}
<1>4. 0 \in T
  <2>1. <<>> \in Seq(S)
    OBVIOUS
  <2> QED
    BY <1>0, <1>2, <1>3, <2>1
<1>5. ASSUME NEW k \in 1..(n - 1), k - 1 \in T PROVE k \in T
  <2>1. g[k - 1] = f[k - 1] /\ g[k - 1] \in Seq(S) /\ k \in 1..n /\ k \in 0..(n - 1)
    BY <1>0, <1>5
  <2>2. f[k] = f[k - 1] \o s[k] /\ g[k] = g[k - 1] \o s[k] /\ s[k] \in Seq(S)
    BY <1>1, <1>2, <1>3, <2>1
  <2>3. f[k - 1] \o s[k] \in Seq(S) /\ g[k] = f[k]
    BY <2>1, <2>2
  <2> QED
    BY <2>1, <2>2, <2>3
<1>6. n - 1 \in T
  <2> HIDE DEF T
  <2> QED
    BY <1>1, <1>4, <1>5, TraceInduction
<1>7. g[n - 1] = f[n - 1] /\ g[n - 1] \in Seq(S)
  BY <1>6
<1>8. f[n] = f[n - 1] \o s[n]
  BY <1>0, <1>2
<1>9. FlattenSeq(front) \in Seq(S) /\ FlattenSeq(s) = FlattenSeq(front) \o s[n]
  BY <1>2, <1>3, <1>7, <1>8
<1> QED
  BY <1>9 DEF front, Flattened
=============================================================================
