-------------------------------- MODULE YamlMerge --------------------------------
(***************************************************************************)
(* yamlmerge.Merge: how one YAML document is merged into another.          *)
(*                                                                         *)
(* A YAML node is a scalar, a list or a mapping; a mapping is a sequence   *)
(* of entries, because the decoder accepts a key twice.  Sorting keys and  *)
(* encoding between two files keep the meaning and are left out.           *)
(*                                                                         *)
(* The function calls itself on mappings below mappings.  A configuration  *)
(* has three levels of them here (the document, config and security), so   *)
(* the recursion is written out for three: whatever is merged below them,  *)
(* the decoder rejects the result.                                         *)
(***************************************************************************)
EXTENDS Integers, SequencesExt

Scalar(v)  == [kind |-> "scalar", value |-> v]
List(s)    == [kind |-> "list", items |-> s]
Mapping(s) == [kind |-> "mapping", entries |-> s]
Entry(k, node) == [key |-> k, value |-> node]

\* The shape of a decoded mapping, down to the lists and mappings in it.
IsSequence(s) == s \in Seq(ToSet(s))
Entries(s, below(_)) ==
  /\ IsSequence(s)
  /\ \A i \in DOMAIN s :
       /\ s[i] = Entry(s[i].key, s[i].value)
       /\ s[i].value.kind = "list" => IsSequence(s[i].value.items)
       /\ s[i].value.kind = "mapping" => below(s[i].value.entries)

Deeper(s) == TRUE
ThirdLevel(s) == Entries(s, Deeper)
SecondLevel(s) == Entries(s, ThirdLevel)
FirstLevel(s) == Entries(s, SecondLevel)

Unique(entries) == \A i, j \in DOMAIN entries : entries[i].key = entries[j].key => i = j

Positions(entries, key) == {i \in DOMAIN entries : entries[i].key = key}

\* Mutant of joined: a list that is there already stays as it is.
firstList(old, new) == old

joined(old, new) == List(old.items \o new.items)

\* A new key is appended with all that is below it; mappings merge, lists are
\* joined, and a repeated primitive or a change of kind is an error.
mergeEntry(below(_, _), acc, e) ==
  LET here == Positions(acc.entries, e.key)
      i == Max(here)
      old == acc.entries[i].value
      both(kind) == old.kind = kind /\ e.value.kind = kind
      inner == below(old.entries, e.value.entries)
      put(node) == [acc EXCEPT !.entries[i].value = node]
  IN  IF ~acc.ok THEN acc
      ELSE IF here = {} THEN [acc EXCEPT !.entries = Append(@, e)]
      ELSE CASE both("mapping") -> [put(Mapping(inner.entries)) EXCEPT !.ok = inner.ok]
             [] both("list") -> put(joined(old, e.value))
             [] OTHER -> [acc EXCEPT !.ok = FALSE]

mergeDeeper(destination, source) == [ok |-> FALSE, entries |-> destination]
mergeThirdEntry(acc, e) == mergeEntry(mergeDeeper, acc, e)
mergeThird(destination, source) ==
  FoldLeft(mergeThirdEntry, [ok |-> TRUE, entries |-> destination], source)

mergeSecondEntry(acc, e) == mergeEntry(mergeThird, acc, e)
mergeSecond(destination, source) ==
  FoldLeft(mergeSecondEntry, [ok |-> TRUE, entries |-> destination], source)

mergeFirstEntry(acc, e) == mergeEntry(mergeSecond, acc, e)

\* Mutant of mergeMapping: the error is lost on the way up.
mergeMappingAnyway(destination, source) ==
  [FoldLeft(mergeFirstEntry, [ok |-> TRUE, entries |-> destination], source) EXCEPT !.ok = TRUE]

mergeMapping(destination, source) ==
  FoldLeft(mergeFirstEntry, [ok |-> TRUE, entries |-> destination], source)
=============================================================================
