-------------------------------- MODULE Lists --------------------------------
(* What Python does with lists: a comprehension, a filter, sorted().       *)
EXTENDS Integers, SequencesExt, FiniteSets

IsList(s) == s \in Seq(ToSet(s))

(* One list of those that Op makes of each element; the elements that are. *)
Collect(seq, Op(_)) == FlattenSeq([i \in DOMAIN seq |-> Op(seq[i])])
Those(seq, Is(_))   == Collect(seq, LAMBDA x : IF Is(x) THEN <<x>> ELSE <<>>)

(* In order of the keys; elements of one key stay in the order they have.  *)
Ahead(keys, j)        == {i \in DOMAIN keys : keys[i] < keys[j] \/ (keys[i] = keys[j] /\ i < j)}
SortedBy(seq, Key(_)) ==
    LET keys == [i \in DOMAIN seq |-> Key(seq[i])]
    IN [n \in DOMAIN seq |-> seq[CHOOSE j \in DOMAIN seq : Cardinality(Ahead(keys, j)) = n - 1]]
=============================================================================
