--------------------------- MODULE MCConfigDeploy ---------------------------
(* Small rulebooks and the configurations they are checked on.             *)
EXTENDS ConfigDeploy

Rule(logic, diffLogic, order) == [logic |-> logic, diff |-> diffLogic, order |-> order]
Plain(order)                  == Rule("default", "default_diff", order)

Leaf(rule, key, val)    == [row |-> [rule |-> rule, key |-> key, val |-> val], sub |-> <<>>]
Block(rule, key, body)  == [row |-> [rule |-> rule, key |-> key, val |-> 0], sub |-> body]

(* Up to n of the nodes, in any order, no two in one slot.                 *)
Configs(nodes, n) ==
    {c \in BoundedSeq(nodes, n) :
        \A i, j \in DOMAIN c : i # j => ~SameSlot(c[i], c[j].row)}

-----------------------------------------------------------------------------
(* Rules whose rows have no order of their own.  4 and -4 are the two      *)
(* forms of a switch (a block always shows one of them), 8 is a row no rule*)
(* matches, 9 is a rule the acl keeps out, 10 is cant_delete.              *)
PlainRb ==
    (2 :> Plain(1)) @@ (3 :> Rule("undo_redo", "default_diff", NoOrder))
    @@ (4 :> Plain(NoOrder)) @@ (-4 :> Plain(NoOrder))
    @@ (5 :> Rule("permanent", "default_diff", 3))
    @@ (6 :> Plain(1)) @@ (9 :> Plain(0)) @@ (10 :> Plain(2))

PlainBodies ==
    {<<Leaf(4, 0, 0)>>, <<Leaf(3, 1, 1), Leaf(-4, 0, 0)>>, <<Leaf(6, 1, 2), Leaf(4, 0, 0)>>}
PlainNodes ==
    {Leaf(3, 1, 1), Leaf(3, 1, 2), Leaf(10, 1, 0)}
    \cup {Block(2, 1, body) : body \in PlainBodies}
    \cup {Block(2, 2, <<Leaf(-4, 0, 0), Leaf(6, 1, 1)>>), Block(5, 1, <<Leaf(6, 1, 1)>>)}
PlainNew == Configs(PlainNodes, 2)
PlainOld == Configs(PlainNodes \cup
    {Leaf(8, 1, 0), Leaf(9, 1, 0),
     Block(2, 1, <<Leaf(8, 1, 0), Leaf(-4, 0, 0), Leaf(10, 1, 0)>>),
     Block(2, 1, <<Leaf(6, 1, 1), Leaf(-4, 0, 0)>>),
     Block(2, 1, <<Leaf(9, 1, 0), Leaf(4, 0, 0)>>)}, 2)

-----------------------------------------------------------------------------
(* The order of blocks 26 matters, and that of the rows 27 in the plain    *)
(* block 22; 28 is plain; in block 21 the rows 29, at any depth, are       *)
(* rewritten whole; 23 is a multiline block.  Blocks 26 share no key with  *)
(* the others.                                                             *)
OrderedRb ==
    (22 :> Plain(1)) @@ (28 :> Plain(NoOrder))
    @@ (26 :> Rule("ordered", "ordered_diff", 0))
    @@ (27 :> Rule("ordered", "ordered_diff", NoOrder))
    @@ (21 :> Plain(NoOrder)) @@ (29 :> Rule("rewrite", "rewrite_diff", NoOrder))
    @@ (23 :> Rule("default", "multiline_diff", NoOrder))

OrderedNodes ==
    {Block(26, 1, <<>>), Block(26, 1, <<Leaf(28, 1, 0)>>), Block(26, 2, <<Leaf(28, 2, 0)>>), Block(26, 3, <<>>),
     Block(22, 9, <<Leaf(27, 1, 0), Leaf(28, 1, 0), Leaf(27, 2, 0)>>),
     Block(22, 9, <<Leaf(27, 2, 0), Leaf(27, 1, 0)>>)}

RewriteBodies ==
    {<<>>, <<Leaf(29, 1, 0)>>, <<Leaf(29, 1, 0), Leaf(29, 2, 0)>>, <<Leaf(29, 2, 0), Leaf(29, 1, 0)>>,
     <<Block(29, 1, <<Leaf(29, 3, 0)>>), Leaf(29, 2, 0)>>,
     <<Leaf(29, 2, 0), Block(29, 1, <<Leaf(29, 4, 0), Leaf(29, 3, 0)>>)>>}
MultilineBodies == {<<Leaf(28, 1, 0), Leaf(28, 2, 0)>>, <<Leaf(28, 2, 0), Leaf(28, 1, 0)>>}
WholeNodes == {Block(21, 11, b) : b \in RewriteBodies} \cup {Block(23, 12, b) : b \in MultilineBodies}

OrderedConfigs ==
    Configs(OrderedNodes, 3)
    \cup {<<Block(26, 1, <<>>), n>> : n \in WholeNodes}
    \cup {<<Block(21, 11, a), Block(23, 12, b)>> : a \in RewriteBodies, b \in MultilineBodies}

-----------------------------------------------------------------------------
MCRb      == PlainRb @@ OrderedRb
MCAcl     == [r \in (DOMAIN MCRb) \ {9} |-> r = 10]
MCChanges == (PlainOld \X PlainNew) \cup (OrderedConfigs \X OrderedConfigs)
-----------------------------------------------------------------------------
(* patch_order_keys: the ordering rulebook lists alpha (1) and omega (2),  *)
(* the order of the omegas matters, and both are keyed by a number.        *)
KeysRb  == (1 :> Plain(0)) @@ (2 :> Rule("ordered", "ordered_diff", 1))
KeysAcl == [r \in DOMAIN KeysRb |-> FALSE]
KeysChanges == {<<>>} \X Configs({Leaf(1, 5, 0), Leaf(1, 7, 0), Leaf(2, 5, 0), Leaf(2, 7, 0)}, 3)
=============================================================================
