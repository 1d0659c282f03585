------------------------------ MODULE MCDeployUi ------------------------------
(* Texts for the pager.                                                    *)
EXTENDS DeployUi

Line(n, hits) == [len |-> n, hits |-> hits]
Long   == [i \in 1 .. 6 |-> Line(i, IF i \in {2, 6} THEN {0, 1} ELSE {})]
Wide   == <<Line(7, {2}), Line(3, {0, 3})>>
Short  == [i \in 1 .. 3 |-> Line(2, {1})]
Huge   == [i \in 1 .. 10 |-> Line(1, IF i = 10 THEN {0} ELSE {})]
Ends   == [i \in 1 .. 5 |-> Line(4, {1, 4})]
Padded == <<Line(0, {}), Line(3, {0})>> \o [i \in 1 .. 3 |-> Line(2, {})] \o <<Line(0, {}), Line(0, {})>>
MCTexts == {<<Padded, Long>>, <<Ends, Long>>, <<Long, Short>>, <<Long, Wide>>, <<Short, Wide>>, <<Huge, Long>>, <<Short, <<>>>>, <<[i \in 1 .. 6 |-> Line(4, {1, 3})], Short>>}
=============================================================================
