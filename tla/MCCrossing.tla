----------------------------- MODULE MCCrossing -----------------------------
(* Two callers of the edge, and flows whose stages have words the edge     *)
(* knows, words it does not, and a stage of each kind.                     *)
EXTENDS Crossing

CONSTANTS c1, c2

Callers == {c1, c2}

SymmetryOfCallers == Permutations(Callers)

SomeFlows ==
    LET stage1 == [key |-> "k1", type |-> 4, artifact |-> 2, gate |-> 1,
                   actions |-> <<"notify">>]
        stage2 == [key |-> "k2", type |-> 5, artifact |-> 6, gate |-> 2,
                   actions |-> <<>>]
        newer  == [key |-> "k1", type |-> 9, artifact |-> 7, gate |-> 3,
                   actions |-> <<>>]
    IN  {<<stage1, stage2>>, <<stage1, [newer EXCEPT !.key = "k2"]>>, <<newer>>}

SomeEdits == {[field |-> "type", word |-> "spec"], [field |-> "gate", word |-> "human"]}
=============================================================================
