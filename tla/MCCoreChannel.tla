---------------------------- MODULE MCCoreChannel ----------------------------
(* The kinds of write the use cases really make, read off their table.     *)
EXTENDS CoreChannel, Ports, TLC

SymmetryOfIntents == Permutations(Intent)

Writes(uc) ==
    {c \in UNION {UNION {plan[n] : n \in DOMAIN plan} : plan \in uc.plans} : c.write}

KindsOf(uc) ==
    { [key |-> c.key, handsOn |-> port \in uc.clientKey, offered |-> o] :
        c \in Writes(uc), port \in uc.surfaces, o \in BOOLEAN }

TableKinds == UNION {KindsOf(AllCases[op]) : op \in DOMAIN AllCases}
=============================================================================
