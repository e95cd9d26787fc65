------------------------------ MODULE MCReport ------------------------------
(* Report with two operations and a ring that wraps around, for TLC. *)
EXTENDS Report

CONSTANTS t1, t2, t3, opA, opB

MCThreads == {t1, t2, t3}
MCGuards == {t1, t2}
MCPosters == {t1}
MCReaders == {t2, t3}
MCOperations == {opA, opB}
MCCosts == 0..2
MCOpOf == [t \in Guards |-> IF t = t1 THEN opA ELSE opB]
MCActualOf == [t \in Guards |-> IF t = t2 THEN 1 ELSE 2]

\* Without a currency, in another one, and free of charge.
MCPosts == { [op |-> opA, cost |-> 1, currency |-> NoCurrency],
             [op |-> opB, cost |-> 2, currency |-> Other],
             [op |-> opB, cost |-> 0, currency |-> Own] }
=============================================================================
