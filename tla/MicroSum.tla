------------------------------ MODULE MicroSum ------------------------------
(***************************************************************************)
(* The sum of an amount of micros over a finite set of reservations.       *)
(*                                                                         *)
(* The sum is defined by counting: every i of S contributes the f[i]       *)
(* distinct units <<i, 1>>, ..., <<i, f[i]>>, and the total is the number  *)
(* of units.  A definition by cardinality needs no recursion, so the laws  *)
(* of MicroSumTheorems are proved from the theory of finite sets alone.    *)
(***************************************************************************)
EXTENDS Integers, FiniteSets

\* The units of micros that the reservations in S stand for.
Units(f, S) == UNION {{i} \X (1..f[i]) : i \in S}

\* The total of f over S, for a natural-valued f and a finite S.
Total(f, S) == Cardinality(Units(f, S))
=============================================================================
