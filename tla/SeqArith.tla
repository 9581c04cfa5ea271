------------------------------- MODULE SeqArith -----------------------------
(***************************************************************************)
(* The 16-bit sequence numbers of ump_sock.c: how numbers advance and how  *)
(* two of them are compared around a base.                                 *)
(***************************************************************************)
EXTENDS Integers

CONSTANT Half   \* half the number space (2^15 in the code)

ASSUME HalfAssumption == Half \in Nat \ {0}

NumMod == 2 * Half
Nums == 0..(NumMod - 1)

\* ump_relative_to_seq_via_sndstartseq: the sum is cut to 16 bits.
Plus(x, k) == (x + k) % NumMod

\* The numbers up to half the space behind the base and those ahead of it meet
\* at the circle point; those up to it are lifted above the others.
CirclePoint(base) == Plus(base, Half - 1)
LiftBelow(base, x) == IF x < CirclePoint(base) THEN x + NumMod ELSE x
Lift(base, x) == IF x <= CirclePoint(base) THEN x + NumMod ELSE x

\* ump_cmp_in_sndbase, and ump_cmp_in_rcvbase with the other base
Cmp(base, x, y) == Lift(base, x) - Lift(base, y)

\* ump_seq_to_relative_via_sndstartseq
Relative(start, x) == Cmp(start, x, start)

=============================================================================
