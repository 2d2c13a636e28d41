---------------------------- MODULE FloerComplex ----------------------------
(***************************************************************************)
(* The combinatorial part of engine/math/floer_homology.cu: paths between  *)
(* critical points of different Morse index, the boundary matrix over Z2   *)
(* they give, and the two blocks of it whose ranks enter the homology.     *)
(*                                                                         *)
(* m maps each critical point, 0 to n - 1 in the order the first kernel's  *)
(* atomic counter numbered them, to its Morse index: 0 a minimum, 1 a      *)
(* saddle, 2 a maximum.                                                    *)
(***************************************************************************)
EXTENDS Integers

MorseIndex == 0..2

(* kernel_find_instantons: one path for each pair of different index, from *)
(* the lower to the higher.                                                *)
Instantons(m) == {p \in (DOMAIN m) \X (DOMAIN m) : m[p[1]] < m[p[2]]}

(* kernel_build_floer_boundary: a path between neighbouring indices flips  *)
(* the entry in the row of its end and the column of its start.            *)
boundary_matrix(m, row, col) ==
    IF <<col, row>> \in Instantons(m) /\ m[row] - m[col] = 1 THEN 1 ELSE 0

(* compute_floer_homology: the block for grade g has the critical points   *)
(* of index g as rows and those of index g + 1 as columns.                 *)
sub(m, g) == [p \in {i \in DOMAIN m : m[i] = g} \X {j \in DOMAIN m : m[j] = g + 1} |->
                boundary_matrix(m, p[1], p[2])]

(* gaussian_rank_z2 finds its first pivot among the entries that are odd.  *)
Pivots(block) == {p \in DOMAIN block : block[p] % 2 = 1}
=============================================================================
