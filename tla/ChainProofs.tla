----------------------------- MODULE ChainProofs -----------------------------
(***************************************************************************)
(* What the two chain complexes of the pipeline are, for every graph and   *)
(* every set of critical points.  Both results are about operators only:   *)
(* no behaviour is involved.                                               *)
(***************************************************************************)
EXTENDS HodgeComplex, FloerComplex, TLAPS

(* The boundary of a triangle's boundary, written out node by node. *)
LEMMA BoundaryValues ==
    ASSUME NEW i \in Int, NEW j \in Int, NEW k \in Int, i < j, k # i, k # j, NEW v \in Int
    PROVE  BoundaryAt(v, Triangle(i, j, k)) =
               IF k < i THEN 0
               ELSE IF k < j THEN (IF v = k THEN 2 ELSE IF v = i THEN -2 ELSE 0)
               ELSE (IF v = j THEN 2 ELSE IF v = i THEN -2 ELSE 0)
  <1> DEFINE t == Triangle(i, j, k)
  <1>1. t[1] = [src |-> i, dst |-> j]
    BY DEF Triangle, EdgeOf
  <1>2. t[2] = IF i < k THEN [src |-> i, dst |-> k] ELSE [src |-> k, dst |-> i]
    BY DEF Triangle, EdgeOf
  <1>3. t[3] = IF j < k THEN [src |-> j, dst |-> k] ELSE [src |-> k, dst |-> j]
    BY DEF Triangle, EdgeOf
  <1>4. t[1] # t[2] /\ t[1] # t[3] /\ t[2] # t[3]
    BY <1>1, <1>2, <1>3
  <1>5. B2(t, t[1]) = 1 /\ B2(t, t[2]) = 1 /\ B2(t, t[3]) = -1
    BY <1>4 DEF B2
  <1>6. BoundaryAt(v, t) = B1(v, t[1]) + B1(v, t[2]) - B1(v, t[3])
    <2>1. B1(v, t[1]) \in Int /\ B1(v, t[2]) \in Int /\ B1(v, t[3]) \in Int
      BY DEF B1
    <2> HIDE DEF t
    <2> QED
      BY <1>5, <2>1 DEF BoundaryAt
  <1>7. B1(v, t[1]) = IF v = j THEN 1 ELSE IF v = i THEN -1 ELSE 0
    BY <1>1 DEF B1
  <1>8. B1(v, t[2]) = IF i < k THEN (IF v = k THEN 1 ELSE IF v = i THEN -1 ELSE 0)
                               ELSE (IF v = i THEN 1 ELSE IF v = k THEN -1 ELSE 0)
    BY <1>2 DEF B1
  <1>9. B1(v, t[3]) = IF j < k THEN (IF v = k THEN 1 ELSE IF v = j THEN -1 ELSE 0)
                               ELSE (IF v = j THEN 1 ELSE IF v = k THEN -1 ELSE 0)
    BY <1>3 DEF B1
  <1> HIDE DEF t
  <1>10. BoundaryAt(v, t) =
               IF k < i THEN 0
               ELSE IF k < j THEN (IF v = k THEN 2 ELSE IF v = i THEN -2 ELSE 0)
               ELSE (IF v = j THEN 2 ELSE IF v = i THEN -2 ELSE 0)
    BY <1>6, <1>7, <1>8, <1>9
  <1> QED
    BY <1>10 DEF t

(* The signs kernel_build_triangle_incidence gives a triangle make it a    *)
(* cycle (B1 times its column of B2 is zero) exactly when it was found by  *)
(* the thread of the edge opposite to its lowest node.  Each triangle is   *)
(* recorded three times, so two of its three columns are not cycles and B1 *)
(* B2 is not zero: the exact and the co-exact part of the decomposition    *)
(* are not orthogonal as the README's direct sum says.                     *)
THEOREM CycleIffLowest ==
    ASSUME NEW i \in Int, NEW j \in Int, NEW k \in Int, i < j, k # i, k # j
    PROVE  (\A v \in Int : BoundaryAt(v, Triangle(i, j, k)) = 0) <=> k < i
  <1>1. ASSUME k < i PROVE \A v \in Int : BoundaryAt(v, Triangle(i, j, k)) = 0
    BY <1>1, BoundaryValues
  <1>2. ASSUME ~(k < i) PROVE BoundaryAt(i, Triangle(i, j, k)) = -2
    BY <1>2, BoundaryValues
  <1> QED
    BY <1>1, <1>2

(* kernel_build_floer_boundary puts a path into the row of its higher end, *)
(* compute_floer_homology reads the rows of the lower one: every entry it  *)
(* reads is zero, gaussian_rank_z2 finds no pivot, and rank_HF0, rank_HF1  *)
(* and rank_HF2 are the plain numbers of minima, saddles and maxima,       *)
(* whatever the paths are.                                                 *)
THEOREM FloerBlocksEmpty ==
    ASSUME NEW n \in Nat, NEW m \in [0 .. n - 1 -> MorseIndex], NEW g \in 0..1
    PROVE  Pivots(sub(m, g)) = {}
  <1>1. SUFFICES ASSUME NEW i \in 0 .. n - 1, NEW j \in 0 .. n - 1, m[i] = g, m[j] = g + 1
                 PROVE  boundary_matrix(m, i, j) = 0
    <2> DEFINE block == sub(m, g)
    <2>1. ASSUME NEW p \in DOMAIN block PROVE block[p] = 0
      <3>1. PICK i \in 0 .. n - 1, j \in 0 .. n - 1 : p = <<i, j>> /\ m[i] = g /\ m[j] = g + 1
        BY <2>1 DEF sub
      <3>2. block[p] = boundary_matrix(m, i, j)
        BY <2>1, <3>1 DEF sub
      <3> QED
        BY <3>1, <3>2, <1>1
    <2> HIDE DEF block
    <2>2. Pivots(block) = {}
      BY <2>1 DEF Pivots
    <2> QED
      BY <2>2 DEF block
  <1>2. ~(m[j] < m[i])
    BY <1>1
  <1>3. <<j, i>> \notin Instantons(m)
    BY <1>2 DEF Instantons
  <1> QED
    BY <1>3 DEF boundary_matrix
=============================================================================
