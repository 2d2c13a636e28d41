---------------------------- MODULE HodgeComplex ----------------------------
(***************************************************************************)
(* The incidence matrices engine/math/hodge_kernel.cu builds over the      *)
(* instruments' graph, as operators: the edge list (source below           *)
(* destination), the triangles each edge's thread finds, and the entries   *)
(* of B1 (nodes by edges) and B2 (edges by triangles).  The order in which *)
(* the threads' atomic counters number edges and triangles plays no part.  *)
(***************************************************************************)
EXTENDS Integers

(* kernel_build_edge_list_from_csr: the edge joining a and b. *)
EdgeOf(a, b) == IF a < b THEN [src |-> a, dst |-> b] ELSE [src |-> b, dst |-> a]

(* kernel_build_signed_incidence: the entry of B1 for node v and edge e. *)
B1(v, e) == IF v = e.dst THEN 1 ELSE IF v = e.src THEN -1 ELSE 0

(* kernel_find_triangles: the thread of edge (i, j) records a triangle for *)
(* every common neighbour k, below, between or above i and j: three times  *)
(* the same triangle in all.                                               *)
Triangle(i, j, k) == <<EdgeOf(i, j), EdgeOf(i, k), EdgeOf(j, k)>>

(* kernel_build_triangle_incidence: the column of B2 for a triangle.       *)
B2(t, e) == IF e = t[3] THEN -1 ELSE IF e \in {t[1], t[2]} THEN 1 ELSE 0

(* Row v of B1 times the column of t: what the boundary of the triangle's  *)
(* boundary leaves at node v.                                              *)
BoundaryAt(v, t) ==
    B1(v, t[1]) * B2(t, t[1]) + B1(v, t[2]) * B2(t, t[2]) + B1(v, t[3]) * B2(t, t[3])
=============================================================================
