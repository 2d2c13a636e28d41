---------------------------- MODULE MCSignalPath ----------------------------
(***************************************************************************)
(* SignalPath with a history of two slots and three ticks, so that the     *)
(* main loop can be lapped; topologies of two and one edges over four      *)
(* instruments, with edges that are disjoint, that share an instrument and *)
(* that are too weak, one below the action threshold and one without edges.*)
(***************************************************************************)
EXTENDS SignalPath

E(s, d, f) == [src |-> s, dst |-> d, flow |-> f]

MCTopologies ==
    { [edges |-> <<E(0, 1, 2), E(2, 3, -3)>>, action |-> 2],
      [edges |-> <<E(1, 2, 3), E(2, 3, 2)>>, action |-> 3],
      [edges |-> <<E(1, 2, 1)>>, action |-> 2],
      [edges |-> <<E(0, 1, 2)>>, action |-> 1],
      [edges |-> <<>>, action |-> 0] }
=============================================================================
