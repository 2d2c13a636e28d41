------------------------------ MODULE OrderMap ------------------------------
(***************************************************************************)
(* What OMSCore (engine/net/oms_core.hpp) promises its callers: a map from *)
(* order keys to order records, with an overwriting insert, an update that *)
(* ignores unknown keys, and a removal.  The execution engine's model uses *)
(* the OMS through this map; OmsCore is shown to implement it.             *)
(***************************************************************************)
EXTENDS OrderRecords

CONSTANTS Keys,      \* order keys (FNV-1a hashes of client order ids)
          Tickets,    \* the orders callers place
          Reports     \* the execution reports that may arrive

VARIABLE orders      \* a function from the tracked keys to their records

MapInit == orders = Empty

RegisterOrder(k, t) ==
    orders' = Put(orders, k, NewOrder(t))

UpdateOrder(k, r) ==
    /\ k \in DOMAIN orders
    /\ orders' = Put(orders, k, Applied(orders[k], r))

ReleaseOrder(k) ==
    /\ k \in DOMAIN orders
    /\ orders' = Drop(orders, k)

MapNext ==
    \E k \in Keys :
        \/ \E t \in Tickets : RegisterOrder(k, t)
        \/ \E r \in Reports : UpdateOrder(k, r)
        \/ ReleaseOrder(k)

MapSpec == MapInit /\ [][MapNext]_orders
=============================================================================
