SPECIFICATION Spec
CONSTANTS
    Topologies <- MCTopologies
    k_signal_history_len = 2
    k_cluster_window = 2
    k_cluster_refit_every = 1
    k_signal_router_top_k = 2
    active_threshold = 2
    MaxTicks = 3
INVARIANTS
    TypeOK
    PublishedIntact
    ClusterWindowExact
    SignalIntact
    RoutesGreedily
    LegsHedged
PROPERTIES
    SignalsNoticed
