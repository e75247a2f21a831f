---------------------------- MODULE MCClusterRun ----------------------------
(* Two runs of the binary on one cluster, and the wait of the preload, for *)
(* TLC; ClusterRun.cfg gives the constants.  The two parts have no state   *)
(* in common: a behaviour is one of either, not of their product.          *)
EXTENDS ClusterRun, ImagePreload

VARIABLE part       \* "run" or "preload"

MCInit ==
    /\ Init /\ PreloadInit
    /\ \/ part = "preload"
       \/ part = "run" /\ \A n \in Nodes : ~node[n].up

MCNext ==
    /\ UNCHANGED part
    /\ \/ part = "run" /\ Next /\ UNCHANGED preloadVars
       \/ part = "preload" /\ PreloadNext /\ UNCHANGED vars

MCSpec == MCInit /\ [][MCNext]_<<vars, preloadVars, part>> /\ Fairness
=============================================================================
