--------------------------- MODULE ImagePreload -----------------------------
(***************************************************************************)
(* PreloadImages: a DaemonSet pulls the images, and main waits until as    *)
(* many nodes report them as the DaemonSet should run on.                  *)
(*                                                                         *)
(*   pkg/imagepreload/imagepreload.go   PreloadImages, checkNode           *)
(*   runtimeobjects/replicaswatcher.go  NodeCounter                        *)
(*                                                                         *)
(* Two node informers, each with a store of its own, deliver the same      *)
(* changes independently: one maintains the set doneNodes, the other the   *)
(* number of nodes that should run the DaemonSet.  Main reads the number   *)
(* and the size of the set under two different locks.  The set holds every *)
(* node that reports the images, the number only nodes without a taint.    *)
(***************************************************************************)
EXTENDS Integers, FiniteSets

CONSTANT Nodes      \* names of nodes the cluster may have

ASSUME PreloadAssumption == IsFiniteSet(Nodes)

(* A Node object.  The manifest of the DaemonSet has no node selector, no  *)
(* affinity and no toleration: of NodeCounter's conditions only the taint  *)
(* remains.                                                                *)
NodeStates == { o \in [up : BOOLEAN, tainted : BOOLEAN, images : BOOLEAN] :
                   o.tainted \/ o.images => o.up }

VARIABLES
    step,           \* main: where PreloadImages is
    size,           \* clusterSize of the current poll
    node,           \* the Node objects of the cluster
    listed,         \* the store of the informer of PreloadImages
    doneNodes,
    watched,        \* the store of NodeCounter's informer
    replicas,       \* NodeCounter.replicas
    steady          \* history: see ReadSize

preloadVars == <<step, size, node, listed, doneNodes, watched, replicas, steady>>

ShouldRun(o) == o.up /\ ~o.tainted
Expected(ns) == { n \in Nodes : ShouldRun(ns[n]) }

PreloadInit ==
    /\ step = "start" /\ size = 0 /\ steady = FALSE
    /\ node \in [Nodes -> NodeStates]
    /\ listed = node /\ watched = node
    /\ doneNodes = {} /\ replicas = 0

(* StartAndSync of the informer that feeds checkNode.                      *)
StartInformer ==
    /\ step = "start"
    /\ step' = "daemonset"
    /\ listed' = node
    /\ doneNodes' = { n \in Nodes : node[n].images }
    /\ UNCHANGED <<size, node, watched, replicas, steady>>

(* Namespace and DaemonSet are made, and NodeCounter starts and syncs.     *)
StartCounter ==
    /\ step = "daemonset"
    /\ step' = "polling"
    /\ watched' = node
    /\ replicas' = Cardinality(Expected(node))
    /\ UNCHANGED <<size, node, listed, doneNodes, steady>>

(* A set-up call fails or the poll times out.                              *)
PreloadFails ==
    /\ step \in {"start", "daemonset", "polling"}
    /\ step' = "failed"
    /\ UNCHANGED <<size, node, listed, doneNodes, watched, replicas, steady>>

(* A store that lacks nothing but news of images.                          *)
UpToDate(store) ==
    \A n \in Nodes : node[n] \in {store[n], [store[n] EXCEPT !.images = TRUE]}

(* The first half of a poll.  steady: both informers have delivered every  *)
(* join, departure and change of taints, and no tainted node has the       *)
(* images, now and until the second half.                                  *)
ReadSize ==
    /\ step = "polling"
    /\ step' = "counting"
    /\ size' = replicas
    /\ steady' = /\ UpToDate(listed) /\ UpToDate(watched)
                 /\ \A n \in Nodes : ~(node[n].tainted /\ node[n].images)
    /\ UNCHANGED <<node, listed, doneNodes, watched, replicas>>

ReadDone ==
    /\ step = "counting"
    /\ step' = IF Cardinality(doneNodes) = size THEN "loaded" ELSE "polling"
    /\ UNCHANGED <<size, node, listed, doneNodes, watched, replicas, steady>>

-----------------------------------------------------------------------------
Waiting == step \in {"daemonset", "polling", "counting"}

(* Mutant: a node that loses the images, or its place, stays in the set.   *)
CheckNodeOnlyAdds(n) ==
    /\ Waiting /\ listed[n] # node[n]
    /\ listed' = [listed EXCEPT ![n] = node[n]]
    /\ doneNodes' = IF node[n].images THEN doneNodes \cup {n} ELSE doneNodes
    /\ UNCHANGED <<step, size, node, watched, replicas, steady>>

(* The informer of PreloadImages delivers what is new of a node.           *)
CheckNode(n) ==
    /\ Waiting /\ listed[n] # node[n]
    /\ listed' = [listed EXCEPT ![n] = node[n]]
    /\ doneNodes' = IF node[n].images THEN doneNodes \cup {n} ELSE doneNodes \ {n}
    /\ UNCHANGED <<step, size, node, watched, replicas, steady>>

(* NodeCounter's informer delivers it: handleObject compares the object    *)
(* with the one before.                                                    *)
HandleObject(n) ==
    /\ Waiting /\ step # "daemonset" /\ watched[n] # node[n]
    /\ watched' = [watched EXCEPT ![n] = node[n]]
    /\ replicas' = IF ShouldRun(node[n]) = ShouldRun(watched[n]) THEN replicas
                   ELSE IF ShouldRun(node[n]) THEN replicas + 1 ELSE replicas - 1
    /\ UNCHANGED <<step, size, node, listed, doneNodes, steady>>

(* A node joins, leaves, changes its taints, gets the images or loses them.*)
NodeChanges(n) ==
    /\ step = "start" \/ Waiting
    /\ \E o \in NodeStates \ {node[n]} :
          /\ node' = [node EXCEPT ![n] = o]
          /\ steady' = (steady /\ o = [node[n] EXCEPT !.images = TRUE] /\ ~o.tainted)
    /\ UNCHANGED <<step, size, listed, doneNodes, watched, replicas>>

PreloadNext ==
    \/ StartInformer \/ StartCounter \/ PreloadFails \/ ReadSize \/ ReadDone
    \/ \E n \in Nodes : CheckNode(n) \/ HandleObject(n) \/ NodeChanges(n)

PreloadSpec == PreloadInit /\ [][PreloadNext]_preloadVars

-----------------------------------------------------------------------------
PreloadTypeOK ==
    /\ step \in {"start", "daemonset", "polling", "counting", "loaded", "failed"}
    /\ size \in 0 .. Cardinality(Nodes) /\ replicas \in 0 .. Cardinality(Nodes)
    /\ node \in [Nodes -> NodeStates]
    /\ listed \in [Nodes -> NodeStates] /\ watched \in [Nodes -> NodeStates]
    /\ doneNodes \subseteq Nodes
    /\ steady \in BOOLEAN

(* The wait for the images ends with every node the DaemonSet should run   *)
(* on having them, whatever joined, left, was tainted or pulled before the *)
(* last poll, as long as both informers had delivered that when the poll   *)
(* began, and no tainted node has the images.  (Counts are compared: a     *)
(* tainted node with the images, or a node one informer has yet to learn   *)
(* of, stands in for a node without them.)                                 *)
PreloadedNodes ==
    step = "loaded" /\ steady => \A n \in Expected(node) : node[n].images
=============================================================================
