------------------------------ MODULE Membership -----------------------------
(***************************************************************************)
(* What a node makes of the news about its cluster (MemberListener,         *)
(* NodeMgr): which members it takes for stable, when it asks for the first  *)
(* synchronisation, and which events it publishes about them.               *)
(*                                                                          *)
(* The cluster itself is external: a member comes up, is seen unreachable   *)
(* and reachable again by each node on its own, and is removed when it has  *)
(* stopped.  All members are candidates.                                    *)
(***************************************************************************)
EXTENDS Integers, FiniteSets

CONSTANTS
    Node,      \* the members, by their names
    Watcher,   \* the nodes whose listeners are looked at; the others come and go
    Enough,    \* ConsensusCondition.CheckWorkConditionOfSystem: stable nodes needed
    MaxStops,  \* bound, [Node -> Nat]: how often each node stops
    MaxLosses  \* bound: how often a member is seen unreachable

ASSUME MembershipAssumption ==
    /\ IsFiniteSet(Node) /\ Watcher \subseteq Node /\ Enough \in Nat \ {0}
    /\ MaxStops \in [Node -> Nat] /\ MaxLosses \in Nat

VARIABLES
    alive,   \* external: the nodes whose process runs
    joined,  \* external: the members with the status Up
    seen,    \* external: the members of whose coming up a node was told
    lost,    \* external: the members a node sees unreachable
    stops,   \* how often each node stopped
    losses,  \* how often a member was seen unreachable
    nodes,   \* NodeMgr.nodes of each node
    stable,  \* NodeMgr.stableNodes
    preload, \* MemberListener.preloadNodesMap: members that are not stable yet
    timers,  \* Recollection messages that are scheduled
    linked,  \* is schedulerLink one of them?
    asked,   \* MemberListener.isStartSynch
    sync,    \* is StartSync(true) on its way to the requester?
    begun,   \* did the requester take it?
    events   \* published to Topic.Event by any node, not delivered yet

clusterVars == <<alive, joined, seen, lost, stops, losses>>
listenerVars == <<nodes, stable, preload, timers, linked, asked, sync, begun>>
memberVars == <<clusterVars, listenerVars, events>>

Event(action, m) == [action |-> action, node |-> m]

MemberInit ==
    /\ alive = {} /\ joined = {}
    /\ seen = [n \in Watcher |-> {}] /\ lost = [n \in Watcher |-> {}]
    /\ stops = [n \in Node |-> 0] /\ losses = 0
    /\ nodes = [n \in Watcher |-> {}] /\ stable = [n \in Watcher |-> {}]
    /\ preload = [n \in Watcher |-> {}]
    /\ timers = [n \in Watcher |-> 0] /\ linked = [n \in Watcher |-> FALSE]
    /\ asked = [n \in Watcher |-> FALSE] /\ sync = [n \in Watcher |-> FALSE]
    /\ begun = [n \in Watcher |-> FALSE]
    /\ events = {}

\* Events of different nodes come in any order; nothing here needs the order of
\* those of one node.
Publish(action, m) == events' = events \cup {Event(action, m)}

-----------------------------------------------------------------------------
(* The cluster.                                                             *)

Appear(m) ==
    /\ m \notin Watcher \cup alive \cup joined
    /\ alive' = alive \cup {m}
    /\ UNCHANGED <<joined, seen, lost, stops, losses, listenerVars, events>>

Vanish(m) ==
    /\ m \in (joined \cap alive) \ Watcher /\ stops[m] < MaxStops[m]
    /\ alive' = alive \ {m}
    /\ stops' = [stops EXCEPT ![m] = @ + 1]
    /\ UNCHANGED <<joined, seen, lost, losses, listenerVars, events>>

\* CurrentClusterState: every member that is up is stable at once, also one that
\* is unreachable by now, for which no news will come.
Start(n) ==
    /\ n \notin alive /\ n \notin joined
    /\ alive' = alive \cup {n}
    /\ seen' = [seen EXCEPT ![n] = joined]
    /\ lost' = [lost EXCEPT ![n] = joined \ alive]
    /\ nodes' = [nodes EXCEPT ![n] = joined]
    /\ stable' = [stable EXCEPT ![n] = joined]
    /\ events' = events \cup {Event("up", m) : m \in joined}
    /\ UNCHANGED <<joined, stops, losses, preload, timers, linked, asked, sync, begun>>

Join(n) ==
    /\ n \in alive \ joined
    /\ joined' = joined \cup {n}
    /\ UNCHANGED <<alive, seen, lost, stops, losses, listenerVars, events>>

\* A process stops with everything it has in memory.
Stop(n) ==
    /\ n \in joined /\ n \in alive /\ stops[n] < MaxStops[n]
    /\ alive' = alive \ {n}
    /\ stops' = [stops EXCEPT ![n] = @ + 1]
    /\ seen' = [seen EXCEPT ![n] = {}]
    /\ lost' = [lost EXCEPT ![n] = {}]
    /\ nodes' = [nodes EXCEPT ![n] = {}]
    /\ stable' = [stable EXCEPT ![n] = {}]
    /\ preload' = [preload EXCEPT ![n] = {}]
    /\ timers' = [timers EXCEPT ![n] = 0]
    /\ linked' = [linked EXCEPT ![n] = FALSE]
    /\ asked' = [asked EXCEPT ![n] = FALSE]
    /\ sync' = [sync EXCEPT ![n] = FALSE]
    /\ begun' = [begun EXCEPT ![n] = FALSE]
    /\ UNCHANGED <<joined, losses, events>>

\* A member that stopped is taken out of the cluster.
Remove(m) ==
    /\ m \in joined \ alive
    /\ joined' = joined \ {m}
    /\ UNCHANGED <<alive, seen, lost, stops, losses, listenerVars, events>>

-----------------------------------------------------------------------------
(* The listener.                                                            *)

\* MemberUp: the member waits in preload, and another timer is set.
MemberUp(n, m) ==
    /\ n \in alive /\ m \in joined \ seen[n]
    /\ seen' = [seen EXCEPT ![n] = @ \cup {m}]
    /\ nodes' = [nodes EXCEPT ![n] = @ \cup {m}]
    /\ preload' = [preload EXCEPT ![n] = @ \cup {m}]
    /\ timers' = [timers EXCEPT ![n] = @ + 1]
    /\ linked' = [linked EXCEPT ![n] = TRUE]
    /\ Publish("up", m)
    /\ UNCHANGED <<alive, joined, lost, stops, losses, stable, asked, sync, begun>>

\* The first synchronisation is asked for once, if enough nodes are stable.
AskForSync(n) ==
    LET ask == ~asked[n] /\ Cardinality(stable'[n]) >= Enough IN
    /\ asked' = [asked EXCEPT ![n] = @ \/ ask]
    /\ sync' = [sync EXCEPT ![n] = @ \/ ask]

\* Mutant: the timer is not set again for those who are not stable yet.
Recollection_Once(n, old) ==
    \E cancelled \in {c \in {0, 1} : c = 1 => linked[n] /\ timers[n] > 1} :
        /\ timers[n] > 0
        /\ stable' = [stable EXCEPT ![n] = @ \cup old]
        /\ preload' = [preload EXCEPT ![n] = @ \ stable'[n]]
        /\ linked' = [linked EXCEPT ![n] = FALSE]
        /\ timers' = [timers EXCEPT ![n] = @ - 1 - cancelled]
        /\ AskForSync(n)
        /\ UNCHANGED <<clusterVars, nodes, begun, events>>

\* Recollection: a timer rings, and the latest one is cancelled, be it another.
\* Members that are old enough become stable; with others left, a timer is set.
Recollection(n, old) ==
    \E cancelled \in {c \in {0, 1} : c = 1 => linked[n] /\ timers[n] > 1} :
        /\ timers[n] > 0
        /\ stable' = [stable EXCEPT ![n] = @ \cup old]
        /\ preload' = [preload EXCEPT ![n] = @ \ stable'[n]]
        /\ linked' = [linked EXCEPT ![n] = preload'[n] # {}]
        /\ timers' = [timers EXCEPT ![n] =
                        @ - 1 - cancelled + (IF preload'[n] # {} THEN 1 ELSE 0)]
        /\ AskForSync(n)
        /\ UNCHANGED <<clusterVars, nodes, begun, events>>

\* Mutant: a member that is not stable yet goes on waiting.
Forget_KeepsPreload(n, m) ==
    /\ nodes' = [nodes EXCEPT ![n] = @ \ {m}]
    /\ stable' = [stable EXCEPT ![n] = @ \ {m}]
    /\ Publish("down", m)
    /\ UNCHANGED <<alive, joined, stops, preload, timers, linked, asked, sync, begun>>

\* What MemberRemoved and UnreachableMember do alike.
Forget(n, m) ==
    /\ nodes' = [nodes EXCEPT ![n] = @ \ {m}]
    /\ stable' = [stable EXCEPT ![n] = @ \ {m}]
    /\ preload' = [preload EXCEPT ![n] = @ \ {m}]
    /\ Publish("down", m)
    /\ UNCHANGED <<alive, joined, stops, timers, linked, asked, sync, begun>>

UnreachableMember(n, m) ==
    /\ n \in alive /\ m \in seen[n] \ (lost[n] \cup {n})
    /\ m \in alive => losses < MaxLosses
    /\ losses' = IF m \in alive THEN losses + 1 ELSE losses
    /\ lost' = [lost EXCEPT ![n] = @ \cup {m}]
    /\ Forget(n, m)
    /\ UNCHANGED seen

MemberRemoved(n, m) ==
    /\ n \in alive /\ m \in seen[n] \ joined
    /\ seen' = [seen EXCEPT ![n] = @ \ {m}]
    /\ lost' = [lost EXCEPT ![n] = @ \ {m}]
    /\ Forget(n, m)
    /\ UNCHANGED losses

\* ReachableMember: the member is stable again at once.
ReachableMember(n, m) ==
    /\ n \in alive /\ m \in lost[n] \cap joined \cap alive
    /\ lost' = [lost EXCEPT ![n] = @ \ {m}]
    /\ nodes' = [nodes EXCEPT ![n] = @ \cup {m}]
    /\ stable' = [stable EXCEPT ![n] = @ \cup {m}]
    /\ AskForSync(n)
    /\ Publish("up", m)
    /\ UNCHANGED <<alive, joined, seen, stops, losses, preload, timers, linked, begun>>

\* SynchRequesterOfCFRD.receive: the message is dropped if a node has gone again.
StartSync(n) ==
    /\ sync[n]
    /\ sync' = [sync EXCEPT ![n] = FALSE]
    /\ begun' = [begun EXCEPT ![n] = Cardinality(stable[n]) >= Enough]
    /\ UNCHANGED <<clusterVars, nodes, stable, preload, timers, linked, asked, events>>

\* A blocker starts to pack a block (BlockerOfCFRD.receive).
Candidator(n) ==
    /\ begun[n]
    /\ Publish("blocker", n)
    /\ UNCHANGED <<clusterVars, listenerVars>>

-----------------------------------------------------------------------------
News(n, m) == \/ MemberUp(n, m) \/ UnreachableMember(n, m) \/ MemberRemoved(n, m)
              \/ ReachableMember(n, m)

MemberNext ==
    \/ \E m \in Node : Appear(m) \/ Vanish(m) \/ Join(m) \/ Remove(m)
    \/ \E n \in Watcher : Start(n) \/ Stop(n) \/ StartSync(n) \/ Candidator(n)
    \/ \E n \in Watcher, m \in Node : News(n, m)
    \/ \E n \in Watcher : \E old \in SUBSET preload[n] : Recollection(n, old)

-----------------------------------------------------------------------------
(* Properties.                                                              *)

\* Every variable has its type; a member waits or is stable only as long as the
\* listener takes it for a member, only those a node was told of are lost to it, and
\* who is lost does not wait for becoming stable.
MemberTypeOK ==
    /\ alive \subseteq Node /\ joined \subseteq Node
    /\ seen \in [Watcher -> SUBSET Node] /\ lost \in [Watcher -> SUBSET Node]
    /\ stops \in [Node -> Nat] /\ losses \in 0 .. MaxLosses
    /\ nodes \in [Watcher -> SUBSET Node]
    /\ stable \in [Watcher -> SUBSET Node] /\ preload \in [Watcher -> SUBSET Node]
    /\ \A n \in Watcher : /\ preload[n] \subseteq nodes[n] /\ stable[n] \subseteq nodes[n]
                          /\ lost[n] \subseteq seen[n] /\ preload[n] \cap lost[n] = {}
                          /\ n \notin alive => preload[n] = {}
    /\ timers \in [Watcher -> Nat] /\ linked \in [Watcher -> BOOLEAN]
    /\ asked \in [Watcher -> BOOLEAN] /\ sync \in [Watcher -> BOOLEAN]
    /\ begun \in [Watcher -> BOOLEAN]
    /\ events \subseteq [action : {"up", "down", "blocker"}, node : Node]

\* No timer, however old, makes a node stable that is seen unreachable
\* (MemberListener, UnreachableMember and Recollection).
LostIsNotStable ==
    [][\A n \in alive \cap Watcher : (stable'[n] \ stable[n]) \cap lost'[n] = {}]_memberVars

\* Stable nodes are reachable.  It fails after a start beside a member that has
\* stopped and is not removed: the snapshot makes it stable (CurrentClusterState).
StableIsReachable == \A n \in Watcher : stable[n] \cap lost[n] = {}

\* Whoever stays up becomes stable in the end, although each timer cancels the
\* latest one, and the first synchronisation is asked for once enough nodes are
\* stable (MemberListener, Recollection).
MembersBecomeStable ==
    []<>(\A n \in alive \cap Watcher :
            /\ joined \cap seen[n] \subseteq stable[n] \cup lost[n]
            /\ Cardinality(stable[n]) >= Enough => asked[n])

\* ... and it begins.  It fails: the request is dropped when a node has gone again
\* by then, and isStartSynch keeps it from being repeated.
SyncBegins == []<>(\A n \in alive \cap Watcher : Cardinality(stable[n]) >= Enough => begun[n])
=============================================================================
