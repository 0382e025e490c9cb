------------------------------ MODULE EventPage ------------------------------
(***************************************************************************)
(* The page that draws the network (g1.html, rep_graph.js), and how events  *)
(* reach it: the nodes of Membership publish them, the server's             *)
(* RecvEventActor hands them to a stage for each socket, and the stage      *)
(* pushes an event or loses it (EventActor4Stage).                          *)
(*                                                                          *)
(* The page keeps the fixed nodes, RepChain first and the four topics after *)
(* it, in front of the members: they have the numbers 0 to 4 here.          *)
(***************************************************************************)
EXTENDS Membership

CONSTANTS
    Server,  \* the node whose socket the page is connected to
    Nobody,  \* no node
    MaxGone  \* bound: fixed nodes the page may lose

ASSUME PageAssumption == Server \in Node /\ Nobody \notin Node /\ MaxGone \in 0 .. 4

VARIABLES
    open,    \* is the socket open?
    gone,    \* the fixed nodes taken out of the page, from the front
    drawn,   \* the members in the page
    links,   \* their links to the fixed nodes
    count,   \* graph.cout_nodes
    blocker, \* graph.blocker
    broker,  \* the member of the class node_circle_broker
    green    \* the members drawn in lawngreen

pageVars == <<open, gone, drawn, links, count, blocker, broker, green>>
vars == <<memberVars, pageVars>>

Fixed == 0 .. 4

Init ==
    /\ MemberInit
    /\ open = FALSE /\ gone = 0 /\ drawn = {} /\ links = {} /\ count = 0
    /\ blocker = Nobody /\ broker = Nobody /\ green = {}

-----------------------------------------------------------------------------
(* rep_graph.js.                                                            *)

\* addLink to the first node there is, addDLink and addSLink to the topics.
LinksOf(m) == {m} \X ({gone} \cup ((Fixed \ {0}) \cap (gone .. 4)))

\* addNode and the links; the blocker's colour is set, but not its class.
AddNode(m) ==
    /\ drawn' = drawn \cup {m}
    /\ links' = links \cup LinksOf(m)
    /\ count' = count + 1
    /\ green' = green \cup ({m} \cap {blocker})
    /\ UNCHANGED <<gone, blocker, broker>>

\* Mutant: a node that comes up a second time is drawn a second time.
OnAddNode_Again(m) == AddNode(m)

OnAddNode(m) ==
    \/ m \notin drawn /\ AddNode(m)
    \/ m \in drawn /\ UNCHANGED <<gone, drawn, links, count, blocker, broker, green>>

\* removeNode.  Of an id that is not drawn no link is found, and the index is
\* undefined: splice then takes the first node.
RemoveNode(m) ==
    /\ count' = count - 1
    /\ UNCHANGED blocker
    /\ \/ /\ m \in drawn
          /\ drawn' = drawn \ {m}
          /\ links' = {l \in links : l[1] # m}
          /\ green' = green \ {m}
          /\ broker' = IF broker = m THEN Nobody ELSE broker
          /\ UNCHANGED gone
       \/ /\ m \notin drawn /\ gone < MaxGone
          /\ gone' = gone + 1
          /\ UNCHANGED <<drawn, links, broker, green>>

\* Mutant: it is not asked whether the blocker is drawn.
SetBlocker_Undrawn(m) ==
    /\ blocker' = m
    /\ green' = (green \ {broker}) \cup {m}
    /\ broker' = m
    /\ UNCHANGED <<gone, drawn, links, count>>

\* setBlocker: the node of the class gets its colour back, the new one gets both.
SetBlocker(m) ==
    /\ blocker' = m
    /\ green' = (green \ {broker}) \cup ({m} \cap drawn)
    /\ broker' = IF m \in drawn THEN m ELSE Nobody
    /\ UNCHANGED <<gone, drawn, links, count>>

-----------------------------------------------------------------------------
(* g1.html and the event server.                                            *)

\* connect and buildWS draw the page anew and open the socket.  Register sends
\* it the members that are up and the blocker; any of these may get lost.
Connect ==
    /\ ~open /\ Server \in alive
    /\ open' = TRUE /\ gone' = 0
    /\ \E S \in SUBSET joined, b \in Node \cup {Nobody} :
         /\ drawn' = S
         /\ links' = S \X Fixed
         /\ count' = Cardinality(S)
         /\ blocker' = b
         /\ green' = S \cap {b}
         /\ broker' = IF b \in S THEN b ELSE Nobody
    /\ UNCHANGED memberVars

\* The socket closes: the page is reset, and tries again every five seconds.
Close ==
    /\ open
    /\ open' = FALSE /\ gone' = 0 /\ drawn' = {} /\ links' = {} /\ count' = 0
    /\ blocker' = Nobody /\ broker' = Nobody /\ green' = {}
    /\ UNCHANGED memberVars

\* onmessage.
OnMessage(e) ==
    \/ e.action = "up" /\ OnAddNode(e.node)
    \/ e.action = "down" /\ RemoveNode(e.node)
    \/ e.action = "blocker" /\ SetBlocker(e.node)

\* An event reaches the server.  The stage pushes it if the outlet is available.
Deliver(e) ==
    /\ e \in events
    /\ events' = events \ {e}
    /\ \/ open /\ Server \in alive /\ OnMessage(e) /\ UNCHANGED open
       \/ UNCHANGED pageVars
    /\ UNCHANGED <<clusterVars, listenerVars>>

Next ==
    \/ MemberNext /\ UNCHANGED pageVars
    \/ Connect \/ Close
    \/ \E e \in events : Deliver(e)

Spec == Init /\ [][Next]_vars

\* The cluster tells its news, timers ring, and in the end they find everybody
\* old enough.  Who is started joins.
Fairness ==
    /\ \A n \in Watcher : WF_memberVars(Join(n)) /\ WF_memberVars(Recollection(n, preload[n]))
    /\ \A n \in Watcher, m \in Node : WF_memberVars(MemberUp(n, m) \/ MemberRemoved(n, m))

FairSpec == Spec /\ Fairness

-----------------------------------------------------------------------------
(* Properties.                                                              *)

\* Every variable has its type, those of the members too; what is green or of
\* the blocker's class is drawn.
TypeOK ==
    /\ MemberTypeOK
    /\ open \in BOOLEAN /\ gone \in 0 .. MaxGone /\ drawn \subseteq Node
    /\ links \subseteq Node \X Fixed /\ count \in Int
    /\ blocker \in Node \cup {Nobody} /\ broker \in drawn \cup {Nobody} /\ green \subseteq drawn

\* The blocker is green, also when its message comes before its node (the comments
\* in addNode and setBlocker), and as long as nobody who is not drawn is taken out,
\* the number in the centre is that of the members drawn, each with its links,
\* however often the nodes tell the same news and whatever gets lost (onAddNode,
\* removeNode).
PageMatches ==
    /\ blocker \in drawn => blocker \in green
    /\ gone = 0 => (count = Cardinality(drawn) /\ links = drawn \X Fixed)

\* No other member is green.  It fails: a blocker that was drawn late keeps its
\* colour when the next one is set.
OnlyBlockerIsGreen == green \subseteq {blocker}

\* The page keeps its centre and its topics.  It fails: a member is seen
\* unreachable and then removed, by every node, and only the first is known.
FixedNodesStay == gone = 0
=============================================================================
