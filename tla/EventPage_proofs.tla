-------------------------- MODULE EventPage_proofs --------------------------
(***************************************************************************)
(* Proofs about Membership and the page that EventPage composes with it,    *)
(* for every set of members and every number of stops and losses.           *)
(***************************************************************************)
EXTENDS EventPage, FiniteSetTheorems, TLAPS

\* What an event is.
Events == [action : {"up", "down", "blocker"}, node : Node]

LEMMA EventType == \A a \in {"up", "down", "blocker"}, m \in Node : Event(a, m) \in Events
  BY DEF Event, Events

-----------------------------------------------------------------------------
(* The members.                                                             *)

LEMMA MemberInitType == MemberInit => MemberTypeOK
  BY MembershipAssumption DEF MemberInit, MemberTypeOK

\* Processes that start and stop.
LEMMA ClusterType ==
  ASSUME MemberTypeOK, NEW m \in Node, Appear(m) \/ Vanish(m) \/ Join(m) \/ Remove(m)
  PROVE  MemberTypeOK'
<1>1. CASE Appear(m)
  BY <1>1 DEF Appear, MemberTypeOK, listenerVars
<1>2. CASE Vanish(m)
  BY <1>2 DEF Vanish, MemberTypeOK, listenerVars
<1>3. CASE Join(m)
  BY <1>3 DEF Join, MemberTypeOK, listenerVars
<1>4. CASE Remove(m)
  BY <1>4 DEF Remove, MemberTypeOK, listenerVars
<1> QED
  BY <1>1, <1>2, <1>3, <1>4

LEMMA WatcherType ==
  ASSUME MemberTypeOK, NEW n \in Watcher, Start(n) \/ Stop(n) \/ StartSync(n) \/ Candidator(n)
  PROVE  MemberTypeOK'
<1> n \in Node
  BY MembershipAssumption
<1>1. CASE Start(n)
  <2>1. events' \subseteq Events
    BY <1>1, EventType DEF Start, MemberTypeOK, Events
  <2> QED
    BY <1>1, <2>1 DEF Start, MemberTypeOK, Events
<1>2. CASE Stop(n)
  BY <1>2 DEF Stop, MemberTypeOK
<1>3. CASE StartSync(n)
  BY <1>3 DEF StartSync, MemberTypeOK, clusterVars
<1>4. CASE Candidator(n)
  <2>1. events' \subseteq Events
    BY <1>4, EventType DEF Candidator, Publish, MemberTypeOK, Events
  <2> QED
    BY <1>4, <2>1 DEF Candidator, MemberTypeOK, Events, clusterVars, listenerVars
<1> QED
  BY <1>1, <1>2, <1>3, <1>4

\* What is asked of the requester is asked or not.
LEMMA AskType ==
  ASSUME MemberTypeOK, NEW n \in Watcher, AskForSync(n)
  PROVE  asked' \in [Watcher -> BOOLEAN] /\ sync' \in [Watcher -> BOOLEAN]
BY DEF AskForSync, MemberTypeOK

\* The news a listener gets.
LEMMA NewsType ==
  ASSUME MemberTypeOK, NEW n \in Watcher, NEW m \in Node, News(n, m)
  PROVE  MemberTypeOK'
<1>1. CASE MemberUp(n, m)
  <2>1. events' \subseteq Events
    BY <1>1, EventType DEF MemberUp, Publish, MemberTypeOK, Events
  <2> QED
    BY <1>1, <2>1 DEF MemberUp, MemberTypeOK, Events
<1>2. CASE UnreachableMember(n, m)
  <2>1. events' \subseteq Events
    BY <1>2, EventType DEF UnreachableMember, Forget, Publish, MemberTypeOK, Events
  <2>2. losses' \in 0 .. MaxLosses
    BY <1>2, MembershipAssumption DEF UnreachableMember, MemberTypeOK
  <2> QED
    BY <1>2, <2>1, <2>2 DEF UnreachableMember, Forget, MemberTypeOK, Events
<1>3. CASE MemberRemoved(n, m)
  <2>1. events' \subseteq Events
    BY <1>3, EventType DEF MemberRemoved, Forget, Publish, MemberTypeOK, Events
  <2> QED
    BY <1>3, <2>1 DEF MemberRemoved, Forget, MemberTypeOK, Events
<1>4. CASE ReachableMember(n, m)
  <2>1. events' \subseteq Events
    BY <1>4, EventType DEF ReachableMember, Publish, MemberTypeOK, Events
  <2>2. asked' \in [Watcher -> BOOLEAN] /\ sync' \in [Watcher -> BOOLEAN]
    BY <1>4, AskType DEF ReachableMember
  <2>3. /\ n \in alive /\ m \in lost[n]
        /\ lost' = [lost EXCEPT ![n] = @ \ {m}]
        /\ nodes' = [nodes EXCEPT ![n] = @ \cup {m}]
        /\ stable' = [stable EXCEPT ![n] = @ \cup {m}]
        /\ UNCHANGED <<alive, joined, seen, stops, losses, preload, timers, linked, begun>>
    BY <1>4 DEF ReachableMember
  <2>4. /\ lost' \in [Watcher -> SUBSET Node] /\ nodes' \in [Watcher -> SUBSET Node]
        /\ stable' \in [Watcher -> SUBSET Node]
    BY <2>3 DEF MemberTypeOK
  <2>5. \A w \in Watcher : /\ preload'[w] \subseteq nodes'[w] /\ stable'[w] \subseteq nodes'[w]
                          /\ lost'[w] \subseteq seen'[w] /\ preload'[w] \cap lost'[w] = {}
                          /\ w \notin alive' => preload'[w] = {}
    BY <2>3 DEF MemberTypeOK
  <2> QED
    BY <2>1, <2>2, <2>3, <2>4, <2>5 DEF MemberTypeOK, Events
<1> QED
  BY <1>1, <1>2, <1>3, <1>4 DEF News

\* A timer that rings.
LEMMA RecollectionType ==
  ASSUME MemberTypeOK, NEW n \in Watcher, NEW old \in SUBSET preload[n], Recollection(n, old)
  PROVE  MemberTypeOK'
<1>1. PICK cancelled \in {c \in {0, 1} : c = 1 => linked[n] /\ timers[n] > 1} :
        /\ timers[n] > 0
        /\ timers' = [timers EXCEPT ![n] =
                        @ - 1 - cancelled + (IF preload'[n] # {} THEN 1 ELSE 0)]
  BY DEF Recollection
<1>2. timers' \in [Watcher -> Nat]
  BY <1>1 DEF MemberTypeOK
<1>3. asked' \in [Watcher -> BOOLEAN] /\ sync' \in [Watcher -> BOOLEAN]
  BY AskType DEF Recollection
<1>4. /\ stable' = [stable EXCEPT ![n] = @ \cup old]
      /\ preload' = [preload EXCEPT ![n] = @ \ stable'[n]]
      /\ linked' = [linked EXCEPT ![n] = preload'[n] # {}]
      /\ UNCHANGED <<clusterVars, nodes, begun, events>>
  BY DEF Recollection
<1> QED
  BY <1>2, <1>3, <1>4 DEF MemberTypeOK, clusterVars

LEMMA MemberStepType == MemberTypeOK /\ MemberNext => MemberTypeOK'
<1> SUFFICES ASSUME MemberTypeOK, MemberNext PROVE MemberTypeOK'
  OBVIOUS
<1> QED
  BY ClusterType, WatcherType, NewsType, RecollectionType DEF MemberNext

-----------------------------------------------------------------------------
(* The page.                                                                *)

LEMMA NoneGone == 0 \in 0 .. MaxGone
  BY PageAssumption

LEMMA InitType == Init => TypeOK
<1> SUFFICES ASSUME Init PROVE TypeOK
  OBVIOUS
<1>1. MemberTypeOK
  BY MemberInitType DEF Init
<1>2. links \subseteq Node \X Fixed /\ drawn \subseteq Node /\ green \subseteq drawn
  BY DEF Init
<1>3. open \in BOOLEAN
  BY DEF Init
<1>4. gone \in 0 .. MaxGone /\ count \in Int
  BY NoneGone DEF Init
<1>5. blocker \in Node \cup {Nobody} /\ broker \in drawn \cup {Nobody}
  BY DEF Init
<1> QED
  BY <1>1, <1>2, <1>3, <1>4, <1>5 DEF TypeOK

LEMMA LinkType ==
  ASSUME TypeOK, NEW m \in Node PROVE LinksOf(m) \subseteq Node \X Fixed
  BY PageAssumption DEF TypeOK, LinksOf, Fixed

\* A message keeps the types, whichever member it is about.
LEMMA MessageType ==
  ASSUME TypeOK, NEW m \in Node, OnAddNode(m) \/ RemoveNode(m) \/ SetBlocker(m)
  PROVE  /\ gone' \in 0 .. MaxGone /\ drawn' \subseteq Node /\ links' \subseteq Node \X Fixed
         /\ count' \in Int /\ blocker' \in Node \cup {Nobody}
         /\ broker' \in drawn' \cup {Nobody} /\ green' \subseteq drawn'
<1>1. CASE OnAddNode(m)
  BY <1>1, LinkType DEF OnAddNode, AddNode, TypeOK
<1>2. CASE RemoveNode(m)
  BY <1>2, PageAssumption DEF RemoveNode, TypeOK
<1>3. CASE SetBlocker(m)
  BY <1>3 DEF SetBlocker, TypeOK
<1> QED
  BY <1>1, <1>2, <1>3

LEMMA StepType == TypeOK /\ [Next]_vars => TypeOK'
<1> SUFFICES ASSUME TypeOK, [Next]_vars PROVE TypeOK'
  OBVIOUS
<1> MemberTypeOK
  BY DEF TypeOK
<1>1. CASE MemberNext /\ UNCHANGED pageVars
  BY <1>1, MemberStepType DEF TypeOK, pageVars
<1>2. CASE Connect
  <2>1. MemberTypeOK'
    BY <1>2 DEF Connect, memberVars, clusterVars, listenerVars, MemberTypeOK
  <2>2. PICK S \in SUBSET joined, b \in Node \cup {Nobody} :
          /\ drawn' = S /\ links' = S \X Fixed /\ count' = Cardinality(S)
          /\ blocker' = b /\ green' = S \cap {b}
          /\ broker' = IF b \in S THEN b ELSE Nobody
    BY <1>2 DEF Connect
  <2>3. S \subseteq Node /\ Cardinality(S) \in Int
    BY MembershipAssumption, FS_Subset, FS_CardinalityType DEF MemberTypeOK
  <2>4. QED
    <3>1. links' \subseteq Node \X Fixed
      BY <2>2, <2>3
    <3>2. broker' \in drawn' \cup {Nobody} /\ green' \subseteq drawn'
      BY <2>2
    <3> QED
      BY <1>2, <2>1, <2>2, <2>3, <3>1, <3>2, NoneGone DEF Connect, TypeOK
<1>3. CASE Close
  <2>1. MemberTypeOK'
    BY <1>3 DEF Close, memberVars, clusterVars, listenerVars, MemberTypeOK
  <2>2. QED
    <3>1. links' \subseteq Node \X Fixed /\ drawn' \subseteq Node /\ green' \subseteq drawn'
      BY <1>3 DEF Close
    <3>2. open' \in BOOLEAN
      BY <1>3 DEF Close
    <3>3. gone' \in 0 .. MaxGone /\ count' \in Int
      BY <1>3, NoneGone DEF Close
    <3>4. blocker' \in Node \cup {Nobody} /\ broker' \in drawn' \cup {Nobody}
      BY <1>3 DEF Close
    <3> QED
      BY <2>1, <3>1, <3>2, <3>3, <3>4 DEF TypeOK
<1>4. ASSUME NEW e \in events, Deliver(e) PROVE TypeOK'
  <2>1. MemberTypeOK'
    BY <1>4 DEF Deliver, clusterVars, listenerVars, MemberTypeOK
  <2>2. e.node \in Node
    BY DEF MemberTypeOK
  <2>3. CASE open /\ OnMessage(e) /\ UNCHANGED open
    <3>1. OnAddNode(e.node) \/ RemoveNode(e.node) \/ SetBlocker(e.node)
      BY <2>3 DEF OnMessage
    <3> QED
      BY <2>1, <2>2, <2>3, <3>1, MessageType DEF TypeOK
  <2>4. CASE UNCHANGED pageVars
    BY <2>1, <2>4 DEF TypeOK, pageVars
  <2> QED
    BY <1>4, <2>3, <2>4 DEF Deliver
<1>5. CASE UNCHANGED vars
  BY <1>5 DEF vars, memberVars, clusterVars, listenerVars, pageVars, TypeOK, MemberTypeOK
<1> QED
  BY <1>1, <1>2, <1>3, <1>4, <1>5 DEF Next

\* Every variable keeps its type; a member that a node sees unreachable never
\* waits for becoming stable, and what has a colour in the page is drawn
\* (MemberListener, rep_graph.js).
THEOREM TypeCorrect == Spec => []TypeOK
<1> QED
  BY InitType, StepType, PTL DEF Spec

-----------------------------------------------------------------------------
(* Who is lost is not made stable.                                          *)

\* Only a timer and the news of a member's return make a running node take it
\* for stable: the former chooses among those who wait, the latter takes it from
\* the lost ones.
LEMMA StepLost ==
  ASSUME TypeOK, [Next]_vars, NEW n \in alive \cap Watcher
  PROVE  (stable'[n] \ stable[n]) \cap lost'[n] = {}
<1> USE DEF TypeOK, MemberTypeOK
<1>1. ASSUME NEW m \in Node, Appear(m) \/ Vanish(m) \/ Join(m) \/ Remove(m)
      PROVE  stable' = stable
  BY <1>1 DEF Appear, Vanish, Join, Remove, listenerVars
<1>2. ASSUME NEW w \in Watcher, Start(w) \/ Stop(w) \/ StartSync(w) \/ Candidator(w)
      PROVE  stable'[n] \subseteq stable[n]
  BY <1>2 DEF Start, Stop, StartSync, Candidator, listenerVars
<1>3. ASSUME NEW w \in Watcher, NEW m \in Node, News(w, m)
      PROVE  (stable'[n] \ stable[n]) \cap lost'[n] = {}
  BY <1>3 DEF News, MemberUp, UnreachableMember, MemberRemoved, ReachableMember, Forget
<1>4. ASSUME NEW w \in Watcher, NEW old \in SUBSET preload[w], Recollection(w, old)
      PROVE  (stable'[n] \ stable[n]) \cap lost'[n] = {}
  <2>1. stable' = [stable EXCEPT ![w] = @ \cup old] /\ lost' = lost
    BY <1>4 DEF Recollection, clusterVars
  <2> QED
    BY <2>1
<1>5. CASE Connect \/ Close \/ \E e \in events : Deliver(e)
  BY <1>5 DEF Connect, Close, Deliver, memberVars, listenerVars
<1>6. CASE UNCHANGED vars
  BY <1>6 DEF vars, memberVars, listenerVars
<1> QED
  BY <1>1, <1>2, <1>3, <1>4, <1>5, <1>6 DEF Next, MemberNext

\* No timer, however old, and no message makes a member stable that the node
\* sees unreachable (MemberListener, Recollection and UnreachableMember).
THEOREM LostStayUnstable == Spec => LostIsNotStable
<1>1. TypeOK /\ [Next]_vars =>
        [\A n \in alive \cap Watcher : (stable'[n] \ stable[n]) \cap lost'[n] = {}]_memberVars
  BY StepLost
<1> QED
  BY <1>1, TypeCorrect, PTL DEF Spec, LostIsNotStable

-----------------------------------------------------------------------------
(* The page shows what it counts.                                           *)

\* A message about a member keeps nodes, links, count and colour together.
LEMMA MessageMatches ==
  ASSUME TypeOK, PageMatches, NEW m \in Node, OnAddNode(m) \/ RemoveNode(m) \/ SetBlocker(m)
  PROVE  PageMatches'
<1>1. IsFiniteSet(drawn)
  BY MembershipAssumption, FS_Subset DEF TypeOK
<1>2. CASE OnAddNode(m)
  <2>1. CASE m \notin drawn /\ AddNode(m)
    <3>1. Cardinality(drawn') = Cardinality(drawn) + 1
      BY <1>1, <2>1, FS_AddElement DEF AddNode
    <3>2. blocker' \in drawn' => blocker' \in green'
      BY <2>1 DEF AddNode, PageMatches
    <3>3. gone = 0 => LinksOf(m) = {m} \X Fixed
      BY DEF LinksOf, Fixed
    <3>4. gone = 0 => links' = drawn' \X Fixed
      BY <2>1, <3>3 DEF AddNode, PageMatches
    <3> QED
      BY <2>1, <3>1, <3>2, <3>4 DEF AddNode, PageMatches
  <2>2. CASE UNCHANGED <<gone, drawn, links, count, blocker, broker, green>>
    BY <2>2 DEF PageMatches
  <2> QED
    BY <1>2, <2>1, <2>2 DEF OnAddNode
<1>3. CASE RemoveNode(m)
  <2>1. CASE m \in drawn /\ gone' = gone
    <3>1. Cardinality(drawn \ {m}) = Cardinality(drawn) - 1
      BY <1>1, <2>1, FS_RemoveElement
    <3>2. /\ count' = count - 1 /\ drawn' = drawn \ {m} /\ green' = green \ {m}
          /\ links' = {l \in links : l[1] # m} /\ blocker' = blocker
      BY <1>3, <2>1 DEF RemoveNode
    <3>3. gone = 0 => links' = drawn' \X Fixed
      BY <3>2 DEF PageMatches
    <3> QED
      BY <2>1, <3>1, <3>2, <3>3 DEF PageMatches
  <2>2. CASE m \notin drawn
    <3>1. gone' # 0 /\ UNCHANGED <<drawn, blocker, green>>
      BY <1>3, <2>2 DEF RemoveNode, TypeOK
    <3> QED
      BY <3>1 DEF PageMatches
  <2> QED
    BY <1>3, <2>1, <2>2 DEF RemoveNode
<1>4. CASE SetBlocker(m)
  BY <1>4 DEF SetBlocker, PageMatches
<1> QED
  BY <1>2, <1>3, <1>4

LEMMA StepMatches == TypeOK /\ PageMatches /\ [Next]_vars => PageMatches'
<1> SUFFICES ASSUME TypeOK, PageMatches, [Next]_vars PROVE PageMatches'
  OBVIOUS
<1>1. CASE UNCHANGED pageVars
  BY <1>1 DEF pageVars, PageMatches
<1>2. CASE Connect
  BY <1>2 DEF Connect, PageMatches
<1>3. CASE Close
  BY <1>3, FS_EmptySet, PageAssumption DEF Close, PageMatches, Fixed
<1>4. ASSUME NEW e \in events, OnMessage(e) PROVE PageMatches'
  <2>1. e.node \in Node
    BY DEF TypeOK, MemberTypeOK
  <2>2. OnAddNode(e.node) \/ RemoveNode(e.node) \/ SetBlocker(e.node)
    BY <1>4 DEF OnMessage
  <2> QED
    BY <2>1, <2>2, MessageMatches
<1> QED
  BY <1>1, <1>2, <1>3, <1>4 DEF Next, Deliver, vars

\* As long as the page has its fixed nodes, the number in its centre is that of the
\* members drawn, each has its links, and the blocker is green if it is drawn,
\* whatever news is told twice, late or never (onAddNode, removeNode, setBlocker).
THEOREM PageIsTrue == Spec => []PageMatches
<1>1. Init => PageMatches
  BY FS_EmptySet DEF Init, PageMatches, Fixed
<1> QED
  BY <1>1, StepMatches, TypeCorrect, PTL DEF Spec
=============================================================================
