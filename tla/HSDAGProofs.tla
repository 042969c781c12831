---------------------------- MODULE HSDAGProofs ----------------------------
(***************************************************************************)
(* Proofs about the HS-dag for every labeler, every knowledge base and all *)
(* limits.                                                                 *)
(*                                                                         *)
(* Shape is the invariant of every search, whatever its labels are worth,  *)
(* as long as they are made of C (LabelerStaysInC): Typed and InTurn (the  *)
(* graph is well formed and each action finds what it works on), AtHand,   *)
(* Disjoint and NoLoops (no path takes an element twice), RestAtNodes (the *)
(* parameters of a node leave out its path), Distinct, Limited, Ordered,   *)
(* LookupFinds, OpenWait and OnePath (one open node per path, not lost).   *)
(*                                                                         *)
(* Inv adds what takes a labeler that keeps its promise, the contract of   *)
(* IHSLabelable (LabelerKeepsPromise): Described (the parameters of a node *)
(* describe what is left of the knowledge base below its path) and Sound.  *)
(*                                                                         *)
(* Inv2 adds what completeness takes: Waiting, Undisturbed (with minimal   *)
(* labels nothing is replaced, pruned or closed too early), Ended and      *)
(* OnTheWay (a missing report has a node to go on from).                   *)
(*                                                                         *)
(* The last part takes the labeler to be one of the repository's.  They    *)
(* always stay in C, and they keep the promise under two conditions; the   *)
(* invariants say what the parameters of each node are (AnyNodes,          *)
(* ParametersAtNodes).                                                     *)
(***************************************************************************)
EXTENDS HSDAG, SequenceTheorems, FiniteSetTheorems, TLAPS

CONSTANTS
    Literal,        \* the assumption literals, of constraints and of test cases,
    NoTestCase      \* and what the labelers write for none

Labeler == INSTANCE ConstraintsProofs

\* A node of the graph, over the elements E.
IsNode(r, E) ==
    r \in [status : Status, label : Seq(E), path : Seq(E), parents : SUBSET Nat,
           children : {r.children}, par : {r.par}]

\* A list of nodes.
IsNodes(s, E) ==
    /\ s \in Seq(Range(s))
    /\ \A n \in DOMAIN s : IsNode(s[n], E)

\* A list of nodes is indexed from 1.
LEMMA NodesDomain ==
    ASSUME NEW E, NEW s, IsNodes(s, E)
    PROVE  Len(s) \in Nat /\ DOMAIN s = 1 .. Len(s)
BY LenProperties DEF IsNodes

\* One node changes.
LEMMA NodesUpdated ==
    ASSUME NEW E, NEW s, IsNodes(s, E), NEW n \in DOMAIN s, NEW r, IsNode(r, E)
    PROVE  LET t == [s EXCEPT ![n] = r] IN
           /\ IsNodes(t, E)
           /\ Len(t) = Len(s) /\ DOMAIN t = DOMAIN s
           /\ t[n] = r
           /\ \A m \in DOMAIN s : m # n => t[m] = s[m]
<1> DEFINE t == [s EXCEPT ![n] = r]
<1>1. s \in Seq(Range(s) \cup {r}) /\ Len(s) \in Nat /\ DOMAIN s = 1 .. Len(s)
  BY SeqMonotonic, LenProperties DEF IsNodes
<1>2. /\ t \in Seq(Range(s) \cup {r})
      /\ Len(t) = Len(s)
      /\ \A m \in 1 .. Len(s) : t[m] = IF m = n THEN r ELSE s[m]
  BY <1>1, ExceptSeq
<1>3. t \in Seq(Range(t)) /\ DOMAIN t = 1 .. Len(s)
  BY <1>2, SeqOfRange, LenProperties
<1>4. \A m \in DOMAIN t : IsNode(t[m], E)
  BY <1>1, <1>2, <1>3 DEF IsNodes
<1> QED BY <1>1, <1>2, <1>3, <1>4 DEF IsNodes

\* One node is added.
LEMMA NodesAdded ==
    ASSUME NEW E, NEW s, IsNodes(s, E), NEW r, IsNode(r, E)
    PROVE  LET t == Append(s, r) IN
           /\ IsNodes(t, E)
           /\ Len(t) = Len(s) + 1 /\ DOMAIN t = 1 .. Len(s) + 1
           /\ t[Len(s) + 1] = r
           /\ \A m \in DOMAIN s : t[m] = s[m]
<1> DEFINE t == Append(s, r)
<1>1. s \in Seq(Range(s) \cup {r}) /\ Len(s) \in Nat /\ DOMAIN s = 1 .. Len(s)
  BY SeqMonotonic, LenProperties DEF IsNodes
<1>2. /\ t \in Seq(Range(s) \cup {r})
      /\ Len(t) = Len(s) + 1
      /\ \A m \in 1 .. Len(s) : t[m] = s[m]
      /\ t[Len(s) + 1] = r
  BY <1>1, AppendProperties
<1>3. t \in Seq(Range(t)) /\ DOMAIN t = 1 .. Len(s) + 1
  BY <1>2, SeqOfRange, LenProperties
<1>4. ASSUME NEW m \in DOMAIN t
      PROVE  IsNode(t[m], E)
  <2>1. m \in 1 .. Len(s) \/ m = Len(s) + 1
    BY <1>1, <1>3
  <2> QED BY <2>1, <1>1, <1>2 DEF IsNodes
<1> QED BY <1>1, <1>2, <1>3, <1>4 DEF IsNodes

\* Every node changes.
LEMMA NodesMapped ==
    ASSUME NEW E, NEW s, IsNodes(s, E), NEW t, DOMAIN t = DOMAIN s,
           t = [n \in DOMAIN s |-> t[n]], \A n \in DOMAIN s : IsNode(t[n], E)
    PROVE  IsNodes(t, E) /\ Len(t) = Len(s)
<1>1. Len(s) \in Nat /\ DOMAIN s = 1 .. Len(s)
  BY LenProperties DEF IsNodes
<1>2. t \in [1 .. Len(s) -> Range(t)]
  BY <1>1 DEF Range
<1>3. t \in Seq(Range(t))
  BY <1>1, <1>2, SeqDef
<1> QED BY <1>1, <1>3, LenProperties DEF IsNodes

----------------------------------------------------------------------------
\* The nodes are well typed, and their parents and children are nodes.
NodesTyped ==
    /\ IsNodes(nodes, Elements)
    /\ \A n \in DOMAIN nodes :
        /\ nodes[n].parents \subseteq DOMAIN nodes
        /\ Range(nodes[n].children) \subseteq DOMAIN nodes

\* The state is well typed.
Typed ==
    /\ param \in Initial
    /\ limit \in Limits(param)
    /\ pc \in {"root", "loop", "compare", "expand", "done"}
    /\ NodesTyped
    /\ open \in Seq(DOMAIN nodes)
    /\ nodeLabels \in Seq(Seq(Elements))
    /\ pathLabels \in Seq(Seq(Elements))
    /\ DOMAIN lookup \subseteq SUBSET Elements
    /\ \A s \in DOMAIN lookup : lookup[s] \in DOMAIN nodes
    /\ DOMAIN labelNodes \subseteq SUBSET Elements
    /\ \A l \in DOMAIN labelNodes : labelNodes[l] \subseteq DOMAIN nodes
    /\ node \in {0} \cup DOMAIN nodes
    /\ fresh \in Seq(Elements)
    /\ greater \subseteq DOMAIN nodeLabels
    /\ arcs \in Seq(Elements)

\* What each part of the search finds when its turn comes.
InTurn ==
    /\ pc = "root" =>
         /\ nodes = <<>> /\ open = <<>> /\ nodeLabels = <<>> /\ pathLabels = <<>>
         /\ DOMAIN lookup = {} /\ DOMAIN labelNodes = {}
    /\ pc = "compare" => node \in DOMAIN nodes /\ fresh # <<>>
    /\ pc = "expand" => node \in DOMAIN nodes /\ arcs # <<>>
    /\ \A i \in DOMAIN nodeLabels : nodeLabels[i] # <<>>
    /\ \A n \in DOMAIN nodes :
         nodes[n].status = "Open" /\ nodes[n].parents = {} =>
             nodes[n].label # <<>> /\ nodes[n].path = <<>>

\* q is what get_label makes of the parameters of the node it is called at.
RecordedAt(n, q) ==
    pc = "loop" /\ open # <<>> /\ n = NextNode /\ q = Recorded(nodes[n].par)

\* The nodes a step finds stay, on their paths, with their parameters or what
\* get_label made of them, and keep a status that is not open.
NodesKept ==
    /\ DOMAIN nodes \subseteq DOMAIN nodes'
    /\ \A n \in DOMAIN nodes :
        /\ nodes'[n].path = nodes[n].path
        /\ nodes'[n].par = nodes[n].par \/ RecordedAt(n, nodes'[n].par)
        /\ nodes[n].status # "Open" => nodes'[n].status = nodes[n].status

\* The graph is well formed.
Inv1 == Typed /\ InTurn

\* Parameters p at the end of a path P describe what is left of the knowledge base
\* below P, for every set of constraints that a label may be made of.
DescribesRest(p, P) ==
    /\ GetType(p) = GetType(param)
    /\ Minimal(p) <=> Minimal(param)
    /\ Range(p.c) = Elements \ P
    /\ GetType(p) = "CONFLICT" \/ Minimal(p) \/ GetLabel(p) # <<>> =>
          \A S \in SUBSET Range(p.c) :
              Inconsistent(p, S) <=>
                  Inconsistent(param, IF GetType(p) = "CONFLICT" THEN S ELSE S \cup P)

\* The parameters of a node leave out what is on its path.
RestAtNodes == \A n \in DOMAIN nodes : Range(nodes[n].par.c) = Elements \ PathOf(n)

\* What the graph takes of a labeler, right or wrong.  A label for parameters p is made
\* of their C, what get_label writes into them leaves it alone, and the child's parameters
\* only lack the arc.
StaysInC(p) == GetLabel(p) \in Seq(Range(p.c)) /\ Range(Recorded(p).c) = Range(p.c)

LabelerStaysInC ==
    /\ pc = "root" /\ GetLabel(param) # <<>> => StaysInC(param)
    /\ pc = "loop" /\ open # <<>> => StaysInC(nodes[NextNode].par)
    /\ pc = "expand" => LET p == nodes[node].par IN
                         Range(NewNodeParameters(p, Arc).c) = Range(p.c) \ {Arc}

\* A labeler that keeps its promise does.
LEMMA PromiseStaysInC == LabelerKeepsPromise => LabelerStaysInC
<1> SUFFICES ASSUME LabelerKeepsPromise
             PROVE  LabelerStaysInC
  OBVIOUS
<1>1. pc = "root" /\ GetLabel(param) # <<>> => StaysInC(param)
  BY DEF LabelerKeepsPromise, LabelIsRight, SameProblem, StaysInC
<1>2. ASSUME pc = "loop", open # <<>>
      PROVE  StaysInC(nodes[NextNode].par)
  <2> DEFINE p == nodes[NextNode].par
  <2>1. /\ GetLabel(p) = <<>> \/ GetLabel(p) \in Seq(Range(p.c))
        /\ Range(Recorded(p).c) = Range(p.c)
    BY <1>2 DEF LabelerKeepsPromise, LabelIsRight, SameProblem
  <2> QED BY <2>1, EmptySeq DEF StaysInC
<1>3. pc = "expand" => LET p == nodes[node].par IN
                       Range(NewNodeParameters(p, Arc).c) = Range(p.c) \ {Arc}
  BY DEF LabelerKeepsPromise, RestIsRight
<1> QED BY <1>1, <1>2, <1>3 DEF LabelerStaysInC

\* The parameters of every node describe what is left below its path.
Described == \A n \in DOMAIN nodes : DescribesRest(nodes[n].par, PathOf(n))

\* add_item_to_label_nodes_map adds nodes to one label and leaves the others theirs.
LEMMA WithNodesAdds ==
    ASSUME NEW map, NEW new, NEW ids
    PROVE  /\ DOMAIN WithNodes(map, new, ids) = DOMAIN map \cup {Range(new)}
           /\ \A l \in DOMAIN map : WithNodes(map, new, ids)[l] \subseteq map[l] \cup ids
           /\ Range(new) \notin DOMAIN map => WithNodes(map, new, ids)[Range(new)] = ids
BY DEF WithNodes

\* The root is a node, with a label of the whole.
LEMMA CreateRootTyped == Inv1 /\ LabelerStaysInC /\ CreateRoot => Inv1' /\ NodesKept
<1> SUFFICES ASSUME Inv1, LabelerStaysInC, CreateRoot
             PROVE  Inv1' /\ NodesKept
  OBVIOUS
<1> DEFINE label == GetLabel(param)
           r == NewNode(<<>>, {}, label, Recorded(param))
<1>1. label \in Seq(Elements) /\ label # <<>>
  BY DEF CreateRoot, LabelerStaysInC, StaysInC, Elements
<1>2. Elements' = Elements /\ param' = param /\ limit' = limit
  BY DEF CreateRoot, Elements
<1>3. IsNode(r, Elements)
  BY <1>1, EmptySeq DEF NewNode, IsNode, Status
<1>4. nodes' = <<r>> /\ open' = <<1>> /\ nodeLabels' = <<label>>
  BY DEF CreateRoot
<1>5. /\ IsNodes(nodes', Elements)
      /\ DOMAIN nodes' = {1} /\ nodes'[1] = r
  <2>1. <<r>> \in Seq({r}) /\ DOMAIN <<r>> = {1} /\ <<r>>[1] = r
    OBVIOUS
  <2> QED BY <2>1, <1>3, <1>4, SeqOfRange DEF IsNodes
<1>6. nodes = <<>> /\ open = <<>> /\ nodeLabels = <<>> /\ pathLabels = <<>>
       /\ DOMAIN lookup = {} /\ DOMAIN labelNodes = {}
  BY DEF Inv1, InTurn, CreateRoot
<1>7. /\ open' \in Seq(DOMAIN nodes')
      /\ nodeLabels' \in Seq(Seq(Elements))
      /\ DOMAIN nodeLabels' = {1} /\ nodeLabels'[1] = label
  BY <1>1, <1>4, <1>5
<1>8. /\ DOMAIN labelNodes' \subseteq SUBSET Elements
      /\ \A l \in DOMAIN labelNodes' : labelNodes'[l] \subseteq DOMAIN nodes'
  <2>1. labelNodes' = WithNodes(labelNodes, label, {1})
    BY DEF CreateRoot
  <2>2. Range(label) \in SUBSET Elements
    BY <1>1, RangeOfSeq
  <2>3. DOMAIN labelNodes' = {Range(label)} /\ labelNodes'[Range(label)] = {1}
    <3>1. DOMAIN labelNodes' = DOMAIN labelNodes \cup {Range(label)}
      BY <2>1, WithNodesAdds
    <3>2. Range(label) \notin DOMAIN labelNodes
      BY <1>6
    <3>3. labelNodes'[Range(label)] = {1}
      BY <2>1, <3>2, WithNodesAdds
    <3> QED BY <3>1, <3>3, <1>6
  <2> QED BY <2>2, <2>3, <1>5
<1>9. /\ r.parents = {} /\ Range(r.children) = {} /\ r.label = label /\ r.path = <<>>
  BY DEF NewNode, EmptyFunction, Range
<1>10. Typed'
  <2>1. /\ pathLabels' = pathLabels /\ lookup' = lookup /\ node' = node /\ fresh' = fresh
        /\ greater' = greater /\ arcs' = arcs /\ pc' \in {"done", "loop"}
    BY DEF CreateRoot, work
  <2> HIDE DEF r, label
  <2>2. greater' \subseteq DOMAIN nodeLabels' /\ node' \in {0} \cup DOMAIN nodes'
    BY <2>1, <1>6, <1>7 DEF Inv1, Typed
  <2>3. NodesTyped'
    BY <1>2, <1>5, <1>9 DEF NodesTyped
  <2> QED BY <1>2, <1>6, <1>7, <1>8, <2>1, <2>2, <2>3 DEF Inv1, Typed
<1>11. InTurn'
  <2>1. pc' \in {"done", "loop"}
    BY DEF CreateRoot
  <2> HIDE DEF r, label
  <2> QED BY <2>1, <1>1, <1>5, <1>7, <1>9 DEF InTurn
<1>12. NodesKept
  BY <1>6 DEF NodesKept
<1> QED BY <1>10, <1>11, <1>12 DEF Inv1

\* One node of the graph changes.
LEMMA NodeChanged ==
    ASSUME NodesTyped, Elements' = Elements, NEW n \in DOMAIN nodes, NEW r,
           nodes' = [nodes EXCEPT ![n] = r], IsNode(r, Elements),
           r.path = nodes[n].path,
           r.par = nodes[n].par \/ RecordedAt(n, r.par),
           nodes[n].status # "Open" => r.status = nodes[n].status,
           r.parents \subseteq DOMAIN nodes, Range(r.children) \subseteq DOMAIN nodes
    PROVE  /\ NodesTyped' /\ NodesKept
           /\ DOMAIN nodes' = DOMAIN nodes
           /\ nodes'[n] = r
           /\ \A m \in DOMAIN nodes : m # n => nodes'[m] = nodes[m]
<1>1. /\ IsNodes(nodes', Elements)
      /\ DOMAIN nodes' = DOMAIN nodes
      /\ nodes'[n] = r
      /\ \A m \in DOMAIN nodes : m # n => nodes'[m] = nodes[m]
  BY NodesUpdated DEF NodesTyped
<1>2. NodesTyped'
  <2>1. ASSUME NEW m \in DOMAIN nodes
        PROVE  nodes'[m].parents \subseteq DOMAIN nodes /\ Range(nodes'[m].children) \subseteq DOMAIN nodes
    <3>1. CASE m = n
      BY <3>1, <1>1
    <3>2. CASE m # n
      BY <3>2, <1>1 DEF NodesTyped
    <3> QED BY <3>1, <3>2
  <2> QED BY <1>1, <2>1 DEF NodesTyped
<1>3. NodesKept
  <2>1. ASSUME NEW m \in DOMAIN nodes
        PROVE  /\ nodes'[m].path = nodes[m].path
               /\ nodes'[m].par = nodes[m].par \/ RecordedAt(m, nodes'[m].par)
               /\ nodes[m].status # "Open" => nodes'[m].status = nodes[m].status
    <3>1. CASE m = n
      BY <3>1, <1>1
    <3>2. CASE m # n
      BY <3>2, <1>1
    <3> QED BY <3>1, <3>2
  <2> QED BY <1>1, <2>1 DEF NodesKept
<1> QED BY <1>1, <1>2, <1>3

\* A step that leaves the graph alone.
LEMMA NodesUntouched ==
    ASSUME NodesTyped, Elements' = Elements, nodes' = nodes
    PROVE  NodesTyped' /\ NodesKept
BY DEF NodesTyped, NodesKept

\* The next node of open_nodes is one of the graph, and so are those after it.
LEMMA HeadOfOpen ==
    ASSUME Typed, open # <<>>
    PROVE  NextNode \in DOMAIN nodes /\ Tail(open) \in Seq(DOMAIN nodes)
BY HeadTailProperties DEF Typed, NextNode

\* The end of the search changes nothing else.
LEMMA StopsTyped == Inv1 /\ (NoRoot \/ NothingOpen \/ UNCHANGED vars) => Inv1' /\ NodesKept
<1> SUFFICES ASSUME Inv1, NoRoot \/ NothingOpen \/ UNCHANGED vars
             PROVE  Inv1' /\ NodesKept
  OBVIOUS
<1>1. /\ param' = param /\ limit' = limit /\ nodes' = nodes /\ open' = open /\ lookup' = lookup
      /\ labelNodes' = labelNodes /\ nodeLabels' = nodeLabels /\ pathLabels' = pathLabels
      /\ node' = node /\ fresh' = fresh /\ greater' = greater /\ arcs' = arcs
      /\ pc' \in {"done", pc}
  BY DEF NoRoot, NothingOpen, vars, dag, found, work
<1>2. Elements' = Elements
  BY <1>1 DEF Elements
<1>3. NodesTyped' /\ NodesKept
  BY <1>1, <1>2, NodesUntouched DEF Inv1, Typed
<1>4. Typed'
  BY <1>1, <1>2, <1>3 DEF Inv1, Typed
<1>5. InTurn'
  BY <1>1 DEF Inv1, InTurn
<1> QED BY <1>3, <1>4, <1>5 DEF Inv1

\* The root has a label to expand.
LEMMA VisitRootTyped == Inv1 /\ VisitRoot => Inv1' /\ NodesKept
<1> SUFFICES ASSUME Inv1, VisitRoot
             PROVE  Inv1' /\ NodesKept
  OBVIOUS
<1> DEFINE n == NextNode
<1>1. /\ param' = param /\ limit' = limit /\ nodes' = nodes /\ open' = Tail(open)
      /\ lookup' = lookup /\ labelNodes' = labelNodes
      /\ nodeLabels' = nodeLabels /\ pathLabels' = pathLabels
      /\ fresh' = fresh /\ greater' = greater
      /\ node' = n /\ arcs' = nodes[n].label /\ pc' = "expand"
      /\ open # <<>> /\ nodes[n].status = "Open" /\ nodes[n].parents = {}
  BY DEF VisitRoot, found, IsRoot
<1>2. Elements' = Elements
  BY <1>1 DEF Elements
<1>3. NodesTyped' /\ NodesKept
  BY <1>1, <1>2, NodesUntouched DEF Inv1, Typed
<1>4. n \in DOMAIN nodes /\ open' \in Seq(DOMAIN nodes)
  BY <1>1, HeadOfOpen DEF Inv1
<1>5. arcs' \in Seq(Elements) /\ arcs' # <<>>
  BY <1>1, <1>4 DEF Inv1, Typed, NodesTyped, IsNodes, IsNode, InTurn
<1> HIDE DEF n
<1>6. Typed'
  BY <1>1, <1>2, <1>3, <1>4, <1>5 DEF Inv1, Typed
<1>7. InTurn'
  BY <1>1, <1>4, <1>5 DEF Inv1, InTurn
<1> QED BY <1>3, <1>6, <1>7 DEF Inv1

\* skip_node only closes a node.
LEMMA SkipTyped == Inv1 /\ Skip => Inv1' /\ NodesKept
<1> SUFFICES ASSUME Inv1, Skip
             PROVE  Inv1' /\ NodesKept
  OBVIOUS
<1> DEFINE n == NextNode
           r == [nodes[n] EXCEPT !.status = "Closed"]
<1>1. /\ param' = param /\ limit' = limit /\ open' = Tail(open)
      /\ lookup' = lookup /\ labelNodes' = labelNodes
      /\ nodeLabels' = nodeLabels /\ pathLabels' = pathLabels
      /\ node' = node /\ fresh' = fresh /\ greater' = greater /\ arcs' = arcs
      /\ pc = "loop" /\ pc' = "loop" /\ open # <<>>
  BY DEF Skip, found, work
<1>2. Elements' = Elements
  BY <1>1 DEF Elements
<1>3. n \in DOMAIN nodes /\ open' \in Seq(DOMAIN nodes)
  BY <1>1, HeadOfOpen DEF Inv1
<1>4. IsNode(nodes[n], Elements)
  BY <1>3 DEF Inv1, Typed, NodesTyped, IsNodes
<1>5. CASE nodes[n].status = "Open" /\ ~TooDeep(n)
  <2>1. nodes' = [nodes EXCEPT ![n] = r]
    BY <1>5 DEF Skip
  <2>2. /\ IsNode(r, Elements) /\ r.status = "Closed"
        /\ r.path = nodes[n].path /\ r.par = nodes[n].par /\ r.label = nodes[n].label
        /\ r.parents = nodes[n].parents /\ r.children = nodes[n].children
    BY <1>4 DEF IsNode, Status
  <2>3. r.parents \subseteq DOMAIN nodes /\ Range(r.children) \subseteq DOMAIN nodes
    BY <1>3, <2>2 DEF Inv1, Typed, NodesTyped
  <2> HIDE DEF r, n
  <2>4. /\ NodesTyped' /\ NodesKept
        /\ DOMAIN nodes' = DOMAIN nodes
        /\ nodes'[n] = r
        /\ \A m \in DOMAIN nodes : m # n => nodes'[m] = nodes[m]
    BY <1>2, <1>3, <1>5, <2>1, <2>2, <2>3, NodeChanged DEF Inv1, Typed
  <2>5. Typed'
    BY <1>1, <1>2, <1>3, <2>4 DEF Inv1, Typed
  <2>6. InTurn'
    BY <1>1, <2>2, <2>4 DEF Inv1, InTurn
  <2> QED BY <2>4, <2>5, <2>6 DEF Inv1
<1>6. CASE ~(nodes[n].status = "Open" /\ ~TooDeep(n))
  <2>1. nodes' = nodes
    BY <1>6 DEF Skip
  <2>2. NodesTyped' /\ NodesKept
    BY <1>2, <2>1, NodesUntouched DEF Inv1, Typed
  <2>3. Typed'
    BY <1>1, <1>2, <1>3, <2>1, <2>2 DEF Inv1, Typed
  <2>4. InTurn'
    BY <1>1, <2>1 DEF Inv1, InTurn
  <2> QED BY <2>2, <2>3, <2>4 DEF Inv1
<1> QED BY <1>5, <1>6

\* A visited node, its parameters and its label.
LEMMA Visited ==
    ASSUME Inv1, Visit
    PROVE  /\ pc = "loop" /\ open # <<>> /\ open' = Tail(open)
           /\ NextNode \in DOMAIN nodes /\ open' \in Seq(DOMAIN nodes)
           /\ nodes[NextNode].status = "Open" /\ nodes[NextNode].parents # {}
           /\ IsNode(nodes[NextNode], Elements)
           /\ nodes[NextNode].parents \subseteq DOMAIN nodes
           /\ Range(nodes[NextNode].children) \subseteq DOMAIN nodes
<1>1. pc = "loop" /\ open # <<>> /\ open' = Tail(open)
  BY DEF Visit
<1>2. NextNode \in DOMAIN nodes /\ open' \in Seq(DOMAIN nodes)
  BY <1>1, HeadOfOpen DEF Inv1
<1>3. nodes[NextNode].status = "Open" /\ nodes[NextNode].parents # {}
  BY DEF Visit, IsRoot
<1>4. /\ IsNode(nodes[NextNode], Elements)
      /\ nodes[NextNode].parents \subseteq DOMAIN nodes
      /\ Range(nodes[NextNode].children) \subseteq DOMAIN nodes
  BY <1>2 DEF Inv1, Typed, NodesTyped, IsNodes
<1> QED BY <1>1, <1>2, <1>3, <1>4

\* A reused label goes to the node on its way to be expanded.
LEMMA ReuseLabelTyped == Inv1 /\ ReuseLabel => Inv1' /\ NodesKept
<1> SUFFICES ASSUME Inv1, ReuseLabel
             PROVE  Inv1' /\ NodesKept
  OBVIOUS
<1>p. PICK first \in Reusable(NextNode) :
        /\ nodes' = [nodes EXCEPT ![NextNode].label = nodeLabels[first]]
        /\ labelNodes' = WithNodes(labelNodes, nodeLabels[first], {NextNode})
        /\ arcs' = nodeLabels[first]
  BY DEF ReuseLabel
<1> DEFINE n == NextNode
           label == nodeLabels[first]
           r == [nodes[n] EXCEPT !.label = label]
<1>1. /\ param' = param /\ limit' = limit /\ open' = Tail(open)
      /\ lookup' = lookup
      /\ nodeLabels' = nodeLabels /\ pathLabels' = pathLabels
      /\ node' = n /\ fresh' = fresh /\ greater' = greater
      /\ pc = "loop" /\ pc' \in {"done", "expand"} /\ open # <<>>
  BY DEF ReuseLabel, found, Visit
<1>2. Elements' = Elements
  BY <1>1 DEF Elements
<1>3. /\ n \in DOMAIN nodes /\ open' \in Seq(DOMAIN nodes)
      /\ nodes[n].parents # {} /\ IsNode(nodes[n], Elements)
      /\ nodes[n].parents \subseteq DOMAIN nodes
      /\ Range(nodes[n].children) \subseteq DOMAIN nodes
  BY Visited DEF ReuseLabel
<1>4. first \in DOMAIN nodeLabels
  BY DEF Reusable
<1>5. label \in Seq(Elements) /\ label # <<>>
  <2>1. first \in 1 .. Len(nodeLabels)
    BY <1>4, LenProperties DEF Inv1, Typed
  <2> QED BY <1>4, <2>1, ElementOfSeq DEF Inv1, Typed, InTurn
<1>6. nodes' = [nodes EXCEPT ![n] = r] /\ arcs' = label
  BY <1>p
<1>7. /\ DOMAIN labelNodes' \subseteq SUBSET Elements
      /\ \A l \in DOMAIN labelNodes' : labelNodes'[l] \subseteq DOMAIN nodes
  <2>1. labelNodes' = WithNodes(labelNodes, label, {n})
    BY <1>p
  <2> HIDE DEF label, n
  <2>2. Range(label) \in SUBSET Elements
    BY <1>5, RangeOfSeq
  <2>3. DOMAIN labelNodes' = DOMAIN labelNodes \cup {Range(label)}
    BY <2>1, WithNodesAdds
  <2>4. \A l \in DOMAIN labelNodes : labelNodes'[l] \subseteq labelNodes[l] \cup {n}
    BY <2>1, WithNodesAdds
  <2>5. Range(label) \notin DOMAIN labelNodes => labelNodes'[Range(label)] = {n}
    BY <2>1, WithNodesAdds
  <2> QED BY <2>2, <2>3, <2>4, <2>5, <1>3 DEF Inv1, Typed
<1>8. /\ IsNode(r, Elements) /\ r.status = nodes[n].status
      /\ r.path = nodes[n].path /\ r.par = nodes[n].par
      /\ r.parents = nodes[n].parents /\ r.children = nodes[n].children
  BY <1>3, <1>5 DEF IsNode
<1> HIDE DEF r, n, label
<1>9. /\ NodesTyped' /\ NodesKept
      /\ DOMAIN nodes' = DOMAIN nodes
      /\ nodes'[n] = r
      /\ \A m \in DOMAIN nodes : m # n => nodes'[m] = nodes[m]
  BY <1>2, <1>3, <1>6, <1>8, NodeChanged DEF Inv1, Typed
<1>10. Typed'
  BY <1>1, <1>2, <1>3, <1>5, <1>6, <1>7, <1>9 DEF Inv1, Typed
<1>11. InTurn'
  BY <1>1, <1>3, <1>5, <1>6, <1>8, <1>9 DEF Inv1, InTurn
<1> QED BY <1>9, <1>10, <1>11 DEF Inv1

\* What get_label returns is a list of elements: its parameters have no others.
LEMMA ComputeLabelTyped ==
    Inv1 /\ RestAtNodes /\ LabelerStaysInC /\ ComputeLabel => Inv1' /\ NodesKept
<1> SUFFICES ASSUME Inv1, RestAtNodes, LabelerStaysInC, ComputeLabel
             PROVE  Inv1' /\ NodesKept
  OBVIOUS
<1> DEFINE n == NextNode
           label == GetLabel(nodes[n].par)
           r == [nodes[n] EXCEPT !.par = Recorded(nodes[n].par)]
<1>1. /\ param' = param /\ limit' = limit /\ open' = Tail(open)
      /\ lookup' = lookup /\ labelNodes' = labelNodes
      /\ nodeLabels' = nodeLabels /\ pathLabels' = pathLabels
      /\ node' = n /\ fresh' = label /\ arcs' = arcs
      /\ pc = "loop" /\ pc' = "compare" /\ open # <<>>
      /\ label # <<>>
  BY DEF ComputeLabel, found, Visit
<1>2. Elements' = Elements
  BY <1>1 DEF Elements
<1>3. /\ n \in DOMAIN nodes /\ open' \in Seq(DOMAIN nodes)
      /\ nodes[n].parents # {} /\ IsNode(nodes[n], Elements)
      /\ nodes[n].parents \subseteq DOMAIN nodes
      /\ Range(nodes[n].children) \subseteq DOMAIN nodes
  BY Visited DEF ComputeLabel
<1>5. greater' \subseteq DOMAIN nodeLabels
  BY DEF ComputeLabel
<1>6. nodes' = [nodes EXCEPT ![n] = r]
  BY DEF ComputeLabel
<1>7. label \in Seq(Elements)
  <2> DEFINE C == Range(nodes[n].par.c)
  <2>1. label \in Seq(C)
    BY <1>1 DEF LabelerStaysInC, StaysInC
  <2>2. C \subseteq Elements
    BY <1>3 DEF RestAtNodes
  <2> QED BY <2>1, <2>2, SeqMonotonic
<1>8. /\ IsNode(r, Elements) /\ r.status = nodes[n].status
      /\ r.path = nodes[n].path /\ r.par = Recorded(nodes[n].par)
      /\ r.parents = nodes[n].parents /\ r.children = nodes[n].children
      /\ r.label = nodes[n].label
  BY <1>3 DEF IsNode
<1>r. RecordedAt(n, r.par)
  BY <1>1, <1>8 DEF RecordedAt
<1> HIDE DEF r, n, label
<1>9. /\ NodesTyped' /\ NodesKept
      /\ DOMAIN nodes' = DOMAIN nodes
      /\ nodes'[n] = r
      /\ \A m \in DOMAIN nodes : m # n => nodes'[m] = nodes[m]
  BY <1>2, <1>3, <1>6, <1>8, <1>r, NodeChanged DEF Inv1, Typed
<1>10. Typed'
  BY <1>1, <1>2, <1>3, <1>5, <1>7, <1>9 DEF Inv1, Typed
<1>11. InTurn'
  BY <1>1, <1>3, <1>8, <1>9 DEF Inv1, InTurn
<1> QED BY <1>9, <1>10, <1>11 DEF Inv1

\* The node whose path is an answer is decided, and nothing else changes in the graph.
LEMMA FindPathLabelTyped == Inv1 /\ FindPathLabel => Inv1' /\ NodesKept
<1> SUFFICES ASSUME Inv1, FindPathLabel
             PROVE  Inv1' /\ NodesKept
  OBVIOUS
<1> DEFINE n == NextNode
           r == [[nodes[n] EXCEPT !.status = "Checked"] EXCEPT !.par = Recorded(nodes[n].par)]
<1>1. /\ param' = param /\ limit' = limit /\ open' = Tail(open)
      /\ lookup' = lookup /\ labelNodes' = labelNodes
      /\ nodeLabels' = nodeLabels /\ pathLabels' = Append(pathLabels, nodes[n].path)
      /\ node' = node /\ fresh' = fresh /\ greater' = greater /\ arcs' = arcs
      /\ pc = "loop" /\ pc' \in {"done", "loop"} /\ open # <<>>
  BY DEF FindPathLabel, work, Visit
<1>2. Elements' = Elements
  BY <1>1 DEF Elements
<1>3. /\ n \in DOMAIN nodes /\ open' \in Seq(DOMAIN nodes)
      /\ nodes[n].status = "Open" /\ nodes[n].parents # {} /\ IsNode(nodes[n], Elements)
      /\ nodes[n].parents \subseteq DOMAIN nodes
      /\ Range(nodes[n].children) \subseteq DOMAIN nodes
  BY Visited DEF FindPathLabel
<1>5. /\ nodes[n].path \in Seq(Elements)
      /\ [nodes[n] EXCEPT !.status = "Checked"].par = nodes[n].par
  BY <1>3 DEF IsNode
<1>6. nodes' = [nodes EXCEPT ![n] = r]
  <2>1. nodes' = [nodes EXCEPT ![n].status = "Checked", ![n].par = Recorded(@)]
    BY DEF FindPathLabel
  <2> HIDE DEF n
  <2>2. [nodes EXCEPT ![n].status = "Checked"][n] = [nodes[n] EXCEPT !.status = "Checked"]
    BY <1>3
  <2> QED BY <2>1, <2>2, <1>3, <1>5
<1>7. pathLabels' \in Seq(Seq(Elements))
  BY <1>1, <1>5, AppendProperties DEF Inv1, Typed
<1>8. /\ IsNode(r, Elements) /\ r.status = "Checked"
      /\ r.path = nodes[n].path /\ r.par = Recorded(nodes[n].par)
      /\ r.parents = nodes[n].parents /\ r.children = nodes[n].children
      /\ r.label = nodes[n].label
  BY <1>3 DEF IsNode, Status
<1>r. RecordedAt(n, r.par)
  BY <1>1, <1>8 DEF RecordedAt
<1> HIDE DEF r, n
<1>9. /\ NodesTyped' /\ NodesKept
      /\ DOMAIN nodes' = DOMAIN nodes
      /\ nodes'[n] = r
      /\ \A m \in DOMAIN nodes : m # n => nodes'[m] = nodes[m]
  BY <1>2, <1>3, <1>6, <1>8, <1>r, NodeChanged DEF Inv1, Typed
<1>10. Typed'
  BY <1>1, <1>2, <1>3, <1>7, <1>9 DEF Inv1, Typed
<1>11. InTurn'
  BY <1>1, <1>3, <1>8, <1>9 DEF Inv1, InTurn
<1> QED BY <1>9, <1>10, <1>11 DEF Inv1

\* The fresh label joins the known ones.
LEMMA AddLabelTyped == Inv1 /\ AddLabel => Inv1' /\ NodesKept
<1> SUFFICES ASSUME Inv1, AddLabel
             PROVE  Inv1' /\ NodesKept
  OBVIOUS
<1> DEFINE n == node
           r == [nodes[n] EXCEPT !.label = fresh]
<1>1. /\ param' = param /\ limit' = limit /\ open' = open
      /\ lookup' = lookup
      /\ nodeLabels' = Append(nodeLabels, fresh) /\ pathLabels' = pathLabels
      /\ node' = node /\ fresh' = fresh /\ greater' = greater /\ arcs' = fresh
      /\ pc = "compare" /\ pc' \in {"done", "expand", "loop"} /\ greater = {}
  BY DEF AddLabel
<1>2. Elements' = Elements
  BY <1>1 DEF Elements
<1>3. /\ n \in DOMAIN nodes /\ IsNode(nodes[n], Elements)
      /\ nodes[n].parents \subseteq DOMAIN nodes
      /\ Range(nodes[n].children) \subseteq DOMAIN nodes
  BY <1>1 DEF Inv1, InTurn, Typed, NodesTyped, IsNodes
<1>5. fresh \in Seq(Elements) /\ fresh # <<>>
  BY <1>1 DEF Inv1, InTurn, Typed
<1>6. nodes' = [nodes EXCEPT ![n] = r]
  BY DEF AddLabel
<1>7. /\ DOMAIN labelNodes' \subseteq SUBSET Elements
      /\ \A l \in DOMAIN labelNodes' : labelNodes'[l] \subseteq DOMAIN nodes
  <2> DEFINE replaced == {l \in {Range(nodeLabels[i]) : i \in DOMAIN nodeLabels} :
                             l # Range(fresh) /\ Range(fresh) \subseteq l}
             map == Restrict(labelNodes, DOMAIN labelNodes \ replaced)
  <2>1. labelNodes' = WithNodes(map, fresh, {node})
    BY DEF AddLabel
  <2>2. DOMAIN map \subseteq DOMAIN labelNodes /\ \A l \in DOMAIN map : map[l] = labelNodes[l]
    BY DEF Restrict
  <2> HIDE DEF map
  <2>3. Range(fresh) \in SUBSET Elements
    BY <1>5, RangeOfSeq
  <2>4. DOMAIN labelNodes' = DOMAIN map \cup {Range(fresh)}
    BY <2>1, WithNodesAdds
  <2>5. \A l \in DOMAIN map : labelNodes'[l] \subseteq map[l] \cup {node}
    BY <2>1, WithNodesAdds
  <2>6. Range(fresh) \notin DOMAIN map => labelNodes'[Range(fresh)] = {node}
    BY <2>1, WithNodesAdds
  <2> QED BY <2>2, <2>3, <2>4, <2>5, <2>6, <1>3 DEF Inv1, Typed
<1>8. /\ IsNode(r, Elements) /\ r.status = nodes[n].status /\ r.label = fresh
      /\ r.path = nodes[n].path /\ r.par = nodes[n].par
      /\ r.parents = nodes[n].parents /\ r.children = nodes[n].children
  BY <1>3, <1>5 DEF IsNode
<1>9. /\ nodeLabels' \in Seq(Seq(Elements)) /\ greater' \subseteq DOMAIN nodeLabels'
      /\ \A i \in DOMAIN nodeLabels' : nodeLabels'[i] # <<>>
  <2>1. PICK k \in Nat : Len(nodeLabels) = k
    BY LenProperties DEF Inv1, Typed
  <2>2. DOMAIN nodeLabels = 1 .. k
    BY <2>1, LenProperties DEF Inv1, Typed
  <2>3. /\ nodeLabels' \in Seq(Seq(Elements))
        /\ Len(nodeLabels') = k + 1
        /\ \A i \in 1 .. k : nodeLabels'[i] = nodeLabels[i]
        /\ nodeLabels'[k + 1] = fresh
    BY <1>1, <1>5, <2>1, AppendProperties DEF Inv1, Typed
  <2>4. DOMAIN nodeLabels' = 1 .. k + 1
    BY <2>3, LenProperties
  <2>5. \A i \in 1 .. k + 1 : i \in 1 .. k \/ i = k + 1
    OBVIOUS
  <2> QED BY <1>1, <1>5, <2>2, <2>3, <2>4, <2>5 DEF Inv1, InTurn
<1> HIDE DEF r, n
<1>10. /\ NodesTyped' /\ NodesKept
       /\ DOMAIN nodes' = DOMAIN nodes
       /\ nodes'[n] = r
       /\ \A m \in DOMAIN nodes : m # n => nodes'[m] = nodes[m]
  BY <1>2, <1>3, <1>6, <1>8, NodeChanged DEF Inv1, Typed
<1>11. Typed'
  BY <1>1, <1>2, <1>3, <1>5, <1>7, <1>9, <1>10 DEF Inv1, Typed
<1>12. InTurn'
  <2>1. node' \in DOMAIN nodes'
    BY <1>1, <1>3, <1>10 DEF n
  <2>2. \A m \in DOMAIN nodes' : nodes'[m].status = "Open" /\ nodes'[m].parents = {} =>
             nodes'[m].label # <<>> /\ nodes'[m].path = <<>>
    BY <1>3, <1>5, <1>8, <1>10 DEF Inv1, InTurn
  <2> QED BY <1>1, <1>5, <1>9, <2>1, <2>2 DEF Inv1, InTurn
<1> QED BY <1>10, <1>11, <1>12 DEF Inv1

\* Every node of ids is among the nodes that go with them.
LEMMA DescendantsInclude == \A ids : ids \subseteq Descendants(ids)
BY DEF Descendants

\* What is taken out of nodes_lookup is on the path of a node that goes, and only
\* a node that goes may lose a parent.
Unhooked ==
    \E pruned :
        /\ lookup' = Restrict(lookup, DOMAIN lookup \ PathsOf(pruned))
        /\ \A n \in DOMAIN nodes : n \in pruned \/ nodes'[n].parents = nodes[n].parents

\* No node gets another status than pruned, and one that is decided keeps its label and
\* its children.
Relabelled ==
    \A n \in DOMAIN nodes :
        /\ nodes'[n].status \in {nodes[n].status, "Pruned"}
        /\ nodes[n].status # "Open" =>
              nodes'[n].label = nodes[n].label /\ nodes'[n].children = nodes[n].children

\* A label that is part of a known one replaces it at the open nodes, and what is cut off
\* goes.
LEMMA ReplaceLabelTyped ==
    Inv1 /\ ReplaceLabel => Inv1' /\ NodesKept /\ Unhooked /\ Relabelled
<1> SUFFICES ASSUME Inv1, ReplaceLabel
             PROVE  Inv1' /\ NodesKept /\ Unhooked /\ Relabelled
  OBVIOUS
<1>p. PICK i \in greater : Replace(i)
  BY DEF ReplaceLabel
<1> DEFINE old    == Range(nodeLabels[i])
           gone   == old \ Range(fresh)
           ids    == IF old \in DOMAIN labelNodes
                     THEN {n \in labelNodes[old] : nodes[n].status = "Open"} ELSE {}
           cut(n) == gone \cap DOMAIN nodes[n].children
           ends   == UNION {{nodes[n].children[a] : a \in cut(n)} : n \in ids}
           pruned == Descendants(ends)
           losing(c) == {n \in ids : \E a \in cut(n) : nodes[n].children[a] = c}
           r(n) == [nodes[n] EXCEPT
                !.label = IF n \in ids THEN fresh ELSE @,
                !.children = IF n \in ids THEN Restrict(@, DOMAIN @ \ gone) ELSE @,
                !.parents = @ \ losing(n),
                !.status = IF n \in pruned THEN CleanedUp(@) ELSE @]
<1>1. /\ param' = param /\ limit' = limit /\ open' = open
      /\ nodeLabels' = nodeLabels /\ pathLabels' = pathLabels
      /\ node' = node /\ fresh' = fresh /\ arcs' = arcs
      /\ pc = "compare" /\ pc' = "compare"
  BY DEF ReplaceLabel, found
<1>2. Elements' = Elements
  BY <1>1 DEF Elements
<1>3. /\ nodes' = [n \in DOMAIN nodes |-> r(n)]
      /\ lookup' = Restrict(lookup, DOMAIN lookup \ PathsOf(pruned))
      /\ labelNodes' = IF ids = {} THEN labelNodes ELSE WithNodes(labelNodes, fresh, ids)
      /\ greater' = greater \ {i}
  BY <1>p DEF Replace
<1>4. fresh \in Seq(Elements) /\ fresh # <<>>
  BY <1>1 DEF Inv1, InTurn, Typed
<1>5. ASSUME NEW n \in DOMAIN nodes
      PROVE  /\ IsNode(r(n), Elements)
             /\ r(n).label \in {nodes[n].label, fresh}
             /\ n \notin ids =>
                   r(n).label = nodes[n].label /\ r(n).children = nodes[n].children
             /\ r(n).path = nodes[n].path /\ r(n).par = nodes[n].par
             /\ r(n).status = IF n \in pruned THEN CleanedUp(nodes[n].status) ELSE nodes[n].status
             /\ r(n).parents = nodes[n].parents \ losing(n)
             /\ Range(r(n).children) \subseteq Range(nodes[n].children)
  <2>1. IsNode(nodes[n], Elements)
    BY DEF Inv1, Typed, NodesTyped, IsNodes
  <2> HIDE DEF losing, pruned, ids, gone
  <2> DEFINE label == IF n \in ids THEN fresh ELSE nodes[n].label
             children == IF n \in ids
                         THEN Restrict(nodes[n].children, DOMAIN nodes[n].children \ gone)
                         ELSE nodes[n].children
             parents == nodes[n].parents \ losing(n)
             status == IF n \in pruned THEN CleanedUp(nodes[n].status) ELSE nodes[n].status
  <2>2. r(n) = [status |-> status, label |-> label, path |-> nodes[n].path,
                parents |-> parents, children |-> children, par |-> nodes[n].par]
    <3>1. r(n) = [nodes[n] EXCEPT !.label = label, !.children = children,
                                  !.parents = parents, !.status = status]
      OBVIOUS
    <3> HIDE DEF r, label, children, parents, status
    <3> QED BY <2>1, <3>1 DEF IsNode
  <2>3. label \in Seq(Elements) /\ parents \in SUBSET Nat /\ status \in Status
    BY <2>1, <1>4 DEF IsNode, CleanedUp, Status
  <2>4. /\ Range(children) \subseteq Range(nodes[n].children)
        /\ n \notin ids => children = nodes[n].children
    BY DEF Restrict, Range
  <2>5. nodes[n].path \in Seq(Elements)
    BY <2>1 DEF IsNode
  <2> HIDE DEF r, children, parents
  <2>6. IsNode(r(n), Elements)
    BY <2>2, <2>3, <2>5 DEF IsNode
  <2> QED BY <2>2, <2>4, <2>6 DEF parents
<1> HIDE DEF r
<1>6. IsNodes(nodes', Elements) /\ DOMAIN nodes' = DOMAIN nodes
      /\ \A n \in DOMAIN nodes : nodes'[n] = r(n)
  <2>1. DOMAIN nodes' = DOMAIN nodes /\ \A n \in DOMAIN nodes : nodes'[n] = r(n)
    BY <1>3
  <2>2. nodes' = [n \in DOMAIN nodes |-> nodes'[n]]
    BY <1>3, <2>1
  <2>3. \A n \in DOMAIN nodes : IsNode(nodes'[n], Elements)
    BY <1>5, <2>1
  <2> QED BY <2>1, <2>2, <2>3, NodesMapped DEF Inv1, Typed, NodesTyped
<1> HIDE DEF losing, pruned
<1>7. NodesTyped'
  BY <1>2, <1>5, <1>6 DEF Inv1, Typed, NodesTyped
<1>8. NodesKept
  <2>1. \A status : status # "Open" => CleanedUp(status) = status
    BY DEF CleanedUp
  <2> QED BY <1>5, <1>6, <2>1 DEF NodesKept
<1>9. /\ DOMAIN lookup' \subseteq SUBSET Elements
      /\ \A s \in DOMAIN lookup' : lookup'[s] \in DOMAIN nodes
  BY <1>3 DEF Restrict, Inv1, Typed
<1>10. /\ DOMAIN labelNodes' \subseteq SUBSET Elements
       /\ \A l \in DOMAIN labelNodes' : labelNodes'[l] \subseteq DOMAIN nodes
  <2>1. ids \subseteq DOMAIN nodes
    BY DEF Inv1, Typed
  <2> HIDE DEF ids
  <2>2. CASE ids = {}
    BY <1>3, <2>2 DEF Inv1, Typed
  <2>3. CASE ids # {}
    <3>1. labelNodes' = WithNodes(labelNodes, fresh, ids)
      BY <1>3, <2>3
    <3>2. Range(fresh) \in SUBSET Elements
      BY <1>4, RangeOfSeq
    <3>3. DOMAIN labelNodes' = DOMAIN labelNodes \cup {Range(fresh)}
      BY <3>1, WithNodesAdds
    <3>4. \A l \in DOMAIN labelNodes : labelNodes'[l] \subseteq labelNodes[l] \cup ids
      BY <3>1, WithNodesAdds
    <3>5. Range(fresh) \notin DOMAIN labelNodes => labelNodes'[Range(fresh)] = ids
      BY <3>1, WithNodesAdds
    <3> QED BY <3>2, <3>3, <3>4, <3>5, <2>1 DEF Inv1, Typed
  <2> QED BY <2>2, <2>3
<1>11. Typed'
  BY <1>1, <1>2, <1>3, <1>6, <1>7, <1>9, <1>10 DEF Inv1, Typed
<1>a. ASSUME NEW n \in DOMAIN nodes, n \notin pruned
      PROVE  nodes'[n].parents = nodes[n].parents
  <2>1. losing(n) # {} => n \in ends
    BY DEF losing
  <2>2. ends \subseteq pruned
    BY DescendantsInclude DEF pruned
  <2>3. losing(n) = {}
    BY <1>a, <2>1, <2>2
  <2>4. nodes'[n].parents = nodes[n].parents \ losing(n)
    BY <1>5, <1>6
  <2> QED BY <2>3, <2>4
<1>12. ASSUME NEW n \in DOMAIN nodes, nodes'[n].status = "Open", nodes'[n].parents = {}
       PROVE  nodes'[n].label # <<>> /\ nodes'[n].path = <<>>
  <2>1. n \notin pruned /\ nodes[n].status = "Open"
    BY <1>5, <1>6, <1>12 DEF CleanedUp
  <2>2. nodes[n].parents = {}
    BY <1>12, <1>a, <2>1
  <2> QED BY <1>4, <1>5, <1>6, <2>1, <2>2 DEF Inv1, InTurn
<1>13. InTurn'
  BY <1>1, <1>6, <1>12 DEF Inv1, InTurn
<1>14. Unhooked
  BY <1>3, <1>a DEF Unhooked
<1>15. Relabelled
  <2>1. \A n \in DOMAIN nodes : nodes[n].status # "Open" => n \notin ids
    OBVIOUS
  <2> HIDE DEF ids
  <2> QED BY <2>1, <1>5, <1>6 DEF CleanedUp, Relabelled
<1> QED BY <1>8, <1>11, <1>13, <1>14, <1>15 DEF Inv1

\* The node being expanded, and the arc taken.
LEMMA Expanded ==
    ASSUME Inv1, TakeArc
    PROVE  /\ pc = "expand" /\ node \in DOMAIN nodes /\ arcs # <<>>
           /\ IsNode(nodes[node], Elements)
           /\ nodes[node].parents \subseteq DOMAIN nodes
           /\ Range(nodes[node].children) \subseteq DOMAIN nodes
           /\ Arc \in Elements /\ Arc \in Range(arcs)
           /\ arcs' = Tail(arcs) /\ arcs' \in Seq(Elements)
           /\ Range(arcs') \subseteq Range(arcs)
           /\ pc' = IF arcs' = <<>> THEN "loop" ELSE "expand"
           /\ NewPath \in Seq(Elements)
           /\ Len(NewPath) = Len(nodes[node].path) + 1
           /\ Range(NewPath) = PathOf(node) \cup {Arc}
<1>1. /\ pc = "expand" /\ arcs' = Tail(arcs)
      /\ pc' = IF arcs' = <<>> THEN "loop" ELSE "expand"
  BY DEF TakeArc
<1>2. node \in DOMAIN nodes /\ arcs # <<>> /\ arcs \in Seq(Elements)
  BY <1>1 DEF Inv1, InTurn, Typed
<1>3. IsNode(nodes[node], Elements) /\ nodes[node].path \in Seq(Elements)
  BY <1>2 DEF Inv1, Typed, NodesTyped, IsNodes, IsNode
<1>4. Arc \in Elements /\ arcs' \in Seq(Elements)
  BY <1>1, <1>2, HeadTailProperties DEF Arc
<1>5. Arc \in Range(arcs) /\ Range(arcs') \subseteq Range(arcs)
  <2>1. PICK k \in Nat \ {0} : Len(arcs) = k
    BY <1>2, EmptySeq
  <2>2. Len(arcs') = k - 1 /\ \A j \in 1 .. k - 1 : arcs'[j] = arcs[j + 1]
    BY <1>1, <1>2, <2>1, HeadTailProperties
  <2>3. Range(arcs) = {arcs[j] : j \in 1 .. k} /\ Range(arcs') = {arcs'[j] : j \in 1 .. k - 1}
    BY <1>2, <1>4, <2>1, <2>2, RangeEquality
  <2>4. \A j \in 1 .. k - 1 : j + 1 \in 1 .. k
    OBVIOUS
  <2>5. Arc = arcs[1] /\ 1 \in 1 .. k
    BY <1>2 DEF Arc
  <2> QED BY <2>2, <2>3, <2>4, <2>5
<1>6. NewPath \in Seq(Elements) /\ Len(NewPath) = Len(nodes[node].path) + 1
  BY <1>3, <1>4, AppendProperties DEF NewPath
<1>7. Range(NewPath) = PathOf(node) \cup {Arc}
  <2>1. NewPath = nodes[node].path \o <<Arc>> /\ <<Arc>> \in Seq(Elements)
    BY <1>3, <1>4, AppendIsConcat DEF NewPath
  <2>2. Range(NewPath) = Range(nodes[node].path) \cup Range(<<Arc>>)
    BY <1>3, <2>1, RangeConcatenation
  <2>3. Range(<<Arc>>) = {Arc}
    BY DEF Range
  <2> QED BY <2>2, <2>3 DEF PathOf
<1> QED BY <1>1, <1>2, <1>3, <1>4, <1>5, <1>6, <1>7 DEF Inv1, Typed, NodesTyped

\* Rule 1.a gives a node another parent.
LEMMA ReuseNodeTyped == Inv1 /\ ReuseNode => Inv1' /\ NodesKept
<1> SUFFICES ASSUME Inv1, ReuseNode
             PROVE  Inv1' /\ NodesKept
  OBVIOUS
<1> DEFINE n == lookup[Range(NewPath)]
           r == [nodes[n] EXCEPT !.parents = nodes[n].parents \cup {node}]
<1>1. /\ param' = param /\ limit' = limit /\ open' = open
      /\ lookup' = lookup /\ labelNodes' = labelNodes
      /\ nodeLabels' = nodeLabels /\ pathLabels' = pathLabels
      /\ node' = node /\ fresh' = fresh /\ greater' = greater
      /\ Range(NewPath) \in DOMAIN lookup
  BY DEF ReuseNode, found
<1>2. Elements' = Elements
  BY <1>1 DEF Elements
<1>3. /\ pc = "expand" /\ node \in DOMAIN nodes
      /\ arcs' \in Seq(Elements) /\ pc' = IF arcs' = <<>> THEN "loop" ELSE "expand"
  BY Expanded DEF ReuseNode
<1>4. n \in DOMAIN nodes
  BY <1>1 DEF Inv1, Typed
<1>5. /\ IsNode(nodes[n], Elements)
      /\ nodes[n].parents \subseteq DOMAIN nodes
      /\ Range(nodes[n].children) \subseteq DOMAIN nodes
  BY <1>4 DEF Inv1, Typed, NodesTyped, IsNodes
<1>6. nodes' = [nodes EXCEPT ![n] = r]
  BY DEF ReuseNode
<1>7. node \in Nat
  BY <1>3, NodesDomain DEF Inv1, Typed, NodesTyped
<1>8. /\ IsNode(r, Elements) /\ r.status = nodes[n].status
      /\ r.path = nodes[n].path /\ r.par = nodes[n].par
      /\ r.parents = nodes[n].parents \cup {node} /\ r.children = nodes[n].children
      /\ r.label = nodes[n].label
  BY <1>5, <1>7 DEF IsNode
<1> HIDE DEF r, n
<1>9. r.parents \subseteq DOMAIN nodes /\ r.parents # {}
  BY <1>3, <1>5, <1>8
<1>10. /\ NodesTyped' /\ NodesKept
      /\ DOMAIN nodes' = DOMAIN nodes
      /\ nodes'[n] = r
      /\ \A m \in DOMAIN nodes : m # n => nodes'[m] = nodes[m]
  BY <1>2, <1>4, <1>5, <1>6, <1>8, <1>9, NodeChanged DEF Inv1, Typed
<1>11. Typed'
  BY <1>1, <1>2, <1>3, <1>10 DEF Inv1, Typed
<1>12. InTurn'
  BY <1>1, <1>3, <1>8, <1>9, <1>10 DEF Inv1, InTurn
<1> QED BY <1>10, <1>11, <1>12 DEF Inv1

\* The node that rule 1.b adds to the others.
ChildAdded ==
    LET id == Len(nodes) + 1 IN
    /\ id \notin DOMAIN nodes
    /\ DOMAIN nodes' = DOMAIN nodes \cup {id}
    /\ \A n \in DOMAIN nodes : nodes'[n].parents = nodes[n].parents
    /\ \A n \in DOMAIN nodes : nodes'[n].label = nodes[n].label
    /\ \A n \in DOMAIN nodes : nodes'[n].status = nodes[n].status
    /\ \A n \in DOMAIN nodes : n = node \/ nodes'[n].children = nodes[n].children
    /\ nodes'[id].status = IF CanPrune(NewPath, open) THEN "Closed" ELSE "Open"
    /\ nodes'[id].label = <<>>
    /\ nodes'[id].path = NewPath
    /\ nodes'[id].parents = {node}
    /\ nodes'[id].par = NewNodeParameters(nodes[node].par, Arc)
    /\ open' = IF CanPrune(NewPath, open) THEN open ELSE Append(open, id)
    /\ lookup' = [s \in DOMAIN lookup \cup {Range(NewPath)} |->
                      IF s = Range(NewPath) THEN id ELSE lookup[s]]

\* Rule 1.b adds one node to the graph, the path lookup and, at most, open_nodes.
LEMMA GenerateNodeTyped == Inv1 /\ GenerateNode => Inv1' /\ NodesKept /\ ChildAdded
<1> SUFFICES ASSUME Inv1, GenerateNode
             PROVE  Inv1' /\ NodesKept /\ ChildAdded
  OBVIOUS
<1> DEFINE id == Len(nodes) + 1
           closed == CanPrune(NewPath, open)
           status == IF closed THEN "Closed" ELSE "Open"
           child == NewNode(NewPath, {node}, <<>>, NewNodeParameters(nodes[node].par, Arc))
           new == [child EXCEPT !.status = status]
           old == [nodes[node] EXCEPT !.children =
                       [a \in DOMAIN nodes[node].children \cup {Arc} |->
                            IF a = Arc THEN id ELSE nodes[node].children[a]]]
           others == [nodes EXCEPT ![node] = old]
<1>1. /\ param' = param /\ limit' = limit /\ labelNodes' = labelNodes
      /\ nodeLabels' = nodeLabels /\ pathLabels' = pathLabels
      /\ node' = node /\ fresh' = fresh /\ greater' = greater
  BY DEF GenerateNode, found
<1>2. Elements' = Elements
  BY <1>1 DEF Elements
<1>3. /\ pc = "expand" /\ node \in DOMAIN nodes /\ IsNode(nodes[node], Elements)
      /\ nodes[node].parents \subseteq DOMAIN nodes
      /\ Range(nodes[node].children) \subseteq DOMAIN nodes
      /\ arcs' \in Seq(Elements) /\ pc' = IF arcs' = <<>> THEN "loop" ELSE "expand"
      /\ NewPath \in Seq(Elements)
  BY Expanded DEF GenerateNode
<1>4. PICK k \in Nat : Len(nodes) = k /\ DOMAIN nodes = 1 .. k
  BY NodesDomain DEF Inv1, Typed, NodesTyped
<1>5. /\ nodes' = Append(others, new)
      /\ lookup' = [s \in DOMAIN lookup \cup {Range(NewPath)} |->
                      IF s = Range(NewPath) THEN id ELSE lookup[s]]
      /\ open' = IF closed THEN open ELSE Append(open, id)
  BY DEF GenerateNode, NextId, Enqueue
<1>6. /\ IsNode(old, Elements) /\ old.status = nodes[node].status
      /\ old.path = nodes[node].path /\ old.par = nodes[node].par
      /\ old.parents = nodes[node].parents /\ old.label = nodes[node].label
      /\ Range(old.children) \subseteq Range(nodes[node].children) \cup {id}
  <2> DEFINE children == [a \in DOMAIN nodes[node].children \cup {Arc} |->
                            IF a = Arc THEN id ELSE nodes[node].children[a]]
  <2>1. Range(children) \subseteq Range(nodes[node].children) \cup {id}
    BY DEF Range
  <2> HIDE DEF children, id
  <2>2. old = [nodes[node] EXCEPT !.children = children]
    BY DEF children
  <2> HIDE DEF old
  <2> QED BY <1>3, <2>1, <2>2 DEF IsNode
<1>7. /\ IsNode(new, Elements) /\ new.path = NewPath /\ new.parents = {node}
      /\ new.children = EmptyFunction /\ new.label = <<>>
      /\ new.par = NewNodeParameters(nodes[node].par, Arc)
      /\ new.status = status
  <2>1. <<>> \in Seq(Elements) /\ status \in Status
    BY EmptySeq DEF Status
  <2>2. {node} \in SUBSET Nat
    BY <1>3, <1>4
  <2>3. /\ IsNode(child, Elements) /\ child.path = NewPath /\ child.parents = {node}
        /\ child.children = EmptyFunction /\ child.label = <<>>
        /\ child.par = NewNodeParameters(nodes[node].par, Arc)
    BY <1>3, <2>1, <2>2 DEF NewNode, IsNode, Status
  <2> HIDE DEF child, status
  <2> QED BY <2>1, <2>3 DEF IsNode
<1>8. Range(new.children) = {}
  BY <1>7 DEF EmptyFunction, Range
<1>a. open' = IF CanPrune(NewPath, open) THEN open ELSE Append(open, id)
  BY <1>5
<1>b. new.status = IF CanPrune(NewPath, open) THEN "Closed" ELSE "Open"
  BY <1>7
<1> HIDE DEF old, new, status, closed
<1>9. /\ IsNodes(others, Elements) /\ Len(others) = k /\ DOMAIN others = 1 .. k
      /\ others[node] = old /\ \A m \in DOMAIN nodes : m # node => others[m] = nodes[m]
  <2>1. IsNodes(nodes, Elements) /\ IsNode(old, Elements)
    BY <1>6 DEF Inv1, Typed, NodesTyped
  <2>2. /\ IsNodes(others, Elements) /\ Len(others) = Len(nodes) /\ DOMAIN others = DOMAIN nodes
        /\ others[node] = old /\ \A m \in DOMAIN nodes : m # node => others[m] = nodes[m]
    BY <1>3, <2>1, NodesUpdated
  <2> HIDE DEF others
  <2> QED BY <1>4, <2>2
<1> HIDE DEF others
<1>10. /\ IsNodes(nodes', Elements) /\ DOMAIN nodes' = 1 .. k + 1
       /\ nodes'[k + 1] = new /\ \A m \in 1 .. k : nodes'[m] = others[m]
  BY <1>5, <1>7, <1>9, NodesAdded
<1>11. \A m \in DOMAIN nodes' : m \in DOMAIN nodes \/ m = k + 1
  BY <1>4, <1>10
<1>12. /\ nodes'[node] = old /\ \A m \in DOMAIN nodes : m # node => nodes'[m] = nodes[m]
       /\ DOMAIN nodes \subseteq DOMAIN nodes' /\ k + 1 \in DOMAIN nodes' /\ id = k + 1
  BY <1>3, <1>4, <1>9, <1>10
<1> HIDE DEF id
<1>13. ASSUME NEW m \in DOMAIN nodes
       PROVE  /\ nodes'[m].path = nodes[m].path /\ nodes'[m].par = nodes[m].par
              /\ nodes'[m].status = nodes[m].status /\ nodes'[m].parents = nodes[m].parents
              /\ nodes'[m].label = nodes[m].label
              /\ Range(nodes'[m].children) \subseteq Range(nodes[m].children) \cup {id}
              /\ m = node \/ nodes'[m].children = nodes[m].children
  <2>1. CASE m = node
    BY <2>1, <1>6, <1>12
  <2>2. CASE m # node
    BY <2>2, <1>12
  <2> QED BY <2>1, <2>2
<1>14. NodesKept
  BY <1>12, <1>13 DEF NodesKept
<1>15. NodesTyped'
  <2>1. ASSUME NEW m \in DOMAIN nodes'
        PROVE  /\ nodes'[m].parents \subseteq DOMAIN nodes'
               /\ Range(nodes'[m].children) \subseteq DOMAIN nodes'
    <3>1. CASE m \in DOMAIN nodes
      BY <3>1, <1>12, <1>13 DEF Inv1, Typed, NodesTyped
    <3>2. CASE m = k + 1
      BY <3>2, <1>3, <1>7, <1>8, <1>10, <1>12
    <3> QED BY <3>1, <3>2, <1>11
  <2> QED BY <2>1, <1>2, <1>10 DEF NodesTyped
<1>16. open' \in Seq(DOMAIN nodes')
  <2>1. open \in Seq(DOMAIN nodes')
    BY <1>12, SeqMonotonic DEF Inv1, Typed
  <2> QED BY <2>1, <1>5, <1>12, AppendProperties
<1>17. /\ DOMAIN lookup' \subseteq SUBSET Elements
       /\ \A s \in DOMAIN lookup' : lookup'[s] \in DOMAIN nodes'
  <2>1. Range(NewPath) \in SUBSET Elements
    BY <1>3, RangeOfSeq
  <2>2. DOMAIN lookup' = DOMAIN lookup \cup {Range(NewPath)}
    BY <1>5
  <2>3. \A s \in DOMAIN lookup' : lookup'[s] = IF s = Range(NewPath) THEN id ELSE lookup[s]
    BY <1>5
  <2> QED BY <2>1, <2>2, <2>3, <1>12 DEF Inv1, Typed
<1>18. Typed'
  BY <1>1, <1>2, <1>3, <1>12, <1>15, <1>16, <1>17 DEF Inv1, Typed
<1>19. InTurn'
  <2>1. ASSUME NEW m \in DOMAIN nodes', nodes'[m].status = "Open", nodes'[m].parents = {}
        PROVE  nodes'[m].label # <<>> /\ nodes'[m].path = <<>>
    <3>1. m \in DOMAIN nodes
      BY <1>7, <1>10, <1>11, <2>1
    <3> QED BY <3>1, <2>1, <1>13 DEF Inv1, InTurn
  <2> QED BY <2>1, <1>1, <1>3, <1>12 DEF Inv1, InTurn
<1>20. ChildAdded
  <2>1. id \notin DOMAIN nodes /\ DOMAIN nodes' = DOMAIN nodes \cup {id}
    BY <1>4, <1>10, <1>12
  <2>2. nodes'[id] = new
    BY <1>10, <1>12
  <2> QED BY <2>1, <2>2, <1>5, <1>7, <1>13, <1>a, <1>b DEF ChildAdded, id
<1> QED BY <1>14, <1>18, <1>19, <1>20 DEF Inv1

\* Every step keeps the graph well formed, and the nodes it finds.
LEMMA TypedStep ==
    Inv1 /\ RestAtNodes /\ LabelerStaysInC /\ [Next]_vars => Inv1' /\ NodesKept
BY StopsTyped, CreateRootTyped, VisitRootTyped, SkipTyped, ReuseLabelTyped, ComputeLabelTyped,
   FindPathLabelTyped, ReplaceLabelTyped, AddLabelTyped, ReuseNodeTyped, GenerateNodeTyped, Zenon
   DEF Next

----------------------------------------------------------------------------
\* What a step may change: the settings never, the reports only where one is found,
\* the label at hand only where it is computed, the arcs at hand only where a node is
\* to be expanded, and the ids of the graph only where a node is made.
LEMMA Changes ==
    ASSUME [Next]_vars
    PROVE  /\ param' = param /\ limit' = limit
           /\ CreateRoot \/ GenerateNode \/ DOMAIN nodes' = DOMAIN nodes
           /\ CreateRoot \/ AddLabel \/ nodeLabels' = nodeLabels
           /\ FindPathLabel \/ pathLabels' = pathLabels
           /\ pc' = "compare" =>
                 ComputeLabel \/ (pc = "compare" /\ fresh' = fresh /\ node' = node)
           /\ pc' = "expand" =>
                 \/ VisitRoot \/ ReuseLabel \/ AddLabel
                 \/ pc = "expand" /\ node' = node /\ (TakeArc \/ arcs' = arcs)
<1>1. CASE CreateRoot
  BY <1>1 DEF CreateRoot
<1>2. CASE GenerateNode
  BY <1>2 DEF GenerateNode, TakeArc, found
<1>3. CASE AddLabel
  BY <1>3 DEF AddLabel
<1>4. CASE FindPathLabel
  BY <1>4 DEF FindPathLabel, work
<1>5. CASE NoRoot \/ NothingOpen \/ UNCHANGED vars
  BY <1>5 DEF NoRoot, NothingOpen, vars, dag, found, work
<1>6. CASE VisitRoot \/ Skip
  BY <1>6 DEF VisitRoot, Skip, found, work
<1>7. CASE ReuseLabel \/ ComputeLabel
  BY <1>7 DEF ReuseLabel, ComputeLabel, found
<1>8. CASE ReplaceLabel
  BY <1>8 DEF ReplaceLabel, Replace, found
<1>9. CASE ReuseNode
  BY <1>9 DEF ReuseNode, TakeArc, found
<1> QED BY <1>1, <1>2, <1>3, <1>4, <1>5, <1>6, <1>7, <1>8, <1>9, Zenon DEF Next

\* The arcs still to be taken, and the label just computed, share no element with
\* the path.
Disjoint ==
    /\ pc = "expand" => Range(arcs) \cap PathOf(node) = {}
    /\ pc = "compare" => Range(fresh) \cap PathOf(node) = {}

\* What get_label writes into parameters does not change what they describe.
LEMMA RecordedDescribes ==
    ASSUME NEW p, NEW q, NEW P, DescribesRest(p, P), SameProblem(p, q)
    PROVE  DescribesRest(q, P)
<1>1. /\ GetType(q) = GetType(p) /\ (Minimal(q) <=> Minimal(p)) /\ GetLabel(q) = GetLabel(p)
      /\ Range(q.c) = Range(p.c)
      /\ \A S \in SUBSET Range(p.c) : Inconsistent(q, S) <=> Inconsistent(p, S)
  BY DEF SameProblem
<1> QED BY <1>1, Zenon DEF DescribesRest

\* The parameters of a child describe what is left below the longer path.
LEMMA ChildDescribes ==
    ASSUME NEW p, NEW P, DescribesRest(p, P), NEW a, a \in Elements \ P, RestIsRight(p, a)
    PROVE  DescribesRest(NewNodeParameters(p, a), P \cup {a})
<1> DEFINE q == NewNodeParameters(p, a)
<1>1. /\ GetType(q) = GetType(p)
      /\ Minimal(q) <=> Minimal(p)
      /\ Range(q.c) = Range(p.c) \ {a}
      /\ GetLabel(q) # <<>> => GetLabel(p) # <<>>
      /\ GetType(p) = "CONFLICT" \/ Minimal(p) \/ GetLabel(q) # <<>> =>
            \A S \in SUBSET Range(q.c) :
                Inconsistent(q, S) <=>
                    Inconsistent(p, IF GetType(p) = "CONFLICT" THEN S ELSE S \cup {a})
  BY DEF RestIsRight
<1> HIDE DEF q
<1>2. Range(q.c) = Elements \ (P \cup {a}) /\ Range(p.c) = Elements \ P
  BY <1>1 DEF DescribesRest
<1>3. ASSUME GetType(q) = "CONFLICT" \/ Minimal(q) \/ GetLabel(q) # <<>>,
             NEW S \in SUBSET Range(q.c)
      PROVE  Inconsistent(q, S) <=>
                 Inconsistent(param, IF GetType(q) = "CONFLICT" THEN S ELSE S \cup (P \cup {a}))
  <2>1. \A T \in SUBSET Range(p.c) :
            Inconsistent(p, T) <=>
                Inconsistent(param, IF GetType(p) = "CONFLICT" THEN T ELSE T \cup P)
    BY <1>1, <1>3 DEF DescribesRest
  <2>2. S \in SUBSET Range(p.c) /\ S \cup {a} \in SUBSET Range(p.c)
    BY <1>2
  <2>3. CASE GetType(p) = "CONFLICT"
    BY <1>1, <1>3, <2>1, <2>2, <2>3
  <2>4. CASE GetType(p) # "CONFLICT"
    <3>1. Inconsistent(q, S) <=> Inconsistent(p, S \cup {a})
      BY <1>1, <1>3, <2>4
    <3>2. Inconsistent(p, S \cup {a}) <=> Inconsistent(param, (S \cup {a}) \cup P)
      BY <2>1, <2>2, <2>4
    <3>3. (S \cup {a}) \cup P = S \cup (P \cup {a})
      OBVIOUS
    <3> QED BY <3>1, <3>2, <3>3, <2>4, <1>1
  <2> QED BY <2>3, <2>4
<1>4. GetType(q) = GetType(param) /\ (Minimal(q) <=> Minimal(param))
  BY <1>1 DEF DescribesRest
<1>5. DescribesRest(q, P \cup {a})
  BY <1>2, <1>3, <1>4 DEF DescribesRest
<1> QED BY <1>5 DEF q

\* The initial parameters describe all there is.
LEMMA RootDescribes == DescribesRest(param, {})
<1>1. \A S : S \cup {} = S
  OBVIOUS
<1> QED BY <1>1 DEF DescribesRest, Elements

\* The parameters of a node keep leaving out what is on its path.
LEMMA RestStep ==
    Inv1 /\ Disjoint /\ RestAtNodes /\ LabelerStaysInC /\ [Next]_vars => RestAtNodes'
<1> SUFFICES ASSUME Inv1, Disjoint, RestAtNodes, LabelerStaysInC, [Next]_vars
             PROVE  RestAtNodes'
  OBVIOUS
<1>1. Elements' = Elements
  BY Changes DEF Elements
<1>2. ASSUME NEW n \in DOMAIN nodes'
      PROVE  Range(nodes'[n].par.c) = Elements \ Range(nodes'[n].path)
  <2>1. CASE n \in DOMAIN nodes
    <3>1. /\ Range(nodes'[n].path) = PathOf(n)
          /\ nodes'[n].par = nodes[n].par \/ RecordedAt(n, nodes'[n].par)
      BY <2>1, TypedStep DEF NodesKept, PathOf
    <3>2. Range(nodes[n].par.c) = Elements \ PathOf(n)
      BY <2>1 DEF RestAtNodes
    <3>3. CASE RecordedAt(n, nodes'[n].par)
      BY <3>1, <3>2, <3>3 DEF RecordedAt, LabelerStaysInC, StaysInC
    <3> QED BY <3>1, <3>2, <3>3
  <2>2. CASE n \notin DOMAIN nodes /\ CreateRoot
    <3>1. nodes' = <<NewNode(<<>>, {}, GetLabel(param), Recorded(param))>> /\ pc = "root"
          /\ GetLabel(param) # <<>>
      BY <2>2 DEF CreateRoot
    <3>2. nodes'[n].par = Recorded(param) /\ Range(nodes'[n].path) = {}
      BY <3>1 DEF NewNode, Range
    <3>3. Range(Recorded(param).c) = Elements
      BY <3>1 DEF LabelerStaysInC, StaysInC, Elements
    <3> QED BY <3>2, <3>3
  <2>3. CASE n \notin DOMAIN nodes /\ GenerateNode
    <3>1. /\ nodes'[n].path = NewPath
          /\ nodes'[n].par = NewNodeParameters(nodes[node].par, Arc)
      BY <2>3, GenerateNodeTyped DEF ChildAdded
    <3>2. /\ pc = "expand" /\ node \in DOMAIN nodes
          /\ Range(NewPath) = PathOf(node) \cup {Arc}
      BY <2>3, Expanded DEF GenerateNode
    <3>3. Range(nodes[node].par.c) = Elements \ PathOf(node)
      BY <3>2 DEF RestAtNodes
    <3>4. Range(NewNodeParameters(nodes[node].par, Arc).c) = Range(nodes[node].par.c) \ {Arc}
      BY <3>2 DEF LabelerStaysInC
    <3> QED BY <3>1, <3>2, <3>3, <3>4
  <2> QED BY <2>1, <2>2, <2>3, Changes
<1> QED BY <1>1, <1>2 DEF RestAtNodes, PathOf

\* The parameters of a node keep describing the rest below its path.
LEMMA DescribedStep ==
    Inv1 /\ Disjoint /\ RestAtNodes /\ Described /\ LabelerKeepsPromise /\ [Next]_vars
        => Described'
<1> SUFFICES ASSUME Inv1, Disjoint, RestAtNodes, Described, LabelerKeepsPromise, [Next]_vars
             PROVE  Described'
  OBVIOUS
<1>0. LabelerStaysInC
  BY PromiseStaysInC
<1>1. param' = param /\ Elements' = Elements
  BY Changes DEF Elements
<1>3. ASSUME NEW n \in DOMAIN nodes'
      PROVE  DescribesRest(nodes'[n].par, Range(nodes'[n].path))
  <2>1. CASE n \in DOMAIN nodes
    <3>1. /\ Range(nodes'[n].path) = PathOf(n)
          /\ nodes'[n].par = nodes[n].par \/ RecordedAt(n, nodes'[n].par)
      BY <1>0, <2>1, TypedStep DEF NodesKept, PathOf
    <3>2. DescribesRest(nodes[n].par, PathOf(n))
      BY <2>1 DEF Described
    <3>3. CASE RecordedAt(n, nodes'[n].par)
      <4>1. SameProblem(nodes[n].par, nodes'[n].par)
        BY <3>3 DEF RecordedAt, LabelerKeepsPromise
      <4> QED BY <3>1, <3>2, <4>1, RecordedDescribes
    <3> QED BY <3>1, <3>2, <3>3
  <2>2. CASE n \notin DOMAIN nodes /\ CreateRoot
    <3>1. nodes' = <<NewNode(<<>>, {}, GetLabel(param), Recorded(param))>> /\ pc = "root"
          /\ GetLabel(param) # <<>>
      BY <2>2 DEF CreateRoot
    <3>2. nodes'[n].par = Recorded(param) /\ Range(nodes'[n].path) = {}
      BY <3>1 DEF NewNode, Range
    <3>3. SameProblem(param, Recorded(param))
      BY <3>1 DEF LabelerKeepsPromise
    <3> QED BY <3>2, <3>3, RootDescribes, RecordedDescribes
  <2>3. CASE n \notin DOMAIN nodes /\ GenerateNode
    <3>1. /\ nodes'[n].path = NewPath
          /\ nodes'[n].par = NewNodeParameters(nodes[node].par, Arc)
      BY <2>3, GenerateNodeTyped DEF ChildAdded
    <3>2. /\ pc = "expand" /\ node \in DOMAIN nodes /\ Arc \in Elements /\ Arc \in Range(arcs)
          /\ Range(NewPath) = PathOf(node) \cup {Arc}
      BY <2>3, Expanded DEF GenerateNode
    <3>3. Arc \in Elements \ PathOf(node)
      BY <3>2 DEF Disjoint
    <3>4. DescribesRest(nodes[node].par, PathOf(node)) /\ RestIsRight(nodes[node].par, Arc)
      BY <3>2 DEF Described, LabelerKeepsPromise
    <3> QED BY <3>1, <3>2, <3>3, <3>4, ChildDescribes
  <2> QED BY <2>1, <2>2, <2>3, Changes
<1>4. \A n \in DOMAIN nodes' : DescribesRest(nodes[n].par, PathOf(n))'
  BY <1>1, <1>3 DEF DescribesRest, PathOf
<1> QED BY <1>4 DEF Described

\* No element is met twice on a path.
LEMMA DisjointStep ==
    Inv1 /\ Disjoint /\ RestAtNodes /\ LabelerStaysInC /\ [Next]_vars => Disjoint'
<1> SUFFICES ASSUME Inv1, Disjoint, RestAtNodes, LabelerStaysInC, [Next]_vars
             PROVE  Disjoint'
  OBVIOUS
<1>1. \A n \in DOMAIN nodes : Range(nodes'[n].path) = PathOf(n)
  BY TypedStep DEF NodesKept, PathOf
<1>2. ASSUME pc' = "expand"
      PROVE  Range(arcs') \cap Range(nodes'[node'].path) = {}
  <2>1. CASE VisitRoot
    <3>1. /\ NextNode \in DOMAIN nodes /\ node' = NextNode /\ arcs' = nodes[NextNode].label
          /\ nodes[NextNode].status = "Open" /\ nodes[NextNode].parents = {}
      BY <2>1, HeadOfOpen DEF VisitRoot, IsRoot, Inv1
    <3>2. PathOf(NextNode) = {}
      BY <3>1 DEF Inv1, InTurn, PathOf, Range
    <3> QED BY <3>1, <3>2, <1>1
  <2>2. CASE ReuseLabel
    <3>1. NextNode \in DOMAIN nodes /\ node' = NextNode
      BY <2>2, Visited DEF ReuseLabel
    <3>2. Range(arcs') \cap PathOf(NextNode) = {}
      BY <2>2 DEF ReuseLabel, Reusable
    <3> QED BY <3>1, <3>2, <1>1
  <2>3. CASE AddLabel
    <3>1. pc = "compare" /\ node' = node /\ arcs' = fresh
      BY <2>3 DEF AddLabel
    <3> QED BY <3>1, <1>1 DEF Disjoint, Inv1, InTurn
  <2>4. CASE pc = "expand" /\ node' = node /\ (TakeArc \/ arcs' = arcs)
    <3>1. Range(arcs') \subseteq Range(arcs)
      BY <2>4, Expanded
    <3> QED BY <2>4, <3>1, <1>1 DEF Disjoint, Inv1, InTurn
  <2> QED BY <1>2, <2>1, <2>2, <2>3, <2>4, Changes
<1>3. ASSUME pc' = "compare"
      PROVE  Range(fresh') \cap Range(nodes'[node'].path) = {}
  <2>1. CASE ComputeLabel
    <3> DEFINE p == nodes[NextNode].par
    <3>1. /\ pc = "loop" /\ open # <<>> /\ NextNode \in DOMAIN nodes
          /\ node' = NextNode /\ fresh' = GetLabel(p) /\ GetLabel(p) # <<>>
      BY <2>1, Visited DEF ComputeLabel
    <3>2. GetLabel(p) \in Seq(Range(p.c))
      BY <3>1 DEF LabelerStaysInC, StaysInC
    <3>3. Range(p.c) = Elements \ PathOf(NextNode)
      BY <3>1 DEF RestAtNodes
    <3>4. Range(fresh') \subseteq Elements \ PathOf(NextNode)
      BY <3>1, <3>2, <3>3, RangeOfSeq
    <3> QED BY <3>1, <3>4, <1>1
  <2>2. CASE pc = "compare" /\ fresh' = fresh /\ node' = node
    BY <2>2, <1>1 DEF Disjoint, Inv1, InTurn
  <2> QED BY <1>3, <2>1, <2>2, Changes
<1> QED BY <1>2, <1>3 DEF Disjoint, PathOf

----------------------------------------------------------------------------
\* A label is right for the whole knowledge base.
RightLabel(L) ==
    IF GetType(param) = "CONFLICT"
    THEN IsConflict(L) /\ (Minimal(param) => L \in MinimalConflicts)
    ELSE IsDiagnosis(L) /\ (Minimal(param) => L \in MinimalDiagnoses)

\* A path that needs no label is right.
RightPath(P) ==
    IF GetType(param) = "CONFLICT" THEN IsDiagnosis(P)
    ELSE Minimal(param) => IsConflict(P)

\* Every report is right, and so is the label that is about to be one.
Sound ==
    /\ DOMAIN nodes # {} /\ GetType(param) # "CONFLICT" => Inconsistent(param, Elements)
    /\ \A i \in DOMAIN nodeLabels : RightLabel(Range(nodeLabels[i]))
    /\ \A i \in DOMAIN pathLabels : RightPath(Range(pathLabels[i]))
    /\ pc = "compare" => RightLabel(Range(fresh))

\* A label that is right for the rest below a path is right for the whole.
LEMMA LabelRight ==
    ASSUME NEW p, NEW P \in SUBSET Elements, DescribesRest(p, P), LabelIsRight(p),
           GetLabel(p) # <<>>
    PROVE  RightLabel(Range(GetLabel(p)))
<1> DEFINE L == Range(GetLabel(p))
           C == Range(p.c)
<1>1. /\ GetType(p) = GetType(param) /\ (Minimal(p) <=> Minimal(param))
      /\ C = Elements \ P
  BY DEF DescribesRest
<1>2. L \subseteq C
  BY RangeOfSeq DEF LabelIsRight
<1>3. \A S \in SUBSET C :
          Inconsistent(p, S) <=>
              Inconsistent(param, IF GetType(p) = "CONFLICT" THEN S ELSE S \cup P)
  BY DEF DescribesRest
<1>4. IF GetType(p) = "CONFLICT"
      THEN Inconsistent(p, L) /\ (Minimal(p) => \A x \in L : ~Inconsistent(p, L \ {x}))
      ELSE /\ ~Inconsistent(p, C \ L)
           /\ Minimal(p) => \A x \in L : Inconsistent(p, C \ (L \ {x}))
  BY DEF LabelIsRight
<1> HIDE DEF L, C
<1>5. CASE GetType(p) = "CONFLICT"
  <2>1. Inconsistent(param, L)
    BY <1>2, <1>3, <1>4, <1>5
  <2>2. ASSUME Minimal(p), NEW x \in L
        PROVE  ~Inconsistent(param, L \ {x})
    <3>1. L \ {x} \in SUBSET C
      BY <1>2
    <3> QED BY <3>1, <1>3, <1>4, <1>5, <2>2
  <2>3. IsConflict(L) /\ L \in SUBSET Elements
    BY <1>1, <1>2, <2>1 DEF IsConflict
  <2>4. Minimal(param) => L \in MinimalConflicts
    BY <1>1, <2>2, <2>3 DEF MinimalConflicts, IsConflict
  <2> QED BY <1>1, <1>5, <2>3, <2>4 DEF RightLabel, L
<1>6. CASE GetType(p) # "CONFLICT"
  <2>1. ~Inconsistent(param, Elements \ L)
    <3>1. C \ L \in SUBSET C /\ (C \ L) \cup P = Elements \ L
      BY <1>1, <1>2
    <3> QED BY <3>1, <1>3, <1>4, <1>6
  <2>2. ASSUME Minimal(p), NEW x \in L
        PROVE  Inconsistent(param, Elements \ (L \ {x}))
    <3>1. C \ (L \ {x}) \in SUBSET C /\ (C \ (L \ {x})) \cup P = Elements \ (L \ {x})
      BY <1>1, <1>2
    <3> QED BY <3>1, <1>3, <1>4, <1>6, <2>2
  <2>3. IsDiagnosis(L) /\ L \in SUBSET Elements
    BY <1>1, <1>2, <2>1 DEF IsDiagnosis
  <2>4. Minimal(param) => L \in MinimalDiagnoses
    BY <1>1, <2>2, <2>3 DEF MinimalDiagnoses, IsDiagnosis
  <2> QED BY <1>1, <1>6, <2>3, <2>4 DEF RightLabel, L
<1> QED BY <1>5, <1>6

\* A path is an answer where nothing is left to label below it.
LEMMA PathRight ==
    ASSUME NEW p, NEW P \in SUBSET Elements, DescribesRest(p, P), NoLabelIsRight(p),
           GetType(param) # "CONFLICT" => Inconsistent(param, Elements)
    PROVE  RightPath(P)
<1>1. /\ GetType(p) = GetType(param) /\ (Minimal(p) <=> Minimal(param))
      /\ Range(p.c) = Elements \ P
  BY DEF DescribesRest
<1>2. GetType(p) = "CONFLICT" \/ Minimal(p) =>
          \A S \in SUBSET Range(p.c) :
              Inconsistent(p, S) <=>
                  Inconsistent(param, IF GetType(p) = "CONFLICT" THEN S ELSE S \cup P)
  BY DEF DescribesRest
<1>3. CASE GetType(p) = "CONFLICT"
  <2>1. ~Inconsistent(p, Elements \ P)
    BY <1>1, <1>3 DEF NoLabelIsRight
  <2>2. ~Inconsistent(param, Elements \ P)
    BY <1>1, <1>2, <1>3, <2>1
  <2> QED BY <1>1, <1>3, <2>2 DEF RightPath, IsDiagnosis
<1>4. CASE GetType(p) # "CONFLICT" /\ Minimal(p)
  <2>1. Inconsistent(p, {}) \/ ~Inconsistent(p, Elements \ P)
    BY <1>1, <1>4 DEF NoLabelIsRight
  <2>2. {} \cup P = P /\ (Elements \ P) \cup P = Elements
    OBVIOUS
  <2>3. Inconsistent(p, {}) <=> Inconsistent(param, P)
    BY <1>1, <1>2, <1>4, <2>2
  <2>4. Inconsistent(p, Elements \ P) <=> Inconsistent(param, Elements)
    BY <1>1, <1>2, <1>4, <2>2
  <2> QED BY <1>1, <1>4, <2>1, <2>3, <2>4 DEF RightPath, IsConflict
<1>5. CASE GetType(p) # "CONFLICT" /\ ~Minimal(p)
  BY <1>1, <1>5 DEF RightPath
<1> QED BY <1>3, <1>4, <1>5

\* What is right stays right: the knowledge base is the same.
LEMMA RightKept ==
    ASSUME param' = param
    PROVE  /\ Elements' = Elements
           /\ \A L : RightLabel(L) => RightLabel(L)'
           /\ \A P : RightPath(P) => RightPath(P)'
BY DEF Elements, RightLabel, RightPath, IsConflict, IsDiagnosis, MinimalConflicts, MinimalDiagnoses

\* A list of labels with one more.
LEMMA Appended ==
    ASSUME NEW E, NEW s \in Seq(Seq(E)), NEW x \in Seq(E)
    PROVE  /\ Append(s, x) \in Seq(Seq(E))
           /\ Len(s) \in Nat /\ DOMAIN s = 1 .. Len(s)
           /\ Len(Append(s, x)) = Len(s) + 1
           /\ Append(s, x)[Len(s) + 1] = x
           /\ \A i \in DOMAIN s : Append(s, x)[i] = s[i]
           /\ \A i \in DOMAIN Append(s, x) : i \in DOMAIN s \/ i = Len(s) + 1
<1>1. PICK k \in Nat : Len(s) = k /\ DOMAIN s = 1 .. k
  BY LenProperties
<1>2. /\ Append(s, x) \in Seq(Seq(E)) /\ Len(Append(s, x)) = k + 1
      /\ \A i \in 1 .. k : Append(s, x)[i] = s[i]
      /\ Append(s, x)[k + 1] = x
  BY <1>1, AppendProperties
<1>3. DOMAIN Append(s, x) = 1 .. k + 1
  BY <1>1, <1>2, LenProperties
<1>4. \A i \in 1 .. k + 1 : i \in 1 .. k \/ i = k + 1
  OBVIOUS
<1> QED BY <1>1, <1>2, <1>3, <1>4

\* Every step keeps the reports right.
LEMMA SoundStep ==
    Inv1 /\ Disjoint /\ Described /\ Sound /\ LabelerKeepsPromise /\ [Next]_vars => Sound'
<1> SUFFICES ASSUME Inv1, Disjoint, Described, Sound, LabelerKeepsPromise, [Next]_vars
             PROVE  Sound'
  OBVIOUS
<1>1. /\ param' = param /\ Elements' = Elements
      /\ \A L : RightLabel(L) => RightLabel(L)'
      /\ \A P : RightPath(P) => RightPath(P)'
  BY Changes, RightKept
<1>2. DOMAIN nodes' # {} /\ GetType(param) # "CONFLICT" => Inconsistent(param, Elements)
  <2>1. CASE CreateRoot
    BY <2>1 DEF CreateRoot, LabelerKeepsPromise, LabelIsRight, Elements
  <2>2. CASE GenerateNode
    BY <2>2, Expanded DEF GenerateNode, Sound
  <2>3. CASE DOMAIN nodes' = DOMAIN nodes
    BY <2>3 DEF Sound
  <2> QED BY <2>1, <2>2, <2>3, Changes
<1>3. ASSUME NEW i \in DOMAIN nodeLabels'
      PROVE  RightLabel(Range(nodeLabels'[i]))
  <2>1. CASE CreateRoot
    <3>1. /\ nodeLabels' = <<GetLabel(param)>> /\ GetLabel(param) # <<>>
          /\ LabelIsRight(param)
      BY <2>1 DEF CreateRoot, LabelerKeepsPromise
    <3>2. nodeLabels'[i] = GetLabel(param)
      BY <3>1
    <3>3. DescribesRest(param, {})
      BY RootDescribes
    <3> QED BY <3>1, <3>2, <3>3, LabelRight
  <2>2. CASE AddLabel
    <3>1. nodeLabels' = Append(nodeLabels, fresh) /\ RightLabel(Range(fresh))
      BY <2>2 DEF AddLabel, Sound
    <3>2. \/ i \in DOMAIN nodeLabels /\ nodeLabels'[i] = nodeLabels[i]
          \/ nodeLabels'[i] = fresh
      BY <3>1, Appended DEF Inv1, Typed
    <3> QED BY <3>1, <3>2 DEF Sound
  <2>3. CASE nodeLabels' = nodeLabels
    BY <2>3 DEF Sound
  <2> QED BY <2>1, <2>2, <2>3, Changes
<1>4. ASSUME NEW i \in DOMAIN pathLabels'
      PROVE  RightPath(Range(pathLabels'[i]))
  <2>1. CASE FindPathLabel
    <3> DEFINE p == nodes[NextNode].par
               path == nodes[NextNode].path
    <3>1. /\ pc = "loop" /\ open # <<>> /\ NextNode \in DOMAIN nodes
          /\ IsNode(nodes[NextNode], Elements)
          /\ GetLabel(p) = <<>> /\ pathLabels' = Append(pathLabels, path)
      BY <2>1, Visited DEF FindPathLabel
    <3>2. path \in Seq(Elements) /\ Range(path) \in SUBSET Elements
      BY <3>1, RangeOfSeq DEF IsNode
    <3>3. DescribesRest(p, Range(path)) /\ NoLabelIsRight(p)
      BY <3>1 DEF Described, PathOf, LabelerKeepsPromise
    <3>4. RightPath(Range(path))
      BY <3>1, <3>2, <3>3, PathRight DEF Sound
    <3>5. \/ i \in DOMAIN pathLabels /\ pathLabels'[i] = pathLabels[i]
          \/ pathLabels'[i] = path
      BY <3>1, <3>2, Appended DEF Inv1, Typed
    <3> QED BY <3>4, <3>5 DEF Sound
  <2>2. CASE pathLabels' = pathLabels
    BY <2>2 DEF Sound
  <2> QED BY <2>1, <2>2, Changes
<1>5. ASSUME pc' = "compare"
      PROVE  RightLabel(Range(fresh'))
  <2>1. CASE ComputeLabel
    <3> DEFINE p == nodes[NextNode].par
               path == nodes[NextNode].path
    <3>1. /\ pc = "loop" /\ open # <<>> /\ NextNode \in DOMAIN nodes
          /\ IsNode(nodes[NextNode], Elements)
          /\ GetLabel(p) # <<>> /\ fresh' = GetLabel(p)
      BY <2>1, Visited DEF ComputeLabel
    <3>2. path \in Seq(Elements) /\ Range(path) \in SUBSET Elements
      BY <3>1, RangeOfSeq DEF IsNode
    <3>3. DescribesRest(p, Range(path)) /\ LabelIsRight(p)
      BY <3>1 DEF Described, PathOf, LabelerKeepsPromise
    <3> QED BY <3>1, <3>2, <3>3, LabelRight
  <2>2. CASE pc = "compare" /\ fresh' = fresh
    BY <2>2 DEF Sound
  <2> QED BY <1>5, <2>1, <2>2, Changes
<1>6. \A i \in DOMAIN nodeLabels' : RightLabel(Range(nodeLabels[i]))'
  BY <1>1, <1>3
<1>7. \A i \in DOMAIN pathLabels' : RightPath(Range(pathLabels[i]))'
  BY <1>1, <1>4
<1>8. pc' = "compare" => RightLabel(Range(fresh))'
  BY <1>1, <1>5
<1> QED BY <1>1, <1>2, <1>6, <1>7, <1>8 DEF Sound

----------------------------------------------------------------------------
\* No two places of a list hold the same set.
Apart(lists) ==
    \A i, j \in DOMAIN lists : Range(lists[i]) = Range(lists[j]) => i = j

\* No two reports are the same, and no known label is part of the fresh one.
Distinct ==
    /\ Apart(nodeLabels)
    /\ Apart(pathLabels)
    /\ pc = "compare" =>
          \A i \in DOMAIN nodeLabels : ~(Range(nodeLabels[i]) \subseteq Range(fresh))

\* A list of sets that are apart has as many of them as it has places.
LEMMA ApartCounted ==
    ASSUME NEW E, NEW lists \in Seq(Seq(E)), Apart(lists)
    PROVE  Cardinality(SetsOf(lists)) = Len(lists)
<1>1. PICK k \in Nat : Len(lists) = k /\ DOMAIN lists = 1 .. k
  BY LenProperties
<1> DEFINE f == [i \in 1 .. k |-> Range(lists[i])]
<1>2. f \in [1 .. k -> SetsOf(lists)]
  BY <1>1 DEF SetsOf
<1>3. \A i, j \in 1 .. k : f[i] = f[j] => i = j
  BY <1>1 DEF Apart
<1>4. \A S \in SetsOf(lists) : \E i \in 1 .. k : f[i] = S
  BY <1>1 DEF SetsOf
<1> HIDE DEF f
<1>5. f \in Bijection(1 .. k, SetsOf(lists))
  BY <1>2, <1>3, <1>4 DEF Bijection, Injection, Surjection, IsInjective
<1> QED BY <1>1, <1>5, FS_CountingElements DEF ExistsBijection

\* A list whose sets are apart stays so with one more that it does not have.
LEMMA ApartAppended ==
    ASSUME NEW E, NEW s \in Seq(Seq(E)), Apart(s), NEW x \in Seq(E),
           \A i \in DOMAIN s : Range(s[i]) # Range(x)
    PROVE  Apart(Append(s, x))
<1> DEFINE t == Append(s, x)
<1>1. /\ t[Len(s) + 1] = x
      /\ \A i \in DOMAIN s : t[i] = s[i]
      /\ \A i \in DOMAIN t : i \in DOMAIN s \/ i = Len(s) + 1
  BY Appended
<1> HIDE DEF t
<1>2. ASSUME NEW i \in DOMAIN t, NEW j \in DOMAIN t, Range(t[i]) = Range(t[j])
      PROVE  i = j
  <2>1. CASE i \in DOMAIN s /\ j \in DOMAIN s
    BY <1>1, <1>2, <2>1 DEF Apart
  <2>2. CASE ~(i \in DOMAIN s /\ j \in DOMAIN s)
    BY <1>1, <1>2, <2>2
  <2> QED BY <2>1, <2>2
<1> QED BY <1>2 DEF Apart, t

\* Every step keeps the reports apart: a label is only computed where every known one
\* meets the path, and so none is part of it; a path is only reported if no reported
\* one includes it.
LEMMA DistinctStep ==
    Inv1 /\ Disjoint /\ RestAtNodes /\ Distinct /\ LabelerStaysInC /\ [Next]_vars => Distinct'
<1> SUFFICES ASSUME Inv1, Disjoint, RestAtNodes, Distinct, LabelerStaysInC, [Next]_vars
             PROVE  Distinct'
  OBVIOUS
<1>1. Apart(nodeLabels')
  <2>1. CASE CreateRoot
    <3>1. nodeLabels' = <<GetLabel(param)>>
      BY <2>1 DEF CreateRoot
    <3> QED BY <3>1 DEF Apart
  <2>2. CASE AddLabel
    <3>1. nodeLabels' = Append(nodeLabels, fresh)
          /\ \A i \in DOMAIN nodeLabels : ~(Range(nodeLabels[i]) \subseteq Range(fresh))
      BY <2>2 DEF AddLabel, Distinct
    <3>2. \A i \in DOMAIN nodeLabels : Range(nodeLabels[i]) # Range(fresh)
      BY <3>1
    <3>3. nodeLabels \in Seq(Seq(Elements)) /\ fresh \in Seq(Elements) /\ Apart(nodeLabels)
      BY DEF Inv1, Typed, Distinct
    <3> QED BY <3>1, <3>2, <3>3, ApartAppended
  <2>3. CASE nodeLabels' = nodeLabels
    BY <2>3 DEF Distinct
  <2> QED BY <2>1, <2>2, <2>3, Changes
<1>2. Apart(pathLabels')
  <2>1. CASE FindPathLabel
    <3> DEFINE path == nodes[NextNode].path
    <3>1. /\ NextNode \in DOMAIN nodes /\ IsNode(nodes[NextNode], Elements)
          /\ ~CanPrune(path, Tail(open)) /\ pathLabels' = Append(pathLabels, path)
      BY <2>1, Visited DEF FindPathLabel, Visit
    <3>2. path \in Seq(Elements)
      BY <3>1 DEF IsNode
    <3>3. \A i \in DOMAIN pathLabels : Range(pathLabels[i]) # Range(path)
      BY <3>1 DEF CanPrune
    <3>4. pathLabels \in Seq(Seq(Elements)) /\ Apart(pathLabels)
      BY DEF Inv1, Typed, Distinct
    <3> HIDE DEF path
    <3> QED BY <3>1, <3>2, <3>3, <3>4, ApartAppended
  <2>2. CASE pathLabels' = pathLabels
    BY <2>2 DEF Distinct
  <2> QED BY <2>1, <2>2, Changes
<1>3. ASSUME pc' = "compare"
      PROVE  \A i \in DOMAIN nodeLabels' : ~(Range(nodeLabels'[i]) \subseteq Range(fresh'))
  <2>1. CASE ComputeLabel
    <3>1. /\ NextNode \in DOMAIN nodes /\ Reusable(NextNode) = {} /\ node' = NextNode
          /\ nodeLabels' = nodeLabels
      BY <2>1, Visited DEF ComputeLabel, found
    <3>2. \A i \in DOMAIN nodeLabels : Range(nodeLabels[i]) \cap PathOf(NextNode) # {}
      BY <3>1 DEF Reusable
    <3>3. Range(fresh') \cap Range(nodes'[node'].path) = {}
      BY <1>3, DisjointStep DEF Disjoint, PathOf
    <3>4. Range(nodes'[node'].path) = PathOf(NextNode)
      BY <3>1, TypedStep DEF NodesKept, PathOf
    <3> QED BY <3>1, <3>2, <3>3, <3>4
  <2>2. CASE pc = "compare" /\ fresh' = fresh /\ node' = node
    <3>1. nodeLabels' = nodeLabels
      BY <1>3, <2>2, Changes DEF CreateRoot, AddLabel
    <3> QED BY <2>2, <3>1 DEF Distinct
  <2> QED BY <1>3, <2>1, <2>2, Changes
<1> QED BY <1>1, <1>2, <1>3 DEF Distinct, Apart

----------------------------------------------------------------------------
\* While the search goes on no limit is reached, and none was ever passed.
Limited ==
    /\ pc \notin {"root", "done"} => ~ShouldStop(nodeLabels, pathLabels)
    /\ LimitsRespected

\* Every step keeps the limits.
LEMMA LimitedStep ==
    Inv1 /\ Disjoint /\ RestAtNodes /\ Limited /\ LabelerStaysInC /\ [Next]_vars => Limited'
<1> SUFFICES ASSUME Inv1, Disjoint, RestAtNodes, Limited, LabelerStaysInC, [Next]_vars
             PROVE  Limited'
  OBVIOUS
<1>1. /\ param' = param /\ limit' = limit
      /\ limit \in [diagnoses : {NoLimit} \cup (Nat \ {0}),
                    conflicts : {NoLimit} \cup (Nat \ {0}), depth : Nat]
  BY Changes, LimitsAssumption DEF Inv1, Typed
<1>2. /\ Len(nodeLabels) \in Nat /\ Len(pathLabels) \in Nat
  BY LenProperties DEF Inv1, Typed
<1>3. CASE CreateRoot
  <2>1. /\ nodeLabels' = <<GetLabel(param)>> /\ pathLabels' = pathLabels /\ pc = "root"
        /\ pc' = IF ShouldStop(nodeLabels', pathLabels') THEN "done" ELSE "loop"
    BY <1>3 DEF CreateRoot
  <2>2. Len(nodeLabels') = 1 /\ pathLabels = <<>> /\ Len(pathLabels) = 0
    BY <2>1 DEF Inv1, InTurn
  <2>3. pc' # "done" => ~ShouldStop(nodeLabels, pathLabels)'
    BY <1>1, <2>1 DEF ShouldStop, Diagnoses, Conflicts
  <2>4. LimitsRespected'
    BY <1>1, <2>1, <2>2 DEF LimitsRespected, Diagnoses, Conflicts, NoLimit
  <2> QED BY <2>3, <2>4 DEF Limited
<1>4. CASE AddLabel
  <2>1. /\ nodeLabels' = Append(nodeLabels, fresh) /\ pathLabels' = pathLabels /\ pc = "compare"
        /\ ShouldStop(nodeLabels', pathLabels') => pc' = "done"
    BY <1>4 DEF AddLabel
  <2>2. Len(nodeLabels') = Len(nodeLabels) + 1
    BY <2>1, Appended DEF Inv1, Typed
  <2>3. pc' # "done" => ~ShouldStop(nodeLabels, pathLabels)'
    BY <1>1, <2>1 DEF ShouldStop, Diagnoses, Conflicts
  <2>4. ~ShouldStop(nodeLabels, pathLabels)
    BY <2>1 DEF Limited
  <2>5. LimitsRespected'
    BY <1>1, <1>2, <2>1, <2>2, <2>4
       DEF Limited, LimitsRespected, Diagnoses, Conflicts, ShouldStop, NoLimit
  <2> QED BY <2>3, <2>5 DEF Limited
<1>5. CASE FindPathLabel
  <2> DEFINE path == nodes[NextNode].path
  <2>1. /\ pathLabels' = Append(pathLabels, path) /\ nodeLabels' = nodeLabels /\ pc = "loop"
        /\ ShouldStop(nodeLabels', pathLabels') => pc' = "done"
        /\ ~TooDeep(NextNode)
    BY <1>5, Changes DEF FindPathLabel, Visit
  <2>2. path \in Seq(Elements)
    BY <1>5, Visited DEF FindPathLabel, IsNode
  <2>3. /\ Len(pathLabels') = Len(pathLabels) + 1
        /\ \A i \in DOMAIN pathLabels' :
              \/ i \in DOMAIN pathLabels /\ pathLabels'[i] = pathLabels[i]
              \/ pathLabels'[i] = path
    <3> HIDE DEF path
    <3> QED BY <2>1, <2>2, Appended DEF Inv1, Typed
  <2>4. pc' # "done" => ~ShouldStop(nodeLabels, pathLabels)'
    BY <1>1, <2>1 DEF ShouldStop, Diagnoses, Conflicts
  <2>5. ~ShouldStop(nodeLabels, pathLabels)
    BY <2>1 DEF Limited
  <2>6. limit.depth # NoDepth => Len(path) <= limit.depth
    <3>1. Len(path) \in Nat
      BY <2>2, LenProperties
    <3> QED BY <2>1, <3>1, <1>1 DEF TooDeep
  <2>7. LimitsRespected'
    <3>1. /\ limit'.diagnoses # NoLimit =>
                Len(Diagnoses(nodeLabels, pathLabels)') <= limit'.diagnoses
          /\ limit'.conflicts # NoLimit =>
                Len(Conflicts(nodeLabels, pathLabels)') <= limit'.conflicts
      BY <1>1, <1>2, <2>1, <2>3, <2>5
         DEF Limited, LimitsRespected, Diagnoses, Conflicts, ShouldStop, NoLimit
    <3>2. limit'.depth # NoDepth =>
                \A i \in DOMAIN pathLabels' : Len(pathLabels'[i]) <= limit'.depth
      BY <1>1, <2>3, <2>6 DEF Limited, LimitsRespected
    <3> QED BY <3>1, <3>2 DEF LimitsRespected
  <2> QED BY <2>4, <2>7 DEF Limited
<1>6. CASE nodeLabels' = nodeLabels /\ pathLabels' = pathLabels
  <2>1. LimitsRespected'
    BY <1>1, <1>6 DEF Limited, LimitsRespected, Diagnoses, Conflicts
  <2>2. pc' \notin {"root", "done"} => pc \notin {"root", "done"} \/ CreateRoot
    BY DEF Next, NoRoot, NothingOpen, VisitRoot, Skip, ReuseLabel, ComputeLabel, FindPathLabel,
           ReplaceLabel, AddLabel, ReuseNode, GenerateNode, Visit, TakeArc, vars
  <2>3. ~ShouldStop(nodeLabels, pathLabels) => ~ShouldStop(nodeLabels, pathLabels)'
    BY <1>1, <1>6 DEF ShouldStop, Diagnoses, Conflicts
  <2> QED BY <1>3, <2>1, <2>2, <2>3 DEF Limited
<1> QED BY <1>3, <1>4, <1>5, <1>6, Changes

----------------------------------------------------------------------------
\* The length of the path to a node.
Depth(n) == Len(nodes[n].path)

\* open_nodes is sorted by depth, and holds at most two levels: that of the node at
\* hand and the next one.  No report is longer than a path that is still open.
Ordered ==
    /\ \A i, j \in DOMAIN open : i < j => Depth(open[i]) <= Depth(open[j])
    /\ pc = "loop" => \A i, j \in DOMAIN open : Depth(open[j]) <= Depth(open[i]) + 1
    /\ pc \in {"compare", "expand"} =>
          /\ \A i \in DOMAIN open :
                Depth(node) <= Depth(open[i]) /\ Depth(open[i]) <= Depth(node) + 1
          /\ \A i \in DOMAIN pathLabels : Len(pathLabels[i]) <= Depth(node)
    /\ \A i \in DOMAIN pathLabels, j \in DOMAIN open : Len(pathLabels[i]) <= Depth(open[j])
    /\ ShortestFirst

\* The depths of the nodes are numbers, and steps keep them.
LEMMA DepthsKept ==
    ASSUME Inv1, RestAtNodes, LabelerStaysInC, [Next]_vars
    PROVE  \A n \in DOMAIN nodes : Depth(n) \in Nat /\ Len(nodes'[n].path) = Depth(n)
<1> TAKE n \in DOMAIN nodes
<1>1. nodes[n].path \in Seq(Elements)
  BY DEF Inv1, Typed, NodesTyped, IsNodes, IsNode
<1>2. nodes'[n].path = nodes[n].path
  BY TypedStep DEF NodesKept
<1> QED BY <1>1, <1>2, LenProperties DEF Depth

\* The places of open_nodes once its first node is taken.
LEMMA Taken ==
    ASSUME Inv1, open # <<>>
    PROVE  /\ 1 \in DOMAIN open /\ NextNode = open[1] /\ DOMAIN open \subseteq Nat
           /\ \A i \in DOMAIN open : open[i] \in DOMAIN nodes
           /\ \A i \in DOMAIN Tail(open) :
                 i \in Nat /\ i + 1 \in DOMAIN open /\ 1 < i + 1 /\ Tail(open)[i] = open[i + 1]
<1>1. open \in Seq(DOMAIN nodes)
  BY DEF Inv1, Typed
<1>2. PICK k \in Nat : Len(open) = k /\ DOMAIN open = 1 .. k
  BY <1>1, LenProperties
<1>3. k # 0
  BY <1>1, <1>2, EmptySeq
<1>4. Tail(open) \in Seq(DOMAIN nodes) /\ Len(Tail(open)) = k - 1
      /\ \A i \in 1 .. k - 1 : Tail(open)[i] = open[i + 1]
  BY <1>1, <1>2, <1>3, HeadTailProperties
<1>5. DOMAIN Tail(open) = 1 .. k - 1
  BY <1>2, <1>3, <1>4, LenProperties
<1>6. \A i \in DOMAIN open : open[i] \in DOMAIN nodes
  BY <1>1, <1>2, ElementOfSeq
<1>7. NextNode = open[1]
  BY <1>1, <1>3 DEF NextNode
<1> QED BY <1>2, <1>3, <1>4, <1>5, <1>6, <1>7

\* A step takes the next node, makes one, or leaves open_nodes alone.
LEMMA Turns ==
    ASSUME Inv1, [Next]_vars
    PROVE  \/ CreateRoot
           \/ GenerateNode
           \/ /\ pc = "loop" /\ open # <<>> /\ open' = Tail(open)
              /\ \/ FindPathLabel /\ pc' \in {"loop", "done"}
                 \/ pc' \in {"loop", "done"} /\ pathLabels' = pathLabels
                 \/ node' = NextNode /\ pathLabels' = pathLabels
           \/ /\ pc \in {"compare", "expand"} /\ open' = open
              /\ node' = node /\ pathLabels' = pathLabels
           \/ open' = open /\ pathLabels' = pathLabels /\ node' = node /\ pc' \in {"done", pc}
<1>1. CASE NoRoot \/ NothingOpen \/ UNCHANGED vars
  BY <1>1 DEF NoRoot, NothingOpen, vars, dag, found, work
<1>2. CASE VisitRoot \/ Skip \/ ReuseLabel \/ ComputeLabel
  BY <1>2 DEF VisitRoot, Skip, ReuseLabel, ComputeLabel, Visit, found, work
<1>3. CASE FindPathLabel
  BY <1>3 DEF FindPathLabel, Visit
<1>4. CASE ReplaceLabel \/ AddLabel \/ ReuseNode
  BY <1>4 DEF ReplaceLabel, AddLabel, ReuseNode, TakeArc, found
<1> QED BY <1>1, <1>2, <1>3, <1>4, Zenon DEF Next

\* Every step keeps the order.
LEMMA OrderedStep ==
    Inv1 /\ RestAtNodes /\ Ordered /\ LabelerStaysInC /\ [Next]_vars => Ordered'
<1> SUFFICES ASSUME Inv1, RestAtNodes, Ordered, LabelerStaysInC, [Next]_vars
             PROVE  Ordered'
  OBVIOUS
<1>1. \A n \in DOMAIN nodes : Depth(n) \in Nat /\ Len(nodes'[n].path) = Depth(n)
  BY DepthsKept
<1>2. \A i \in DOMAIN open : open[i] \in DOMAIN nodes /\ i \in Nat
  <2>1. open = <<>> => DOMAIN open = {}
    OBVIOUS
  <2> QED BY <2>1, Taken
<1>3. \A i \in DOMAIN pathLabels : Len(pathLabels[i]) \in Nat /\ i \in Nat
  <2>1. DOMAIN pathLabels = 1 .. Len(pathLabels) /\ Len(pathLabels) \in Nat
    BY LenProperties DEF Inv1, Typed
  <2>2. \A i \in DOMAIN pathLabels : pathLabels[i] \in Seq(Elements)
    BY <2>1, ElementOfSeq DEF Inv1, Typed
  <2> QED BY <2>1, <2>2, LenProperties
<1>4. CASE CreateRoot
  <2>1. pc = "root" /\ open' = <<1>> /\ pathLabels' = pathLabels /\ pc' \in {"loop", "done"}
        /\ nodes' = <<NewNode(<<>>, {}, GetLabel(param), Recorded(param))>>
    BY <1>4 DEF CreateRoot
  <2>2. pathLabels' = <<>> /\ DOMAIN pathLabels' = {}
    BY <2>1 DEF Inv1, InTurn
  <2>3. DOMAIN open' = {1} /\ open'[1] = 1 /\ Len(nodes'[1].path) = 0
    BY <2>1 DEF NewNode
  <2>4. ShortestFirst'
    BY <2>2 DEF ShortestFirst
  <2> QED BY <2>1, <2>2, <2>3, <2>4 DEF Ordered, Depth
<1>5. CASE GenerateNode
  <2> DEFINE id == Len(nodes) + 1
             d == Depth(node)
  <2>1. /\ pc = "expand" /\ pc' \in {"loop", "expand"} /\ node \in DOMAIN nodes
        /\ node' = node /\ pathLabels' = pathLabels
        /\ Len(NewPath) = d + 1
    <3>1. node' = node /\ pathLabels' = pathLabels
      BY <1>5 DEF GenerateNode, found
    <3> QED BY <1>5, <3>1, Expanded DEF GenerateNode, Depth
  <2>2. d \in Nat /\ Len(nodes'[node].path) = d
    BY <1>1, <2>1
  <2>3. nodes'[id].path = NewPath /\ (open' = open \/ open' = Append(open, id))
    BY <1>5, GenerateNodeTyped DEF ChildAdded
  <2> DEFINE D(i) == Len(nodes'[open'[i]].path)
  <2>4. ASSUME NEW i \in DOMAIN open'
        PROVE  /\ i \in Nat /\ D(i) \in Nat
               /\ \/ i \in DOMAIN open /\ D(i) = Depth(open[i])
                  \/ D(i) = d + 1 /\ \A j \in DOMAIN open' : j <= i
    <3>1. PICK k \in Nat : Len(open) = k /\ DOMAIN open = 1 .. k /\ open \in Seq(DOMAIN nodes)
      BY LenProperties DEF Inv1, Typed
    <3>2. CASE open' = open
      BY <2>4, <3>2, <1>1, <1>2
    <3>3. CASE open' = Append(open, id)
      <4>1. /\ open \in Seq(DOMAIN nodes \cup {id}) /\ id \in DOMAIN nodes \cup {id}
        BY <3>1, SeqMonotonic
      <4> HIDE DEF id
      <4>2. /\ open' \in Seq(DOMAIN nodes \cup {id}) /\ Len(open') = k + 1
            /\ \A m \in 1 .. k : open'[m] = open[m]
            /\ open'[k + 1] = id
        BY <3>1, <3>3, <4>1, AppendProperties
      <4>3. DOMAIN open' = 1 .. k + 1
        BY <4>2, LenProperties
      <4>4. CASE i \in 1 .. k
        <5>1. open'[i] = open[i] /\ i \in DOMAIN open
          BY <4>2, <4>4, <3>1
        <5> QED BY <5>1, <1>1, <1>2
      <4>5. CASE i = k + 1
        <5>1. D(i) = d + 1
          BY <4>2, <4>5, <2>1, <2>3
        <5> QED BY <5>1, <4>3, <4>5, <2>2
      <4> QED BY <2>4, <4>3, <4>4, <4>5
    <3> QED BY <2>3, <3>2, <3>3
  <2>5. \A i \in DOMAIN open : d <= Depth(open[i]) /\ Depth(open[i]) <= d + 1
    BY <2>1 DEF Ordered
  <2>6. \A i \in DOMAIN pathLabels : Len(pathLabels[i]) <= d /\ Len(pathLabels[i]) \in Nat
    BY <2>1, <1>3 DEF Ordered
  <2>7. \A i \in DOMAIN open : Depth(open[i]) \in Nat
    BY <1>1, <1>2
  <2> HIDE DEF D, d, id
  <2>8. \A i \in DOMAIN open' : d <= D(i) /\ D(i) <= d + 1
    BY <2>2, <2>4, <2>5, <2>7
  <2>9. \A i, j \in DOMAIN open' : i < j => D(i) <= D(j)
    <3> SUFFICES ASSUME NEW i \in DOMAIN open', NEW j \in DOMAIN open', i < j
                 PROVE  D(i) <= D(j)
      OBVIOUS
    <3>1. i \in Nat /\ j \in Nat /\ i \in DOMAIN open /\ D(i) = Depth(open[i])
      BY <2>4
    <3>2. CASE j \in DOMAIN open /\ D(j) = Depth(open[j])
      BY <3>1, <3>2 DEF Ordered
    <3>3. CASE D(j) = d + 1
      BY <3>3, <3>1, <2>8
    <3> QED BY <2>4, <3>2, <3>3
  <2>10. \A i, j \in DOMAIN open' : D(j) <= D(i) + 1
    BY <2>2, <2>4, <2>8
  <2>11. \A i \in DOMAIN pathLabels, j \in DOMAIN open' : Len(pathLabels[i]) <= D(j)
    BY <2>2, <2>4, <2>6, <2>8
  <2>12. ShortestFirst'
    BY <2>1 DEF Ordered, ShortestFirst
  <2>13. d = Len(nodes'[node'].path)
    BY <2>1, <2>2
  <2> QED BY <2>1, <2>6, <2>8, <2>9, <2>10, <2>11, <2>12, <2>13 DEF Ordered, Depth, D
<1>6. CASE /\ pc = "loop" /\ open # <<>> /\ open' = Tail(open)
           /\ pc' \in {"loop", "done"} /\ pathLabels' = pathLabels
  <2>1. \A i \in DOMAIN open' :
            /\ i \in Nat /\ i + 1 \in DOMAIN open
            /\ Len(nodes'[open'[i]].path) = Depth(open[i + 1])
    BY <1>6, <1>1, Taken
  <2>2. /\ \A i, j \in DOMAIN open' :
               i < j => Len(nodes'[open'[i]].path) <= Len(nodes'[open'[j]].path)
        /\ \A i, j \in DOMAIN open' :
               Len(nodes'[open'[j]].path) <= Len(nodes'[open'[i]].path) + 1
    BY <2>1, <1>6 DEF Ordered
  <2>3. \A i \in DOMAIN pathLabels', j \in DOMAIN open' :
            Len(pathLabels'[i]) <= Len(nodes'[open'[j]].path)
    BY <2>1, <1>6 DEF Ordered
  <2>4. ShortestFirst'
    BY <1>6 DEF Ordered, ShortestFirst
  <2> QED BY <1>6, <2>2, <2>3, <2>4 DEF Ordered, Depth
<1>7. CASE /\ pc = "loop" /\ open # <<>> /\ open' = Tail(open)
           /\ FindPathLabel /\ pc' \in {"loop", "done"}
  <2> DEFINE path == nodes[NextNode].path
  <2>1. \A i \in DOMAIN open' :
            /\ i \in Nat /\ i + 1 \in DOMAIN open /\ 1 < i + 1
            /\ Len(nodes'[open'[i]].path) = Depth(open[i + 1])
    BY <1>7, <1>1, Taken
  <2>2. /\ 1 \in DOMAIN open /\ Depth(open[1]) = Len(path) /\ Len(path) \in Nat
    BY <1>7, <1>1, Taken DEF Depth
  <2>3. pathLabels' = Append(pathLabels, path) /\ path \in Seq(Elements)
    BY <1>7, Visited DEF FindPathLabel, IsNode
  <2> HIDE DEF path
  <2>4. PICK k \in Nat : /\ DOMAIN pathLabels = 1 .. k
                         /\ pathLabels'[k + 1] = path
                         /\ \A i \in DOMAIN pathLabels : pathLabels'[i] = pathLabels[i]
                         /\ \A i \in DOMAIN pathLabels' : i \in DOMAIN pathLabels \/ i = k + 1
    BY <2>3, Appended DEF Inv1, Typed
  <2>5. \A i \in DOMAIN pathLabels' : Len(pathLabels'[i]) <= Len(path)
    <3>1. \A i \in DOMAIN pathLabels : Len(pathLabels[i]) <= Len(path)
      BY <2>2 DEF Ordered
    <3> QED BY <2>2, <2>4, <3>1
  <2>6. ShortestFirst'
    <3> SUFFICES ASSUME NEW i \in DOMAIN pathLabels', NEW j \in DOMAIN pathLabels', i < j
                 PROVE  Len(pathLabels'[i]) <= Len(pathLabels'[j])
      BY DEF ShortestFirst
    <3>1. CASE j = k + 1
      BY <3>1, <2>4, <2>5
    <3>2. CASE j \in DOMAIN pathLabels
      <4>1. i \in DOMAIN pathLabels
        BY <3>2, <2>4
      <4> QED BY <4>1, <3>2, <2>4 DEF Ordered, ShortestFirst
    <3> QED BY <2>4, <3>1, <3>2
  <2>7. \A j \in DOMAIN open' : Len(path) <= Len(nodes'[open'[j]].path)
    <3>1. \A j \in DOMAIN open : 1 < j => Len(path) <= Depth(open[j])
      BY <2>2 DEF Ordered
    <3> QED BY <2>1, <3>1
  <2>8. \A i \in DOMAIN pathLabels', j \in DOMAIN open' :
            Len(pathLabels'[i]) <= Len(nodes'[open'[j]].path)
    <3>1. \A j \in DOMAIN open' : Len(nodes'[open'[j]].path) \in Nat
      BY <2>1, <1>1, <1>2
    <3>2. \A i \in DOMAIN pathLabels' : Len(pathLabels'[i]) \in Nat
      BY <1>3, <2>2, <2>4
    <3> QED BY <2>2, <2>5, <2>7, <3>1, <3>2
  <2>9. /\ \A i, j \in DOMAIN open' :
               i < j => Len(nodes'[open'[i]].path) <= Len(nodes'[open'[j]].path)
        /\ \A i, j \in DOMAIN open' :
               Len(nodes'[open'[j]].path) <= Len(nodes'[open'[i]].path) + 1
    BY <2>1, <1>7 DEF Ordered
  <2> QED BY <1>7, <2>6, <2>8, <2>9 DEF Ordered, Depth
<1>8. CASE /\ pc = "loop" /\ open # <<>> /\ open' = Tail(open)
           /\ node' = NextNode /\ pathLabels' = pathLabels
  <2>1. \A i \in DOMAIN open' :
            /\ i \in Nat /\ i + 1 \in DOMAIN open /\ 1 < i + 1
            /\ Len(nodes'[open'[i]].path) = Depth(open[i + 1])
    BY <1>8, <1>1, Taken
  <2>2. 1 \in DOMAIN open /\ Len(nodes'[node'].path) = Depth(open[1])
    BY <1>8, <1>1, Taken
  <2>3. /\ \A i, j \in DOMAIN open' :
               i < j => Len(nodes'[open'[i]].path) <= Len(nodes'[open'[j]].path)
        /\ \A i, j \in DOMAIN open' :
               Len(nodes'[open'[j]].path) <= Len(nodes'[open'[i]].path) + 1
    BY <2>1, <1>8 DEF Ordered
  <2>4. \A i \in DOMAIN open' :
            /\ Len(nodes'[node'].path) <= Len(nodes'[open'[i]].path)
            /\ Len(nodes'[open'[i]].path) <= Len(nodes'[node'].path) + 1
    BY <2>1, <2>2, <1>8 DEF Ordered
  <2>5. /\ \A i \in DOMAIN pathLabels' : Len(pathLabels'[i]) <= Len(nodes'[node'].path)
        /\ \A i \in DOMAIN pathLabels', j \in DOMAIN open' :
               Len(pathLabels'[i]) <= Len(nodes'[open'[j]].path)
    BY <2>1, <2>2, <1>8 DEF Ordered
  <2>6. ShortestFirst'
    BY <1>8 DEF Ordered, ShortestFirst
  <2> QED BY <2>3, <2>4, <2>5, <2>6 DEF Ordered, Depth
<1>9. CASE /\ pc \in {"compare", "expand"} /\ open' = open
           /\ node' = node /\ pathLabels' = pathLabels
  <2>1. node \in DOMAIN nodes
    BY <1>9 DEF Inv1, InTurn
  <2>2. /\ \A i \in DOMAIN open' : Len(nodes'[open'[i]].path) = Depth(open[i])
        /\ Len(nodes'[node'].path) = Depth(node)
        /\ Depth(node) \in Nat
        /\ \A i \in DOMAIN open : Depth(open[i]) \in Nat
    BY <2>1, <1>1, <1>2, <1>9
  <2>3. ShortestFirst'
    BY <1>9 DEF Ordered, ShortestFirst
  <2>4. \A i, j \in DOMAIN open : Depth(open[j]) <= Depth(open[i]) + 1
    <3>1. \A i \in DOMAIN open : Depth(node) <= Depth(open[i]) /\ Depth(open[i]) <= Depth(node) + 1
      BY <1>9 DEF Ordered
    <3> QED BY <2>2, <3>1
  <2> QED BY <1>9, <2>2, <2>3, <2>4 DEF Ordered, Depth
<1>10. CASE open' = open /\ pathLabels' = pathLabels /\ node' = node /\ pc' \in {"done", pc}
  <2>1. \A i \in DOMAIN open' : Len(nodes'[open'[i]].path) = Depth(open[i])
    BY <1>1, <1>2, <1>10
  <2>2. pc \in {"compare", "expand"} => Len(nodes'[node'].path) = Depth(node)
    BY <1>1, <1>10 DEF Inv1, InTurn
  <2>3. ShortestFirst'
    BY <1>10 DEF Ordered, ShortestFirst
  <2> QED BY <1>10, <2>1, <2>2, <2>3 DEF Ordered, Depth
<1> QED BY <1>4, <1>5, <1>6, <1>7, <1>8, <1>9, <1>10, Turns

----------------------------------------------------------------------------
\* A field of a node other than parents changes.
LEMMA ParentsStay ==
    ASSUME NodesTyped, NEW n \in DOMAIN nodes, NEW x,
           \/ nodes' = [nodes EXCEPT ![n].label = x]
           \/ nodes' = [nodes EXCEPT ![n].status = x]
           \/ nodes' = [nodes EXCEPT ![n].par = x]
    PROVE  \A m \in DOMAIN nodes : nodes'[m].parents = nodes[m].parents
<1>1. IsNode(nodes[n], Elements)
  BY DEF NodesTyped, IsNodes
<1>2. nodes[n] = [status |-> nodes[n].status, label |-> nodes[n].label, path |-> nodes[n].path,
                  parents |-> nodes[n].parents, children |-> nodes[n].children,
                  par |-> nodes[n].par]
  BY <1>1 DEF IsNode
<1> TAKE m \in DOMAIN nodes
<1>3. CASE nodes' = [nodes EXCEPT ![n].label = x]
  BY <1>2, <1>3
<1>4. CASE nodes' = [nodes EXCEPT ![n].status = x]
  BY <1>2, <1>4
<1>5. CASE nodes' = [nodes EXCEPT ![n].par = x]
  BY <1>2, <1>5
<1> QED BY <1>3, <1>4, <1>5

\* Outside of update_dag no node loses a parent.
LEMMA ParentsKept ==
    ASSUME Inv1, [Next]_vars, ~ReplaceLabel
    PROVE  \A n \in DOMAIN nodes : nodes'[n].parents # nodes[n].parents =>
               nodes'[n].parents # {}
<1>1. CASE nodes' = nodes
  BY <1>1
<1>2. CASE CreateRoot
  BY <1>2 DEF CreateRoot, Inv1, InTurn
<1>3. CASE GenerateNode
  BY <1>3, GenerateNodeTyped DEF ChildAdded
<1>4. CASE Skip /\ nodes' # nodes
  <2>1. NextNode \in DOMAIN nodes /\ nodes' = [nodes EXCEPT ![NextNode].status = "Closed"]
    BY <1>4, HeadOfOpen DEF Skip, Inv1
  <2> QED BY <2>1, ParentsStay DEF Inv1, Typed
<1>5. CASE ReuseLabel
  <2>1. NextNode \in DOMAIN nodes
    BY <1>5, Visited DEF ReuseLabel
  <2>2. PICK first \in Reusable(NextNode) :
            nodes' = [nodes EXCEPT ![NextNode].label = nodeLabels[first]]
    BY <1>5 DEF ReuseLabel
  <2> QED BY <2>1, <2>2, ParentsStay DEF Inv1, Typed
<1>6. CASE ComputeLabel
  <2>1. /\ NextNode \in DOMAIN nodes
        /\ nodes' = [nodes EXCEPT ![NextNode].par = Recorded(nodes[NextNode].par)]
    BY <1>6, Visited DEF ComputeLabel
  <2> QED BY <2>1, ParentsStay DEF Inv1, Typed
<1>7. CASE FindPathLabel
  <2>1. NextNode \in DOMAIN nodes /\ IsNode(nodes[NextNode], Elements)
    BY <1>7, Visited DEF FindPathLabel
  <2>2. nodes' = [nodes EXCEPT ![NextNode].status = "Checked", ![NextNode].par = Recorded(@)]
    BY <1>7 DEF FindPathLabel
  <2> HIDE DEF NextNode
  <2> QED BY <2>1, <2>2 DEF Inv1, Typed, NodesTyped, IsNodes, IsNode
<1>8. CASE AddLabel
  <2>1. node \in DOMAIN nodes /\ nodes' = [nodes EXCEPT ![node].label = fresh]
    BY <1>8 DEF AddLabel, Inv1, InTurn
  <2> QED BY <2>1, ParentsStay DEF Inv1, Typed
<1>9. CASE ReuseNode
  <2> DEFINE r == lookup[Range(NewPath)]
  <2>1. r \in DOMAIN nodes /\ nodes' = [nodes EXCEPT ![r].parents = @ \cup {node}]
    BY <1>9 DEF ReuseNode, Inv1, Typed
  <2> HIDE DEF r
  <2> QED BY <2>1 DEF Inv1, Typed, NodesTyped, IsNodes, IsNode
<1>10. CASE NoRoot \/ NothingOpen \/ VisitRoot \/ UNCHANGED vars
  BY <1>1, <1>10 DEF NoRoot, NothingOpen, VisitRoot, vars, dag
<1> QED BY <1>1, <1>2, <1>3, <1>4, <1>5, <1>6, <1>7, <1>8, <1>9, <1>10, Zenon DEF Next

\* The node that nodes_lookup has for a path is at its end and has a parent.
LEMMA LookupStep ==
    Inv1 /\ RestAtNodes /\ LookupFinds /\ LabelerStaysInC /\ [Next]_vars => LookupFinds'
<1> SUFFICES ASSUME Inv1, RestAtNodes, LookupFinds, LabelerStaysInC, [Next]_vars
             PROVE  LookupFinds'
  OBVIOUS
<1>1. \A n \in DOMAIN nodes : Range(nodes'[n].path) = PathOf(n)
  BY TypedStep DEF NodesKept, PathOf
<1>2. \A s \in DOMAIN lookup :
          /\ lookup[s] \in DOMAIN nodes /\ PathOf(lookup[s]) = s
          /\ nodes[lookup[s]].parents # {}
  BY DEF LookupFinds, IsRoot, Inv1, Typed
<1>3. CASE ReplaceLabel
  <2>1. PICK pruned :
            /\ lookup' = Restrict(lookup, DOMAIN lookup \ PathsOf(pruned))
            /\ \A n \in DOMAIN nodes : n \in pruned \/ nodes'[n].parents = nodes[n].parents
    BY <1>3, ReplaceLabelTyped DEF Unhooked
  <2>2. \A s \in DOMAIN lookup' : /\ s \in DOMAIN lookup /\ lookup'[s] = lookup[s]
                                  /\ s \notin PathsOf(pruned)
    BY <2>1 DEF Restrict
  <2>3. \A s \in DOMAIN lookup' : lookup[s] \notin pruned
    BY <2>2, <1>2 DEF PathsOf
  <2> QED BY <1>1, <1>2, <2>1, <2>2, <2>3 DEF LookupFinds, PathOf, IsRoot
<1>4. CASE GenerateNode
  <2> DEFINE id == Len(nodes) + 1
  <2>1. /\ nodes'[id].path = NewPath /\ nodes'[id].parents = {node}
        /\ \A n \in DOMAIN nodes : nodes'[n].parents = nodes[n].parents
        /\ lookup' = [s \in DOMAIN lookup \cup {Range(NewPath)} |->
                         IF s = Range(NewPath) THEN id ELSE lookup[s]]
    BY <1>4, GenerateNodeTyped DEF ChildAdded
  <2> HIDE DEF id
  <2> QED BY <1>1, <1>2, <2>1 DEF LookupFinds, PathOf, IsRoot
<1>5. CASE lookup' = lookup /\ ~ReplaceLabel
  BY <1>1, <1>2, <1>5, ParentsKept DEF LookupFinds, PathOf, IsRoot
<1>6. lookup' = lookup \/ ReplaceLabel \/ GenerateNode
  BY DEF Next, NoRoot, CreateRoot, NothingOpen, VisitRoot, Skip, ReuseLabel, ComputeLabel,
         FindPathLabel, AddLabel, ReuseNode, vars, dag
<1> QED BY <1>3, <1>4, <1>5, <1>6

----------------------------------------------------------------------------
(* The labels and statuses of the nodes.                                   *)

\* The label of a node changes, and nothing else.
LEMMA NodeLabelled ==
    ASSUME NodesTyped, NEW n \in DOMAIN nodes, NEW x, nodes' = [nodes EXCEPT ![n].label = x]
    PROVE  \A m \in DOMAIN nodes :
              /\ nodes'[m].status = nodes[m].status
              /\ nodes'[m].label = IF m = n THEN x ELSE nodes[m].label
              /\ nodes'[m].children = nodes[m].children
<1>1. IsNode(nodes[n], Elements)
  BY DEF NodesTyped, IsNodes
<1>2. nodes[n] = [status |-> nodes[n].status, label |-> nodes[n].label, path |-> nodes[n].path,
                  parents |-> nodes[n].parents, children |-> nodes[n].children,
                  par |-> nodes[n].par]
  BY <1>1 DEF IsNode
<1> QED BY <1>2

\* The status of a node changes, and nothing else.
LEMMA NodeDecided ==
    ASSUME NodesTyped, NEW n \in DOMAIN nodes, NEW x, nodes' = [nodes EXCEPT ![n].status = x]
    PROVE  \A m \in DOMAIN nodes :
              /\ nodes'[m].label = nodes[m].label
              /\ nodes'[m].status = IF m = n THEN x ELSE nodes[m].status
              /\ nodes'[m].children = nodes[m].children
<1>1. IsNode(nodes[n], Elements)
  BY DEF NodesTyped, IsNodes
<1>2. nodes[n] = [status |-> nodes[n].status, label |-> nodes[n].label, path |-> nodes[n].path,
                  parents |-> nodes[n].parents, children |-> nodes[n].children,
                  par |-> nodes[n].par]
  BY <1>1 DEF IsNode
<1> QED BY <1>2

\* Outside of update_dag a node gets no label but a known one, and only the node that
\* is taken from open_nodes is decided.
LEMMA Labels ==
    ASSUME Inv1, [Next]_vars, ~ReplaceLabel
    PROVE  \A n \in DOMAIN nodes :
              /\ \/ nodes'[n].label = nodes[n].label
                 \/ \E i \in DOMAIN nodeLabels' : nodes'[n].label = nodeLabels'[i]
              /\ \/ nodes'[n].status = nodes[n].status
                 \/ n = NextNode /\ open # <<>> /\ open' = Tail(open) /\ pc' \in {"loop", "done"}
<1>1. CASE nodes' = nodes
  BY <1>1
<1>2. CASE CreateRoot
  BY <1>2 DEF CreateRoot, Inv1, InTurn
<1>3. CASE GenerateNode
  BY <1>3, GenerateNodeTyped DEF ChildAdded
<1>4. CASE Skip /\ nodes' # nodes
  <2>1. /\ NextNode \in DOMAIN nodes /\ nodes' = [nodes EXCEPT ![NextNode].status = "Closed"]
        /\ open # <<>> /\ open' = Tail(open) /\ pc' = "loop"
    BY <1>4, HeadOfOpen DEF Skip, Inv1
  <2> HIDE DEF NextNode
  <2> QED BY <2>1, NodeDecided DEF Inv1, Typed
<1>5. CASE ReuseLabel
  <2>1. NextNode \in DOMAIN nodes
    BY <1>5, Visited DEF ReuseLabel
  <2>2. PICK first \in Reusable(NextNode) :
            nodes' = [nodes EXCEPT ![NextNode].label = nodeLabels[first]]
    BY <1>5 DEF ReuseLabel
  <2>3. first \in DOMAIN nodeLabels' /\ nodeLabels' = nodeLabels
    BY <1>5 DEF ReuseLabel, Reusable, found
  <2> HIDE DEF NextNode
  <2> QED BY <2>1, <2>2, <2>3, NodeLabelled DEF Inv1, Typed
<1>6. CASE ComputeLabel
  <2>1. /\ NextNode \in DOMAIN nodes /\ IsNode(nodes[NextNode], Elements)
        /\ nodes' = [nodes EXCEPT ![NextNode].par = Recorded(nodes[NextNode].par)]
    BY <1>6, Visited DEF ComputeLabel
  <2> HIDE DEF NextNode
  <2>2. nodes[NextNode] =
           [status |-> nodes[NextNode].status, label |-> nodes[NextNode].label,
            path |-> nodes[NextNode].path, parents |-> nodes[NextNode].parents,
            children |-> nodes[NextNode].children, par |-> nodes[NextNode].par]
    BY <2>1 DEF IsNode
  <2> QED BY <2>1, <2>2
<1>7. CASE FindPathLabel
  <2>1. /\ NextNode \in DOMAIN nodes /\ IsNode(nodes[NextNode], Elements)
        /\ open # <<>> /\ open' = Tail(open)
    BY <1>7, Visited DEF FindPathLabel
  <2>2. /\ nodes' = [nodes EXCEPT ![NextNode].status = "Checked", ![NextNode].par = Recorded(@)]
        /\ pc' \in {"loop", "done"}
    BY <1>7 DEF FindPathLabel
  <2> HIDE DEF NextNode
  <2> QED BY <2>1, <2>2 DEF Inv1, Typed, NodesTyped, IsNodes, IsNode
<1>8. CASE AddLabel
  <2>1. node \in DOMAIN nodes /\ nodes' = [nodes EXCEPT ![node].label = fresh]
    BY <1>8 DEF AddLabel, Inv1, InTurn
  <2>2. nodeLabels' = Append(nodeLabels, fresh)
    BY <1>8 DEF AddLabel
  <2>3. /\ nodeLabels' \in Seq(Seq(Elements)) /\ Len(nodeLabels) \in Nat
        /\ Len(nodeLabels') = Len(nodeLabels) + 1
        /\ nodeLabels'[Len(nodeLabels) + 1] = fresh
    BY <2>2, Appended DEF Inv1, Typed
  <2>4. Len(nodeLabels) + 1 \in DOMAIN nodeLabels'
    BY <2>3, LenProperties
  <2>5. \A m \in DOMAIN nodes :
            /\ nodes'[m].status = nodes[m].status
            /\ nodes'[m].label = IF m = node THEN fresh ELSE nodes[m].label
    BY <2>1, NodeLabelled DEF Inv1, Typed
  <2>6. \E i \in DOMAIN nodeLabels' : fresh = nodeLabels'[i]
    BY <2>3, <2>4
  <2> QED BY <2>5, <2>6
<1>9. CASE ReuseNode
  <2> DEFINE r == lookup[Range(NewPath)]
  <2>1. r \in DOMAIN nodes /\ nodes' = [nodes EXCEPT ![r].parents = @ \cup {node}]
    BY <1>9 DEF ReuseNode, Inv1, Typed
  <2> HIDE DEF r
  <2> QED BY <2>1 DEF Inv1, Typed, NodesTyped, IsNodes, IsNode
<1>10. CASE NoRoot \/ NothingOpen \/ VisitRoot \/ UNCHANGED vars
  BY <1>1, <1>10 DEF NoRoot, NothingOpen, VisitRoot, vars, dag
<1> QED BY <1>1, <1>2, <1>3, <1>4, <1>5, <1>6, <1>7, <1>8, <1>9, <1>10, Zenon DEF Next

\* The node being labelled was open when it was taken and may only have been pruned
\* since; the one being expanded is open.
AtHand ==
    /\ pc = "compare" => nodes[node].status \in {"Open", "Pruned"}
    /\ pc = "expand" => nodes[node].status = "Open"

\* Every step keeps it so.
LEMMA AtHandStep == Inv1 /\ AtHand /\ [Next]_vars => AtHand'
<1> SUFFICES ASSUME Inv1, AtHand, [Next]_vars
             PROVE  AtHand'
  OBVIOUS
<1>1. /\ pc \in {"compare", "expand"} => node \in DOMAIN nodes
      /\ open # <<>> => NextNode \in DOMAIN nodes
  BY HeadOfOpen DEF Inv1, InTurn
<1>2. ASSUME ~ReplaceLabel, pc' \in {"compare", "expand"}, NEW n \in DOMAIN nodes
      PROVE  nodes'[n].status = nodes[n].status
  BY <1>2, Labels
<1>3. ASSUME pc' = "compare"
      PROVE  nodes'[node'].status \in {"Open", "Pruned"}
  <2>1. CASE ComputeLabel
    <3>1. node' = NextNode /\ nodes[NextNode].status = "Open" /\ NextNode \in DOMAIN nodes
      BY <2>1, Visited DEF ComputeLabel
    <3>2. ~ReplaceLabel
      BY <2>1 DEF ComputeLabel, Visit, ReplaceLabel
    <3> QED BY <3>1, <3>2, <1>2, <1>3
  <2>2. CASE pc = "compare" /\ node' = node
    <3>1. node \in DOMAIN nodes /\ nodes[node].status \in {"Open", "Pruned"}
      BY <1>1, <2>2 DEF AtHand
    <3>2. CASE ReplaceLabel
      BY <2>2, <3>1, <3>2, ReplaceLabelTyped DEF Relabelled
    <3>3. CASE ~ReplaceLabel
      BY <2>2, <3>1, <3>3, <1>2, <1>3
    <3> QED BY <3>2, <3>3
  <2> QED BY <1>3, <2>1, <2>2, Changes
<1>4. ASSUME pc' = "expand"
      PROVE  nodes'[node'].status = "Open"
  <2>1. ~ReplaceLabel
    BY <1>4 DEF ReplaceLabel
  <2>2. node' \in DOMAIN nodes /\ nodes[node'].status = "Open"
    <3>1. CASE VisitRoot
      BY <1>1, <3>1 DEF VisitRoot
    <3>2. CASE ReuseLabel
      BY <3>2, Visited DEF ReuseLabel
    <3>3. CASE AddLabel
      BY <1>1, <1>4, <3>3 DEF AddLabel
    <3>4. CASE pc = "expand" /\ node' = node
      BY <1>1, <3>4 DEF AtHand
    <3> QED BY <1>4, <3>1, <3>2, <3>3, <3>4, Changes
  <2> QED BY <2>1, <2>2, <1>2, <1>4
<1> QED BY <1>3, <1>4 DEF AtHand

\* What a node that is decided keeps: its status, its children and its label, unless it
\* was pruned while it was being labelled.
Kept(n) ==
    /\ nodes'[n].status = nodes[n].status
    /\ nodes'[n].children = nodes[n].children
    /\ \/ nodes'[n].label = nodes[n].label
       \/ /\ pc = "compare" /\ n = node
          /\ nodes[n].status = "Pruned"
          /\ nodes'[n].label = fresh

\* It keeps them in every step.
LEMMA DecidedKept ==
    ASSUME Inv1, AtHand, [Next]_vars
    PROVE  \A n \in DOMAIN nodes : nodes[n].status # "Open" => Kept(n)
<1>1. CASE nodes' = nodes
  BY <1>1 DEF Kept
<1>2. CASE CreateRoot
  BY <1>2 DEF CreateRoot, Inv1, InTurn
<1>3. CASE GenerateNode
  <2>1. nodes[node].status = "Open"
    BY <1>3 DEF GenerateNode, TakeArc, AtHand
  <2> QED BY <1>3, <2>1, GenerateNodeTyped DEF ChildAdded, Kept
<1>4. CASE /\ nodes[NextNode].status = "Open"
           /\ \A n \in DOMAIN nodes : n # NextNode => nodes'[n] = nodes[n]
  BY <1>4 DEF Kept
<1>5. CASE Skip \/ ReuseLabel \/ ComputeLabel \/ FindPathLabel
  <2>1. nodes' = nodes \/ nodes[NextNode].status = "Open"
    BY <1>5 DEF Skip, ReuseLabel, ComputeLabel, FindPathLabel, Visit
  <2>2. \A n \in DOMAIN nodes : n # NextNode => nodes'[n] = nodes[n]
    <3> HIDE DEF NextNode
    <3> QED BY <1>5 DEF Skip, ReuseLabel, ComputeLabel, FindPathLabel
  <2> QED BY <1>1, <1>4, <2>1, <2>2
<1>6. CASE ReplaceLabel
  <2>1. NodesKept /\ Relabelled
    BY <1>6, ReplaceLabelTyped
  <2> QED BY <2>1 DEF NodesKept, Relabelled, Kept
<1>7. CASE AddLabel
  <2>1. /\ pc = "compare" /\ node \in DOMAIN nodes
        /\ nodes' = [nodes EXCEPT ![node].label = fresh]
    BY <1>7 DEF AddLabel, Inv1, InTurn
  <2>2. \A n \in DOMAIN nodes :
            /\ nodes'[n].status = nodes[n].status /\ nodes'[n].children = nodes[n].children
            /\ nodes'[n].label = IF n = node THEN fresh ELSE nodes[n].label
    BY <2>1, NodeLabelled DEF Inv1, Typed
  <2>3. nodes[node].status # "Open" => nodes[node].status = "Pruned"
    BY <2>1 DEF AtHand
  <2> QED BY <2>1, <2>2, <2>3 DEF Kept
<1>8. CASE ReuseNode
  <2> DEFINE r == lookup[Range(NewPath)]
  <2>1. r \in DOMAIN nodes /\ nodes' = [nodes EXCEPT ![r].parents = @ \cup {node}]
    BY <1>8 DEF ReuseNode, Inv1, Typed
  <2> HIDE DEF r
  <2>2. \A n \in DOMAIN nodes :
            /\ nodes'[n].status = nodes[n].status /\ nodes'[n].children = nodes[n].children
            /\ nodes'[n].label = nodes[n].label
    BY <2>1 DEF Inv1, Typed, NodesTyped, IsNodes, IsNode
  <2> QED BY <2>2 DEF Kept
<1>9. CASE NoRoot \/ NothingOpen \/ VisitRoot \/ UNCHANGED vars
  BY <1>1, <1>9 DEF NoRoot, NothingOpen, VisitRoot, vars, dag
<1> QED BY <1>1, <1>2, <1>3, <1>5, <1>6, <1>7, <1>8, <1>9, Zenon DEF Next

----------------------------------------------------------------------------
(* Nothing is twice on a path or in open_nodes.                            *)

\* A list has at most as many elements as places, and as many if it repeats none.
LEMMA ListLength ==
    ASSUME NEW E, NEW s \in Seq(E)
    PROVE  /\ Len(s) \in Nat /\ IsFiniteSet(Range(s)) /\ Cardinality(Range(s)) \in Nat
           /\ Cardinality(Range(s)) <= Len(s)
           /\ IsInjective(s) => Cardinality(Range(s)) = Len(s)
<1>1. PICK k \in Nat : Len(s) = k /\ DOMAIN s = 1 .. k
  BY LenProperties
<1>2. IsFiniteSet(1 .. k) /\ Cardinality(1 .. k) = k
  BY FS_Interval
<1>3. s \in Surjection(1 .. k, Range(s))
  <2>1. s \in [1 .. k -> E]
    BY <1>1, LenProperties
  <2>2. s \in [1 .. k -> Range(s)] /\ \A x \in Range(s) : \E i \in 1 .. k : s[i] = x
    BY <1>1, <2>1 DEF Range
  <2> QED BY <2>2 DEF Surjection
<1>4. /\ IsFiniteSet(Range(s)) /\ Cardinality(Range(s)) <= k
      /\ Cardinality(Range(s)) = k <=> s \in Injection(1 .. k, Range(s))
  BY <1>2, <1>3, FS_Surjection
<1>5. IsInjective(s) => s \in Injection(1 .. k, Range(s))
  BY <1>3 DEF Surjection, Injection
<1>6. Cardinality(Range(s)) \in Nat
  BY <1>4, FS_CardinalityType
<1> QED BY <1>1, <1>4, <1>5, <1>6

\* A list without repetition that is part of another is not longer, and has the same
\* elements if it is not shorter either.
LEMMA PartOfList ==
    ASSUME NEW E, NEW s \in Seq(E), NEW r \in Seq(E), IsInjective(s), Range(s) \subseteq Range(r)
    PROVE  Len(s) <= Len(r) /\ (Len(r) <= Len(s) => Range(r) = Range(s))
<1>1. /\ Len(s) \in Nat /\ Len(r) \in Nat /\ Cardinality(Range(s)) = Len(s)
      /\ IsFiniteSet(Range(r)) /\ Cardinality(Range(r)) \in Nat
      /\ Cardinality(Range(r)) <= Len(r)
  BY ListLength
<1>2. /\ Cardinality(Range(s)) <= Cardinality(Range(r))
      /\ Cardinality(Range(r)) = Cardinality(Range(s)) => Range(r) = Range(s)
  BY <1>1, FS_Subset
<1> QED BY <1>1, <1>2

\* What a list holds once an element is appended.
LEMMA AppendRange ==
    ASSUME NEW E, NEW s \in Seq(E), NEW x
    PROVE  Range(Append(s, x)) = Range(s) \cup {x}
<1>1. s \in Seq(E \cup {x}) /\ x \in E \cup {x}
  BY SeqMonotonic
<1>2. PICK k \in Nat : Len(s) = k /\ DOMAIN s = 1 .. k
  BY <1>1, LenProperties
<1> DEFINE t == Append(s, x)
<1>3. /\ t \in Seq(E \cup {x}) /\ Len(t) = k + 1
      /\ \A j \in 1 .. k : t[j] = s[j]
      /\ t[k + 1] = x
  BY <1>1, <1>2, AppendProperties
<1> HIDE DEF t
<1>4. DOMAIN t = 1 .. k + 1 /\ \A j \in 1 .. k + 1 : j \in 1 .. k \/ j = k + 1
  BY <1>3, LenProperties
<1>5. Range(t) = Range(s) \cup {x}
  BY <1>2, <1>3, <1>4 DEF Range
<1> QED BY <1>5 DEF t

\* A list holds its head and what its tail holds.
LEMMA HeadTailRange ==
    ASSUME NEW E, NEW s \in Seq(E), s # <<>>
    PROVE  Range(s) = {Head(s)} \cup Range(Tail(s))
<1>1. PICK k \in Nat : Len(s) = k /\ DOMAIN s = 1 .. k
  BY LenProperties
<1>2. 1 \in 1 .. k
  <2>1. k # 0
    BY <1>1, EmptySeq
  <2> QED BY <2>1
<1>3. /\ Head(s) = s[1]
      /\ Tail(s) \in Seq(E) /\ Len(Tail(s)) = k - 1
      /\ \A i \in 1 .. k - 1 : Tail(s)[i] = s[i + 1]
  BY <1>1, HeadTailProperties
<1>4. DOMAIN Tail(s) = 1 .. k - 1
  BY <1>2, <1>3, LenProperties
<1>5. \A i \in 1 .. k : i = 1 \/ (i - 1 \in 1 .. k - 1 /\ i = (i - 1) + 1)
  BY <1>1
<1>6. \A i \in 1 .. k : i = 1 \/ s[i] = Tail(s)[i - 1]
  BY <1>3, <1>5
<1>7. \A i \in 1 .. k - 1 : i + 1 \in 1 .. k
  BY <1>1
<1>8. Range(s) = {s[i] : i \in 1 .. k}
  BY <1>1 DEF Range
<1>9. Range(Tail(s)) = {Tail(s)[i] : i \in 1 .. k - 1}
  BY <1>4 DEF Range
<1>10. \A i \in 1 .. k : s[i] = Head(s) \/ s[i] \in Range(Tail(s))
  BY <1>3, <1>5, <1>6, <1>9
<1>11. \A i \in 1 .. k - 1 : Tail(s)[i] \in Range(s)
  BY <1>3, <1>7, <1>8
<1> QED BY <1>2, <1>3, <1>8, <1>9, <1>10, <1>11

\* No path takes an arc twice, and no node is twice in open_nodes.
NoLoops ==
    /\ \A n \in DOMAIN nodes : IsInjective(nodes[n].path)
    /\ IsInjective(open)

\* The nodes in open_nodes are the next one and the others.
LEMMA OpenNodes ==
    ASSUME Inv1, open # <<>>
    PROVE  NextNode \in Range(open) /\ Range(open) = {NextNode} \cup Range(Tail(open))
BY HeadTailRange DEF Inv1, Typed, NextNode

\* The next node is not among the others that are open.
LEMMA HeadOnce ==
    ASSUME Inv1, NoLoops, open # <<>>
    PROVE  NextNode \notin Range(Tail(open))
<1>1. 1 \in DOMAIN open /\ NextNode = open[1]
  BY Taken
<1>2. \A i \in DOMAIN Tail(open) :
          i \in Nat /\ i + 1 \in DOMAIN open /\ 1 < i + 1 /\ Tail(open)[i] = open[i + 1]
  BY Taken
<1>3. ASSUME NEW i \in DOMAIN Tail(open)
      PROVE  Tail(open)[i] # NextNode
  <2>1. i \in Nat /\ i + 1 \in DOMAIN open /\ i + 1 # 1 /\ Tail(open)[i] = open[i + 1]
    BY <1>2
  <2> QED BY <1>1, <2>1 DEF NoLoops, IsInjective
<1> QED BY <1>3 DEF Range

\* The arc is not on the path yet.
LEMMA NewPathOnce ==
    ASSUME Inv1, Disjoint, NoLoops, TakeArc
    PROVE  IsInjective(NewPath)
<1> DEFINE path == nodes[node].path
<1>1. /\ node \in DOMAIN nodes /\ path \in Seq(Elements) /\ Arc \in Elements
      /\ pc = "expand" /\ Arc \in Range(arcs)
  BY Expanded DEF IsNode
<1>2. IsInjective(path) /\ Arc \notin Range(path)
  BY <1>1 DEF NoLoops, Disjoint, PathOf
<1>3. NewPath = Append(path, Arc)
  BY DEF NewPath
<1> HIDE DEF path
<1>4. PICK k \in Nat : Len(path) = k /\ DOMAIN path = 1 .. k
  BY <1>1, LenProperties
<1>5. /\ NewPath \in Seq(Elements) /\ Len(NewPath) = k + 1
      /\ \A i \in 1 .. k : NewPath[i] = path[i]
      /\ NewPath[k + 1] = Arc
  BY <1>1, <1>3, <1>4, AppendProperties
<1>6. /\ DOMAIN NewPath = 1 .. k + 1 /\ \A i \in 1 .. k + 1 : i \in 1 .. k \/ i = k + 1
      /\ \A i \in 1 .. k : path[i] # Arc
  BY <1>2, <1>4, <1>5, LenProperties DEF Range
<1> QED BY <1>2, <1>4, <1>5, <1>6 DEF IsInjective

\* Every step keeps both.
LEMMA NoLoopsStep ==
    Inv1 /\ Disjoint /\ RestAtNodes /\ NoLoops /\ LabelerStaysInC /\ [Next]_vars => NoLoops'
<1> SUFFICES ASSUME Inv1, Disjoint, RestAtNodes, NoLoops, LabelerStaysInC, [Next]_vars
             PROVE  NoLoops'
  OBVIOUS
<1>1. \A n \in DOMAIN nodes : IsInjective(nodes'[n].path)
  BY TypedStep DEF NodesKept, NoLoops
<1>2. open = <<>> => DOMAIN open = {}
  OBVIOUS
<1>3. CASE CreateRoot
  <2>1. open' = <<1>> /\ nodes' = <<NewNode(<<>>, {}, GetLabel(param), Recorded(param))>>
    BY <1>3 DEF CreateRoot
  <2>2. DOMAIN nodes' = {1} /\ nodes'[1].path = <<>> /\ DOMAIN open' = {1}
    BY <2>1 DEF NewNode
  <2> QED BY <2>2 DEF NoLoops, IsInjective
<1>4. CASE GenerateNode
  <2> DEFINE id == Len(nodes) + 1
  <2>1. /\ id \notin DOMAIN nodes /\ DOMAIN nodes' = DOMAIN nodes \cup {id}
        /\ nodes'[id].path = NewPath
        /\ open' = IF CanPrune(NewPath, open) THEN open ELSE Append(open, id)
    BY <1>4, GenerateNodeTyped DEF ChildAdded
  <2> HIDE DEF id
  <2>2. IsInjective(NewPath)
    BY <1>4, NewPathOnce DEF GenerateNode
  <2>3. IsInjective(open')
    <3>1. CASE open' = open
      BY <3>1 DEF NoLoops
    <3>2. CASE open' = Append(open, id)
      <4>1. PICK k \in Nat : Len(open) = k /\ DOMAIN open = 1 .. k /\ open \in Seq(DOMAIN nodes)
        BY LenProperties DEF Inv1, Typed
      <4>2. open \in Seq(DOMAIN nodes \cup {id}) /\ id \in DOMAIN nodes \cup {id}
        BY <4>1, SeqMonotonic
      <4>3. /\ open' \in Seq(DOMAIN nodes \cup {id}) /\ Len(open') = k + 1
            /\ \A i \in 1 .. k : open'[i] = open[i]
            /\ open'[k + 1] = id
        BY <3>2, <4>1, <4>2, AppendProperties
      <4>4. /\ DOMAIN open' = 1 .. k + 1 /\ \A i \in 1 .. k + 1 : i \in 1 .. k \/ i = k + 1
            /\ \A i \in 1 .. k : open[i] # id
        BY <2>1, <4>1, <4>3, LenProperties, ElementOfSeq
      <4> QED BY <4>1, <4>3, <4>4 DEF NoLoops, IsInjective
    <3> QED BY <2>1, <3>1, <3>2
  <2> QED BY <1>1, <2>1, <2>2, <2>3 DEF NoLoops
<1>5. CASE DOMAIN nodes' = DOMAIN nodes /\ open # <<>> /\ open' = Tail(open)
  <2>1. ASSUME NEW i \in DOMAIN open', NEW j \in DOMAIN open', open'[i] = open'[j]
        PROVE  i = j
    <3>1. /\ i \in Nat /\ i + 1 \in DOMAIN open /\ open'[i] = open[i + 1]
          /\ j \in Nat /\ j + 1 \in DOMAIN open /\ open'[j] = open[j + 1]
      BY <1>5, <2>1, Taken
    <3>2. i + 1 = j + 1
      BY <2>1, <3>1 DEF NoLoops, IsInjective
    <3> QED BY <3>1, <3>2
  <2> QED BY <1>1, <1>5, <2>1 DEF NoLoops, IsInjective
<1>6. CASE DOMAIN nodes' = DOMAIN nodes /\ open' = open
  BY <1>1, <1>6 DEF NoLoops
<1>7. CreateRoot \/ GenerateNode \/ (open # <<>> /\ open' = Tail(open)) \/ open' = open
  BY Turns
<1> QED BY <1>3, <1>4, <1>5, <1>6, <1>7, Changes

----------------------------------------------------------------------------
(* Where the open nodes are.                                               *)

\* The next node is no deeper than the others, and no node that is open is above the
\* one being labelled or expanded.
LEMMA FirstOpen ==
    ASSUME Inv1, Ordered
    PROVE  /\ Range(open) \subseteq DOMAIN nodes
           /\ \A n \in DOMAIN nodes : Depth(n) \in Nat
           /\ open # <<>> => \A m \in Range(open) : Depth(NextNode) <= Depth(m)
           /\ pc \in {"compare", "expand"} =>
                 node \in DOMAIN nodes /\ \A m \in Range(open) : Depth(node) <= Depth(m)
<1>1. Range(open) \subseteq DOMAIN nodes
  BY RangeOfSeq DEF Inv1, Typed
<1>2. \A n \in DOMAIN nodes : Depth(n) \in Nat
  BY LenProperties DEF Inv1, Typed, NodesTyped, IsNodes, IsNode, Depth
<1>3. ASSUME open # <<>>, NEW i \in DOMAIN open
      PROVE  Depth(NextNode) <= Depth(open[i])
  <2>1. 1 \in DOMAIN open /\ NextNode = open[1] /\ i \in Nat
    BY <1>3, Taken
  <2>2. i = 1 \/ 1 < i
    BY <2>1, LenProperties DEF Inv1, Typed
  <2>3. CASE i = 1
    <3>1. Depth(NextNode) \in Nat
      BY <1>1, <1>2, <2>1 DEF Range
    <3> QED BY <2>1, <2>3, <3>1
  <2>4. CASE 1 < i
    BY <2>1, <2>4 DEF Ordered
  <2> QED BY <2>2, <2>3, <2>4
<1>4. pc \in {"compare", "expand"} =>
         node \in DOMAIN nodes /\ \A i \in DOMAIN open : Depth(node) <= Depth(open[i])
  BY DEF Inv1, InTurn, Ordered
<1> QED BY <1>1, <1>2, <1>3, <1>4 DEF Range

\* Node n is still to be taken from open_nodes, or its level is over.
Waits(n) ==
    /\ pc = "loop" => n \in Range(open) \/ \A m \in Range(open) : Depth(n) <= Depth(m)
    /\ pc \in {"compare", "expand"} => n \in Range(open) \/ Depth(n) <= Depth(node)

\* An open node is not lost.
OpenWait == \A n \in DOMAIN nodes : nodes[n].status = "Open" => Waits(n)

\* What a step does to open_nodes and to the node at hand.
LEMMA Moves ==
    ASSUME Inv1, [Next]_vars
    PROVE  \/ CreateRoot
           \/ GenerateNode
           \/ /\ pc = "loop" /\ open # <<>> /\ open' = Tail(open)
              /\ node' = NextNode \/ pc' \in {"loop", "done"}
           \/ open' = open /\ node' = node /\ pc' \in {"done", pc}
           \/ open' = open /\ node' = node /\ pc \in {"compare", "expand"}
BY Turns

\* A node that waits goes on waiting, until it is taken.
LEMMA WaitsOn ==
    ASSUME Inv1, RestAtNodes, Ordered, LabelerStaysInC, [Next]_vars,
           NEW n \in DOMAIN nodes, Waits(n)
    PROVE  Waits(n)'
<1>1. Inv1 /\ RestAtNodes /\ Ordered
  OBVIOUS
<1>2. \A m \in DOMAIN nodes : Depth(m) \in Nat /\ Len(nodes'[m].path) = Depth(m)
  BY <1>1, DepthsKept
<1>3. /\ Range(open) \subseteq DOMAIN nodes
      /\ open # <<>> => \A m \in Range(open) : Depth(NextNode) <= Depth(m)
      /\ pc \in {"compare", "expand"} =>
            node \in DOMAIN nodes /\ \A m \in Range(open) : Depth(node) <= Depth(m)
  BY <1>1, FirstOpen
<1>4. CASE CreateRoot
  BY <1>1, <1>4 DEF CreateRoot, Inv1, InTurn
<1>5. CASE GenerateNode
  <2>1. /\ pc = "expand" /\ node' = node /\ pc' \in {"loop", "expand"}
        /\ Len(NewPath) = Depth(node) + 1
    BY <1>1, <1>5, Expanded DEF GenerateNode, TakeArc, Depth
  <2>2. PICK id :
        /\ nodes'[id].path = NewPath
        /\ open' = open \/ open' = Append(open, id)
    BY <1>1, <1>5, GenerateNodeTyped DEF ChildAdded
  <2>3. Range(open') = Range(open) \/ Range(open') = Range(open) \cup {id}
    BY <1>1, <2>2, AppendRange DEF Inv1, Typed
  <2>4. n \in Range(open) \/ Depth(n) <= Depth(node)
    BY <2>1 DEF Waits
  <2>5. ASSUME Depth(n) <= Depth(node)
        PROVE  /\ Len(nodes'[n].path) <= Len(nodes'[node'].path)
               /\ \A m \in Range(open') : Len(nodes'[n].path) <= Len(nodes'[m].path)
    <3>1. \A m \in Range(open) : Depth(n) <= Depth(m)
      <4> TAKE m \in Range(open)
      <4>1. /\ Depth(node) <= Depth(m) /\ Depth(n) \in Nat /\ Depth(m) \in Nat
            /\ Depth(node) \in Nat
        BY <1>2, <1>3, <2>1
      <4> QED BY <2>5, <4>1
    <3>2. Depth(n) <= Len(NewPath)
      BY <1>2, <1>3, <2>1, <2>5
    <3> QED BY <1>2, <1>3, <2>1, <2>2, <2>3, <2>5, <3>1, <3>2
  <2> QED BY <2>1, <2>3, <2>4, <2>5 DEF Waits, Depth
<1>6. CASE pc = "loop" /\ open # <<>> /\ open' = Tail(open)
              /\ (node' = NextNode \/ pc' \in {"loop", "done"})
  <2>1. NextNode \in Range(open) /\ Range(open) = {NextNode} \cup Range(open')
    BY <1>1, <1>6, OpenNodes
  <2>2. n \in Range(open') \/ \A m \in Range(open) : Depth(n) <= Depth(m)
    BY <1>3, <1>6, <2>1 DEF Waits
  <2>3. ASSUME \A m \in Range(open) : Depth(n) <= Depth(m)
        PROVE  /\ Len(nodes'[n].path) <= Len(nodes'[NextNode].path)
               /\ \A m \in Range(open') : Len(nodes'[n].path) <= Len(nodes'[m].path)
    BY <1>2, <1>3, <2>1, <2>3
  <2>4. pc' \in {"compare", "expand"} => node' = NextNode
    BY <1>6
  <2> QED BY <2>2, <2>3, <2>4 DEF Waits, Depth
<1>7. CASE open' = open /\ node' = node /\ pc' \in {"done", pc}
  <2>1. CASE pc' = "loop" /\ pc = "loop"
    BY <1>2, <1>3, <1>7, <2>1 DEF Waits, Depth
  <2>2. CASE pc' \in {"compare", "expand"} /\ pc \in {"compare", "expand"}
    BY <1>2, <1>3, <1>7, <2>2 DEF Waits, Depth
  <2> QED BY <1>7, <2>1, <2>2 DEF Waits
<1>8. CASE open' = open /\ node' = node /\ pc \in {"compare", "expand"}
  <2>1. n \in Range(open') \/ Depth(n) <= Depth(node)
    BY <1>8 DEF Waits
  <2>2. ASSUME Depth(n) <= Depth(node)
        PROVE  \A m \in Range(open') : Depth(n) <= Depth(m)
    <3> TAKE m \in Range(open')
    <3>1. /\ Depth(node) <= Depth(m) /\ Depth(n) \in Nat /\ Depth(m) \in Nat
          /\ Depth(node) \in Nat
      BY <1>2, <1>3, <1>8
    <3> QED BY <2>2, <3>1
  <2>3. /\ Len(nodes'[n].path) = Depth(n) /\ Len(nodes'[node'].path) = Depth(node)
        /\ \A m \in Range(open') : Len(nodes'[m].path) = Depth(m)
    BY <1>2, <1>3, <1>8
  <2> QED BY <2>1, <2>2, <2>3 DEF Waits, Depth
<1> QED BY <1>1, <1>4, <1>5, <1>6, <1>7, <1>8, Moves

\* No step loses an open node.
LEMMA OpenWaitStep ==
    Inv1 /\ RestAtNodes /\ Ordered /\ OpenWait /\ LabelerStaysInC /\ [Next]_vars => OpenWait'
<1> SUFFICES ASSUME Inv1, RestAtNodes, Ordered, OpenWait, LabelerStaysInC, [Next]_vars,
                    NEW n \in DOMAIN nodes', nodes'[n].status = "Open"
             PROVE  Waits(n)'
  BY DEF OpenWait
<1>1. CASE n \in DOMAIN nodes
  <2>1. nodes[n].status = "Open"
    BY <1>1, TypedStep DEF NodesKept
  <2> QED BY <1>1, <2>1, WaitsOn DEF OpenWait
<1>2. CASE CreateRoot
  <2>1. nodes' = <<NewNode(<<>>, {}, GetLabel(param), Recorded(param))>> /\ open' = <<1>>
        /\ pc' \in {"loop", "done"}
    BY <1>2 DEF CreateRoot
  <2>2. DOMAIN nodes' = {1} /\ DOMAIN open' = {1} /\ open'[1] = 1
    BY <2>1
  <2>3. n \in Range(open')
    BY <2>2 DEF Range
  <2> QED BY <2>1, <2>3 DEF Waits
<1>3. CASE GenerateNode /\ n \notin DOMAIN nodes
  <2>1. PICK id :
        /\ DOMAIN nodes' = DOMAIN nodes \cup {id}
        /\ nodes'[id].status = IF CanPrune(NewPath, open) THEN "Closed" ELSE "Open"
        /\ open' = IF CanPrune(NewPath, open) THEN open ELSE Append(open, id)
    BY <1>3, GenerateNodeTyped DEF ChildAdded
  <2>2. n = id /\ open' = Append(open, id)
    BY <1>3, <2>1
  <2>3. n \in Range(open')
    BY <2>2, AppendRange DEF Inv1, Typed
  <2> QED BY <2>3 DEF Waits
<1> QED BY <1>1, <1>2, <1>3, Changes

----------------------------------------------------------------------------
(* One open node per path.                                                 *)

\* No two open nodes are at the end of the same path.
OnePath ==
    \A m, n \in DOMAIN nodes :
        m # n /\ nodes[m].status = "Open" /\ nodes[n].status = "Open" => PathOf(m) # PathOf(n)

\* A node at the end of the path to be generated is in open_nodes if it is not lost.
LEMMA SamePath ==
    ASSUME Inv1, Ordered, NoLoops, TakeArc, IsInjective(NewPath), NEW m \in DOMAIN nodes,
           PathOf(m) = Range(NewPath), Waits(m)
    PROVE  m \in Range(open)
<1>1. /\ pc = "expand" /\ node \in DOMAIN nodes
      /\ NewPath \in Seq(Elements) /\ Len(NewPath) = Depth(node) + 1
  BY Expanded DEF Depth
<1>2. Len(NewPath) = Cardinality(PathOf(m))
  BY <1>1, ListLength
<1>3. nodes[m].path \in Seq(Elements) /\ IsInjective(nodes[m].path)
  BY DEF Inv1, Typed, NodesTyped, IsNodes, IsNode, NoLoops
<1>4. Depth(m) = Cardinality(PathOf(m))
  BY <1>3, ListLength DEF Depth, PathOf
<1>5. Depth(m) = Depth(node) + 1 /\ Depth(node) \in Nat
  BY <1>1, <1>2, <1>4, FirstOpen
<1> QED BY <1>1, <1>5 DEF Waits

\* Every step keeps them apart: rule 3.ii closes a new node at the end of an open path.
LEMMA OnePathStep ==
    Inv1 /\ Disjoint /\ RestAtNodes /\ Ordered /\ NoLoops /\ OpenWait /\ OnePath
        /\ LabelerStaysInC /\ [Next]_vars => OnePath'
<1> SUFFICES ASSUME Inv1, Disjoint, RestAtNodes, Ordered, NoLoops, OpenWait, OnePath,
                    LabelerStaysInC, [Next]_vars
             PROVE  OnePath'
  OBVIOUS
<1>1. NodesKept
  BY TypedStep
<1>2. \A n \in DOMAIN nodes :
          /\ nodes'[n].status = "Open" => nodes[n].status = "Open"
          /\ Range(nodes'[n].path) = PathOf(n)
  BY <1>1 DEF NodesKept, PathOf
<1>3. CASE CreateRoot
  <2>1. nodes' = <<NewNode(<<>>, {}, GetLabel(param), Recorded(param))>>
    BY <1>3 DEF CreateRoot
  <2>2. DOMAIN nodes' = {1}
    BY <2>1
  <2> QED BY <2>2 DEF OnePath
<1>4. CASE GenerateNode
  <2>1. PICK id :
        /\ DOMAIN nodes' = DOMAIN nodes \cup {id}
        /\ nodes'[id].path = NewPath
        /\ nodes'[id].status = IF CanPrune(NewPath, open) THEN "Closed" ELSE "Open"
    BY <1>1, <1>4, GenerateNodeTyped DEF ChildAdded
  <2>2. ASSUME NEW m \in DOMAIN nodes, nodes[m].status = "Open", PathOf(m) = Range(NewPath)
        PROVE  CanPrune(NewPath, open)
    <3>1. TakeArc
      BY <1>4 DEF GenerateNode
    <3>2. m \in Range(open)
      BY <2>2, <3>1, NewPathOnce, SamePath DEF OpenWait
    <3> QED BY <2>2, <3>2 DEF CanPrune, Range
  <2> QED BY <1>2, <2>1, <2>2 DEF OnePath, PathOf
<1>5. CASE DOMAIN nodes' = DOMAIN nodes
  BY <1>2, <1>5 DEF OnePath, PathOf
<1> QED BY <1>3, <1>4, <1>5, Changes

----------------------------------------------------------------------------
(* The inductive invariants.                                               *)

\* What holds of every search, whatever the labels are worth.
Shape ==
    /\ Inv1 /\ AtHand
    /\ Disjoint /\ RestAtNodes /\ NoLoops
    /\ Distinct /\ Limited
    /\ Ordered /\ LookupFinds /\ OpenWait /\ OnePath

\* A search begins with it.
LEMMA ShapeInit == Init => Shape
<1> SUFFICES ASSUME Init
             PROVE  Shape
  OBVIOUS
<1>1. /\ param \in Initial /\ limit \in Limits(param) /\ pc = "root"
      /\ nodes = <<>> /\ open = <<>> /\ nodeLabels = <<>> /\ pathLabels = <<>>
      /\ lookup = EmptyFunction /\ labelNodes = EmptyFunction
      /\ node = 0 /\ fresh = <<>> /\ greater = {} /\ arcs = <<>>
  BY DEF Init
<1>2. DOMAIN lookup = {} /\ DOMAIN labelNodes = {}
  BY <1>1 DEF EmptyFunction
<1>3. /\ <<>> \in Seq(Elements) /\ <<>> \in Seq(Seq(Elements)) /\ <<>> \in Seq(DOMAIN nodes)
      /\ <<>> \in Seq(Range(nodes)) /\ DOMAIN nodes = {}
  BY <1>1, EmptySeq
<1>4. Inv1
  BY <1>1, <1>2, <1>3 DEF Inv1, Typed, InTurn, NodesTyped, IsNodes
<1>5. AtHand /\ Disjoint /\ RestAtNodes /\ NoLoops /\ Distinct
  BY <1>1 DEF AtHand, Disjoint, RestAtNodes, NoLoops, IsInjective, Distinct, Apart
<1>6. Limited
  <2>1. limit \in [diagnoses : {NoLimit} \cup (Nat \ {0}),
                   conflicts : {NoLimit} \cup (Nat \ {0}), depth : Nat]
    BY <1>1, LimitsAssumption
  <2> QED BY <1>1, <2>1 DEF Limited, LimitsRespected, Diagnoses, Conflicts
<1>7. Ordered /\ LookupFinds
  BY <1>1, <1>2 DEF Ordered, ShortestFirst, LookupFinds
<1>8. OpenWait /\ OnePath
  BY <1>3 DEF OpenWait, OnePath
<1> QED BY <1>4, <1>5, <1>6, <1>7, <1>8 DEF Shape

\* Every step keeps it, as long as the labeler stays in C.
LEMMA ShapeStep == Shape /\ LabelerStaysInC /\ [Next]_vars => Shape'
BY TypedStep, AtHandStep, DisjointStep, RestStep, NoLoopsStep, DistinctStep, LimitedStep,
   OrderedStep, LookupStep, OpenWaitStep, OnePathStep DEF Shape

\* It holds along the search of a labeler that stays in C.
LEMMA ShapeHolds == Spec /\ []LabelerStaysInC => []Shape
BY ShapeInit, ShapeStep, PTL DEF Spec

\* With a labeler that keeps its promise the reports are right, too.
Inv == Shape /\ Described /\ Sound

\* A search begins with this.
LEMMA InvInit == Init => Inv
<1> SUFFICES ASSUME Init
             PROVE  Inv
  OBVIOUS
<1>1. pc = "root" /\ DOMAIN nodes = {} /\ DOMAIN nodeLabels = {} /\ DOMAIN pathLabels = {}
  BY DEF Init
<1> QED BY <1>1, ShapeInit DEF Inv, Described, Sound

\* Every step keeps it, as long as the labeler keeps its promise.
LEMMA InvStep == Inv /\ LabelerKeepsPromise /\ [Next]_vars => Inv'
BY PromiseStaysInC, ShapeStep, DescribedStep, SoundStep DEF Inv, Shape

\* It holds along the search of a labeler that keeps its promise.
LEMMA InvHolds == Spec /\ []LabelerKeepsPromise => []Inv
BY InvInit, InvStep, PTL DEF Spec

----------------------------------------------------------------------------
(* Conflicts and diagnoses of a knowledge base.                            *)

\* What includes a conflict (a diagnosis) is one.
LEMMA Larger ==
    ASSUME param \in Initial, NEW K, NEW M \in SUBSET Elements, K \subseteq M
    PROVE  /\ IsConflict(K) => IsConflict(M)
           /\ IsDiagnosis(K) => IsDiagnosis(M)
<1>1. \A T \in SUBSET Elements : ~Inconsistent(param, T) =>
          \A S \in SUBSET T : ~Inconsistent(param, S)
  BY MonotoneAssumption DEF Elements
<1>2. K \in SUBSET M /\ Elements \ M \in SUBSET (Elements \ K)
      /\ Elements \ K \in SUBSET Elements
  OBVIOUS
<1>3. IsConflict(K) => IsConflict(M)
  BY <1>1, <1>2, Zenon DEF IsConflict
<1>4. IsDiagnosis(K) => IsDiagnosis(M)
  BY <1>1, <1>2, Zenon DEF IsDiagnosis
<1> QED BY <1>3, <1>4

\* Every diagnosis has something of every conflict.
LEMMA Meeting ==
    ASSUME param \in Initial, NEW K, NEW D, IsConflict(K), IsDiagnosis(D)
    PROVE  K \cap D # {}
<1>1. \A T \in SUBSET Elements : ~Inconsistent(param, T) =>
          \A S \in SUBSET T : ~Inconsistent(param, S)
  BY MonotoneAssumption DEF Elements
<1>2. K \subseteq Elements /\ Inconsistent(param, K) /\ ~Inconsistent(param, Elements \ D)
  BY DEF IsConflict, IsDiagnosis
<1>3. Elements \ D \in SUBSET Elements /\ K \notin SUBSET (Elements \ D)
  BY <1>1, <1>2, Zenon
<1> QED BY <1>2, <1>3

\* A minimal conflict (diagnosis) includes no other.
LEMMA Least ==
    ASSUME param \in Initial, NEW K, NEW M, K \subseteq M
    PROVE  /\ IsConflict(K) /\ M \in MinimalConflicts => K = M
           /\ IsDiagnosis(K) /\ M \in MinimalDiagnoses => K = M
<1> SUFFICES ASSUME NEW x \in M \ K
             PROVE  /\ ~(IsConflict(K) /\ M \in MinimalConflicts)
                    /\ ~(IsDiagnosis(K) /\ M \in MinimalDiagnoses)
  OBVIOUS
<1>1. K \subseteq M \ {x}
  OBVIOUS
<1>2. ASSUME IsConflict(K), M \in MinimalConflicts
      PROVE  FALSE
  <2>1. M \in SUBSET Elements /\ ~IsConflict(M \ {x})
    BY <1>2 DEF MinimalConflicts
  <2> QED BY <1>1, <1>2, <2>1, Larger
<1>3. ASSUME IsDiagnosis(K), M \in MinimalDiagnoses
      PROVE  FALSE
  <2>1. M \in SUBSET Elements /\ ~IsDiagnosis(M \ {x})
    BY <1>3 DEF MinimalDiagnoses
  <2> QED BY <1>1, <1>3, <2>1, Larger
<1> QED BY <1>2, <1>3

\* No label of a labeler with minimal labels is part of another.
LEMMA NotPart ==
    ASSUME param \in Initial, Minimal(param), NEW K, NEW M, K \subseteq M,
           RightLabel(K), RightLabel(M)
    PROVE  K = M
<1>1. CASE GetType(param) = "CONFLICT"
  BY <1>1, Least DEF RightLabel
<1>2. CASE GetType(param) # "CONFLICT"
  BY <1>2, Least DEF RightLabel
<1> QED BY <1>1, <1>2

----------------------------------------------------------------------------
(* A labeler with minimal labels: nothing is replaced or pruned.            *)

\* No label is about to be replaced, what is to be expanded is still open, and rule 1.a
\* finds every node.
Undisturbed ==
    Minimal(param) =>
        /\ greater = {}
        /\ \A n \in Range(open) : nodes[n].status = "Open"
        /\ pc \in {"compare", "expand"} => nodes[node].status = "Open"
        /\ \A n \in DOMAIN nodes :
              /\ \/ nodes[n].label = <<>>
                 \/ \E i \in DOMAIN nodeLabels : nodes[n].label = nodeLabels[i]
              /\ PathOf(n) = {} \/ PathOf(n) \in DOMAIN lookup

\* A fresh label that is minimal is part of no known one.
NothingGreater ==
    pc = "compare" /\ Minimal(param) =>
        \A i \in DOMAIN nodeLabels : ~(Range(fresh) \subseteq Range(nodeLabels[i]))

LEMMA FreshIsLeast == Inv => NothingGreater
<1> SUFFICES ASSUME Inv, Minimal(param), pc = "compare",
                    NEW i \in DOMAIN nodeLabels, Range(fresh) \subseteq Range(nodeLabels[i])
             PROVE  FALSE
  BY DEF NothingGreater
<1>1. RightLabel(Range(fresh)) /\ RightLabel(Range(nodeLabels[i]))
  BY DEF Inv, Sound
<1>2. Range(fresh) = Range(nodeLabels[i])
  BY <1>1, NotPart DEF Inv, Shape, Inv1, Typed
<1> QED BY <1>2 DEF Inv, Shape, Distinct

\* The known labels stay known.
LEMMA LabelsStay ==
    ASSUME Inv1, [Next]_vars
    PROVE  \A i \in DOMAIN nodeLabels :
              i \in DOMAIN nodeLabels' /\ nodeLabels'[i] = nodeLabels[i]
<1>1. CASE CreateRoot
  BY <1>1 DEF CreateRoot, Inv1, InTurn
<1>2. CASE AddLabel
  <2>1. nodeLabels' = Append(nodeLabels, fresh) /\ fresh \in Seq(Elements)
        /\ nodeLabels \in Seq(Seq(Elements))
    BY <1>2 DEF AddLabel, Inv1, Typed
  <2>2. PICK k \in Nat : Len(nodeLabels) = k /\ DOMAIN nodeLabels = 1 .. k
    BY <2>1, LenProperties
  <2>3. /\ nodeLabels' \in Seq(Seq(Elements)) /\ Len(nodeLabels') = k + 1
        /\ \A i \in DOMAIN nodeLabels : nodeLabels'[i] = nodeLabels[i]
    BY <2>1, <2>2, Appended
  <2>4. DOMAIN nodeLabels' = 1 .. k + 1
    BY <2>3, LenProperties
  <2> QED BY <2>2, <2>3, <2>4
<1>3. CASE nodeLabels' = nodeLabels
  BY <1>3
<1> QED BY <1>1, <1>2, <1>3, Changes

\* Rule 1.b closes no new node: no report is as long as its path, and no other node is
\* at its end.
LEMMA NotClosed ==
    ASSUME Inv, Undisturbed, Minimal(param), LabelerKeepsPromise, GenerateNode
    PROVE  ~CanPrune(NewPath, open)
<1> USE DEF Inv, Shape
<1>1. /\ pc = "expand" /\ node \in DOMAIN nodes /\ NewPath \in Seq(Elements)
      /\ Len(NewPath) = Len(nodes[node].path) + 1
      /\ Range(NewPath) = PathOf(node) \cup {Arc}
  BY Expanded DEF GenerateNode
<1>2. IsInjective(NewPath)
  BY NewPathOnce DEF GenerateNode
<1>3. ASSUME NEW i \in DOMAIN pathLabels, Range(NewPath) \subseteq Range(pathLabels[i])
      PROVE  FALSE
  <2>1. pathLabels[i] \in Seq(Elements)
    <3>1. i \in 1 .. Len(pathLabels)
      BY LenProperties DEF Typed, Inv1
    <3> QED BY <3>1, ElementOfSeq DEF Typed, Inv1
  <2>2. Len(NewPath) <= Len(pathLabels[i])
    BY <1>1, <1>2, <1>3, <2>1, PartOfList
  <2>3. Len(pathLabels[i]) <= Len(nodes[node].path)
    BY <1>1 DEF Ordered, Depth
  <2>4. Len(pathLabels[i]) \in Nat /\ Len(nodes[node].path) \in Nat
    BY <1>1, <2>1, LenProperties DEF Inv1, Typed, NodesTyped, IsNodes, IsNode
  <2> QED BY <1>1, <2>2, <2>3, <2>4
<1>4. ASSUME NEW i \in DOMAIN open, PathOf(open[i]) = Range(NewPath)
      PROVE  FALSE
  <2>1. open[i] \in DOMAIN nodes
    <3>1. i \in 1 .. Len(open)
      BY LenProperties DEF Typed, Inv1
    <3> QED BY <3>1, ElementOfSeq DEF Typed, Inv1
  <2>2. PathOf(open[i]) # {}
    BY <1>1, <1>4
  <2>3. PathOf(open[i]) \in DOMAIN lookup
    BY <2>1, <2>2 DEF Undisturbed
  <2> QED BY <1>4, <2>3 DEF GenerateNode
<1> QED BY <1>3, <1>4 DEF CanPrune

\* Every step leaves it so.
LEMMA UndisturbedStep ==
    Inv /\ Undisturbed /\ LabelerKeepsPromise /\ [Next]_vars => Undisturbed'
<1> SUFFICES ASSUME Inv, Undisturbed, LabelerKeepsPromise, [Next]_vars, Minimal(param)'
             PROVE  Undisturbed'
  BY DEF Undisturbed
<1>1. param' = param /\ Minimal(param)
  BY Changes
<1>2. Inv1 /\ NoLoops /\ Inv' /\ Inv1' /\ NodesKept
  BY PromiseStaysInC, InvStep, TypedStep DEF Inv, Shape
<1>3. ~ReplaceLabel
  BY <1>1 DEF ReplaceLabel, Undisturbed
<1>4. greater' = {}
  <2>1. CASE ComputeLabel
    <3>1. /\ pc' = "compare" /\ nodeLabels' = nodeLabels
          /\ greater' \subseteq {i \in DOMAIN nodeLabels : Range(fresh') \subseteq Range(nodeLabels[i])}
      BY <2>1 DEF ComputeLabel, found
    <3>2. NothingGreater'
      BY <1>2, FreshIsLeast, PTL
    <3> QED BY <1>1, <3>1, <3>2 DEF NothingGreater
  <2>2. CASE ~ComputeLabel
    <3>1. greater' = greater
      BY <1>3, <2>2 DEF Next, NoRoot, CreateRoot, NothingOpen, VisitRoot, Skip, ReuseLabel,
         FindPathLabel, AddLabel, ReuseNode, GenerateNode, vars, work
    <3> QED BY <1>1, <3>1 DEF Undisturbed
  <2> QED BY <2>1, <2>2
<1>5. \A n \in DOMAIN nodes : open' # Tail(open) \/ open = <<>> => nodes'[n].status = nodes[n].status
  BY <1>2, <1>3, Labels
<1>6. open = <<>> \/ open # Tail(open)
  BY <1>2, OpenNodes, HeadOnce
<1>7. pc \in {"compare", "expand"} => node \in DOMAIN nodes
  BY <1>2 DEF Inv1, InTurn
<1>8. Range(open) \subseteq DOMAIN nodes
  BY <1>2, RangeOfSeq DEF Inv1, Typed
<1>9. CASE CreateRoot
  <2>1. /\ nodes' = <<NewNode(<<>>, {}, GetLabel(param), Recorded(param))>>
        /\ open' = <<1>> /\ nodeLabels' = <<GetLabel(param)>> /\ pc' \in {"loop", "done"}
    BY <1>9 DEF CreateRoot
  <2>2. /\ DOMAIN nodes' = {1} /\ DOMAIN open' = {1} /\ open'[1] = 1
        /\ nodes'[1].status = "Open" /\ nodes'[1].label = GetLabel(param)
        /\ nodes'[1].path = <<>> /\ 1 \in DOMAIN nodeLabels' /\ nodeLabels'[1] = GetLabel(param)
    BY <2>1 DEF NewNode
  <2>3. PathOf(1)' = {} /\ Range(open') = {1}
    BY <2>2 DEF PathOf, Range
  <2> QED BY <1>4, <2>1, <2>2, <2>3 DEF Undisturbed
<1>10. CASE GenerateNode
  <2>1. ~CanPrune(NewPath, open)
    BY <1>1, <1>10, NotClosed
  <2>2. PICK id :
        /\ DOMAIN nodes' = DOMAIN nodes \cup {id}
        /\ \A n \in DOMAIN nodes : nodes'[n].label = nodes[n].label
        /\ \A n \in DOMAIN nodes : nodes'[n].status = nodes[n].status
        /\ nodes'[id].status = "Open" /\ nodes'[id].label = <<>> /\ nodes'[id].path = NewPath
        /\ open' = Append(open, id)
        /\ DOMAIN lookup' = DOMAIN lookup \cup {Range(NewPath)}
    BY <1>2, <1>10, <2>1, GenerateNodeTyped DEF ChildAdded
  <2>3. pc = "expand" /\ node' = node
    BY <1>10 DEF GenerateNode, TakeArc
  <2>4. nodes'[node'].status = "Open"
    BY <1>1, <1>7, <2>2, <2>3 DEF Undisturbed
  <2>5. Range(open') = Range(open) \cup {id}
    BY <1>2, <2>2, AppendRange DEF Inv1, Typed
  <2>6. \A n \in Range(open') : nodes'[n].status = "Open"
    BY <1>1, <1>8, <2>2, <2>5 DEF Undisturbed
  <2>7. nodeLabels' = nodeLabels
    BY <1>10 DEF GenerateNode, found
  <2>8. \A n \in DOMAIN nodes' :
            \/ nodes'[n].label = <<>>
            \/ \E i \in DOMAIN nodeLabels' : nodes'[n].label = nodeLabels'[i]
    BY <1>1, <2>2, <2>7 DEF Undisturbed
  <2>9. \A n \in DOMAIN nodes' : PathOf(n)' = {} \/ PathOf(n)' \in DOMAIN lookup'
    <3>1. \A n \in DOMAIN nodes : PathOf(n)' = PathOf(n)
      BY <1>2 DEF NodesKept, PathOf
    <3>2. PathOf(id)' = Range(NewPath)
      BY <2>2 DEF PathOf
    <3> QED BY <1>1, <2>2, <3>1, <3>2 DEF Undisturbed
  <2> QED BY <1>4, <2>4, <2>6, <2>8, <2>9 DEF Undisturbed
<1>11. CASE ~CreateRoot /\ ~GenerateNode
  <2>1. DOMAIN nodes' = DOMAIN nodes
    BY <1>11, Changes
  <2>2. \A n \in DOMAIN nodes' :
            \/ nodes'[n].label = <<>>
            \/ \E i \in DOMAIN nodeLabels' : nodes'[n].label = nodeLabels'[i]
    BY <1>1, <1>2, <1>3, <2>1, Labels, LabelsStay DEF Undisturbed
  <2>3. \A n \in DOMAIN nodes' : PathOf(n)' = {} \/ PathOf(n)' \in DOMAIN lookup'
    <3>1. lookup' = lookup
      BY <1>3, <1>11 DEF Next, NoRoot, NothingOpen, VisitRoot, Skip, ReuseLabel, ComputeLabel,
         FindPathLabel, AddLabel, ReuseNode, vars, dag
    <3>2. \A n \in DOMAIN nodes : PathOf(n)' = PathOf(n)
      BY <1>2 DEF NodesKept, PathOf
    <3> QED BY <1>1, <2>1, <3>1, <3>2 DEF Undisturbed
  <2>4. \A n \in Range(open') : nodes'[n].status = "Open"
    <3>1. CASE open # <<>> /\ open' = Tail(open)
      <4> SUFFICES ASSUME NEW n \in Range(open')
                   PROVE  nodes'[n].status = "Open"
        OBVIOUS
      <4>1. n \in Range(open) /\ n # NextNode
        BY <1>2, <3>1, OpenNodes, HeadOnce
      <4>2. n \in DOMAIN nodes /\ nodes[n].status = "Open"
        BY <1>1, <1>8, <4>1 DEF Undisturbed
      <4> QED BY <1>2, <1>3, <4>1, <4>2, Labels
    <3>2. CASE open' = open
      BY <1>1, <1>5, <1>6, <1>8, <3>2 DEF Undisturbed
    <3> QED BY <1>2, <1>11, <3>1, <3>2, Turns
  <2>5. pc' \in {"compare", "expand"} => nodes'[node'].status = "Open"
    <3>1. CASE open # <<>> /\ open' = Tail(open) /\ node' = NextNode
      <4>1. NextNode \in DOMAIN nodes /\ nodes[NextNode].status = "Open"
        BY <1>1, <1>2, <1>8, <3>1, OpenNodes DEF Undisturbed
      <4> QED BY <1>2, <1>3, <3>1, <4>1, Labels
    <3>2. CASE open' = open /\ node' = node /\ pc' \in {"compare", "expand"}
                /\ pc \in {"compare", "expand"}
      BY <1>1, <1>5, <1>6, <1>7, <3>2 DEF Undisturbed
    <3> QED BY <1>2, <1>11, <3>1, <3>2, Turns
  <2> QED BY <1>4, <2>2, <2>3, <2>4, <2>5 DEF Undisturbed
<1> QED BY <1>9, <1>10, <1>11

----------------------------------------------------------------------------
(* A labeler with minimal labels: no node is lost, open or not.             *)

\* Every node is still to be taken from open_nodes, or its level is over.
Waiting == Minimal(param) => \A n \in DOMAIN nodes : Waits(n)

\* No step loses a node.
LEMMA WaitingStep ==
    Inv /\ Undisturbed /\ Waiting /\ LabelerKeepsPromise /\ [Next]_vars => Waiting'
<1> SUFFICES ASSUME Inv, Undisturbed, Waiting, LabelerKeepsPromise, [Next]_vars,
                    Minimal(param)', NEW n \in DOMAIN nodes'
             PROVE  Waits(n)'
  BY DEF Waiting
<1>1. Inv1 /\ RestAtNodes /\ Ordered /\ LabelerStaysInC /\ Minimal(param)
  BY PromiseStaysInC, Changes DEF Inv, Shape
<1>2. CASE n \in DOMAIN nodes
  BY <1>1, <1>2, WaitsOn DEF Waiting
<1>3. CASE CreateRoot
  <2>1. nodes' = <<NewNode(<<>>, {}, GetLabel(param), Recorded(param))>> /\ open' = <<1>>
        /\ pc' \in {"loop", "done"}
    BY <1>3 DEF CreateRoot
  <2>2. DOMAIN nodes' = {1} /\ DOMAIN open' = {1} /\ open'[1] = 1
    BY <2>1
  <2>3. n \in Range(open')
    BY <2>2 DEF Range
  <2> QED BY <2>1, <2>3 DEF Waits
<1>4. CASE GenerateNode /\ n \notin DOMAIN nodes
  <2>1. PICK id :
        /\ DOMAIN nodes' = DOMAIN nodes \cup {id}
        /\ nodes'[id].status = IF CanPrune(NewPath, open) THEN "Closed" ELSE "Open"
        /\ open' = IF CanPrune(NewPath, open) THEN open ELSE Append(open, id)
    BY <1>1, <1>4, GenerateNodeTyped DEF ChildAdded
  <2>2. n = id
    BY <1>4, <2>1
  <2>3. ~CanPrune(NewPath, open)
    BY <1>1, <1>4, NotClosed
  <2>4. n \in Range(open')
    BY <1>1, <2>1, <2>2, <2>3, AppendRange DEF Inv1, Typed
  <2> QED BY <2>4 DEF Waits
<1> QED BY <1>2, <1>3, <1>4, Changes

----------------------------------------------------------------------------
(* Completeness: the search is never done while a set of elements that has *)
(* something of every known label and includes no known path is to be found *)

\* The set G has something of every label and includes no path that is reported, and is
\* not larger than the paths that are explored: G leads to a report that is missing.
Guide(G) ==
    /\ \A i \in DOMAIN nodeLabels : Range(nodeLabels[i]) \cap G # {}
    /\ pc = "compare" => Range(fresh) \cap G # {}
    /\ \A i \in DOMAIN pathLabels : ~(Range(pathLabels[i]) \subseteq G)
    /\ limit.depth = NoDepth \/ Cardinality(G) <= limit.depth

\* The search still has a node to go on from inside G.
Frontier(G) ==
    \/ \E n \in Range(open) : PathOf(n) \subseteq G
    \/ pc = "compare" /\ PathOf(node) \subseteq G
    \/ pc = "expand" /\ PathOf(node) \subseteq G /\ Range(arcs) \cap G # {}

\* As long as a report is missing, the search of a labeler with minimal labels has a
\* node to go on from.
OnTheWay ==
    Minimal(param) /\ DOMAIN nodes # {} /\ ~ShouldStop(nodeLabels, pathLabels) =>
        \A G \in SUBSET Elements : Guide(G) => Frontier(G)

\* The search ends when nothing is open or a limit is met; without a root, because
\* there is nothing to find.
Ended ==
    /\ pc \notin {"root", "done"} => DOMAIN nodes # {}
    /\ pc = "done" /\ ~ShouldStop(nodeLabels, pathLabels) =>
          /\ open = <<>>
          /\ DOMAIN nodes = {} => Inconsistent(param, {}) \/ NoLabelIsRight(param)

\* Every step ends the search for these reasons only.
LEMMA EndedStep == Inv /\ Ended /\ LabelerKeepsPromise /\ [Next]_vars => Ended'
<1> SUFFICES ASSUME Inv, Ended, LabelerKeepsPromise, [Next]_vars
             PROVE  Ended'
  OBVIOUS
<1>1. /\ Inv1 /\ RestAtNodes /\ NodesKept
      /\ param' = param /\ limit' = limit
  BY PromiseStaysInC, TypedStep, Changes DEF Inv, Shape
<1>2. NoLabelIsRight(param)' <=> NoLabelIsRight(param)
  BY <1>1 DEF NoLabelIsRight
<1>3. DOMAIN nodes # {} => DOMAIN nodes' # {}
  BY <1>1 DEF NodesKept
<1>4. CASE NoRoot
  <2>1. Inconsistent(param, {}) \/ NoLabelIsRight(param)
    BY <1>4 DEF NoRoot, LabelerKeepsPromise
  <2>2. pc' = "done" /\ open' = open /\ open = <<>>
    BY <1>1, <1>4 DEF NoRoot, dag, Inv1, InTurn
  <2> QED BY <1>1, <1>2, <2>1, <2>2 DEF Ended
<1>5. CASE CreateRoot
  <2>1. nodes' = <<NewNode(<<>>, {}, GetLabel(param), Recorded(param))>>
        /\ (pc' = "done" => ShouldStop(nodeLabels', pathLabels)) /\ pathLabels' = pathLabels
    BY <1>5 DEF CreateRoot
  <2>2. DOMAIN nodes' = {1}
    BY <2>1
  <2>3. pc' = "done" => ShouldStop(nodeLabels, pathLabels)'
    BY <1>1, <2>1 DEF ShouldStop, Diagnoses, Conflicts
  <2> QED BY <2>2, <2>3 DEF Ended
<1>6. CASE NothingOpen
  <2>1. pc = "loop" /\ pc' = "done" /\ open' = <<>> /\ nodes' = nodes
    BY <1>6 DEF NothingOpen, dag
  <2> QED BY <1>3, <2>1 DEF Ended
<1>7. CASE VisitRoot \/ Skip \/ ReuseNode \/ GenerateNode \/ ComputeLabel \/ ReplaceLabel
  <2>1. pc \notin {"root", "done"} /\ pc' # "done"
    BY <1>7 DEF VisitRoot, Skip, ReuseNode, GenerateNode, ComputeLabel, ReplaceLabel, TakeArc, Visit
  <2> QED BY <1>3, <2>1 DEF Ended
<1>8. CASE ReuseLabel \/ FindPathLabel \/ AddLabel
  <2>1. pc \notin {"root", "done"}
    BY <1>8 DEF ReuseLabel, FindPathLabel, AddLabel, Visit
  <2>2. pc' = "done" => ShouldStop(nodeLabels', pathLabels')
    BY <1>8 DEF ReuseLabel, FindPathLabel, AddLabel, found
  <2>3. pc' = "done" => ShouldStop(nodeLabels, pathLabels)'
    BY <1>1, <2>2 DEF ShouldStop, Diagnoses, Conflicts
  <2> QED BY <1>3, <2>1, <2>3 DEF Ended
<1>9. CASE UNCHANGED vars
  <2>1. pc' = pc /\ nodes' = nodes /\ open' = open /\ nodeLabels' = nodeLabels
        /\ pathLabels' = pathLabels
    BY <1>9 DEF vars, dag, found
  <2>2. ShouldStop(nodeLabels, pathLabels)' <=> ShouldStop(nodeLabels, pathLabels)
    BY <1>1, <2>1 DEF ShouldStop, Diagnoses, Conflicts
  <2> QED BY <1>1, <1>2, <2>1, <2>2 DEF Ended
<1> QED BY <1>4, <1>5, <1>6, <1>7, <1>8, <1>9 DEF Next

\* The reports only become more: a set that misses one after a step did before.
LEMMA GuideBefore ==
    ASSUME Inv1, [Next]_vars, ~ReplaceLabel, NEW G, Guide(G)'
    PROVE  Guide(G)
<1>1. limit' = limit
  BY Changes
<1>2. \A i \in DOMAIN nodeLabels : Range(nodeLabels[i]) \cap G # {}
  BY LabelsStay DEF Guide
<1>3. \A i \in DOMAIN pathLabels : ~(Range(pathLabels[i]) \subseteq G)
  <2>1. CASE FindPathLabel
    <3>1. pathLabels' = Append(pathLabels, nodes[NextNode].path) /\ nodes[NextNode].path \in Seq(Elements)
          /\ pathLabels \in Seq(Seq(Elements))
      BY <2>1, Visited DEF FindPathLabel, IsNode, Inv1, Typed
    <3>2. PICK k \in Nat : Len(pathLabels) = k /\ DOMAIN pathLabels = 1 .. k
      BY <3>1, LenProperties
    <3>3. /\ pathLabels' \in Seq(Seq(Elements)) /\ Len(pathLabels') = k + 1
          /\ \A i \in DOMAIN pathLabels : pathLabels'[i] = pathLabels[i]
      BY <3>1, <3>2, Appended
    <3>4. DOMAIN pathLabels' = 1 .. k + 1
      BY <3>3, LenProperties
    <3> QED BY <3>2, <3>3, <3>4 DEF Guide
  <2>2. CASE pathLabels' = pathLabels
    BY <2>2 DEF Guide
  <2> QED BY <2>1, <2>2, Changes
<1>4. pc = "compare" => Range(fresh) \cap G # {}
  <2> SUFFICES ASSUME pc = "compare"
               PROVE  Range(fresh) \cap G # {}
    OBVIOUS
  <2>1. CASE AddLabel
    <3>1. nodeLabels' = Append(nodeLabels, fresh) /\ fresh \in Seq(Elements)
          /\ nodeLabels \in Seq(Seq(Elements))
      BY <2>1 DEF AddLabel, Inv1, Typed
    <3>2. /\ nodeLabels' \in Seq(Seq(Elements)) /\ Len(nodeLabels) \in Nat
          /\ Len(nodeLabels') = Len(nodeLabels) + 1
          /\ nodeLabels'[Len(nodeLabels) + 1] = fresh
      BY <3>1, Appended
    <3>3. Len(nodeLabels) + 1 \in DOMAIN nodeLabels'
      BY <3>2, LenProperties
    <3> QED BY <3>2, <3>3 DEF Guide
  <2>2. CASE UNCHANGED vars
    BY <2>2 DEF vars, work, Guide
  <2> QED BY <2>1, <2>2 DEF Next, NoRoot, CreateRoot, NothingOpen, VisitRoot, Skip, ReuseLabel,
         ComputeLabel, FindPathLabel, ReuseNode, GenerateNode, Visit, TakeArc
<1> QED BY <1>1, <1>2, <1>3, <1>4 DEF Guide

\* Why a node of a labeler with minimal labels is not skipped: no path inside a set that
\* leads to a missing report is too deep or part of a report.
LEMMA NotSkipped ==
    ASSUME Inv, pc = "loop", open # <<>>, NEW G \in SUBSET Elements, Guide(G),
           PathOf(NextNode) \subseteq G
    PROVE  /\ ~TooDeep(NextNode)
           /\ CanPrune(nodes[NextNode].path, Tail(open)) =>
                 \E n \in Range(Tail(open)) : PathOf(n) \subseteq G
<1> DEFINE path == nodes[NextNode].path
<1>1. NextNode \in DOMAIN nodes /\ 1 \in DOMAIN open /\ NextNode = open[1]
  BY Taken DEF Inv, Shape
<1>2. path \in Seq(Elements) /\ IsInjective(path) /\ Range(path) = PathOf(NextNode)
  BY <1>1 DEF Inv, Shape, Inv1, Typed, NodesTyped, IsNodes, IsNode, NoLoops, PathOf
<1>3. ~TooDeep(NextNode)
  <2>1. IsFiniteSet(G) /\ Cardinality(G) \in Nat
    BY FiniteAssumption, FS_Subset, FS_CardinalityType DEF Inv, Shape, Inv1, Typed, Elements
  <2>2. Len(path) = Cardinality(Range(path)) /\ Len(path) \in Nat
    BY <1>2, ListLength
  <2>3. Cardinality(Range(path)) <= Cardinality(G)
    BY <1>2, <2>1, FS_Subset
  <2>4. limit.depth \in Nat
    BY LimitsAssumption DEF Inv, Shape, Inv1, Typed
  <2> HIDE DEF path
  <2>5. Len(path) <= Cardinality(G)
    BY <2>2, <2>3
  <2>6. CASE limit.depth = NoDepth
    BY <2>6 DEF TooDeep
  <2>7. CASE Cardinality(G) <= limit.depth
    <3>1. ~(limit.depth < Len(path))
      BY <2>1, <2>2, <2>4, <2>5, <2>7
    <3> QED BY <3>1 DEF TooDeep, path
  <2> QED BY <2>6, <2>7 DEF Guide
<1>4. ASSUME NEW i \in DOMAIN pathLabels, Range(path) \subseteq Range(pathLabels[i])
      PROVE  FALSE
  <2>1. pathLabels[i] \in Seq(Elements)
    <3>1. i \in 1 .. Len(pathLabels)
      BY LenProperties DEF Typed, Inv1, Inv, Shape
    <3> QED BY <3>1, ElementOfSeq DEF Typed, Inv1, Inv, Shape
  <2>2. Len(pathLabels[i]) <= Len(path)
    BY <1>1 DEF Inv, Shape, Ordered, Depth
  <2>3. Range(pathLabels[i]) = Range(path)
    BY <1>2, <1>4, <2>1, <2>2, PartOfList
  <2> QED BY <1>2, <2>3 DEF Guide
<1>5. ASSUME NEW i \in DOMAIN Tail(open), PathOf(Tail(open)[i]) = Range(path)
      PROVE  \E n \in Range(Tail(open)) : PathOf(n) \subseteq G
  <2>1. Tail(open)[i] \in Range(Tail(open))
    BY DEF Range
  <2> QED BY <1>2, <1>5, <2>1
<1> HIDE DEF path
<1>6. CanPrune(path, Tail(open)) => \E n \in Range(Tail(open)) : PathOf(n) \subseteq G
  BY <1>4, <1>5 DEF CanPrune
<1> QED BY <1>3, <1>6 DEF path

\* The whole invariant.
Inv2 == Inv /\ Undisturbed /\ Waiting /\ Ended /\ OnTheWay

\* What a label is found to hold.
LEMMA Met ==
    ASSUME NEW G, Guide(G), NEW n \in DOMAIN nodes, Undisturbed, Minimal(param)
    PROVE  nodes[n].label = <<>> \/ Range(nodes[n].label) \cap G # {}
BY DEF Undisturbed, Guide

\* The next node is taken.
LEMMA FrontierTaken ==
    ASSUME Inv, Undisturbed, Minimal(param), LabelerKeepsPromise, [Next]_vars,
           pc = "loop", open # <<>>, open' = Tail(open),
           NEW G \in SUBSET Elements, Guide(G)', Frontier(G),
           ~ShouldStop(nodeLabels, pathLabels)'
    PROVE  Frontier(G)'
<1>1. Inv1 /\ RestAtNodes /\ NodesKept /\ ~ReplaceLabel
  BY PromiseStaysInC, TypedStep DEF Inv, Shape, ReplaceLabel
<1>2. Guide(G)
  BY <1>1, GuideBefore
<1>3. \A n \in DOMAIN nodes : Range(nodes'[n].path) = PathOf(n)
  BY <1>1 DEF NodesKept, PathOf
<1>4. /\ NextNode \in Range(open) /\ Range(open) = {NextNode} \cup Range(open')
      /\ Range(open) \subseteq DOMAIN nodes
  BY <1>1, OpenNodes, FirstOpen DEF Inv, Shape
<1>5. PICK n \in Range(open) : PathOf(n) \subseteq G
  BY DEF Frontier
<1>6. CASE \E m \in Range(open') : PathOf(m) \subseteq G
  BY <1>3, <1>4, <1>6 DEF Frontier, PathOf
<1>7. CASE PathOf(NextNode) \subseteq G /\ ~(\E m \in Range(open') : PathOf(m) \subseteq G)
  <2>1. nodes[NextNode].status = "Open"
    BY <1>4 DEF Undisturbed
  <2>2. CASE VisitRoot
    <3>1. pc' = "expand" /\ node' = NextNode /\ arcs' = nodes[NextNode].label
      BY <2>2 DEF VisitRoot
    <3>2. nodes[NextNode].label # <<>>
      BY <1>4, <2>1, <2>2 DEF VisitRoot, IsRoot, Inv, Shape, Inv1, InTurn
    <3>3. Range(arcs') \cap G # {}
      BY <1>2, <1>4, <3>1, <3>2, Met
    <3> QED BY <1>3, <1>4, <1>7, <3>1, <3>3 DEF Frontier, PathOf
  <2>3. CASE Skip
    BY <1>2, <1>7, <2>1, <2>3, NotSkipped DEF Skip
  <2>4. CASE ReuseLabel
    <3>1. node' = NextNode /\ pc' = "expand"
      BY <2>4 DEF ReuseLabel, Visit, Inv, Shape, Limited
    <3>2. PICK first \in DOMAIN nodeLabels : arcs' = nodeLabels[first]
      BY <2>4 DEF ReuseLabel, Reusable
    <3>3. Range(arcs') \cap G # {}
      BY <1>2, <3>2 DEF Guide
    <3> QED BY <1>3, <1>4, <1>7, <3>1, <3>3 DEF Frontier, PathOf
  <2>5. CASE ComputeLabel
    <3>1. node' = NextNode /\ pc' = "compare"
      BY <2>5 DEF ComputeLabel
    <3> QED BY <1>3, <1>4, <1>7, <3>1 DEF Frontier, PathOf
  <2>6. CASE FindPathLabel
    <3>1. pathLabels' = Append(pathLabels, nodes[NextNode].path)
          /\ nodes[NextNode].path \in Seq(Elements) /\ pathLabels \in Seq(Seq(Elements))
      BY <1>1, <2>6, Visited DEF FindPathLabel, IsNode, Inv1, Typed
    <3>2. /\ pathLabels' \in Seq(Seq(Elements)) /\ Len(pathLabels) \in Nat
          /\ Len(pathLabels') = Len(pathLabels) + 1
          /\ pathLabels'[Len(pathLabels) + 1] = nodes[NextNode].path
      BY <3>1, Appended
    <3>3. Len(pathLabels) + 1 \in DOMAIN pathLabels'
      BY <3>2, LenProperties
    <3>4. Range(pathLabels'[Len(pathLabels) + 1]) \subseteq G
      BY <1>7, <3>2 DEF PathOf
    <3> QED BY <3>3, <3>4 DEF Guide
  <2>7. CASE UNCHANGED vars
    <3>1. open' = open
      BY <2>7 DEF vars, dag
    <3> QED BY <1>4, <1>7, <3>1
  <2> QED BY <2>2, <2>3, <2>4, <2>5, <2>6, <2>7 DEF Next, NoRoot, CreateRoot, NothingOpen,
         ReplaceLabel, AddLabel, ReuseNode, GenerateNode, TakeArc
<1> QED BY <1>4, <1>5, <1>6, <1>7

\* The next arc is taken.
LEMMA FrontierExpanded ==
    ASSUME Inv, Undisturbed, Waiting, Minimal(param), LabelerKeepsPromise, [Next]_vars,
           ReuseNode \/ GenerateNode, NEW G \in SUBSET Elements, Frontier(G)
    PROVE  Frontier(G)'
<1>1. Inv1 /\ RestAtNodes /\ NodesKept
  BY PromiseStaysInC, TypedStep DEF Inv, Shape
<1>2. \A n \in DOMAIN nodes : Range(nodes'[n].path) = PathOf(n)
  BY <1>1 DEF NodesKept, PathOf
<1>3. Range(open) \subseteq DOMAIN nodes
  BY <1>1, FirstOpen DEF Inv, Shape
<1>4. /\ pc = "expand" /\ node' = node /\ node \in DOMAIN nodes
      /\ arcs # <<>> /\ arcs' = Tail(arcs) /\ pc' = IF arcs' = <<>> THEN "loop" ELSE "expand"
      /\ Range(NewPath) = PathOf(node) \cup {Arc}
      /\ TakeArc
  BY <1>1, Expanded DEF ReuseNode, GenerateNode
<1>5. Range(open) \subseteq Range(open')
  <2>1. CASE ReuseNode
    BY <2>1 DEF ReuseNode
  <2>2. CASE GenerateNode
    <3>1. PICK id : open' = open \/ open' = Append(open, id)
      BY <1>1, <2>2, GenerateNodeTyped DEF ChildAdded
    <3> QED BY <1>1, <3>1, AppendRange DEF Inv1, Typed
  <2> QED BY <2>1, <2>2
<1>6. CASE \E n \in Range(open) : PathOf(n) \subseteq G
  BY <1>2, <1>3, <1>5, <1>6 DEF Frontier, PathOf
<1>7. CASE PathOf(node) \subseteq G /\ Range(arcs') \cap G # {}
  <2>1. arcs' # <<>>
    BY <1>7 DEF Range
  <2> QED BY <1>2, <1>4, <1>7, <2>1 DEF Frontier, PathOf
<1>8. CASE PathOf(node) \subseteq G /\ Arc \in G
  <2>1. Range(NewPath) \subseteq G
    BY <1>4, <1>8
  <2>2. CASE ReuseNode
    <3> DEFINE r == lookup[Range(NewPath)]
    <3>1. r \in DOMAIN nodes /\ PathOf(r) = Range(NewPath)
      BY <2>2 DEF ReuseNode, Inv, Shape, Inv1, Typed, LookupFinds
    <3>2. Inv1 /\ Disjoint /\ NoLoops /\ Ordered /\ Waits(r)
      BY <3>1 DEF Inv, Shape, Waiting
    <3>3. IsInjective(NewPath)
      BY <1>4, <3>2, NewPathOnce
    <3> HIDE DEF r
    <3>4. r \in Range(open)
      BY <1>4, <3>1, <3>2, <3>3, SamePath
    <3> QED BY <1>6, <2>1, <3>1, <3>4
  <2>3. CASE GenerateNode
    <3>1. ~CanPrune(NewPath, open)
      BY <2>3, NotClosed
    <3>2. PICK id : nodes'[id].path = NewPath /\ open' = Append(open, id)
      BY <1>1, <2>3, <3>1, GenerateNodeTyped DEF ChildAdded
    <3>3. id \in Range(open')
      BY <1>1, <3>2, AppendRange DEF Inv1, Typed
    <3> QED BY <2>1, <3>2, <3>3 DEF Frontier, PathOf
  <2> QED BY <2>2, <2>3
<1>9. Range(arcs) = {Arc} \cup Range(arcs')
  BY <1>1, <1>4, HeadTailRange DEF Inv1, Typed, Arc
<1> QED BY <1>4, <1>6, <1>7, <1>8, <1>9 DEF Frontier

\* A set that leads to a missing report goes on leading to it.
LEMMA OnTheWayStep ==
    Inv2 /\ LabelerKeepsPromise /\ [Next]_vars => OnTheWay'
<1> SUFFICES ASSUME Inv2, LabelerKeepsPromise, [Next]_vars, Minimal(param)',
                    DOMAIN nodes' # {}, ~ShouldStop(nodeLabels, pathLabels)',
                    NEW G \in (SUBSET Elements)', Guide(G)'
             PROVE  Frontier(G)'
  BY DEF OnTheWay
<1> USE DEF Inv2
<1>1. /\ Inv1 /\ RestAtNodes /\ NodesKept /\ Minimal(param) /\ G \in SUBSET Elements
      /\ ~ReplaceLabel
  <2>1. param' = param /\ Minimal(param) /\ Elements' = Elements
    BY Changes DEF Elements
  <2> QED BY <2>1, PromiseStaysInC, TypedStep DEF Inv, Shape, Undisturbed, ReplaceLabel
<1>2. \A n \in DOMAIN nodes : Range(nodes'[n].path) = PathOf(n)
  BY <1>1 DEF NodesKept, PathOf
<1>3. Guide(G)
  BY <1>1, GuideBefore
<1>4. CASE CreateRoot
  <2>1. nodes' = <<NewNode(<<>>, {}, GetLabel(param), Recorded(param))>> /\ open' = <<1>>
    BY <1>4 DEF CreateRoot
  <2>2. nodes'[1].path = <<>> /\ DOMAIN open' = {1} /\ open'[1] = 1
    BY <2>1 DEF NewNode
  <2>3. 1 \in Range(open') /\ Range(nodes'[1].path) = {}
    BY <2>2 DEF Range
  <2> QED BY <2>3 DEF Frontier, PathOf
<1>5. CASE NoRoot
  BY <1>1, <1>5 DEF NoRoot, dag, Inv1, InTurn
<1>6. CASE UNCHANGED vars
  <2>1. /\ pc' = pc /\ nodes' = nodes /\ open' = open /\ nodeLabels' = nodeLabels
        /\ pathLabels' = pathLabels /\ node' = node /\ arcs' = arcs /\ param' = param
        /\ limit' = limit
    BY <1>6 DEF vars, dag, found, work
  <2>2. ShouldStop(nodeLabels, pathLabels)' <=> ShouldStop(nodeLabels, pathLabels)
    BY <2>1 DEF ShouldStop, Diagnoses, Conflicts
  <2>3. Frontier(G)
    BY <1>1, <1>3, <2>1, <2>2 DEF OnTheWay
  <2> QED BY <2>1, <2>3 DEF Frontier, PathOf
<1>7. CASE pc \notin {"root", "done"} /\ ~(UNCHANGED vars)
  <2>1. Frontier(G)
    <3>1. ~ShouldStop(nodeLabels, pathLabels) /\ DOMAIN nodes # {}
      BY <1>7 DEF Inv, Shape, Limited, Ended
    <3> QED BY <1>1, <1>3, <3>1 DEF OnTheWay
  <2>2. CASE NothingOpen
    BY <2>1, <2>2 DEF NothingOpen, Frontier, Range
  <2>3. CASE ReuseNode \/ GenerateNode
    BY <1>1, <2>1, <2>3, FrontierExpanded
  <2>4. CASE pc = "loop" /\ open # <<>> /\ open' = Tail(open)
    BY <1>1, <2>1, <2>4, FrontierTaken
  <2>5. CASE AddLabel
    <3>1. /\ pc = "compare" /\ open' = open /\ node' = node /\ arcs' = fresh
          /\ node \in DOMAIN nodes /\ nodes[node].status = "Open"
          /\ pc' = IF ShouldStop(nodeLabels', pathLabels) THEN "done" ELSE "expand"
      BY <1>1, <2>5 DEF AddLabel, Inv1, InTurn, Undisturbed
    <3>2. pc' = "expand"
      <4>1. param' = param /\ limit' = limit /\ pathLabels' = pathLabels
        BY <2>5 DEF AddLabel
      <4> QED BY <3>1, <4>1 DEF ShouldStop, Diagnoses, Conflicts
    <3>3. Range(open) \subseteq DOMAIN nodes
      BY <1>1, FirstOpen DEF Inv, Shape
    <3>4. CASE \E n \in Range(open) : PathOf(n) \subseteq G
      BY <1>2, <3>1, <3>3, <3>4 DEF Frontier, PathOf
    <3>5. CASE PathOf(node) \subseteq G
      BY <1>2, <1>3, <3>1, <3>2, <3>5 DEF Frontier, PathOf, Guide
    <3> QED BY <2>1, <3>1, <3>4, <3>5 DEF Frontier
  <2>6. NothingOpen \/ ReuseNode \/ GenerateNode \/ AddLabel
          \/ (pc = "loop" /\ open # <<>> /\ open' = Tail(open))
    BY <1>1, <1>7 DEF Next, NoRoot, CreateRoot, VisitRoot, Skip, ReuseLabel, ComputeLabel,
       FindPathLabel, Visit
  <2> QED BY <2>2, <2>3, <2>4, <2>5, <2>6
<1>8. CASE pc = "done"
  BY <1>6, <1>8 DEF Next, NoRoot, CreateRoot, NothingOpen, VisitRoot, Skip, ReuseLabel,
       ComputeLabel, FindPathLabel, ReplaceLabel, AddLabel, ReuseNode, GenerateNode, Visit, TakeArc
<1>9. CASE pc = "root" /\ ~(UNCHANGED vars)
  BY <1>4, <1>5, <1>9 DEF Next, NothingOpen, VisitRoot, Skip, ReuseLabel,
       ComputeLabel, FindPathLabel, ReplaceLabel, AddLabel, ReuseNode, GenerateNode, Visit, TakeArc
<1> QED BY <1>1, <1>6, <1>7, <1>8, <1>9 DEF Inv1, Typed

\* A search begins with the whole invariant.
LEMMA Inv2Init == Init => Inv2
<1> SUFFICES ASSUME Init
             PROVE  Inv2
  OBVIOUS
<1>1. nodes = <<>> /\ open = <<>> /\ Range(open) = {} /\ pc = "root" /\ greater = {}
  BY DEF Init, Range
<1>2. Undisturbed /\ Waiting
  BY <1>1 DEF Undisturbed, Waiting
<1>3. Ended /\ OnTheWay
  BY <1>1 DEF Ended, OnTheWay
<1> QED BY <1>2, <1>3, InvInit DEF Inv2

\* Every step keeps it.
LEMMA Inv2Step == Inv2 /\ LabelerKeepsPromise /\ [Next]_vars => Inv2'
BY InvStep, UndisturbedStep, WaitingStep, EndedStep, OnTheWayStep
   DEF Inv2

\* The whole invariant holds along the search of a labeler that keeps its promise.
LEMMA Inv2Holds == Spec /\ []LabelerKeepsPromise => []Inv2
BY Inv2Init, Inv2Step, PTL DEF Spec

\* When the search is over no set leads to a missing report.
LEMMA NoGuideLeft ==
    ASSUME Inv2, pc = "done", Minimal(param), ~ShouldStop(nodeLabels, pathLabels),
           Inconsistent(param, Elements), ~Inconsistent(param, {}),
           NEW G \in SUBSET Elements
    PROVE  ~Guide(G)
<1>1. open = <<>> /\ DOMAIN nodes # {}
  <2>1. ~NoLabelIsRight(param)
    BY DEF NoLabelIsRight, Elements
  <2> QED BY <2>1 DEF Inv2, Ended
<1>2. Range(open) = {}
  BY <1>1 DEF Range
<1> QED BY <1>1, <1>2 DEF Inv2, OnTheWay, Frontier

\* A set P that everything like a label meets, and that includes nothing like it but
\* itself, is reported as a path.
LEMMA AllPaths ==
    ASSUME Inv2, pc = "done", Minimal(param), ~ShouldStop(nodeLabels, pathLabels),
           Inconsistent(param, Elements), ~Inconsistent(param, {}),
           NEW P \in SUBSET Elements, limit.depth = NoDepth \/ Cardinality(P) <= limit.depth,
           \A L : RightLabel(L) => L \cap P # {},
           \A Q : RightPath(Q) /\ Q \subseteq P => Q = P
    PROVE  P \in SetsOf(pathLabels)
<1>1. PICK i \in DOMAIN pathLabels : Range(pathLabels[i]) \subseteq P
  BY NoGuideLeft DEF Guide, Inv2, Inv, Sound
<1>2. Range(pathLabels[i]) = P
  BY <1>1 DEF Inv2, Inv, Sound
<1> QED BY <1>2 DEF SetsOf

\* A set K that everything like a path meets, and that includes nothing like it but
\* itself, is reported as a label.
LEMMA AllLabels ==
    ASSUME Inv2, pc = "done", Minimal(param), ~ShouldStop(nodeLabels, pathLabels),
           Inconsistent(param, Elements), ~Inconsistent(param, {}), limit.depth = NoDepth,
           NEW K \in SUBSET Elements,
           \A Q : RightPath(Q) => Q \cap K # {},
           \A L : RightLabel(L) /\ L \subseteq K => L = K
    PROVE  K \in SetsOf(nodeLabels)
<1>1. ~Guide(Elements \ K)
  BY NoGuideLeft
<1>2. \A i \in DOMAIN pathLabels : ~(Range(pathLabels[i]) \subseteq Elements \ K)
  BY DEF Inv2, Inv, Sound
<1>3. PICK i \in DOMAIN nodeLabels : Range(nodeLabels[i]) \cap (Elements \ K) = {}
  BY <1>1, <1>2 DEF Guide
<1>4. RightLabel(Range(nodeLabels[i])) /\ Range(nodeLabels[i]) \subseteq Elements
  BY DEF Inv2, Inv, Sound, RightLabel, IsConflict, IsDiagnosis
<1>5. Range(nodeLabels[i]) = K
  BY <1>3, <1>4
<1> QED BY <1>5 DEF SetsOf

----------------------------------------------------------------------------
\* The state is well typed, whatever the labels are worth, as long as they are made of C.
THEOREM TypeCorrect == Spec /\ []LabelerStaysInC => []TypeOK
<1>1. Shape => TypeOK
  <2> SUFFICES ASSUME Shape
               PROVE  TypeOK
    OBVIOUS
  <2>1. ASSUME NEW n \in DOMAIN nodes
        PROVE  /\ nodes[n].status \in Status
               /\ Range(nodes[n].label) \subseteq Elements
               /\ Range(nodes[n].path) \subseteq Elements
               /\ nodes[n].parents \subseteq DOMAIN nodes
               /\ Range(nodes[n].children) \subseteq DOMAIN nodes
    <3>1. IsNode(nodes[n], Elements)
      BY DEF Shape, Inv1, Typed, NodesTyped, IsNodes
    <3>2. nodes[n].status \in Status /\ nodes[n].label \in Seq(Elements)
          /\ nodes[n].path \in Seq(Elements)
      BY <3>1 DEF IsNode
    <3> QED BY <3>2, RangeOfSeq DEF Shape, Inv1, Typed, NodesTyped
  <2>2. Range(open) \subseteq DOMAIN nodes /\ Range(lookup) \subseteq DOMAIN nodes
    <3>1. Range(lookup) \subseteq DOMAIN nodes
      BY DEF Shape, Inv1, Typed, Range
    <3> QED BY <3>1, RangeOfSeq DEF Shape, Inv1, Typed
  <2>3. UNION Range(labelNodes) \subseteq DOMAIN nodes
    BY DEF Shape, Inv1, Typed, Range
  <2>4. UNION SetsOf(nodeLabels \o pathLabels \o <<fresh, arcs>>) \subseteq Elements
    <3> DEFINE all == nodeLabels \o pathLabels \o <<fresh, arcs>>
    <3>1. all \in Seq(Seq(Elements))
      <4>1. nodeLabels \o pathLabels \in Seq(Seq(Elements))
        BY ConcatProperties DEF Shape, Inv1, Typed
      <4>2. <<fresh, arcs>> \in Seq(Seq(Elements))
        BY DEF Shape, Inv1, Typed
      <4> QED BY <4>1, <4>2, ConcatProperties
    <3> HIDE DEF all
    <3>2. \A i \in DOMAIN all : all[i] \in Seq(Elements)
      <4>1. DOMAIN all = 1 .. Len(all)
        BY <3>1, LenProperties
      <4> QED BY <3>1, <4>1, ElementOfSeq
    <3>3. \A i \in DOMAIN all : Range(all[i]) \subseteq Elements
      BY <3>2, RangeOfSeq
    <3>4. UNION SetsOf(all) \subseteq Elements
      BY <3>3 DEF SetsOf
    <3> QED BY <3>4 DEF all
  <2> QED BY <2>1, <2>2, <2>3, <2>4 DEF Shape, Inv1, Typed, TypeOK
<1> QED BY <1>1, ShapeHolds, PTL

\* Every label reported is a conflict (a diagnosis) of the whole knowledge base, minimal
\* where the labeler promises it: it may be reused at any node.
THEOREM LabelsSound == Spec /\ []LabelerKeepsPromise => []LabelsAreSound
<1>1. Inv => LabelsAreSound
  BY DEF Inv, Sound, RightLabel, LabelsAreSound, SetsOf
<1> QED BY <1>1, InvHolds, PTL

\* get_diagnoses returns diagnoses and get_conflicts conflicts of the knowledge base.
THEOREM ReportsSound == Spec /\ []LabelerKeepsPromise => []ReportsAreSound
<1>1. Inv => ReportsAreSound
  <2> SUFFICES ASSUME Inv
               PROVE  ReportsAreSound
    OBVIOUS
  <2>1. /\ \A i \in DOMAIN nodeLabels : RightLabel(Range(nodeLabels[i]))
        /\ \A i \in DOMAIN pathLabels : RightPath(Range(pathLabels[i]))
    BY DEF Inv, Sound
  <2>2. CASE GetType(param) = "CONFLICT"
    BY <2>1, <2>2 DEF RightLabel, RightPath, ReportsAreSound, DiagnosesAreSound, ConflictsAreSound,
                      ReportedDiagnoses, ReportedConflicts, Diagnoses, Conflicts, SetsOf
  <2>3. CASE GetType(param) # "CONFLICT"
    BY <2>1, <2>3 DEF RightLabel, RightPath, ReportsAreSound, DiagnosesAreSound, ConflictsAreSound,
                      ReportedDiagnoses, ReportedConflicts, Diagnoses, Conflicts, SetsOf
  <2> QED BY <2>2, <2>3
<1> QED BY <1>1, InvHolds, PTL

\* No label and no path is reported twice, and process_labels never meets a known label
\* that is part of the one just computed.
THEOREM NothingTwice == Spec /\ []LabelerStaysInC => []NoReportTwice
<1>1. Shape => NoReportTwice
  <2> SUFFICES ASSUME Shape
               PROVE  NoReportTwice
    OBVIOUS
  <2>1. nodeLabels \in Seq(Seq(Elements)) /\ pathLabels \in Seq(Seq(Elements))
    BY DEF Shape, Inv1, Typed
  <2>2. /\ Cardinality(SetsOf(nodeLabels)) = Len(nodeLabels)
        /\ Cardinality(SetsOf(pathLabels)) = Len(pathLabels)
    BY <2>1, ApartCounted DEF Shape, Distinct
  <2>3. pc = "compare" => \A L \in SetsOf(nodeLabels) : ~(L \subseteq Range(fresh))
    BY DEF Shape, Distinct, SetsOf
  <2> QED BY <2>2, <2>3 DEF NoReportTwice
<1> QED BY <1>1, ShapeHolds, PTL

\* The limits on the numbers of diagnoses and conflicts and on the depth are kept.
THEOREM LimitsHold == Spec /\ []LabelerStaysInC => []LimitsRespected
<1>1. Shape => LimitsRespected
  BY DEF Shape, Limited
<1> QED BY <1>1, ShapeHolds, PTL

\* The search is breadth first: shorter paths are reported first.
THEOREM ReportedInOrder == Spec /\ []LabelerStaysInC => []ShortestFirst
<1>1. Shape => ShortestFirst
  BY DEF Shape, Ordered
<1> QED BY <1>1, ShapeHolds, PTL

\* Rule 1.a always finds a node on the path it looks for, and one that has a parent.
THEOREM LookupIsRight == Spec /\ []LabelerStaysInC => []LookupFinds
<1>1. Shape => LookupFinds
  BY DEF Shape
<1> QED BY <1>1, ShapeHolds, PTL

\* No two nodes are open on the same path, and rule 1.a finds the one there is.
THEOREM OneOpenPerPath == Spec /\ []LabelerStaysInC => []OneNodePerPath
<1>1. Shape => OneNodePerPath
  BY DEF Shape, OnePath, OneNodePerPath
<1> QED BY <1>1, ShapeHolds, PTL

\* A node that is decided stays so: it keeps its status, its children and, unless it was
\* pruned while it was being labelled, its label.
THEOREM StatusesLast == Spec /\ []LabelerStaysInC => DecidedOnce
<1>1. Shape /\ [Next]_vars => \A n \in DOMAIN nodes : nodes[n].status # "Open" => Kept(n)
  BY DecidedKept DEF Shape
<1> QED BY <1>1, ShapeHolds, PTL DEF Spec, DecidedOnce, Kept

\* The HS-dag of QuickXPlain or FastDiag reports every minimal diagnosis and every minimal
\* conflict when no limit ends its search: pruning and reuse lose none.
THEOREM SearchComplete == Spec /\ []LabelerKeepsPromise => []Complete
<1>1. Inv2 => Complete
  <2> DEFINE paths  == IF GetType(param) = "CONFLICT" THEN MinimalDiagnoses ELSE MinimalConflicts
             labels == IF GetType(param) = "CONFLICT" THEN MinimalConflicts ELSE MinimalDiagnoses
  <2> SUFFICES ASSUME Inv2, pc = "done", Minimal(param), ~ShouldStop(nodeLabels, pathLabels),
                      Inconsistent(param, Elements), ~Inconsistent(param, {})
               PROVE  /\ {P \in paths : limit.depth = NoDepth \/ Cardinality(P) <= limit.depth}
                            \subseteq SetsOf(pathLabels)
                      /\ limit.depth = NoDepth => labels \subseteq SetsOf(nodeLabels)
    BY DEF Complete
  <2>1. param \in Initial
    BY DEF Inv2, Inv, Shape, Inv1, Typed
  <2>2. ASSUME NEW P \in paths
        PROVE  /\ P \in SUBSET Elements
               /\ \A L : RightLabel(L) => L \cap P # {}
               /\ \A Q : RightPath(Q) /\ Q \subseteq P => Q = P
    <3>1. CASE GetType(param) = "CONFLICT"
      BY <2>1, <2>2, <3>1, Meeting, Least DEF MinimalDiagnoses, RightLabel, RightPath
    <3>2. CASE GetType(param) # "CONFLICT"
      BY <2>1, <2>2, <3>2, Meeting, Least DEF MinimalConflicts, RightLabel, RightPath
    <3> QED BY <3>1, <3>2
  <2>3. ASSUME NEW K \in labels
        PROVE  /\ K \in SUBSET Elements
               /\ \A Q : RightPath(Q) => Q \cap K # {}
               /\ \A L : RightLabel(L) /\ L \subseteq K => L = K
    <3>1. CASE GetType(param) = "CONFLICT"
      BY <2>1, <2>3, <3>1, Meeting, Least DEF MinimalConflicts, RightLabel, RightPath
    <3>2. CASE GetType(param) # "CONFLICT"
      BY <2>1, <2>3, <3>2, Meeting, Least DEF MinimalDiagnoses, RightLabel, RightPath
    <3> QED BY <3>1, <3>2
  <2> HIDE DEF paths, labels
  <2> QED BY <2>2, <2>3, AllPaths, AllLabels
<1> QED BY <1>1, Inv2Holds, PTL

----------------------------------------------------------------------------
(* The labelers of the repository.                                         *)

\* The search is that of one of the four labelers of labeler/, on parameters that an
\* operation builds it on.
RepositoryLabelers ==
    /\ \A p : /\ GetType(p) = Labeler!TypeOf(p)
              /\ GetLabel(p) = Labeler!LabelOf(p)
              /\ Recorded(p) = Labeler!AfterLabel(p)
              /\ Minimal(p) <=> p.labeler \in {"QuickXPlain", "FastDiag"}
    /\ \A p, arc : NewNodeParameters(p, arc) = Labeler!ChildOf(p, arc)
    /\ \A p, S : Inconsistent(p, S) <=> Labeler!Refuted(p, S)
    /\ \A p \in Initial : Labeler!Prepared(Literal, p)

\* The elements of a list are the same here and there.
LEMMA SameRange == \A f : Labeler!Range(f) = Range(f)
BY DEF Labeler!Range, Range

\* The parameters of every node are such as they leave them.
AnyNodes == \A n \in DOMAIN nodes : Labeler!AnyNode(Literal, nodes[n].par)

\* At the parameters of a node they stay in C, and so at its children's.
LEMMA StaysAtNode ==
    ASSUME RepositoryLabelers, NEW p, Labeler!AnyNode(Literal, p)
    PROVE  /\ StaysInC(p)
           /\ Labeler!AnyNode(Literal, Recorded(p))
           /\ \A arc \in Range(p.c) :
                 /\ Labeler!AnyNode(Literal, NewNodeParameters(p, arc))
                 /\ Range(NewNodeParameters(p, arc).c) = Range(p.c) \ {arc}
<1>1. /\ GetLabel(p) = Labeler!LabelOf(p)
      /\ Recorded(p) = Labeler!AfterLabel(p)
      /\ \A arc : NewNodeParameters(p, arc) = Labeler!ChildOf(p, arc)
  BY DEF RepositoryLabelers
<1>2. Labeler!LabelOf(p) \in Seq(Range(p.c))
  <2>1. Labeler!LabelOf(p) \in Seq(Labeler!Range(p.c))
    BY Labeler!LabelOfStays, Zenon
  <2> QED BY <2>1, SameRange, Zenon
<1>3. Labeler!AnyNode(Literal, Labeler!AfterLabel(p)) /\ Labeler!AfterLabel(p).c = p.c
  BY Labeler!AfterLabelStays, Zenon
<1>4. ASSUME NEW arc \in Range(p.c)
      PROVE  /\ Labeler!AnyNode(Literal, Labeler!ChildOf(p, arc))
             /\ Range(Labeler!ChildOf(p, arc).c) = Range(p.c) \ {arc}
  <2>1. arc \in Labeler!Range(p.c)
    BY SameRange, Zenon
  <2>2. /\ Labeler!AnyNode(Literal, Labeler!ChildOf(p, arc))
        /\ Labeler!Range(Labeler!ChildOf(p, arc).c) = Labeler!Range(p.c) \ {arc}
    BY <2>1, Labeler!ChildOfStays, Zenon
  <2> QED BY <2>2, SameRange, Zenon
<1>5. Range(Recorded(p).c) = Range(p.c)
  BY <1>1, <1>3, Zenon
<1> QED BY <1>1, <1>2, <1>3, <1>4, <1>5, Zenon DEF StaysInC

\* The next arc is one of the C of the node being expanded.
LEMMA ArcInC ==
    ASSUME Shape, pc = "expand"
    PROVE  node \in DOMAIN nodes /\ Arc \in Range(nodes[node].par.c)
<1>1. node \in DOMAIN nodes /\ arcs # <<>> /\ arcs \in Seq(Elements)
  BY DEF Shape, Inv1, InTurn, Typed
<1>2. Arc \in Elements /\ Arc \in Range(arcs)
  <2>1. 1 \in DOMAIN arcs /\ Arc = arcs[1]
    BY <1>1, EmptySeq, LenProperties DEF Arc
  <2> QED BY <1>1, <2>1, RangeOfSeq DEF Range
<1>3. Range(nodes[node].par.c) = Elements \ PathOf(node)
  BY <1>1 DEF Shape, RestAtNodes
<1> QED BY <1>1, <1>2, <1>3 DEF Shape, Disjoint

\* The initial parameters are such.
LEMMA AnyAtRoot ==
    ASSUME RepositoryLabelers, NEW p \in Initial
    PROVE  Labeler!AnyNode(Literal, p)
<1>1. Labeler!Prepared(Literal, p)
  BY DEF RepositoryLabelers
<1> QED BY <1>1 DEF Labeler!Prepared, Labeler!AnyNode

\* The labeler stays in C now.
LEMMA StaysInCNow ==
    ASSUME RepositoryLabelers, Shape, AnyNodes
    PROVE  LabelerStaysInC
<1>1. StaysInC(param)
  <2>1. param \in Initial
    BY DEF Shape, Inv1, Typed
  <2> QED BY <2>1, AnyAtRoot, StaysAtNode
<1>2. ASSUME pc = "loop", open # <<>>
      PROVE  StaysInC(nodes[NextNode].par)
  <2>1. NextNode \in DOMAIN nodes
    BY <1>2, HeadOfOpen DEF Shape, Inv1
  <2>2. Labeler!AnyNode(Literal, nodes[NextNode].par)
    BY <2>1 DEF AnyNodes
  <2> QED BY <2>2, StaysAtNode
<1>3. ASSUME pc = "expand"
      PROVE  LET p == nodes[node].par IN
             Range(NewNodeParameters(p, Arc).c) = Range(p.c) \ {Arc}
  <2>1. node \in DOMAIN nodes /\ Arc \in Range(nodes[node].par.c)
    BY <1>3, ArcInC
  <2>2. Labeler!AnyNode(Literal, nodes[node].par)
    BY <2>1 DEF AnyNodes
  <2> QED BY <2>1, <2>2, StaysAtNode
<1> QED BY <1>1, <1>2, <1>3 DEF LabelerStaysInC

\* Every step leaves such parameters at the nodes.
LEMMA AnyNodesStep ==
    ASSUME RepositoryLabelers, Shape, AnyNodes, [Next]_vars
    PROVE  AnyNodes'
<1>1. LabelerStaysInC
  BY StaysInCNow
<1>2. ASSUME NEW n \in DOMAIN nodes'
      PROVE  Labeler!AnyNode(Literal, nodes'[n].par)
  <2>1. CASE n \in DOMAIN nodes
    <3>1. nodes'[n].par \in {nodes[n].par, Recorded(nodes[n].par)}
      BY <2>1, <1>1, TypedStep DEF Shape, NodesKept, RecordedAt
    <3>2. Labeler!AnyNode(Literal, nodes[n].par)
      BY <2>1 DEF AnyNodes
    <3>3. Labeler!AnyNode(Literal, Recorded(nodes[n].par))
      BY <3>2, StaysAtNode
    <3> QED BY <3>1, <3>2, <3>3
  <2>2. CASE CreateRoot
    <3>1. nodes' = <<NewNode(<<>>, {}, GetLabel(param), Recorded(param))>>
      BY <2>2 DEF CreateRoot
    <3>2. nodes'[n].par = Recorded(param)
      BY <3>1 DEF NewNode
    <3>3. param \in Initial
      BY DEF Shape, Inv1, Typed
    <3>4. Labeler!AnyNode(Literal, Recorded(param))
      BY <3>3, AnyAtRoot, StaysAtNode
    <3> QED BY <3>2, <3>4
  <2>3. CASE n \notin DOMAIN nodes /\ GenerateNode
    <3>1. nodes'[n].par = NewNodeParameters(nodes[node].par, Arc)
      BY <2>3, GenerateNodeTyped DEF ChildAdded, Shape
    <3>2. node \in DOMAIN nodes /\ Arc \in Range(nodes[node].par.c)
      BY <2>3, ArcInC DEF GenerateNode, TakeArc
    <3>3. Labeler!AnyNode(Literal, nodes[node].par)
      BY <3>2 DEF AnyNodes
    <3> QED BY <3>1, <3>2, <3>3, StaysAtNode
  <2> QED BY <2>1, <2>2, <2>3, Changes
<1> QED BY <1>2 DEF AnyNodes

\* The four labelers stay in C along every search, with negated test cases or without,
\* on any background.
LEMMA LabelersStayInC ==
    ASSUME RepositoryLabelers
    PROVE  Spec => []LabelerStaysInC
<1>1. Init => Shape /\ AnyNodes
  <2> SUFFICES ASSUME Init
               PROVE  Shape /\ AnyNodes
    OBVIOUS
  <2>1. DOMAIN nodes = {}
    BY DEF Init
  <2> QED BY <2>1, ShapeInit DEF AnyNodes
<1>2. Shape /\ AnyNodes => LabelerStaysInC
  BY StaysInCNow
<1>3. Shape /\ AnyNodes /\ [Next]_vars => (Shape /\ AnyNodes)'
  BY <1>2, ShapeStep, AnyNodesStep
<1> QED BY <1>1, <1>2, <1>3, PTL DEF Spec

\* So every search an operation makes is well formed: whatever its labels are worth, it
\* reports nothing twice, keeps its limits, reports shorter paths first, has one open
\* node per path and decides each node once.
THEOREM SearchesAreWellFormed ==
    ASSUME RepositoryLabelers
    PROVE  Spec =>
             /\ [](/\ TypeOK
                   /\ NoReportTwice
                   /\ LimitsRespected
                   /\ ShortestFirst
                   /\ OneNodePerPath)
             /\ DecidedOnce
BY LabelersStayInC, TypeCorrect, NothingTwice, LimitsHold, ReportedInOrder, OneOpenPerPath,
   StatusesLast, PTL

----------------------------------------------------------------------------
(* And they keep their promise, under two conditions.                      *)

\* KBDiag is given no negated test cases, and no label is found on a background that
\* contradicts itself or a test case.
PromiseConditions ==
    \A p \in Initial : Labeler!NothingNegated(p) /\ Labeler!NothingContradicted(p)

\* At the parameters of a node they keep it.
LEMMA PromiseAtNode ==
    ASSUME RepositoryLabelers, NEW p, Labeler!AtNode(Literal, p)
    PROVE  /\ IF GetLabel(p) = <<>> THEN NoLabelIsRight(p) ELSE LabelIsRight(p)
           /\ SameProblem(p, Recorded(p))
           /\ Labeler!AtNode(Literal, Recorded(p))
<1>1. /\ GetType(p) = Labeler!TypeOf(p) /\ GetLabel(p) = Labeler!LabelOf(p)
      /\ Minimal(p) <=> p.labeler \in {"QuickXPlain", "FastDiag"}
      /\ \A S : Inconsistent(p, S) <=> Labeler!Refuted(p, S)
  BY DEF RepositoryLabelers
<1>2. GetType(p) \in {"CONFLICT", "DIAGNOSIS"}
  BY <1>1 DEF Labeler!TypeOf
<1>3. ASSUME GetLabel(p) # <<>>
      PROVE  LabelIsRight(p)
  <2> DEFINE L == Range(Labeler!LabelOf(p))
             C == Range(p.c)
  <2>1. /\ Labeler!LabelOf(p) \in Seq(C)
        /\ IF Labeler!TypeOf(p) = "CONFLICT"
           THEN /\ Labeler!Refuted(p, L)
                /\ p.labeler \in {"QuickXPlain", "FastDiag"} =>
                      \A x \in L : ~Labeler!Refuted(p, L \ {x})
           ELSE /\ Labeler!Refuted(p, C)
                /\ ~Labeler!Refuted(p, C \ L)
                /\ p.labeler \in {"QuickXPlain", "FastDiag"} =>
                      \A x \in L : Labeler!Refuted(p, C \ (L \ {x}))
    <3>1. Labeler!LabelOf(p) # <<>>
      BY <1>1, <1>3
    <3>2. L = Labeler!Range(Labeler!LabelOf(p)) /\ C = Labeler!Range(p.c)
      BY SameRange
    <3> HIDE DEF L, C
    <3> QED BY <3>1, <3>2, Labeler!LabelOfIsRight, Zenon
  <2> QED BY <2>1, <1>1 DEF LabelIsRight
<1>4. ASSUME GetLabel(p) = <<>>
      PROVE  NoLabelIsRight(p)
  <2>1. /\ Labeler!TypeOf(p) = "CONFLICT" => ~Labeler!Refuted(p, Range(p.c))
        /\ p.labeler = "FastDiag" => Labeler!Refuted(p, {}) \/ ~Labeler!Refuted(p, Range(p.c))
    <3>1. Labeler!LabelOf(p) = <<>>
      BY <1>1, <1>4
    <3>2. Range(p.c) = Labeler!Range(p.c)
      BY SameRange
    <3> QED BY <3>1, <3>2, Labeler!NoLabelOfIsRight, Zenon
  <2>2. GetType(p) # "CONFLICT" => p.labeler # "QuickXPlain"
    BY <1>1 DEF Labeler!TypeOf
  <2> QED BY <2>1, <2>2, <1>1 DEF NoLabelIsRight
<1>5. SameProblem(p, Recorded(p)) /\ Labeler!AtNode(Literal, Recorded(p))
  <2> DEFINE q == Labeler!AfterLabel(p)
  <2>1. /\ Labeler!AtNode(Literal, q)
        /\ Labeler!TypeOf(q) = Labeler!TypeOf(p) /\ q.labeler = p.labeler
        /\ Labeler!LabelOf(q) = Labeler!LabelOf(p) /\ q.c = p.c
        /\ \A S : Labeler!Refuted(q, S) <=> Labeler!Refuted(p, S)
    BY Labeler!AfterLabelIsRight
  <2> HIDE DEF q
  <2>2. /\ GetType(q) = Labeler!TypeOf(q) /\ GetLabel(q) = Labeler!LabelOf(q)
        /\ Minimal(q) <=> q.labeler \in {"QuickXPlain", "FastDiag"}
        /\ \A S : Inconsistent(q, S) <=> Labeler!Refuted(q, S)
    BY DEF RepositoryLabelers
  <2>3. SameProblem(p, q)
    BY <2>1, <2>2, <1>1 DEF SameProblem
  <2>4. Recorded(p) = q
    BY DEF RepositoryLabelers, q
  <2> QED BY <2>1, <2>3, <2>4
<1> QED BY <1>3, <1>4, <1>5

\* And at those of its children.
LEMMA PromiseForChild ==
    ASSUME RepositoryLabelers, NEW p, Labeler!AtNode(Literal, p), NEW arc \in Range(p.c)
    PROVE  RestIsRight(p, arc) /\ Labeler!AtNode(Literal, NewNodeParameters(p, arc))
<1> DEFINE q == Labeler!ChildOf(p, arc)
<1>1. /\ GetType(p) = Labeler!TypeOf(p) /\ GetLabel(p) = Labeler!LabelOf(p)
      /\ Minimal(p) <=> p.labeler \in {"QuickXPlain", "FastDiag"}
      /\ \A S : Inconsistent(p, S) <=> Labeler!Refuted(p, S)
  BY DEF RepositoryLabelers
<1>2. /\ Labeler!AtNode(Literal, q)
      /\ Labeler!TypeOf(q) = Labeler!TypeOf(p) /\ q.labeler = p.labeler
      /\ Range(q.c) = Range(p.c) \ {arc}
      /\ Labeler!LabelOf(q) # <<>> => Labeler!LabelOf(p) # <<>>
      /\ p.labeler # "KBDiag" \/ Labeler!LabelOf(q) # <<>> =>
            \A S \in SUBSET Range(q.c) :
                Labeler!Refuted(q, S) <=>
                    Labeler!Refuted(p, IF Labeler!TypeOf(p) = "CONFLICT"
                                       THEN S ELSE S \cup {arc})
  <2>1. Range(p.c) = Labeler!Range(p.c) /\ Range(q.c) = Labeler!Range(q.c)
    BY SameRange
  <2>2. arc \in Labeler!Range(p.c)
    BY <2>1
  <2>3. /\ Labeler!AtNode(Literal, q)
        /\ Labeler!TypeOf(q) = Labeler!TypeOf(p) /\ q.labeler = p.labeler
        /\ Labeler!Range(q.c) = Labeler!Range(p.c) \ {arc}
        /\ Labeler!LabelOf(q) # <<>> => Labeler!LabelOf(p) # <<>>
        /\ p.labeler # "KBDiag" \/ Labeler!LabelOf(q) # <<>> =>
              \A S \in SUBSET Labeler!Range(q.c) :
                  Labeler!Refuted(q, S) <=>
                      Labeler!Refuted(p, IF Labeler!TypeOf(p) = "CONFLICT"
                                         THEN S ELSE S \cup {arc})
    BY <2>2, Labeler!ChildOfIsRight, Zenon
  <2> HIDE DEF q
  <2> QED BY <2>1, <2>3
<1> HIDE DEF q
<1>3. /\ GetType(q) = Labeler!TypeOf(q) /\ GetLabel(q) = Labeler!LabelOf(q)
      /\ Minimal(q) <=> q.labeler \in {"QuickXPlain", "FastDiag"}
      /\ \A S : Inconsistent(q, S) <=> Labeler!Refuted(q, S)
  BY DEF RepositoryLabelers
<1>4. NewNodeParameters(p, arc) = q
  BY DEF RepositoryLabelers, q
<1>5. GetType(p) = "CONFLICT" \/ Minimal(p) => p.labeler # "KBDiag"
  BY <1>1 DEF Labeler!TypeOf
<1>6. ASSUME GetType(p) = "CONFLICT" \/ Minimal(p) \/ GetLabel(q) # <<>>,
             NEW S \in SUBSET Range(q.c)
      PROVE  Inconsistent(q, S) <=>
                 Inconsistent(p, IF GetType(p) = "CONFLICT" THEN S ELSE S \cup {arc})
  BY <1>1, <1>2, <1>3, <1>5, <1>6
<1>7. RestIsRight(p, arc)
  BY <1>1, <1>2, <1>3, <1>4, <1>6 DEF RestIsRight
<1> QED BY <1>2, <1>4, <1>7

\* So do the initial parameters, unless their background contradicts itself.
LEMMA PromiseAtRoot ==
    ASSUME RepositoryLabelers, PromiseConditions, NEW p \in Initial,
           ~Inconsistent(p, {}) \/ GetLabel(p) # <<>>
    PROVE  Labeler!AtNode(Literal, p)
<1>1. /\ Labeler!Prepared(Literal, p) /\ Labeler!NothingNegated(p)
      /\ Labeler!NothingContradicted(p)
      /\ GetLabel(p) = Labeler!LabelOf(p)
      /\ Inconsistent(p, {}) <=> Labeler!Refuted(p, {})
  BY DEF RepositoryLabelers, PromiseConditions
<1>2. ~Labeler!Refuted(p, {})
  BY <1>1 DEF Labeler!NothingContradicted
<1> QED BY <1>1, <1>2 DEF Labeler!Prepared, Labeler!NothingNegated, Labeler!AtNode

\* The parameters of every node are such.
ParametersAtNodes == \A n \in DOMAIN nodes : Labeler!AtNode(Literal, nodes[n].par)

\* Where they are, the labeler keeps its promise now.
LEMMA PromiseKept ==
    ASSUME RepositoryLabelers, PromiseConditions, Inv, ParametersAtNodes
    PROVE  LabelerKeepsPromise
<1>1. ASSUME pc = "root"
      PROVE  IF GetLabel(param) = <<>> THEN Inconsistent(param, {}) \/ NoLabelIsRight(param)
             ELSE LabelIsRight(param) /\ SameProblem(param, Recorded(param))
  <2>1. param \in Initial
    BY DEF Inv, Shape, Inv1, Typed
  <2>2. CASE ~Inconsistent(param, {}) \/ GetLabel(param) # <<>>
    BY <2>1, <2>2, PromiseAtRoot, PromiseAtNode
  <2>3. CASE Inconsistent(param, {}) /\ GetLabel(param) = <<>>
    BY <2>3
  <2> QED BY <2>2, <2>3
<1>2. ASSUME pc = "loop", open # <<>>
      PROVE  LET p == nodes[NextNode].par IN
             /\ IF GetLabel(p) = <<>> THEN NoLabelIsRight(p) ELSE LabelIsRight(p)
             /\ SameProblem(p, Recorded(p))
  <2>1. NextNode \in DOMAIN nodes
    BY <1>2, HeadOfOpen DEF Inv, Shape, Inv1
  <2>2. Labeler!AtNode(Literal, nodes[NextNode].par)
    BY <2>1 DEF ParametersAtNodes
  <2> QED BY <2>2, PromiseAtNode
<1>3. ASSUME pc = "expand"
      PROVE  RestIsRight(nodes[node].par, Arc)
  <2>1. node \in DOMAIN nodes /\ Arc \in Range(nodes[node].par.c)
    BY <1>3, ArcInC DEF Inv
  <2>2. Labeler!AtNode(Literal, nodes[node].par)
    BY <2>1 DEF ParametersAtNodes
  <2> QED BY <2>1, <2>2, PromiseForChild
<1> QED BY <1>1, <1>2, <1>3 DEF LabelerKeepsPromise

\* Every step keeps them so.
LEMMA ParametersStep ==
    ASSUME RepositoryLabelers, PromiseConditions, Inv, ParametersAtNodes, [Next]_vars
    PROVE  ParametersAtNodes'
<1>1. LabelerKeepsPromise
  BY PromiseKept
<1>2. ASSUME NEW n \in DOMAIN nodes'
      PROVE  Labeler!AtNode(Literal, nodes'[n].par)
  <2>1. CASE n \in DOMAIN nodes
    <3>1. nodes'[n].par \in {nodes[n].par, Recorded(nodes[n].par)}
      BY <2>1, <1>1, PromiseStaysInC, TypedStep DEF Inv, Shape, NodesKept, RecordedAt
    <3>2. Labeler!AtNode(Literal, nodes[n].par)
      BY <2>1 DEF ParametersAtNodes
    <3>3. Labeler!AtNode(Literal, Recorded(nodes[n].par))
      BY <3>2, PromiseAtNode
    <3> QED BY <3>1, <3>2, <3>3
  <2>2. CASE CreateRoot
    <3>1. nodes' = <<NewNode(<<>>, {}, GetLabel(param), Recorded(param))>>
          /\ GetLabel(param) # <<>>
      BY <2>2 DEF CreateRoot
    <3>2. nodes'[n].par = Recorded(param)
      BY <3>1 DEF NewNode
    <3>3. param \in Initial
      BY DEF Inv, Shape, Inv1, Typed
    <3>4. Labeler!AtNode(Literal, param)
      BY <3>1, <3>3, PromiseAtRoot
    <3> QED BY <3>2, <3>4, PromiseAtNode
  <2>3. CASE n \notin DOMAIN nodes /\ GenerateNode
    <3>1. nodes'[n].par = NewNodeParameters(nodes[node].par, Arc)
      BY <2>3, GenerateNodeTyped DEF ChildAdded, Inv, Shape
    <3>2. node \in DOMAIN nodes /\ Arc \in Range(nodes[node].par.c)
      BY <2>3, ArcInC DEF GenerateNode, TakeArc, Inv
    <3>3. Labeler!AtNode(Literal, nodes[node].par)
      BY <3>2 DEF ParametersAtNodes
    <3> QED BY <3>1, <3>2, <3>3, PromiseForChild
  <2> QED BY <2>1, <2>2, <2>3, Changes
<1> QED BY <1>2 DEF ParametersAtNodes

\* Under these conditions FastDiag's, QuickXPlain's, QuickXPlainWithTestCases' and
\* KBDiag's labelers keep their promise along every search: what get_label returns, what
\* it writes into the parameters of a node and what identify_new_node_parameters makes of
\* them.
THEOREM LabelersKeepPromise ==
    ASSUME RepositoryLabelers, PromiseConditions
    PROVE  Spec => []LabelerKeepsPromise
<1>1. Init => Inv /\ ParametersAtNodes
  <2> SUFFICES ASSUME Init
               PROVE  Inv /\ ParametersAtNodes
    OBVIOUS
  <2>1. DOMAIN nodes = {}
    BY DEF Init
  <2> QED BY <2>1, InvInit DEF ParametersAtNodes
<1>2. Inv /\ ParametersAtNodes => LabelerKeepsPromise
  BY PromiseKept
<1>3. Inv /\ ParametersAtNodes /\ [Next]_vars => (Inv /\ ParametersAtNodes)'
  BY <1>2, InvStep, ParametersStep
<1> QED BY <1>1, <1>2, <1>3, PTL DEF Spec

\* So none of these searches reports a mistake, and none of QuickXPlain's or FastDiag's
\* misses a minimal diagnosis or conflict.
THEOREM SearchesAreRight ==
    ASSUME RepositoryLabelers, PromiseConditions
    PROVE  Spec => [](LabelsAreSound /\ ReportsAreSound /\ Complete)
BY LabelersKeepPromise, LabelsSound, ReportsSound, SearchComplete, PTL
=============================================================================
