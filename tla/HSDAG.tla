------------------------------- MODULE HSDAG -------------------------------
(***************************************************************************)
(* The HS-dag (explanation/operations/algorithms/hsdag/hsdag.py, node.py): *)
(* a breadth-first search that labels each node with a conflict (or, with  *)
(* a diagnosis labeler, a diagnosis) no element of which is on the path to *)
(* the node; a node with no such label is a diagnosis (a conflict).        *)
(*                                                                         *)
(* A node is a record, its id its index in nodes.  Its level is the length *)
(* of its path.  Parents, open_nodes queries and the hash of a path or a   *)
(* label (get_hashcode sorts it) only depend on the elements, which are    *)
(* distinct: parents are a set, lookup and labelNodes are keyed by sets.   *)
(***************************************************************************)
EXTENDS Naturals, Sequences, FiniteSets, Functions, SequencesExt

CONSTANTS
    Initial,                \* the parameters of the roots to explore
    Limits(_),              \* the settings of the limits to explore with each
    GetType(_),             \* the labeler (IHSLabelable): what its labels are,
    GetLabel(_),            \* the label it finds for parameters, <<>> for none,
    Recorded(_),            \* the parameters as get_label leaves them,
    NewNodeParameters(_, _),\* and those of the child along an arc
    Inconsistent(_, _),     \* whether a set of constraints cannot be kept,
    Minimal(_)              \* and whether the labeler is one of those whose labels
                            \* are minimal among all conflicts (diagnoses)

VARIABLES
    param,          \* the initial parameters of the labeler
    limit,          \* max_number_diagnoses, max_number_conflicts and max_depth
    pc,             \* "root", "loop" (create_nodes), "compare" (process_labels),
                    \* "expand" (the loop of expand), "done"
    nodes,          \* every node generated
    open,           \* open_nodes: the ids of the nodes to visit, next first
    nodeLabels,     \* node_labels: the labels found
    pathLabels,     \* path_labels: the paths found to need no label
    lookup,         \* nodes_lookup: path -> id
    labelNodes,     \* label_nodes_map: label -> ids
    node,           \* the id of the node being labelled or expanded
    fresh,          \* the label just computed for it
    greater,        \* the places of the known labels that include fresh, to be replaced
    arcs            \* the arcs still to be expanded

dag == <<nodes, open, lookup, labelNodes>>
found == <<nodeLabels, pathLabels>>
work == <<node, fresh, greater, arcs>>
vars == <<param, limit, pc, dag, found, work>>

\* The limit of a count that has none, and of a depth that has none.
NoLimit == -1
NoDepth == 0

\* A limit that is given is positive.
ASSUME LimitsAssumption ==
    \A p \in Initial :
        Limits(p) \subseteq [diagnoses : {NoLimit} \cup (Nat \ {0}),
                            conflicts : {NoLimit} \cup (Nat \ {0}),
                            depth : Nat]

\* A knowledge base has finitely many constraints.
ASSUME FiniteAssumption == \A p \in Initial : IsFiniteSet(Range(p.c))

\* What cannot be kept cannot be kept with more constraints either.
ASSUME MonotoneAssumption ==
    \A p \in Initial : \A T \in SUBSET Range(p.c) :
        ~Inconsistent(p, T) => \A S \in SUBSET T : ~Inconsistent(p, S)

Status == {"Open", "Closed", "Pruned", "Checked"}
EmptyFunction == [x \in {} |-> {}]

----------------------------------------------------------------------------
\* get_diagnoses and get_conflicts.
Diagnoses(labels, paths) == IF GetType(param) = "CONFLICT" THEN paths ELSE labels
Conflicts(labels, paths) == IF GetType(param) = "CONFLICT" THEN labels ELSE paths

\* As in FastDiag, a Bug is a faulty variant of the definition after it.

\* The limits are reached one report late.
ShouldStopBug(labels, paths) ==
    \/ limit.diagnoses # NoLimit /\ limit.diagnoses < Len(Diagnoses(labels, paths))
    \/ limit.conflicts # NoLimit /\ limit.conflicts < Len(Conflicts(labels, paths))

\* should_stop_construction, once labels and paths are what was found.
ShouldStop(labels, paths) ==
    \/ limit.diagnoses # NoLimit /\ limit.diagnoses <= Len(Diagnoses(labels, paths))
    \/ limit.conflicts # NoLimit /\ limit.conflicts <= Len(Conflicts(labels, paths))

NewNode(path, parents, label, p) ==
    [status |-> "Open", label |-> label, path |-> path, parents |-> parents,
     children |-> EmptyFunction, par |-> p]

PathOf(n) == Range(nodes[n].path)

\* add_item_to_label_nodes_map.
WithNodes(map, label, ids) ==
    [l \in DOMAIN map \cup {Range(label)} |->
        (IF l \in DOMAIN map THEN map[l] ELSE {}) \cup
        (IF l = Range(label) THEN ids ELSE {})]

\* A path is closed as soon as part of it is open.
CanPruneBug(path, ids) ==
    \/ \E i \in DOMAIN pathLabels : Range(path) \subseteq Range(pathLabels[i])
    \/ \E i \in DOMAIN ids : PathOf(ids[i]) \subseteq Range(path)

\* can_prune on a node at the end of path, while the nodes ids are open.
CanPrune(path, ids) ==
    \/ \E i \in DOMAIN pathLabels : Range(path) \subseteq Range(pathLabels[i])
    \/ \E i \in DOMAIN ids : PathOf(ids[i]) = Range(path)

\* No label is reused.
ReusableBug(n) == {}

\* get_reusable_labels: their places in node_labels.
Reusable(n) == {i \in DOMAIN nodeLabels : Range(nodeLabels[i]) \cap PathOf(n) = {}}

\* The nodes ids, their children and further descendants.
Descendants(ids) ==
    LET below[k \in Nat] ==    \* those at most k arcs below them
            IF k = 0 THEN {}
            ELSE UNION {Range(nodes[n].children) : n \in ids \cup below[k - 1]}
    IN  ids \cup below[Len(nodes)]

----------------------------------------------------------------------------
Init ==
    /\ param \in Initial
    /\ limit \in Limits(param)
    /\ pc = "root"
    /\ nodes = <<>>
    /\ open = <<>>
    /\ nodeLabels = <<>>
    /\ pathLabels = <<>>
    /\ lookup = EmptyFunction
    /\ labelNodes = EmptyFunction
    /\ node = 0
    /\ fresh = <<>>
    /\ greater = {}
    /\ arcs = <<>>

\* create_root finds no label: construct ends.
NoRoot ==
    /\ pc = "root"
    /\ GetLabel(param) = <<>>
    /\ pc' = "done"
    /\ UNCHANGED <<param, limit, dag, found, work>>

\* create_root, and construct's check that the search goes on.
CreateRoot ==
    LET label == GetLabel(param) IN
    /\ pc = "root"
    /\ label # <<>>
    /\ nodes' = <<NewNode(<<>>, {}, label, Recorded(param))>>
    /\ open' = <<1>>
    /\ nodeLabels' = <<label>>
    /\ labelNodes' = WithNodes(labelNodes, label, {1})
    /\ pc' = IF ShouldStop(nodeLabels', pathLabels) THEN "done" ELSE "loop"
    /\ UNCHANGED <<param, limit, lookup, pathLabels, work>>

----------------------------------------------------------------------------
\* The loop of create_nodes takes the next node of open_nodes.
NextNode == Head(open)

IsRoot(n) == nodes[n].parents = {}

TooDeep(n) == limit.depth # NoDepth /\ limit.depth < Len(nodes[n].path)

\* The next node goes on to be labelled.
Visit ==
    /\ pc = "loop"
    /\ open # <<>>
    /\ ~IsRoot(NextNode)
    /\ nodes[NextNode].status = "Open"
    /\ ~TooDeep(NextNode)
    /\ ~CanPrune(nodes[NextNode].path, Tail(open))
    /\ open' = Tail(open)

\* open_nodes is empty.
NothingOpen ==
    /\ pc = "loop"
    /\ open = <<>>
    /\ pc' = "done"
    /\ UNCHANGED <<param, limit, dag, found, work>>

\* The root is labelled already.
VisitRoot ==
    /\ pc = "loop"
    /\ open # <<>>
    /\ IsRoot(NextNode)
    /\ nodes[NextNode].status = "Open"
    /\ open' = Tail(open)
    /\ node' = NextNode
    /\ arcs' = nodes[NextNode].label
    /\ pc' = "expand"
    /\ UNCHANGED <<param, limit, nodes, lookup, labelNodes, found, fresh, greater>>

\* The skipped node stays in open_nodes.
SkipBug ==
    /\ pc = "loop"
    /\ open # <<>>
    /\ nodes[NextNode].status # "Open" \/ (~IsRoot(NextNode) /\ TooDeep(NextNode))
    /\ UNCHANGED vars

\* skip_node passes over a node that is not open any more or too deep, and closes
\* one that can_prune.
Skip ==
    /\ pc = "loop"
    /\ open # <<>>
    /\ \/ nodes[NextNode].status # "Open"
       \/ ~IsRoot(NextNode) /\ (TooDeep(NextNode) \/ CanPrune(nodes[NextNode].path, Tail(open)))
    /\ open' = Tail(open)
    /\ nodes' = IF nodes[NextNode].status = "Open" /\ ~TooDeep(NextNode)
                THEN [nodes EXCEPT ![NextNode].status = "Closed"] ELSE nodes
    /\ UNCHANGED <<param, limit, pc, lookup, labelNodes, found, work>>

\* label reuses the first known label that is disjoint from the path.
ReuseLabel ==
    /\ Visit
    /\ \E first \in Reusable(NextNode) :
        /\ \A i \in Reusable(NextNode) : first <= i
        /\ nodes' = [nodes EXCEPT ![NextNode].label = nodeLabels[first]]
        /\ labelNodes' = WithNodes(labelNodes, nodeLabels[first], {NextNode})
        /\ arcs' = nodeLabels[first]
    /\ node' = NextNode
    /\ pc' = IF ShouldStop(nodeLabels, pathLabels) THEN "done" ELSE "expand"
    /\ UNCHANGED <<param, limit, lookup, found, fresh, greater>>

\* label computes one; process_labels compares it with the known labels.
ComputeLabel ==
    LET label == GetLabel(nodes[NextNode].par) IN
    /\ Visit
    /\ Reusable(NextNode) = {}
    /\ label # <<>>
    /\ nodes' = [nodes EXCEPT ![NextNode].par = Recorded(@)]
    /\ node' = NextNode
    /\ fresh' = label
    /\ greater' = {i \in DOMAIN nodeLabels : Len(nodeLabels[i]) > Len(label)
                                              /\ Range(label) \subseteq Range(nodeLabels[i])}
    /\ pc' = "compare"
    /\ UNCHANGED <<param, limit, lookup, labelNodes, found, arcs>>

\* label finds that the path needs none: the path is one of the answers.
FindPathLabel ==
    /\ Visit
    /\ Reusable(NextNode) = {}
    /\ GetLabel(nodes[NextNode].par) = <<>>
    /\ nodes' = [nodes EXCEPT ![NextNode].status = "Checked",
                              ![NextNode].par = Recorded(@)]
    /\ pathLabels' = Append(pathLabels, nodes[NextNode].path)
    /\ pc' = IF ShouldStop(nodeLabels, pathLabels') THEN "done" ELSE "loop"
    /\ UNCHANGED <<param, limit, lookup, labelNodes, nodeLabels, work>>

----------------------------------------------------------------------------
\* A node that was decided is pruned like one that is open.
CleanedUpBug(status) == "Pruned"

\* clean_up_nodes: the status of a node it reaches.
CleanedUp(status) == IF status = "Open" THEN "Pruned" ELSE status

\* clean_up_nodes leaves nodes_lookup alone.
PathsOfBug(ids) == {}

\* The paths of the nodes ids, which clean_up_nodes takes out of nodes_lookup.
PathsOf(ids) == {PathOf(n) : n \in ids}

\* process_labels finds that the fresh label is part of the known one at place i:
\* update_dag relabels the open nodes the known one labels, cuts their children
\* along the arcs that go, and clean_up_nodes prunes those and all below them.
Replace(i) ==
    LET old    == Range(nodeLabels[i])
        gone   == old \ Range(fresh)
        ids    == IF old \in DOMAIN labelNodes
                  THEN {n \in labelNodes[old] : nodes[n].status = "Open"} ELSE {}
        cut(n) == gone \cap DOMAIN nodes[n].children
        pruned == Descendants(UNION {{nodes[n].children[a] : a \in cut(n)} : n \in ids})
        losing(c) == {n \in ids : \E a \in cut(n) : nodes[n].children[a] = c}
    IN
    /\ nodes' = [n \in DOMAIN nodes |->
            [nodes[n] EXCEPT
                !.label = IF n \in ids THEN fresh ELSE @,
                !.children = IF n \in ids THEN Restrict(@, DOMAIN @ \ gone) ELSE @,
                !.parents = @ \ losing(n),
                !.status = IF n \in pruned THEN CleanedUp(@) ELSE @]]
    /\ lookup' = Restrict(lookup, DOMAIN lookup \ PathsOf(pruned))
    /\ labelNodes' = IF ids = {} THEN labelNodes ELSE WithNodes(labelNodes, fresh, ids)
    /\ greater' = greater \ {i}

\* The known labels are replaced in the order they were found.
ReplaceLabel ==
    /\ pc = "compare"
    /\ \E i \in greater : (\A j \in greater : i <= j) /\ Replace(i)
    /\ UNCHANGED <<param, limit, pc, open, found, node, fresh, arcs>>

\* No known label is left to replace: process_labels forgets which nodes had the
\* replaced ones and adds the fresh one, and label gives it to the node, which is
\* expanded unless clean_up_nodes reached it.
AddLabel ==
    LET replaced == {l \in {Range(nodeLabels[i]) : i \in DOMAIN nodeLabels} :
                        l # Range(fresh) /\ Range(fresh) \subseteq l}
    IN
    /\ pc = "compare"
    /\ greater = {}
    /\ nodeLabels' = Append(nodeLabels, fresh)
    /\ nodes' = [nodes EXCEPT ![node].label = fresh]
    /\ labelNodes' = WithNodes(Restrict(labelNodes, DOMAIN labelNodes \ replaced),
                               fresh, {node})
    /\ arcs' = fresh
    /\ pc' = IF ShouldStop(nodeLabels', pathLabels) THEN "done"
             ELSE IF nodes[node].status = "Open" THEN "expand" ELSE "loop"
    /\ UNCHANGED <<param, limit, open, lookup, pathLabels, node, fresh, greater>>

----------------------------------------------------------------------------
\* expand takes the next arc of the label.
Arc == Head(arcs)
NewPath == Append(nodes[node].path, Arc)

TakeArc ==
    /\ pc = "expand"
    /\ arcs' = Tail(arcs)
    /\ pc' = IF Tail(arcs) = <<>> THEN "loop" ELSE "expand"

\* Rule 1.a: the node at the end of the path exists.
ReuseNode ==
    /\ TakeArc
    /\ Range(NewPath) \in DOMAIN lookup
    /\ nodes' = [nodes EXCEPT ![lookup[Range(NewPath)]].parents = @ \cup {node}]
    /\ UNCHANGED <<param, limit, open, lookup, labelNodes, found, node, fresh, greater>>

\* Ids are counted from 2.
NextIdBug == Len(nodes) + 2

\* The id of the next node generated.
NextId == Len(nodes) + 1

\* The search is depth first.
EnqueueBug(ids, id) == <<id>> \o ids

\* open_nodes with one more node: the search is breadth first.
Enqueue(ids, id) == Append(ids, id)

\* Rule 1.b: a new node, which is closed at once if can_prune.
GenerateNode ==
    LET id     == NextId
        closed == CanPrune(NewPath, open)
        child  == NewNode(NewPath, {node}, <<>>, NewNodeParameters(nodes[node].par, Arc))
    IN
    /\ TakeArc
    /\ Range(NewPath) \notin DOMAIN lookup
    /\ nodes' = Append([nodes EXCEPT ![node].children =
                            [a \in DOMAIN @ \cup {Arc} |-> IF a = Arc THEN id ELSE @[a]]],
                       [child EXCEPT !.status = IF closed THEN "Closed" ELSE "Open"])
    /\ lookup' = [s \in DOMAIN lookup \cup {Range(NewPath)} |->
                      IF s = Range(NewPath) THEN id ELSE lookup[s]]
    /\ open' = IF closed THEN open ELSE Enqueue(open, id)
    /\ UNCHANGED <<param, limit, labelNodes, found, node, fresh, greater>>

Next ==
    \/ NoRoot
    \/ CreateRoot
    \/ NothingOpen
    \/ VisitRoot
    \/ Skip
    \/ ReuseLabel
    \/ ComputeLabel
    \/ FindPathLabel
    \/ ReplaceLabel
    \/ AddLabel
    \/ ReuseNode
    \/ GenerateNode

Spec == Init /\ [][Next]_vars

\* construct runs in one thread, and every call of the labeler returns.
FairSpec == Spec /\ WF_vars(Next)

----------------------------------------------------------------------------
Elements == Range(param.c)

IsConflict(K) == K \subseteq Elements /\ Inconsistent(param, K)
IsDiagnosis(D) == D \subseteq Elements /\ ~Inconsistent(param, Elements \ D)

MinimalConflicts ==
    {K \in SUBSET Elements : IsConflict(K) /\ \A x \in K : ~IsConflict(K \ {x})}
MinimalDiagnoses ==
    {D \in SUBSET Elements : IsDiagnosis(D) /\ \A x \in D : ~IsDiagnosis(D \ {x})}

SetsOf(lists) == {Range(lists[i]) : i \in DOMAIN lists}

ReportedConflicts == SetsOf(Conflicts(nodeLabels, pathLabels))
ReportedDiagnoses == SetsOf(Diagnoses(nodeLabels, pathLabels))

TypeOK ==
    /\ param \in Initial
    /\ limit \in Limits(param)
    /\ pc \in {"root", "loop", "compare", "expand", "done"}
    /\ \A n \in DOMAIN nodes :
        /\ nodes[n].status \in Status
        /\ Range(nodes[n].label) \subseteq Elements
        /\ Range(nodes[n].path) \subseteq Elements
        /\ nodes[n].parents \subseteq DOMAIN nodes
        /\ Range(nodes[n].children) \subseteq DOMAIN nodes
    /\ Range(open) \subseteq DOMAIN nodes
    /\ DOMAIN lookup \subseteq SUBSET Elements /\ Range(lookup) \subseteq DOMAIN nodes
    /\ DOMAIN labelNodes \subseteq SUBSET Elements
    /\ UNION Range(labelNodes) \subseteq DOMAIN nodes
    /\ UNION SetsOf(nodeLabels \o pathLabels \o <<fresh, arcs>>) \subseteq Elements
    /\ greater \subseteq DOMAIN nodeLabels
    /\ node \in {0} \cup DOMAIN nodes

\* A label for parameters p is a conflict (a diagnosis) of what p describes.
LabelIsRight(p) ==
    LET L == Range(GetLabel(p))
        C == Range(p.c)
    IN
    /\ GetLabel(p) \in Seq(C)
    /\ IF GetType(p) = "CONFLICT"
       THEN /\ Inconsistent(p, L)
            /\ Minimal(p) => \A x \in L : ~Inconsistent(p, L \ {x})
       ELSE /\ Inconsistent(p, C)
            /\ ~Inconsistent(p, C \ L)
            /\ Minimal(p) => \A x \in L : Inconsistent(p, C \ (L \ {x}))

\* Parameters without a label have no conflict (no diagnosis) left.
NoLabelIsRight(p) ==
    IF GetType(p) = "CONFLICT" THEN ~Inconsistent(p, Range(p.c))
    ELSE Minimal(p) => Inconsistent(p, {}) \/ ~Inconsistent(p, Range(p.c))

\* q describes what p does.
SameProblem(p, q) ==
    /\ GetType(q) = GetType(p)
    /\ Minimal(q) <=> Minimal(p)
    /\ GetLabel(q) = GetLabel(p)
    /\ Range(q.c) = Range(p.c)
    /\ \A S \in SUBSET Range(p.c) : Inconsistent(q, S) <=> Inconsistent(p, S)

\* The parameters of a child along an arc describe what is left of those of its
\* parent: the arc is out of C, and for a diagnosis in the background.
RestIsRight(p, arc) ==
    LET q == NewNodeParameters(p, arc) IN
    /\ GetType(q) = GetType(p)
    /\ Minimal(q) <=> Minimal(p)
    /\ Range(q.c) = Range(p.c) \ {arc}
    /\ GetLabel(q) # <<>> => GetLabel(p) # <<>>
    /\ GetType(p) = "CONFLICT" \/ Minimal(p) \/ GetLabel(q) # <<>> =>
          \A S \in SUBSET Range(q.c) :
              Inconsistent(q, S) <=>
                  Inconsistent(p, IF GetType(p) = "CONFLICT" THEN S ELSE S \cup {arc})

\* What the HS-dag relies on of its labeler (IHSLabelable), asked about the
\* parameters at hand: a label that get_label finds for them is right for them, and
\* so is the lack of one (at the root, on a consistent background), what get_label
\* writes into them changes nothing, and the child's parameters describe the rest.
LabelerKeepsPromise ==
    /\ pc = "root" =>
          IF GetLabel(param) = <<>> THEN Inconsistent(param, {}) \/ NoLabelIsRight(param)
          ELSE LabelIsRight(param) /\ SameProblem(param, Recorded(param))
    /\ pc = "loop" /\ open # <<>> =>
          LET p == nodes[NextNode].par IN
          /\ IF GetLabel(p) = <<>> THEN NoLabelIsRight(p) ELSE LabelIsRight(p)
          /\ SameProblem(p, Recorded(p))
    /\ pc = "expand" => RestIsRight(nodes[node].par, Arc)

\* Reported diagnoses (get_diagnoses: "the list of diagnoses found") are diagnoses
\* of the knowledge base the HS-dag was asked about, although the labeler was only
\* ever asked about the parameters of a node.
DiagnosesAreSound == \A D \in ReportedDiagnoses : IsDiagnosis(D)

\* Reported conflicts (get_conflicts: "the list of conflicts found") are conflicts
\* of that knowledge base.
ConflictsAreSound == \A K \in ReportedConflicts : IsConflict(K)

\* Neither a label nor a path that is reported is a mistake.  The paths KBDiag's
\* conflicts are read from are excepted: its nodes lose their test cases below a
\* reused label (kbdiag_labeler.py:75).
ReportsAreSound ==
    /\ DiagnosesAreSound
    /\ GetType(param) = "CONFLICT" \/ Minimal(param) => ConflictsAreSound

\* A label is a conflict (a diagnosis) of the whole knowledge base, and so can be
\* reused at any node whose path it is disjoint from; where the labeler promises
\* it, it is minimal among all and not only among those of the node it was
\* computed for.
LabelsAreSound ==
    \A L \in SetsOf(nodeLabels) :
        IF GetType(param) = "CONFLICT"
        THEN IsConflict(L) /\ (Minimal(param) => L \in MinimalConflicts)
        ELSE IsDiagnosis(L) /\ (Minimal(param) => L \in MinimalDiagnoses)

\* Nothing is reported twice, and no known label is part of the one just computed.
\* (process_labels would drop the computed one, and label would report the path
\* although it needs a label: that branch is not modelled because of this.)
NoReportTwice ==
    /\ Cardinality(SetsOf(nodeLabels)) = Len(nodeLabels)
    /\ Cardinality(SetsOf(pathLabels)) = Len(pathLabels)
    /\ pc = "compare" => \A L \in SetsOf(nodeLabels) : ~(L \subseteq Range(fresh))

\* Neither number of reports exceeds its limit, and no path is longer than
\* max_depth.
LimitsRespected ==
    /\ limit.diagnoses # NoLimit =>
          Len(Diagnoses(nodeLabels, pathLabels)) <= limit.diagnoses
    /\ limit.conflicts # NoLimit =>
          Len(Conflicts(nodeLabels, pathLabels)) <= limit.conflicts
    /\ limit.depth # NoDepth =>
          \A i \in DOMAIN pathLabels : Len(pathLabels[i]) <= limit.depth

\* The paths are reported shortest first.
ShortestFirst ==
    \A i, j \in DOMAIN pathLabels : i < j => Len(pathLabels[i]) <= Len(pathLabels[j])

\* Rule 1.a finds the node it looks for, with a parent (add_parent raises otherwise).
LookupFinds ==
    \A s \in DOMAIN lookup : PathOf(lookup[s]) = s /\ ~IsRoot(lookup[s])

\* And the graph has no second node that is open on the same path.
OneNodePerPath ==
    /\ LookupFinds
    /\ \A m, n \in DOMAIN nodes :
          m # n /\ nodes[m].status = "Open" /\ nodes[n].status = "Open"
              => PathOf(m) # PathOf(n)

\* A node is decided once: one that was closed, pruned or found to be an answer keeps
\* its status, is not expanded (again) and keeps the children it has.  It keeps its
\* label too, but for the node being labelled: clean_up_nodes may have pruned it while
\* process_labels replaced known labels, and label still gives it the computed one
\* (hsdag.py:139).
DecidedOnce ==
    [][\A n \in DOMAIN nodes : nodes[n].status # "Open" =>
          /\ nodes'[n].status = nodes[n].status
          /\ nodes'[n].children = nodes[n].children
          /\ \/ nodes'[n].label = nodes[n].label
             \/ /\ pc = "compare" /\ n = node
                /\ nodes[n].status = "Pruned"
                /\ nodes'[n].label = fresh]_vars

\* When the search of a labeler with minimal labels on a consistent background ends
\* without having met a limit on the number of reports, it has reported every minimal
\* diagnosis and conflict, up to max_depth for the paths.
Complete ==
    /\ pc = "done"
    /\ Minimal(param)
    /\ ~ShouldStop(nodeLabels, pathLabels)
    /\ Inconsistent(param, Elements)
    /\ ~Inconsistent(param, {})
    =>  LET paths  == IF GetType(param) = "CONFLICT" THEN MinimalDiagnoses ELSE MinimalConflicts
            labels == IF GetType(param) = "CONFLICT" THEN MinimalConflicts ELSE MinimalDiagnoses
        IN
        /\ {P \in paths : limit.depth = NoDepth \/ Cardinality(P) <= limit.depth}
               \subseteq SetsOf(pathLabels)
        /\ limit.depth = NoDepth => labels \subseteq SetsOf(nodeLabels)

\* A search that meets no limit finds a diagnosis if there is one: the labeler
\* finds "diagnoses by iteratively identifying conflicts that violate test cases"
\* (quickxplain_with_testcases_labeler.py:46).
FindsADiagnosis ==
    /\ pc = "done"
    /\ limit = [diagnoses |-> NoLimit, conflicts |-> NoLimit, depth |-> NoDepth]
    /\ Inconsistent(param, Elements)
    /\ MinimalDiagnoses # {}
    => ReportedDiagnoses # {}

\* construct returns.
Termination == <>(pc = "done")
=============================================================================
