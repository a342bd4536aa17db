-------------------------------- MODULE PTree --------------------------------
(***************************************************************************)
(* The executor with KLEE's process tree (klee/lib/Core/PTree.cpp) and the *)
(* searcher that walks it (RandomPathSearcher in Searcher.cpp).  A node is *)
(* named by the path from the root, a sequence of "l" and "r"; the leaves  *)
(* carry the states, and a node is active when the walk may enter it.      *)
(***************************************************************************)
EXTENDS S2EExecutor, Sequences, FiniteSetsExt

VARIABLES
    nodes,       \* the nodes that exist
    activeNodes, \* those with PTreeNode::active
    ptreeNode    \* ExecutionState::ptreeNode

treeVars == <<nodes, activeNodes, ptreeNode>>
pathVars == <<vars, treeVars>>

PTreeTypeOK ==
    /\ nodes \subseteq Seq({"l", "r"}) /\ activeNodes \subseteq nodes
    /\ ptreeNode \in [State -> Seq({"l", "r"})]

TreeInit ==
    /\ Init
    /\ nodes = {<<>>} /\ activeNodes = {<<>>}
    /\ ptreeNode = [s \in State |-> <<>>]

\* The node k steps below the root on the way to n, and the other child of the
\* parent of a node.
Up(n, k) == SubSeq(n, 1, k)
Sibling(n) == Up(n, Len(n) - 1) \o (IF n[Len(n)] = "l" THEN <<"r">> ELSE <<"l">>)

Leaf(t, n) == n \in t.nodes /\ n \o <<"l">> \notin t.nodes /\ n \o <<"r">> \notin t.nodes

\* Mutant of deactivate: an active sibling does not stop it.
deactivatePath(t, n) == [t EXCEPT !.active = @ \ {Up(n, k) : k \in 0..Len(n)}]

\* PTree::deactivate(): the node and its ancestors, up to the first one whose
\* other child exists and is active.
deactivate(t, n) ==
    [t EXCEPT !.active = @ \ {Up(n, k) : k \in {j \in 0..Len(n) :
        \A i \in j + 1..Len(n) : Sibling(Up(n, i)) \notin t.active}}]

\* Mutant of remove: ancestors that are left without a child stay.
removeLeaf(t, n) ==
    LET d == deactivate(t, n) IN [d EXCEPT !.nodes = @ \ {n}]

\* PTree::remove(): the node and its ancestors that are left without a child.
remove(t, n) ==
    LET d == deactivate(t, n)
    IN  [d EXCEPT !.nodes = @ \ {Up(n, k) : k \in {j \in 0..Len(n) :
            \A i \in j + 1..Len(n) : Sibling(Up(n, i)) \notin t.nodes}}]

Tree == [nodes |-> nodes, active |-> activeNodes]
SetTree(t) == nodes' = t.nodes /\ activeNodes' = t.active

\* PTree::split(), with the two states on either side.
split(t, n) ==
    [nodes |-> t.nodes \cup {n \o <<"l">>, n \o <<"r">>},
     active |-> t.active \cup {n \o <<"l">>, n \o <<"r">>}]

\* ExecutionState::ptreeNode of the two sides after the split.
treeBranch(s) ==
    LET n == ptreeNode[current]
    IN  \E side \in {"l", "r"} :
            ptreeNode' = [ptreeNode EXCEPT ![s] = n \o <<side>>,
                                           ![current] = Sibling(n \o <<side>>)]

treeFork(s) ==
    /\ fork(s) /\ treeBranch(s)
    /\ SetTree(split(Tree, ptreeNode[current]))

\* A new state past the depth limit may be deleted before it is ever searched.
treeForkTooDeep(s) ==
    /\ forkTooDeep(s) /\ treeBranch(s)
    /\ LET t == split(Tree, ptreeNode[current])
       IN  SetTree(IF s \in deletedStates' THEN remove(t, ptreeNode'[s]) ELSE t)

\* suspendState().
treeSucceed ==
    /\ succeedState
    /\ SetTree(deactivate(Tree, ptreeNode[current]))
    /\ UNCHANGED ptreeNode

\* updateStates() calls deleteState(), which removes the state's node.
treeUpdate ==
    /\ updateStates
    /\ SetTree(FoldSet(LAMBDA s, t : remove(t, ptreeNode[s]), Tree, removedStates))
    /\ UNCHANGED ptreeNode

\* Mutant of Steps: the flags are not looked at, as in KLEE's own walk.
StepsAnywhere(n) ==
    LET l == n \o <<"l">>  r == n \o <<"r">>
    IN  {l, r} \cap nodes

\* The children that RandomPathSearcher::selectState() may go to from n.
Steps(n) ==
    LET l == n \o <<"l">>  r == n \o <<"r">>
    IN  IF l \notin nodes \/ (r \in nodes /\ l \notin activeNodes) THEN {r}
        ELSE IF r \notin nodes \/ r \notin activeNodes THEN {l}
        ELSE {l, r}

\* Its walk may end at the leaf n.
WalkEnds(n) == Leaf(Tree, n) /\ \A k \in 1..Len(n) : Up(n, k) \in Steps(Up(n, k - 1))

selectState(s) == s \in created \ (deletedStates \cup freed) /\ WalkEnds(ptreeNode[s])

PathNext ==
    \/ \E s \in State : treeFork(s) \/ treeForkTooDeep(s)
    \/ (terminateState \/ yieldState \/ stateSwitchTimerCallback) /\ UNCHANGED treeVars
    \/ treeSucceed
    \/ treeUpdate
    \/ /\ pc = "select" /\ UpToDate /\ states # {}
       /\ \E s \in State : selectState(s) /\ (selectNextState(s) \/ terminateSpeculative(s))
       /\ UNCHANGED treeVars
    \/ (states = {} /\ allTerminated /\ UNCHANGED treeVars)
    \/ (stopped /\ UNCHANGED treeVars)

PathSpec == TreeInit /\ [][PathNext]_pathVars

-----------------------------------------------------------------------------
\* The nodes on the ways from the root to the states of S.
Paths(S) == UNION {{Up(ptreeNode[s], k) : k \in 0..Len(ptreeNode[s])} : s \in S}

\* The leaves are the nodes of the states that are searched or suspended, one
\* state each, and every node leads to one: remove() leaves nothing behind.
LeavesAreStates ==
    LET alive == states \cup addedStates \cup suspended
    IN  /\ PTreeTypeOK
        /\ nodes = Paths(alive)
        /\ \A s \in alive :
              /\ Leaf(Tree, ptreeNode[s])
              /\ \A t \in alive \ {s} : ptreeNode[t] # ptreeNode[s]

\* A node is active exactly when a searched state is below it, whatever the
\* order in which split(), deactivate() and remove() were applied.  It is what
\* the assertions of split() and of the random walk rely on: the running state's
\* leaf and its parents are active, and a walk has an active child to take.
ActiveIffSearched == activeNodes = Paths(states \cup addedStates)

\* Walking the tree is a way of choosing among the executor's states.
PathImplementsExecutor == Spec
=============================================================================
