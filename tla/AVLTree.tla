------------------------------ MODULE AVLTree -------------------------------
(***************************************************************************)
(* The memtable's AVL tree, avl_tree.cpp.                                  *)
(*                                                                         *)
(* A tree is its root and its heap of nodes.  The keys of a tree are       *)
(* distinct, so a node goes by its key, as the code's goes by its address: *)
(* a rotation moves nodes, and never copies them.                          *)
(***************************************************************************)
EXTENDS BTree

Null == -1

EmptyTree == [root |-> Null, heap |-> EmptyMap]

GetHeight(heap, node) == IF node = Null THEN 0 ELSE heap[node].height

GetBalance(heap, node) ==
  IF node = Null THEN 0
  ELSE GetHeight(heap, heap[node].left) - GetHeight(heap, heap[node].right)

\* The heap after node has computed its height from those of its children.
Remeasured(heap, node) ==
  LET left  == GetHeight(heap, heap[node].left)
      right == GetHeight(heap, heap[node].right)
  IN  [heap EXCEPT ![node].height = (IF left < right THEN right ELSE left) + 1]

\* A wrong rotation: the node that goes down keeps its old height.
RightRotateStale(heap, node) ==
  LET left   == heap[node].left
      turned == [heap EXCEPT ![left].right = node, ![node].left = heap[left].right]
  IN  [root |-> left, heap |-> Remeasured(turned, left)]

RightRotate(heap, node) ==
  LET left   == heap[node].left
      turned == [heap EXCEPT ![left].right = node, ![node].left = heap[left].right]
  IN  [root |-> left, heap |-> Remeasured(Remeasured(turned, node), left)]

\* A wrong rotation: the inner child of the node that goes up is lost.
LeftRotateDrops(heap, node) ==
  LET right  == heap[node].right
      turned == [heap EXCEPT ![right].left = node, ![node].right = Null]
  IN  [root |-> right, heap |-> Remeasured(Remeasured(turned, node), right)]

LeftRotate(heap, node) ==
  LET right  == heap[node].right
      turned == [heap EXCEPT ![right].left = node, ![node].right = heap[right].left]
  IN  [root |-> right, heap |-> Remeasured(Remeasured(turned, node), right)]

\* The subtree at node after key was inserted below it.
Rebalanced(heap, node, key) ==
  LET balance == GetBalance(heap, node)
      left    == heap[node].left
      right   == heap[node].right
  IN  CASE balance > 1 /\ key < left   -> RightRotate(heap, node)
        [] balance < -1 /\ key > right -> LeftRotate(heap, node)
        [] balance > 1 /\ key > left   ->
             LET turned == LeftRotate(heap, left)
             IN  RightRotate([turned.heap EXCEPT ![node].left = turned.root], node)
        [] balance < -1 /\ key < right ->
             LET turned == RightRotate(heap, right)
             IN  LeftRotate([turned.heap EXCEPT ![node].right = turned.root], node)
        [] OTHER -> [root |-> node, heap |-> heap]

NewNode(value) == [value |-> value, height |-> 1, left |-> Null, right |-> Null]

\* put: the tree with key added, or with its value replaced.
InsertNode(tree, key, value) ==
  LET Below(node) == IF key < node THEN "left" ELSE "right"
      insert[node \in DOMAIN tree.heap \cup {Null}] ==
        IF node = Null THEN [root |-> key, heap |-> Assign(tree.heap, key, NewNode(value))]
        ELSE IF node = key THEN [root |-> node, heap |-> [tree.heap EXCEPT ![key].value = value]]
        ELSE LET child == insert[tree.heap[node][Below(node)]]
                 heap  == [child.heap EXCEPT ![node][Below(node)] = child.root]
             IN  Rebalanced(Remeasured(heap, node), node, key)
  IN  insert[tree.root]

\* get: the value in the node a descent for key ends in.
GetValue(tree, key) ==
  LET find[node \in DOMAIN tree.heap \cup {Null}] ==
        IF node = Null THEN INVALID_VALUE
        ELSE IF key < node THEN find[tree.heap[node].left]
        ELSE IF key > node THEN find[tree.heap[node].right]
        ELSE tree.heap[node].value
  IN  find[tree.root]

\* A wrong scan: it does not go left of a node that has the start key or more.
ScanTreeRightOnly(tree, start_key, end_key) ==
  LET scan[node \in DOMAIN tree.heap \cup {Null}] ==
        IF node = Null THEN <<>>
        ELSE (IF start_key <= node /\ node <= end_key
              THEN <<[key |-> node, value |-> tree.heap[node].value]>> ELSE <<>>) \o
             (IF node < end_key THEN scan[tree.heap[node].right] ELSE <<>>)
  IN  scan[tree.root]

\* scan_memtable: only the subtrees that may have keys of the range are visited.
ScanTree(tree, start_key, end_key) ==
  LET scan[node \in DOMAIN tree.heap \cup {Null}] ==
        IF node = Null THEN <<>>
        ELSE (IF start_key < node THEN scan[tree.heap[node].left] ELSE <<>>) \o
             (IF start_key <= node /\ node <= end_key
              THEN <<[key |-> node, value |-> tree.heap[node].value]>> ELSE <<>>) \o
             (IF node < end_key THEN scan[tree.heap[node].right] ELSE <<>>)
  IN  scan[tree.root]

\* The order in which extract_leaf_nodes_from_avl comes to the entries.
InOrder(tree) ==
  LET walk[node \in DOMAIN tree.heap \cup {Null}] ==
        IF node = Null THEN <<>>
        ELSE walk[tree.heap[node].left] \o
             <<[key |-> node, value |-> tree.heap[node].value]>> \o
             walk[tree.heap[node].right]
  IN  walk[tree.root]
=============================================================================
