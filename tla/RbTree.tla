------------------------------- MODULE RbTree -------------------------------
(***************************************************************************)
(* utils/rbtree.c: the red-black tree behind _handleMap.  Its callers hold *)
(* g_net_server->lock, so that one operation runs at a time; the passes of *)
(* fix_insert and fix_delete are its steps.  A key has at most one node,   *)
(* and names it.                                                           *)
(***************************************************************************)
EXTENDS Integers, FiniteSetsExt

CONSTANTS
  Keys,    \* bound: the keys of the map, integers
  Values,  \* bound: the values it holds
  Nil      \* NULL

ASSUME TreeAssumption == Keys \subseteq Int /\ Nil \notin Keys /\ Nil \notin Values

VARIABLES
  tree,    \* the root and the nodes in memory
  op,      \* the loop that runs, or "idle"; "crash" after a NULL was followed
  at,      \* the node the loop has come to, or Nil
  answer,  \* the value map_find returned last
  skipped  \* history: fix_delete had no node to start from

treeVars == <<tree, op, at, answer, skipped>>

Other(s) == IF s = "left" THEN "right" ELSE "left"

Nodes(t) == DOMAIN t.node
IsRed(t, n) == n # Nil /\ t.node[n].red
Side(t, n) == IF n = t.node[t.node[n].parent].left THEN "left" ELSE "right"

TreeInit ==
  /\ tree = [root |-> Nil, node |-> [n \in {} |-> Nil]]
  /\ op = "idle" /\ at = Nil /\ answer = Nil /\ skipped = FALSE

-----------------------------------------------------------------------------
(* The pointers. *)

\* The parent link of v, if v is a node.
Parented(t, v, p) == IF v = Nil THEN t ELSE [t EXCEPT !.node[v].parent = p]

\* transplant
Transplant(t, u, v) ==
  LET p == t.node[u].parent IN
  Parented(IF p = Nil THEN [t EXCEPT !.root = v] ELSE [t EXCEPT !.node[p][Side(t, u)] = v], v, p)

\* Faulty variant: the inner grandchild is dropped.
RotateLosing(t, x, s) ==
  LET y == t.node[x][Other(s)]
  IN [Transplant([t EXCEPT !.node[x][Other(s)] = Nil], x, y)
        EXCEPT !.node[y][s] = x, !.node[x].parent = y]

\* left_rotate (s = "left") and right_rotate: x goes down on side s, and its
\* other child y takes its place.
Rotate(t, x, s) ==
  LET y == t.node[x][Other(s)]
      b == t.node[y][s]
  IN [Transplant(Parented([t EXCEPT !.node[x][Other(s)] = b], b, x), x, y)
        EXCEPT !.node[y][s] = x, !.node[x].parent = y]

Painted(t, n, isRed) == IF n = Nil THEN t ELSE [t EXCEPT !.node[n].red = isRed]

-----------------------------------------------------------------------------
(* The way down: map_insert, map_find and map_delete end at the node of the  *)
(* key or at a missing child.                                               *)

Child(t, n, k) == t.node[n][IF k < n THEN "left" ELSE "right"]

Search(t, k) ==
  LET down[d \in 0 .. Cardinality(Nodes(t))] ==
        IF d = 0 THEN [at |-> t.root, above |-> Nil]
        ELSE LET c == down[d - 1] IN
             IF c.at \in {k, Nil} THEN c ELSE [at |-> Child(t, c.at, k), above |-> c.at]
  IN down[Cardinality(Nodes(t))]

\* map_find
FindKey(k) ==
  /\ op = "idle"
  /\ LET n == Search(tree, k).at IN answer' = IF n = Nil THEN Nil ELSE tree.node[n].value
  /\ UNCHANGED <<tree, op, at, skipped>>

-----------------------------------------------------------------------------
(* map_insert *)

\* The key is there already: only the value changes.
InsertAgain(k, v) ==
  /\ op = "idle"
  /\ Search(tree, k).at = k
  /\ tree' = [tree EXCEPT !.node[k].value = v]
  /\ UNCHANGED <<op, at, answer, skipped>>

\* create_node, hung below the node the search ended at.
InsertNode(k, v) ==
  /\ op = "idle"
  /\ Search(tree, k).at = Nil
  /\ LET p == Search(tree, k).above
         new == [red |-> TRUE, value |-> v, left |-> Nil, right |-> Nil, parent |-> p]
         nodes == [n \in Nodes(tree) \cup {k} |-> IF n = k THEN new ELSE tree.node[n]]
     IN tree' = IF p = Nil THEN [root |-> k, node |-> nodes]
                ELSE [root |-> tree.root,
                      node |-> [nodes EXCEPT ![p][IF k < p THEN "left" ELSE "right"] = k]]
  /\ op' = "fix_insert" /\ at' = k
  /\ UNCHANGED <<answer, skipped>>

\* One pass of fix_insert: p is the red parent, g its parent, u its sibling.
FixInsert ==
  /\ op = "fix_insert"
  /\ IsRed(tree, tree.node[at].parent)
  /\ LET p == tree.node[at].parent
         g == tree.node[p].parent
         s == Side(tree, p)
         u == tree.node[g][Other(s)]
         inner == at = tree.node[p][Other(s)]
         t1 == IF inner THEN Rotate(tree, p, s) ELSE tree
         z == IF inner THEN p ELSE at
     IN \/ /\ g = Nil
           /\ op' = "crash"
           /\ UNCHANGED <<tree, at>>
        \/ /\ g # Nil /\ IsRed(tree, u)
           /\ tree' = Painted(Painted(Painted(tree, p, FALSE), u, FALSE), g, TRUE)
           /\ at' = g
           /\ UNCHANGED op
        \/ /\ g # Nil /\ ~IsRed(tree, u)
           /\ tree' = Rotate(Painted(Painted(t1, t1.node[z].parent, FALSE), g, TRUE), g, Other(s))
           /\ at' = z
           /\ UNCHANGED op
  /\ UNCHANGED <<answer, skipped>>

FixInsertDone ==
  /\ op = "fix_insert"
  /\ ~IsRed(tree, tree.node[at].parent)
  /\ tree' = Painted(tree, tree.root, FALSE)
  /\ op' = "idle" /\ at' = Nil
  /\ UNCHANGED <<answer, skipped>>

-----------------------------------------------------------------------------
(* map_delete *)

Leftmost(t, n) ==
  LET down[d \in 0 .. Cardinality(Nodes(t))] ==
        IF d = 0 THEN n
        ELSE LET m == down[d - 1] IN IF t.node[m].left = Nil THEN m ELSE t.node[m].left
  IN down[Cardinality(Nodes(t))]

\* z is unlinked: its child x takes its place, or, when z has two, its successor
\* y does and x takes that of y.  z is freed after fix_delete, which does not
\* see it; here it goes at once.  A key that is not there is left alone.
DeleteKey(k) ==
  /\ op = "idle"
  /\ Search(tree, k).at = k
  /\ LET z == tree.node[k]
         y == IF z.left = Nil \/ z.right = Nil THEN k ELSE Leftmost(tree, z.right)
         x == IF y # k \/ z.left = Nil THEN tree.node[y].right ELSE z.left
         t1 == IF y = z.right THEN Parented(tree, x, y)
               ELSE Parented([Transplant(tree, y, x) EXCEPT !.node[y].right = z.right], z.right, y)
         t2 == IF y = k THEN Transplant(tree, k, x)
               ELSE Painted(Parented([Transplant(t1, k, y) EXCEPT !.node[y].left = z.left],
                                     z.left, y), y, z.red)
         fixing == ~tree.node[y].red
     IN /\ tree' = [root |-> t2.root, node |-> [n \in Nodes(tree) \ {k} |-> t2.node[n]]]
        /\ op' = IF fixing THEN "fix_delete" ELSE "idle"
        /\ at' = IF fixing THEN x ELSE Nil
        /\ skipped' = (t2.root # Nil /\ (skipped \/ (fixing /\ x = Nil)))
  /\ UNCHANGED answer

Fixing == op = "fix_delete" /\ at \notin {tree.root, Nil} /\ ~IsRed(tree, at)

Sibling(t, x) == LET p == t.node[x].parent IN t.node[p][Other(Side(t, x))]

\* A red sibling of x is turned up above the parent, and x gets a black one.
SiblingUp(t, x) ==
  LET p == t.node[x].parent
      w == Sibling(t, x)
  IN IF IsRed(t, w) THEN Rotate(Painted(Painted(t, w, FALSE), p, TRUE), p, Side(t, x)) ELSE t

\* Where the outer child of the sibling is not red, the inner one, which is, is
\* turned up above the sibling.
NephewOut(t, x) ==
  LET w == Sibling(t, x)
      s == Side(t, x)
  IN IF IsRed(t, t.node[w][Other(s)]) THEN t
     ELSE Rotate(Painted(Painted(t, t.node[w][s], FALSE), w, TRUE), w, Other(s))

\* The sibling takes the place and the colour of the parent, which goes down to x.
ParentDown(t, x) ==
  LET p == t.node[x].parent
      w == Sibling(t, x)
      s == Side(t, x)
      t1 == Painted(Painted(t, w, t.node[p].red), p, FALSE)
  IN Rotate(Painted(t1, t.node[w][Other(s)], FALSE), p, s)

\* One pass of fix_delete: x = at is short of a black node; where there is no
\* sibling the loop is left.
FixDelete ==
  /\ Fixing
  /\ LET t1 == SiblingUp(tree, at)
         w0 == Sibling(tree, at)
         w1 == Sibling(t1, at)
     IN \/ /\ w0 = Nil \/ w1 = Nil
           /\ tree' = Painted(t1, at, FALSE)
           /\ op' = "idle" /\ at' = Nil
        \/ /\ w0 # Nil /\ w1 # Nil
           /\ ~IsRed(t1, t1.node[w1].left) /\ ~IsRed(t1, t1.node[w1].right)
           /\ tree' = Painted(t1, w1, TRUE)
           /\ at' = tree.node[at].parent
           /\ UNCHANGED op
        \/ /\ w0 # Nil /\ w1 # Nil
           /\ IsRed(t1, t1.node[w1].left) \/ IsRed(t1, t1.node[w1].right)
           /\ tree' = ParentDown(NephewOut(t1, at), at)
           /\ at' = tree'.root
           /\ UNCHANGED op
  /\ UNCHANGED <<answer, skipped>>

\* Faulty variant: the node that has taken the place is not painted.
FixDeleteLeft ==
  /\ op = "fix_delete" /\ ~Fixing
  /\ op' = "idle" /\ at' = Nil
  /\ UNCHANGED <<tree, answer, skipped>>

FixDeleteDone ==
  /\ op = "fix_delete" /\ ~Fixing
  /\ tree' = Painted(tree, at, FALSE)
  /\ op' = "idle" /\ at' = Nil
  /\ UNCHANGED <<answer, skipped>>

-----------------------------------------------------------------------------
TreeNext ==
  \/ \E k \in Keys : FindKey(k) \/ DeleteKey(k)
  \/ \E k \in Keys, v \in Values : InsertAgain(k, v) \/ InsertNode(k, v)
  \/ FixInsert \/ FixInsertDone
  \/ FixDelete \/ FixDeleteDone

TreeSpec == TreeInit /\ [][TreeNext]_treeVars

-----------------------------------------------------------------------------
(* The iterator of fina_network *)

\* map_iterator_begin
IterBegin(t) == IF t.root = Nil THEN Nil ELSE Leftmost(t, t.root)

\* Faulty variant: without a right subtree, the parent is next.
NextUpOnce(t, n) ==
  IF t.node[n].right # Nil THEN Leftmost(t, t.node[n].right) ELSE t.node[n].parent

\* map_iterator_next: down the right subtree, or up to the first node that is
\* reached from the left.
IterNext(t, n) ==
  LET up[d \in 0 .. Cardinality(Nodes(t))] ==
        IF d = 0 THEN n
        ELSE LET p == up[d - 1] IN
             IF t.node[p].parent # Nil /\ p = t.node[t.node[p].parent].right
             THEN t.node[p].parent ELSE p
  IN IF t.node[n].right # Nil THEN Leftmost(t, t.node[n].right)
     ELSE t.node[up[Cardinality(Nodes(t))]].parent

-----------------------------------------------------------------------------
(* Properties *)

\* Types, and the links of the tree after every pass: the root has no parent, and
\* every other node is the child of its parent on just one side.  No pass follows
\* a NULL.  (left_rotate, right_rotate, transplant, map_delete)
TreeLinked ==
  /\ op \in {"idle", "fix_insert", "fix_delete"}
  /\ tree.root \in Nodes(tree) \cup {Nil}
  /\ at \in Nodes(tree) \cup {Nil}
  /\ skipped \in BOOLEAN /\ answer \in Values \cup {Nil}
  /\ Nodes(tree) \subseteq Keys
  /\ \A n \in Nodes(tree) :
       LET p == tree.node[n].parent IN
       /\ p = Nil <=> n = tree.root
       /\ tree.node[n].red \in BOOLEAN /\ tree.node[n].value \in Values
       /\ {tree.node[n].left, tree.node[n].right, p} \subseteq Nodes(tree) \cup {Nil}
       /\ p # Nil => (n = tree.node[p].left) # (n = tree.node[p].right)

\* Between operations the root is black and no red node has a red child, though
\* fix_delete leaves its work undone where a NULL takes the deleted node's place.
NoRedPair ==
  op = "idle" =>
    /\ ~IsRed(tree, tree.root)
    /\ \A n \in Nodes(tree) : IsRed(tree, n) => ~IsRed(tree, tree.node[n].parent)

\* At any time, also between two passes, the iterator starts at the least key and
\* goes from each key to the next larger one, until there is none.
IterationInOrder ==
  /\ tree.root # Nil => IterBegin(tree) = Min(Nodes(tree))
  /\ \A n \in Nodes(tree) :
       LET larger == {m \in Nodes(tree) : m > n}
       IN IterNext(tree, n) = IF larger = {} THEN Nil ELSE Min(larger)

\* How many black nodes a walk down from the root to n meets.
BlackDepth(t, n) ==
  LET up[d \in 0 .. Cardinality(Nodes(t))] ==
        IF d = 0 THEN <<n, 0>>
        ELSE LET c == up[d - 1] IN
             IF c[1] = Nil THEN c
             ELSE <<t.node[c[1]].parent, c[2] + IF t.node[c[1]].red THEN 0 ELSE 1>>
  IN up[Cardinality(Nodes(t))][2]

\* Between operations every way down to a missing child meets the same number of
\* black nodes, as long as no black node without children has been deleted: for
\* such a node fix_delete gets NULL and returns without doing anything.
HeightsAgree ==
  op = "idle" /\ ~skipped =>
    LET ends == {n \in Nodes(tree) : tree.node[n].left = Nil \/ tree.node[n].right = Nil}
    IN \A m, n \in ends : BlackDepth(tree, m) = BlackDepth(tree, n)

\* What is left of a red-black tree after any series of insertions and deletions,
\* and at every pass of a repair: sound links, no two red nodes in a row, and
\* balance up to the deletion fix_delete does not repair.
IsRedBlack == TreeLinked /\ NoRedPair /\ HeightsAgree

\* The tree is a map: what map_find returns, and could return at any moment, is
\* what map_insert put last and map_delete has not taken out since.
Map == INSTANCE KeyMap
  WITH dict <- [k \in Keys |-> IF Search(tree, k).at = k THEN tree.node[k].value ELSE Nil]

ImplementsMap == Map!Spec

=============================================================================
