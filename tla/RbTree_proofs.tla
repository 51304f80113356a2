--------------------------- MODULE RbTree_proofs ---------------------------
(***************************************************************************)
(* The red-black tree (RbTree), for any set of integer keys and any        *)
(* values: IterationInOrder, IsRedBlack and ImplementsMap hold of every    *)
(* history of insertions, lookups and deletions, and at each pass of a     *)
(* repair.                                                                 *)
(*                                                                         *)
(* TreeIInv is inductive.  Sound gives each node the set of the keys below *)
(* it, so that the order of the search, the absence of cycles and the      *)
(* links both ways are facts about one node and its two children; Placed   *)
(* says where the loops of fix_insert and fix_delete are, Coloured where   *)
(* two red nodes may meet while one of them runs, and Even that there is a *)
(* black height for each node, if the node fix_delete has come to counts   *)
(* one more than it should.                                                *)
(*                                                                         *)
(* A walk (Search, Leftmost, IterNext, BlackDepth) has a bounded number of *)
(* steps and is followed by a set of the steps it is right at (UpTo); that *)
(* a fact holds of all that is below a node is proved by descent, for the  *)
(* number of keys below falls with each step down (Descent).  An operation *)
(* is a lemma about the tree it starts from and the tree it makes:         *)
(* Transplant, Rotate and the painting are described link by link, what    *)
(* they keep of the order, the pairs of red nodes and the heights is       *)
(* proved once, and each pass is put together from them.                   *)
(***************************************************************************)
EXTENDS RbTree, FiniteSetTheorems, WellFoundedInduction, TLAPS

-----------------------------------------------------------------------------
(* RbTree: the shape of the tree.  Its fields are read through Kid, Up, Red  *)
(* and Value, so that what a pass does to the tree is said once, field by    *)
(* field, and everything else follows from that.                             *)

Sides == {"left", "right"}
Kid(t, n, s) == t.node[n][s]
Up(t, n) == t.node[n].parent
Red(t, n) == t.node[n].red
Value(t, n) == t.node[n].value

Node == [red : BOOLEAN, value : Values, left : Keys \cup {Nil}, right : Keys \cup {Nil},
         parent : Keys \cup {Nil}]

TypedTree(t, N) ==
  /\ N \subseteq Keys
  /\ t \in [root : Keys \cup {Nil}, node : [N -> Node]]

\* Down and up again, up and down again.
Links(t) ==
  /\ t.root \in Nodes(t) \cup {Nil}
  /\ t.root # Nil => Up(t, t.root) = Nil
  /\ \A n \in Nodes(t), s \in Sides :
       /\ Kid(t, n, s) \in Nodes(t) \cup {Nil}
       /\ Kid(t, n, s) # Nil => Up(t, Kid(t, n, s)) = n
  /\ \A n \in Nodes(t) : n # t.root =>
       Up(t, n) \in Nodes(t) /\ \E s \in Sides : Kid(t, Up(t, n), s) = n

\* The keys of the subtree on side s of n, when S[m] are those at m and below.
Inside(t, S, n, s, m) == Kid(t, n, s) # Nil /\ m \in S[Kid(t, n, s)]
Beyond(s, n, m) == IF s = "left" THEN m < n ELSE n < m

Under(t, S) ==
  /\ S \in [Nodes(t) -> SUBSET Nodes(t)]
  /\ \A n, m \in Nodes(t) : m \in S[n] <=> m = n \/ \E s \in Sides : Inside(t, S, n, s, m)
  /\ \A n, m \in Nodes(t), s \in Sides : Inside(t, S, n, s, m) => Beyond(s, n, m)
  /\ IF t.root = Nil THEN Nodes(t) = {} ELSE S[t.root] = Nodes(t)

Shape(t, S) == TypedTree(t, Nodes(t)) /\ IsFiniteSet(Nodes(t)) /\ Links(t) /\ Under(t, S)

Shaped(t) == \E S \in [Nodes(t) -> SUBSET Nodes(t)] : Shape(t, S)
Sound == Shaped(tree)

\* Where the loops are.
Placed ==
  /\ op \in {"idle", "fix_insert", "fix_delete"}
  /\ at \in Nodes(tree) \cup {Nil}
  /\ op = "fix_insert" => at # Nil
  /\ skipped \in BOOLEAN /\ answer \in Values \cup {Nil}

\* Two red nodes in a row there are only where a loop is at work, and a red root
\* only when the loop has come to it.
Pair(t, n) == IsRed(t, n) /\ IsRed(t, Up(t, n))

Coloured ==
  /\ \A n \in Nodes(tree) :
       Pair(tree, n) =>
         CASE op = "fix_insert" -> n = at
           [] op = "fix_delete" -> at \in {n, Up(tree, n)} /\ IsRed(tree, at)
           [] OTHER -> FALSE
  /\ IsRed(tree, tree.root) => tree.root = at /\ op # "idle"
  /\ op = "fix_insert" => IsRed(tree, at)

\* The black nodes on a way down from a missing child's side.
Weight(t, h, extra, c) ==
  IF c = Nil THEN 0 ELSE h[c] + (IF Red(t, c) THEN 0 ELSE 1) + (IF c = extra THEN 1 ELSE 0)

Balanced(t, h, extra) ==
  /\ h \in [Nodes(t) -> Nat]
  /\ \A n \in Nodes(t), s \in Sides : Weight(t, h, extra, Kid(t, n, s)) = h[n]

Short == IF op = "fix_delete" THEN at ELSE Nil

Even == ~skipped => \E h \in [Nodes(tree) -> Nat] : Balanced(tree, h, Short)

TreeIInv == Sound /\ Placed /\ Coloured /\ Even

-----------------------------------------------------------------------------
(* Walks of a bounded number of steps. *)

LEMMA LeastThereIs ==
  ASSUME NEW S \in SUBSET Nat, NEW n \in S
  PROVE  Min(S) \in S /\ \A i \in S : Min(S) <= i
<1>1. \E m \in S : \A i \in S : ~(i < m)
  <2>1. \A i, j \in Nat : <<i, j>> \in OpToRel(<, Nat) <=> i < j
    BY DEF OpToRel
  <2>2. \E m \in S : \A i \in S : <<i, m>> \notin OpToRel(<, Nat)
    BY NatLessThanWellFounded, WFMin, Zenon
  <2>. QED BY <2>1, <2>2
<1>2. \E m \in S : \A i \in S : m <= i
  BY <1>1
<1>. QED BY <1>2 DEF Min

\* What holds at 0 and passes on from each number to the next holds up to N.
Inductive(P, N) == 0 \in P /\ \A i \in 1 .. N : i - 1 \in P => i \in P

LEMMA UpTo == ASSUME NEW N \in Nat, NEW P, Inductive(P, N) PROVE 0 .. N \subseteq P
<1> DEFINE Out == {i \in 0 .. N : i \notin P}
<1>1. ASSUME NEW n \in Out PROVE FALSE
  <2> DEFINE m == Min(Out)
  <2>1. Out \in SUBSET Nat
    OBVIOUS
  <2>2. m \in Out /\ \A i \in Out : m <= i
    <3>. HIDE DEF Out
    <3>. QED BY <1>1, <2>1, LeastThereIs
  <2>. HIDE DEF m
  <2>3. m \in 0 .. N /\ m \notin P /\ \A i \in Out : m <= i
    BY <2>2
  <2>4. m # 0
    BY <2>3 DEF Inductive
  <2>5. m - 1 \in 0 .. N /\ m \in 1 .. N
    BY <2>3, <2>4
  <2>6. m - 1 \in P
    BY <2>3, <2>5
  <2>. QED BY <2>3, <2>5, <2>6 DEF Inductive
<1>. QED BY <1>1

\* A walk begins with a and goes on by the steps given.
Walk(f, N, a, step) == f[0] = a /\ \A i \in 1 .. N : f[i] = step[f[i - 1]]

LEMMA WalkIs ==
  ASSUME NEW X, NEW N \in Nat, NEW a \in X, NEW step \in [X -> X]
  PROVE  \E f \in [0 .. N -> X] : Walk(f, N, a, step)
<1> DEFINE P == {n \in 0 .. N : \E f \in [0 .. n -> X] : Walk(f, n, a, step)}
<1>1. 0 \in P
  <2> DEFINE f == [i \in 0 .. 0 |-> a]
  <2>1. f \in [0 .. 0 -> X] /\ Walk(f, 0, a, step)
    BY DEF Walk
  <2>. QED BY <2>1
<1>2. ASSUME NEW i \in 1 .. N, i - 1 \in P PROVE i \in P
  <2>1. PICK g \in [0 .. i - 1 -> X] : Walk(g, i - 1, a, step)
    BY <1>2
  <2> DEFINE f == [j \in 0 .. i |-> IF j = i THEN step[g[i - 1]] ELSE g[j]]
  <2>2. g[i - 1] \in X /\ step[g[i - 1]] \in X
    BY <2>1
  <2>3. f \in [0 .. i -> X] /\ f[0] = a
    BY <2>1, <2>2 DEF Walk
  <2>4. ASSUME NEW j \in 1 .. i PROVE f[j] = step[f[j - 1]]
    <3>1. f[j - 1] = g[j - 1]
      OBVIOUS
    <3>2. CASE j = i
      BY <3>1, <3>2
    <3>3. CASE j # i
      BY <2>1, <3>1, <3>3 DEF Walk
    <3>. QED BY <3>2, <3>3
  <2>. HIDE DEF f
  <2>5. Walk(f, i, a, step)
    BY <2>3, <2>4 DEF Walk
  <2>. QED BY <2>3, <2>5
<1>3. N \in P
  <2>. HIDE DEF P
  <2>1. Inductive(P, N)
    BY <1>1, <1>2 DEF Inductive
  <2>2. 0 .. N \subseteq P
    BY <2>1, UpTo
  <2>. QED BY <2>2
<1>. QED BY <1>3

-----------------------------------------------------------------------------
(* RbTree: what the operations on pointers do, field by field. *)

LEMMA TypedIs ==
  ASSUME NEW N, NEW t, TypedTree(t, N)
  PROVE  /\ Nodes(t) = N /\ t.root \in Keys \cup {Nil}
         /\ \A n \in N : /\ Up(t, n) \in Keys \cup {Nil} /\ Red(t, n) \in BOOLEAN
                         /\ Value(t, n) \in Values
                         /\ \A s \in Sides : Kid(t, n, s) \in Keys \cup {Nil}
<1>1. t.node \in [N -> Node] /\ t.root \in Keys \cup {Nil}
  BY DEF TypedTree
<1>2. \A n \in N : t.node[n] \in Node
  BY <1>1
<1>. QED BY <1>1, <1>2 DEF Nodes, Up, Red, Value, Kid, Sides, Node

LEMMA SidesAre ==
  /\ Sides = {"left", "right"} /\ \A s \in Sides : Other(s) \in Sides /\ Other(s) # s
  /\ \A s \in Sides : Other(Other(s)) = s /\ \A q \in Sides : q = s \/ q = Other(s)
BY DEF Sides, Other

LEMMA NilIsNoKey == ASSUME NEW t, NEW N, TypedTree(t, N) PROVE Nil \notin N
BY TreeAssumption DEF TypedTree

\* r is t with new links: they are given as functions.
Relinked(t, r, N) ==
  /\ TypedTree(r, N)
  /\ \A n \in N : Red(r, n) = Red(t, n) /\ Value(r, n) = Value(t, n)

LEMMA SetParent ==
  ASSUME NEW N, NEW t, TypedTree(t, N), NEW v \in N, NEW p \in Keys \cup {Nil},
         NEW r, r = [t EXCEPT !.node[v].parent = p]
  PROVE  /\ Relinked(t, r, N) /\ r.root = t.root
         /\ \A n \in N : /\ Up(r, n) = IF n = v THEN p ELSE Up(t, n)
                         /\ \A s \in Sides : Kid(r, n, s) = Kid(t, n, s)
<1>1. t \in [root : Keys \cup {Nil}, node : [N -> Node]] /\ N \subseteq Keys
  BY DEF TypedTree
<1>2. t.node \in [N -> Node] /\ \A n \in N : t.node[n] \in Node
  BY <1>1
<1>3. [t.node[v] EXCEPT !.parent = p] \in Node
  BY <1>2 DEF Node
<1>4. r.root = t.root /\ r.node = [t.node EXCEPT ![v] = [t.node[v] EXCEPT !.parent = p]]
  BY <1>1
<1>5. r.node \in [N -> Node]
  BY <1>2, <1>3, <1>4
<1>6. r \in [root : Keys \cup {Nil}, node : [N -> Node]]
  BY <1>1, <1>5
<1>7. \A n \in N : r.node[n] = IF n = v THEN [t.node[v] EXCEPT !.parent = p] ELSE t.node[n]
  BY <1>2, <1>4
<1>8. TypedTree(r, N)
  BY <1>1, <1>6 DEF TypedTree
<1>. QED BY <1>2, <1>4, <1>7, <1>8 DEF Relinked, Up, Kid, Red, Value, Sides, Node

LEMMA SetKid ==
  ASSUME NEW N, NEW t, TypedTree(t, N), NEW v \in N, NEW s \in Sides, NEW c \in Keys \cup {Nil},
         NEW r, r = [t EXCEPT !.node[v][s] = c]
  PROVE  /\ Relinked(t, r, N) /\ r.root = t.root
         /\ \A n \in N : /\ Up(r, n) = Up(t, n)
                         /\ \A q \in Sides : Kid(r, n, q) = IF n = v /\ q = s THEN c ELSE Kid(t, n, q)
<1>1. t \in [root : Keys \cup {Nil}, node : [N -> Node]] /\ N \subseteq Keys
  BY DEF TypedTree
<1>2. t.node \in [N -> Node] /\ \A n \in N : t.node[n] \in Node
  BY <1>1
<1>3. [t.node[v] EXCEPT ![s] = c] \in Node
  <2>1. CASE s = "left"
    BY <1>2, <2>1 DEF Node
  <2>2. CASE s = "right"
    BY <1>2, <2>2 DEF Node
  <2>. QED BY <2>1, <2>2 DEF Sides
<1>4. r.root = t.root /\ r.node = [t.node EXCEPT ![v] = [t.node[v] EXCEPT ![s] = c]]
  BY <1>1
<1>5. r.node \in [N -> Node]
  BY <1>2, <1>3, <1>4
<1>6. r \in [root : Keys \cup {Nil}, node : [N -> Node]]
  BY <1>1, <1>5
<1>7. \A n \in N : r.node[n] = IF n = v THEN [t.node[v] EXCEPT ![s] = c] ELSE t.node[n]
  BY <1>2, <1>4
<1>8. TypedTree(r, N)
  BY <1>1, <1>6 DEF TypedTree
<1>9. /\ \A n \in N : n # v => r.node[n] = t.node[n]
      /\ r.node[v].red = t.node[v].red /\ r.node[v].value = t.node[v].value
      /\ r.node[v].parent = t.node[v].parent
      /\ \A q \in Sides : r.node[v][q] = IF q = s THEN c ELSE t.node[v][q]
  BY <1>2, <1>7 DEF Node, Sides
<1>. QED BY <1>4, <1>8, <1>9 DEF Relinked, Up, Kid, Red, Value

LEMMA SetRoot ==
  ASSUME NEW N, NEW t, TypedTree(t, N), NEW v \in Keys \cup {Nil}, NEW r, r = [t EXCEPT !.root = v]
  PROVE  /\ Relinked(t, r, N) /\ r.root = v
         /\ \A n \in N : /\ Up(r, n) = Up(t, n)
                         /\ \A q \in Sides : Kid(r, n, q) = Kid(t, n, q)
<1>1. t \in [root : Keys \cup {Nil}, node : [N -> Node]] /\ N \subseteq Keys
  BY DEF TypedTree
<1>2. r.root = v /\ r.node = t.node /\ r \in [root : Keys \cup {Nil}, node : [N -> Node]]
  BY <1>1
<1>. QED BY <1>1, <1>2 DEF TypedTree, Relinked, Up, Kid, Red, Value

LEMMA PaintedCases ==
  ASSUME NEW t, NEW v, NEW b
  PROVE  /\ v = Nil => Painted(t, v, b) = t
         /\ v # Nil => Painted(t, v, b) = [t EXCEPT !.node[v].red = b]
<1>1. Painted(t, v, b) = IF v = Nil THEN t ELSE [t EXCEPT !.node[v].red = b]
  BY Zenon DEF Painted
<1> DEFINE painted == [t EXCEPT !.node[v].red = b]
<1>2. Painted(t, v, b) = IF v = Nil THEN t ELSE painted
  BY <1>1
<1>. HIDE DEF painted
<1>3. /\ v = Nil => Painted(t, v, b) = t
      /\ v # Nil => Painted(t, v, b) = painted
  BY <1>2
<1>. QED BY <1>3 DEF painted

LEMMA PaintedIs ==
  ASSUME NEW N, NEW t, TypedTree(t, N), NEW v \in N \cup {Nil}, NEW b \in BOOLEAN,
         NEW r, r = Painted(t, v, b)
  PROVE  /\ TypedTree(r, N) /\ r.root = t.root
         /\ v # Nil => Red(r, v) = b
         /\ \A n \in N : /\ Up(r, n) = Up(t, n) /\ Value(r, n) = Value(t, n)
                         /\ n # v => Red(r, n) = Red(t, n)
                         /\ \A s \in Sides : Kid(r, n, s) = Kid(t, n, s)
<1>1. v = Nil => r = t
  BY PaintedCases
<1>2. v # Nil => r = [t EXCEPT !.node[v].red = b]
  BY PaintedCases
<1>a. CASE v = Nil
  BY <1>a, <1>1, NilIsNoKey
<1>b. CASE v # Nil
  <2>0. v \in N /\ r = [t EXCEPT !.node[v].red = b]
    BY <1>b, <1>2
  <2>1. t \in [root : Keys \cup {Nil}, node : [N -> Node]] /\ N \subseteq Keys
    BY DEF TypedTree
  <2>2. t.node \in [N -> Node] /\ \A n \in N : t.node[n] \in Node
    BY <2>1
  <2>3. [t.node[v] EXCEPT !.red = b] \in Node
    BY <2>0, <2>2 DEF Node
  <2>4. r.root = t.root /\ r.node = [t.node EXCEPT ![v] = [t.node[v] EXCEPT !.red = b]]
    BY <2>0, <2>1
  <2>5. r.node \in [N -> Node]
    BY <2>0, <2>2, <2>3, <2>4
  <2>6. r \in [root : Keys \cup {Nil}, node : [N -> Node]]
    BY <2>0, <2>1, <2>5
  <2>7. \A n \in N : r.node[n] = IF n = v THEN [t.node[v] EXCEPT !.red = b] ELSE t.node[n]
    BY <2>0, <2>2, <2>4
  <2>8. TypedTree(r, N)
    BY <2>1, <2>6 DEF TypedTree
  <2>9. /\ r.root = t.root /\ Red(r, v) = b
        /\ \A n \in N : /\ Up(r, n) = Up(t, n) /\ Value(r, n) = Value(t, n)
                        /\ n # v => Red(r, n) = Red(t, n)
                        /\ \A s \in Sides : Kid(r, n, s) = Kid(t, n, s)
    BY <2>0, <2>2, <2>4, <2>7 DEF Up, Kid, Red, Value, Sides, Node
  <2>. QED BY <2>8, <2>9
<1>. QED BY <1>a, <1>b

\* What is below a node: its children, and all that is below them.
IsKid(t, S, n, s, c) ==
  /\ c \in Nodes(t) /\ Up(t, c) = n /\ c # n /\ c # Kid(t, n, Other(s))
  /\ c \in S[c] /\ c \in S[n] /\ n \in S[n] /\ n \notin S[c]
  /\ S[c] \in SUBSET S[n] /\ S[c] # S[n]
  /\ \A q \in Sides : Kid(t, c, q) # n /\ Kid(t, c, q) # c

LEMMA KidsAre ==
  ASSUME NEW t, NEW S, Shape(t, S), NEW n \in Nodes(t), NEW s \in Sides, Kid(t, n, s) # Nil
  PROVE  IsKid(t, S, n, s, Kid(t, n, s))
<1> DEFINE c == Kid(t, n, s)
<1>0. Nodes(t) \subseteq Int
  BY TreeAssumption DEF Shape, TypedTree
<1>1. c \in Nodes(t) /\ Up(t, c) = n
  BY DEF Shape, Links
<1>2. c \in S[c] /\ n \in S[n] /\ S[c] \subseteq Nodes(t)
  BY <1>1 DEF Shape, Under
<1>3. \A m \in S[c] : Inside(t, S, n, s, m) /\ m \in Nodes(t)
  BY <1>2 DEF Inside
<1>4. \A m \in S[c] : Beyond(s, n, m) /\ m \in S[n]
  BY <1>3 DEF Shape, Under
<1>5. n \notin S[c]
  BY <1>0, <1>4 DEF Beyond
<1>6. c # Kid(t, n, Other(s))
  <2> SUFFICES ASSUME c = Kid(t, n, Other(s)) PROVE FALSE
    OBVIOUS
  <2>1. Inside(t, S, n, Other(s), c) /\ Inside(t, S, n, s, c)
    BY <1>2 DEF Inside
  <2>2. Beyond(s, n, c) /\ Beyond(Other(s), n, c)
    BY <1>1, <2>1, SidesAre DEF Shape, Under
  <2>. QED BY <1>0, <1>1, <2>2, SidesAre DEF Beyond, Sides, Other
<1>7. ASSUME NEW q \in Sides, Kid(t, c, q) # Nil PROVE Kid(t, c, q) \in S[c] /\ Kid(t, c, q) # c
  <2>1. Kid(t, c, q) \in Nodes(t) /\ Up(t, Kid(t, c, q)) = c
    BY <1>1, <1>7 DEF Shape, Links
  <2>2. Kid(t, c, q) \in S[Kid(t, c, q)]
    BY <2>1 DEF Shape, Under
  <2>3. Inside(t, S, c, q, Kid(t, c, q))
    BY <1>7, <2>2 DEF Inside
  <2>4. Kid(t, c, q) \in S[c] /\ Beyond(q, c, Kid(t, c, q))
    BY <1>1, <2>1, <2>3 DEF Shape, Under
  <2>. QED BY <1>0, <1>1, <2>1, <2>4 DEF Beyond
<1>8. c # Nil /\ n # Nil
  BY <1>1, NilIsNoKey DEF Shape
<1>. HIDE DEF c
<1>9. c # n /\ S[c] # S[n] /\ S[c] \in SUBSET S[n] /\ c \in S[n]
  BY <1>2, <1>4, <1>5
<1>10. \A q \in Sides : Kid(t, c, q) # n /\ Kid(t, c, q) # c
  BY <1>5, <1>7, <1>8
<1>. QED BY <1>1, <1>2, <1>5, <1>6, <1>9, <1>10 DEF c, IsKid

LEMMA RootIs ==
  ASSUME NEW t, NEW S, Shape(t, S), NEW n \in Nodes(t)
  PROVE  /\ n # Nil /\ t.root \in Nodes(t) /\ t.root # Nil
         /\ n = t.root <=> Up(t, n) = Nil
         /\ n # t.root => Up(t, n) \in Nodes(t) /\ \E s \in Sides : Kid(t, Up(t, n), s) = n
         /\ Up(t, n) \in Nodes(t) \cup {Nil} /\ Up(t, n) # n
         /\ \A m \in Nodes(t), s \in Sides : Kid(t, m, s) # t.root
<1>1. n # Nil /\ t.root \in Nodes(t) /\ t.root # Nil
  BY NilIsNoKey DEF Shape, Under, Links
<1>2. Nil \notin Nodes(t)
  BY NilIsNoKey DEF Shape
<1>3. n = t.root <=> Up(t, n) = Nil
  BY <1>1, <1>2 DEF Shape, Links
<1>4. n # t.root => Up(t, n) \in Nodes(t) /\ \E s \in Sides : Kid(t, Up(t, n), s) = n
  BY DEF Shape, Links
<1>5. \A m \in Nodes(t), s \in Sides : Kid(t, m, s) # t.root
  BY <1>1, <1>2, <1>3 DEF Shape, Links
<1>6. Up(t, n) # n
  <2> SUFFICES ASSUME Up(t, n) = n PROVE FALSE
    OBVIOUS
  <2>1. PICK s \in Sides : Kid(t, n, s) = n
    BY <1>1, <1>3, <1>4
  <2>2. Kid(t, n, s) # n
    BY <1>1, <2>1, KidsAre DEF IsKid
  <2>. QED BY <2>1, <2>2
<1>. QED BY <1>1, <1>3, <1>4, <1>5, <1>6

\* The side Side finds is the one, and there is no other.
LEMMA SideIs ==
  ASSUME NEW t, NEW S, Shape(t, S), NEW n \in Nodes(t), n # t.root
  PROVE  /\ Side(t, n) \in Sides /\ Kid(t, Up(t, n), Side(t, n)) = n
         /\ \A m \in Nodes(t), q \in Sides : Kid(t, m, q) = n <=> m = Up(t, n) /\ q = Side(t, n)
<1>1. n # Nil /\ Up(t, n) \in Nodes(t)
  BY RootIs
<1>2. PICK s \in Sides : Kid(t, Up(t, n), s) = n
  BY RootIs
<1>3. Kid(t, Up(t, n), Other(s)) # n
  <2>1. IsKid(t, S, Up(t, n), s, n)
    BY <1>1, <1>2, KidsAre
  <2>. QED BY <2>1 DEF IsKid
<1>4. Side(t, n) = IF n = Kid(t, Up(t, n), "left") THEN "left" ELSE "right"
  BY DEF Side, Kid, Up
<1>5. Side(t, n) = s
  BY <1>2, <1>3, <1>4 DEF Sides, Other
<1>6. \A m \in Nodes(t), q \in Sides : Kid(t, m, q) = n => m = Up(t, n)
  BY <1>1 DEF Shape, Links
<1>7. \A q \in Sides : Kid(t, Up(t, n), q) = n => q = s
  BY <1>3, SidesAre
<1>. QED BY <1>1, <1>2, <1>5, <1>6, <1>7

\* r is t after transplant.
IsTransplanted(t, r, N, u, v) ==
  /\ Relinked(t, r, N)
  /\ r.root = IF Up(t, u) = Nil THEN v ELSE t.root
  /\ \A n \in N :
       /\ Up(r, n) = IF n = v THEN Up(t, u) ELSE Up(t, n)
       /\ \A q \in Sides : Kid(r, n, q) = IF n = Up(t, u) /\ q = Side(t, u) THEN v ELSE Kid(t, n, q)

LEMMA ParentedIs ==
  ASSUME NEW N, NEW t, TypedTree(t, N), NEW v \in N \cup {Nil}, NEW p \in Keys \cup {Nil},
         NEW r, r = Parented(t, v, p)
  PROVE  /\ Relinked(t, r, N) /\ r.root = t.root
         /\ \A n \in N : /\ Up(r, n) = IF n = v THEN p ELSE Up(t, n)
                         /\ \A s \in Sides : Kid(r, n, s) = Kid(t, n, s)
<1>1. Nil \notin N
  BY NilIsNoKey
<1>2. CASE v = Nil
  <2>1. r = t
    BY <1>2 DEF Parented
  <2>. QED BY <1>1, <1>2, <2>1 DEF Relinked
<1>3. CASE v # Nil
  <2>1. v \in N /\ r = [t EXCEPT !.node[v].parent = p]
    BY <1>3 DEF Parented
  <2>. QED BY <2>1, SetParent
<1>. QED BY <1>2, <1>3

LEMMA TransplantIs ==
  ASSUME NEW N, NEW t, TypedTree(t, N), NEW u \in N, NEW v \in N \cup {Nil},
         Up(t, u) \in N \cup {Nil}, Side(t, u) \in Sides, NEW r, r = Transplant(t, u, v)
  PROVE  IsTransplanted(t, r, N, u, v)
<1> DEFINE p == Up(t, u)
           m == IF p = Nil THEN [t EXCEPT !.root = v] ELSE [t EXCEPT !.node[p][Side(t, u)] = v]
<1>1. Nil \notin N /\ N \subseteq Keys
  BY NilIsNoKey DEF TypedTree
<1>2. r = Parented(m, v, p)
  BY DEF Transplant, Up
<1>3. /\ Relinked(t, m, N) /\ m.root = IF p = Nil THEN v ELSE t.root
      /\ \A n \in N : /\ Up(m, n) = Up(t, n)
                      /\ \A q \in Sides : Kid(m, n, q) = IF n = p /\ q = Side(t, u) THEN v ELSE Kid(t, n, q)
  <2>1. CASE p = Nil
    <3>1. m = [t EXCEPT !.root = v]
      BY <2>1
    <3>. HIDE DEF m
    <3>. QED BY <1>1, <2>1, <3>1, SetRoot
  <2>2. CASE p # Nil
    <3>1. m = [t EXCEPT !.node[p][Side(t, u)] = v]
      BY <2>2
    <3>. HIDE DEF m
    <3>. QED BY <1>1, <2>2, <3>1, SetKid
  <2>. QED BY <2>1, <2>2
<1>. HIDE DEF m
<1>4. /\ Relinked(m, r, N) /\ r.root = m.root
      /\ \A n \in N : /\ Up(r, n) = IF n = v THEN p ELSE Up(m, n)
                      /\ \A q \in Sides : Kid(r, n, q) = Kid(m, n, q)
  <2>1. TypedTree(m, N) /\ p \in Keys \cup {Nil}
    BY <1>1, <1>3 DEF Relinked
  <2>. QED BY <1>2, <2>1, ParentedIs
<1>. QED BY <1>3, <1>4 DEF IsTransplanted, Relinked

\* r is t after a rotation.
IsRotated(t, r, N, x, s) ==
  LET y == Kid(t, x, Other(s))
      b == Kid(t, y, s)
  IN /\ Relinked(t, r, N)
     /\ r.root = IF x = t.root THEN y ELSE t.root
     /\ \A n \in N :
          /\ Up(r, n) = IF n = x THEN y ELSE IF n = y THEN Up(t, x) ELSE IF n = b THEN x ELSE Up(t, n)
          /\ \A q \in Sides : Kid(r, n, q) = IF n = x /\ q = Other(s) THEN b
                                             ELSE IF n = y /\ q = s THEN x
                                             ELSE IF Kid(t, n, q) = x THEN y ELSE Kid(t, n, q)

LEMMA RotateIs ==
  ASSUME NEW t, NEW S, Shape(t, S), NEW x \in Nodes(t), NEW s \in Sides,
         Kid(t, x, Other(s)) # Nil, NEW r, r = Rotate(t, x, s)
  PROVE  IsRotated(t, r, Nodes(t), x, s)
<1> DEFINE N == Nodes(t)
           o == Other(s)
           y == Kid(t, x, o)
           b == Kid(t, y, s)
           p == Up(t, x)
           t1 == [t EXCEPT !.node[x][o] = b]
           t2 == Parented(t1, b, x)
           t3 == Transplant(t2, x, y)
           t4 == [t3 EXCEPT !.node[y][s] = x]
<1>1. r = [t4 EXCEPT !.node[x].parent = y]
  BY Zenon DEF Rotate, Kid
<1>2. /\ o \in Sides /\ Other(o) = s /\ o # s
      /\ TypedTree(t, N) /\ Nil \notin N /\ N \subseteq Keys
  BY SidesAre, NilIsNoKey DEF Shape, TypedTree
<1>3. /\ y \in N /\ y # x /\ Up(t, y) = x /\ y # Nil
      /\ b \in N \cup {Nil} /\ b # x /\ b # y /\ (b # Nil => Up(t, b) = y)
  <2>1. y \in N /\ y # x /\ Up(t, y) = x /\ b # x /\ b # y
    <3>1. IsKid(t, S, x, o, y)
      BY <1>2, KidsAre
    <3>. QED BY <3>1 DEF IsKid
  <2>. HIDE DEF y
  <2>2. b \in N \cup {Nil} /\ (b # Nil => Up(t, b) = y)
    BY <2>1 DEF Shape, Links
  <2>. QED BY <1>2, <2>1, <2>2
<1>4. p \in N \cup {Nil} /\ p # x /\ (x = t.root <=> p = Nil) /\ p # y
  <2>1. \A q \in Sides : Kid(t, y, q) # x
    <3>1. IsKid(t, S, x, o, y)
      BY <1>2, KidsAre
    <3>. QED BY <3>1 DEF IsKid
  <2>. QED BY <1>3, <2>1, RootIs
<1>5. Side(t2, x) \in Sides
  BY DEF Side, Sides
<1>. HIDE DEF N, o, y, b, p, t1, t2, t3, t4
<1>6. /\ Relinked(t, t1, N) /\ t1.root = t.root
      /\ \A n \in N : /\ Up(t1, n) = Up(t, n)
                      /\ \A q \in Sides : Kid(t1, n, q) = IF n = x /\ q = o THEN b ELSE Kid(t, n, q)
  <2>1. b \in Keys \cup {Nil} /\ x \in N
    BY <1>2, <1>3 DEF N
  <2>. QED BY <1>2, <2>1, SetKid DEF t1
<1>7. /\ Relinked(t1, t2, N) /\ t2.root = t1.root
      /\ \A n \in N : /\ Up(t2, n) = IF n = b THEN x ELSE Up(t1, n)
                      /\ \A q \in Sides : Kid(t2, n, q) = Kid(t1, n, q)
  <2>1. x \in Keys \cup {Nil} /\ x \in N /\ b \in N \cup {Nil} /\ TypedTree(t1, N)
    BY <1>2, <1>3, <1>6 DEF N, Relinked
  <2>. QED BY <2>1, ParentedIs DEF t2
<1>8. x \in N /\ Up(t2, x) = p
  BY <1>3, <1>6, <1>7 DEF N, p
<1>9. p # Nil => Side(t2, x) = Side(t, x)
  <2> SUFFICES ASSUME p # Nil PROVE Side(t2, x) = Side(t, x)
    OBVIOUS
  <2>1. p \in N /\ "left" \in Sides
    BY <1>4 DEF Sides
  <2>2. Kid(t2, p, "left") = Kid(t, p, "left")
    BY <1>4, <1>6, <1>7, <2>1
  <2>3. Side(t2, x) = IF x = Kid(t2, Up(t2, x), "left") THEN "left" ELSE "right"
    BY DEF Side, Kid, Up
  <2>4. Side(t, x) = IF x = Kid(t, Up(t, x), "left") THEN "left" ELSE "right"
    BY DEF Side, Kid, Up
  <2>. QED BY <1>8, <2>2, <2>3, <2>4 DEF p
<1>10. IsTransplanted(t2, t3, N, x, y)
  <2>1. TypedTree(t2, N) /\ y \in N \cup {Nil} /\ Up(t2, x) \in N \cup {Nil}
    BY <1>3, <1>4, <1>7, <1>8 DEF Relinked
  <2>. QED BY <1>5, <1>8, <2>1, TransplantIs DEF t3
<1>11. /\ Relinked(t3, t4, N) /\ t4.root = t3.root
       /\ \A n \in N : /\ Up(t4, n) = Up(t3, n)
                       /\ \A q \in Sides : Kid(t4, n, q) = IF n = y /\ q = s THEN x ELSE Kid(t3, n, q)
  <2>1. x \in Keys \cup {Nil} /\ y \in N /\ TypedTree(t3, N)
    BY <1>2, <1>3, <1>8, <1>10 DEF IsTransplanted, Relinked
  <2>. QED BY <2>1, SetKid DEF t4
<1>12. /\ Relinked(t4, r, N) /\ r.root = t4.root
       /\ \A n \in N : /\ Up(r, n) = IF n = x THEN y ELSE Up(t4, n)
                       /\ \A q \in Sides : Kid(r, n, q) = Kid(t4, n, q)
  <2>1. y \in Keys \cup {Nil} /\ x \in N /\ TypedTree(t4, N)
    BY <1>2, <1>3, <1>8, <1>11 DEF Relinked
  <2>. QED BY <1>1, <2>1, SetParent
<1>13. Relinked(t, r, N)
  BY <1>6, <1>7, <1>10, <1>11, <1>12 DEF Relinked, IsTransplanted
<1>14. r.root = IF x = t.root THEN y ELSE t.root
  BY <1>4, <1>6, <1>7, <1>8, <1>10, <1>11, <1>12 DEF IsTransplanted
<1>15. ASSUME NEW n \in N
       PROVE  Up(r, n) = IF n = x THEN y ELSE IF n = y THEN p ELSE IF n = b THEN x ELSE Up(t, n)
  BY <1>3, <1>6, <1>7, <1>8, <1>10, <1>11, <1>12 DEF IsTransplanted
<1>16. ASSUME NEW n \in N, NEW q \in Sides
       PROVE  Kid(r, n, q) = IF n = x /\ q = o THEN b ELSE IF n = y /\ q = s THEN x
                             ELSE IF Kid(t, n, q) = x THEN y ELSE Kid(t, n, q)
  <2>1. Kid(r, n, q) = IF n = y /\ q = s THEN x ELSE Kid(t3, n, q)
    BY <1>11, <1>12
  <2>2. Kid(t3, n, q) = IF n = p /\ q = Side(t2, x) THEN y ELSE Kid(t2, n, q)
    BY <1>8, <1>10 DEF IsTransplanted
  <2>3. Kid(t2, n, q) = IF n = x /\ q = o THEN b ELSE Kid(t, n, q)
    BY <1>6, <1>7
  <2>4. CASE p = Nil
    <3>1. n # p /\ Kid(t, n, q) # x
      BY <1>2, <1>4, <2>4, RootIs DEF N
    <3>. QED BY <1>3, <2>1, <2>2, <2>3, <3>1
  <2>5. CASE p # Nil
    <3>1. Kid(t, n, q) = x <=> n = p /\ q = Side(t2, x)
      BY <1>4, <1>8, <1>9, <2>5, SideIs DEF N, p
    <3>. QED BY <1>2, <1>3, <1>4, <2>1, <2>2, <2>3, <3>1
  <2>. QED BY <2>4, <2>5
<1>. QED BY <1>13, <1>14, <1>15, <1>16 DEF IsRotated, N, o, y, b, p

-----------------------------------------------------------------------------
(* RbTree: painting and turning keep the shape. *)

LEMMA PaintedShape ==
  ASSUME NEW t, NEW S, Shape(t, S), NEW r, TypedTree(r, Nodes(t)), r.root = t.root,
         \A n \in Nodes(t) : Up(r, n) = Up(t, n) /\ \A s \in Sides : Kid(r, n, s) = Kid(t, n, s)
  PROVE  Shape(r, S) /\ Nodes(r) = Nodes(t)
<1>1. Nodes(r) = Nodes(t)
  BY TypedIs
<1>2. \A n \in Nodes(t), s \in Sides : Kid(t, n, s) # Nil => Kid(t, n, s) \in Nodes(t)
  BY DEF Shape, Links
<1>3. Links(r)
  <2>1. \A n \in Nodes(t), s \in Sides :
          /\ Kid(r, n, s) \in Nodes(t) \cup {Nil}
          /\ Kid(r, n, s) # Nil => Up(r, Kid(r, n, s)) = n
    BY <1>2 DEF Shape, Links
  <2>2. \A n \in Nodes(t) : n # r.root =>
          Up(r, n) \in Nodes(t) /\ \E s \in Sides : Kid(r, Up(r, n), s) = n
    BY DEF Shape, Links
  <2>3. r.root \in Nodes(t) \cup {Nil} /\ (r.root # Nil => Up(r, r.root) = Nil)
    BY DEF Shape, Links
  <2>. QED BY <1>1, <2>1, <2>2, <2>3 DEF Links
<1>4. \A n, m \in Nodes(t), s \in Sides : Inside(r, S, n, s, m) <=> Inside(t, S, n, s, m)
  BY DEF Inside
<1>5. Under(r, S)
  BY <1>1, <1>4 DEF Shape, Under
<1>. QED BY <1>1, <1>3, <1>5 DEF Shape

TurnedUnder(t, S, x, s) ==
  LET y == Kid(t, x, Other(s))
  IN [n \in Nodes(t) |->
        IF n = y THEN S[x]
        ELSE IF n = x THEN {m \in Nodes(t) : m = x \/ Inside(t, S, x, s, m) \/ Inside(t, S, y, s, m)}
        ELSE S[n]]

LEMMA RotatedShape ==
  ASSUME NEW t, NEW S, Shape(t, S), NEW x \in Nodes(t), NEW s \in Sides,
         Kid(t, x, Other(s)) # Nil, NEW r, IsRotated(t, r, Nodes(t), x, s)
  PROVE  Shape(r, TurnedUnder(t, S, x, s)) /\ Nodes(r) = Nodes(t)
<1> DEFINE N == Nodes(t)
           o == Other(s)
           y == Kid(t, x, o)
           b == Kid(t, y, s)
           a == Kid(t, x, s)
           d == Kid(t, y, o)
           S2 == TurnedUnder(t, S, x, s)
<1>1. o \in Sides /\ o # s /\ (\A q \in Sides : q = s \/ q = o) /\ s = Other(o)
  BY SidesAre
<1>2. N \subseteq Int /\ Nil \notin N
  BY NilIsNoKey, TreeAssumption DEF Shape, TypedTree
<1>3. /\ y \in N /\ Up(t, y) = x /\ y # x /\ y # a /\ y \in S[y] /\ y \in S[x]
      /\ b # x /\ b # y /\ d # x /\ d # y /\ y # Nil
  <2>1. IsKid(t, S, x, o, y)
    BY <1>1, KidsAre
  <2>. QED BY <1>1, <1>2, <2>1 DEF IsKid
<1>4. a # x /\ a \in N \cup {Nil}
  <2>1. a # Nil => IsKid(t, S, x, s, a)
    BY KidsAre
  <2>. QED BY <1>2, <2>1 DEF IsKid
<1>5. b \in N \cup {Nil} /\ d \in N \cup {Nil}
  BY <1>1, <1>3 DEF Shape, Links
<1>6. /\ Nodes(r) = N /\ TypedTree(r, N)
      /\ r.root = IF x = t.root THEN y ELSE t.root
      /\ \A n \in N : Up(r, n) = IF n = x THEN y ELSE IF n = y THEN Up(t, x) ELSE IF n = b THEN x ELSE Up(t, n)
      /\ \A n \in N, q \in Sides :
           Kid(r, n, q) = IF n = x /\ q = o THEN b ELSE IF n = y /\ q = s THEN x
                          ELSE IF Kid(t, n, q) = x THEN y ELSE Kid(t, n, q)
  <2>1. Nodes(r) = N /\ TypedTree(r, N)
    BY TypedIs DEF IsRotated, Relinked
  <2>. QED BY <2>1 DEF IsRotated
<1>7. /\ S \in [N -> SUBSET N] /\ N # {} /\ t.root \in N /\ S[t.root] = N
      /\ \A n, m \in N : m \in S[n] <=> m = n \/ Inside(t, S, n, s, m) \/ Inside(t, S, n, o, m)
      /\ \A n, m \in N, q \in Sides : Inside(t, S, n, q, m) => Beyond(q, n, m)
  BY <1>1, <1>2 DEF Shape, Under, Links
<1>8. /\ S2 \in [N -> SUBSET N] /\ S2[y] = S[x]
      /\ \A m \in N : m \in S2[x] <=> m = x \/ Inside(t, S, x, s, m) \/ Inside(t, S, y, s, m)
      /\ \A n \in N : n # x /\ n # y => S2[n] = S[n]
  BY <1>3, <1>7 DEF TurnedUnder
<1>9. \A n \in N, q \in Sides : /\ Kid(t, n, q) \in N \cup {Nil}
                                /\ Kid(t, n, q) # Nil => Up(t, Kid(t, n, q)) = n
  BY DEF Shape, Links
<1>. HIDE DEF N, o, y, b, a, d, S2
<1>10. x \in N /\ Kid(t, x, o) = y /\ Kid(t, x, s) = a /\ Kid(t, y, s) = b /\ Kid(t, y, o) = d
  BY DEF N, y, b, a, d
<1>11. Links(r)
  <2>1. r.root \in N \cup {Nil} /\ (r.root # Nil => Up(r, r.root) = Nil)
    <3>1. t.root # y /\ Up(t, t.root) = Nil /\ (t.root = b => FALSE)
      BY <1>1, <1>2, <1>3, <1>5, <1>7, <1>9, <1>10 DEF Shape, Links, N
    <3>. QED BY <1>3, <1>6, <1>7, <1>10, <3>1
  <2>2. ASSUME NEW n \in N, NEW q \in Sides
        PROVE  Kid(r, n, q) \in N \cup {Nil} /\ (Kid(r, n, q) # Nil => Up(r, Kid(r, n, q)) = n)
    <3>1. CASE n = x /\ q = o
      BY <1>2, <1>3, <1>5, <1>6, <3>1
    <3>2. CASE n = y /\ q = s
      BY <1>2, <1>3, <1>6, <1>10, <3>2
    <3>3. CASE Kid(t, n, q) = x
      <4>1. n # x /\ n # y
        BY <1>1, <1>3, <1>4, <1>10, <3>3
      <4>. QED BY <1>2, <1>3, <1>6, <1>9, <1>10, <3>3, <4>1
    <3>4. CASE ~(n = x /\ q = o) /\ ~(n = y /\ q = s) /\ Kid(t, n, q) # x
      <4>1. Kid(t, n, q) # y
        BY <1>1, <1>3, <1>9, <1>10, <3>4
      <4>2. Kid(t, n, q) # Nil => Kid(t, n, q) # b
        <5>1. Kid(t, n, q) = b /\ b # Nil => n = y
          BY <1>1, <1>3, <1>9, <1>10
        <5>2. Kid(t, n, q) = b /\ b # Nil => q # o
          <6>1. b # Nil => b # d
            <7>1. b # Nil => IsKid(t, S, y, s, b)
              BY <1>3, <1>10, KidsAre DEF N
            <7>. QED BY <1>10, <7>1 DEF IsKid, o
          <6>. QED BY <1>10, <5>1, <6>1
        <5>. QED BY <1>1, <3>4, <5>1, <5>2
      <4>3. Kid(r, n, q) = Kid(t, n, q)
        BY <1>6, <3>4
      <4>4. \A c \in N : c # x /\ c # y /\ c # b => Up(r, c) = Up(t, c)
        BY <1>6
      <4>. QED BY <1>9, <3>4, <4>1, <4>2, <4>3, <4>4
    <3>. QED BY <3>1, <3>2, <3>3, <3>4
  <2>3. ASSUME NEW n \in N, n # r.root
        PROVE  Up(r, n) \in N /\ \E q \in Sides : Kid(r, Up(r, n), q) = n
    <3>1. n # t.root => Up(t, n) \in N /\ \E q \in Sides : Kid(t, Up(t, n), q) = n
      BY DEF Shape, Links, N
    <3>2. CASE n = x
      BY <1>3, <1>6, <1>10, <3>2
    <3>3. CASE n = y
      <4>1. x # t.root
        BY <1>6, <2>3, <3>3
      <4>2. PICK q \in Sides : Up(t, x) \in N /\ Kid(t, Up(t, x), q) = x
        BY <1>10, <4>1 DEF Shape, Links, N
      <4>3. Up(t, x) # x /\ Up(t, x) # y
        BY <1>1, <1>3, <1>4, <1>10, <4>2
      <4>. QED BY <1>3, <1>6, <3>3, <4>2, <4>3
    <3>4. CASE n = b
      BY <1>1, <1>2, <1>3, <1>6, <1>10, <3>4
    <3>5. CASE n # x /\ n # y /\ n # b
      <4>1. n # t.root
        BY <1>6, <2>3, <3>5, <1>3, <1>10, <1>9, <1>7, <1>2
      <4>2. PICK q \in Sides : Up(t, n) \in N /\ Kid(t, Up(t, n), q) = n
        BY <3>1, <4>1
      <4>3. Up(r, n) = Up(t, n) /\ Kid(r, Up(t, n), q) = n
        BY <1>1, <1>6, <1>10, <3>5, <4>2
      <4>. QED BY <4>2, <4>3
    <3>. QED BY <3>2, <3>3, <3>4, <3>5
  <2>. QED BY <1>6, <2>1, <2>2, <2>3 DEF Links
<1>12. \A n, m \in N : n # x /\ n # y =>
         \A q \in Sides : Inside(r, S2, n, q, m) <=> Inside(t, S, n, q, m)
  <2> SUFFICES ASSUME NEW n \in N, NEW m \in N, n # x, n # y, NEW q \in Sides
               PROVE  Inside(r, S2, n, q, m) <=> Inside(t, S, n, q, m)
    OBVIOUS
  <2>1. Kid(t, n, q) # y
    BY <1>3, <1>9
  <2>2. Kid(r, n, q) = IF Kid(t, n, q) = x THEN y ELSE Kid(t, n, q)
    BY <1>6
  <2>3. CASE Kid(t, n, q) = x
    BY <1>2, <1>3, <1>8, <1>10, <2>2, <2>3 DEF Inside
  <2>4. CASE Kid(t, n, q) # x
    BY <1>8, <1>9, <2>1, <2>2, <2>4 DEF Inside
  <2>. QED BY <2>3, <2>4
<1>13. \A m \in N : /\ Inside(r, S2, x, s, m) <=> Inside(t, S, x, s, m)
                    /\ Inside(r, S2, x, o, m) <=> Inside(t, S, y, s, m)
                    /\ Inside(r, S2, y, s, m) <=> m \in S2[x]
                    /\ Inside(r, S2, y, o, m) <=> Inside(t, S, y, o, m)
  <2>1. Kid(r, x, s) = a /\ Kid(r, x, o) = b /\ Kid(r, y, s) = x /\ Kid(r, y, o) = d
    BY <1>1, <1>3, <1>4, <1>6, <1>10
  <2>. QED BY <1>2, <1>3, <1>4, <1>5, <1>8, <1>10, <2>1 DEF Inside
<1>14. ASSUME NEW m \in N
       PROVE  m \in S[x] <=> m \in S2[x] \/ m = y \/ Inside(t, S, y, o, m)
  <2>1. Inside(t, S, x, o, m) <=> m \in S[y]
    BY <1>3, <1>10 DEF Inside
  <2>. QED BY <1>3, <1>7, <1>8, <1>10, <2>1
<1>15. ASSUME NEW n \in N, NEW m \in N
       PROVE  m \in S2[n] <=> m = n \/ \E q \in Sides : Inside(r, S2, n, q, m)
  <2>1. (\E q \in Sides : Inside(r, S2, n, q, m)) <=> Inside(r, S2, n, s, m) \/ Inside(r, S2, n, o, m)
    BY <1>1
  <2>2. CASE n = x
    BY <1>8, <1>13, <2>1, <2>2
  <2>3. CASE n = y
    BY <1>8, <1>13, <1>14, <2>1, <2>3
  <2>4. CASE n # x /\ n # y
    BY <1>1, <1>7, <1>8, <1>12, <2>1, <2>4
  <2>. QED BY <2>2, <2>3, <2>4
<1>16. ASSUME NEW n \in N, NEW m \in N, NEW q \in Sides, Inside(r, S2, n, q, m)
       PROVE  Beyond(q, n, m)
  <2>1. Beyond(o, x, y)
    <3>1. Inside(t, S, x, o, y)
      BY <1>3, <1>10 DEF Inside
    <3>. QED BY <1>1, <1>3, <1>7, <1>10, <3>1
  <2>2. Inside(t, S, y, s, m) => Beyond(o, x, m)
    <3>1. Inside(t, S, y, s, m) => Inside(t, S, x, o, m)
      BY <1>3, <1>7, <1>10 DEF Inside
    <3>. QED BY <1>1, <1>7, <1>10, <3>1
  <2>3. CASE n = x
    BY <1>1, <1>7, <1>10, <1>13, <1>16, <2>2, <2>3
  <2>4. CASE n = y /\ q = o
    BY <1>1, <1>3, <1>7, <1>13, <1>16, <2>4
  <2>5. CASE n = y /\ q = s
    <3>1. m = x \/ Beyond(s, x, m) \/ Beyond(s, y, m)
      BY <1>3, <1>7, <1>8, <1>10, <1>13, <1>16, <2>5
    <3>2. Beyond(s, y, x)
      BY <1>1, <1>2, <1>3, <1>10, <2>1 DEF Beyond, Sides
    <3>3. Beyond(s, x, m) => Beyond(s, y, m)
      BY <1>2, <1>3, <1>10, <3>2 DEF Beyond
    <3>. QED BY <2>5, <3>1, <3>2, <3>3
  <2>6. CASE n # x /\ n # y
    BY <1>7, <1>12, <1>16, <2>6
  <2>. QED BY <1>1, <2>3, <2>4, <2>5, <2>6
<1>17. r.root # Nil /\ S2[r.root] = N
  <2>1. t.root # y
    BY <1>1, <1>3, <1>7, <1>9, <1>10, <1>2 DEF Shape, Links, N
  <2>. QED BY <1>2, <1>3, <1>6, <1>7, <1>8, <2>1
<1>18. Under(r, S2)
  BY <1>6, <1>8, <1>15, <1>16, <1>17 DEF Under
<1>. QED BY <1>6, <1>11, <1>18 DEF Shape, S2, N

-----------------------------------------------------------------------------
(* RbTree: facts about what is below a node, by descent: there are no more keys *)
(* below a child than below its parent, so that no descent goes on for ever.    *)

LEMMA SizesAre ==
  ASSUME NEW t, NEW S, Shape(t, S), NEW n \in Nodes(t)
  PROVE  /\ Cardinality(S[n]) \in Nat \ {0} /\ Cardinality(S[n]) <= Cardinality(Nodes(t))
         /\ Cardinality(Nodes(t)) \in Nat
         /\ \A s \in Sides : Kid(t, n, s) # Nil =>
              Cardinality(S[Kid(t, n, s)]) < Cardinality(S[n])
<1>1. IsFiniteSet(Nodes(t)) /\ S[n] \in SUBSET Nodes(t) /\ n \in S[n]
  BY DEF Shape, Under
<1>2. IsFiniteSet(S[n]) /\ Cardinality(S[n]) <= Cardinality(Nodes(t))
  BY <1>1, FS_Subset
<1>3. Cardinality(S[n]) \in Nat /\ Cardinality(Nodes(t)) \in Nat /\ Cardinality(S[n]) # 0
  BY <1>1, <1>2, FS_CardinalityType, FS_EmptySet
<1>4. ASSUME NEW s \in Sides, Kid(t, n, s) # Nil
      PROVE  Cardinality(S[Kid(t, n, s)]) < Cardinality(S[n])
  <2> DEFINE c == Kid(t, n, s)
  <2>1. S[c] \in SUBSET S[n] /\ S[c] # S[n]
    <3>1. IsKid(t, S, n, s, c)
      BY <1>4, KidsAre
    <3>. QED BY <3>1 DEF IsKid
  <2>. HIDE DEF c
  <2>2. IsFiniteSet(S[c]) /\ Cardinality(S[c]) <= Cardinality(S[n]) /\ Cardinality(S[c]) # Cardinality(S[n])
    BY <1>2, <2>1, FS_Subset
  <2>3. Cardinality(S[c]) \in Nat
    BY <2>2, FS_CardinalityType
  <2>. QED BY <1>3, <2>2, <2>3 DEF c
<1>. QED BY <1>2, <1>3, <1>4

\* A set of nodes with a child of each of its members is empty.
LEMMA Descent ==
  ASSUME NEW t, NEW S, Shape(t, S), NEW B \in SUBSET Nodes(t),
         \A n \in B : \E s \in Sides : Kid(t, n, s) # Nil /\ Kid(t, n, s) \in B
  PROVE  B = {}
<1> SUFFICES ASSUME NEW n \in B PROVE FALSE
  OBVIOUS
<1> DEFINE sizes == {Cardinality(S[m]) : m \in B}
<1>1. sizes \in SUBSET Nat /\ Cardinality(S[n]) \in sizes
  BY SizesAre
<1>2. Min(sizes) \in sizes /\ \A i \in sizes : Min(sizes) <= i
  <2>. HIDE DEF sizes
  <2>. QED BY <1>1, LeastThereIs
<1>3. PICK m \in B : Min(sizes) = Cardinality(S[m])
  BY <1>2
<1>4. PICK s \in Sides : Kid(t, m, s) # Nil /\ Kid(t, m, s) \in B
  OBVIOUS
<1>5. Cardinality(S[Kid(t, m, s)]) < Cardinality(S[m])
  BY <1>4, SizesAre
<1>6. Cardinality(S[Kid(t, m, s)]) \in sizes
  BY <1>4
<1>7. Cardinality(S[Kid(t, m, s)]) \in Nat /\ Cardinality(S[m]) \in Nat
  BY <1>1, <1>2, <1>3, <1>6
<1>8. Min(sizes) <= Cardinality(S[Kid(t, m, s)])
  BY <1>2, <1>6
<1>. QED BY <1>3, <1>5, <1>7, <1>8

\* Below what is below.
LEMMA BelowIs ==
  ASSUME NEW t, NEW S, Shape(t, S), NEW n \in Nodes(t), NEW m \in S[n]
  PROVE  m \in Nodes(t) /\ S[m] \in SUBSET S[n]
<1>1. m \in Nodes(t)
  BY DEF Shape, Under
<1> DEFINE B == {k \in Nodes(t) : m \in S[k] /\ ~(S[m] \subseteq S[k])}
<1>2. ASSUME NEW k \in B PROVE \E s \in Sides : Kid(t, k, s) # Nil /\ Kid(t, k, s) \in B
  <2>1. m # k
    OBVIOUS
  <2>2. PICK s \in Sides : Inside(t, S, k, s, m)
    BY <1>1, <2>1 DEF Shape, Under
  <2>3. IsKid(t, S, k, s, Kid(t, k, s))
    BY <2>2, KidsAre DEF Inside
  <2>. QED BY <2>2, <2>3 DEF Inside, IsKid
<1>3. B = {}
  <2>. HIDE DEF B
  <2>1. B \in SUBSET Nodes(t)
    BY DEF B
  <2>. QED BY <1>2, <2>1, Descent
<1>. QED BY <1>1, <1>3

\* The parent of what is below is still below, unless it is the node itself.
LEMMA ParentBelow ==
  ASSUME NEW t, NEW S, Shape(t, S), NEW n \in Nodes(t), NEW m \in S[n], m # n
  PROVE  m # t.root /\ Up(t, m) \in S[n]
<1>1. m \in Nodes(t)
  BY DEF Shape, Under
<1> DEFINE B == {k \in Nodes(t) : m \in S[k] /\ m # k /\ ~(m # t.root /\ Up(t, m) \in S[k])}
<1>2. ASSUME NEW k \in B PROVE \E s \in Sides : Kid(t, k, s) # Nil /\ Kid(t, k, s) \in B
  <2>1. PICK s \in Sides : Inside(t, S, k, s, m)
    BY <1>1 DEF Shape, Under
  <2> DEFINE c == Kid(t, k, s)
  <2>2. IsKid(t, S, k, s, c) /\ c # Nil /\ m \in S[c]
    BY <2>1, KidsAre DEF Inside
  <2>3. c # t.root
    BY RootIs
  <2>. HIDE DEF c
  <2>4. m # c
    BY <2>2, <2>3 DEF IsKid
  <2>. QED BY <2>2, <2>4 DEF IsKid, c
<1>3. B = {}
  <2>. HIDE DEF B
  <2>1. B \in SUBSET Nodes(t)
    BY DEF B
  <2>. QED BY <1>2, <2>1, Descent
<1>. QED BY <1>1, <1>3

-----------------------------------------------------------------------------
(* RbTree: the way down to a key. *)

Toward(k, n) == IF k < n THEN "left" ELSE "right"
Cell(t) == [at : Nodes(t) \cup {Nil}, above : Nodes(t) \cup {Nil}]
DownStep(t, k, c) == IF c.at \in {k, Nil} THEN c ELSE [at |-> Child(t, c.at, k), above |-> c.at]

SearchWalk(t, k, f) ==
  f = [d \in 0 .. Cardinality(Nodes(t)) |->
         IF d = 0 THEN [at |-> t.root, above |-> Nil]
         ELSE LET c == f[d - 1] IN
              IF c.at \in {k, Nil} THEN c ELSE [at |-> Child(t, c.at, k), above |-> c.at]]

\* Where the search can be after d steps.
OnTheWay(t, S, k, c, d) ==
  /\ c \in Cell(t)
  /\ c.above = Nil => c.at = t.root
  /\ c.above # Nil => /\ c.at = Kid(t, c.above, Toward(k, c.above))
                      /\ \A n \in Nodes(t) : c.above \in S[n] =>
                           n # k /\ (n = c.above \/ Inside(t, S, n, Toward(k, n), c.above))
  /\ k \in Nodes(t) => c.at # Nil /\ k \in S[c.at]
  /\ c.at \in {k, Nil} \/ Cardinality(S[c.at]) + d <= Cardinality(Nodes(t))

LEMMA TowardIs == \A k, n : Toward(k, n) \in Sides
BY DEF Toward, Sides

LEMMA ChildIs == \A t, n, k : Child(t, n, k) = Kid(t, n, Toward(k, n))
BY DEF Child, Kid, Toward

LEMMA DownOnTheWay ==
  ASSUME NEW t, NEW S, Shape(t, S), NEW k \in Keys, NEW c, NEW d \in Nat,
         OnTheWay(t, S, k, c, d)
  PROVE  OnTheWay(t, S, k, DownStep(t, k, c), d + 1)
<1>1. CASE c.at \in {k, Nil}
  BY <1>1 DEF OnTheWay, DownStep
<1>2. CASE c.at \notin {k, Nil}
  <2> DEFINE a == c.at
             s == Toward(k, a)
             e == Kid(t, a, s)
             N == Nodes(t)
  <2>1. a \in N /\ a # k /\ a # Nil /\ Nil \notin N
    BY <1>2, NilIsNoKey DEF OnTheWay, Cell, Shape
  <2>2. DownStep(t, k, c) = [at |-> e, above |-> a]
    BY <1>2, ChildIs DEF DownStep
  <2>3. s \in Sides
    BY TowardIs
  <2>4. e \in N \cup {Nil}
    BY <2>1, <2>3 DEF Shape, Links
  <2>5. [at |-> e, above |-> a] \in Cell(t)
    BY <2>1, <2>4 DEF Cell
  <2>6. k \in Int /\ N \subseteq Int
    BY TreeAssumption DEF Shape, TypedTree
  <2>7. k \in N => e # Nil /\ k \in S[e]
    <3> SUFFICES ASSUME k \in N PROVE Inside(t, S, a, s, k)
      BY DEF Inside
    <3>1. k \in S[a]
      BY DEF OnTheWay
    <3>2. PICK q \in Sides : Inside(t, S, a, q, k)
      BY <2>1, <3>1 DEF Shape, Under
    <3>3. Beyond(q, a, k)
      BY <2>1, <3>2 DEF Shape, Under
    <3>4. q = s
      BY <2>1, <2>6, <3>3 DEF Beyond, Toward, Sides
    <3>. QED BY <3>2, <3>4
  <2>8. e \in {k, Nil} \/ Cardinality(S[e]) + (d + 1) <= Cardinality(N)
    <3> SUFFICES ASSUME e # Nil PROVE Cardinality(S[e]) + (d + 1) <= Cardinality(N)
      OBVIOUS
    <3>1. e \in N /\ Cardinality(S[e]) < Cardinality(S[a])
      BY <2>1, <2>3, <2>4, SizesAre
    <3>2. Cardinality(S[e]) \in Nat /\ Cardinality(S[a]) \in Nat /\ Cardinality(N) \in Nat
      BY <2>1, <3>1, SizesAre
    <3>3. Cardinality(S[a]) + d <= Cardinality(N)
      BY <1>2 DEF OnTheWay
    <3>. HIDE DEF a, e, N
    <3>. QED BY <3>1, <3>2, <3>3
  <2>9. ASSUME NEW n \in N, a \in S[n]
        PROVE  n # k /\ (n = a \/ Inside(t, S, n, Toward(k, n), a))
    <3>1. CASE n = a
      BY <2>1, <3>1
    <3>2. CASE n # a
      <4>1. a # t.root /\ Up(t, a) \in S[n]
        BY <2>9, <3>2, ParentBelow
      <4>2. c.above # Nil /\ c.above \in N /\ a = Kid(t, c.above, Toward(k, c.above))
        BY <4>1 DEF OnTheWay, Cell
      <4>3. IsKid(t, S, c.above, Toward(k, c.above), a)
        BY <2>1, <4>2, TowardIs, KidsAre
      <4>4. Up(t, a) = c.above /\ a \in S[a]
        BY <4>3 DEF IsKid
      <4>5. n # k /\ (n = c.above \/ Inside(t, S, n, Toward(k, n), c.above))
        BY <4>1, <4>2, <4>4 DEF OnTheWay
      <4>6. CASE n = c.above
        BY <2>1, <4>2, <4>4, <4>5, <4>6 DEF Inside
      <4>7. CASE Inside(t, S, n, Toward(k, n), c.above)
        <5> DEFINE m == Kid(t, n, Toward(k, n))
        <5>1. m \in N /\ m # Nil /\ c.above \in S[m]
          BY <4>7, TowardIs DEF Inside, Shape, Links
        <5>2. a \in S[c.above]
          BY <4>3 DEF IsKid
        <5>3. a \in S[m]
          <6>. HIDE DEF m, a
          <6>. QED BY <5>1, <5>2, BelowIs
        <5>. QED BY <4>5, <5>1, <5>3 DEF Inside
      <4>. QED BY <4>5, <4>6, <4>7
    <3>. QED BY <3>1, <3>2
  <2>. HIDE DEF a, s, e, N
  <2>10. OnTheWay(t, S, k, [at |-> e, above |-> a], d + 1)
    BY <2>1, <2>5, <2>7, <2>8, <2>9 DEF OnTheWay, N, e, s
  <2>. QED BY <2>2, <2>10
<1>. QED BY <1>1, <1>2

\* A search ends at the node of its key, or below the node where it belongs.
Found(t, S, k, c) ==
  /\ c.at = IF k \in Nodes(t) THEN k ELSE Nil
  /\ c.above \in Nodes(t) \cup {Nil}
  /\ k \notin Nodes(t) =>
       /\ c.above = Nil <=> t.root = Nil
       /\ c.above # Nil => /\ Kid(t, c.above, Toward(k, c.above)) = Nil
                           /\ \A n \in Nodes(t) : c.above \in S[n] =>
                                n = c.above \/ Inside(t, S, n, Toward(k, n), c.above)

LEMMA SearchIs ==
  ASSUME NEW t, NEW S, Shape(t, S), NEW k \in Keys
  PROVE  Found(t, S, k, Search(t, k))
<1> DEFINE D == Cardinality(Nodes(t))
           first == [at |-> t.root, above |-> Nil]
           step == [c \in Cell(t) |-> DownStep(t, k, c)]
<1>1. D \in Nat /\ Nil \notin Nodes(t)
  BY NilIsNoKey, FS_CardinalityType DEF Shape
<1>2. first \in Cell(t)
  BY DEF Cell, Shape, Links
<1>3. ASSUME NEW c \in Cell(t) PROVE DownStep(t, k, c) \in Cell(t)
  <2>1. CASE c.at \in {k, Nil}
    BY <2>1 DEF DownStep
  <2>2. CASE c.at \notin {k, Nil}
    <3>1. c.at \in Nodes(t)
      BY <2>2 DEF Cell
    <3>2. Child(t, c.at, k) \in Nodes(t) \cup {Nil}
      BY <3>1, ChildIs, TowardIs DEF Shape, Links
    <3>. QED BY <2>2, <3>1, <3>2 DEF DownStep, Cell
  <2>. QED BY <2>1, <2>2
<1>4. step \in [Cell(t) -> Cell(t)]
  BY <1>3
<1>5. PICK f \in [0 .. D -> Cell(t)] : Walk(f, D, first, step)
  <2>. HIDE DEF step, first, D
  <2>. QED BY <1>1, <1>2, <1>4, WalkIs
<1>6. SearchWalk(t, k, f)
  <2>1. f = [d \in 0 .. D |-> f[d]]
    OBVIOUS
  <2>2. ASSUME NEW d \in 0 .. D
        PROVE  f[d] = IF d = 0 THEN first ELSE DownStep(t, k, f[d - 1])
    <3>1. CASE d = 0
      BY <1>5, <3>1 DEF Walk
    <3>2. CASE d # 0
      <4>1. d \in 1 .. D /\ d - 1 \in 0 .. D
        BY <1>1, <3>2
      <4>2. f[d] = step[f[d - 1]] /\ f[d - 1] \in Cell(t)
        BY <1>5, <4>1 DEF Walk
      <4>. QED BY <3>2, <4>2
    <3>. QED BY <3>1, <3>2
  <2>. QED BY <2>1, <2>2 DEF SearchWalk, DownStep
<1> DEFINE g == CHOOSE g : SearchWalk(t, k, g)
<1>7. Search(t, k) = g[D] /\ SearchWalk(t, k, g)
  <2>1. SearchWalk(t, k, g)
    BY <1>6
  <2>. QED BY <2>1, Zenon DEF Search, SearchWalk
<1>. HIDE DEF g
<1>8. \A d \in 0 .. D : g[d] = IF d = 0 THEN first ELSE DownStep(t, k, g[d - 1])
  BY <1>7 DEF SearchWalk, DownStep
<1>9. \A d \in 0 .. D : OnTheWay(t, S, k, g[d], d)
  <2> DEFINE P == {d \in 0 .. D : OnTheWay(t, S, k, g[d], d)}
  <2>1. 0 \in P
    <3>1. k \in Nodes(t) => t.root # Nil /\ k \in S[t.root]
      BY DEF Shape, Under
    <3>2. t.root \in {k, Nil} \/ Cardinality(S[t.root]) + 0 <= Cardinality(Nodes(t))
      BY <1>1, SizesAre DEF Shape, Links
    <3>3. first.at = t.root /\ first.above = Nil
      OBVIOUS
    <3>. HIDE DEF first
    <3>4. OnTheWay(t, S, k, first, 0)
      BY <1>2, <3>1, <3>2, <3>3 DEF OnTheWay
    <3>. QED BY <1>1, <1>8, <3>4
  <2>2. ASSUME NEW i \in 1 .. D, i - 1 \in P PROVE i \in P
    <3>1. i - 1 \in Nat /\ i \in 0 .. D /\ i # 0 /\ OnTheWay(t, S, k, g[i - 1], i - 1) /\ (i - 1) + 1 = i
      BY <1>1, <2>2
    <3>2. OnTheWay(t, S, k, DownStep(t, k, g[i - 1]), (i - 1) + 1)
      <4>. HIDE DEF P, D
      <4>. QED BY <3>1, DownOnTheWay
    <3>. QED BY <1>8, <3>1, <3>2
  <2>. HIDE DEF P
  <2>3. 0 .. D \subseteq P
    <3>1. Inductive(P, D)
      BY <2>1, <2>2 DEF Inductive
    <3>. QED BY <1>1, <3>1, UpTo
  <2>. QED BY <2>3 DEF P
<1> DEFINE c == g[D]
<1>10. OnTheWay(t, S, k, c, D)
  BY <1>1, <1>9
<1>. HIDE DEF c
<1>11. c.at \in {k, Nil}
  <2> SUFFICES ASSUME c.at \notin {k, Nil} PROVE FALSE
    OBVIOUS
  <2>1. c.at \in Nodes(t) /\ Cardinality(S[c.at]) + D <= D
    BY <1>10 DEF OnTheWay, Cell
  <2>. QED BY <1>1, <2>1, SizesAre
<1>12. c.above \in Nodes(t) \cup {Nil} /\ c.at \in Nodes(t) \cup {Nil}
  BY <1>10 DEF OnTheWay, Cell
<1>13. c.at = IF k \in Nodes(t) THEN k ELSE Nil
  BY <1>10, <1>11, <1>12, <1>1 DEF OnTheWay
<1>14. k \notin Nodes(t) /\ c.above # Nil => t.root # Nil
  BY <1>1, <1>12, RootIs
<1>15. Found(t, S, k, c)
  BY <1>10, <1>12, <1>13, <1>14 DEF Found, OnTheWay
<1>. QED BY <1>7, <1>15 DEF c

-----------------------------------------------------------------------------
(* RbTree: the iterator. *)

LeftWalk(t, n, f) ==
  f = [d \in 0 .. Cardinality(Nodes(t)) |->
         IF d = 0 THEN n
         ELSE LET m == f[d - 1] IN IF t.node[m].left = Nil THEN m ELSE t.node[m].left]

LeftStep(t, m) == IF t.node[m].left = Nil THEN m ELSE t.node[m].left

LEMMA KidSides == \A t, n : t.node[n].left = Kid(t, n, "left") /\ t.node[n].right = Kid(t, n, "right")
BY DEF Kid

\* Leftmost ends at the least of the keys below.
IsLeast(t, S, n, m) == m \in Nodes(t) /\ m \in S[n] /\ Kid(t, m, "left") = Nil /\ \A j \in S[n] : m <= j

LEMMA LeftmostIs ==
  ASSUME NEW t, NEW S, Shape(t, S), NEW n \in Nodes(t)
  PROVE  IsLeast(t, S, n, Leftmost(t, n))
<1> DEFINE N == Nodes(t)
           D == Cardinality(N)
           step == [m \in N |-> LeftStep(t, m)]
<1>1. D \in Nat /\ N \subseteq Int /\ "left" \in Sides /\ "right" \in Sides
  BY TreeAssumption, FS_CardinalityType DEF Shape, TypedTree, Sides
<1>2. \A m \in N : LeftStep(t, m) \in N /\ step[m] = LeftStep(t, m)
  BY <1>1, KidSides DEF LeftStep, Shape, Links
<1>3. PICK f \in [0 .. D -> N] : Walk(f, D, n, step)
  <2>1. step \in [N -> N] /\ n \in N
    BY <1>2
  <2>. HIDE DEF step, N, D
  <2>. QED BY <1>1, <2>1, WalkIs
<1>4. LeftWalk(t, n, f)
  <2>1. f = [d \in 0 .. D |-> f[d]]
    OBVIOUS
  <2>2. ASSUME NEW d \in 0 .. D
        PROVE  f[d] = IF d = 0 THEN n ELSE LeftStep(t, f[d - 1])
    <3>1. CASE d = 0
      BY <1>3, <3>1 DEF Walk
    <3>2. CASE d # 0
      <4>1. d \in 1 .. D /\ d - 1 \in 0 .. D
        BY <1>1, <3>2
      <4>2. f[d] = step[f[d - 1]] /\ f[d - 1] \in N
        BY <1>3, <4>1 DEF Walk
      <4>. QED BY <1>2, <3>2, <4>2
    <3>. QED BY <3>1, <3>2
  <2>. QED BY <2>1, <2>2 DEF LeftWalk, LeftStep
<1> DEFINE g == CHOOSE g : LeftWalk(t, n, g)
<1>5. Leftmost(t, n) = g[D] /\ LeftWalk(t, n, g)
  <2>1. LeftWalk(t, n, g)
    BY <1>4
  <2>. QED BY <2>1, Zenon DEF Leftmost, LeftWalk
<1>. HIDE DEF g
<1>6. \A d \in 0 .. D : g[d] = IF d = 0 THEN n ELSE LeftStep(t, g[d - 1])
  BY <1>5, Zenon DEF LeftWalk, LeftStep
<1> DEFINE Good(m, d) ==
             /\ m \in N /\ m \in S[n] /\ \A j \in S[n] : j < m => Inside(t, S, m, "left", j)
             /\ Kid(t, m, "left") = Nil \/ Cardinality(S[m]) + d <= D
           P == {d \in 0 .. D : Good(g[d], d)}
<1>7. 0 \in P
  <2>1. n \in S[n] /\ S[n] \subseteq N /\ \A j \in S[n] : j < n => Inside(t, S, n, "left", j)
    BY <1>1 DEF Shape, Under, Beyond, Sides
  <2>2. Cardinality(S[n]) + 0 <= D
    BY SizesAre
  <2>3. Good(n, 0)
    BY <2>1, <2>2
  <2>. QED BY <1>1, <1>6, <2>3
<1>8. ASSUME NEW i \in 1 .. D, i - 1 \in P PROVE i \in P
  <2> DEFINE m == g[i - 1]
             c == Kid(t, m, "left")
  <2>1. Good(m, i - 1) /\ i \in 0 .. D /\ g[i] = IF c = Nil THEN m ELSE c
    <3>1. g[i] = LeftStep(t, m)
      BY <1>1, <1>6
    <3>. QED BY <1>1, <1>8, <3>1, KidSides DEF LeftStep
  <2>. HIDE DEF m
  <2>2. CASE c = Nil
    <3>1. Good(m, i)
      BY <2>1, <2>2
    <3>. QED BY <2>1, <2>2, <3>1
  <2>3. CASE c # Nil
    <3>1. IsKid(t, S, m, "left", c)
      BY <1>1, <2>1, <2>3, KidsAre
    <3>2. c \in N /\ c \in S[m]
      BY <3>1 DEF IsKid
    <3>3. c \in S[n]
      BY <2>1, <3>2, BelowIs
    <3>4. Cardinality(S[c]) + i <= D
      <4>1. Cardinality(S[c]) < Cardinality(S[m]) /\ Cardinality(S[m]) + (i - 1) <= D
        BY <1>1, <2>1, <2>3, SizesAre
      <4>2. Cardinality(S[c]) \in Nat /\ Cardinality(S[m]) \in Nat
        BY <2>1, <3>2, SizesAre
      <4>. HIDE DEF c
      <4>. QED BY <1>1, <4>1, <4>2
    <3>5. ASSUME NEW j \in S[n], j < c PROVE Inside(t, S, c, "left", j)
      <4>1. j \in N
        BY DEF Shape, Under
      <4>2. c < m
        <5>1. Inside(t, S, m, "left", c)
          BY <2>3, <3>1 DEF IsKid, Inside
        <5>2. Beyond("left", m, c)
          BY <1>1, <2>1, <3>2, <5>1 DEF Shape, Under
        <5>. QED BY <5>2 DEF Beyond
      <4>3. j < m
        BY <1>1, <2>1, <3>2, <3>5, <4>1, <4>2
      <4>4. j \in S[c]
        BY <2>1, <4>3 DEF Inside
      <4>. HIDE DEF c
      <4>5. \E s \in Sides : Inside(t, S, c, s, j)
        BY <1>1, <3>2, <3>5, <4>1, <4>4 DEF Shape, Under
      <4>6. ~Inside(t, S, c, "right", j)
        BY <1>1, <3>2, <3>5, <4>1 DEF Shape, Under, Beyond
      <4>. QED BY <4>5, <4>6 DEF Sides
    <3>6. Good(c, i)
      BY <3>2, <3>3, <3>4, <3>5
    <3>. QED BY <2>1, <2>3, <3>6
  <2>. QED BY <2>2, <2>3
<1>9. D \in P
  <2>. HIDE DEF P, D
  <2>1. Inductive(P, D)
    BY <1>7, <1>8 DEF Inductive
  <2>2. 0 .. D \subseteq P
    BY <1>1, <2>1, UpTo
  <2>. QED BY <1>1, <2>2
<1> DEFINE m == g[D]
<1>10. Good(m, D)
  BY <1>9
<1>. HIDE DEF m
<1>11. Kid(t, m, "left") = Nil
  <2>1. Cardinality(S[m]) \in Nat \ {0}
    BY <1>10, SizesAre
  <2>. QED BY <1>1, <1>10, <2>1
<1>12. \A j \in S[n] : m <= j
  <2>1. \A j \in S[n] : ~(j < m) /\ j \in Int
    BY <1>1, <1>10, <1>11 DEF Inside, Shape, Under
  <2>. QED BY <1>1, <1>10, <2>1
<1>13. IsLeast(t, S, n, m)
  BY <1>10, <1>11, <1>12 DEF IsLeast
<1>. QED BY <1>5, <1>13 DEF m

\* What is not below a node is less than all that is, or greater.
LEMMA Convex ==
  ASSUME NEW t, NEW S, Shape(t, S), NEW u \in Nodes(t), NEW a \in S[u], NEW b \in S[u],
         NEW j \in Nodes(t), j \notin S[u], a < j, j < b
  PROVE  FALSE
<1> DEFINE N == Nodes(t)
           B == {v \in N : u \in S[v] /\ j \in S[v]}
<1>1. N \subseteq Int /\ a \in N /\ b \in N
  BY TreeAssumption DEF Shape, TypedTree, Under
<1>2. t.root \in N /\ S[t.root] = N
  BY NilIsNoKey DEF Shape, Under, Links
<1>3. t.root \in B
  BY <1>2
<1>4. ASSUME NEW v \in B PROVE \E s \in Sides : Kid(t, v, s) # Nil /\ Kid(t, v, s) \in B
  <2>1. PICK q \in Sides : Inside(t, S, v, q, u)
    BY DEF Shape, Under
  <2> DEFINE c == Kid(t, v, q)
  <2>2. IsKid(t, S, v, q, c) /\ c # Nil /\ u \in S[c]
    BY <2>1, KidsAre DEF Inside
  <2>3. c \in N /\ a \in S[c] /\ b \in S[c]
    BY <2>2, BelowIs DEF IsKid
  <2>4. CASE j \in S[c]
    BY <2>2, <2>3, <2>4
  <2>5. CASE j \notin S[c]
    <3>1. Inside(t, S, v, q, a) /\ Inside(t, S, v, q, b)
      BY <2>2, <2>3 DEF Inside
    <3>2. Beyond(q, v, a) /\ Beyond(q, v, b)
      BY <1>1, <3>1 DEF Shape, Under
    <3>3. j = v \/ \E s \in Sides : Inside(t, S, v, s, j)
      BY DEF Shape, Under
    <3>4. ~Inside(t, S, v, q, j)
      BY <2>5 DEF Inside
    <3>5. j = v \/ Beyond(Other(q), v, j)
      BY <3>3, <3>4, SidesAre DEF Shape, Under
    <3>. QED BY <1>1, <3>2, <3>5 DEF Beyond, Other, Sides
  <2>. QED BY <2>4, <2>5
<1>5. B = {}
  <2>. HIDE DEF B
  <2>1. B \in SUBSET Nodes(t)
    BY DEF B
  <2>. QED BY <1>4, <2>1, Descent
<1>. QED BY <1>3, <1>5

UpStep(t, p) ==
  IF t.node[p].parent # Nil /\ p = t.node[t.node[p].parent].right THEN t.node[p].parent ELSE p

UpWalk(t, n, f) ==
  f = [d \in 0 .. Cardinality(Nodes(t)) |->
         IF d = 0 THEN n
         ELSE LET p == f[d - 1] IN
              IF t.node[p].parent # Nil /\ p = t.node[t.node[p].parent].right
              THEN t.node[p].parent ELSE p]

\* The way up ends at the last node of which n is the greatest key below.
IsTop(t, S, n, p) ==
  /\ p \in Nodes(t) /\ n \in S[p] /\ \A j \in S[p] : j <= n
  /\ Up(t, p) # Nil => p # Kid(t, Up(t, p), "right")

IterNextUp(t, n, p) ==
  IterNext(t, n) = IF Kid(t, n, "right") # Nil THEN Leftmost(t, Kid(t, n, "right")) ELSE Up(t, p)

LEMMA UpIs ==
  ASSUME NEW t, NEW S, Shape(t, S), NEW n \in Nodes(t)
  PROVE  \E p : IterNextUp(t, n, p) /\ (Kid(t, n, "right") = Nil => IsTop(t, S, n, p))
<1> DEFINE N == Nodes(t)
           D == Cardinality(N)
           step == [m \in N |-> UpStep(t, m)]
<1>1. D \in Nat /\ N \subseteq Int /\ "left" \in Sides /\ "right" \in Sides
  BY TreeAssumption, FS_CardinalityType DEF Shape, TypedTree, Sides
<1>2. \A m \in N : UpStep(t, m) = IF Up(t, m) # Nil /\ m = Kid(t, Up(t, m), "right") THEN Up(t, m) ELSE m
  BY DEF UpStep, Up, Kid
<1>3. \A m \in N : UpStep(t, m) \in N /\ step[m] = UpStep(t, m)
  BY <1>2, RootIs
<1>4. PICK f \in [0 .. D -> N] : Walk(f, D, n, step)
  <2>1. step \in [N -> N] /\ n \in N
    BY <1>3
  <2>. HIDE DEF step, N, D
  <2>. QED BY <1>1, <2>1, WalkIs
<1>5. UpWalk(t, n, f)
  <2>1. f = [d \in 0 .. D |-> f[d]]
    OBVIOUS
  <2>2. ASSUME NEW d \in 0 .. D
        PROVE  f[d] = IF d = 0 THEN n ELSE UpStep(t, f[d - 1])
    <3>1. CASE d = 0
      BY <1>4, <3>1 DEF Walk
    <3>2. CASE d # 0
      <4>1. d \in 1 .. D /\ d - 1 \in 0 .. D
        BY <1>1, <3>2
      <4>2. f[d] = step[f[d - 1]] /\ f[d - 1] \in N
        BY <1>4, <4>1 DEF Walk
      <4>. QED BY <1>3, <3>2, <4>2
    <3>. QED BY <3>1, <3>2
  <2>. QED BY <2>1, <2>2, Zenon DEF UpWalk, UpStep
<1> DEFINE g == CHOOSE g : UpWalk(t, n, g)
<1>6. UpWalk(t, n, g)
  BY <1>5
<1>7. IterNextUp(t, n, g[D])
  BY Zenon DEF IterNextUp, IterNext, UpWalk, Kid, Up
<1>. HIDE DEF g
<1>8. \A d \in 0 .. D : g[d] = IF d = 0 THEN n ELSE UpStep(t, g[d - 1])
  BY <1>6, Zenon DEF UpWalk, UpStep
<1>9. ASSUME Kid(t, n, "right") = Nil PROVE IsTop(t, S, n, g[D])
  <2> DEFINE Good(p, d) ==
               /\ p \in N /\ n \in S[p] /\ \A j \in S[p] : j <= n
               /\ (Up(t, p) # Nil => p # Kid(t, Up(t, p), "right")) \/ Cardinality(S[p]) >= d + 1
             P == {d \in 0 .. D : Good(g[d], d)}
  <2>1. 0 \in P
    <3>1. n \in S[n] /\ S[n] \subseteq N
      BY DEF Shape, Under
    <3>2. \A j \in S[n] : j <= n
      <4>1. \A j \in S[n] : j = n \/ Inside(t, S, n, "left", j)
        BY <1>9, <3>1 DEF Shape, Under, Inside, Sides
      <4>. QED BY <1>1, <3>1, <4>1 DEF Shape, Under, Beyond
    <3>3. Cardinality(S[n]) >= 0 + 1
      BY SizesAre
    <3>4. Good(n, 0)
      BY <3>1, <3>2, <3>3
    <3>. QED BY <1>1, <1>8, <3>4
  <2>2. ASSUME NEW i \in 1 .. D, i - 1 \in P PROVE i \in P
    <3> DEFINE p == g[i - 1]
               u == Up(t, p)
    <3>1. Good(p, i - 1) /\ i \in 0 .. D
      BY <1>1, <2>2
    <3>2. g[i] = IF u # Nil /\ p = Kid(t, u, "right") THEN u ELSE p
      BY <1>1, <1>2, <1>8, <3>1
    <3>. HIDE DEF p
    <3>3. CASE ~(u # Nil /\ p = Kid(t, u, "right"))
      <4>1. Good(p, i)
        BY <3>1, <3>3
      <4>. QED BY <3>1, <3>2, <3>3, <4>1
    <3>4. CASE u # Nil /\ p = Kid(t, u, "right")
      <4>1. u \in N /\ p # Nil
        BY <3>1, <3>4, RootIs
      <4>. HIDE DEF u
      <4>2. IsKid(t, S, u, "right", p)
        BY <1>1, <3>4, <4>1, KidsAre
      <4>3. n \in S[u] /\ u < n
        <5>1. Inside(t, S, u, "right", n)
          BY <3>1, <3>4, <4>1 DEF Inside
        <5>2. Beyond("right", u, n)
          BY <1>1, <4>1, <5>1 DEF Shape, Under
        <5>. QED BY <1>1, <4>1, <5>1, <5>2 DEF Shape, Under, Beyond
      <4>4. ASSUME NEW j \in S[u] PROVE j <= n
        <5>1. j \in N /\ (j = u \/ \E s \in Sides : Inside(t, S, u, s, j))
          BY <4>1 DEF Shape, Under
        <5>2. Inside(t, S, u, "right", j) => j <= n
          BY <3>1, <3>4 DEF Inside
        <5>3. Inside(t, S, u, "left", j) => j < u
          BY <1>1, <4>1, <5>1 DEF Shape, Under, Beyond
        <5>. QED BY <1>1, <4>1, <4>3, <5>1, <5>2, <5>3 DEF Sides
      <4>5. Cardinality(S[u]) >= i + 1
        <5>1. Cardinality(S[p]) >= (i - 1) + 1
          BY <3>1, <3>4 DEF u
        <5>2. Cardinality(S[p]) < Cardinality(S[u])
          BY <1>1, <3>4, <4>1, SizesAre
        <5>3. Cardinality(S[p]) \in Nat /\ Cardinality(S[u]) \in Nat
          BY <3>1, <4>1, SizesAre
        <5>. QED BY <1>1, <5>1, <5>2, <5>3
      <4>6. Good(u, i)
        BY <4>1, <4>3, <4>4, <4>5
      <4>. QED BY <3>1, <3>2, <3>4, <4>6 DEF u
    <3>. QED BY <3>3, <3>4
  <2>3. D \in P
    <3>. HIDE DEF P, D
    <3>1. Inductive(P, D)
      BY <2>1, <2>2 DEF Inductive
    <3>2. 0 .. D \subseteq P
      BY <1>1, <3>1, UpTo
    <3>. QED BY <1>1, <3>2
  <2> DEFINE p == g[D]
  <2>4. Good(p, D)
    BY <2>3
  <2>. HIDE DEF p
  <2>5. Up(t, p) # Nil => p # Kid(t, Up(t, p), "right")
    <3>1. Cardinality(S[p]) \in Nat /\ Cardinality(S[p]) <= D
      BY <2>4, SizesAre
    <3>. QED BY <1>1, <2>4, <3>1
  <2>. QED BY <2>4, <2>5 DEF IsTop, p
<1>. QED BY <1>7, <1>9

\* The next key is the least of the larger ones.
LEMMA NextIs ==
  ASSUME NEW t, NEW S, Shape(t, S), NEW n \in Nodes(t),
         NEW larger, larger = {m \in Nodes(t) : m > n}
  PROVE  IterNext(t, n) = IF larger = {} THEN Nil ELSE Min(larger)
<1> DEFINE N == Nodes(t)
           r == Kid(t, n, "right")
<1>1. N \subseteq Int /\ Nil \notin N /\ "left" \in Sides /\ "right" \in Sides
  BY NilIsNoKey, TreeAssumption DEF Shape, TypedTree, Sides
<1>2. ASSUME NEW u \in larger, \A j \in larger : u <= j, IterNext(t, n) = u
      PROVE  IterNext(t, n) = IF larger = {} THEN Nil ELSE Min(larger)
  <2>1. \A j \in larger : j \in Int
    BY <1>1
  <2>2. Min(larger) = u
    BY <1>2, <2>1 DEF Min
  <2>. QED BY <1>2, <2>2
<1>3. PICK p : IterNextUp(t, n, p) /\ (r = Nil => IsTop(t, S, n, p))
  BY UpIs
<1>4. CASE r # Nil
  <2> DEFINE m == Leftmost(t, r)
  <2>1. IsKid(t, S, n, "right", r)
    BY <1>1, <1>4, KidsAre
  <2>2. r \in N /\ IsLeast(t, S, r, m)
    BY <2>1, LeftmostIs DEF IsKid
  <2>3. IterNext(t, n) = m
    BY <1>3, <1>4 DEF IterNextUp
  <2>. HIDE DEF m, r
  <2>4. m \in N /\ m \in S[r] /\ \A j \in S[r] : m <= j
    BY <2>2 DEF IsLeast
  <2>5. n < m
    <3>1. Inside(t, S, n, "right", m)
      BY <1>4, <2>4 DEF Inside, r
    <3>. QED BY <1>1, <2>4, <3>1 DEF Shape, Under, Beyond
  <2>6. ASSUME NEW j \in N, n < j PROVE m <= j
    <3>1. CASE j \in S[n]
      <4>1. ~Inside(t, S, n, "left", j)
        BY <1>1, <2>6 DEF Shape, Under, Beyond
      <4>2. j = n \/ \E s \in Sides : Inside(t, S, n, s, j)
        BY <3>1 DEF Shape, Under
      <4>3. Inside(t, S, n, "right", j)
        BY <1>1, <2>6, <4>1, <4>2 DEF Sides
      <4>. QED BY <2>4, <4>3 DEF Inside, r
    <3>2. CASE j \notin S[n]
      <4>1. n \in S[n] /\ m \in S[n]
        BY <2>1, <2>4 DEF IsKid, r
      <4>2. ~(j < m)
        BY <2>6, <3>2, <4>1, Convex
      <4>. QED BY <1>1, <2>4, <4>2
    <3>. QED BY <3>1, <3>2
  <2>7. m \in larger /\ \A j \in larger : m <= j
    BY <1>1, <2>4, <2>5, <2>6
  <2>. QED BY <1>2, <2>3, <2>7
<1>5. CASE r = Nil
  <2>1. p \in N /\ n \in S[p] /\ (\A j \in S[p] : j <= n)
        /\ (Up(t, p) # Nil => p # Kid(t, Up(t, p), "right"))
    BY <1>3, <1>5 DEF IsTop
  <2>2. IterNext(t, n) = Up(t, p)
    BY <1>3, <1>5 DEF IterNextUp
  <2>3. CASE Up(t, p) = Nil
    <3>1. S[p] = N
      BY <2>1, <2>3, RootIs DEF Shape, Under
    <3>2. \A j \in N : ~(j > n)
      BY <1>1, <2>1, <3>1
    <3>. QED BY <2>2, <2>3, <3>2
  <2>4. CASE Up(t, p) # Nil
    <3> DEFINE u == Up(t, p)
    <3>1. u \in N /\ p # Nil /\ p = Kid(t, u, "left")
      BY <2>1, <2>4, RootIs DEF Sides
    <3>. HIDE DEF u
    <3>2. IsKid(t, S, u, "left", p)
      BY <1>1, <3>1, KidsAre
    <3>3. n < u
      <4>1. Inside(t, S, u, "left", n)
        BY <2>1, <3>1 DEF Inside
      <4>. QED BY <1>1, <3>1, <4>1 DEF Shape, Under, Beyond
    <3>4. ASSUME NEW j \in N, n < j PROVE u <= j
      <4>1. CASE j \in S[u]
        <5>1. ~Inside(t, S, u, "left", j)
          <6>1. j \in S[p] => FALSE
            BY <1>1, <2>1, <3>4
          <6>. QED BY <3>1, <6>1 DEF Inside
        <5>2. j = u \/ \E s \in Sides : Inside(t, S, u, s, j)
          BY <3>1, <4>1 DEF Shape, Under
        <5>3. j = u \/ Inside(t, S, u, "right", j)
          BY <5>1, <5>2 DEF Sides
        <5>. QED BY <1>1, <3>1, <5>3 DEF Shape, Under, Beyond
      <4>2. CASE j \notin S[u]
        <5>1. n \in S[u] /\ u \in S[u]
          BY <2>1, <3>2 DEF IsKid
        <5>2. ~(j < u)
          BY <3>1, <3>4, <4>2, <5>1, Convex
        <5>. QED BY <1>1, <3>1, <5>2
      <4>. QED BY <4>1, <4>2
    <3>5. u \in larger /\ \A j \in larger : u <= j
      BY <1>1, <3>1, <3>3, <3>4
    <3>. QED BY <1>2, <2>2, <3>5 DEF u
  <2>. QED BY <2>3, <2>4
<1>. QED BY <1>4, <1>5

\* Iteration is in order wherever the shape is right.
LEMMA OrderFromShape == ASSUME Sound PROVE IterationInOrder
<1>1. PICK S : Shape(tree, S)
  BY DEF Sound, Shaped
<1>2. ASSUME tree.root # Nil PROVE IterBegin(tree) = Min(Nodes(tree))
  <2> DEFINE m == Leftmost(tree, tree.root)
  <2>1. tree.root \in Nodes(tree) /\ S[tree.root] = Nodes(tree) /\ IterBegin(tree) = m
    BY <1>1, <1>2 DEF Shape, Links, Under, IterBegin
  <2>2. IsLeast(tree, S, tree.root, m)
    BY <1>1, <2>1, LeftmostIs
  <2>. HIDE DEF m
  <2>3. Nodes(tree) \subseteq Int
    BY <1>1, TreeAssumption DEF Shape, TypedTree
  <2>4. Min(Nodes(tree)) = m
    BY <2>1, <2>2, <2>3 DEF Min, IsLeast
  <2>. QED BY <2>1, <2>4
<1>. QED BY <1>1, <1>2, NextIs DEF IterationInOrder

-----------------------------------------------------------------------------
(* RbTree: a node is hung up. *)

\* r is t with a red node k below p.
IsInserted(t, r, k, v, p) ==
  LET N == Nodes(t) IN
  /\ TypedTree(r, N \cup {k})
  /\ r.root = IF p = Nil THEN k ELSE t.root
  /\ Red(r, k) /\ Value(r, k) = v /\ Up(r, k) = p
  /\ \A q \in Sides : Kid(r, k, q) = Nil
  /\ \A n \in N :
       /\ Up(r, n) = Up(t, n) /\ Red(r, n) = Red(t, n) /\ Value(r, n) = Value(t, n)
       /\ \A q \in Sides : Kid(r, n, q) = IF n = p /\ q = Toward(k, p) THEN k ELSE Kid(t, n, q)

LEMMA InsertedIs ==
  ASSUME NEW k \in Keys, NEW v \in Values, InsertNode(k, v), NEW S, Shape(tree, S)
  PROVE  /\ k \notin Nodes(tree)
         /\ IsInserted(tree, tree', k, v, Search(tree, k).above)
         /\ op' = "fix_insert" /\ at' = k /\ UNCHANGED <<answer, skipped>>
<1> DEFINE t == tree
           N == Nodes(t)
           p == Search(t, k).above
           new == [red |-> TRUE, value |-> v, left |-> Nil, right |-> Nil, parent |-> p]
           nodes == [n \in N \cup {k} |-> IF n = k THEN new ELSE t.node[n]]
           s == IF k < p THEN "left" ELSE "right"
           hung == [nodes EXCEPT ![p][s] = k]
           r == IF p = Nil THEN [root |-> k, node |-> nodes] ELSE [root |-> t.root, node |-> hung]
<1>1. tree' = r /\ op' = "fix_insert" /\ at' = k /\ UNCHANGED <<answer, skipped>>
  BY DEF InsertNode
<1>2. Found(t, S, k, Search(t, k))
  BY SearchIs
<1>3. k # Nil /\ N \subseteq Keys /\ TypedTree(t, N)
  BY TreeAssumption DEF Shape, TypedTree
<1>4. k \notin N /\ p \in N \cup {Nil}
  BY <1>2, <1>3 DEF Found, InsertNode
<1>. HIDE DEF p
<1>5. t.root \in Keys \cup {Nil} /\ t.node \in [N -> Node] /\ new \in Node
  BY <1>3, <1>4 DEF TypedTree, Node
<1>6. nodes \in [N \cup {k} -> Node]
  BY <1>5
<1>7. /\ \A n \in N : nodes[n] = t.node[n] /\ t.node[n] \in Node
      /\ nodes[k] = new
  BY <1>4, <1>5
<1>8. ASSUME p # Nil
      PROVE  /\ hung \in [N \cup {k} -> Node]
             /\ \A n \in N \cup {k} : n # p => hung[n] = nodes[n]
             /\ hung[p] = [nodes[p] EXCEPT ![s] = k]
  <2>1. p \in N /\ nodes[p] \in Node
    BY <1>4, <1>6, <1>8
  <2>2. [nodes[p] EXCEPT ![s] = k] \in Node
    <3>. HIDE DEF nodes
    <3>1. CASE s = "left"
      BY <2>1, <3>1 DEF Node
    <3>2. CASE s = "right"
      BY <2>1, <3>2 DEF Node
    <3>. QED BY <3>1, <3>2
  <2>. HIDE DEF nodes, s
  <2>. QED BY <1>6, <2>1, <2>2
<1>9. /\ TypedTree(r, N \cup {k}) /\ r.root = IF p = Nil THEN k ELSE t.root
  <2>1. CASE p = Nil
    <3>. HIDE DEF nodes
    <3>. QED BY <1>3, <1>6, <2>1 DEF TypedTree
  <2>2. CASE p # Nil
    <3>. HIDE DEF hung
    <3>. QED BY <1>3, <1>5, <1>8, <2>2 DEF TypedTree
  <2>. QED BY <2>1, <2>2
<1>10. r.node = IF p = Nil THEN nodes ELSE hung
  OBVIOUS
<1>. HIDE DEF nodes, hung, r
<1>11. r.node[k] = new
  BY <1>4, <1>7, <1>8, <1>10
<1>12. ASSUME NEW n \in N, n # p PROVE r.node[n] = t.node[n]
  BY <1>4, <1>7, <1>8, <1>10, <1>12
<1>13. ASSUME p # Nil PROVE r.node[p] = [t.node[p] EXCEPT ![s] = k] /\ t.node[p] \in Node
  BY <1>4, <1>7, <1>8, <1>10, <1>13
<1>14. Red(r, k) /\ Value(r, k) = v /\ Up(r, k) = p /\ \A q \in Sides : Kid(r, k, q) = Nil
  BY <1>11 DEF Red, Value, Up, Kid, Sides
<1>15. ASSUME NEW n \in N
       PROVE  /\ Up(r, n) = Up(t, n) /\ Red(r, n) = Red(t, n) /\ Value(r, n) = Value(t, n)
              /\ \A q \in Sides : Kid(r, n, q) = IF n = p /\ q = Toward(k, p) THEN k ELSE Kid(t, n, q)
  <2>1. CASE n # p
    BY <1>12, <2>1 DEF Red, Value, Up, Kid
  <2>2. CASE n = p
    <3>1. p # Nil
      BY <2>2, NilIsNoKey, <1>3
    <3>2. s = Toward(k, p)
      BY DEF Toward
    <3>. HIDE DEF s
    <3>3. s \in Sides
      BY <3>2, TowardIs
    <3>4. CASE s = "left"
      BY <1>13, <2>2, <3>1, <3>2, <3>4 DEF Red, Value, Up, Kid, Sides, Node
    <3>5. CASE s = "right"
      BY <1>13, <2>2, <3>1, <3>2, <3>5 DEF Red, Value, Up, Kid, Sides, Node
    <3>. QED BY <3>3, <3>4, <3>5 DEF Sides
  <2>. QED BY <2>1, <2>2
<1>16. IsInserted(t, r, k, v, p)
  BY <1>9, <1>14, <1>15 DEF IsInserted
<1>. QED BY <1>1, <1>4, <1>16 DEF p

GrownUnder(t, S, k, p) ==
  [n \in Nodes(t) \cup {k} |-> IF n = k THEN {k} ELSE IF p \in S[n] THEN S[n] \cup {k} ELSE S[n]]

LEMMA InsertedShape ==
  ASSUME NEW t, NEW S, Shape(t, S), NEW k \in Keys, k \notin Nodes(t), NEW v, NEW c, Found(t, S, k, c),
         NEW r, IsInserted(t, r, k, v, c.above)
  PROVE  Shape(r, GrownUnder(t, S, k, c.above)) /\ Nodes(r) = Nodes(t) \cup {k}
<1> DEFINE N == Nodes(t)
           M == N \cup {k}
           p == c.above
           S2 == GrownUnder(t, S, k, p)
<1>1. k # Nil /\ Nil \notin N /\ M \subseteq Int /\ IsFiniteSet(N) /\ k \notin N /\ M \subseteq Keys
  BY NilIsNoKey, TreeAssumption DEF Shape, TypedTree
<1>2. IsFiniteSet(M)
  BY <1>1, FS_AddElement
<1>3. p \in N \cup {Nil} /\ (p = Nil <=> t.root = Nil) /\ (t.root = Nil => N = {})
      /\ (t.root # Nil => t.root \in N /\ S[t.root] = N)
  BY <1>1 DEF Found, Shape, Under, Links
<1>4. p # Nil => /\ Kid(t, p, Toward(k, p)) = Nil
                 /\ \A n \in N : p \in S[n] => n = p \/ Inside(t, S, n, Toward(k, n), p)
  BY <1>1 DEF Found
<1>. HIDE DEF p
<1>5. /\ Nodes(r) = M /\ TypedTree(r, M) /\ r.root = IF p = Nil THEN k ELSE t.root
      /\ Up(r, k) = p
      /\ \A q \in Sides : Kid(r, k, q) = Nil
      /\ \A n \in N : Up(r, n) = Up(t, n)
      /\ \A n \in N, q \in Sides :
           Kid(r, n, q) = IF n = p /\ q = Toward(k, p) THEN k ELSE Kid(t, n, q)
  <2>1. TypedTree(r, M)
    BY DEF IsInserted, p
  <2>2. Nodes(r) = M
    <3>. HIDE DEF M
    <3>. QED BY <2>1, TypedIs
  <2>. QED BY <2>1, <2>2 DEF IsInserted, p
<1>6. /\ S \in [N -> SUBSET N]
      /\ \A n, m \in N : m \in S[n] <=> m = n \/ \E s \in Sides : Inside(t, S, n, s, m)
      /\ \A n, m \in N, s \in Sides : Inside(t, S, n, s, m) => Beyond(s, n, m)
  BY DEF Shape, Under
<1>7. /\ S2 \in [M -> SUBSET M] /\ S2[k] = {k}
      /\ \A n \in N : S2[n] = IF p \in S[n] THEN S[n] \cup {k} ELSE S[n]
  BY <1>1, <1>6 DEF GrownUnder
<1>8. \A n \in N, q \in Sides : /\ Kid(t, n, q) \in N \cup {Nil}
                                /\ Kid(t, n, q) # Nil => Up(t, Kid(t, n, q)) = n
  BY DEF Shape, Links
<1>9. \A n \in N : n # t.root => Up(t, n) \in N /\ \E s \in Sides : Kid(t, Up(t, n), s) = n
  BY DEF Shape, Links
<1>10. t.root # Nil => Up(t, t.root) = Nil
  BY DEF Shape, Links
<1>. HIDE DEF N, S2
<1>11. Links(r)
  <2>1. r.root \in M \cup {Nil} /\ (r.root # Nil => Up(r, r.root) = Nil)
    BY <1>3, <1>5, <1>10
  <2>2. \A n \in M, q \in Sides : /\ Kid(r, n, q) \in M \cup {Nil}
                                  /\ Kid(r, n, q) # Nil => Up(r, Kid(r, n, q)) = n
    BY <1>1, <1>5, <1>8
  <2>3. ASSUME NEW n \in M, n # r.root
        PROVE  Up(r, n) \in M /\ \E s \in Sides : Kid(r, Up(r, n), s) = n
    <3>1. CASE n = k
      BY <1>3, <1>5, <2>3, <3>1, TowardIs
    <3>2. CASE n # k
      <4>1. n \in N /\ n # t.root
        BY <1>3, <1>5, <2>3, <3>2
      <4>2. PICK s \in Sides : Up(t, n) \in N /\ Kid(t, Up(t, n), s) = n
        BY <1>9, <4>1
      <4>3. Up(r, n) = Up(t, n) /\ Kid(r, Up(t, n), s) = n
        BY <1>1, <1>4, <1>5, <4>1, <4>2
      <4>. QED BY <4>2, <4>3
    <3>. QED BY <3>1, <3>2
  <2>. QED BY <1>5, <2>1, <2>2, <2>3 DEF Links
<1>12. \A n, m \in N, q \in Sides : Inside(r, S2, n, q, m) <=> Inside(t, S, n, q, m)
  <2> SUFFICES ASSUME NEW n \in N, NEW m \in N, NEW q \in Sides
               PROVE  Inside(r, S2, n, q, m) <=> Inside(t, S, n, q, m)
    OBVIOUS
  <2>1. CASE n = p /\ q = Toward(k, p)
    BY <1>1, <1>4, <1>5, <1>7, <2>1 DEF Inside
  <2>2. CASE ~(n = p /\ q = Toward(k, p))
    <3>1. Kid(r, n, q) = Kid(t, n, q)
      BY <1>5, <2>2
    <3>. QED BY <1>1, <1>7, <1>8, <3>1 DEF Inside
  <2>. QED BY <2>1, <2>2
<1>13. \A n \in N, q \in Sides :
         Inside(r, S2, n, q, k) <=> (n = p /\ q = Toward(k, p)) \/ Inside(t, S, n, q, p)
  <2> SUFFICES ASSUME NEW n \in N, NEW q \in Sides
               PROVE  Inside(r, S2, n, q, k) <=> (n = p /\ q = Toward(k, p)) \/ Inside(t, S, n, q, p)
    OBVIOUS
  <2>1. CASE n = p /\ q = Toward(k, p)
    BY <1>1, <1>5, <1>7, <2>1 DEF Inside
  <2>2. CASE ~(n = p /\ q = Toward(k, p))
    <3>1. Kid(r, n, q) = Kid(t, n, q)
      BY <1>5, <2>2
    <3>2. \A x \in N : k \in S2[x] <=> p \in S[x]
      BY <1>1, <1>6, <1>7
    <3>. QED BY <1>8, <2>2, <3>1, <3>2 DEF Inside
  <2>. QED BY <2>1, <2>2
<1>14. \A m \in M, q \in Sides : ~Inside(r, S2, k, q, m)
  BY <1>5 DEF Inside
<1>15. ASSUME NEW n \in M, NEW m \in M
       PROVE  m \in S2[n] <=> m = n \/ \E s \in Sides : Inside(r, S2, n, s, m)
  <2>1. CASE n = k
    BY <1>7, <1>14, <2>1
  <2>2. CASE n # k /\ m # k
    BY <1>6, <1>7, <1>12, <2>2
  <2>3. CASE n # k /\ m = k
    <3>1. k \in S2[n] <=> p \in S[n]
      BY <1>1, <1>6, <1>7, <2>3
    <3>2. p \in S[n] <=> (p = n \/ \E s \in Sides : Inside(t, S, n, s, p))
      <4>1. CASE p \in N
        BY <1>6, <2>3, <4>1
      <4>2. CASE p = Nil
        BY <1>3, <2>3, <4>2
      <4>. QED BY <1>3, <4>1, <4>2
    <3>3. (\E s \in Sides : Inside(r, S2, n, s, k)) <=> (p = n \/ \E s \in Sides : Inside(t, S, n, s, p))
      BY <1>13, <2>3, TowardIs
    <3>. QED BY <2>3, <3>1, <3>2, <3>3
  <2>. QED BY <2>1, <2>2, <2>3
<1>16. ASSUME NEW n \in M, NEW m \in M, NEW q \in Sides, Inside(r, S2, n, q, m)
       PROVE  Beyond(q, n, m)
  <2>1. n \in N
    BY <1>14, <1>16
  <2>2. CASE m # k
    BY <1>6, <1>12, <1>16, <2>1, <2>2
  <2>3. CASE m = k
    <3>1. Beyond(Toward(k, n), n, k)
      BY <1>1, <2>1 DEF Beyond, Toward
    <3>2. (n = p /\ q = Toward(k, p)) \/ Inside(t, S, n, q, p)
      BY <1>13, <1>16, <2>1, <2>3
    <3>3. CASE Inside(t, S, n, q, p)
      <4>1. p \in N /\ p \in S[n]
        <5>1. p \in N
          BY <1>3, <2>1
        <5>. QED BY <1>6, <2>1, <3>3, <5>1
      <4>2. Beyond(q, n, p)
        BY <1>6, <2>1, <3>3, <4>1
      <4>3. n # p
        BY <1>1, <2>1, <4>1, <4>2 DEF Beyond
      <4>4. Inside(t, S, n, Toward(k, n), p)
        BY <1>1, <1>4, <2>1, <4>1, <4>3
      <4>5. Beyond(Toward(k, n), n, p)
        BY <1>6, <2>1, <4>1, <4>4, TowardIs
      <4>6. q = Toward(k, n)
        BY <1>1, <2>1, <4>1, <4>2, <4>5, TowardIs DEF Beyond, Sides
      <4>. QED BY <2>3, <3>1, <4>6
    <3>. QED BY <2>3, <3>1, <3>2, <3>3
  <2>. QED BY <2>2, <2>3
<1>17. r.root # Nil /\ S2[r.root] = M
  <2>1. CASE p = Nil
    BY <1>1, <1>3, <1>5, <1>7, <2>1
  <2>2. CASE p # Nil
    BY <1>1, <1>3, <1>5, <1>7, <2>2
  <2>. QED BY <2>1, <2>2
<1>18. Under(r, S2)
  BY <1>5, <1>7, <1>15, <1>16, <1>17 DEF Under
<1>. QED BY <1>2, <1>5, <1>11, <1>18 DEF Shape, S2, N, p

-----------------------------------------------------------------------------
(* RbTree: a node is taken out.  In the place of y comes its only child x, and *)
(* y, when it is not the node k that goes, takes the place of k: the tree r is  *)
(* that of the nodes other than y, with y for k.                                *)

Src(k, y, n) == IF n = y THEN k ELSE n
Ren(k, y, n) == IF n = k THEN y ELSE n
Sub(k, y, x, c) == IF c = y THEN x ELSE IF c = k THEN y ELSE c

IsRemoved(t, r, k, y, x) ==
  LET M == Nodes(t) \ {k} IN
  /\ TypedTree(r, M)
  /\ r.root = Sub(k, y, x, t.root)
  /\ \A n \in M :
       /\ Up(r, n) = Ren(k, y, Up(t, IF n = x THEN y ELSE Src(k, y, n)))
       /\ Red(r, n) = Red(t, Src(k, y, n)) /\ Value(r, n) = Value(t, n)
       /\ \A q \in Sides : Kid(r, n, q) = Sub(k, y, x, Kid(t, Src(k, y, n), q))

\* y has no child but x, and comes next after k if it is not k.
Spliced(t, S, k, y, x) ==
  /\ k \in Nodes(t) /\ y \in Nodes(t)
  /\ \E s \in Sides : x = Kid(t, y, s) /\ Kid(t, y, Other(s)) = Nil
  /\ y # k => /\ Kid(t, k, "left") # Nil /\ Kid(t, k, "right") # Nil
              /\ IsLeast(t, S, Kid(t, k, "right"), y)

ShrunkUnder(t, S, k, y) ==
  [n \in Nodes(t) \ {k} |-> {m \in Nodes(t) \ {k} : Src(k, y, m) \in S[Src(k, y, n)]}]

LEMMA SplicedIs ==
  ASSUME NEW t, NEW S, Shape(t, S), NEW k, NEW y, NEW x, Spliced(t, S, k, y, x)
  PROVE  /\ x \in Nodes(t) \cup {Nil} /\ x # y /\ x # k
         /\ x # Nil => Up(t, x) = y
         /\ \A n \in Nodes(t), s \in Sides : n # y => Kid(t, n, s) # x \/ x = Nil
         /\ \A s \in Sides : Kid(t, y, s) \in {x, Nil}
         /\ y # k => /\ y \in S[k] /\ k < y /\ y # t.root
                     /\ \A m \in Nodes(t) : Inside(t, S, k, "right", m) => y <= m
         /\ \A m \in Nodes(t) : m \in S[y] <=> m = y \/ (x # Nil /\ m \in S[x])
<1>1. PICK s \in Sides : x = Kid(t, y, s) /\ Kid(t, y, Other(s)) = Nil
  BY DEF Spliced
<1>2. y \in Nodes(t) /\ k \in Nodes(t) /\ Nil \notin Nodes(t) /\ Nodes(t) \subseteq Int
      /\ "left" \in Sides /\ "right" \in Sides
  BY NilIsNoKey, TreeAssumption DEF Spliced, Shape, TypedTree, Sides
<1>3. x # Nil => IsKid(t, S, y, s, x)
  BY <1>1, <1>2, KidsAre
<1>4. x \in Nodes(t) \cup {Nil} /\ x # y /\ (x # Nil => Up(t, x) = y)
  BY <1>2, <1>3 DEF IsKid
<1>5. \A n \in Nodes(t), q \in Sides : n # y => Kid(t, n, q) # x \/ x = Nil
  BY <1>4 DEF Shape, Links
<1>6. \A q \in Sides : Kid(t, y, q) \in {x, Nil}
  BY <1>1, SidesAre
<1>7. ASSUME y # k
      PROVE  /\ y \in S[k] /\ k < y /\ y # t.root
             /\ \A m \in Nodes(t) : Inside(t, S, k, "right", m) => y <= m
  <2> DEFINE r == Kid(t, k, "right")
  <2>1. r # Nil /\ y \in S[r] /\ \A j \in S[r] : y <= j
    BY <1>7 DEF Spliced, IsLeast
  <2>2. Inside(t, S, k, "right", y)
    BY <2>1 DEF Inside
  <2>3. y \in S[k] /\ Beyond("right", k, y)
    BY <1>2, <2>2 DEF Shape, Under
  <2>4. y # t.root
    BY <1>2, <1>7, <2>3, ParentBelow
  <2>. QED BY <2>1, <2>3, <2>4 DEF Inside, Beyond
<1>8. x # k
  <2>1. CASE x = Nil
    BY <1>2, <2>1
  <2>2. CASE x # Nil
    <3>1. x \in S[y] /\ y \notin S[x] /\ k \in S[k]
      BY <1>2, <1>3, <2>2 DEF IsKid, Shape, Under
    <3>. QED BY <1>4, <1>7, <3>1
  <2>. QED BY <2>1, <2>2
<1>9. ASSUME NEW m \in Nodes(t) PROVE m \in S[y] <=> m = y \/ (x # Nil /\ m \in S[x])
  <2>1. m \in S[y] <=> m = y \/ \E q \in Sides : Inside(t, S, y, q, m)
    BY <1>2 DEF Shape, Under
  <2>2. (\E q \in Sides : Inside(t, S, y, q, m)) <=> (x # Nil /\ m \in S[x])
    BY <1>1, SidesAre DEF Inside
  <2>. QED BY <2>1, <2>2
<1>. QED BY <1>4, <1>5, <1>6, <1>7, <1>8, <1>9

LEMMA RemovedShape ==
  ASSUME NEW t, NEW S, Shape(t, S), NEW k, NEW y, NEW x, Spliced(t, S, k, y, x),
         NEW r, IsRemoved(t, r, k, y, x)
  PROVE  Shape(r, ShrunkUnder(t, S, k, y)) /\ Nodes(r) = Nodes(t) \ {k}
<1> DEFINE N == Nodes(t)
           M == N \ {k}
           S2 == ShrunkUnder(t, S, k, y)
           src(n) == Src(k, y, n)
           ren(n) == Ren(k, y, n)
           sub(c) == Sub(k, y, x, c)
<1>1. k \in N /\ y \in N /\ Nil \notin N /\ N \subseteq Int /\ IsFiniteSet(N)
      /\ "left" \in Sides /\ "right" \in Sides
  BY NilIsNoKey, TreeAssumption DEF Spliced, Shape, TypedTree, Sides
<1>2. /\ x \in N \cup {Nil} /\ x # y /\ x # k
      /\ x # Nil => Up(t, x) = y
      /\ \A n \in N, s \in Sides : n # y => Kid(t, n, s) # x \/ x = Nil
      /\ \A s \in Sides : Kid(t, y, s) \in {x, Nil}
      /\ y # k => /\ y \in S[k] /\ k < y /\ y # t.root
                  /\ \A m \in N : Inside(t, S, k, "right", m) => y <= m
      /\ \A m \in N : m \in S[y] <=> m = y \/ (x # Nil /\ m \in S[x])
  BY SplicedIs
<1>3. /\ TypedTree(r, M) /\ Nodes(r) = M
      /\ r.root = sub(t.root)
      /\ \A n \in M : Up(r, n) = ren(Up(t, IF n = x THEN y ELSE src(n)))
      /\ \A n \in M, q \in Sides : Kid(r, n, q) = sub(Kid(t, src(n), q))
  <2>1. TypedTree(r, M)
    BY DEF IsRemoved
  <2>2. Nodes(r) = M
    <3>. HIDE DEF M
    <3>. QED BY <2>1, TypedIs
  <2>. QED BY <2>1, <2>2 DEF IsRemoved
<1>4. IsFiniteSet(M)
  BY <1>1, FS_RemoveElement
<1>5. /\ S \in [N -> SUBSET N] /\ t.root \in N /\ S[t.root] = N
      /\ \A n, m \in N : m \in S[n] <=> m = n \/ \E s \in Sides : Inside(t, S, n, s, m)
      /\ \A n, m \in N, s \in Sides : Inside(t, S, n, s, m) => Beyond(s, n, m)
  BY <1>1 DEF Shape, Under, Links
<1>6. /\ \A n \in N, q \in Sides : /\ Kid(t, n, q) \in N \cup {Nil}
                                   /\ Kid(t, n, q) # Nil => Up(t, Kid(t, n, q)) = n
      /\ \A n \in N : n # t.root => Up(t, n) \in N /\ \E s \in Sides : Kid(t, Up(t, n), s) = n
      /\ Up(t, t.root) = Nil
  BY <1>1, <1>5 DEF Shape, Links
<1>7. /\ \A n \in M : src(n) \in N /\ src(n) # y /\ ren(src(n)) = n
      /\ \A n \in N : n # y => ren(n) \in M /\ src(ren(n)) = n
  BY <1>1 DEF Src, Ren
<1>8. S2 \in [M -> SUBSET M] /\ \A n, m \in M : m \in S2[n] <=> src(m) \in S[src(n)]
  BY DEF ShrunkUnder
<1>. HIDE DEF N, S2
<1>9. ASSUME NEW n \in M, NEW q \in Sides
      PROVE  /\ Kid(r, n, q) \in M \cup {Nil}
             /\ Kid(r, n, q) # Nil => Up(r, Kid(r, n, q)) = n
  <2> DEFINE a == src(n)
             c == Kid(t, a, q)
  <2>1. a \in N /\ a # y /\ ren(a) = n /\ c \in N \cup {Nil} /\ (c # Nil => Up(t, c) = a)
        /\ Kid(r, n, q) = sub(c) /\ (c # x \/ x = Nil)
    BY <1>2, <1>3, <1>6, <1>7
  <2>. HIDE DEF a, c
  <2>2. CASE c = y
    BY <1>1, <1>2, <1>3, <2>1, <2>2 DEF Sub
  <2>3. CASE c # y /\ c = k
    BY <1>1, <1>2, <1>3, <2>1, <2>3 DEF Sub, Src
  <2>4. CASE c # y /\ c # k
    BY <1>1, <1>2, <1>3, <2>1, <2>4 DEF Sub, Src
  <2>. QED BY <2>2, <2>3, <2>4
<1>10. ASSUME NEW n \in M, n # r.root
       PROVE  Up(r, n) \in M /\ \E s \in Sides : Kid(r, Up(r, n), s) = n
  <2> DEFINE b == IF n = x THEN y ELSE src(n)
  <2>1. b \in N /\ sub(b) = n /\ Up(r, n) = ren(Up(t, b)) /\ b # x
    BY <1>1, <1>2, <1>3, <1>7 DEF Src, Sub
  <2>. HIDE DEF b
  <2>2. b # t.root
    BY <1>3, <1>10, <2>1
  <2> DEFINE u == Up(t, b)
  <2>3. PICK s \in Sides : u \in N /\ Kid(t, u, s) = b
    BY <1>6, <2>1, <2>2
  <2>4. u # y
    BY <1>1, <1>2, <2>1, <2>3
  <2>5. ren(u) \in M /\ src(ren(u)) = u
    BY <1>7, <2>3, <2>4
  <2>6. Kid(r, ren(u), s) = sub(Kid(t, src(ren(u)), s))
    BY <1>3, <2>5
  <2>7. Kid(r, ren(u), s) = n
    BY <2>1, <2>3, <2>5, <2>6
  <2>. QED BY <2>1, <2>5, <2>7
<1>11. r.root \in M \cup {Nil} /\ (r.root # Nil => Up(r, r.root) = Nil)
  <2>1. CASE t.root = y
    <3>1. y = k /\ r.root = x
      BY <1>2, <1>3, <2>1 DEF Sub
    <3>2. x # Nil => Up(r, x) = ren(Up(t, y))
      BY <1>2, <1>3
    <3>. QED BY <1>1, <1>2, <1>6, <2>1, <3>1, <3>2 DEF Ren
  <2>2. CASE t.root # y /\ t.root = k
    <3>1. r.root = y /\ y # k
      BY <1>3, <2>2 DEF Sub
    <3>2. Up(r, y) = ren(Up(t, k))
      BY <1>1, <1>2, <1>3, <3>1 DEF Src
    <3>. QED BY <1>1, <1>6, <2>2, <3>1, <3>2 DEF Ren
  <2>3. CASE t.root # y /\ t.root # k
    <3>1. r.root = t.root /\ t.root # Nil /\ src(t.root) = t.root
      BY <1>1, <1>3, <1>5, <2>3 DEF Sub, Src
    <3>2. t.root # x
      BY <1>1, <1>2, <1>6, <3>1
    <3>3. Up(r, t.root) = ren(Up(t, t.root))
      BY <1>3, <1>5, <2>3, <3>1, <3>2
    <3>. QED BY <1>1, <1>5, <1>6, <2>3, <3>1, <3>3 DEF Ren
  <2>. QED BY <2>1, <2>2, <2>3
<1>12. Links(r)
  BY <1>3, <1>9, <1>10, <1>11 DEF Links
<1>13. ASSUME NEW n \in M, NEW m \in M, NEW q \in Sides
       PROVE  Inside(r, S2, n, q, m) <=> Inside(t, S, src(n), q, src(m))
  <2> DEFINE a == src(n)
             c == Kid(t, a, q)
             j == src(m)
  <2>1. a \in N /\ a # y /\ c \in N \cup {Nil} /\ Kid(r, n, q) = sub(c) /\ j \in N /\ j # y
        /\ (Inside(t, S, a, q, j) <=> c # Nil /\ j \in S[c])
    BY <1>3, <1>6, <1>7 DEF Inside
  <2>2. Inside(r, S2, n, q, m) <=> sub(c) # Nil /\ m \in S2[sub(c)]
    BY <2>1 DEF Inside
  <2>3. \A d \in M : m \in S2[d] <=> j \in S[src(d)]
    BY <1>8
  <2>. HIDE DEF a, c, j
  <2>4. CASE c = y
    <3>1. sub(c) = x /\ src(x) = x
      BY <1>2, <2>4 DEF Sub, Src
    <3>2. x # Nil => x \in M
      BY <1>2
    <3>. QED BY <1>1, <1>2, <2>1, <2>2, <2>3, <2>4, <3>1, <3>2 DEF a, j
  <2>5. CASE c # y /\ c = k
    <3>1. sub(c) = y /\ src(y) = k /\ y \in M /\ y # Nil /\ c # Nil
      BY <1>1, <2>5 DEF Sub, Src
    <3>. QED BY <2>1, <2>2, <2>3, <2>5, <3>1 DEF a, j
  <2>6. CASE c # y /\ c # k
    <3>1. sub(c) = c /\ src(c) = c /\ (c # Nil => c \in M)
      BY <2>1, <2>6 DEF Sub, Src
    <3>. QED BY <2>1, <2>2, <2>3, <2>6, <3>1 DEF a, j
  <2>. QED BY <2>4, <2>5, <2>6
<1>14. ASSUME NEW n \in M, NEW m \in M
       PROVE  m \in S2[n] <=> m = n \/ \E q \in Sides : Inside(r, S2, n, q, m)
  <2>1. src(n) \in N /\ src(m) \in N /\ (m = n <=> src(m) = src(n))
    BY <1>7
  <2>. QED BY <1>5, <1>8, <1>13, <2>1
<1>15. ASSUME NEW n \in M, NEW m \in M, NEW q \in Sides, Inside(r, S2, n, q, m)
       PROVE  Beyond(q, n, m)
  <2>1. Inside(t, S, src(n), q, src(m)) /\ src(n) \in N /\ src(m) \in N
    BY <1>7, <1>13, <1>15
  <2>2. Beyond(q, src(n), src(m))
    BY <1>5, <2>1
  <2>3. CASE n = y
    <3>1. y # k /\ src(n) = k
      BY <2>3 DEF Src
    <3>2. m # y
      BY <1>1, <2>2, <3>1 DEF Beyond, Src
    <3>3. src(m) = m
      BY <3>2 DEF Src
    <3>4. q = "right" => y <= m
      BY <1>2, <2>1, <3>1, <3>3
    <3>. QED BY <1>1, <1>2, <2>2, <2>3, <3>1, <3>2, <3>3, <3>4 DEF Beyond, Sides
  <2>4. CASE n # y /\ m = y
    <3>1. y # k /\ src(n) = n /\ src(m) = k
      BY <2>4 DEF Src
    <3> DEFINE c == Kid(t, n, q)
    <3>2. c \in N /\ c # Nil /\ k \in S[c]
      BY <1>1, <1>6, <2>1, <3>1 DEF Inside
    <3>3. S[k] \subseteq S[c]
      <4>. HIDE DEF c
      <4>. QED BY <3>2, BelowIs DEF N
    <3>4. Inside(t, S, n, q, y)
      BY <1>2, <3>1, <3>2, <3>3 DEF Inside
    <3>. QED BY <1>1, <1>5, <2>1, <2>4, <3>1, <3>4
  <2>5. CASE n # y /\ m # y
    BY <2>2, <2>5 DEF Src
  <2>. QED BY <2>3, <2>4, <2>5
<1>16. IF r.root = Nil THEN M = {} ELSE S2[r.root] = M
  <2>1. CASE t.root = y
    <3>1. y = k /\ r.root = x
      BY <1>2, <1>3, <2>1 DEF Sub
    <3>2. \A m \in M : src(m) = m /\ m # y
      BY <3>1 DEF Src
    <3>3. \A m \in M : x # Nil /\ m \in S[x]
      BY <1>2, <1>5, <2>1, <3>2
    <3>4. x # Nil => x \in M /\ src(x) = x
      BY <1>2, <3>2
    <3>. QED BY <1>8, <3>1, <3>2, <3>3, <3>4
  <2>2. CASE t.root # y
    <3>1. r.root = ren(t.root)
      BY <1>3, <2>2 DEF Sub, Ren
    <3>2. r.root \in M /\ src(r.root) = t.root
      BY <1>5, <1>7, <2>2, <3>1
    <3>3. \A m \in M : m \in S2[r.root]
      BY <1>5, <1>7, <1>8, <3>2
    <3>. QED BY <1>1, <1>8, <3>2, <3>3
  <2>. QED BY <2>1, <2>2
<1>17. Under(r, S2)
  BY <1>3, <1>8, <1>14, <1>15, <1>16 DEF Under
<1>. QED BY <1>3, <1>4, <1>12, <1>17 DEF Shape, S2, N

-----------------------------------------------------------------------------
(* RbTree: map_delete takes a node out. *)

\* r is t once y, when it has another place than k, is out of its own.
IsOut(t, r, k, y, x) ==
  LET c == Kid(t, k, "right") IN
  /\ Relinked(t, r, Nodes(t)) /\ r.root = t.root
  /\ \A n \in Nodes(t) :
       /\ Up(r, n) = IF n = c /\ n # y THEN y ELSE IF n = x /\ y # c THEN Up(t, y) ELSE Up(t, n)
       /\ \A q \in Sides :
            Kid(r, n, q) = IF n = y /\ q = "right" THEN IF y = c THEN x ELSE c
                           ELSE IF y # c /\ Kid(t, n, q) = y THEN x ELSE Kid(t, n, q)

TakenOut(t, k, y, x) ==
  LET z == t.node[k] IN
  IF y = z.right THEN Parented(t, x, y)
  ELSE Parented([Transplant(t, y, x) EXCEPT !.node[y].right = z.right], z.right, y)

LEMMA OutIs ==
  ASSUME NEW t, NEW S, Shape(t, S), NEW k, NEW y, NEW x, Spliced(t, S, k, y, x), y # k,
         x = Kid(t, y, "right"), NEW r, r = TakenOut(t, k, y, x)
  PROVE  IsOut(t, r, k, y, x)
<1> DEFINE N == Nodes(t)
           c == Kid(t, k, "right")
           t0 == Transplant(t, y, x)
           ta == [t0 EXCEPT !.node[y]["right"] = c]
<1>1. /\ k \in N /\ y \in N /\ Nil \notin N /\ N \subseteq Keys
      /\ "left" \in Sides /\ "right" \in Sides /\ TypedTree(t, N)
  BY NilIsNoKey DEF Spliced, Shape, TypedTree, Sides
<1>2. /\ x \in N \cup {Nil} /\ x # y /\ x # k /\ (x # Nil => Up(t, x) = y) /\ y # t.root
  BY SplicedIs
<1>3. c \in N /\ c # Nil /\ Up(t, c) = k
  BY <1>1 DEF Spliced, Shape, Links
<1>4. r = IF y = c THEN Parented(t, x, y) ELSE Parented(ta, c, y)
  BY DEF TakenOut, Kid
<1>. HIDE DEF t0, ta, N, c
<1>5. CASE y = c
  <2>1. r = Parented(t, x, y)
    BY <1>4, <1>5
  <2>2. /\ Relinked(t, r, N) /\ r.root = t.root
        /\ \A n \in N : /\ Up(r, n) = IF n = x THEN y ELSE Up(t, n)
                        /\ \A s \in Sides : Kid(r, n, s) = Kid(t, n, s)
    BY <1>1, <1>2, <2>1, ParentedIs
  <2>. QED BY <1>1, <1>2, <1>5, <2>2 DEF IsOut, N, c
<1>6. CASE y # c
  <2>1. IsTransplanted(t, t0, N, y, x)
    <3>1. Up(t, y) \in N \cup {Nil} /\ Side(t, y) \in Sides
      BY <1>1, RootIs DEF N, Side, Sides
    <3>. QED BY <1>1, <1>2, <3>1, TransplantIs DEF t0
  <2>2. /\ Relinked(t, t0, N) /\ t0.root = t.root
        /\ \A n \in N :
             /\ Up(t0, n) = IF n = x THEN Up(t, y) ELSE Up(t, n)
             /\ \A q \in Sides : Kid(t0, n, q) = IF Kid(t, n, q) = y THEN x ELSE Kid(t, n, q)
    <3>1. Up(t, y) # Nil
      BY <1>1, <1>2, RootIs DEF N
    <3>2. \A n \in N, q \in Sides : Kid(t, n, q) = y <=> n = Up(t, y) /\ q = Side(t, y)
      BY <1>1, <1>2, SideIs DEF N
    <3>. QED BY <2>1, <3>1, <3>2 DEF IsTransplanted
  <2>3. /\ Relinked(t0, ta, N) /\ ta.root = t0.root
        /\ \A n \in N : /\ Up(ta, n) = Up(t0, n)
                        /\ \A q \in Sides : Kid(ta, n, q) = IF n = y /\ q = "right" THEN c ELSE Kid(t0, n, q)
    <3>1. TypedTree(t0, N) /\ c \in Keys \cup {Nil}
      BY <1>1, <1>3, <2>2 DEF Relinked
    <3>2. y \in N /\ "right" \in Sides
      BY <1>1
    <3>3. ta = [t0 EXCEPT !.node[y]["right"] = c]
      BY DEF ta
    <3>. QED BY <3>1, <3>2, <3>3, SetKid
  <2>4. /\ Relinked(ta, r, N) /\ r.root = ta.root
        /\ \A n \in N : /\ Up(r, n) = IF n = c THEN y ELSE Up(ta, n)
                        /\ \A s \in Sides : Kid(r, n, s) = Kid(ta, n, s)
    <3>1. TypedTree(ta, N) /\ c \in N \cup {Nil} /\ y \in Keys \cup {Nil} /\ r = Parented(ta, c, y)
      BY <1>1, <1>3, <1>4, <1>6, <2>3 DEF Relinked
    <3>. QED BY <3>1, ParentedIs
  <2>5. Relinked(t, r, N) /\ r.root = t.root
    BY <2>2, <2>3, <2>4 DEF Relinked
  <2>6. ASSUME NEW n \in N
        PROVE  /\ Up(r, n) = IF n = c /\ n # y THEN y ELSE IF n = x /\ y # c THEN Up(t, y) ELSE Up(t, n)
               /\ \A q \in Sides :
                    Kid(r, n, q) = IF n = y /\ q = "right" THEN IF y = c THEN x ELSE c
                                   ELSE IF y # c /\ Kid(t, n, q) = y THEN x ELSE Kid(t, n, q)
    BY <1>6, <2>2, <2>3, <2>4
  <2>. QED BY <2>5, <2>6 DEF IsOut, N, c
<1>. QED BY <1>5, <1>6

\* What IsRemoved says, with k still in memory.
IsCut(t, r, k, y, x) ==
  /\ TypedTree(r, Nodes(t))
  /\ r.root = Sub(k, y, x, t.root)
  /\ \A n \in Nodes(t) \ {k} :
       /\ Up(r, n) = Ren(k, y, Up(t, IF n = x THEN y ELSE Src(k, y, n)))
       /\ Red(r, n) = Red(t, Src(k, y, n)) /\ Value(r, n) = Value(t, n)
       /\ \A q \in Sides : Kid(r, n, q) = Sub(k, y, x, Kid(t, Src(k, y, n), q))

LEMMA CutOneIs ==
  ASSUME NEW t, NEW S, Shape(t, S), NEW k, NEW x, Spliced(t, S, k, k, x),
         NEW r, r = Transplant(t, k, x)
  PROVE  IsCut(t, r, k, k, x)
<1> DEFINE N == Nodes(t)
<1>1. k \in N /\ Nil \notin N /\ TypedTree(t, N)
  BY NilIsNoKey DEF Spliced, Shape
<1>2. x \in N \cup {Nil} /\ x # k /\ (x # Nil => Up(t, x) = k)
  BY SplicedIs
<1>. HIDE DEF N
<1>3. IsTransplanted(t, r, N, k, x)
  <2>1. Up(t, k) \in N \cup {Nil} /\ Side(t, k) \in Sides
    BY <1>1, RootIs DEF N, Side, Sides
  <2>. QED BY <1>1, <1>2, <2>1, TransplantIs
<1>4. k = t.root <=> Up(t, k) = Nil
  BY <1>1, RootIs DEF N
<1>5. \A n \in N, q \in Sides : Kid(t, n, q) = k <=> n = Up(t, k) /\ q = Side(t, k)
  <2>1. CASE k = t.root
    BY <1>1, <1>4, <2>1, RootIs DEF N
  <2>2. CASE k # t.root
    BY <1>1, <2>2, SideIs DEF N
  <2>. QED BY <2>1, <2>2
<1>6. /\ r.root = Sub(k, k, x, t.root) /\ TypedTree(r, N)
      /\ \A n \in N \ {k} : Up(r, n) = Ren(k, k, Up(t, IF n = x THEN k ELSE Src(k, k, n)))
  BY <1>3, <1>4 DEF IsTransplanted, Relinked, Sub, Ren, Src
<1>7. \A n \in N \ {k} : Red(r, n) = Red(t, Src(k, k, n)) /\ Value(r, n) = Value(t, n)
  BY <1>3 DEF IsTransplanted, Relinked, Src
<1>8. \A n \in N \ {k}, q \in Sides : Kid(r, n, q) = Sub(k, k, x, Kid(t, Src(k, k, n), q))
  BY <1>3, <1>5 DEF IsTransplanted, Sub, Src
<1>. QED BY <1>6, <1>7, <1>8 DEF IsCut, N

PutIn(t, t1, k, y) ==
  LET z == t.node[k] IN
  Painted(Parented([Transplant(t1, k, y) EXCEPT !.node[y].left = z.left], z.left, y), y, z.red)

LEMMA CutTwoIs ==
  ASSUME NEW t, NEW S, Shape(t, S), NEW k, NEW y, NEW x, Spliced(t, S, k, y, x), y # k,
         x = Kid(t, y, "right"), NEW t1, IsOut(t, t1, k, y, x), NEW r, r = PutIn(t, t1, k, y)
  PROVE  IsCut(t, r, k, y, x)
<1> DEFINE N == Nodes(t)
           c == Kid(t, k, "right")
           l == Kid(t, k, "left")
           tb == Transplant(t1, k, y)
           tc == [tb EXCEPT !.node[y]["left"] = l]
           td == Parented(tc, l, y)
<1>1. /\ k \in N /\ y \in N /\ Nil \notin N /\ N \subseteq Keys /\ k # Nil /\ y # Nil
      /\ "left" \in Sides /\ "right" \in Sides /\ TypedTree(t, N) /\ "left" # "right"
      /\ \A q \in Sides : q = "left" \/ q = "right"
  BY NilIsNoKey DEF Spliced, Shape, TypedTree, Sides
<1>2. /\ x \in N \cup {Nil} /\ x # y /\ x # k /\ (x # Nil => Up(t, x) = y) /\ y # t.root
      /\ \A n \in N, s \in Sides : n # y => Kid(t, n, s) # x \/ x = Nil
      /\ \A s \in Sides : Kid(t, y, s) \in {x, Nil}
  BY SplicedIs
<1>3. /\ c \in N /\ c # Nil /\ Up(t, c) = k /\ l \in N /\ l # Nil /\ Up(t, l) = k
      /\ c # l /\ c # k /\ l # k
  <2>1. IsKid(t, S, k, "right", c) /\ IsKid(t, S, k, "left", l)
    BY <1>1, KidsAre DEF Spliced
  <2>. QED BY <1>1, <2>1 DEF IsKid, Other
<1>4. l # y
  <2>1. y \in S[k] /\ k < y
    BY SplicedIs
  <2>2. l # y
    <3> SUFFICES ASSUME l = y PROVE FALSE
      OBVIOUS
    <3>1. Inside(t, S, k, "left", y)
      BY <1>1, <1>3 DEF Inside, Shape, Under
    <3>2. y < k
      BY <1>1, <3>1 DEF Shape, Under, Beyond
    <3>. QED BY <1>1, <2>1, <3>2, TreeAssumption
  <2>. QED BY <2>2
<1>5. r = Painted(td, y, Red(t, k))
  BY Zenon DEF PutIn, Kid, Red
<1>6. /\ Relinked(t, t1, N) /\ t1.root = t.root /\ TypedTree(t1, N)
      /\ \A n \in N :
           /\ Up(t1, n) = IF n = c /\ n # y THEN y ELSE IF n = x /\ y # c THEN Up(t, y) ELSE Up(t, n)
           /\ \A q \in Sides :
                Kid(t1, n, q) = IF n = y /\ q = "right" THEN IF y = c THEN x ELSE c
                                ELSE IF y # c /\ Kid(t, n, q) = y THEN x ELSE Kid(t, n, q)
  BY DEF IsOut, Relinked
<1>7. Red(t, k) \in BOOLEAN
  BY <1>1, TypedIs
<1> DEFINE p == Up(t, k)
<1>8. p \in N \cup {Nil} /\ p # k /\ (k = t.root <=> p = Nil) /\ p # y
      /\ \A n \in N, q \in Sides : Kid(t, n, q) = k <=> n = p /\ q = Side(t, k)
  <2>1. /\ k # t.root => p \in N /\ Kid(t, p, Side(t, k)) = k /\ Side(t, k) \in Sides
        /\ \A n \in N, q \in Sides : Kid(t, n, q) = k <=> n = p /\ q = Side(t, k)
    <3>1. CASE k = t.root
      BY <1>1, <3>1, RootIs
    <3>2. CASE k # t.root
      BY <1>1, <3>2, SideIs, RootIs
    <3>. QED BY <3>1, <3>2
  <2>2. p \in N \cup {Nil} /\ p # k /\ (k = t.root <=> p = Nil)
    BY <1>1, RootIs
  <2>3. p # y
    BY <1>1, <1>2, <2>1, <2>2
  <2>. QED BY <2>1, <2>2, <2>3
<1>. HIDE DEF N, c, l, tb, tc, td, p
<1>9. Up(t1, k) = p
  BY <1>1, <1>2, <1>3, <1>6 DEF p
<1>10. k # t.root => Side(t1, k) = Side(t, k)
  <2> SUFFICES ASSUME k # t.root PROVE Side(t1, k) = Side(t, k)
    OBVIOUS
  <2>1. p \in N /\ p # y
    BY <1>8
  <2>2. Kid(t1, p, "left") = k <=> Kid(t, p, "left") = k
    BY <1>1, <1>2, <1>6, <2>1
  <2>3. Side(t1, k) = IF k = Kid(t1, Up(t1, k), "left") THEN "left" ELSE "right"
    BY DEF Side, Kid, Up
  <2>4. Side(t, k) = IF k = Kid(t, Up(t, k), "left") THEN "left" ELSE "right"
    BY DEF Side, Kid, Up
  <2>. QED BY <1>9, <2>2, <2>3, <2>4 DEF p
<1>11. IsTransplanted(t1, tb, N, k, y)
  <2>1. Side(t1, k) \in Sides
    BY DEF Side, Sides
  <2>2. y \in N \cup {Nil} /\ Up(t1, k) \in N \cup {Nil} /\ TypedTree(t1, N) /\ k \in N
    BY <1>1, <1>6, <1>8, <1>9
  <2>. QED BY <2>1, <2>2, TransplantIs DEF tb
<1>12. /\ Relinked(t1, tb, N) /\ TypedTree(tb, N)
       /\ tb.root = IF k = t.root THEN y ELSE t.root
       /\ \A n \in N :
            /\ Up(tb, n) = IF n = y THEN p ELSE Up(t1, n)
            /\ \A q \in Sides : Kid(tb, n, q) = IF Kid(t, n, q) = k THEN y ELSE Kid(t1, n, q)
  <2>1. tb.root = IF k = t.root THEN y ELSE t.root
    BY <1>6, <1>8, <1>9, <1>11 DEF IsTransplanted
  <2>2. ASSUME NEW n \in N, NEW q \in Sides
        PROVE  Kid(tb, n, q) = IF Kid(t, n, q) = k THEN y ELSE Kid(t1, n, q)
    <3>1. Kid(tb, n, q) = IF n = p /\ q = Side(t1, k) THEN y ELSE Kid(t1, n, q)
      BY <1>9, <1>11 DEF IsTransplanted
    <3>2. n = p => k # t.root
      BY <1>1, <1>8
    <3>. QED BY <1>8, <1>10, <3>1, <3>2
  <2>. QED BY <1>9, <1>11, <2>1, <2>2 DEF IsTransplanted, Relinked
<1>13. /\ Relinked(tb, tc, N) /\ tc.root = tb.root /\ TypedTree(tc, N)
       /\ \A n \in N : /\ Up(tc, n) = Up(tb, n)
                       /\ \A q \in Sides : Kid(tc, n, q) = IF n = y /\ q = "left" THEN l ELSE Kid(tb, n, q)
  <2>1. TypedTree(tb, N) /\ l \in Keys \cup {Nil} /\ y \in N /\ "left" \in Sides
    BY <1>1, <1>3, <1>12
  <2>2. /\ Relinked(tb, tc, N) /\ tc.root = tb.root
        /\ \A n \in N : /\ Up(tc, n) = Up(tb, n)
                        /\ \A q \in Sides : Kid(tc, n, q) = IF n = y /\ q = "left" THEN l ELSE Kid(tb, n, q)
    BY <2>1, SetKid DEF tc
  <2>. QED BY <2>2 DEF Relinked
<1>14. /\ Relinked(tc, td, N) /\ td.root = tc.root /\ TypedTree(td, N)
       /\ \A n \in N : /\ Up(td, n) = IF n = l THEN y ELSE Up(tc, n)
                       /\ \A s \in Sides : Kid(td, n, s) = Kid(tc, n, s)
  <2>1. l \in N \cup {Nil} /\ y \in Keys \cup {Nil}
    BY <1>1, <1>3
  <2>2. /\ Relinked(tc, td, N) /\ td.root = tc.root
        /\ \A n \in N : /\ Up(td, n) = IF n = l THEN y ELSE Up(tc, n)
                        /\ \A s \in Sides : Kid(td, n, s) = Kid(tc, n, s)
    BY <1>13, <2>1, ParentedIs DEF td
  <2>. QED BY <2>2 DEF Relinked
<1>15. /\ TypedTree(r, N) /\ r.root = td.root
       /\ y # Nil => Red(r, y) = Red(t, k)
       /\ \A n \in N : /\ Up(r, n) = Up(td, n) /\ Value(r, n) = Value(td, n)
                       /\ n # y => Red(r, n) = Red(td, n)
                       /\ \A s \in Sides : Kid(r, n, s) = Kid(td, n, s)
  <2>1. y \in N \cup {Nil}
    BY <1>1
  <2>. QED BY <1>5, <1>7, <1>14, <2>1, PaintedIs
<1>16. r.root = Sub(k, y, x, t.root)
  BY <1>2, <1>12, <1>13, <1>14, <1>15 DEF Sub
<1>17. ASSUME NEW n \in N \ {k}
       PROVE  Red(r, n) = Red(t, Src(k, y, n)) /\ Value(r, n) = Value(t, n)
  <2>1. Value(r, n) = Value(t, n) /\ (n # y => Red(r, n) = Red(t, n))
    BY <1>6, <1>12, <1>13, <1>14, <1>15 DEF Relinked
  <2>2. CASE n = y
    <3>1. Red(r, y) = Red(t, k) /\ Src(k, y, n) = k
      BY <1>1, <1>15, <2>2 DEF Src
    <3>. QED BY <2>1, <2>2, <3>1
  <2>3. CASE n # y
    <3>1. Src(k, y, n) = n
      BY <2>3 DEF Src
    <3>. QED BY <2>1, <2>3, <3>1
  <2>. QED BY <2>2, <2>3
<1>18. ASSUME NEW n \in N \ {k}
       PROVE  Up(r, n) = Ren(k, y, Up(t, IF n = x THEN y ELSE Src(k, y, n)))
  <2>1. Up(r, n) = IF n = l THEN y ELSE IF n = y THEN p ELSE IF n = c /\ n # y THEN y
                   ELSE IF n = x /\ y # c THEN Up(t, y) ELSE Up(t, n)
    BY <1>6, <1>12, <1>13, <1>14, <1>15
  <2>2. CASE n = y
    <3>1. Up(r, n) = p /\ Src(k, y, n) = k /\ Ren(k, y, p) = p
      BY <1>4, <1>8, <2>1, <2>2 DEF Src, Ren
    <3>. QED BY <1>2, <2>2, <3>1 DEF p
  <2>3. CASE n # y /\ n = x
    <3>1. x # Nil /\ Up(t, x) = y /\ x # l /\ (x = c => FALSE)
      BY <1>1, <1>2, <1>3, <2>3
    <3>2. y = c => Up(t, y) = k
      BY <1>3
    <3>3. y # c => Up(t, y) # k
      <4> SUFFICES ASSUME y # c, Up(t, y) = k PROVE FALSE
        OBVIOUS
      <4>1. PICK s \in Sides : Kid(t, k, s) = y
        BY <1>1, <1>2, RootIs DEF N
      <4>. QED BY <1>1, <1>4, <4>1 DEF l, c
    <3>. QED BY <1>2, <2>1, <2>3, <3>1, <3>2, <3>3 DEF Ren
  <2>4. CASE n # y /\ n # x
    <3>1. Src(k, y, n) = n
      BY <2>4 DEF Src
    <3>2. Up(t, n) = k => n = l \/ n = c
      <4> SUFFICES ASSUME Up(t, n) = k PROVE n = l \/ n = c
        OBVIOUS
      <4>1. n # t.root
        BY <1>1, RootIs DEF N
      <4>2. PICK s \in Sides : Kid(t, k, s) = n
        BY <4>1, RootIs DEF N
      <4>. QED BY <1>1, <4>2 DEF l, c
    <3>. QED BY <1>3, <2>1, <2>4, <3>1, <3>2 DEF Ren
  <2>. QED BY <2>2, <2>3, <2>4
<1>19. ASSUME NEW n \in N \ {k}, NEW q \in Sides
       PROVE  Kid(r, n, q) = Sub(k, y, x, Kid(t, Src(k, y, n), q))
  <2>1. Kid(r, n, q) = IF n = y /\ q = "left" THEN l ELSE IF Kid(t, n, q) = k THEN y
                       ELSE IF n = y /\ q = "right" THEN IF y = c THEN x ELSE c
                       ELSE IF y # c /\ Kid(t, n, q) = y THEN x ELSE Kid(t, n, q)
    BY <1>6, <1>12, <1>13, <1>14, <1>15
  <2>2. CASE n = y
    <3>1. Src(k, y, n) = k /\ Kid(t, n, q) # k
      BY <1>1, <1>2, <2>2 DEF Src
    <3>2. CASE q = "left"
      <4>1. Kid(t, k, q) = l /\ Kid(r, n, q) = l
        BY <2>1, <2>2, <3>2 DEF l
      <4>. QED BY <1>3, <1>4, <3>1, <4>1 DEF Sub
    <3>3. CASE q = "right"
      <4>1. Kid(t, k, q) = c /\ Kid(r, n, q) = IF y = c THEN x ELSE c
        BY <2>1, <2>2, <3>1, <3>3 DEF c
      <4>. QED BY <1>3, <3>1, <4>1 DEF Sub
    <3>. QED BY <1>1, <3>2, <3>3
  <2>3. CASE n # y
    <3>1. Src(k, y, n) = n
      BY <2>3 DEF Src
    <3>2. Kid(t, n, q) = y /\ y = c => n = k
      BY <1>3 DEF Shape, Links, N
    <3>. QED BY <2>1, <2>3, <3>1, <3>2 DEF Sub
  <2>. QED BY <2>2, <2>3
<1>. QED BY <1>15, <1>16, <1>17, <1>18, <1>19 DEF IsCut, N

Joined(t, k, y, x) == IF y = k THEN Transplant(t, k, x) ELSE PutIn(t, TakenOut(t, k, y, x), k, y)
Spot(t, k) == LET z == t.node[k] IN IF z.left = Nil \/ z.right = Nil THEN k ELSE Leftmost(t, z.right)
Heir(t, k, y) == IF y # k \/ t.node[k].left = Nil THEN t.node[y].right ELSE t.node[k].left

LEMMA SpotIs ==
  ASSUME NEW t, NEW S, Shape(t, S), NEW k \in Nodes(t), NEW y, y = Spot(t, k), NEW x, x = Heir(t, k, y)
  PROVE  Spliced(t, S, k, y, x) /\ (y # k => x = Kid(t, y, "right"))
<1> DEFINE l == Kid(t, k, "left")
           c == Kid(t, k, "right")
<1>1. /\ y = IF l = Nil \/ c = Nil THEN k ELSE Leftmost(t, c)
      /\ x = IF y # k \/ l = Nil THEN Kid(t, y, "right") ELSE l
      /\ "left" \in Sides /\ "right" \in Sides /\ Other("left") = "right" /\ Other("right") = "left"
  BY KidSides DEF Spot, Heir, Kid, Sides, Other
<1>2. CASE l = Nil \/ c = Nil
  <2>1. y = k
    BY <1>1, <1>2
  <2>2. \E s \in Sides : x = Kid(t, y, s) /\ Kid(t, y, Other(s)) = Nil
    <3>1. CASE l = Nil
      BY <1>1, <2>1, <3>1
    <3>2. CASE l # Nil
      BY <1>1, <1>2, <2>1, <3>2
    <3>. QED BY <3>1, <3>2
  <2>. QED BY <2>1, <2>2 DEF Spliced
<1>3. CASE l # Nil /\ c # Nil
  <2>1. c \in Nodes(t) /\ y = Leftmost(t, c)
    BY <1>1, <1>3 DEF Shape, Links
  <2>2. IsLeast(t, S, c, y)
    BY <2>1, LeftmostIs
  <2>3. IsKid(t, S, k, "right", c)
    BY <1>1, <1>3, KidsAre
  <2>4. y # k /\ y \in Nodes(t) /\ Kid(t, y, "left") = Nil
    BY <2>2, <2>3 DEF IsLeast, IsKid
  <2>5. x = Kid(t, y, "right")
    BY <1>1, <2>4
  <2>6. \E s \in Sides : x = Kid(t, y, s) /\ Kid(t, y, Other(s)) = Nil
    BY <1>1, <2>4, <2>5
  <2>. QED BY <1>3, <2>2, <2>4, <2>5, <2>6 DEF Spliced
<1>. QED BY <1>2, <1>3

LEMMA JoinedIs ==
  ASSUME NEW t, NEW S, Shape(t, S), NEW k, NEW y, NEW x, Spliced(t, S, k, y, x),
         y # k => x = Kid(t, y, "right"), NEW r, r = Joined(t, k, y, x)
  PROVE  IsCut(t, r, k, y, x)
<1>1. CASE y = k
  BY <1>1, CutOneIs DEF Joined
<1>2. CASE y # k
  <2> DEFINE t1 == TakenOut(t, k, y, x)
  <2>1. r = PutIn(t, t1, k, y)
    BY <1>2 DEF Joined
  <2>2. IsOut(t, t1, k, y, x)
    BY <1>2, OutIs
  <2>. HIDE DEF t1
  <2>. QED BY <1>2, <2>1, <2>2, CutTwoIs
<1>. QED BY <1>1, <1>2

LEMMA LeftAre ==
  ASSUME NEW t, NEW S, Shape(t, S), NEW k \in Nodes(t), NEW y, NEW x, NEW c, IsCut(t, c, k, y, x),
         NEW r, r = [root |-> c.root, node |-> [n \in Nodes(t) \ {k} |-> c.node[n]]]
  PROVE  IsRemoved(t, r, k, y, x)
<1> DEFINE M == Nodes(t) \ {k}
<1>1. c.node \in [Nodes(t) -> Node] /\ c.root \in Keys \cup {Nil} /\ Nodes(t) \subseteq Keys
  BY DEF IsCut, TypedTree
<1>2. r.root = c.root /\ r.node \in [M -> Node] /\ \A n \in M : r.node[n] = c.node[n]
  BY <1>1
<1>3. r \in [root : Keys \cup {Nil}, node : [M -> Node]] /\ M \subseteq Keys
  BY <1>1
<1>4. TypedTree(r, M)
  BY <1>3 DEF TypedTree
<1>5. \A n \in M : /\ Up(r, n) = Up(c, n) /\ Red(r, n) = Red(c, n) /\ Value(r, n) = Value(c, n)
                   /\ \A q \in Sides : Kid(r, n, q) = Kid(c, n, q)
  BY <1>2 DEF Up, Red, Value, Kid
<1>. QED BY <1>2, <1>4, <1>5 DEF IsCut, IsRemoved

\* Where map_delete leaves the loop to begin.
Deleted(k, y, x) ==
  /\ op' = IF Red(tree, y) THEN "idle" ELSE "fix_delete"
  /\ at' = IF Red(tree, y) THEN Nil ELSE x
  /\ skipped' = (tree'.root # Nil /\ (skipped \/ (~Red(tree, y) /\ x = Nil)))
  /\ answer' = answer

LEMMA DeletedIs ==
  ASSUME NEW k \in Keys, DeleteKey(k), NEW S, Shape(tree, S)
  PROVE  \E y, x : /\ Spliced(tree, S, k, y, x) /\ IsRemoved(tree, tree', k, y, x)
                   /\ Deleted(k, y, x)
<1> DEFINE t == tree
           y == Spot(t, k)
           x == Heir(t, k, y)
           c == Joined(t, k, y, x)
<1>1. k \in Nodes(t)
  <2>1. Found(t, S, k, Search(t, k)) /\ Search(t, k).at = k /\ k # Nil
    BY SearchIs, TreeAssumption, Zenon DEF DeleteKey
  <2>. QED BY <2>1 DEF Found
<1>2. /\ tree' = [root |-> c.root, node |-> [n \in Nodes(tree) \ {k} |-> c.node[n]]]
      /\ op' = IF ~tree.node[y].red THEN "fix_delete" ELSE "idle"
      /\ at' = IF ~tree.node[y].red THEN x ELSE Nil
      /\ skipped' = (c.root # Nil /\ (skipped \/ (~tree.node[y].red /\ x = Nil)))
      /\ answer' = answer
  BY Zenon DEF DeleteKey, Joined, Spot, Heir, TakenOut, PutIn
<1>3. Spliced(t, S, k, y, x) /\ (y # k => x = Kid(t, y, "right"))
  BY <1>1, SpotIs
<1>. HIDE DEF y, x
<1>4. IsCut(t, c, k, y, x)
  BY <1>3, JoinedIs
<1>. HIDE DEF c
<1>5. IsRemoved(t, tree', k, y, x)
  BY <1>1, <1>2, <1>4, LeftAre
<1>6. tree'.root = c.root
  BY <1>2
<1>7. Deleted(k, y, x)
  <2>1. op' = IF Red(tree, y) THEN "idle" ELSE "fix_delete"
    BY <1>2 DEF Red
  <2>2. at' = IF Red(tree, y) THEN Nil ELSE x
    BY <1>2 DEF Red
  <2>3. skipped' = (tree'.root # Nil /\ (skipped \/ (~Red(tree, y) /\ x = Nil)))
    BY <1>2, <1>6, Zenon DEF Red
  <2>. QED BY <1>2, <2>1, <2>2, <2>3 DEF Deleted
<1>. QED BY <1>3, <1>5, <1>7

-----------------------------------------------------------------------------
(* RbTree: a red child is turned up. *)

\* Where y, the child on the other side, and its children are.
Around(t, x, s, y) ==
  /\ y = Kid(t, x, Other(s)) /\ y \in Nodes(t) /\ y # Nil /\ y # x /\ y # t.root /\ Up(t, y) = x
  /\ Up(t, x) # x /\ Up(t, x) # y
  /\ \A q \in Sides :
       /\ Kid(t, x, q) # x /\ Kid(t, y, q) \notin {x, y}
       /\ Kid(t, x, q) \in Nodes(t) \cup {Nil} /\ Kid(t, y, q) \in Nodes(t) \cup {Nil}
  /\ \A n \in Nodes(t), q \in Sides : Kid(t, n, q) = y <=> n = x /\ q = Other(s)
  /\ \A n \in Nodes(t) :
       /\ Up(t, n) = x => n \in {Kid(t, x, s), y}
       /\ Up(t, n) = y => n \in {Kid(t, y, s), Kid(t, y, Other(s))}

LEMMA AroundIs ==
  ASSUME NEW t, NEW S, Shape(t, S), NEW x \in Nodes(t), NEW s \in Sides, Kid(t, x, Other(s)) # Nil
  PROVE  Around(t, x, s, Kid(t, x, Other(s)))
<1> DEFINE N == Nodes(t)
           o == Other(s)
           y == Kid(t, x, o)
<1>1. /\ o \in Sides /\ s \in Sides /\ o # s /\ (\A q \in Sides : q = s \/ q = o) /\ s = Other(o)
      /\ Nil \notin N
  BY SidesAre, NilIsNoKey DEF Shape
<1>2. IsKid(t, S, x, o, y)
  BY <1>1, KidsAre
<1>3. /\ y \in N /\ y # Nil /\ y # x /\ Up(t, y) = x /\ y # Kid(t, x, s)
      /\ \A q \in Sides : Kid(t, y, q) \notin {x, y}
  BY <1>1, <1>2 DEF IsKid
<1>4. \A n \in N, q \in Sides : /\ Kid(t, n, q) \in N \cup {Nil}
                                /\ Kid(t, n, q) # Nil => Up(t, Kid(t, n, q)) = n
  BY DEF Shape, Links
<1>5. Up(t, x) # x /\ y # t.root /\ \A q \in Sides : Kid(t, x, q) # x
  <2>1. Up(t, x) # x /\ y # t.root
    BY <1>1, RootIs
  <2>2. x # Nil
    BY <1>1
  <2>. QED BY <1>4, <2>1, <2>2
<1>6. \A n \in N, q \in Sides : Kid(t, n, q) = y <=> n = x /\ q = o
  BY <1>1, <1>3, <1>4
<1>7. \A n \in N, m \in N : Up(t, n) = m => n = Kid(t, m, s) \/ n = Kid(t, m, o)
  <2> SUFFICES ASSUME NEW n \in N, NEW m \in N, Up(t, n) = m
               PROVE  n = Kid(t, m, s) \/ n = Kid(t, m, o)
    OBVIOUS
  <2>1. n # t.root
    BY <1>1, RootIs
  <2>2. \E q \in Sides : Kid(t, m, q) = n
    BY <2>1, RootIs
  <2>. QED BY <1>1, <2>2
<1>8. Up(t, x) # y
  <2> SUFFICES ASSUME Up(t, x) = y PROVE FALSE
    OBVIOUS
  <2>1. x = Kid(t, y, s) \/ x = Kid(t, y, o)
    BY <1>3, <1>7
  <2>. QED BY <1>1, <1>3, <2>1
<1>. HIDE DEF y, o
<1>9. x \in N
  OBVIOUS
<1>. QED BY <1>1, <1>3, <1>4, <1>5, <1>6, <1>7, <1>8, <1>9 DEF Around, o, y

\* r is t after a rotation at x that leaves x red and gives its colour to y.
IsTurned(t, r, x, s, y) ==
  LET b == Kid(t, y, s) IN
  /\ Shaped(r) /\ Nodes(r) = Nodes(t)
  /\ r.root = IF x = t.root THEN y ELSE t.root
  /\ \A n \in Nodes(t) :
       /\ Value(r, n) = Value(t, n)
       /\ Up(r, n) = IF n = x THEN y ELSE IF n = y THEN Up(t, x) ELSE IF n = b THEN x ELSE Up(t, n)
       /\ \A q \in Sides : Kid(r, n, q) = IF n = x /\ q = Other(s) THEN b
                                          ELSE IF n = y /\ q = s THEN x
                                          ELSE IF Kid(t, n, q) = x THEN y ELSE Kid(t, n, q)
       /\ n \notin {x, y} => Red(r, n) = Red(t, n)
  /\ Red(r, x) = TRUE /\ Red(r, y) = Red(t, x)

LEMMA TurnIs ==
  ASSUME NEW t, NEW S, Shape(t, S), NEW x \in Nodes(t), NEW s \in Sides,
         NEW y, y = Kid(t, x, Other(s)), y # Nil,
         NEW q, TypedTree(q, Nodes(t)), q.root = t.root,
         \A n \in Nodes(t) : /\ Up(q, n) = Up(t, n) /\ Value(q, n) = Value(t, n)
                             /\ \A p \in Sides : Kid(q, n, p) = Kid(t, n, p)
                             /\ n \notin {x, y} => Red(q, n) = Red(t, n),
         Red(q, x) = TRUE, Red(q, y) = Red(t, x),
         NEW r, r = Rotate(q, x, s)
  PROVE  IsTurned(t, r, x, s, y)
<1> DEFINE N == Nodes(t)
           b == Kid(t, y, s)
<1>1. Shape(q, S) /\ Nodes(q) = N
  BY PaintedShape
<1>2. Other(s) \in Sides /\ Around(t, x, s, y)
  BY SidesAre, AroundIs
<1>3. Kid(q, x, Other(s)) = y /\ Kid(q, y, s) = b /\ x \in N /\ y \in N
  BY <1>2 DEF Around
<1>4. IsRotated(q, r, N, x, s)
  BY <1>1, <1>3, RotateIs
<1>5. Shape(r, TurnedUnder(q, S, x, s)) /\ Nodes(r) = N
  BY <1>1, <1>3, <1>4, RotatedShape
<1>6. Shaped(r)
  BY <1>5 DEF Shaped, Shape, Under
<1>. HIDE DEF N, b
<1>7. /\ r.root = IF x = t.root THEN y ELSE t.root
      /\ \A n \in N :
           /\ Up(r, n) = IF n = x THEN y ELSE IF n = y THEN Up(q, x) ELSE IF n = b THEN x ELSE Up(q, n)
           /\ \A p \in Sides : Kid(r, n, p) = IF n = x /\ p = Other(s) THEN b
                                              ELSE IF n = y /\ p = s THEN x
                                              ELSE IF Kid(q, n, p) = x THEN y ELSE Kid(q, n, p)
           /\ Red(r, n) = Red(q, n) /\ Value(r, n) = Value(q, n)
  BY <1>3, <1>4 DEF IsRotated, Relinked
<1>8. \A n \in N : Value(r, n) = Value(t, n) /\ (n \notin {x, y} => Red(r, n) = Red(t, n))
  BY <1>7 DEF N
<1>9. Red(r, x) = TRUE /\ Red(r, y) = Red(t, x)
  BY <1>3, <1>7
<1>10. \A n \in N :
         /\ Up(r, n) = IF n = x THEN y ELSE IF n = y THEN Up(t, x) ELSE IF n = b THEN x ELSE Up(t, n)
         /\ \A p \in Sides : Kid(r, n, p) = IF n = x /\ p = Other(s) THEN b
                                            ELSE IF n = y /\ p = s THEN x
                                            ELSE IF Kid(t, n, p) = x THEN y ELSE Kid(t, n, p)
  BY <1>7 DEF N
<1>. QED BY <1>5, <1>6, <1>7, <1>8, <1>9, <1>10 DEF IsTurned, N, b

\* r is t with the node v painted.
IsPainted(t, r, N, v, b) ==
  /\ TypedTree(r, N) /\ r.root = t.root
  /\ v # Nil => Red(r, v) = b
  /\ \A n \in N : /\ Up(r, n) = Up(t, n) /\ Value(r, n) = Value(t, n)
                  /\ n # v => Red(r, n) = Red(t, n)
                  /\ \A s \in Sides : Kid(r, n, s) = Kid(t, n, s)

LEMMA PaintedEither ==
  ASSUME NEW N, NEW t, TypedTree(t, N), NEW v \in N \cup {Nil}
  PROVE  \A b \in BOOLEAN : IsPainted(t, Painted(t, v, b), N, v, b)
<1> SUFFICES ASSUME NEW b \in BOOLEAN PROVE IsPainted(t, Painted(t, v, b), N, v, b)
  OBVIOUS
<1> DEFINE r == Painted(t, v, b)
<1>. HIDE DEF r
<1>1. r = Painted(t, v, b)
  BY DEF r
<1>2. IsPainted(t, r, N, v, b)
  BY <1>1, PaintedIs DEF IsPainted
<1>. QED BY <1>1, <1>2

LEMMA PaintedBlack ==
  ASSUME NEW N, NEW t, TypedTree(t, N), NEW v \in N \cup {Nil}
  PROVE  IsPainted(t, Painted(t, v, FALSE), N, v, FALSE)
BY PaintedEither, Zenon

LEMMA PaintedRed ==
  ASSUME NEW N, NEW t, TypedTree(t, N), NEW v \in N \cup {Nil}
  PROVE  IsPainted(t, Painted(t, v, TRUE), N, v, TRUE)
BY PaintedEither, Zenon

\* Both nodes red: no colour changes.
LEMMA TurnedInside ==
  ASSUME NEW t, NEW S, Shape(t, S), NEW x \in Nodes(t), NEW s \in Sides,
         NEW y, y = Kid(t, x, Other(s)), y # Nil, Red(t, x) = TRUE, Red(t, y) = TRUE,
         NEW r, r = Rotate(t, x, s)
  PROVE  IsTurned(t, r, x, s, y)
BY TurnIs DEF Shape

\* A black node and a red one: the two are painted first.
LEMMA TurnedOver ==
  ASSUME NEW t, NEW S, Shape(t, S), NEW x \in Nodes(t), NEW s \in Sides,
         NEW y, y = Kid(t, x, Other(s)), y # Nil, Red(t, x) = FALSE,
         NEW r, r = Rotate(Painted(Painted(t, y, FALSE), x, TRUE), x, s)
  PROVE  IsTurned(t, r, x, s, y)
<1> DEFINE N == Nodes(t)
           q1 == Painted(t, y, FALSE)
           q == Painted(q1, x, TRUE)
<1>1. Around(t, x, s, y)
  BY AroundIs
<1>2. y \in N /\ x \in N /\ x # Nil /\ y # x /\ TypedTree(t, N)
  BY <1>1, NilIsNoKey DEF Around, Shape
<1>. HIDE DEF N, q, q1
<1>3. IsPainted(t, q1, N, y, FALSE)
  <2>1. y \in N \cup {Nil}
    BY <1>2
  <2>. QED BY <1>2, <2>1, PaintedBlack, Zenon DEF q1
<1>4. IsPainted(q1, q, N, x, TRUE)
  <2>1. x \in N \cup {Nil} /\ TypedTree(q1, N)
    BY <1>2, <1>3 DEF IsPainted
  <2>. QED BY <2>1, PaintedRed, Zenon DEF q
<1>5. r = Rotate(q, x, s)
  BY Zenon DEF q, q1
<1>6. Red(q, y) = Red(t, x) /\ Red(q, x) = TRUE
  BY <1>2, <1>3, <1>4 DEF IsPainted
<1>7. /\ q.root = t.root /\ TypedTree(q, N)
      /\ \A n \in N : /\ Up(q, n) = Up(t, n) /\ Value(q, n) = Value(t, n)
                      /\ \A p \in Sides : Kid(q, n, p) = Kid(t, n, p)
                      /\ n \notin {x, y} => Red(q, n) = Red(t, n)
  BY <1>3, <1>4 DEF IsPainted
<1>. QED BY <1>5, <1>6, <1>7, TurnIs DEF N

LEMMA RedIs ==
  ASSUME NEW t, NEW S, Shape(t, S)
  PROVE  /\ \A n \in Nodes(t) : n # Nil /\ (IsRed(t, n) <=> Red(t, n) = TRUE) /\ Red(t, n) \in BOOLEAN
         /\ ~IsRed(t, Nil)
<1>1. Nil \notin Nodes(t) /\ \A n \in Nodes(t) : Red(t, n) \in BOOLEAN
  BY NilIsNoKey, TypedIs DEF Shape
<1>. QED BY <1>1 DEF IsRed, Red

\* The pairs of red nodes there are after the rotation.
PairOf(t, x, s, y, n) ==
  \/ n = x /\ IsRed(t, x)
  \/ n = y /\ Pair(t, x)
  \/ n \notin {x, y} /\ Pair(t, n) /\ (n = Kid(t, y, Other(s)) => IsRed(t, x))

LEMMA TurnedPairs ==
  ASSUME NEW t, NEW S, Shape(t, S), NEW x \in Nodes(t), NEW s \in Sides, NEW y, Around(t, x, s, y),
         Red(t, y) = TRUE, ~IsRed(t, Kid(t, x, s)), NEW r, IsTurned(t, r, x, s, y),
         NEW n \in Nodes(t), Pair(r, n)
  PROVE  PairOf(t, x, s, y, n)
<1> DEFINE N == Nodes(t)
           a == Kid(t, x, s)
           b == Kid(t, y, s)
           d == Kid(t, y, Other(s))
           u == Up(t, n)
<1>1. PICK S2 : Shape(r, S2)
  BY DEF IsTurned, Shaped
<1>2. /\ \A m \in N : m # Nil /\ (IsRed(t, m) <=> Red(t, m) = TRUE) /\ Red(t, m) \in BOOLEAN
      /\ \A m \in N : IsRed(r, m) <=> Red(r, m) = TRUE
      /\ ~IsRed(t, Nil) /\ ~IsRed(r, Nil)
  BY <1>1, RedIs DEF IsTurned
<1>3. /\ y \in N /\ y # x /\ Up(t, y) = x /\ Up(t, x) # x /\ Up(t, x) # y
      /\ Up(t, n) = x => n \in {a, y}
      /\ Up(t, n) = y => n \in {b, d}
  BY DEF Around
<1>4. /\ Up(r, n) = IF n = x THEN y ELSE IF n = y THEN Up(t, x) ELSE IF n = b THEN x ELSE u
      /\ \A m \in N : m \notin {x, y} => Red(r, m) = Red(t, m)
      /\ Red(r, x) = TRUE /\ Red(r, y) = Red(t, x)
  BY DEF IsTurned
<1>5. /\ \A m \in N : Up(t, m) \in N \cup {Nil}
      /\ d # Nil /\ d = b => FALSE
      /\ b # Nil => Up(t, b) = y
      /\ d # Nil => Up(t, d) = y
  <2>1. \A m \in N : Up(t, m) \in N \cup {Nil}
    BY RootIs
  <2>2. d # Nil => d # b
    <3>1. Other(s) \in Sides /\ Other(Other(s)) = s
      BY SidesAre
    <3>2. d # Nil => IsKid(t, S, y, Other(s), d)
      BY <1>3, <3>1, KidsAre
    <3>. QED BY <3>1, <3>2 DEF IsKid
  <2>3. (b # Nil => Up(t, b) = y) /\ (d # Nil => Up(t, d) = y)
    BY <1>3, SidesAre DEF Shape, Links
  <2>. QED BY <2>1, <2>2, <2>3
<1>6. IsRed(r, n) /\ IsRed(r, Up(r, n))
  BY DEF Pair
<1>7. x \in N /\ n \in N
  OBVIOUS
<1>8. ~IsRed(t, a) /\ Red(t, y) = TRUE
  OBVIOUS
<1>. HIDE DEF N, a, b, d, u
<1>9. ASSUME n = x PROVE IsRed(t, x)
  BY <1>2, <1>3, <1>4, <1>6, <1>7, <1>9
<1>10. ASSUME n = y PROVE Pair(t, x)
  <2>1. IsRed(t, x)
    BY <1>2, <1>3, <1>4, <1>6, <1>7, <1>10
  <2>2. IsRed(r, Up(t, x))
    BY <1>3, <1>4, <1>6, <1>10
  <2>3. IsRed(t, Up(t, x))
    BY <1>2, <1>3, <1>4, <1>5, <1>7, <2>2
  <2>. QED BY <1>10, <2>1, <2>3 DEF Pair
<1>11. ASSUME n \notin {x, y} PROVE Pair(t, n) /\ (n = d => IsRed(t, x))
  <2>1. IsRed(t, n)
    BY <1>2, <1>4, <1>6, <1>7, <1>11
  <2>2. IsRed(t, y)
    BY <1>2, <1>3, <1>8
  <2>3. CASE n = b
    <3>1. u = y /\ n # d
      BY <1>2, <1>5, <1>7, <2>3 DEF u
    <3>. QED BY <1>11, <2>1, <2>2, <3>1 DEF Pair, u, d
  <2>4. CASE n # b
    <3>1. Up(r, n) = u /\ u # x
      BY <1>3, <1>4, <1>8, <1>11, <2>1, <2>4 DEF u
    <3>2. CASE u = y
      <4>1. IsRed(t, x)
        BY <1>2, <1>3, <1>4, <1>6, <1>7, <3>1, <3>2
      <4>. QED BY <1>11, <2>1, <2>2, <3>2, <4>1 DEF Pair, u
    <3>3. CASE u # y
      <4>1. IsRed(t, u)
        BY <1>2, <1>4, <1>5, <1>6, <1>7, <3>1, <3>3 DEF u
      <4>2. n # d
        BY <1>2, <1>5, <1>7, <3>3 DEF u
      <4>. QED BY <1>11, <2>1, <4>1, <4>2 DEF Pair, u, d
    <3>. QED BY <3>2, <3>3
  <2>. QED BY <2>3, <2>4
<1>12. \/ n = x /\ IsRed(t, x)
       \/ n = y /\ Pair(t, x)
       \/ n \notin {x, y} /\ Pair(t, n) /\ (n = d => IsRed(t, x))
  BY <1>9, <1>10, <1>11
<1>. QED BY <1>12 DEF PairOf, d

LEMMA TurnedRoot ==
  ASSUME NEW t, NEW S, Shape(t, S), NEW x \in Nodes(t), NEW s \in Sides, NEW y, Around(t, x, s, y),
         NEW r, IsTurned(t, r, x, s, y)
  PROVE  IsRed(r, r.root) <=> IsRed(t, t.root)
<1>1. PICK S2 : Shape(r, S2)
  BY DEF IsTurned, Shaped
<1>2. /\ \A m \in Nodes(t) : IsRed(t, m) <=> Red(t, m) = TRUE
      /\ \A m \in Nodes(t) : IsRed(r, m) <=> Red(r, m) = TRUE
  BY <1>1, RedIs DEF IsTurned
<1>3. y \in Nodes(t) /\ y # t.root /\ t.root \in Nodes(t)
  BY RootIs DEF Around
<1>4. CASE x = t.root
  <2>1. r.root = y /\ Red(r, y) = Red(t, x)
    BY <1>4 DEF IsTurned
  <2>. QED BY <1>2, <1>3, <1>4, <2>1
<1>5. CASE x # t.root
  <2>1. r.root = t.root /\ Red(r, t.root) = Red(t, t.root)
    BY <1>3, <1>5 DEF IsTurned
  <2>. QED BY <1>2, <1>3, <2>1
<1>. QED BY <1>4, <1>5

\* As many black nodes as before on every way.
LEMMA TurnedBalance ==
  ASSUME NEW t, NEW S, Shape(t, S), NEW x \in Nodes(t), NEW s \in Sides, NEW y, Around(t, x, s, y),
         NEW h, NEW e, Balanced(t, h, e), e \notin {x, y},
         Red(t, y) = TRUE, NEW r, IsTurned(t, r, x, s, y)
  PROVE  Balanced(r, h, e)
<1> DEFINE N == Nodes(t)
           o == Other(s)
           b == Kid(t, y, s)
           W(c) == Weight(t, h, e, c)
           W2(c) == Weight(r, h, e, c)
<1>1. o \in Sides /\ o # s
  BY SidesAre
<1>2. /\ y \in N /\ y # x /\ y # Nil /\ b \notin {x, y} /\ b \in N \cup {Nil}
      /\ \A n \in N, q \in Sides : Kid(t, n, q) = y <=> n = x /\ q = o
      /\ \A q \in Sides : Kid(t, x, q) # x /\ Kid(t, y, q) # x
  BY DEF Around
<1>3. /\ Nodes(r) = N
      /\ \A n \in N, q \in Sides : Kid(r, n, q) = IF n = x /\ q = o THEN b
                                                  ELSE IF n = y /\ q = s THEN x
                                                  ELSE IF Kid(t, n, q) = x THEN y ELSE Kid(t, n, q)
      /\ \A m \in N : m \notin {x, y} => Red(r, m) = Red(t, m)
      /\ Red(r, x) = TRUE /\ Red(r, y) = Red(t, x)
  BY DEF IsTurned
<1>4. h \in [N -> Nat] /\ \A n \in N, q \in Sides : W(Kid(t, n, q)) = h[n]
  BY DEF Balanced
<1>5. x \in N /\ x # Nil /\ (\A n \in N, q \in Sides : Kid(t, n, q) \in N \cup {Nil})
  BY NilIsNoKey DEF Shape, Links
<1>6. e \notin {x, y} /\ Red(t, y) = TRUE
  OBVIOUS
<1>7. \A c \in N \cup {Nil} : c \notin {x, y} => W2(c) = W(c)
  BY <1>3 DEF Weight
<1>8. h[x] = h[y] /\ h[x] \in Nat
  <2>1. W(y) = h[x]
    BY <1>1, <1>2, <1>4, <1>5
  <2>2. W(y) = h[y] + 0 + 0
    BY <1>2, <1>6 DEF Weight
  <2>. HIDE DEF W
  <2>. QED BY <1>2, <1>4, <1>5, <2>1, <2>2
<1>9. W2(x) = h[x] /\ W2(y) = W(x)
  <2>1. W2(x) = h[x] + 0 + 0
    BY <1>3, <1>5, <1>6 DEF Weight
  <2>2. W2(y) = h[y] + (IF Red(t, x) THEN 0 ELSE 1) + 0
    BY <1>2, <1>3, <1>6 DEF Weight
  <2>3. W(x) = h[x] + (IF Red(t, x) THEN 0 ELSE 1) + 0
    BY <1>5, <1>6 DEF Weight
  <2>. HIDE DEF W, W2
  <2>. QED BY <1>8, <2>1, <2>2, <2>3
<1>. HIDE DEF N, o, b, W, W2
<1>10. ASSUME NEW n \in N, NEW q \in Sides PROVE W2(Kid(r, n, q)) = h[n]
  <2>1. CASE n = x /\ q = o
    <3>1. W(b) = h[y]
      BY <1>2, <1>4 DEF b
    <3>. QED BY <1>2, <1>3, <1>7, <1>8, <2>1, <3>1
  <2>2. CASE n = y /\ q = s
    BY <1>2, <1>3, <1>8, <1>9, <2>2
  <2>3. CASE Kid(t, n, q) = x
    <3>1. Kid(r, n, q) = y
      BY <1>2, <1>3, <2>3
    <3>. QED BY <1>4, <1>9, <2>3, <3>1
  <2>4. CASE ~(n = x /\ q = o) /\ ~(n = y /\ q = s) /\ Kid(t, n, q) # x
    <3>1. Kid(r, n, q) = Kid(t, n, q) /\ Kid(t, n, q) # y
      BY <1>2, <1>3, <2>4
    <3>. QED BY <1>4, <1>5, <1>7, <2>4, <3>1
  <2>. QED BY <2>1, <2>2, <2>3, <2>4
<1>. QED BY <1>3, <1>4, <1>10 DEF Balanced, N, W2

-----------------------------------------------------------------------------
(* RbTree: fix_insert. *)

\* The same keys with the same values.
Same(t, r) == Nodes(r) = Nodes(t) /\ \A n \in Nodes(t) : Value(r, n) = Value(t, n)

LEMMA PaintedSame ==
  ASSUME NEW t, NEW S, Shape(t, S), NEW v, NEW b, NEW r, IsPainted(t, r, Nodes(t), v, b)
  PROVE  Shape(r, S) /\ Same(t, r)
<1>1. Shape(r, S) /\ Nodes(r) = Nodes(t)
  BY PaintedShape DEF IsPainted
<1>. QED BY <1>1 DEF IsPainted, Same

\* No pair is left, and z is where the loop goes on.
IsRaised(t, r, z) ==
  /\ Shaped(r) /\ Same(t, r) /\ (IsRed(r, r.root) <=> IsRed(t, t.root))
  /\ z \in Nodes(t) /\ Red(r, z) = Red(t, z)
  /\ \A n \in Nodes(t) : ~Pair(r, n)
  /\ \A h : Balanced(t, h, Nil) => Balanced(r, h, Nil)

\* The outer grandchild: the red parent goes up, and no pair is left.
LEMMA OuterTurned ==
  ASSUME NEW t, NEW S, Shape(t, S), NEW g \in Nodes(t), NEW s \in Sides,
         NEW p, p = Kid(t, g, s), p # Nil, NEW z, z = Kid(t, p, s), z # Nil,
         Red(t, p) = TRUE, Red(t, g) = FALSE, ~IsRed(t, Kid(t, g, Other(s))),
         \A n \in Nodes(t) : Pair(t, n) => n = z,
         NEW r, IsTurned(t, r, g, Other(s), p)
  PROVE  IsRaised(t, r, z)
<1> DEFINE N == Nodes(t)
           o == Other(s)
<1>1. o \in Sides /\ Other(o) = s
  BY SidesAre
<1>2. Around(t, g, o, p)
  BY <1>1, AroundIs
<1>3. IsTurned(t, r, g, o, p)
  OBVIOUS
<1>4. p \in N /\ p # g /\ z \in N /\ z \notin {g, p}
  BY <1>2 DEF Around
<1>5. Shaped(r) /\ Same(t, r) /\ Red(r, z) = Red(t, z)
  BY <1>3, <1>4 DEF IsTurned, Same
<1>6. IsRed(r, r.root) <=> IsRed(t, t.root)
  <2>. HIDE DEF o, N
  <2>. QED BY <1>1, <1>2, <1>3, TurnedRoot
<1>7. ~IsRed(t, g)
  BY RedIs
<1>8. ASSUME NEW n \in N, Pair(r, n) PROVE FALSE
  <2>1. PairOf(t, g, o, p, n)
    <3>1. Red(t, p) = TRUE /\ ~IsRed(t, Kid(t, g, o)) /\ n \in Nodes(t)
      OBVIOUS
    <3>. HIDE DEF o
    <3>. QED BY <1>1, <1>2, <1>3, <1>8, <3>1, TurnedPairs, Zenon
  <2>2. \/ n = g /\ IsRed(t, g)
        \/ n = p /\ Pair(t, g)
        \/ n \notin {g, p} /\ Pair(t, n) /\ (n = Kid(t, p, Other(o)) => IsRed(t, g))
    BY <2>1, Zenon DEF PairOf
  <2>. QED BY <1>1, <1>4, <1>7, <2>2
<1>9. ASSUME NEW h, Balanced(t, h, Nil) PROVE Balanced(r, h, Nil)
  <2>1. Nil \notin {g, p}
    BY <1>4, NilIsNoKey DEF Shape
  <2>. QED BY <1>1, <1>2, <1>3, <1>9, <2>1, TurnedBalance
<1>. QED BY <1>4, <1>5, <1>6, <1>8, <1>9 DEF IsRaised

LEMMA OuterTurn ==
  ASSUME NEW t, NEW S, Shape(t, S), NEW g \in Nodes(t), NEW s \in Sides,
         NEW p, p = Kid(t, g, s), p # Nil, NEW z, z = Kid(t, p, s), z # Nil,
         Red(t, p) = TRUE, Red(t, g) = FALSE, ~IsRed(t, Kid(t, g, Other(s))),
         \A n \in Nodes(t) : Pair(t, n) => n = z,
         NEW r, r = Rotate(Painted(Painted(t, p, FALSE), g, TRUE), g, Other(s))
  PROVE  IsRaised(t, r, z)
<1>1. Other(s) \in Sides /\ Other(Other(s)) = s
  BY SidesAre
<1>2. IsTurned(t, r, g, Other(s), p)
  BY <1>1, TurnedOver
<1>. QED BY <1>2, OuterTurned

IsInner(t, r, g, p, z, s) ==
  /\ Shaped(r) /\ Same(t, r) /\ (IsRed(r, r.root) <=> IsRed(t, t.root))
  /\ z = Kid(r, g, s) /\ p = Kid(r, z, s) /\ p \in Nodes(t)
  /\ Kid(r, g, Other(s)) = Kid(t, g, Other(s)) /\ Up(r, p) = z
  /\ Red(r, z) = TRUE /\ Red(r, p) = TRUE /\ Red(r, g) = FALSE
  /\ (~IsRed(t, Kid(t, g, Other(s))) => ~IsRed(r, Kid(t, g, Other(s))))
  /\ \A n \in Nodes(t) : Pair(r, n) => n = p
  /\ \A h : Balanced(t, h, Nil) => Balanced(r, h, Nil)

\* The inner grandchild: it goes up over the parent first, and the two are then
\* as above with their places changed.
LEMMA InnerTurn ==
  ASSUME NEW t, NEW S, Shape(t, S), NEW g \in Nodes(t), NEW s \in Sides,
         NEW p, p = Kid(t, g, s), p # Nil, NEW z, z = Kid(t, p, Other(s)), z # Nil,
         Red(t, p) = TRUE, Red(t, z) = TRUE, Red(t, g) = FALSE,
         \A n \in Nodes(t) : Pair(t, n) => n = z,
         NEW r, r = Rotate(t, p, s)
  PROVE  IsInner(t, r, g, p, z, s)
<1> DEFINE N == Nodes(t)
           o == Other(s)
           u == Kid(t, g, o)
<1>1. o \in Sides /\ Other(o) = s /\ o # s
  BY SidesAre
<1>2. Around(t, g, o, p)
  BY <1>1, AroundIs
<1>3. p \in N /\ p # g /\ Up(t, p) = g /\ z \in N /\ z \notin {g, p} /\ z # Nil /\ u \in N \cup {Nil}
      /\ u # p
  BY <1>1, <1>2 DEF Around
<1>4. Around(t, p, s, z) /\ IsTurned(t, r, p, s, z)
  BY <1>3, AroundIs, TurnedInside
<1>5. Up(t, z) = p /\ u # z /\ Up(t, g) # p
  <2>1. Up(t, z) = p
    BY <1>4 DEF Around
  <2>2. u # z
    BY <1>1, <1>3, <2>1 DEF Shape, Links
  <2>3. Up(t, g) # p
    BY <1>2 DEF Around
  <2>. QED BY <2>1, <2>2, <2>3
<1>6. /\ \A n \in N : /\ Red(t, n) \in BOOLEAN /\ n # Nil /\ (IsRed(t, n) <=> Red(t, n) = TRUE)
                      /\ n \notin {p, z} => Red(r, n) = Red(t, n)
      /\ Red(r, p) = TRUE /\ Red(r, z) = TRUE
      /\ Shaped(r) /\ Same(t, r)
      /\ ~IsRed(t, Nil) /\ ~IsRed(r, Nil)
  BY <1>4, RedIs DEF IsTurned, Same, IsRed
<1>7. Kid(r, g, s) = z /\ Kid(r, z, s) = p /\ Kid(r, g, o) = u /\ Up(r, p) = z
  BY <1>1, <1>3, <1>4, <1>5 DEF IsTurned
<1>8. IsRed(r, r.root) <=> IsRed(t, t.root)
  BY <1>3, <1>4, TurnedRoot
<1>9. ~IsRed(t, Kid(t, p, s))
  <2> SUFFICES ASSUME IsRed(t, Kid(t, p, s)) PROVE FALSE
    OBVIOUS
  <2> DEFINE c == Kid(t, p, s)
  <2>1. c \in N \cup {Nil} /\ (c # Nil => Up(t, c) = p)
    BY <1>3 DEF Shape, Links
  <2>9. c # z
    <3>1. z = Kid(t, p, s) <=> s = o
      BY <1>3, <1>4 DEF Around
    <3>. QED BY <1>1, <3>1
  <2>2. c \in N /\ Pair(t, c)
    BY <1>3, <1>6, <2>1 DEF Pair
  <2>. QED BY <2>2, <2>9
<1>10. ASSUME NEW n \in N, Pair(r, n) PROVE n = p
  <2>1. PairOf(t, p, s, z, n)
    <3>1. Red(t, z) = TRUE /\ n \in Nodes(t) /\ p \in Nodes(t)
      BY <1>3
    <3>2. Pair(r, n)
      BY <1>10
    <3>. HIDE DEF N
    <3>. QED BY <1>4, <1>9, <3>1, <3>2, TurnedPairs, Zenon
  <2>2. \/ n = p /\ IsRed(t, p)
        \/ n = z /\ Pair(t, p)
        \/ n \notin {p, z} /\ Pair(t, n) /\ (n = Kid(t, z, Other(s)) => IsRed(t, p))
    BY <2>1, Zenon DEF PairOf
  <2>. QED BY <1>3, <2>2
<1>11. ASSUME NEW h, Balanced(t, h, Nil) PROVE Balanced(r, h, Nil)
  <2>1. Nil \notin {p, z}
    BY <1>3, <1>6
  <2>. QED BY <1>3, <1>4, <1>11, <2>1, TurnedBalance
<1>12. ~IsRed(t, u) => ~IsRed(r, u)
  BY <1>3, <1>5, <1>6 DEF IsRed, Red
<1>13. Red(r, g) = FALSE
  BY <1>3, <1>6
<1>. QED BY <1>3, <1>6, <1>7, <1>8, <1>10, <1>11, <1>12, <1>13 DEF IsInner

IsRecoloured(t, r, g) ==
  /\ Shaped(r) /\ Same(t, r) /\ r.root = t.root
  /\ \A n \in Nodes(t) : IsRed(r, n) => n = g \/ IsRed(t, n)
  /\ IsRed(r, g)
  /\ \A n \in Nodes(t) : Pair(r, n) => n = g
  /\ \A h : Balanced(t, h, Nil) => \E h2 : Balanced(r, h2, Nil)

\* A red uncle: it and the parent turn black, the grandparent red.
LEMMA Recoloured ==
  ASSUME NEW t, NEW S, Shape(t, S), NEW g \in Nodes(t), NEW s \in Sides,
         NEW p, p = Kid(t, g, s), NEW u, u = Kid(t, g, Other(s)),
         Red(t, p) = TRUE, Red(t, u) = TRUE, Red(t, g) = FALSE, p # Nil, u # Nil,
         NEW z, Up(t, z) = p, \A n \in Nodes(t) : Pair(t, n) => n = z,
         NEW r, r = Painted(Painted(Painted(t, p, FALSE), u, FALSE), g, TRUE)
  PROVE  IsRecoloured(t, r, g)
<1> DEFINE N == Nodes(t)
           q1 == Painted(t, p, FALSE)
           q2 == Painted(q1, u, FALSE)
<1>1. /\ Other(s) \in Sides /\ (\A q \in Sides : q = s \/ q = Other(s)) /\ Other(s) # s
      /\ Nil \notin N /\ TypedTree(t, N) /\ g # Nil /\ g \in N
  BY SidesAre, NilIsNoKey DEF Shape
<1>2. /\ p \in N /\ u \in N /\ p # g /\ u # g /\ p # u /\ Up(t, p) = g /\ Up(t, u) = g
  <2>1. IsKid(t, S, g, s, p) /\ IsKid(t, S, g, Other(s), u)
    BY <1>1, KidsAre
  <2>. QED BY <2>1 DEF IsKid
<1>3. \A n \in N, q \in Sides : /\ Kid(t, n, q) \in N \cup {Nil}
                                /\ Kid(t, n, q) # Nil => Up(t, Kid(t, n, q)) = n
  BY DEF Shape, Links
<1>. HIDE DEF N, q1, q2
<1>4. IsPainted(t, q1, N, p, FALSE)
  <2>1. p \in N \cup {Nil}
    BY <1>2
  <2>. QED BY <1>1, <2>1, PaintedBlack, Zenon DEF q1
<1>5. IsPainted(q1, q2, N, u, FALSE)
  <2>1. u \in N \cup {Nil} /\ TypedTree(q1, N)
    BY <1>2, <1>4 DEF IsPainted
  <2>. QED BY <2>1, PaintedBlack, Zenon DEF q2
<1>6. IsPainted(q2, r, N, g, TRUE)
  <2>1. g \in N \cup {Nil} /\ TypedTree(q2, N)
    BY <1>1, <1>5 DEF IsPainted
  <2>2. r = Painted(q2, g, TRUE)
    BY Zenon DEF q1, q2
  <2>. QED BY <2>1, <2>2, PaintedRed, Zenon
<1>7. Shape(r, S) /\ Same(t, r)
  <2>1. Shape(q1, S) /\ Same(t, q1)
    BY <1>4, PaintedSame DEF N
  <2>2. Shape(q2, S) /\ Same(q1, q2)
    <3>1. Nodes(q1) = N
      BY <2>1 DEF Same, N
    <3>. QED BY <1>5, <2>1, <3>1, PaintedSame
  <2>3. Shape(r, S) /\ Same(q2, r)
    <3>1. Nodes(q2) = N
      BY <2>1, <2>2 DEF Same, N
    <3>. QED BY <1>6, <2>2, <3>1, PaintedSame
  <2>4. \A n \in N : Value(r, n) = Value(t, n)
    BY <1>4, <1>5, <1>6 DEF IsPainted
  <2>. QED BY <2>1, <2>2, <2>3, <2>4 DEF Same, N
<1>8. Shaped(r)
  BY <1>7 DEF Shaped, Shape, Under
<1>9. /\ r.root = t.root
      /\ Red(r, p) = FALSE /\ Red(r, u) = FALSE /\ Red(r, g) = TRUE
      /\ \A n \in N : /\ Up(r, n) = Up(t, n)
                      /\ n \notin {p, u, g} => Red(r, n) = Red(t, n)
                      /\ \A q \in Sides : Kid(r, n, q) = Kid(t, n, q)
  <2>1. r.root = t.root /\ \A n \in N : Up(r, n) = Up(t, n)
    BY <1>4, <1>5, <1>6 DEF IsPainted
  <2>2. \A n \in N, q \in Sides : Kid(r, n, q) = Kid(t, n, q)
    <3> SUFFICES ASSUME NEW n \in N, NEW q \in Sides PROVE Kid(r, n, q) = Kid(t, n, q)
      OBVIOUS
    <3>1. Kid(q1, n, q) = Kid(t, n, q)
      BY <1>4 DEF IsPainted
    <3>2. Kid(q2, n, q) = Kid(q1, n, q)
      BY <1>5 DEF IsPainted
    <3>3. Kid(r, n, q) = Kid(q2, n, q)
      BY <1>6 DEF IsPainted
    <3>. QED BY <3>1, <3>2, <3>3
  <2>3. \A n \in N : n \notin {p, u, g} => Red(r, n) = Red(t, n)
    BY <1>4, <1>5, <1>6 DEF IsPainted
  <2>4. Red(r, p) = FALSE /\ Red(r, u) = FALSE /\ Red(r, g) = TRUE
    BY <1>1, <1>2, <1>4, <1>5, <1>6 DEF IsPainted
  <2>. QED BY <2>1, <2>2, <2>3, <2>4
<1>10. /\ \A n \in N : /\ Red(t, n) \in BOOLEAN /\ n # Nil /\ (IsRed(t, n) <=> Red(t, n) = TRUE)
                       /\ IsRed(r, n) <=> Red(r, n) = TRUE
       /\ ~IsRed(t, Nil) /\ ~IsRed(r, Nil) /\ Nodes(r) = N
  BY <1>7, RedIs DEF Same, N
<1>11. ASSUME NEW n \in N, IsRed(r, n)
       PROVE  n \notin {p, u} /\ (n = g \/ IsRed(t, n))
  <2>1. Red(r, n) = TRUE
    BY <1>10, <1>11
  <2>2. n # p /\ n # u
    BY <1>9, <2>1
  <2>3. CASE n # g
    BY <1>9, <1>10, <2>1, <2>2, <2>3
  <2>. QED BY <2>2, <2>3
<1>12. ASSUME NEW n \in N, Pair(r, n), n # g PROVE FALSE
  <2>1. IsRed(r, n) /\ IsRed(r, Up(t, n))
    BY <1>9, <1>12 DEF Pair
  <2>2. n \notin {p, u, g}
    BY <1>11, <1>12, <2>1
  <2>3. IsRed(t, n)
    BY <1>9, <1>10, <2>1, <2>2
  <2>4. Up(t, n) \in N
    BY <1>10, <2>1, RootIs DEF N
  <2>5. CASE Up(t, n) = g
    <3>1. PICK q \in Sides : Kid(t, g, q) = n
      BY <1>1, <1>10, <2>5, RootIs DEF N
    <3>. QED BY <1>1, <2>2, <3>1
  <2>6. CASE Up(t, n) # g
    <3>1. IsRed(t, Up(t, n))
      BY <1>11, <2>1, <2>4, <2>6
    <3>2. n = z
      BY <2>3, <3>1 DEF Pair, N
    <3>. QED BY <1>2, <1>11, <2>1, <3>2
  <2>. QED BY <2>5, <2>6
<1>13. ASSUME NEW h, Balanced(t, h, Nil) PROVE \E h2 : Balanced(r, h2, Nil)
  <2> DEFINE h2 == [h EXCEPT ![g] = h[g] + 1]
             W(c) == Weight(t, h, Nil, c)
             W2(c) == Weight(r, h2, Nil, c)
  <2>1. h \in [N -> Nat] /\ \A n \in N, q \in Sides : W(Kid(t, n, q)) = h[n]
    BY <1>13 DEF Balanced, N
  <2>2. h2 \in [N -> Nat] /\ h2[g] = h[g] + 1 /\ \A n \in N : n # g => h2[n] = h[n]
    BY <1>1, <2>1
  <2>. HIDE DEF h2
  <2>3. W2(p) = W(p) + 1 /\ W2(u) = W(u) + 1
    <3>1. W(p) = h[p] + 0 + 0 /\ W(u) = h[u] + 0 + 0
      BY <1>1, <1>2 DEF Weight
    <3>2. W2(p) = h2[p] + 1 + 0 /\ W2(u) = h2[u] + 1 + 0
      BY <1>1, <1>2, <1>9 DEF Weight
    <3>. HIDE DEF W, W2
    <3>. QED BY <1>2, <2>1, <2>2, <3>1, <3>2
  <2>4. W2(g) = W(g)
    <3>1. W(g) = h[g] + 1 + 0
      BY <1>1 DEF Weight
    <3>2. W2(g) = h2[g] + 0 + 0
      BY <1>1, <1>9 DEF Weight
    <3>. HIDE DEF W, W2
    <3>. QED BY <1>1, <2>1, <2>2, <3>1, <3>2
  <2>5. \A c \in N \cup {Nil} : c \notin {p, u, g} => W2(c) = W(c)
    BY <1>9, <2>2 DEF Weight
  <2>. HIDE DEF W, W2
  <2>6. ASSUME NEW n \in N, NEW q \in Sides PROVE W2(Kid(r, n, q)) = h2[n]
    <3>1. CASE n = g
      <4>1. Kid(r, n, q) \in {p, u}
        <5>1. Kid(r, g, q) = Kid(t, g, q)
          BY <1>1, <1>9
        <5>. QED BY <1>1, <3>1, <5>1
      <4>2. W(p) = h[g] /\ W(u) = h[g]
        BY <1>1, <2>1
      <4>. QED BY <2>2, <2>3, <3>1, <4>1, <4>2
    <3>2. CASE n # g
      <4>1. Kid(r, n, q) = Kid(t, n, q)
        BY <1>9
      <4>2. Kid(t, n, q) \in N \cup {Nil} /\ (Kid(t, n, q) # Nil => Up(t, Kid(t, n, q)) = n)
        BY <1>3
      <4>3. Kid(t, n, q) # p /\ Kid(t, n, q) # u
        BY <1>2, <3>2, <4>2
      <4>. QED BY <2>1, <2>2, <2>4, <2>5, <3>2, <4>1, <4>2, <4>3
    <3>. QED BY <3>1, <3>2
  <2>7. Balanced(r, h2, Nil)
    BY <1>10, <2>2, <2>6 DEF Balanced, W2
  <2>. QED BY <2>7
<1>14. IsRed(r, g)
  BY <1>1, <1>9, <1>10
<1>. QED BY <1>7, <1>8, <1>9, <1>11, <1>12, <1>13, <1>14 DEF N, IsRecoloured

\* What a step must leave for the invariant to hold again.
Kept == Sound' /\ Placed' /\ Coloured' /\ (Even => Even')

LEMMA InsertOn ==
  ASSUME op # "fix_delete", op' = "fix_insert", Placed, UNCHANGED <<answer, skipped>>,
         Shaped(tree'), at' \in Nodes(tree'), IsRed(tree', at'),
         \A n \in Nodes(tree') : Pair(tree', n) => n = at',
         IsRed(tree', tree'.root) => tree'.root = at',
         \A h : Balanced(tree, h, Nil) => \E h2 : Balanced(tree', h2, Nil)
  PROVE  Kept
<1>2. Sound'
  BY DEF Sound
<1>3. at' # Nil
  BY DEF IsRed
<1>4. Placed'
  BY <1>3 DEF Placed
<1>5. Coloured'
  BY DEF Coloured
<1>6. ASSUME Even PROVE Even'
  <2>1. Short = Nil /\ Short' = Nil
    BY DEF Short
  <2> SUFFICES ASSUME ~skipped' PROVE \E h \in [Nodes(tree') -> Nat] : Balanced(tree', h, Nil)
    BY <2>1, Zenon DEF Even
  <2>2. ~skipped
    OBVIOUS
  <2>3. PICK h : Balanced(tree, h, Nil)
    BY <1>6, <2>1, <2>2 DEF Even
  <2>4. PICK h2 : Balanced(tree', h2, Nil)
    BY <2>3
  <2>. QED BY <2>4 DEF Balanced
<1>. QED BY <1>2, <1>4, <1>5, <1>6 DEF Kept

LEMMA RaisedOn ==
  ASSUME op = "fix_insert", op' = "fix_insert", Placed, UNCHANGED <<answer, skipped>>,
         Shaped(tree'), Same(tree, tree'), at' \in Nodes(tree), IsRed(tree', at'),
         \A n \in Nodes(tree) : Pair(tree', n) => n = at',
         IsRed(tree', tree'.root) => tree'.root = at',
         \A h : Balanced(tree, h, Nil) => \E h2 : Balanced(tree', h2, Nil)
  PROVE  Kept
<1>1. Nodes(tree') = Nodes(tree)
  BY DEF Same
<1>. QED BY <1>1, InsertOn

LEMMA FixInsertKeeps ==
  ASSUME Sound, Placed, Coloured, FixInsert
  PROVE  Kept /\ Same(tree, tree') /\ answer' = answer
<1> DEFINE t == tree
           N == Nodes(t)
           p == Up(t, at)
           g == Up(t, p)
           s == Side(t, p)
           u == Kid(t, g, Other(s))
<1>1. PICK S : Shape(t, S)
  BY DEF Sound, Shaped
<1>2. /\ \A n \in N : n # Nil /\ (IsRed(t, n) <=> Red(t, n) = TRUE) /\ Red(t, n) \in BOOLEAN
      /\ ~IsRed(t, Nil)
  <2>. HIDE DEF t
  <2>. QED BY <1>1, RedIs, Zenon
<1>3. /\ op = "fix_insert" /\ at \in N /\ IsRed(t, at) /\ IsRed(t, p)
      /\ \A n \in N : Pair(t, n) => n = at
      /\ IsRed(t, t.root) => t.root = at
  <2>1. op = "fix_insert" /\ IsRed(t, p)
    BY Zenon DEF FixInsert, Up
  <2>. HIDE DEF t, p
  <2>2. at \in N /\ IsRed(t, at) /\ (\A n \in N : Pair(t, n) => n = at) /\ (IsRed(t, t.root) => t.root = at)
    BY <2>1 DEF Placed, Coloured, t
  <2>. QED BY <2>1, <2>2
<1>4. p \in N /\ p # at /\ Up(t, p) # p
  <2>1. p \in N
    BY <1>1, <1>2, <1>3, RootIs
  <2>. QED BY <1>1, <1>3, <2>1, RootIs
<1>5. g \in N /\ p # t.root
  <2>1. p # t.root
    BY <1>3, <1>4
  <2>. QED BY <1>1, <1>4, <2>1, RootIs
<1>6. Red(t, g) = FALSE
  <2>1. ~Pair(t, p)
    BY <1>3, <1>4
  <2>. QED BY <1>2, <1>3, <1>5, <2>1 DEF Pair
<1>7. s \in Sides /\ Kid(t, g, s) = p /\ Other(s) \in Sides
  BY <1>1, <1>4, <1>5, SideIs, SidesAre
<1>8. u \in N \cup {Nil}
  BY <1>1, <1>5, <1>7 DEF Shape, Links
<1>9. Red(t, p) = TRUE /\ Red(t, at) = TRUE /\ p # Nil /\ at # Nil
  BY <1>2, <1>3, <1>4
<1>10. /\ op' = op /\ UNCHANGED <<answer, skipped>>
       /\ \/ /\ IsRed(t, u)
             /\ tree' = Painted(Painted(Painted(t, p, FALSE), u, FALSE), g, TRUE)
             /\ at' = g
          \/ /\ ~IsRed(t, u) /\ at = Kid(t, p, Other(s))
             /\ \E t1 : /\ t1 = Rotate(t, p, s)
                        /\ tree' = Rotate(Painted(Painted(t1, Up(t1, p), FALSE), g, TRUE), g, Other(s))
             /\ at' = p
          \/ /\ ~IsRed(t, u) /\ at # Kid(t, p, Other(s))
             /\ tree' = Rotate(Painted(Painted(t, p, FALSE), g, TRUE), g, Other(s))
             /\ at' = at
  <2>1. g # Nil
    BY <1>2, <1>5
  <2>. QED BY <2>1, Zenon DEF FixInsert, Up, Kid
<1>. HIDE DEF N, p, g, s, u
<1>11. Up(t, at) = p /\ Nodes(tree) = N
  BY DEF p, N
<1>12. CASE /\ IsRed(t, u)
            /\ tree' = Painted(Painted(Painted(t, p, FALSE), u, FALSE), g, TRUE)
            /\ at' = g
  <2>1. Red(t, u) = TRUE /\ u # Nil
    BY <1>2, <1>8, <1>12
  <2>2. PICK r : r = tree'
    OBVIOUS
  <2>8. IsRecoloured(t, r, g)
    <3>1. g \in Nodes(t) /\ \A n \in Nodes(t) : Pair(t, n) => n = at
      BY <1>3, <1>5, <1>11
    <3>2. r = Painted(Painted(Painted(t, p, FALSE), u, FALSE), g, TRUE)
      BY <1>12, <2>2, Zenon
    <3>3. p = Kid(t, g, s) /\ u = Kid(t, g, Other(s))
      BY <1>7 DEF u
    <3>. QED BY <1>1, <1>6, <1>7, <1>9, <1>11, <2>1, <3>1, <3>2, <3>3, Recoloured
  <2>3. /\ Shaped(r) /\ Same(t, r) /\ r.root = t.root
        /\ \A n \in N : IsRed(r, n) => n = g \/ IsRed(t, n)
        /\ IsRed(r, g)
        /\ \A n \in N : Pair(r, n) => n = g
        /\ \A h : Balanced(t, h, Nil) => \E h2 : Balanced(r, h2, Nil)
    BY <2>8, Zenon DEF IsRecoloured, N
  <2>4. IsRed(r, r.root) => r.root = g
    <3>1. t.root \in N
      BY <1>1, <1>5, RootIs DEF N
    <3>2. t.root # at
      BY <1>1, <1>2, <1>4, <1>11, RootIs DEF N
    <3>. QED BY <1>3, <2>3, <3>1, <3>2
  <2>5. Kept
    BY <1>3, <1>5, <1>10, <1>11, <1>12, <2>2, <2>3, <2>4, RaisedOn
  <2>. QED BY <1>10, <2>2, <2>3, <2>5
<1>13. CASE /\ ~IsRed(t, u) /\ at = Kid(t, p, Other(s))
            /\ \E t1 : /\ t1 = Rotate(t, p, s)
                       /\ tree' = Rotate(Painted(Painted(t1, Up(t1, p), FALSE), g, TRUE), g, Other(s))
            /\ at' = p
  <2>1. PICK t1 : /\ t1 = Rotate(t, p, s)
                  /\ tree' = Rotate(Painted(Painted(t1, Up(t1, p), FALSE), g, TRUE), g, Other(s))
    BY <1>13
  <2>2. g \in Nodes(t) /\ p = Kid(t, g, s) /\ \A n \in Nodes(t) : Pair(t, n) => n = at
    BY <1>3, <1>5, <1>7, <1>11
  <2>3. /\ Shaped(t1) /\ Same(t, t1) /\ (IsRed(t1, t1.root) <=> IsRed(t, t.root))
        /\ at = Kid(t1, g, s) /\ p = Kid(t1, at, s) /\ p \in Nodes(t)
        /\ Kid(t1, g, Other(s)) = u /\ Up(t1, p) = at
        /\ Red(t1, at) = TRUE /\ Red(t1, p) = TRUE /\ Red(t1, g) = FALSE
        /\ ~IsRed(t1, u)
        /\ \A n \in N : Pair(t1, n) => n = p
        /\ \A h : Balanced(t, h, Nil) => Balanced(t1, h, Nil)
    <3>1. IsInner(t, t1, g, p, at, s)
      BY <1>1, <1>6, <1>7, <1>9, <1>13, <2>1, <2>2, InnerTurn
    <3>2. Kid(t, g, Other(s)) = u
      BY DEF u
    <3>. QED BY <1>13, <3>1, <3>2, Zenon DEF IsInner, N
  <2>4. PICK S1 : Shape(t1, S1)
    BY <2>3 DEF Shaped
  <2>5. Nodes(t1) = N
    BY <2>3 DEF Same, N
  <2>6. PICK r : r = tree'
    OBVIOUS
  <2>7. IsRaised(t1, r, p)
    <3>1. r = Rotate(Painted(Painted(t1, at, FALSE), g, TRUE), g, Other(s))
      BY <2>1, <2>3, <2>6, Zenon
    <3>2. g \in Nodes(t1) /\ ~IsRed(t1, Kid(t1, g, Other(s))) /\ \A n \in Nodes(t1) : Pair(t1, n) => n = p
      BY <1>5, <2>3, <2>5
    <3>. QED BY <1>7, <1>9, <2>3, <2>4, <3>1, <3>2, OuterTurn
  <2>8. /\ Shaped(r) /\ Same(t1, r) /\ (IsRed(r, r.root) <=> IsRed(t1, t1.root))
        /\ Red(r, p) = Red(t1, p)
        /\ \A n \in N : ~Pair(r, n)
        /\ \A h : Balanced(t1, h, Nil) => Balanced(r, h, Nil)
    BY <2>5, <2>7, Zenon DEF IsRaised
  <2>9. Same(t, r)
    BY <2>3, <2>5, <2>8 DEF Same, N
  <2>10. ~IsRed(r, r.root)
    <3>1. ~IsRed(t, t.root)
      BY <1>1, <1>3, <1>4, <1>11, <1>9, RootIs DEF N
    <3>. QED BY <2>3, <2>8, <3>1, Zenon
  <2>11. IsRed(r, p)
    BY <1>9, <2>3, <2>8 DEF IsRed, Red
  <2>12. \A h : Balanced(t, h, Nil) => \E h2 : Balanced(r, h2, Nil)
    BY <2>3, <2>8, Zenon
  <2>13. Kept
    BY <1>3, <1>4, <1>10, <1>11, <1>13, <2>6, <2>8, <2>9, <2>10, <2>11, <2>12, RaisedOn
  <2>. QED BY <1>10, <2>6, <2>9, <2>13
<1>14. CASE /\ ~IsRed(t, u) /\ at # Kid(t, p, Other(s))
            /\ tree' = Rotate(Painted(Painted(t, p, FALSE), g, TRUE), g, Other(s))
            /\ at' = at
  <2>1. at = Kid(t, p, s)
    <3>1. \E q \in Sides : Kid(t, p, q) = at
      BY <1>1, <1>2, <1>3, <1>4, <1>11, RootIs DEF N
    <3>. QED BY <1>7, <1>14, <3>1, SidesAre
  <2>6. PICK r : r = tree'
    OBVIOUS
  <2>7. IsRaised(t, r, at)
    <3>1. r = Rotate(Painted(Painted(t, p, FALSE), g, TRUE), g, Other(s))
      BY <1>14, <2>6, Zenon
    <3>2. g \in Nodes(t) /\ ~IsRed(t, Kid(t, g, Other(s))) /\ \A n \in Nodes(t) : Pair(t, n) => n = at
      BY <1>3, <1>5, <1>11, <1>14 DEF u
    <3>. QED BY <1>1, <1>6, <1>7, <1>9, <2>1, <3>1, <3>2, OuterTurn
  <2>8. /\ Shaped(r) /\ Same(t, r) /\ (IsRed(r, r.root) <=> IsRed(t, t.root))
        /\ Red(r, at) = Red(t, at)
        /\ \A n \in N : ~Pair(r, n)
        /\ \A h : Balanced(t, h, Nil) => Balanced(r, h, Nil)
    BY <1>11, <2>7, Zenon DEF IsRaised
  <2>10. ~IsRed(r, r.root)
    <3>1. ~IsRed(t, t.root)
      BY <1>1, <1>3, <1>4, <1>11, <1>9, RootIs DEF N
    <3>. QED BY <2>8, <3>1, Zenon
  <2>11. IsRed(r, at)
    BY <1>9, <2>8 DEF IsRed, Red
  <2>12. \A h : Balanced(t, h, Nil) => \E h2 : Balanced(r, h2, Nil)
    BY <2>8, Zenon
  <2>13. Kept
    BY <1>3, <1>4, <1>10, <1>11, <1>14, <2>6, <2>8, <2>10, <2>11, <2>12, RaisedOn
  <2>. QED BY <1>10, <2>6, <2>8, <2>13
<1>. QED BY <1>10, <1>12, <1>13, <1>14, Zenon

LEMMA IdleOn ==
  ASSUME op' = "idle", at' \in Nodes(tree') \cup {Nil}, Shaped(tree'), skipped' \in BOOLEAN, answer' \in Values \cup {Nil},
         \A n \in Nodes(tree') : ~Pair(tree', n), ~IsRed(tree', tree'.root),
         Even /\ ~skipped' => \E h : Balanced(tree', h, Nil)
  PROVE  Kept
<1>2. Sound'
  BY DEF Sound
<1>4. Placed'
  BY DEF Placed
<1>5. Coloured'
  BY DEF Coloured
<1>6. ASSUME Even PROVE Even'
  <2>1. Short' = Nil
    BY DEF Short
  <2> SUFFICES ASSUME ~skipped' PROVE \E h \in [Nodes(tree') -> Nat] : Balanced(tree', h, Nil)
    BY <2>1, Zenon DEF Even
  <2>2. PICK h : Balanced(tree', h, Nil)
    BY <1>6
  <2>. QED BY <2>2 DEF Balanced
<1>. QED BY <1>2, <1>4, <1>5, <1>6 DEF Kept

\* Painting a node that is nobody's child does not count.
LEMMA PaintedBalance ==
  ASSUME NEW t, NEW S, Shape(t, S), NEW v, NEW b, NEW r, IsPainted(t, r, Nodes(t), v, b),
         NEW h, NEW e, Balanced(t, h, e),
         \A n \in Nodes(t), q \in Sides : Kid(t, n, q) = Nil \/ Kid(t, n, q) # v
  PROVE  Balanced(r, h, e)
<1> DEFINE N == Nodes(t)
<1>1. Nodes(r) = N
  BY PaintedSame DEF Same
<1>2. h \in [N -> Nat] /\ \A n \in N, q \in Sides : Weight(t, h, e, Kid(t, n, q)) = h[n]
  BY DEF Balanced
<1>3. ASSUME NEW n \in N, NEW q \in Sides PROVE Weight(r, h, e, Kid(r, n, q)) = h[n]
  <2> DEFINE c == Kid(t, n, q)
  <2>1. Kid(r, n, q) = c /\ c \in N \cup {Nil} /\ (c # Nil => Red(r, c) = Red(t, c))
    BY DEF IsPainted, Shape, Links
  <2>2. Weight(t, h, e, c) = h[n]
    BY <1>2
  <2>. HIDE DEF c
  <2>3. Weight(r, h, e, c) = Weight(t, h, e, c)
    BY <2>1 DEF Weight
  <2>. QED BY <2>1, <2>2, <2>3
<1>. QED BY <1>1, <1>2, <1>3 DEF Balanced

LEMMA FixInsertDoneKeeps ==
  ASSUME Sound, Placed, Coloured, FixInsertDone
  PROVE  Kept /\ Same(tree, tree') /\ answer' = answer
<1> DEFINE t == tree
           N == Nodes(t)
<1>1. PICK S : Shape(t, S)
  BY DEF Sound, Shaped
<1>2. op = "fix_insert" /\ ~IsRed(t, Up(t, at)) /\ at \in N /\ op' = "idle" /\ at' = Nil
      /\ UNCHANGED <<answer, skipped>>
  BY DEF FixInsertDone, Placed, Up
<1>3. PICK r : r = tree'
  OBVIOUS
<1>4. t.root \in N /\ t.root # Nil /\ \A n \in N, q \in Sides : Kid(t, n, q) # t.root
  BY <1>1, <1>2, RootIs
<1>5. IsPainted(t, r, N, t.root, FALSE)
  <2>1. r = Painted(t, t.root, FALSE)
    BY <1>3, Zenon DEF FixInsertDone
  <2>2. TypedTree(t, N) /\ t.root \in N \cup {Nil}
    BY <1>1, <1>4 DEF Shape
  <2>. QED BY <2>1, <2>2, PaintedBlack, Zenon
<1>6. Shape(r, S) /\ Same(t, r)
  BY <1>1, <1>5, PaintedSame
<1>7. Shaped(r) /\ Nodes(r) = N
  BY <1>6 DEF Shaped, Shape, Under, Same
<1>8. /\ \A n \in N : /\ n # Nil /\ (IsRed(t, n) <=> Red(t, n) = TRUE) /\ Red(t, n) \in BOOLEAN
                      /\ IsRed(r, n) <=> Red(r, n) = TRUE
      /\ ~IsRed(t, Nil) /\ ~IsRed(r, Nil)
  BY <1>1, <1>6, <1>7, RedIs
<1>9. r.root = t.root /\ ~IsRed(r, r.root)
  BY <1>4, <1>5, <1>8 DEF IsPainted
<1>10. \A n \in N : IsRed(r, n) => IsRed(t, n)
  BY <1>4, <1>5, <1>8 DEF IsPainted
<1>11. ASSUME NEW n \in N, Pair(r, n) PROVE FALSE
  <2>1. IsRed(r, n) /\ IsRed(r, Up(t, n))
    BY <1>5, <1>11 DEF Pair, IsPainted
  <2>2. Up(t, n) \in N
    BY <1>1, <1>8, <2>1, RootIs
  <2>3. Pair(t, n)
    BY <1>10, <2>1, <2>2 DEF Pair
  <2>4. n = at
    BY <1>2, <2>3 DEF Coloured
  <2>. QED BY <1>2, <2>3, <2>4 DEF Pair
<1>12. ASSUME Even, ~skipped' PROVE \E h : Balanced(r, h, Nil)
  <2>1. PICK h : Balanced(t, h, Nil)
    BY <1>2, <1>12 DEF Even, Short
  <2>2. Balanced(r, h, Nil)
    BY <1>1, <1>4, <1>5, <2>1, PaintedBalance
  <2>. QED BY <2>2
<1>13. skipped' \in BOOLEAN /\ answer' \in Values \cup {Nil}
  BY <1>2 DEF Placed
<1>14. Kept
  <2>. HIDE DEF t, N
  <2>1. \A n \in Nodes(tree') : ~Pair(tree', n)
    BY <1>3, <1>7, <1>11
  <2>2. Shaped(tree') /\ ~IsRed(tree', tree'.root)
    BY <1>3, <1>7, <1>9
  <2>3. Even /\ ~skipped' => \E h : Balanced(tree', h, Nil)
    BY <1>3, <1>12
  <2>. QED BY <1>2, <1>13, <2>1, <2>2, <2>3, IdleOn
<1>. QED BY <1>2, <1>3, <1>6, <1>14

-----------------------------------------------------------------------------
(* RbTree: map_find and map_insert. *)

LEMMA ValueSet ==
  ASSUME NEW N, NEW t, TypedTree(t, N), NEW k \in N, NEW v \in Values,
         NEW r, r = [t EXCEPT !.node[k].value = v]
  PROVE  /\ TypedTree(r, N) /\ r.root = t.root /\ Value(r, k) = v
         /\ \A n \in N : /\ Up(r, n) = Up(t, n) /\ Red(r, n) = Red(t, n)
                         /\ n # k => Value(r, n) = Value(t, n)
                         /\ \A s \in Sides : Kid(r, n, s) = Kid(t, n, s)
<1>1. t \in [root : Keys \cup {Nil}, node : [N -> Node]] /\ N \subseteq Keys
  BY DEF TypedTree
<1>2. t.node \in [N -> Node] /\ \A n \in N : t.node[n] \in Node
  BY <1>1
<1>3. [t.node[k] EXCEPT !.value = v] \in Node
  BY <1>2 DEF Node
<1>4. r.root = t.root /\ r.node = [t.node EXCEPT ![k] = [t.node[k] EXCEPT !.value = v]]
  BY <1>1
<1>5. r.node \in [N -> Node]
  BY <1>2, <1>3, <1>4
<1>6. r \in [root : Keys \cup {Nil}, node : [N -> Node]]
  BY <1>1, <1>5
<1>7. \A n \in N : r.node[n] = IF n = k THEN [t.node[k] EXCEPT !.value = v] ELSE t.node[n]
  BY <1>2, <1>4
<1>8. TypedTree(r, N)
  BY <1>1, <1>6 DEF TypedTree
<1>. QED BY <1>2, <1>4, <1>7, <1>8 DEF Up, Kid, Red, Value, Sides, Node

LEMMA InsertAgainKeeps ==
  ASSUME Sound, Placed, Coloured, NEW k \in Keys, NEW v \in Values, InsertAgain(k, v)
  PROVE  /\ Kept /\ answer' = answer /\ k \in Nodes(tree) /\ Nodes(tree') = Nodes(tree)
         /\ Value(tree', k) = v
         /\ \A n \in Nodes(tree) : n # k => Value(tree', n) = Value(tree, n)
<1> DEFINE t == tree
           N == Nodes(t)
<1>1. PICK S : Shape(t, S)
  BY DEF Sound, Shaped
<1>2. PICK r : r = tree'
  OBVIOUS
<1>3. op = "idle" /\ UNCHANGED <<op, at, answer, skipped>> /\ r = [t EXCEPT !.node[k].value = v]
  BY <1>2 DEF InsertAgain
<1>4. k \in N
  <2>1. Found(t, S, k, Search(t, k)) /\ Search(t, k).at = k /\ k # Nil
    BY <1>1, SearchIs, TreeAssumption DEF InsertAgain
  <2>. QED BY <2>1 DEF Found
<1>5. /\ TypedTree(r, N) /\ r.root = t.root /\ Value(r, k) = v
      /\ \A n \in N : /\ Up(r, n) = Up(t, n) /\ Red(r, n) = Red(t, n)
                      /\ n # k => Value(r, n) = Value(t, n)
                      /\ \A s \in Sides : Kid(r, n, s) = Kid(t, n, s)
  BY <1>1, <1>3, <1>4, ValueSet DEF Shape
<1>6. Shape(r, S) /\ Nodes(r) = N
  BY <1>1, <1>5, PaintedShape
<1>7. Shaped(r)
  BY <1>6 DEF Shaped, Shape, Under
<1>8. \A n \in N \cup {Nil} : IsRed(r, n) <=> IsRed(t, n)
  BY <1>5 DEF IsRed, Red
<1>9. \A n \in N : Pair(r, n) <=> Pair(t, n)
  BY <1>1, <1>5, <1>8, RootIs DEF Pair
<1>10. IsRed(r, r.root) <=> IsRed(t, t.root)
  BY <1>1, <1>5, <1>8 DEF Shape, Links
<1>11. ASSUME NEW h, Balanced(t, h, Nil) PROVE Balanced(r, h, Nil)
  <2>1. ASSUME NEW c \in N \cup {Nil} PROVE Weight(r, h, Nil, c) = Weight(t, h, Nil, c)
    BY <1>5 DEF Weight
  <2>2. \A n \in N, q \in Sides : Kid(r, n, q) = Kid(t, n, q) /\ Kid(t, n, q) \in N \cup {Nil}
    BY <1>1, <1>5 DEF Shape, Links
  <2>. QED BY <1>6, <1>11, <2>1, <2>2 DEF Balanced
<1>12. \A n \in N : ~Pair(t, n)
  BY <1>3 DEF Coloured
<1>13. ~IsRed(t, t.root)
  BY <1>3 DEF Coloured
<1>14. at' \in Nodes(r) \cup {Nil} /\ op' = "idle"
  BY <1>3, <1>6 DEF Placed
<1>15. Kept
  <2>. HIDE DEF t, N
  <2>1. \A n \in Nodes(tree') : ~Pair(tree', n)
    BY <1>2, <1>6, <1>9, <1>12
  <2>2. Shaped(tree') /\ ~IsRed(tree', tree'.root) /\ at' \in Nodes(tree') \cup {Nil}
    BY <1>2, <1>7, <1>10, <1>13, <1>14
  <2>3. ASSUME Even, ~skipped' PROVE \E h : Balanced(tree', h, Nil)
    <3>1. PICK h : Balanced(t, h, Nil)
      BY <1>3, <2>3 DEF Even, Short, t
    <3>2. Balanced(r, h, Nil)
      BY <1>11, <3>1
    <3>. QED BY <1>2, <3>2
  <2>4. skipped' \in BOOLEAN /\ answer' \in Values \cup {Nil}
    BY <1>3 DEF Placed
  <2>. QED BY <1>14, <2>1, <2>2, <2>3, <2>4, IdleOn
<1>. QED BY <1>2, <1>3, <1>4, <1>5, <1>6, <1>15

LEMMA InsertNodeKeeps ==
  ASSUME Sound, Placed, Coloured, NEW k \in Keys, NEW v \in Values, InsertNode(k, v)
  PROVE  /\ Kept /\ answer' = answer /\ k \notin Nodes(tree) /\ Nodes(tree') = Nodes(tree) \cup {k}
         /\ Value(tree', k) = v
         /\ \A n \in Nodes(tree) : Value(tree', n) = Value(tree, n)
<1> DEFINE t == tree
           N == Nodes(t)
           p == Search(t, k).above
<1>1. PICK S : Shape(t, S)
  BY DEF Sound, Shaped
<1>2. PICK r : r = tree'
  OBVIOUS
<1>3. k \notin N /\ IsInserted(t, r, k, v, p) /\ op' = "fix_insert" /\ at' = k
      /\ UNCHANGED <<answer, skipped>> /\ op = "idle"
  BY <1>1, <1>2, InsertedIs DEF InsertNode
<1>4. Found(t, S, k, Search(t, k))
  BY <1>1, SearchIs
<1>5. /\ p \in N \cup {Nil} /\ Nil \notin N /\ k # Nil
      /\ p = Nil <=> t.root = Nil
      /\ p # Nil => Kid(t, p, Toward(k, p)) = Nil
  BY <1>1, <1>3, <1>4, NilIsNoKey, TreeAssumption DEF Found, Shape
<1>. HIDE DEF p
<1>6. Shape(r, GrownUnder(t, S, k, p)) /\ Nodes(r) = N \cup {k}
  BY <1>1, <1>3, <1>4, InsertedShape DEF p
<1>7. Shaped(r)
  BY <1>6 DEF Shaped, Shape, Under
<1>8. /\ r.root = IF p = Nil THEN k ELSE t.root
      /\ Red(r, k) /\ Value(r, k) = v /\ Up(r, k) = p
      /\ \A q \in Sides : Kid(r, k, q) = Nil
      /\ \A n \in N :
           /\ Up(r, n) = Up(t, n) /\ Red(r, n) = Red(t, n) /\ Value(r, n) = Value(t, n)
           /\ \A q \in Sides : Kid(r, n, q) = IF n = p /\ q = Toward(k, p) THEN k ELSE Kid(t, n, q)
  BY <1>3 DEF IsInserted
<1>9. \A n \in N \cup {Nil} : IsRed(r, n) <=> IsRed(t, n)
  BY <1>8 DEF IsRed, Red
<1>10. IsRed(r, k)
  BY <1>5, <1>8 DEF IsRed, Red
<1>11. (\A n \in N : ~Pair(t, n)) /\ ~IsRed(t, t.root)
  BY <1>3 DEF Coloured
<1>12. ASSUME NEW n \in Nodes(r), Pair(r, n) PROVE n = k
  <2> SUFFICES ASSUME n # k PROVE FALSE
    OBVIOUS
  <2>1. n \in N /\ Up(t, n) \in N \cup {Nil}
    BY <1>1, <1>6, RootIs
  <2>2. Pair(t, n)
    BY <1>8, <1>9, <1>12, <2>1 DEF Pair
  <2>. QED BY <1>11, <2>1, <2>2
<1>13. ASSUME IsRed(r, r.root) PROVE r.root = k
  <2>1. t.root \in N \cup {Nil}
    BY <1>1 DEF Shape, Links
  <2>. QED BY <1>8, <1>9, <1>11, <1>13, <2>1
<1>14. ASSUME NEW h, Balanced(t, h, Nil) PROVE \E h2 : Balanced(r, h2, Nil)
  <2> DEFINE h2 == [n \in N \cup {k} |-> IF n = k THEN 0 ELSE h[n]]
             W(c) == Weight(t, h, Nil, c)
             W2(c) == Weight(r, h2, Nil, c)
  <2>1. h \in [N -> Nat] /\ \A n \in N, q \in Sides : W(Kid(t, n, q)) = h[n]
    BY <1>14 DEF Balanced
  <2>2. h2 \in [N \cup {k} -> Nat] /\ h2[k] = 0 /\ \A n \in N : h2[n] = h[n]
    BY <1>3, <2>1
  <2>. HIDE DEF h2
  <2>3. \A c \in N \cup {Nil} : W2(c) = W(c)
    BY <1>8, <2>2 DEF Weight
  <2>4. W2(k) = 0 /\ W(Nil) = 0 /\ W2(Nil) = 0
    <3>1. W2(k) = h2[k] + 0 + 0
      BY <1>5, <1>8 DEF Weight
    <3>2. W(Nil) = 0 /\ W2(Nil) = 0
      BY DEF Weight
    <3>. HIDE DEF W, W2
    <3>. QED BY <2>2, <3>1, <3>2
  <2>. HIDE DEF W, W2
  <2>5. \A n \in N, q \in Sides : Kid(t, n, q) \in N \cup {Nil}
    BY <1>1 DEF Shape, Links
  <2>6. ASSUME NEW n \in N \cup {k}, NEW q \in Sides PROVE W2(Kid(r, n, q)) = h2[n]
    <3>1. CASE n = k
      BY <1>8, <2>2, <2>4, <3>1
    <3>2. CASE n # k /\ n = p /\ q = Toward(k, p)
      <4>1. Kid(r, n, q) = k
        BY <1>8, <3>2
      <4>2. Kid(t, n, q) = Nil
        BY <1>5, <3>2
      <4>3. h[n] = 0
        BY <2>1, <2>4, <3>2, <4>2
      <4>. QED BY <2>2, <2>4, <3>2, <4>1, <4>3
    <3>3. CASE n # k /\ ~(n = p /\ q = Toward(k, p))
      <4>1. Kid(r, n, q) = Kid(t, n, q)
        BY <1>8, <3>3
      <4>. QED BY <2>1, <2>2, <2>3, <2>5, <3>3, <4>1
    <3>. QED BY <3>1, <3>2, <3>3
  <2>7. Balanced(r, h2, Nil)
    BY <1>6, <2>2, <2>6 DEF Balanced, W2
  <2>. QED BY <2>7
<1>15. Kept
  <2>. HIDE DEF t, N
  <2>1. \A n \in Nodes(tree') : Pair(tree', n) => n = at'
    BY <1>2, <1>3, <1>12
  <2>2. Shaped(tree') /\ at' \in Nodes(tree') /\ IsRed(tree', at')
    BY <1>2, <1>3, <1>6, <1>7, <1>10
  <2>3. IsRed(tree', tree'.root) => tree'.root = at'
    BY <1>2, <1>3, <1>13
  <2>4. \A h : Balanced(tree, h, Nil) => \E h2 : Balanced(tree', h2, Nil)
    BY <1>2, <1>14 DEF t
  <2>. QED BY <1>3, <2>1, <2>2, <2>3, <2>4, InsertOn
<1>. QED BY <1>2, <1>3, <1>6, <1>8, <1>15

-----------------------------------------------------------------------------
(* RbTree: map_delete. *)

\* A red pair, or a red root, comes of a black y and a red x.
RedOnlyAt(t, r, y, x) ==
  /\ \A n \in Nodes(r) : Pair(r, n) => n = x /\ Red(t, y) = FALSE /\ IsRed(r, x)
  /\ IsRed(r, r.root) => r.root = x /\ Red(t, y) = FALSE

LEMMA RemovedPairs ==
  ASSUME NEW t, NEW S, Shape(t, S), NEW k, NEW y, NEW x, Spliced(t, S, k, y, x),
         NEW r, IsRemoved(t, r, k, y, x), \A n \in Nodes(t) : ~Pair(t, n), ~IsRed(t, t.root)
  PROVE  RedOnlyAt(t, r, y, x)
<1> DEFINE N == Nodes(t)
           M == N \ {k}
<1>1. PICK S2 : Shape(r, S2) /\ Nodes(r) = M
  BY RemovedShape
<1>2. /\ \A n \in N : n # Nil /\ (IsRed(t, n) <=> Red(t, n) = TRUE) /\ Red(t, n) \in BOOLEAN
      /\ \A n \in M : IsRed(r, n) <=> Red(r, n) = TRUE
      /\ ~IsRed(t, Nil) /\ ~IsRed(r, Nil)
  BY <1>1, RedIs
<1>3. /\ k \in N /\ y \in N /\ x \in N \cup {Nil} /\ x # y /\ x # k
      /\ x # Nil => Up(t, x) = y
      /\ \A s \in Sides : Kid(t, y, s) \in {x, Nil}
      /\ y # k => y # t.root
  <2>1. k \in N /\ y \in N
    BY DEF Spliced
  <2>. QED BY <2>1, SplicedIs
<1>4. /\ r.root = Sub(k, y, x, t.root)
      /\ \A n \in M : /\ Up(r, n) = Ren(k, y, Up(t, IF n = x THEN y ELSE Src(k, y, n)))
                      /\ Red(r, n) = Red(t, Src(k, y, n))
  BY DEF IsRemoved
<1>5. /\ \A n \in N : /\ Up(t, n) \in N \cup {Nil}
                      /\ Up(t, n) # Nil => \E s \in Sides : Kid(t, Up(t, n), s) = n
      /\ t.root \in N
  BY <1>3, RootIs
<1>6. (\A n \in N : ~Pair(t, n)) /\ ~IsRed(t, t.root)
  OBVIOUS
<1>. HIDE DEF N
<1>7. ASSUME NEW n \in M, Pair(r, n) PROVE n = x /\ Red(t, y) = FALSE /\ IsRed(r, x)
  <2> DEFINE b == IF n = x THEN y ELSE Src(k, y, n)
             u == Up(t, b)
  <2>1. b \in N /\ b # x
    BY <1>3 DEF Src
  <2>. HIDE DEF b
  <2>2. IsRed(r, n) /\ IsRed(r, Ren(k, y, u))
    BY <1>4, <1>7 DEF Pair, b
  <2>3. u \in N
    <3>1. u = Nil => Ren(k, y, u) = Nil
      BY <1>2, <1>3 DEF Ren
    <3>. QED BY <1>2, <1>5, <2>1, <2>2, <3>1
  <2>4. u # y
    <3>1. \E s \in Sides : Kid(t, u, s) = b
      BY <1>2, <1>5, <2>1, <2>3
    <3>. QED BY <1>2, <1>3, <2>1, <3>1
  <2>5. Ren(k, y, u) \in M /\ Src(k, y, Ren(k, y, u)) = u
    BY <1>3, <2>3, <2>4 DEF Ren, Src
  <2>6. IsRed(t, u)
    BY <1>2, <1>4, <2>2, <2>3, <2>5
  <2>7. Src(k, y, n) \in N /\ Red(t, Src(k, y, n)) = TRUE
    BY <1>2, <1>3, <1>4, <2>2 DEF Src
  <2>8. IsRed(t, Src(k, y, n))
    BY <1>2, <2>7
  <2>9. n = x
    <3> SUFFICES ASSUME n # x PROVE FALSE
      OBVIOUS
    <3>1. b = Src(k, y, n)
      BY DEF b
    <3>. QED BY <1>6, <2>1, <2>6, <2>8, <3>1 DEF Pair
  <2>10. IsRed(t, x) /\ x \in N /\ Up(t, x) = y
    BY <1>2, <1>3, <2>8, <2>9 DEF Src
  <2>11. ~IsRed(t, y)
    BY <1>6, <2>10 DEF Pair
  <2>. QED BY <1>2, <1>3, <2>2, <2>9, <2>11
<1>8. ASSUME IsRed(r, r.root) PROVE r.root = x /\ Red(t, y) = FALSE
  <2>1. r.root \in M
    BY <1>1, <1>2, <1>8 DEF Shape, Links
  <2>2. Red(t, Src(k, y, r.root)) = TRUE
    BY <1>2, <1>4, <1>8, <2>1
  <2>3. CASE t.root = y
    <3>1. r.root = x
      BY <1>4, <2>3 DEF Sub
    <3>. QED BY <1>2, <1>3, <1>6, <2>3, <3>1
  <2>4. CASE t.root # y
    <3>1. Src(k, y, r.root) = t.root
      BY <1>4, <2>4, <2>1 DEF Sub, Src
    <3>. QED BY <1>2, <1>5, <1>6, <2>2, <3>1
  <2>. QED BY <2>3, <2>4
<1>. QED BY <1>1, <1>7, <1>8 DEF RedOnlyAt

\* A red node is not missed; for a black one x counts one more, if there is an x.
LEMMA RemovedBalance ==
  ASSUME NEW t, NEW S, Shape(t, S), NEW k, NEW y, NEW x, Spliced(t, S, k, y, x),
         NEW r, IsRemoved(t, r, k, y, x), NEW h, Balanced(t, h, Nil),
         NEW e, e = IF Red(t, y) THEN Nil ELSE x, Red(t, y) = TRUE \/ x # Nil
  PROVE  \E h2 : Balanced(r, h2, e)
<1> DEFINE N == Nodes(t)
           M == N \ {k}
           h2 == [n \in M |-> h[Src(k, y, n)]]
           W(c) == Weight(t, h, Nil, c)
           W2(c) == Weight(r, h2, e, c)
           blk(c) == IF Red(t, c) THEN 0 ELSE 1
<1>1. Nodes(r) = M
  BY RemovedShape
<1>2. /\ k \in N /\ y \in N /\ Nil \notin N /\ x \in N \cup {Nil} /\ x # y /\ x # k
      /\ \A n \in N, s \in Sides : n # y => Kid(t, n, s) # x \/ x = Nil
      /\ \E s \in Sides : x = Kid(t, y, s)
      /\ Red(t, y) \in BOOLEAN
  <2>1. Red(t, y) \in BOOLEAN
    BY RedIs DEF Spliced
  <2>. QED BY <2>1, SplicedIs, NilIsNoKey DEF Spliced, Shape
<1>3. \A n \in M : /\ Red(r, n) = Red(t, Src(k, y, n))
                   /\ \A q \in Sides : Kid(r, n, q) = Sub(k, y, x, Kid(t, Src(k, y, n), q))
  BY DEF IsRemoved
<1>4. h \in [N -> Nat] /\ \A n \in N, q \in Sides : W(Kid(t, n, q)) = h[n]
  BY DEF Balanced
<1>5. \A n \in N, q \in Sides : Kid(t, n, q) \in N \cup {Nil}
  BY DEF Shape, Links
<1>6. \A n \in M : Src(k, y, n) \in N /\ Src(k, y, n) # y
  BY <1>2 DEF Src
<1>7. h2 \in [M -> Nat] /\ \A n \in M : h2[n] = h[Src(k, y, n)]
  BY <1>4, <1>6
<1>8. e = (IF Red(t, y) THEN Nil ELSE x) /\ (Red(t, y) = TRUE \/ x # Nil)
  OBVIOUS
<1>. HIDE DEF h2, N
<1>9. W(Nil) = 0 /\ W2(Nil) = 0
  BY DEF Weight
<1>10. \A c \in N : W(c) = h[c] + blk(c)
  BY <1>2, <1>4 DEF Weight
<1>11. \A c \in M : /\ c # e => W2(c) = h[Src(k, y, c)] + blk(Src(k, y, c))
                    /\ c = e => W2(c) = h[Src(k, y, c)] + blk(Src(k, y, c)) + 1
  BY <1>2, <1>3, <1>4, <1>6, <1>7 DEF Weight
<1>. HIDE DEF W, W2
<1>12. W2(x) = W(y)
  <2>1. W(x) = h[y]
    BY <1>2, <1>4
  <2>2. CASE x = Nil
    BY <1>2, <1>4, <1>8, <1>9, <1>10, <2>1, <2>2
  <2>3. CASE x # Nil
    <3>1. x \in M /\ x \in N /\ Src(k, y, x) = x
      BY <1>2, <2>3 DEF Src
    <3>2. W(x) = h[x] + blk(x) /\ W(y) = h[y] + blk(y)
      BY <1>2, <1>10, <3>1
    <3>3. CASE Red(t, y) = TRUE
      BY <1>2, <1>4, <1>8, <1>11, <2>1, <2>3, <3>1, <3>2, <3>3
    <3>4. CASE Red(t, y) = FALSE
      <4>1. W2(x) = h[x] + blk(x) + 1
        BY <1>8, <1>11, <3>1, <3>4
      <4>2. blk(y) = 1
        BY <3>4
      <4>. HIDE DEF blk
      <4>. QED BY <2>1, <3>2, <4>1, <4>2
    <3>. QED BY <1>2, <3>3, <3>4
  <2>. QED BY <2>2, <2>3
<1>13. ASSUME NEW n \in M, NEW q \in Sides PROVE W2(Kid(r, n, q)) = h2[n]
  <2> DEFINE a == Src(k, y, n)
             c == Kid(t, a, q)
  <2>1. a \in N /\ a # y /\ c \in N \cup {Nil} /\ W(c) = h[a] /\ h2[n] = h[a]
        /\ (c # x \/ x = Nil) /\ Kid(r, n, q) = Sub(k, y, x, c)
    BY <1>2, <1>3, <1>4, <1>5, <1>6, <1>7
  <2>. HIDE DEF a, c
  <2>2. CASE c = y
    BY <1>12, <2>1, <2>2 DEF Sub
  <2>3. CASE c # y /\ c = k
    <3>1. Sub(k, y, x, c) = y /\ y \in M /\ Src(k, y, y) = k /\ y # e
      BY <1>2, <1>8, <2>3 DEF Sub, Src
    <3>. QED BY <1>2, <1>10, <1>11, <2>1, <2>3, <3>1
  <2>4. CASE c # y /\ c # k
    <3>1. Sub(k, y, x, c) = c /\ Src(k, y, c) = c
      BY <2>4 DEF Sub, Src
    <3>2. CASE c = Nil
      BY <1>9, <2>1, <3>1, <3>2
    <3>3. CASE c # Nil
      <4>1. c \in M /\ c \in N /\ c # e
        BY <1>8, <2>1, <2>4, <3>3
      <4>. QED BY <1>10, <1>11, <2>1, <3>1, <4>1
    <3>. QED BY <3>2, <3>3
  <2>. QED BY <2>2, <2>3, <2>4
<1>14. Balanced(r, h2, e)
  BY <1>1, <1>7, <1>13 DEF Balanced, W2
<1>. QED BY <1>14

LEMMA DeleteOn ==
  ASSUME op' = "fix_delete", Shaped(tree'), skipped' \in BOOLEAN, answer' \in Values \cup {Nil},
         at' \in Nodes(tree') \cup {Nil},
         \A n \in Nodes(tree') : Pair(tree', n) => at' \in {n, Up(tree', n)} /\ IsRed(tree', at'),
         IsRed(tree', tree'.root) => tree'.root = at',
         Even /\ ~skipped' => \E h : Balanced(tree', h, at')
  PROVE  Kept
<1>2. Sound'
  BY DEF Sound
<1>4. Placed'
  BY DEF Placed
<1>5. Coloured'
  BY DEF Coloured
<1>6. ASSUME Even PROVE Even'
  <2>1. Short' = at'
    BY DEF Short
  <2> SUFFICES ASSUME ~skipped' PROVE \E h \in [Nodes(tree') -> Nat] : Balanced(tree', h, at')
    BY <2>1, Zenon DEF Even
  <2>2. PICK h : Balanced(tree', h, at')
    BY <1>6
  <2>. QED BY <2>2 DEF Balanced
<1>. QED BY <1>2, <1>4, <1>5, <1>6 DEF Kept

LEMMA DeleteKeyKeeps ==
  ASSUME Sound, Placed, Coloured, NEW k \in Keys, DeleteKey(k)
  PROVE  /\ Kept /\ answer' = answer /\ k \in Nodes(tree) /\ Nodes(tree') = Nodes(tree) \ {k}
         /\ \A n \in Nodes(tree') : Value(tree', n) = Value(tree, n)
<1> DEFINE t == tree
           N == Nodes(t)
<1>1. PICK S : Shape(t, S)
  BY DEF Sound, Shaped
<1>2. PICK r : r = tree'
  OBVIOUS
<1>3. PICK y, x : Spliced(t, S, k, y, x) /\ IsRemoved(t, r, k, y, x) /\ Deleted(k, y, x)
  BY <1>1, <1>2, DeletedIs
<1>4. op = "idle"
  BY Zenon DEF DeleteKey
<1>5. (\A n \in N : ~Pair(t, n)) /\ ~IsRed(t, t.root)
  BY <1>4 DEF Coloured
<1>6. Shape(r, ShrunkUnder(t, S, k, y)) /\ Nodes(r) = N \ {k} /\ k \in N
  BY <1>1, <1>3, RemovedShape DEF Spliced
<1>7. Shaped(r)
  BY <1>6 DEF Shaped, Shape, Under
<1>8. /\ \A n \in Nodes(r) : Pair(r, n) => n = x /\ Red(t, y) = FALSE /\ IsRed(r, x)
      /\ IsRed(r, r.root) => r.root = x /\ Red(t, y) = FALSE
  <2>1. RedOnlyAt(t, r, y, x)
    BY <1>1, <1>3, <1>5, RemovedPairs
  <2>. QED BY <2>1, Zenon DEF RedOnlyAt
<1>9. y \in N /\ Red(t, y) \in BOOLEAN /\ x \in N \cup {Nil} /\ x # k
  <2>1. y \in N /\ x \in N \cup {Nil} /\ x # k
    BY <1>1, <1>3, SplicedIs DEF Spliced
  <2>. QED BY <1>1, <2>1, RedIs
<1>10. /\ op' = IF Red(t, y) THEN "idle" ELSE "fix_delete"
       /\ at' = IF Red(t, y) THEN Nil ELSE x
       /\ skipped' = (r.root # Nil /\ (skipped \/ (~Red(t, y) /\ x = Nil)))
       /\ answer' = answer
  BY <1>2, <1>3, Zenon DEF Deleted
<1>11. skipped' \in BOOLEAN /\ answer' \in Values \cup {Nil}
  BY <1>10 DEF Placed
<1>12. ASSUME Even, ~skipped', NEW e, e = IF Red(t, y) THEN Nil ELSE x
       PROVE  \E h : Balanced(r, h, e)
  <2>1. CASE r.root = Nil
    <3>1. Nodes(r) = {}
      BY <1>6, <2>1 DEF Shape, Under
    <3>2. Balanced(r, [n \in {} |-> 0], e)
      BY <3>1 DEF Balanced
    <3>. QED BY <3>2
  <2>2. CASE r.root # Nil
    <3>1. ~skipped /\ (Red(t, y) = TRUE \/ x # Nil)
      BY <1>9, <1>10, <1>12, <2>2
    <3>2. PICK h : Balanced(t, h, Nil)
      BY <1>4, <1>12, <3>1 DEF Even, Short
    <3>. QED BY <1>1, <1>3, <1>12, <3>1, <3>2, RemovedBalance
  <2>. QED BY <2>1, <2>2
<1>13. Kept
  <2>. HIDE DEF t, N
  <2>1. CASE Red(t, y) = TRUE
    <3>1. op' = "idle" /\ at' = Nil
      BY <1>10, <2>1
    <3>2. (\A n \in Nodes(tree') : ~Pair(tree', n)) /\ ~IsRed(tree', tree'.root) /\ Shaped(tree')
      BY <1>2, <1>7, <1>8, <2>1
    <3>3. Even /\ ~skipped' => \E h : Balanced(tree', h, Nil)
      BY <1>2, <1>12, <2>1
    <3>. QED BY <1>11, <3>1, <3>2, <3>3, IdleOn
  <2>2. CASE Red(t, y) = FALSE
    <3>1. op' = "fix_delete" /\ at' = x
      BY <1>10, <2>2
    <3>2. /\ Shaped(tree') /\ at' \in Nodes(tree') \cup {Nil}
          /\ \A n \in Nodes(tree') : Pair(tree', n) => at' \in {n, Up(tree', n)} /\ IsRed(tree', at')
          /\ IsRed(tree', tree'.root) => tree'.root = at'
      BY <1>2, <1>6, <1>7, <1>8, <1>9, <3>1
    <3>3. Even /\ ~skipped' => \E h : Balanced(tree', h, at')
      BY <1>2, <1>12, <2>2, <3>1
    <3>. QED BY <1>11, <3>1, <3>2, <3>3, DeleteOn
  <2>. QED BY <1>9, <2>1, <2>2
<1>14. \A n \in Nodes(r) : Value(r, n) = Value(t, n)
  BY <1>3, <1>6 DEF IsRemoved
<1>. QED BY <1>2, <1>6, <1>10, <1>13, <1>14

-----------------------------------------------------------------------------
(* RbTree: fix_delete. *)

LEMMA FixDeleteDoneKeeps ==
  ASSUME Sound, Placed, Coloured, FixDeleteDone
  PROVE  Kept /\ Same(tree, tree') /\ answer' = answer
<1> DEFINE t == tree
           N == Nodes(t)
<1>1. PICK S : Shape(t, S)
  BY DEF Sound, Shaped
<1>2. op = "fix_delete" /\ at \in N \cup {Nil} /\ op' = "idle" /\ at' = Nil
      /\ UNCHANGED <<answer, skipped>>
  BY DEF FixDeleteDone, Placed
<1>3. at = t.root \/ at = Nil \/ IsRed(t, at)
  BY DEF FixDeleteDone, Fixing
<1>4. PICK r : r = tree'
  OBVIOUS
<1>5. IsPainted(t, r, N, at, FALSE)
  <2>1. r = Painted(t, at, FALSE)
    BY <1>4, Zenon DEF FixDeleteDone
  <2>2. TypedTree(t, N)
    BY <1>1 DEF Shape
  <2>. QED BY <1>2, <2>1, <2>2, PaintedBlack, Zenon
<1>6. Shape(r, S) /\ Same(t, r)
  BY <1>1, <1>5, PaintedSame
<1>7. Shaped(r) /\ Nodes(r) = N
  BY <1>6 DEF Shaped, Shape, Under, Same
<1>8. /\ \A n \in N : /\ n # Nil /\ (IsRed(t, n) <=> Red(t, n) = TRUE) /\ Red(t, n) \in BOOLEAN
                      /\ IsRed(r, n) <=> Red(r, n) = TRUE
      /\ ~IsRed(t, Nil) /\ ~IsRed(r, Nil)
  BY <1>1, <1>6, <1>7, RedIs
<1>9. \A n \in N : IsRed(r, n) => IsRed(t, n) /\ n # at
  BY <1>2, <1>5, <1>8 DEF IsPainted
<1>10. ~IsRed(r, r.root)
  <2>1. r.root = t.root /\ t.root \in N \cup {Nil}
    BY <1>1, <1>5 DEF IsPainted, Shape, Links
  <2>2. IsRed(t, t.root) => t.root = at
    BY DEF Coloured
  <2>. QED BY <1>8, <1>9, <2>1, <2>2
<1>11. ASSUME NEW n \in N, Pair(r, n) PROVE FALSE
  <2>1. IsRed(r, n) /\ IsRed(r, Up(t, n))
    BY <1>5, <1>11 DEF Pair, IsPainted
  <2>2. Up(t, n) \in N
    BY <1>1, <1>8, <2>1, RootIs
  <2>3. Pair(t, n) /\ at \notin {n, Up(t, n)}
    BY <1>9, <2>1, <2>2 DEF Pair
  <2>. QED BY <1>2, <2>3 DEF Coloured
<1>12. ASSUME Even, ~skipped' PROVE \E h : Balanced(r, h, Nil)
  <2>1. PICK h : Balanced(t, h, at)
    BY <1>2, <1>12 DEF Even, Short
  <2>2. h \in [N -> Nat] /\ \A n \in N, q \in Sides : Weight(t, h, at, Kid(t, n, q)) = h[n]
    BY <2>1 DEF Balanced
  <2>3. ASSUME NEW n \in N, NEW q \in Sides PROVE Weight(r, h, Nil, Kid(r, n, q)) = h[n]
    <3> DEFINE c == Kid(t, n, q)
    <3>1. Kid(r, n, q) = c /\ c \in N \cup {Nil} /\ Weight(t, h, at, c) = h[n] /\ c # t.root
      BY <1>1, <1>5, <2>2, RootIs DEF IsPainted, Shape, Links
    <3>. HIDE DEF c
    <3>2. CASE c = Nil
      BY <3>1, <3>2 DEF Weight
    <3>3. CASE c # Nil /\ c # at
      <4>1. Red(r, c) = Red(t, c)
        BY <1>5, <3>1, <3>3 DEF IsPainted
      <4>. QED BY <3>1, <3>3, <4>1 DEF Weight
    <3>4. CASE c # Nil /\ c = at
      <4>1. Red(r, c) = FALSE /\ Red(t, c) = TRUE /\ h[c] \in Nat
        BY <1>3, <1>5, <1>8, <2>2, <3>1, <3>4 DEF IsPainted
      <4>2. Weight(t, h, at, c) = h[c] + 0 + 1 /\ Weight(r, h, Nil, c) = h[c] + 1 + 0
        BY <3>4, <4>1 DEF Weight
      <4>. QED BY <3>1, <4>1, <4>2
    <3>. QED BY <3>1, <3>2, <3>3, <3>4
  <2>4. Balanced(r, h, Nil)
    BY <1>7, <2>2, <2>3 DEF Balanced
  <2>. QED BY <2>4
<1>13. skipped' \in BOOLEAN /\ answer' \in Values \cup {Nil}
  BY <1>2 DEF Placed
<1>14. Kept
  <2>. HIDE DEF t, N
  <2>1. \A n \in Nodes(tree') : ~Pair(tree', n)
    BY <1>4, <1>7, <1>11
  <2>2. Shaped(tree') /\ ~IsRed(tree', tree'.root)
    BY <1>4, <1>7, <1>10
  <2>3. Even /\ ~skipped' => \E h : Balanced(tree', h, Nil)
    BY <1>4, <1>12
  <2>. QED BY <1>2, <1>13, <2>1, <2>2, <2>3, IdleOn
<1>. QED BY <1>2, <1>4, <1>6, <1>14

\* Where a pass begins: x is black and not the root, and no two red nodes meet.
Lacking(t, x, p, s) ==
  /\ x \in Nodes(t) /\ p \in Nodes(t) /\ s \in Sides /\ x # p
  /\ Kid(t, p, s) = x /\ Up(t, x) = p /\ Side(t, x) = s /\ x # t.root
  /\ Red(t, x) = FALSE /\ ~IsRed(t, t.root)
  /\ \A n \in Nodes(t) : ~Pair(t, n)

LEMMA LackingIs ==
  ASSUME NEW t, NEW S, Shape(t, S), NEW x \in Nodes(t), x # t.root, ~IsRed(t, x),
         ~IsRed(t, t.root), \A n \in Nodes(t) : ~Pair(t, n),
         NEW p, p = Up(t, x), NEW s, s = Side(t, x)
  PROVE  Lacking(t, x, p, s)
<1>1. p \in Nodes(t) /\ p # x
  BY RootIs
<1>2. s \in Sides /\ Kid(t, p, s) = x
  BY SideIs
<1>3. Red(t, x) = FALSE
  BY RedIs
<1>. QED BY <1>1, <1>2, <1>3 DEF Lacking

\* The sibling of x, which is not red any more.
Beside(t, x, p, s, w) ==
  /\ w = Kid(t, p, Other(s)) /\ Sibling(t, x) = w
  /\ w \in Nodes(t) \cup {Nil} /\ w # x /\ w # p /\ (w # Nil => Up(t, w) = p)

LEMMA BesideIs ==
  ASSUME NEW t, NEW S, Shape(t, S), NEW x, NEW p, NEW s, Lacking(t, x, p, s),
         NEW w, w = Sibling(t, x)
  PROVE  Beside(t, x, p, s, w)
<1>1. x \in Nodes(t) /\ p \in Nodes(t) /\ s \in Sides /\ Other(s) \in Sides /\ Other(s) # s
      /\ Kid(t, p, s) = x /\ Nil \notin Nodes(t)
  BY SidesAre, NilIsNoKey DEF Lacking, Shape
<1>2. w = Kid(t, p, Other(s))
  BY DEF Lacking, Sibling, Kid, Up
<1>3. w \in Nodes(t) \cup {Nil} /\ (w # Nil => Up(t, w) = p)
  BY <1>1, <1>2 DEF Shape, Links
<1>4. x # w
  <2>1. IsKid(t, S, p, s, x)
    BY <1>1, KidsAre
  <2>. QED BY <1>2, <2>1 DEF IsKid
<1>5. w # p
  <2>1. w # Nil => IsKid(t, S, p, Other(s), w)
    BY <1>1, <1>2, KidsAre
  <2>. QED BY <1>1, <2>1 DEF IsKid
<1>. QED BY <1>2, <1>3, <1>4, <1>5 DEF Beside

LackingStill(t, r, x, p, s) == Lacking(r, x, p, s) /\ \A h : Balanced(t, h, x) => Balanced(r, h, x)

\* What a turn of two nodes other than x leaves of all that.
LEMMA LackingTurned ==
  ASSUME NEW t, NEW S, Shape(t, S), NEW x, NEW p, NEW s, Lacking(t, x, p, s),
         NEW m \in Nodes(t), NEW q \in Sides, NEW y, Around(t, m, q, y),
         Red(t, m) = FALSE, Red(t, y) = TRUE, ~IsRed(t, Kid(t, m, q)),
         NEW r, IsTurned(t, r, m, q, y), x \notin {m, y}, p # y, p = m => q = s
  PROVE  LackingStill(t, r, x, p, s)
<1> DEFINE N == Nodes(t)
           b == Kid(t, y, q)
<1>1. PICK S2 : Shape(r, S2)
  BY DEF IsTurned, Shaped
<1>2. /\ x \in N /\ p \in N /\ s \in Sides /\ x # p
      /\ Kid(t, p, s) = x /\ Up(t, x) = p /\ x # t.root
      /\ Red(t, x) = FALSE /\ ~IsRed(t, t.root)
      /\ \A n \in N : ~Pair(t, n)
  BY DEF Lacking
<1>3. /\ Nodes(r) = N /\ r.root = IF m = t.root THEN y ELSE t.root
      /\ Up(r, x) = IF x = b THEN m ELSE p
      /\ Red(r, x) = FALSE
      /\ Kid(r, p, s) = IF p = m /\ s = Other(q) THEN b ELSE x
  BY <1>2 DEF IsTurned
<1>4. x # b
  <2>1. b = x => Up(t, b) = y
    BY <1>2, NilIsNoKey DEF Shape, Links, Around
  <2>. QED BY <1>2, <2>1
<1>5. Kid(r, p, s) = x /\ Up(r, x) = p /\ x # r.root
  BY <1>2, <1>3, <1>4, SidesAre
<1>6. Side(r, x) = s
  BY <1>1, <1>2, <1>3, <1>5, SideIs
<1>7. ~IsRed(r, r.root)
  BY <1>2, TurnedRoot
<1>8. ~IsRed(t, m)
  BY RedIs
<1>9. ASSUME NEW n \in N, Pair(r, n) PROVE FALSE
  <2>1. PairOf(t, m, q, y, n)
    BY <1>9, TurnedPairs, Zenon
  <2>2. \/ n = m /\ IsRed(t, m)
        \/ n = y /\ Pair(t, m)
        \/ n \notin {m, y} /\ Pair(t, n) /\ (n = Kid(t, y, Other(q)) => IsRed(t, m))
    BY <2>1, Zenon DEF PairOf
  <2>. QED BY <1>2, <1>8, <2>2
<1>10. ASSUME NEW h, Balanced(t, h, x) PROVE Balanced(r, h, x)
  BY <1>10, TurnedBalance
<1>11. Lacking(r, x, p, s)
  BY <1>2, <1>3, <1>5, <1>6, <1>7, <1>9 DEF Lacking
<1>. QED BY <1>10, <1>11 DEF LackingStill

IsSiblingUp(t, r, x, p, s) ==
  /\ Shaped(r) /\ Same(t, r) /\ Lacking(r, x, p, s)
  /\ Beside(r, x, p, s, Sibling(r, x)) /\ ~IsRed(r, Sibling(r, x))
  /\ (Sibling(t, x) = Nil => Sibling(r, x) = Nil)
  /\ \A h : Balanced(t, h, x) => Balanced(r, h, x)

LEMMA SiblingTurned ==
  ASSUME NEW t, NEW S, Shape(t, S), NEW x, NEW p, NEW s, Lacking(t, x, p, s),
         NEW w, w = Sibling(t, x), w \in Nodes(t), Red(t, w) = TRUE, Red(t, p) = FALSE,
         NEW r, IsTurned(t, r, p, s, w)
  PROVE  IsSiblingUp(t, r, x, p, s)
<1> DEFINE N == Nodes(t)
           b == Kid(t, w, s)
<1>1. Beside(t, x, p, s, w)
  BY BesideIs
<1>2. /\ x \in N /\ p \in N /\ s \in Sides /\ x # p /\ Kid(t, p, s) = x /\ Red(t, x) = FALSE
      /\ \A n \in N : ~Pair(t, n)
  BY DEF Lacking
<1>3. /\ \A n \in N : n # Nil /\ (IsRed(t, n) <=> Red(t, n) = TRUE) /\ Red(t, n) \in BOOLEAN
      /\ ~IsRed(t, Nil)
  BY RedIs
<1>4. w = Kid(t, p, Other(s)) /\ w # x /\ w # p /\ w # Nil /\ Up(t, w) = p
  BY <1>1, <1>3 DEF Beside
<1>5. Around(t, p, s, w)
  BY <1>2, <1>4, AroundIs
<1>6. ~IsRed(t, Kid(t, p, s))
  BY <1>2, <1>3
<1>7. Lacking(r, x, p, s) /\ \A h : Balanced(t, h, x) => Balanced(r, h, x)
  <2>1. p \in Nodes(t) /\ s \in Sides /\ x \notin {p, w} /\ p # w /\ (p = p => s = s)
    BY <1>2, <1>4
  <2>2. Red(t, w) = TRUE /\ Red(t, p) = FALSE
    OBVIOUS
  <2>3. LackingStill(t, r, x, p, s)
    BY <1>5, <1>6, <2>1, <2>2, LackingTurned, Zenon
  <2>. QED BY <2>3 DEF LackingStill
<1>8. PICK S2 : Shape(r, S2)
  BY DEF IsTurned, Shaped
<1>9. Shaped(r) /\ Same(t, r)
  BY DEF IsTurned, Same
<1>10. Beside(r, x, p, s, Sibling(r, x))
  BY <1>7, <1>8, BesideIs
<1>11. Sibling(r, x) = b
  <2>1. Kid(r, p, Other(s)) = b
    BY <1>2, SidesAre DEF IsTurned
  <2>. QED BY <1>10, <2>1 DEF Beside
<1>12. ~IsRed(r, b)
  <2>1. b \in N \cup {Nil} /\ b \notin {p, w} /\ (b # Nil => Up(t, b) = w)
    BY <1>2, <1>5 DEF Around, Shape, Links
  <2>2. CASE b = Nil
    BY <2>2 DEF IsRed
  <2>3. CASE b # Nil
    <3>1. ~IsRed(t, b)
      BY <1>2, <1>3, <2>1, <2>3 DEF Pair
    <3>2. Red(r, b) = Red(t, b)
      BY <2>1, <2>3 DEF IsTurned
    <3>. QED BY <2>3, <3>1, <3>2 DEF IsRed, Red
  <2>. QED BY <2>2, <2>3
<1>. QED BY <1>4, <1>7, <1>9, <1>10, <1>11, <1>12 DEF IsSiblingUp

LEMMA SiblingUpIs ==
  ASSUME NEW t, NEW S, Shape(t, S), NEW x, NEW p, NEW s, Lacking(t, x, p, s),
         NEW r, r = SiblingUp(t, x)
  PROVE  IsSiblingUp(t, r, x, p, s)
<1> DEFINE N == Nodes(t)
           w == Sibling(t, x)
<1>1. Beside(t, x, p, s, w)
  BY BesideIs
<1>2. /\ x \in N /\ p \in N /\ s \in Sides /\ x # p /\ Kid(t, p, s) = x /\ Red(t, x) = FALSE
      /\ \A n \in N : ~Pair(t, n)
  BY DEF Lacking
<1>3. /\ \A n \in N : n # Nil /\ (IsRed(t, n) <=> Red(t, n) = TRUE) /\ Red(t, n) \in BOOLEAN
      /\ ~IsRed(t, Nil)
  BY RedIs
<1>4. CASE ~IsRed(t, w)
  <2>1. r = t
    BY <1>4, Zenon DEF SiblingUp
  <2>2. Shaped(t) /\ Same(t, t)
    BY DEF Shaped, Shape, Under, Same
  <2>. QED BY <1>1, <1>4, <2>1, <2>2 DEF IsSiblingUp
<1>5. CASE IsRed(t, w)
  <2>1. w # Nil /\ w \in N /\ Red(t, w) = TRUE /\ w = Kid(t, p, Other(s)) /\ w # x /\ w # p /\ Up(t, w) = p
    BY <1>1, <1>3, <1>5 DEF Beside
  <2>2. Red(t, p) = FALSE
    BY <1>2, <1>3, <1>5, <2>1 DEF Pair
  <2>3. r = Rotate(Painted(Painted(t, w, FALSE), p, TRUE), p, s)
    BY <1>5, Zenon DEF SiblingUp, Lacking, Up
  <2>. HIDE DEF w
  <2>4. IsTurned(t, r, p, s, w)
    BY <1>2, <2>1, <2>2, <2>3, TurnedOver
  <2>. QED BY <2>1, <2>2, <2>4, SiblingTurned DEF w
<1>. QED BY <1>4, <1>5

\* A red nephew of x is on the outside.
IsNephewOut(t, r, x, p, s) ==
  /\ Shaped(r) /\ Same(t, r) /\ Lacking(r, x, p, s)
  /\ Sibling(r, x) # Nil /\ Red(r, Sibling(r, x)) = FALSE
  /\ IsRed(r, Kid(r, Sibling(r, x), Other(s)))
  /\ \A h : Balanced(t, h, x) => Balanced(r, h, x)

LEMMA NephewTurned ==
  ASSUME NEW t, NEW S, Shape(t, S), NEW x, NEW p, NEW s, Lacking(t, x, p, s),
         NEW w, w = Sibling(t, x), w # Nil, Red(t, w) = FALSE,
         NEW i, i = Kid(t, w, s), i # Nil, Red(t, i) = TRUE, ~IsRed(t, Kid(t, w, Other(s))),
         NEW o, o = Other(s), NEW r, IsTurned(t, r, w, o, i)
  PROVE  IsNephewOut(t, r, x, p, s)
<1> DEFINE N == Nodes(t)
<1>1. Beside(t, x, p, s, w)
  BY BesideIs
<1>2. /\ x \in N /\ p \in N /\ s \in Sides /\ x # p /\ Kid(t, p, s) = x /\ Up(t, x) = p
  BY DEF Lacking
<1>3. w = Kid(t, p, o) /\ w \in N /\ w # x /\ w # p /\ Up(t, w) = p
  BY <1>1 DEF Beside
<1>4. o \in Sides /\ Other(o) = s /\ o # s
  BY <1>2, SidesAre
<1>5. Around(t, w, o, i)
  BY <1>3, <1>4, AroundIs
<1>6. i \in N /\ Up(t, i) = w /\ i # p /\ i # w
  BY <1>3, <1>5 DEF Around
<1>7. LackingStill(t, r, x, p, s)
  <2>1. w \in Nodes(t) /\ o \in Sides /\ x \notin {w, i} /\ p # i /\ (p = w => o = s)
    BY <1>2, <1>3, <1>4, <1>6
  <2>2. Red(t, i) = TRUE /\ Red(t, w) = FALSE /\ ~IsRed(t, Kid(t, w, o))
    OBVIOUS
  <2>. QED BY <1>5, <2>1, <2>2, LackingTurned, Zenon
<1>8. PICK S2 : Shape(r, S2)
  BY DEF IsTurned, Shaped
<1>9. Shaped(r) /\ Same(t, r)
  BY DEF IsTurned, Same
<1>10. Lacking(r, x, p, s) /\ \A h : Balanced(t, h, x) => Balanced(r, h, x)
  BY <1>7 DEF LackingStill
<1>11. Beside(r, x, p, s, Sibling(r, x))
  BY <1>8, <1>10, BesideIs
<1>12. Sibling(r, x) = i
  <2>1. Kid(r, p, o) = i
    BY <1>2, <1>3, <1>4, <1>6 DEF IsTurned
  <2>. QED BY <1>11, <2>1 DEF Beside
<1>13. Red(r, i) = FALSE /\ Kid(r, i, o) = w /\ Red(r, w) = TRUE
  BY <1>3, <1>4, <1>6 DEF IsTurned
<1>14. IsRed(r, w)
  BY <1>3, <1>13, NilIsNoKey DEF IsRed, Red, Shape
<1>. QED BY <1>9, <1>10, <1>12, <1>13, <1>14 DEF IsNephewOut

LEMMA NephewOutIs ==
  ASSUME NEW t, NEW S, Shape(t, S), NEW x, NEW p, NEW s, Lacking(t, x, p, s),
         NEW w, w = Sibling(t, x), w # Nil, ~IsRed(t, w),
         IsRed(t, Kid(t, w, "left")) \/ IsRed(t, Kid(t, w, "right")),
         NEW r, r = NephewOut(t, x)
  PROVE  IsNephewOut(t, r, x, p, s)
<1> DEFINE N == Nodes(t)
           i == Kid(t, w, s)
<1>1. Beside(t, x, p, s, w) /\ s \in Sides /\ Side(t, x) = s
  BY BesideIs DEF Lacking
<1>2. w \in N
  BY <1>1 DEF Beside
<1>3. Red(t, w) = FALSE
  BY <1>2, RedIs
<1>4. CASE IsRed(t, Kid(t, w, Other(s)))
  <2>1. r = t
    BY <1>1, <1>4, Zenon DEF NephewOut, Kid
  <2>2. Shaped(t) /\ Same(t, t)
    BY DEF Shaped, Shape, Under, Same
  <2>. QED BY <1>3, <1>4, <2>1, <2>2 DEF IsNephewOut
<1>5. CASE ~IsRed(t, Kid(t, w, Other(s)))
  <2>1. IsRed(t, i)
    BY <1>1, <1>5, SidesAre
  <2>2. i # Nil /\ i \in N
    BY <1>1, <1>2, <2>1 DEF IsRed, Shape, Links
  <2>3. Red(t, i) = TRUE
    BY <2>1, <2>2, RedIs
  <2>4. r = Rotate(Painted(Painted(t, i, FALSE), w, TRUE), w, Other(s))
    BY <1>1, <1>5, Zenon DEF NephewOut, Kid
  <2>5. i = Kid(t, w, Other(Other(s))) /\ Other(s) \in Sides
    BY <1>1, SidesAre
  <2>. HIDE DEF i
  <2>6. IsTurned(t, r, w, Other(s), i)
    BY <1>2, <1>3, <2>2, <2>4, <2>5, TurnedOver
  <2>. QED BY <1>3, <1>5, <2>2, <2>3, <2>6, NephewTurned DEF i
<1>. QED BY <1>4, <1>5

\* Nothing is left to do.
IsLevelled(t, r, x) ==
  /\ Shaped(r) /\ Same(t, r) /\ ~IsRed(r, r.root)
  /\ \A n \in Nodes(t) : ~Pair(r, n)
  /\ \A h : Balanced(t, h, x) => \E h2 : Balanced(r, h2, r.root)

\* r is t after the painting and the turn of ParentDown.
IsParentDown(t, r, p, s, w, d) ==
  /\ Shaped(r) /\ Nodes(r) = Nodes(t)
  /\ r.root = IF p = t.root THEN w ELSE t.root
  /\ \A n \in Nodes(t) :
       /\ Value(r, n) = Value(t, n)
       /\ Up(r, n) = IF n = p THEN w ELSE IF n = w THEN Up(t, p)
                     ELSE IF n = Kid(t, w, s) THEN p ELSE Up(t, n)
       /\ \A q \in Sides : Kid(r, n, q) = IF n = p /\ q = Other(s) THEN Kid(t, w, s)
                                          ELSE IF n = w /\ q = s THEN p
                                          ELSE IF Kid(t, n, q) = p THEN w ELSE Kid(t, n, q)
       /\ n \notin {p, w, d} => Red(r, n) = Red(t, n)
  /\ Red(r, w) = Red(t, p) /\ Red(r, p) = FALSE /\ Red(r, d) = FALSE

LEMMA ParentDownIs ==
  ASSUME NEW t, NEW S, Shape(t, S), NEW x, NEW p, NEW s, Lacking(t, x, p, s),
         NEW w, w = Sibling(t, x), w # Nil, NEW d, d = Kid(t, w, Other(s)), d # Nil,
         NEW r, r = ParentDown(t, x)
  PROVE  IsParentDown(t, r, p, s, w, d)
<1> DEFINE N == Nodes(t)
           q1 == Painted(t, w, Red(t, p))
           q2 == Painted(q1, p, FALSE)
           q == Painted(q2, d, FALSE)
<1>1. Beside(t, x, p, s, w) /\ s \in Sides /\ Side(t, x) = s /\ p \in N /\ Up(t, x) = p
  BY BesideIs DEF Lacking
<1>2. w = Kid(t, p, Other(s)) /\ w \in N /\ w # p
  BY <1>1 DEF Beside
<1>3. Around(t, p, s, w) /\ Other(s) \in Sides
  BY <1>1, <1>2, AroundIs, SidesAre
<1>4. d \in N /\ d \notin {p, w}
  BY <1>3 DEF Around
<1>5. r = Rotate(q, p, s)
  BY <1>1, Zenon DEF ParentDown, Kid, Up, Red
<1>6. TypedTree(t, N) /\ Red(t, p) \in BOOLEAN
  BY <1>1, RedIs DEF Shape
<1>. HIDE DEF N, q1, q2, q
<1>7. IsPainted(t, q1, N, w, Red(t, p))
  <2>1. w \in N \cup {Nil}
    BY <1>2
  <2>. QED BY <1>6, <2>1, PaintedEither, Zenon DEF q1
<1>8. IsPainted(q1, q2, N, p, FALSE)
  <2>1. p \in N \cup {Nil} /\ TypedTree(q1, N)
    BY <1>1, <1>7 DEF IsPainted
  <2>. QED BY <2>1, PaintedBlack, Zenon DEF q2
<1>9. IsPainted(q2, q, N, d, FALSE)
  <2>1. d \in N \cup {Nil} /\ TypedTree(q2, N)
    BY <1>4, <1>8 DEF IsPainted
  <2>. QED BY <2>1, PaintedBlack, Zenon DEF q
<1>10. Shape(q, S) /\ Nodes(q) = N
  <2>1. Shape(q1, S) /\ Nodes(q1) = N
    BY <1>7, PaintedSame DEF N, Same
  <2>2. Shape(q2, S) /\ Nodes(q2) = N
    BY <1>8, <2>1, PaintedSame DEF Same
  <2>. QED BY <1>9, <2>2, PaintedSame DEF Same
<1>11. p # Nil /\ w # Nil /\ d # Nil
  BY <1>1, <1>2, <1>4, <1>6, NilIsNoKey
<1>12. /\ q.root = t.root
       /\ \A n \in N : /\ Up(q, n) = Up(t, n) /\ Value(q, n) = Value(t, n)
                       /\ \A c \in Sides : Kid(q, n, c) = Kid(t, n, c)
  BY <1>7, <1>8, <1>9 DEF IsPainted
<1>13. \A n \in N : n \notin {p, w, d} => Red(q, n) = Red(t, n)
  BY <1>7, <1>8, <1>9 DEF IsPainted
<1>14. Red(q, w) = Red(t, p) /\ Red(q, p) = FALSE /\ Red(q, d) = FALSE
  BY <1>1, <1>2, <1>4, <1>7, <1>8, <1>9, <1>11 DEF IsPainted
<1>15. IsRotated(q, r, N, p, s)
  <2>1. Kid(q, p, Other(s)) # Nil
    BY <1>1, <1>2, <1>3, <1>11, <1>12
  <2>. QED BY <1>1, <1>5, <1>10, <2>1, RotateIs
<1>16. Shaped(r) /\ Nodes(r) = N
  <2>1. Kid(q, p, Other(s)) # Nil
    BY <1>1, <1>2, <1>3, <1>11, <1>12
  <2>2. Shape(r, TurnedUnder(q, S, p, s)) /\ Nodes(r) = N
    BY <1>1, <1>10, <1>15, <2>1, RotatedShape
  <2>. QED BY <2>2 DEF Shaped, Shape, Under
<1>17. Kid(q, p, Other(s)) = w /\ Kid(q, w, s) = Kid(t, w, s)
  BY <1>1, <1>2, <1>3, <1>12
<1>18. /\ r.root = IF p = t.root THEN w ELSE t.root
       /\ \A n \in N :
            /\ Up(r, n) = IF n = p THEN w ELSE IF n = w THEN Up(t, p)
                          ELSE IF n = Kid(t, w, s) THEN p ELSE Up(t, n)
            /\ \A c \in Sides : Kid(r, n, c) = IF n = p /\ c = Other(s) THEN Kid(t, w, s)
                                               ELSE IF n = w /\ c = s THEN p
                                               ELSE IF Kid(t, n, c) = p THEN w ELSE Kid(t, n, c)
            /\ Red(r, n) = Red(q, n) /\ Value(r, n) = Value(t, n)
  BY <1>1, <1>12, <1>15, <1>17 DEF IsRotated, Relinked
<1>19. Red(r, w) = Red(t, p) /\ Red(r, p) = FALSE /\ Red(r, d) = FALSE
  BY <1>1, <1>2, <1>4, <1>14, <1>18
<1>20. \A n \in N : n \notin {p, w, d} => Red(r, n) = Red(t, n)
  BY <1>13, <1>18
<1>. QED BY <1>16, <1>18, <1>19, <1>20 DEF IsParentDown, N

LEMMA LevelledPairs ==
  ASSUME NEW t, NEW S, Shape(t, S), NEW x, NEW p, NEW s, Lacking(t, x, p, s),
         NEW w, w = Sibling(t, x), w # Nil, Red(t, w) = FALSE,
         NEW d, d = Kid(t, w, Other(s)), d # Nil,
         NEW r, IsParentDown(t, r, p, s, w, d)
  PROVE  ~IsRed(r, r.root) /\ \A n \in Nodes(t) : ~Pair(r, n)
<1> DEFINE N == Nodes(t)
           b == Kid(t, w, s)
<1>1. PICK S2 : Shape(r, S2) /\ Nodes(r) = N
  BY DEF IsParentDown, Shaped
<1>2. /\ p \in N /\ s \in Sides /\ ~IsRed(t, t.root) /\ \A n \in N : ~Pair(t, n)
  BY DEF Lacking
<1>3. Beside(t, x, p, s, w) /\ Other(s) \in Sides
  BY <1>2, BesideIs, SidesAre
<1>4. w = Kid(t, p, Other(s)) /\ w \in N
  BY <1>3 DEF Beside
<1>5. Around(t, p, s, w)
  BY <1>2, <1>4, AroundIs
<1>6. /\ \A n \in N : n # Nil /\ (IsRed(t, n) <=> Red(t, n) = TRUE) /\ Red(t, n) \in BOOLEAN
      /\ \A n \in N : IsRed(r, n) <=> Red(r, n) = TRUE
      /\ ~IsRed(t, Nil) /\ ~IsRed(r, Nil)
  BY <1>1, RedIs
<1>7. /\ w # p /\ w # t.root /\ Up(t, p) # p /\ Up(t, p) # w /\ Up(t, w) = p
      /\ \A n \in N : Up(t, n) = p => n \in {Kid(t, p, s), w}
      /\ \A n \in N : Up(t, n) = w => n \in {b, d}
      /\ d \in N /\ d \notin {p, w} /\ b \notin {p, w} /\ b \in N \cup {Nil}
  BY <1>2, <1>3, <1>5 DEF Around, Beside
<1>8. \A n \in N : Up(t, n) \in N \cup {Nil}
  BY RootIs
<1>9. /\ r.root = IF p = t.root THEN w ELSE t.root
      /\ \A n \in N : Up(r, n) = IF n = p THEN w ELSE IF n = w THEN Up(t, p)
                                 ELSE IF n = b THEN p ELSE Up(t, n)
      /\ \A n \in N : n \notin {p, w, d} => Red(r, n) = Red(t, n)
      /\ Red(r, w) = Red(t, p) /\ Red(r, p) = FALSE /\ Red(r, d) = FALSE
  BY DEF IsParentDown
<1>10. Kid(t, p, s) = x /\ Red(t, x) = FALSE
  BY DEF Lacking
<1>11. t.root \in N
  BY <1>2, RootIs
<1>. HIDE DEF N, b
<1>12. \A n \in N : IsRed(r, n) => n \notin {p, d} /\ (n # w => IsRed(t, n)) /\ (n = w => IsRed(t, p))
  BY <1>2, <1>6, <1>9
<1>13. ~IsRed(r, r.root)
  BY <1>2, <1>4, <1>7, <1>9, <1>11, <1>12
<1>14. ASSUME NEW n \in N, Pair(r, n) PROVE FALSE
  <2>1. IsRed(r, n) /\ IsRed(r, Up(r, n))
    BY <1>14 DEF Pair
  <2>2. n \notin {p, d}
    BY <1>12, <2>1
  <2>3. CASE n = w
    <3>1. Up(r, n) = Up(t, p) /\ Up(t, p) \in N
      BY <1>2, <1>4, <1>6, <1>7, <1>8, <1>9, <2>1, <2>3
    <3>2. Pair(t, p)
      BY <1>7, <1>12, <2>1, <2>3, <3>1, <1>4 DEF Pair
    <3>. QED BY <1>2, <3>2
  <2>4. CASE n # w
    <3>1. IsRed(t, n)
      BY <1>12, <2>1, <2>4
    <3>2. n # b
      BY <1>2, <1>9, <1>12, <2>1, <2>2, <2>4
    <3>3. Up(r, n) = Up(t, n) /\ Up(t, n) \in N
      BY <1>6, <1>8, <1>9, <2>1, <2>2, <2>4, <3>2
    <3>4. Up(t, n) # w
      BY <1>7, <2>2, <3>2
    <3>5. Pair(t, n)
      BY <1>12, <2>1, <3>1, <3>3, <3>4 DEF Pair
    <3>. QED BY <1>2, <3>5
  <2>. QED BY <2>3, <2>4
<1>. QED BY <1>13, <1>14 DEF N

LEMMA LevelledBalance ==
  ASSUME NEW t, NEW S, Shape(t, S), NEW x, NEW p, NEW s, Lacking(t, x, p, s),
         NEW w, w = Sibling(t, x), w # Nil, Red(t, w) = FALSE,
         NEW d, d = Kid(t, w, Other(s)), d # Nil, Red(t, d) = TRUE,
         NEW r, IsParentDown(t, r, p, s, w, d), NEW h, Balanced(t, h, x)
  PROVE  \E h2 : Balanced(r, h2, r.root)
<1> DEFINE N == Nodes(t)
           b == Kid(t, w, s)
           o == Other(s)
           e == r.root
           h2 == [n \in N |-> IF n = p THEN h[w] ELSE IF n = w THEN h[p] ELSE h[n]]
           W(c) == Weight(t, h, x, c)
           W2(c) == Weight(r, h2, e, c)
<1>1. PICK S2 : Shape(r, S2) /\ Nodes(r) = N
  BY DEF IsParentDown, Shaped
<1>2. /\ p \in N /\ x \in N /\ s \in Sides /\ Kid(t, p, s) = x /\ Red(t, x) = FALSE /\ x # p
  BY DEF Lacking
<1>3. Beside(t, x, p, s, w) /\ o \in Sides /\ o # s /\ \A q \in Sides : q = s \/ q = o
  BY <1>2, BesideIs, SidesAre
<1>4. w = Kid(t, p, o) /\ w \in N /\ w # x /\ w # p
  BY <1>3 DEF Beside
<1>5. Around(t, p, s, w)
  BY <1>2, <1>4, AroundIs
<1>6. /\ d \in N /\ d \notin {p, w} /\ b \notin {p, w} /\ b \in N \cup {Nil} /\ d = Kid(t, w, o)
      /\ \A n \in N, q \in Sides : Kid(t, n, q) = w <=> n = p /\ q = o
      /\ \A q \in Sides : Kid(t, p, q) # p /\ Kid(t, w, q) # p
  BY <1>2, <1>3, <1>5 DEF Around
<1>7. /\ \A n \in N : n # Nil /\ Red(t, n) \in BOOLEAN
      /\ \A n \in N, q \in Sides : Kid(t, n, q) \in N \cup {Nil}
  BY RedIs DEF Shape, Links
<1>8. /\ \A n \in N, q \in Sides : Kid(r, n, q) = IF n = p /\ q = o THEN b
                                                  ELSE IF n = w /\ q = s THEN p
                                                  ELSE IF Kid(t, n, q) = p THEN w ELSE Kid(t, n, q)
      /\ \A n \in N : n \notin {p, w, d} => Red(r, n) = Red(t, n)
      /\ Red(r, w) = Red(t, p) /\ Red(r, p) = FALSE /\ Red(r, d) = FALSE
  BY DEF IsParentDown
<1>9. h \in [N -> Nat] /\ \A n \in N, q \in Sides : W(Kid(t, n, q)) = h[n]
  BY DEF Balanced
<1>10. /\ h2 \in [N -> Nat] /\ h2[p] = h[w] /\ h2[w] = h[p]
       /\ \A n \in N : n \notin {p, w} => h2[n] = h[n]
  BY <1>2, <1>4, <1>9
<1>11. \A n \in N, q \in Sides : Kid(r, n, q) # e
  BY <1>1, RootIs
<1>12. d # x /\ b # x
  <2>1. x # Nil => Up(t, x) = p
    BY <1>2 DEF Lacking
  <2>2. (d # Nil => Up(t, d) = w) /\ (b # Nil => Up(t, b) = w)
    BY <1>2, <1>3, <1>4, <1>6 DEF Shape, Links
  <2>. QED BY <1>2, <1>4, <1>7, <2>1, <2>2
<1>13. \A n \in N, q \in Sides : Kid(t, n, q) = d <=> n = w /\ q = o
  <2>1. IsKid(t, S, w, o, d)
    BY <1>3, <1>4, <1>6, KidsAre
  <2>2. \A n \in N, q \in Sides : Kid(t, n, q) = d => n = w
    BY <1>6, <1>7, <2>1 DEF IsKid, Shape, Links
  <2>3. Kid(t, w, s) # d
    BY <1>2, <1>3, <2>1, SidesAre DEF IsKid
  <2>. QED BY <1>3, <1>4, <1>6, <2>2, <2>3
<1>14. Red(t, w) = FALSE /\ Red(t, d) = TRUE
  OBVIOUS
<1>. HIDE DEF h2, N, b, o, e
<1>15. /\ \A c \in N \cup {Nil} : c \notin {p, w, d, e, x} => W2(c) = W(c)
       /\ e # x => W2(x) = h[x] + 1 + 0
       /\ W(x) = h[x] + 1 + 1
       /\ W(w) = h[w] + 1 + 0
       /\ W(d) = h[d] + 0 + 0
       /\ e # d => W2(d) = h[d] + 1 + 0
       /\ e # p => W2(p) = h[w] + 1 + 0
       /\ e # w => W2(w) = h[p] + (IF Red(t, p) THEN 0 ELSE 1) + 0
       /\ p # x => W(p) = h[p] + (IF Red(t, p) THEN 0 ELSE 1) + 0
  <2>1. \A c \in N \cup {Nil} : c \notin {p, w, d, e, x} => W2(c) = W(c)
    BY <1>8, <1>10 DEF Weight
  <2>2. e # x => W2(x) = h[x] + 1 + 0
    BY <1>2, <1>4, <1>7, <1>8, <1>10, <1>12 DEF Weight
  <2>3. W(x) = h[x] + 1 + 1
    BY <1>2, <1>7 DEF Weight
  <2>4. W(w) = h[w] + 1 + 0 /\ W(d) = h[d] + 0 + 0
    BY <1>4, <1>6, <1>7, <1>12, <1>14 DEF Weight
  <2>5. e # d => W2(d) = h[d] + 1 + 0
    BY <1>6, <1>7, <1>8, <1>10 DEF Weight
  <2>6. e # p => W2(p) = h[w] + 1 + 0
    BY <1>2, <1>7, <1>8, <1>10 DEF Weight
  <2>7. e # w => W2(w) = h[p] + (IF Red(t, p) THEN 0 ELSE 1) + 0
    BY <1>4, <1>7, <1>8, <1>10 DEF Weight
  <2>8. p # x => W(p) = h[p] + (IF Red(t, p) THEN 0 ELSE 1) + 0
    BY <1>2, <1>7 DEF Weight
  <2>. QED BY <2>1, <2>2, <2>3, <2>4, <2>5, <2>6, <2>7, <2>8
<1>. HIDE DEF W, W2
<1>16. W(x) = h[p] /\ W(w) = h[p] /\ W(d) = h[w] /\ W(b) = h[w]
  BY <1>2, <1>3, <1>4, <1>6, <1>9 DEF b
<1>17. h[p] \in Nat /\ h[w] \in Nat /\ h[x] \in Nat /\ h[d] \in Nat
  BY <1>2, <1>4, <1>6, <1>9
<1>18. h[p] = h[x] + 2 /\ h[p] = h[w] + 1 /\ h[d] = h[w]
  BY <1>15, <1>16, <1>17
<1>19. ASSUME NEW n \in N, NEW q \in Sides PROVE W2(Kid(r, n, q)) = h2[n]
  <2> DEFINE c == Kid(t, n, q)
  <2>1. Kid(r, n, q) # e /\ c \in N \cup {Nil} /\ W(c) = h[n]
    BY <1>7, <1>9, <1>11
  <2>2. CASE n = p /\ q = o
    <3>1. Kid(r, n, q) = b
      BY <1>8, <2>2
    <3>2. b # d
      BY <1>3, <1>4, <1>2, <1>13 DEF b
    <3>3. W2(b) = W(b)
      BY <1>6, <1>12, <1>15, <2>1, <3>1, <3>2
    <3>. QED BY <1>10, <1>16, <2>2, <3>1, <3>3
  <2>3. CASE n = w /\ q = s
    <3>1. Kid(r, n, q) = p
      BY <1>4, <1>8, <2>3
    <3>. QED BY <1>10, <1>15, <1>17, <1>18, <2>1, <2>3, <3>1
  <2>4. CASE n = p /\ q = s
    <3>1. Kid(r, n, q) = x
      BY <1>2, <1>3, <1>4, <1>8, <2>4
    <3>. QED BY <1>10, <1>15, <1>17, <1>18, <2>1, <2>4, <3>1
  <2>5. CASE n = w /\ q = o
    <3>1. Kid(r, n, q) = d
      BY <1>3, <1>4, <1>6, <1>8, <2>5
    <3>. QED BY <1>10, <1>15, <1>17, <1>18, <2>1, <2>5, <3>1
  <2>6. CASE n \notin {p, w}
    <3>1. h2[n] = h[n] /\ c # w /\ c # d
      BY <1>6, <1>10, <1>13, <2>6
    <3>2. CASE c = p
      <4>1. Kid(r, n, q) = w
        BY <1>8, <2>6, <3>2
      <4>. QED BY <1>2, <1>15, <2>1, <3>1, <3>2, <4>1
    <3>3. CASE c # p
      <4>1. Kid(r, n, q) = c
        BY <1>8, <2>6, <3>3
      <4>2. c # x
        <5>1. c # Nil => Up(t, c) = n
          BY DEF Shape, Links, N
        <5>2. Up(t, x) = p
          BY DEF Lacking
        <5>. QED BY <1>2, <1>7, <2>6, <5>1, <5>2
      <4>. QED BY <1>15, <2>1, <3>1, <3>3, <4>1, <4>2
    <3>. QED BY <3>2, <3>3
  <2>. QED BY <1>3, <2>2, <2>3, <2>4, <2>5, <2>6
<1>20. Balanced(r, h2, e)
  BY <1>1, <1>10, <1>19 DEF Balanced, W2
<1>. QED BY <1>20 DEF e

LEMMA Levelled ==
  ASSUME NEW t, NEW S, Shape(t, S), NEW x, NEW p, NEW s, Lacking(t, x, p, s),
         NEW w, w = Sibling(t, x), w # Nil, Red(t, w) = FALSE,
         NEW d, d = Kid(t, w, Other(s)), d # Nil, Red(t, d) = TRUE,
         NEW r, IsParentDown(t, r, p, s, w, d)
  PROVE  IsLevelled(t, r, x)
<1>1. ~IsRed(r, r.root) /\ \A n \in Nodes(t) : ~Pair(r, n)
  BY LevelledPairs
<1>2. \A h : Balanced(t, h, x) => \E h2 : Balanced(r, h2, r.root)
  BY LevelledBalance
<1>3. Shaped(r) /\ Same(t, r)
  BY DEF IsParentDown, Same
<1>. QED BY <1>1, <1>2, <1>3 DEF IsLevelled

\* The sibling is painted red: the parent is short of a black node now.
IsPassedUp(t, r, x, p) ==
  /\ Shaped(r) /\ Same(t, r) /\ ~IsRed(r, r.root) /\ p \in Nodes(t)
  /\ \A n \in Nodes(t) : Pair(r, n) => p = Up(r, n) /\ IsRed(r, p)
  /\ \A h : Balanced(t, h, x) => \E h2 : Balanced(r, h2, p)

LEMMA PassedUpBalance ==
  ASSUME NEW t, NEW S, Shape(t, S), NEW x, NEW p, NEW s, Lacking(t, x, p, s),
         NEW w, Beside(t, x, p, s, w), w # Nil, Red(t, w) = FALSE,
         NEW r, IsPainted(t, r, Nodes(t), w, TRUE), NEW h, Balanced(t, h, x)
  PROVE  \E h2 : Balanced(r, h2, p)
<1> DEFINE N == Nodes(t)
           h2 == [n \in N |-> IF n = p THEN h[p] - 1 ELSE h[n]]
           W(c) == Weight(t, h, x, c)
           W2(c) == Weight(r, h2, p, c)
           blk == IF Red(t, p) THEN 0 ELSE 1
<1>1. Nodes(r) = N
  BY PaintedSame DEF Same
<1>2. /\ p \in N /\ x \in N /\ s \in Sides /\ Kid(t, p, s) = x /\ Red(t, x) = FALSE /\ x # p
      /\ Up(t, x) = p
  BY DEF Lacking
<1>3. /\ w = Kid(t, p, Other(s)) /\ w \in N /\ w # x /\ w # p /\ Up(t, w) = p
      /\ Other(s) \in Sides /\ \A q \in Sides : q = s \/ q = Other(s)
  BY <1>2, SidesAre DEF Beside
<1>4. /\ \A n \in N : n # Nil
      /\ \A n \in N, q \in Sides : /\ Kid(t, n, q) \in N \cup {Nil}
                                   /\ Kid(t, n, q) # Nil => Up(t, Kid(t, n, q)) = n
  BY RedIs DEF Shape, Links
<1>5. /\ \A n \in N, q \in Sides : Kid(r, n, q) = Kid(t, n, q)
      /\ \A n \in N : n # w => Red(r, n) = Red(t, n)
      /\ Red(r, w) = TRUE
  BY <1>3, <1>4 DEF IsPainted
<1>6. h \in [N -> Nat] /\ \A n \in N, q \in Sides : W(Kid(t, n, q)) = h[n]
  BY DEF Balanced
<1>7. \A n \in N : h2[n] = IF n = p THEN h[p] - 1 ELSE h[n]
  OBVIOUS
<1>8. Red(t, w) = FALSE
  OBVIOUS
<1>9. h2 = [n \in N |-> IF n = p THEN h[p] - 1 ELSE h[n]]
  OBVIOUS
<1>. HIDE DEF N, h2
<1>10. /\ \A c \in N \cup {Nil} : c \notin {p, w, x} => W2(c) = W(c)
       /\ W2(x) = h[x] + 1 + 0
       /\ W(x) = h[x] + 1 + 1
       /\ W2(w) = h[w] + 0 + 0
       /\ W(w) = h[w] + 1 + 0
       /\ W2(p) = (h[p] - 1) + blk + 1
       /\ W(p) = h[p] + blk + 0
  <2>1. \A c \in N \cup {Nil} : c \notin {p, w, x} => W2(c) = W(c)
    BY <1>5, <1>7 DEF Weight
  <2>2. W2(x) = h[x] + 1 + 0 /\ W(x) = h[x] + 1 + 1
    BY <1>2, <1>3, <1>4, <1>5, <1>7 DEF Weight
  <2>3. W2(w) = h[w] + 0 + 0 /\ W(w) = h[w] + 1 + 0
    BY <1>3, <1>4, <1>5, <1>7, <1>8 DEF Weight
  <2>4. W2(p) = (h[p] - 1) + blk + 1 /\ W(p) = h[p] + blk + 0
    BY <1>2, <1>3, <1>4, <1>5, <1>7 DEF Weight
  <2>. QED BY <2>1, <2>2, <2>3, <2>4
<1>11. blk \in {0, 1}
  OBVIOUS
<1>. HIDE DEF W, W2, blk
<1>12. W(x) = h[p] /\ W(w) = h[p] /\ h[p] \in Nat /\ h[w] \in Nat /\ h[x] \in Nat
  BY <1>2, <1>3, <1>6
<1>13. h[p] = h[x] + 2 /\ h[p] = h[w] + 1 /\ h[p] - 1 \in Nat
  BY <1>10, <1>12
<1>14. h2 \in [N -> Nat]
  BY <1>6, <1>9, <1>13
<1>15. ASSUME NEW n \in N, NEW q \in Sides PROVE W2(Kid(r, n, q)) = h2[n]
  <2> DEFINE c == Kid(t, n, q)
  <2>1. Kid(r, n, q) = c /\ c \in N \cup {Nil} /\ W(c) = h[n] /\ (c # Nil => Up(t, c) = n)
    BY <1>4, <1>5, <1>6
  <2>2. CASE n = p /\ q = s
    <3>1. c = x
      BY <1>2, <2>2
    <3>. QED BY <1>2, <1>7, <1>10, <1>12, <1>13, <2>1, <2>2, <3>1
  <2>3. CASE n = p /\ q = Other(s)
    <3>1. c = w
      BY <1>3, <2>3
    <3>. QED BY <1>2, <1>7, <1>10, <1>12, <1>13, <2>1, <2>3, <3>1
  <2>4. CASE n # p
    <3>1. c # x /\ c # w /\ h2[n] = h[n]
      BY <1>2, <1>3, <1>4, <1>7, <2>1, <2>4
    <3>2. CASE c = p
      BY <1>10, <1>11, <1>12, <2>1, <3>1, <3>2
    <3>3. CASE c # p
      BY <1>10, <2>1, <3>1, <3>3
    <3>. QED BY <3>2, <3>3
  <2>. QED BY <1>3, <2>2, <2>3, <2>4
<1>16. Balanced(r, h2, p)
  BY <1>1, <1>14, <1>15 DEF Balanced, W2
<1>. QED BY <1>16

LEMMA PassedUp ==
  ASSUME NEW t, NEW S, Shape(t, S), NEW x, NEW p, NEW s, Lacking(t, x, p, s),
         NEW w, Beside(t, x, p, s, w), w # Nil, Red(t, w) = FALSE,
         ~IsRed(t, Kid(t, w, "left")), ~IsRed(t, Kid(t, w, "right")),
         NEW r, IsPainted(t, r, Nodes(t), w, TRUE)
  PROVE  IsPassedUp(t, r, x, p)
<1> DEFINE N == Nodes(t)
<1>1. Shape(r, S) /\ Same(t, r)
  BY PaintedSame
<1>2. Shaped(r) /\ Nodes(r) = N
  BY <1>1 DEF Shaped, Shape, Under, Same
<1>3. /\ p \in N /\ s \in Sides /\ ~IsRed(t, t.root) /\ \A n \in N : ~Pair(t, n)
  BY DEF Lacking
<1>4. w = Kid(t, p, Other(s)) /\ w \in N /\ w # p /\ Up(t, w) = p
  BY DEF Beside
<1>5. \A n \in N : IsRed(r, n) => n = w \/ IsRed(t, n)
  BY DEF IsPainted, IsRed, Red
<1>6. w # t.root
  BY <1>3, <1>4, RootIs, SidesAre
<1>7. ~IsRed(r, r.root)
  <2>1. r.root = t.root /\ t.root \in N
    BY <1>3, RootIs DEF IsPainted
  <2>. QED BY <1>3, <1>5, <1>6, <2>1
<1>8. ASSUME NEW n \in N, Pair(r, n) PROVE p = Up(r, n) /\ IsRed(r, p)
  <2>1. Up(r, n) = Up(t, n) /\ IsRed(r, n) /\ IsRed(r, Up(t, n))
    BY <1>8 DEF IsPainted, Pair
  <2>2. Up(t, n) \in N
    BY <2>1, RootIs DEF IsRed
  <2>3. CASE n = w
    BY <1>4, <2>1, <2>3
  <2>4. CASE n # w
    <3>1. IsRed(t, n)
      BY <1>5, <2>1, <2>4
    <3>2. Up(t, n) # w
      <4> SUFFICES ASSUME Up(t, n) = w PROVE FALSE
        OBVIOUS
      <4>1. n # t.root
        BY <1>3, <3>1
      <4>2. \E q \in Sides : Kid(t, w, q) = n
        BY <4>1, RootIs
      <4>. QED BY <3>1, <4>2 DEF Sides
    <3>3. Pair(t, n)
      BY <1>5, <2>1, <2>2, <3>1, <3>2 DEF Pair
    <3>. QED BY <1>3, <3>3
  <2>. QED BY <2>3, <2>4
<1>9. \A h : Balanced(t, h, x) => \E h2 : Balanced(r, h2, p)
  BY PassedUpBalance
<1>. QED BY <1>1, <1>2, <1>3, <1>7, <1>8, <1>9 DEF IsPassedUp

\* Without a sibling, the ways through x and past it were not alike before.
LEMMA NoSibling ==
  ASSUME NEW t, NEW S, Shape(t, S), NEW x, NEW p, NEW s, Lacking(t, x, p, s),
         Beside(t, x, p, s, Nil), NEW r, IsPainted(t, r, Nodes(t), x, FALSE)
  PROVE  /\ Shaped(r) /\ Same(t, r) /\ ~IsRed(r, r.root)
         /\ \A n \in Nodes(t) : ~Pair(r, n)
         /\ \A h : ~Balanced(t, h, x)
<1> DEFINE N == Nodes(t)
<1>1. Shape(r, S) /\ Same(t, r)
  BY PaintedSame
<1>2. Shaped(r)
  BY <1>1 DEF Shaped, Shape, Under, Same
<1>3. /\ p \in N /\ x \in N /\ s \in Sides /\ ~IsRed(t, t.root) /\ \A n \in N : ~Pair(t, n)
      /\ Kid(t, p, s) = x /\ Red(t, x) = FALSE
  BY DEF Lacking
<1>4. \A n \in N \cup {Nil} : IsRed(r, n) => IsRed(t, n)
  <2>1. x # Nil
    BY <1>3, RedIs
  <2>. QED BY <2>1 DEF IsPainted, IsRed, Red
<1>5. ~IsRed(r, r.root)
  <2>1. r.root = t.root /\ t.root \in N \cup {Nil}
    BY DEF IsPainted, Shape, Links
  <2>. QED BY <1>3, <1>4, <2>1
<1>6. ASSUME NEW n \in N, Pair(r, n) PROVE FALSE
  <2>1. IsRed(r, n) /\ IsRed(r, Up(t, n)) /\ Up(t, n) \in N \cup {Nil}
    BY <1>6, RootIs DEF IsPainted, Pair
  <2>. QED BY <1>3, <1>4, <2>1 DEF Pair
<1>7. ASSUME NEW h, Balanced(t, h, x) PROVE FALSE
  <2>1. /\ h[x] \in Nat /\ h[p] \in Nat
        /\ Weight(t, h, x, x) = h[p] /\ Weight(t, h, x, Nil) = h[p]
    BY <1>3, <1>7, SidesAre DEF Balanced, Beside
  <2>2. Weight(t, h, x, Nil) = 0 /\ Weight(t, h, x, x) = h[x] + 1 + 1
    BY <1>3, RedIs DEF Weight
  <2>. QED BY <2>1, <2>2
<1>. QED BY <1>1, <1>2, <1>5, <1>6, <1>7

LEMMA FixDeleteKeeps ==
  ASSUME Sound, Placed, Coloured, FixDelete
  PROVE  Kept /\ Same(tree, tree') /\ answer' = answer
<1> DEFINE t == tree
           N == Nodes(t)
           x == at
           p == Up(t, at)
           s == Side(t, at)
           t1 == SiblingUp(t, at)
           w0 == Sibling(t, at)
           w1 == Sibling(t1, at)
<1>1. PICK S : Shape(t, S)
  BY DEF Sound, Shaped
<1>2. op = "fix_delete" /\ x \in N /\ x # t.root /\ ~IsRed(t, x) /\ answer' = answer /\ skipped' = skipped
  BY DEF FixDelete, Fixing, Placed
<1>3. \/ /\ w0 = Nil \/ w1 = Nil
         /\ tree' = Painted(t1, x, FALSE)
         /\ op' = "idle" /\ at' = Nil
      \/ /\ w0 # Nil /\ w1 # Nil
         /\ ~IsRed(t1, Kid(t1, w1, "left")) /\ ~IsRed(t1, Kid(t1, w1, "right"))
         /\ tree' = Painted(t1, w1, TRUE)
         /\ at' = p /\ op' = op
      \/ /\ w0 # Nil /\ w1 # Nil
         /\ IsRed(t1, Kid(t1, w1, "left")) \/ IsRed(t1, Kid(t1, w1, "right"))
         /\ tree' = ParentDown(NephewOut(t1, x), x)
         /\ at' = tree'.root /\ op' = op
  BY Zenon DEF FixDelete, Up, Kid
<1>4. Lacking(t, x, p, s)
  <2>1. \A n \in N : ~Pair(t, n)
    BY <1>2 DEF Coloured
  <2>2. ~IsRed(t, t.root)
    BY <1>2 DEF Coloured
  <2>. QED BY <1>1, <1>2, <2>1, <2>2, LackingIs
<1>5. IsSiblingUp(t, t1, x, p, s)
  BY <1>1, <1>4, SiblingUpIs
<1>6. skipped' \in BOOLEAN /\ answer' \in Values \cup {Nil}
  BY <1>2 DEF Placed
<1>7. PICK r : r = tree'
  OBVIOUS
<1>8. ASSUME Even, ~skipped' PROVE \E h : Balanced(t, h, x)
  BY <1>2, <1>8 DEF Even, Short
<1>9. PICK u : u = t1
  OBVIOUS
<1>10. PICK w : w = w1
  OBVIOUS
<1>. HIDE DEF t, N, x, p, s, t1, w0, w1
<1>11. /\ Shaped(u) /\ Same(t, u) /\ Lacking(u, x, p, s) /\ Beside(u, x, p, s, w) /\ ~IsRed(u, w)
       /\ w0 = Nil => w = Nil
       /\ \A h : Balanced(t, h, x) => Balanced(u, h, x)
       /\ w = Sibling(u, x)
  BY <1>5, <1>9, <1>10, Zenon DEF IsSiblingUp, w0, w1, t1, t, x
<1>12. PICK U : Shape(u, U)
  BY <1>11 DEF Shaped
<1>13. Nodes(u) = N
  BY <1>11 DEF Same, N
<1>14. CASE /\ w0 = Nil \/ w1 = Nil
            /\ tree' = Painted(t1, x, FALSE)
            /\ op' = "idle" /\ at' = Nil
  <2>1. w = Nil
    BY <1>10, <1>11, <1>14
  <2>2. Beside(u, x, p, s, Nil)
    BY <1>11, <2>1
  <2>3. IsPainted(u, r, Nodes(u), x, FALSE)
    <3>1. r = Painted(u, x, FALSE)
      BY <1>7, <1>9, <1>14, Zenon
    <3>2. TypedTree(u, Nodes(u)) /\ x \in Nodes(u) \cup {Nil}
      BY <1>2, <1>12, <1>13 DEF Shape
    <3>. QED BY <3>1, <3>2, PaintedBlack, Zenon
  <2>4. /\ Shaped(r) /\ Same(u, r) /\ ~IsRed(r, r.root)
        /\ \A n \in Nodes(u) : ~Pair(r, n)
        /\ \A h : ~Balanced(u, h, x)
    BY <1>11, <1>12, <2>2, <2>3, NoSibling
  <2>5. Same(t, r) /\ Nodes(r) = N
    BY <1>11, <1>13, <2>4 DEF Same, N
  <2>6. Kept
    <3>1. (\A n \in Nodes(tree') : ~Pair(tree', n)) /\ Shaped(tree') /\ ~IsRed(tree', tree'.root)
      BY <1>7, <1>13, <2>4, <2>5
    <3>2. Even /\ ~skipped' => \E h : Balanced(tree', h, Nil)
      BY <1>8, <1>11, <2>4
    <3>3. op' = "idle" /\ at' \in Nodes(tree') \cup {Nil}
      BY <1>14
    <3>. QED BY <1>6, <3>1, <3>2, <3>3, IdleOn
  <2>. QED BY <1>2, <1>7, <2>5, <2>6 DEF t
<1>15. CASE /\ w0 # Nil /\ w1 # Nil
            /\ ~IsRed(t1, Kid(t1, w1, "left")) /\ ~IsRed(t1, Kid(t1, w1, "right"))
            /\ tree' = Painted(t1, w1, TRUE)
            /\ at' = p /\ op' = op
  <2>1. /\ w # Nil /\ ~IsRed(u, Kid(u, w, "left")) /\ ~IsRed(u, Kid(u, w, "right"))
        /\ r = Painted(u, w, TRUE)
    BY <1>7, <1>9, <1>10, <1>15, Zenon
  <2>2. w \in Nodes(u) /\ Red(u, w) = FALSE
    <3>1. w \in Nodes(u)
      BY <1>11, <2>1 DEF Beside
    <3>. QED BY <1>11, <1>12, <3>1, RedIs
  <2>3. IsPainted(u, r, Nodes(u), w, TRUE)
    <3>1. TypedTree(u, Nodes(u)) /\ w \in Nodes(u) \cup {Nil}
      BY <1>12, <2>2 DEF Shape
    <3>. QED BY <2>1, <3>1, PaintedRed, Zenon
  <2>4. IsPassedUp(u, r, x, p)
    BY <1>11, <1>12, <2>1, <2>2, <2>3, PassedUp
  <2>5. /\ Shaped(r) /\ Same(u, r) /\ ~IsRed(r, r.root) /\ p \in Nodes(u)
        /\ \A n \in Nodes(u) : Pair(r, n) => p = Up(r, n) /\ IsRed(r, p)
        /\ \A h : Balanced(u, h, x) => \E h2 : Balanced(r, h2, p)
    BY <2>4, Zenon DEF IsPassedUp
  <2>6. Same(t, r) /\ Nodes(r) = N
    BY <1>11, <1>13, <2>5 DEF Same, N
  <2>7. Kept
    <3>1. /\ Shaped(tree') /\ at' \in Nodes(tree') \cup {Nil}
          /\ \A n \in Nodes(tree') : Pair(tree', n) => at' \in {n, Up(tree', n)} /\ IsRed(tree', at')
          /\ ~IsRed(tree', tree'.root)
      BY <1>7, <1>13, <1>15, <2>5, <2>6
    <3>2. Even /\ ~skipped' => \E h : Balanced(tree', h, at')
      BY <1>7, <1>8, <1>11, <1>15, <2>5
    <3>3. op' = "fix_delete"
      BY <1>2, <1>15
    <3>. QED BY <1>6, <3>1, <3>2, <3>3, DeleteOn
  <2>. QED BY <1>2, <1>7, <2>6, <2>7 DEF t
<1>16. CASE /\ w0 # Nil /\ w1 # Nil
            /\ IsRed(t1, Kid(t1, w1, "left")) \/ IsRed(t1, Kid(t1, w1, "right"))
            /\ tree' = ParentDown(NephewOut(t1, x), x)
            /\ at' = tree'.root /\ op' = op
  <2>1. PICK v : v = NephewOut(u, x)
    OBVIOUS
  <2>2. /\ w # Nil
        /\ IsRed(u, Kid(u, w, "left")) \/ IsRed(u, Kid(u, w, "right"))
        /\ r = ParentDown(v, x)
    BY <1>7, <1>9, <1>10, <1>16, <2>1, Zenon
  <2>3. IsNephewOut(u, v, x, p, s)
    BY <1>11, <1>12, <2>1, <2>2, NephewOutIs
  <2>4. PICK y : y = Sibling(v, x)
    OBVIOUS
  <2>5. PICK d : d = Kid(v, y, Other(s))
    OBVIOUS
  <2>6. /\ Shaped(v) /\ Same(u, v) /\ Lacking(v, x, p, s) /\ y # Nil /\ Red(v, y) = FALSE /\ IsRed(v, d)
        /\ \A h : Balanced(u, h, x) => Balanced(v, h, x)
    BY <2>3, <2>4, <2>5, Zenon DEF IsNephewOut
  <2>7. PICK V : Shape(v, V)
    BY <2>6 DEF Shaped
  <2>8. d # Nil /\ Red(v, d) = TRUE
    <3>1. Beside(v, x, p, s, y) /\ Other(s) \in Sides
      BY <2>4, <2>6, <2>7, BesideIs, SidesAre DEF Lacking
    <3>2. y \in Nodes(v) /\ d # Nil
      BY <2>6, <3>1 DEF Beside, IsRed
    <3>3. d \in Nodes(v)
      BY <2>5, <2>7, <3>1, <3>2 DEF Shape, Links
    <3>. QED BY <2>6, <2>7, <3>2, <3>3, RedIs
  <2>9. IsParentDown(v, r, p, s, y, d)
    BY <2>2, <2>4, <2>5, <2>6, <2>7, <2>8, ParentDownIs
  <2>10. IsLevelled(v, r, x)
    BY <2>4, <2>5, <2>6, <2>7, <2>8, <2>9, Levelled
  <2>11. /\ Shaped(r) /\ Same(v, r) /\ ~IsRed(r, r.root)
         /\ \A n \in Nodes(v) : ~Pair(r, n)
         /\ \A h : Balanced(v, h, x) => \E h2 : Balanced(r, h2, r.root)
    BY <2>10, Zenon DEF IsLevelled
  <2>12. Same(t, r) /\ Nodes(r) = N /\ Nodes(v) = N
    BY <1>11, <1>13, <2>6, <2>11 DEF Same, N
  <2>13. Kept
    <3>1. /\ Shaped(tree') /\ at' \in Nodes(tree') \cup {Nil}
          /\ \A n \in Nodes(tree') : ~Pair(tree', n)
          /\ ~IsRed(tree', tree'.root)
      <4>1. r.root \in Nodes(r) \cup {Nil}
        BY <2>11 DEF Shaped, Shape, Links
      <4>. QED BY <1>7, <1>16, <2>11, <2>12, <4>1
    <3>2. Even /\ ~skipped' => \E h : Balanced(tree', h, at')
      BY <1>7, <1>8, <1>11, <1>16, <2>6, <2>11
    <3>3. op' = "fix_delete"
      BY <1>2, <1>16
    <3>. QED BY <1>6, <3>1, <3>2, <3>3, DeleteOn
  <2>. QED BY <1>2, <1>7, <2>12, <2>13 DEF t
<1>. QED BY <1>3, <1>14, <1>15, <1>16, Zenon

-----------------------------------------------------------------------------
(* RbTree: the invariant. *)

LEMMA FindKeyKeeps ==
  ASSUME Sound, Placed, NEW k \in Keys, FindKey(k)
  PROVE  /\ UNCHANGED <<tree, op, at, skipped>> /\ answer' \in Values \cup {Nil}
         /\ answer' = IF k \in Nodes(tree) THEN Value(tree, k) ELSE Nil
<1>1. PICK S : Shape(tree, S)
  BY DEF Sound, Shaped
<1>2. Search(tree, k).at = IF k \in Nodes(tree) THEN k ELSE Nil
  BY <1>1, SearchIs DEF Found
<1>3. k # Nil /\ (k \in Nodes(tree) => Value(tree, k) \in Values)
  BY <1>1, TypedIs, TreeAssumption DEF Shape
<1>4. answer' = IF k \in Nodes(tree) THEN Value(tree, k) ELSE Nil
  BY <1>2, <1>3 DEF FindKey, Value
<1>. QED BY <1>3, <1>4 DEF FindKey

LEMMA TreeIInvInit == ASSUME TreeInit PROVE TreeIInv
<1> DEFINE none == [n \in {} |-> Nil]
<1>1. tree.root = Nil /\ Nodes(tree) = {} /\ tree \in [root : {Nil}, node : [{} -> Node]]
  <2>1. tree = [root |-> Nil, node |-> none]
    BY DEF TreeInit
  <2>2. none \in [{} -> Node] /\ DOMAIN none = {}
    OBVIOUS
  <2>. HIDE DEF none
  <2>. QED BY <2>1, <2>2 DEF Nodes
<1>2. op = "idle" /\ at = Nil /\ answer = Nil /\ skipped = FALSE
  BY DEF TreeInit
<1>3. TypedTree(tree, {})
  BY <1>1 DEF TypedTree
<1>4. Links(tree)
  BY <1>1 DEF Links
<1> DEFINE S == [n \in {} |-> {}]
<1>5. S \in [Nodes(tree) -> SUBSET Nodes(tree)] /\ Under(tree, S)
  BY <1>1 DEF Under
<1>6. Sound
  BY <1>1, <1>3, <1>4, <1>5, FS_EmptySet DEF Sound, Shaped, Shape
<1>7. Placed
  BY <1>2 DEF Placed
<1>8. Coloured
  BY <1>1, <1>2 DEF Coloured, IsRed
<1>9. Even
  <2>1. [n \in {} |-> 0] \in [Nodes(tree) -> Nat] /\ Balanced(tree, [n \in {} |-> 0], Short)
    BY <1>1 DEF Balanced
  <2>. QED BY <2>1, Zenon DEF Even
<1>. QED BY <1>6, <1>7, <1>8, <1>9 DEF TreeIInv

LEMMA TreeIInvStep == ASSUME TreeIInv, [TreeNext]_treeVars PROVE TreeIInv'
<1>1. Sound /\ Placed /\ Coloured /\ Even
  BY DEF TreeIInv
<1>2. ASSUME Kept PROVE TreeIInv'
  BY <1>1, <1>2 DEF Kept, TreeIInv
<1>3. ASSUME UNCHANGED <<tree, op, at, skipped>>, answer' \in Values \cup {Nil} PROVE TreeIInv'
  <2>1. Sound' /\ Coloured' /\ Even'
    <3>1. Sound' = Sound
      BY <1>3, Zenon DEF Sound
    <3>2. Coloured' = Coloured
      BY <1>3, Zenon DEF Coloured
    <3>3. Even' = Even
      BY <1>3, Zenon DEF Even, Short
    <3>. QED BY <1>1, <3>1, <3>2, <3>3
  <2>2. Placed'
    BY <1>1, <1>3 DEF Placed
  <2>. QED BY <2>1, <2>2 DEF TreeIInv
<1>4. ASSUME NEW k \in Keys, FindKey(k) PROVE TreeIInv'
  BY <1>1, <1>3, <1>4, FindKeyKeeps
<1>5. ASSUME NEW k \in Keys, DeleteKey(k) PROVE TreeIInv'
  BY <1>1, <1>2, <1>5, DeleteKeyKeeps
<1>6. ASSUME NEW k \in Keys, NEW v \in Values, InsertAgain(k, v) PROVE TreeIInv'
  BY <1>1, <1>2, <1>6, InsertAgainKeeps
<1>7. ASSUME NEW k \in Keys, NEW v \in Values, InsertNode(k, v) PROVE TreeIInv'
  BY <1>1, <1>2, <1>7, InsertNodeKeeps
<1>8. CASE FixInsert
  BY <1>1, <1>2, <1>8, FixInsertKeeps
<1>9. CASE FixInsertDone
  BY <1>1, <1>2, <1>9, FixInsertDoneKeeps
<1>10. CASE FixDelete
  BY <1>1, <1>2, <1>10, FixDeleteKeeps
<1>11. CASE FixDeleteDone
  BY <1>1, <1>2, <1>11, FixDeleteDoneKeeps
<1>12. CASE UNCHANGED treeVars
  <2>1. answer \in Values \cup {Nil}
    BY <1>1 DEF Placed
  <2>. QED BY <1>3, <1>12, <2>1 DEF treeVars
<1>. QED BY <1>4, <1>5, <1>6, <1>7, <1>8, <1>9, <1>10, <1>11, <1>12 DEF TreeNext

\* TreeIInv in every state, so after every map_insert and map_delete and at each
\* pass of fix_insert and fix_delete: the search order and the links of the tree,
\* where two red nodes may meet, and the black heights.
THEOREM TreeInvariant == TreeSpec => []TreeIInv
<1>. QED BY TreeIInvInit, TreeIInvStep, PTL DEF TreeSpec

\* IterationInOrder in every state: map_iterator_begin returns the least key and
\* map_iterator_next the next larger one, also while a repair is under way.
THEOREM IteratesInOrder == TreeSpec => []IterationInOrder
<1>1. TreeIInv => IterationInOrder
  BY OrderFromShape DEF TreeIInv
<1>. QED BY <1>1, TreeInvariant, PTL

-----------------------------------------------------------------------------
(* RbTree: the black nodes on the way up. *)

DepthStep(t, c) ==
  IF c[1] = Nil THEN c ELSE <<t.node[c[1]].parent, c[2] + IF t.node[c[1]].red THEN 0 ELSE 1>>

DepthWalk(t, n, f) ==
  f = [d \in 0 .. Cardinality(Nodes(t)) |->
        IF d = 0 THEN <<n, 0>>
        ELSE LET c == f[d - 1] IN
             IF c[1] = Nil THEN c
             ELSE <<t.node[c[1]].parent, c[2] + IF t.node[c[1]].red THEN 0 ELSE 1>>]

\* After d steps: the nodes counted are those below, or all.
Counted(t, S, h, c, d) ==
  /\ c \in (Nodes(t) \cup {Nil}) \X Nat
  /\ c[1] = Nil => c[2] = Weight(t, h, Nil, t.root)
  /\ c[1] # Nil => c[2] = h[c[1]] /\ Cardinality(S[c[1]]) >= d + 1

LEMMA DepthOn ==
  ASSUME NEW t, NEW S, Shape(t, S), NEW h, Balanced(t, h, Nil), NEW c, NEW d \in Nat,
         Counted(t, S, h, c, d)
  PROVE  Counted(t, S, h, DepthStep(t, c), d + 1)
<1> DEFINE N == Nodes(t)
<1>1. CASE c[1] = Nil
  BY <1>1 DEF Counted, DepthStep
<1>2. CASE c[1] # Nil
  <2> DEFINE m == c[1]
             u == Up(t, m)
             blk == IF Red(t, m) THEN 0 ELSE 1
             e == <<u, c[2] + blk>>
  <2>1. DepthStep(t, c) = e
    BY <1>2 DEF DepthStep, Up, Red
  <2>2. m \in N /\ c[2] \in Nat /\ c[2] = h[m] /\ Cardinality(S[m]) >= d + 1
    BY <1>2 DEF Counted
  <2>3. u \in N \cup {Nil} /\ blk \in Nat /\ m # Nil
    BY <2>2, RootIs
  <2>4. e \in (N \cup {Nil}) \X Nat
    BY <2>2, <2>3
  <2>5. Weight(t, h, Nil, m) = h[m] + blk + 0
    BY <2>3 DEF Weight
  <2>. HIDE DEF m, blk
  <2>6. Weight(t, h, Nil, m) = c[2] + blk
    BY <2>2, <2>3, <2>5
  <2>7. CASE u = Nil
    <3>1. m = t.root
      BY <2>2, <2>7, RootIs
    <3>. QED BY <2>1, <2>4, <2>6, <2>7, <3>1 DEF Counted
  <2>8. CASE u # Nil
    <3>1. m # t.root
      BY <2>2, <2>8, RootIs
    <3>2. PICK s \in Sides : Kid(t, u, s) = m
      BY <2>2, <3>1, RootIs
    <3>3. u \in N
      BY <2>3, <2>8
    <3>. HIDE DEF u
    <3>4. Weight(t, h, Nil, m) = h[u]
      BY <3>2, <3>3 DEF Balanced
    <3>5. Cardinality(S[u]) >= (d + 1) + 1
      <4>1. Cardinality(S[m]) < Cardinality(S[u])
        BY <2>3, <3>2, <3>3, SizesAre
      <4>2. Cardinality(S[m]) \in Nat /\ Cardinality(S[u]) \in Nat
        BY <2>2, <3>3, SizesAre
      <4>. QED BY <2>2, <4>1, <4>2
    <3>. QED BY <2>1, <2>4, <2>6, <2>8, <3>4, <3>5 DEF Counted
  <2>. QED BY <2>7, <2>8
<1>. QED BY <1>1, <1>2

LEMMA DepthIs ==
  ASSUME NEW t, NEW S, Shape(t, S), NEW h, Balanced(t, h, Nil), NEW n \in Nodes(t), h[n] = 0
  PROVE  BlackDepth(t, n) = Weight(t, h, Nil, t.root)
<1> DEFINE N == Nodes(t)
           D == Cardinality(N)
           X == (N \cup {Nil}) \X Nat
           step == [c \in X |-> DepthStep(t, c)]
           first == <<n, 0>>
<1>1. D \in Nat /\ Nil \notin N
  BY NilIsNoKey, FS_CardinalityType DEF Shape
<1>2. \A c \in X : DepthStep(t, c) \in X /\ step[c] = DepthStep(t, c)
  <2> SUFFICES ASSUME NEW c \in X PROVE DepthStep(t, c) \in X
    OBVIOUS
  <2>1. CASE c[1] = Nil
    BY <2>1 DEF DepthStep
  <2>2. CASE c[1] # Nil
    <3>1. c[1] \in N /\ c[2] \in Nat
      BY <2>2
    <3>2. Up(t, c[1]) \in N \cup {Nil}
      BY <3>1, RootIs
    <3>. QED BY <2>2, <3>1, <3>2 DEF DepthStep, Up
  <2>. QED BY <2>1, <2>2
<1>3. first \in X
  OBVIOUS
<1>4. PICK f \in [0 .. D -> X] : Walk(f, D, first, step)
  <2>1. step \in [X -> X]
    BY <1>2
  <2>. HIDE DEF step, X, D, first
  <2>. QED BY <1>1, <1>3, <2>1, WalkIs
<1>5. DepthWalk(t, n, f)
  <2>1. f = [d \in 0 .. D |-> f[d]]
    OBVIOUS
  <2>2. ASSUME NEW d \in 0 .. D
        PROVE  f[d] = IF d = 0 THEN <<n, 0>> ELSE DepthStep(t, f[d - 1])
    <3>1. CASE d = 0
      BY <1>4, <3>1 DEF Walk
    <3>2. CASE d # 0
      <4>1. d \in 1 .. D /\ d - 1 \in 0 .. D
        BY <1>1, <3>2
      <4>2. f[d] = step[f[d - 1]] /\ f[d - 1] \in X
        BY <1>4, <4>1 DEF Walk
      <4>. QED BY <1>2, <3>2, <4>2
    <3>. QED BY <3>1, <3>2
  <2>. QED BY <2>1, <2>2 DEF DepthWalk, DepthStep
<1> DEFINE g == CHOOSE g : DepthWalk(t, n, g)
<1>6. DepthWalk(t, n, g)
  BY <1>5
<1>7. BlackDepth(t, n) = g[D][2]
  BY DEF BlackDepth, DepthWalk
<1>. HIDE DEF g
<1>8. \A d \in 0 .. D : g[d] = IF d = 0 THEN first ELSE DepthStep(t, g[d - 1])
  BY <1>6, Zenon DEF DepthWalk, DepthStep
<1> DEFINE P == {d \in 0 .. D : Counted(t, S, h, g[d], d)}
<1>9. 0 \in P
  <2>1. Cardinality(S[n]) >= 0 + 1
    BY SizesAre
  <2>2. Counted(t, S, h, first, 0)
    BY <1>1, <2>1 DEF Counted
  <2>. QED BY <1>1, <1>8, <2>2
<1>10. ASSUME NEW i \in 1 .. D, i - 1 \in P PROVE i \in P
  <2>1. i \in 0 .. D /\ i - 1 \in Nat /\ i # 0 /\ (i - 1) + 1 = i /\ Counted(t, S, h, g[i - 1], i - 1)
    BY <1>1, <1>10
  <2>2. g[i] = DepthStep(t, g[i - 1])
    BY <1>8, <2>1
  <2>3. Counted(t, S, h, DepthStep(t, g[i - 1]), (i - 1) + 1)
    BY <2>1, DepthOn
  <2>. QED BY <2>1, <2>2, <2>3
<1>11. Counted(t, S, h, g[D], D)
  <2>1. D \in P
    <3>. HIDE DEF P, D
    <3>1. Inductive(P, D)
      BY <1>9, <1>10 DEF Inductive
    <3>2. 0 .. D \subseteq P
      BY <1>1, <3>1, UpTo
    <3>. QED BY <1>1, <3>2
  <2>. QED BY <2>1
<1>12. g[D][1] = Nil
  <2> SUFFICES ASSUME g[D][1] # Nil PROVE FALSE
    OBVIOUS
  <2>1. g[D][1] \in N /\ Cardinality(S[g[D][1]]) >= D + 1
    BY <1>11 DEF Counted
  <2>2. Cardinality(S[g[D][1]]) \in Nat /\ Cardinality(S[g[D][1]]) <= D
    BY <2>1, SizesAre
  <2>. QED BY <1>1, <2>1, <2>2
<1>. QED BY <1>7, <1>11, <1>12 DEF Counted

LEMMA HeightsFromEven == ASSUME Sound, Even PROVE HeightsAgree
<1> SUFFICES ASSUME op = "idle", ~skipped,
                    NEW m \in Nodes(tree), tree.node[m].left = Nil \/ tree.node[m].right = Nil,
                    NEW n \in Nodes(tree), tree.node[n].left = Nil \/ tree.node[n].right = Nil
             PROVE  BlackDepth(tree, m) = BlackDepth(tree, n)
  BY DEF HeightsAgree
<1>1. PICK S : Shape(tree, S)
  BY DEF Sound, Shaped
<1>2. PICK h : Balanced(tree, h, Nil)
  BY DEF Even, Short
<1>3. \A j \in Nodes(tree) : Kid(tree, j, "left") = Nil \/ Kid(tree, j, "right") = Nil => h[j] = 0
  <2>1. Weight(tree, h, Nil, Nil) = 0
    BY DEF Weight
  <2>2. \A j \in Nodes(tree) : /\ Weight(tree, h, Nil, Kid(tree, j, "left")) = h[j]
                               /\ Weight(tree, h, Nil, Kid(tree, j, "right")) = h[j]
    BY <1>2 DEF Balanced, Sides
  <2>. QED BY <2>1, <2>2
<1>4. h[m] = 0 /\ h[n] = 0
  BY <1>3 DEF Kid
<1>. QED BY <1>1, <1>2, <1>4, DepthIs

-----------------------------------------------------------------------------
(* RbTree: a red-black tree. *)

LEMMA LinkedFromShape == ASSUME Sound, Placed PROVE TreeLinked
<1>1. PICK S : Shape(tree, S)
  BY DEF Sound, Shaped
<1> DEFINE N == Nodes(tree)
<1>2. N \subseteq Keys /\ Nil \notin N /\ tree.root \in N \cup {Nil}
  BY <1>1, NilIsNoKey DEF Shape, TypedTree, Links
<1>3. ASSUME NEW n \in N
      PROVE  /\ Up(tree, n) = Nil <=> n = tree.root
             /\ Red(tree, n) \in BOOLEAN /\ Value(tree, n) \in Values
             /\ {Kid(tree, n, "left"), Kid(tree, n, "right"), Up(tree, n)} \subseteq N \cup {Nil}
             /\ Up(tree, n) # Nil =>
                  (n = Kid(tree, Up(tree, n), "left")) # (n = Kid(tree, Up(tree, n), "right"))
  <2>1. (Up(tree, n) = Nil <=> n = tree.root) /\ Up(tree, n) \in N \cup {Nil}
    BY <1>1, RootIs
  <2>2. Red(tree, n) \in BOOLEAN /\ Value(tree, n) \in Values
    BY <1>1, TypedIs DEF Shape
  <2>3. Kid(tree, n, "left") \in N \cup {Nil} /\ Kid(tree, n, "right") \in N \cup {Nil}
    BY <1>1 DEF Shape, Links, Sides
  <2>4. ASSUME Up(tree, n) # Nil
        PROVE  (n = Kid(tree, Up(tree, n), "left")) # (n = Kid(tree, Up(tree, n), "right"))
    <3>1. n # tree.root /\ Up(tree, n) \in N
      BY <2>1, <2>4
    <3>2. /\ Side(tree, n) \in Sides
          /\ \A q \in Sides : Kid(tree, Up(tree, n), q) = n <=> q = Side(tree, n)
      BY <1>1, <3>1, SideIs
    <3>3. n = Kid(tree, Up(tree, n), "left") <=> "left" = Side(tree, n)
      BY <3>2 DEF Sides
    <3>4. n = Kid(tree, Up(tree, n), "right") <=> "right" = Side(tree, n)
      BY <3>2 DEF Sides
    <3>5. Side(tree, n) = "left" \/ Side(tree, n) = "right"
      BY <3>2 DEF Sides
    <3>. QED BY <3>3, <3>4, <3>5
  <2>. QED BY <2>1, <2>2, <2>3, <2>4
<1>. QED BY <1>2, <1>3 DEF TreeLinked, Placed, Up, Kid, Red, Value

LEMMA NoPairFromColoured == ASSUME Coloured PROVE NoRedPair
BY DEF Coloured, NoRedPair, Pair, Up

\* IsRedBlack in every state: the links are sound and no NULL is followed, and when
\* map_insert and map_delete return there are no two red nodes in a row and, until
\* fix_delete has been given NULL, the black heights agree.
THEOREM StaysRedBlack == TreeSpec => []IsRedBlack
<1>1. TreeIInv => IsRedBlack
  BY LinkedFromShape, NoPairFromColoured, HeightsFromEven DEF TreeIInv, IsRedBlack
<1>. QED BY <1>1, TreeInvariant, PTL

-----------------------------------------------------------------------------
(* RbTree: the map it keeps. *)

\* The value of a key, or Nil.
Entry(t, k) == IF k \in Nodes(t) THEN Value(t, k) ELSE Nil
Entries(t) == [k \in Keys |-> Entry(t, k)]

LEMMA DictIs ==
  ASSUME NEW t, Shaped(t)
  PROVE  [k \in Keys |-> IF Search(t, k).at = k THEN t.node[k].value ELSE Nil] = Entries(t)
<1>1. PICK S : Shape(t, S)
  BY DEF Shaped
<1>2. ASSUME NEW k \in Keys
      PROVE  (IF Search(t, k).at = k THEN t.node[k].value ELSE Nil) = Entry(t, k)
  <2>1. Search(t, k).at = (IF k \in Nodes(t) THEN k ELSE Nil) /\ k # Nil
    BY <1>1, SearchIs, TreeAssumption DEF Found
  <2>. QED BY <2>1 DEF Entry, Value
<1>. QED BY <1>2 DEF Entries

\* The same tree: the same map.
LEMMA SameEntries == ASSUME NEW t, NEW r, Same(t, r) PROVE Entries(r) = Entries(t)
BY DEF Same, Entries, Entry

LEMMA EntriesStep ==
  ASSUME TreeIInv, [TreeNext]_treeVars
  PROVE  \/ Entries(tree') = Entries(tree) /\ answer' = answer
         \/ \E k \in Keys :
              \/ Entries(tree') = [Entries(tree) EXCEPT ![k] = Nil] /\ answer' = answer
              \/ Entries(tree') = Entries(tree) /\ answer' = Entries(tree)[k]
              \/ \E v \in Values : Entries(tree') = [Entries(tree) EXCEPT ![k] = v] /\ answer' = answer
<1>1. Sound /\ Placed /\ Coloured
  BY DEF TreeIInv
<1>2. PICK t : t = tree
  OBVIOUS
<1>3. PICK r : r = tree'
  OBVIOUS
<1>4. ASSUME Same(tree, tree') PROVE Entries(tree') = Entries(tree)
  BY <1>2, <1>3, <1>4, SameEntries
<1>5. ASSUME NEW k \in Keys, FindKey(k)
      PROVE  Entries(tree') = Entries(tree) /\ answer' = Entries(tree)[k]
  <2>1. tree' = tree /\ answer' = IF k \in Nodes(tree) THEN Value(tree, k) ELSE Nil
    BY <1>1, <1>5, FindKeyKeeps
  <2>2. Entries(tree)[k] = Entry(tree, k)
    BY DEF Entries
  <2>. QED BY <2>1, <2>2 DEF Entry
<1>6. ASSUME NEW k \in Keys, DeleteKey(k)
      PROVE  Entries(tree') = [Entries(tree) EXCEPT ![k] = Nil] /\ answer' = answer
  <2>1. /\ answer' = answer /\ k \in Nodes(t) /\ Nodes(r) = Nodes(t) \ {k}
        /\ \A n \in Nodes(r) : Value(r, n) = Value(t, n)
    BY <1>1, <1>2, <1>3, <1>6, DeleteKeyKeeps
  <2>2. Entries(r) = [Entries(t) EXCEPT ![k] = Nil]
    BY <2>1 DEF Entries, Entry
  <2>. QED BY <1>2, <1>3, <2>1, <2>2
<1>7. ASSUME NEW k \in Keys, NEW v \in Values, InsertAgain(k, v)
      PROVE  Entries(tree') = [Entries(tree) EXCEPT ![k] = v] /\ answer' = answer
  <2>1. /\ answer' = answer /\ k \in Nodes(t) /\ Nodes(r) = Nodes(t)
        /\ Value(r, k) = v /\ \A n \in Nodes(t) : n # k => Value(r, n) = Value(t, n)
    BY <1>1, <1>2, <1>3, <1>7, InsertAgainKeeps
  <2>2. Entries(r) = [Entries(t) EXCEPT ![k] = v]
    BY <2>1 DEF Entries, Entry
  <2>. QED BY <1>2, <1>3, <2>1, <2>2
<1>8. ASSUME NEW k \in Keys, NEW v \in Values, InsertNode(k, v)
      PROVE  Entries(tree') = [Entries(tree) EXCEPT ![k] = v] /\ answer' = answer
  <2>1. /\ answer' = answer /\ k \notin Nodes(t) /\ Nodes(r) = Nodes(t) \cup {k}
        /\ Value(r, k) = v /\ \A n \in Nodes(t) : Value(r, n) = Value(t, n)
    BY <1>1, <1>2, <1>3, <1>8, InsertNodeKeeps
  <2>2. Entries(r) = [Entries(t) EXCEPT ![k] = v]
    BY <2>1 DEF Entries, Entry
  <2>. QED BY <1>2, <1>3, <2>1, <2>2
<1>9. CASE FixInsert \/ FixInsertDone \/ FixDelete \/ FixDeleteDone
  <2>1. Same(tree, tree') /\ answer' = answer
    BY <1>1, <1>9, FixInsertKeeps, FixInsertDoneKeeps, FixDeleteKeeps, FixDeleteDoneKeeps, Zenon
  <2>. QED BY <1>4, <2>1
<1>10. CASE UNCHANGED treeVars
  <2>1. tree' = tree /\ answer' = answer
    BY <1>10 DEF treeVars
  <2>. QED BY <2>1
<1>. QED BY <1>5, <1>6, <1>7, <1>8, <1>9, <1>10 DEF TreeNext

\* ImplementsMap: map_insert and map_delete change the value of their own key and of
\* no other, the passes of fix_insert and fix_delete that of none, and map_find
\* returns what was put last.
THEOREM TreeIsMap == TreeSpec => ImplementsMap
<1> DEFINE dict == [k \in Keys |-> IF Search(tree, k).at = k THEN tree.node[k].value ELSE Nil]
<1>1. TreeInit => Map!Init
  <2> SUFFICES ASSUME TreeInit PROVE Map!Init
    OBVIOUS
  <2>1. Sound /\ Nodes(tree) = {} /\ answer = Nil
    BY TreeIInvInit DEF TreeIInv, TreeInit, Nodes
  <2>2. dict = Entries(tree)
    BY <2>1, DictIs DEF Sound
  <2>3. Entries(tree) = [k \in Keys |-> Nil]
    BY <2>1 DEF Entries, Entry
  <2>. QED BY <2>1, <2>2, <2>3 DEF Map!Init
<1>2. TreeIInv /\ [TreeNext]_treeVars => [Map!Next]_<<dict, answer>>
  <2> SUFFICES ASSUME TreeIInv, [TreeNext]_treeVars PROVE [Map!Next]_<<dict, answer>>
    OBVIOUS
  <2>1. dict = Entries(tree)
    BY DictIs DEF TreeIInv, Sound
  <2>2. dict' = Entries(tree')
    <3>1. PICK r : r = tree'
      OBVIOUS
    <3>2. Shaped(r)
      BY <3>1, TreeIInvStep DEF TreeIInv, Sound
    <3>3. [k \in Keys |-> IF Search(r, k).at = k THEN r.node[k].value ELSE Nil] = Entries(r)
      BY <3>2, DictIs
    <3>. QED BY <3>1, <3>3
  <2>. QED BY <2>1, <2>2, EntriesStep DEF Map!Next, Map!Delete, Map!Find, Map!Insert
<1>. QED BY <1>1, <1>2, TreeInvariant, PTL DEF TreeSpec, ImplementsMap, Map!Spec
=============================================================================
