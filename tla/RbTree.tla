------------------------------- MODULE RbTree -------------------------------
(***************************************************************************)
(* The red-black trees of kern/libs/rb_tree.c.  tree->root is a node above *)
(* the tree, whose left child is the top of the tree; tree->nil stands     *)
(* below it.  A call is one action.                                        *)
(***************************************************************************)
EXTENDS Integers, Sequences, SequencesExt

CONSTANTS
    Node,
    Key(_),         \* what tree->compare compares
    nil, root

VARIABLES
    tree,           \* the nodes: [left, right, parent, red] of functions
    members         \* history: the nodes that have been put in

vars == <<tree, members>>

All == Node \cup {nil, root}

\* rb_tree_create.
Init ==
    /\ tree = [left   |-> [n \in All |-> nil], right |-> [n \in All |-> nil],
               parent |-> [n \in All |-> nil], red   |-> [n \in All |-> FALSE]]
    /\ members = {}

Other(side) == IF side = "left" THEN "right" ELSE "left"

\* The side of its parent that x is on.
Side(t, x) == IF t.left[t.parent[x]] = x THEN "left" ELSE "right"

\* FUNC_ROTATE: x goes down on that side.
rotate(t, x, side) ==
    LET o == Other(side)
        y == t[o][x]
        b == t[side][y]
        p == t.parent[x]
        m == IF b = nil THEN t ELSE [t EXCEPT !.parent[b] = x]
    IN  [m EXCEPT ![o][x] = b, !.parent[y] = p, ![Side(t, x)][p] = y,
                  ![side][y] = x, !.parent[x] = y]

----------------------------------------------------------------------------
(* rb_insert                                                               *)

\* Where the walk of rb_insert_binary for the key ends.
RECURSIVE Bottom(_, _, _, _)
Bottom(t, y, x, key) ==
    IF x = nil THEN y
    ELSE Bottom(t, x, IF Key(x) > key THEN t.left[x] ELSE t.right[x], key)

rb_insert_binary(t, z) ==
    LET y    == Bottom(t, root, t.left[root], Key(z))
        side == IF y = root \/ Key(y) > Key(z) THEN "left" ELSE "right"
    IN  [t EXCEPT !.left[z] = nil, !.right[z] = nil, !.parent[z] = y,
                  ![side][y] = z, !.red[z] = TRUE]

\* RB_INSERT_SUB, until the parent of x is black.
RECURSIVE InsertFixup(_, _)
InsertFixup(t, x) ==
    LET p == t.parent[x]
        g == t.parent[p]
        s == Side(t, p)
        o == Other(s)
        y == t[o][g]
        inner == x = t[o][p]
        t1 == IF inner THEN rotate(t, p, s) ELSE t
        p1 == IF inner THEN x ELSE p
    IN  IF ~t.red[p] THEN t
        ELSE IF t.red[y]
        THEN InsertFixup([t EXCEPT !.red[p] = FALSE, !.red[y] = FALSE,
                                   !.red[g] = TRUE], g)
        ELSE rotate([t1 EXCEPT !.red[p1] = FALSE, !.red[g] = TRUE], g, o)

rb_insert(z) ==
    /\ z \notin members
    /\ LET t == InsertFixup(rb_insert_binary(tree, z), z)
       IN  tree' = [t EXCEPT !.red[t.left[root]] = FALSE]
    /\ members' = members \cup {z}

----------------------------------------------------------------------------
(* Neighbours and search                                                   *)

RECURSIVE Furthest(_, _, _)
Furthest(t, y, side) ==
    IF t[side][y] = nil THEN y ELSE Furthest(t, t[side][y], side)

\* Up while x is on that side.
RECURSIVE Climb(_, _, _)
Climb(t, x, side) ==
    LET y == t.parent[x]
    IN  IF y = root THEN nil
        ELSE IF x = t[side][y] THEN Climb(t, y, side) ELSE y

Neighbour(t, x, side) ==
    IF t[side][x] # nil THEN Furthest(t, t[side][x], Other(side))
    ELSE Climb(t, x, side)

rb_tree_successor(t, x) == Neighbour(t, x, "right")
rb_tree_predecessor(t, x) == Neighbour(t, x, "left")

RECURSIVE SearchFrom(_, _)
SearchFrom(x, key) ==
    IF x = nil \/ Key(x) = key THEN x
    ELSE SearchFrom(IF Key(x) > key THEN tree.left[x] ELSE tree.right[x], key)

rb_search(key) == SearchFrom(tree.left[root], key)

----------------------------------------------------------------------------
(* rb_delete                                                               *)

\* RB_DELETE_FIXUP_SUB, until x is red or was the top of the tree at first;
\* x lacks one black node.
RECURSIVE DeleteFixup(_, _, _)
DeleteFixup(t, x, top) ==
    LET s  == Side(t, x)
        o  == Other(s)
        p  == t.parent[x]
        w0 == t[o][p]
        t1 == IF t.red[w0]
              THEN rotate([t EXCEPT !.red[w0] = FALSE, !.red[p] = TRUE], p, s)
              ELSE t
        w1 == t1[o][p]
        near == t1[s][w1]
        t2 == IF t1.red[t1[o][w1]] THEN t1
              ELSE rotate([t1 EXCEPT !.red[near] = FALSE, !.red[w1] = TRUE], w1, o)
        w2 == t2[o][p]
        t3 == [t2 EXCEPT !.red[w2] = t2.red[p], !.red[p] = FALSE,
                         !.red[t2[o][w2]] = FALSE]
    IN  IF x = top \/ t.red[x] THEN [t EXCEPT !.red[x] = FALSE]
        ELSE IF ~t1.red[near] /\ ~t1.red[t1[o][w1]]
        THEN DeleteFixup([t1 EXCEPT !.red[w1] = TRUE], p, top)
        ELSE [rotate(t3, p, s) EXCEPT !.red[top] = FALSE]

\* y leaves its place to its only child.
Unlink(t, y, x) ==
    [t EXCEPT ![Side(t, y)][t.parent[y]] = x, !.parent[x] = t.parent[y]]

\* *y = *z, and the neighbours of z point to y.
Replace(t, z, y) ==
    LET m == [t EXCEPT ![Side(t, z)][t.parent[z]] = y,
                       !.parent[t.left[z]] = y, !.parent[t.right[z]] = y]
    IN  [m EXCEPT !.left[y] = m.left[z], !.right[y] = m.right[z],
                  !.parent[y] = m.parent[z], !.red[y] = m.red[z]]

\* What is never read again: the node that has gone, and the parent of nil.
Cleared(t, z) ==
    [t EXCEPT !.left[z] = nil, !.right[z] = nil, !.parent[z] = nil,
              !.red[z] = FALSE, !.parent[nil] = nil]

\* Fault: the colour of z decides.
Deleted_ColourOfZ(t, z) ==
    LET y  == IF nil \in {t.left[z], t.right[z]} THEN z ELSE rb_tree_successor(t, z)
        x  == IF t.left[y] # nil THEN t.left[y] ELSE t.right[y]
        t1 == Unlink(t, y, x)
        t2 == IF y = z THEN t1 ELSE Replace(t1, z, y)
    IN  Cleared(IF t.red[z] THEN t2 ELSE DeleteFixup(t2, x, t2.left[root]), z)

Deleted(t, z) ==
    LET y  == IF nil \in {t.left[z], t.right[z]} THEN z ELSE rb_tree_successor(t, z)
        x  == IF t.left[y] # nil THEN t.left[y] ELSE t.right[y]
        t1 == Unlink(t, y, x)
        t2 == IF y = z THEN t1 ELSE Replace(t1, z, y)
    IN  Cleared(IF t.red[y] THEN t2 ELSE DeleteFixup(t2, x, t2.left[root]), z)

rb_delete(z) ==
    /\ z \in members
    /\ tree' = Deleted(tree, z)
    /\ members' = members \ {z}

Next == \E z \in Node : rb_insert(z) \/ rb_delete(z)

Spec == Init /\ [][Next]_vars

----------------------------------------------------------------------------
(* Properties                                                              *)

RECURSIVE InOrder(_)
InOrder(x) == IF x = nil THEN <<>>
              ELSE InOrder(tree.left[x]) \o <<x>> \o InOrder(tree.right[x])

\* check_tree: the black height, 0 if the tree is wrong below x.
RECURSIVE check_tree(_)
check_tree(x) ==
    LET l == tree.left[x] r == tree.right[x] hb == check_tree(l)
    IN  IF x = nil THEN 1
        ELSE IF /\ l # nil => Key(x) >= Key(l) /\ tree.parent[l] = x
                /\ r # nil => Key(x) <= Key(r) /\ tree.parent[r] = x
                /\ tree.red[x] => ~tree.red[l] /\ ~tree.red[r]
                /\ hb = check_tree(r) /\ hb > 0
             THEN hb + (IF tree.red[x] THEN 0 ELSE 1) ELSE 0

\* After any sequence of insertions and deletions, equal keys included, the
\* tree holds exactly the nodes that were put in, in the order of their keys,
\* and is as balanced as check_tree asks for; rb_node_next and rb_node_prev
\* walk it in that order, and rb_search finds a key if it is there.
TreeSound ==
    LET order == InOrder(tree.left[root])
        Sits(i) == IF i \in DOMAIN order THEN order[i] ELSE nil
    IN  /\ ToSet(order) = members /\ IsInjective(order)
        /\ \A i \in 1 .. Len(order) - 1 : Key(order[i]) <= Key(order[i + 1])
        /\ check_tree(tree.left[root]) > 0
        /\ ~tree.red[nil] /\ ~tree.red[root] /\ ~tree.red[tree.left[root]]
        /\ \A i \in DOMAIN order :
              /\ rb_tree_successor(tree, order[i]) = Sits(i + 1)
              /\ rb_tree_predecessor(tree, order[i]) = Sits(i - 1)
        /\ \A n \in Node : (rb_search(Key(n)) # nil)
                              = \E k \in members : Key(k) = Key(n)

=============================================================================
