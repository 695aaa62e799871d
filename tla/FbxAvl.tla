-------------------------------- MODULE FbxAvl --------------------------------
(***************************************************************************)
(* The AVL tree in which the handler looks up the local character of a     *)
(* Unicode character, and how it is made of the table of a character set.  *)
(*                                                                         *)
(* A node is named by its local character.  Its `balance' is the height of *)
(* the right subtree less that of the left one.  avl.c treats the two      *)
(* sides in two mirrored pieces of code, which are one here, with a sign.  *)
(* A step is one turn of a loop of insert or retrace.                      *)
(***************************************************************************)
EXTENDS Integers

CONSTANT
  Table           \* tables of character sets: functions from local characters
                  \* of 0x80 and more to Unicode; 0 where there is nothing

NIL == 0

ASSUME TableAssumption ==
  \A t \in Table : \A l \in DOMAIN t : l \in Nat \ {NIL} /\ t[l] \in Nat

VARIABLES
  table,          \* fs->maptable, where it is not the identity
  next,           \* the characters that FbxSetupAVL has not seen
  root,           \* fs->maptree
  link,           \* n->left and n->right, for the nodes of the tree
  parent,         \* n->parent
  balance,        \* n->balance
  phase,          \* where FbxSetupAVL is: between two characters, in insert, or
                  \* in retrace
  new,            \* the node that is inserted
  at              \* p of insert, z of retrace

tree == <<root, link, parent, balance>>
avlvars == <<table, next, tree, phase, new, at>>

NoTable == [l \in {} |-> 0]

Side == {"left", "right"}
Opposite(side) == IF side = "left" THEN "right" ELSE "left"
Sign(side) == IF side = "left" THEN -1 ELSE 1

nodes == DOMAIN link

\* Where the search for a character goes on from node n.
SideOf(unicode, n) == IF unicode < table[n] THEN "left" ELSE "right"

-----------------------------------------------------------------------------
(* insert *)

\* f with a value for node n, which is new.
Grown(f, n, value) ==
  [m \in DOMAIN f \cup {n} |-> IF m = n THEN value ELSE f[m]]

NoChildren == [side \in Side |-> NIL]

\* The first node of the tree.
PlantRoot ==
  /\ root' = new'
  /\ link' = Grown(link, new', NoChildren)
  /\ parent' = Grown(parent, new', NIL)
  /\ balance' = Grown(balance, new', 0)

\* FbxSetupAVL: the next character, and insert up to its loop.
InsertNext ==
  /\ phase = "next" /\ next # {}
  /\ new' = CHOOSE n \in next : \A m \in next : n <= m
  /\ next' = next \ {new'}
  /\ IF root = NIL
     THEN PlantRoot /\ UNCHANGED <<phase, at>>
     ELSE phase' = "insert" /\ at' = root /\ UNCHANGED tree
  /\ UNCHANGED table

\* A character that has a node already is not inserted again.
KeyKnown ==
  /\ phase = "insert" /\ table[new] = table[at]
  /\ phase' = "next"
  /\ UNCHANGED <<table, next, tree, new, at>>

GoDown ==
  /\ phase = "insert" /\ table[new] # table[at]
  /\ at' = link[at][SideOf(table[new], at)]
  /\ at' # NIL
  /\ UNCHANGED <<table, next, tree, phase, new>>

Attach ==
  /\ phase = "insert" /\ table[new] # table[at]
  /\ link[at][SideOf(table[new], at)] = NIL
  /\ link' = [Grown(link, new, NoChildren)
                EXCEPT ![at] = [@ EXCEPT ![SideOf(table[new], at)] = new]]
  /\ parent' = Grown(parent, new, at)
  /\ balance' = Grown(balance, new, 0)
  /\ phase' = "retrace" /\ at' = new
  /\ UNCHANGED <<table, next, root, new>>

-----------------------------------------------------------------------------
(* retrace: the subtree of z, which is `at', has grown by one *)

\* The side of x on which z is.
SideOfNode(x, z) == IF z = link[x]["right"] THEN "right" ELSE "left"

Retracing(x, side) ==
  /\ phase = "retrace"
  /\ x = parent[at] /\ x # NIL
  /\ side = SideOfNode(x, at)
  /\ UNCHANGED <<table, next, new>>

TopReached ==
  /\ phase = "retrace" /\ parent[at] = NIL
  /\ phase' = "next"
  /\ UNCHANGED <<table, next, tree, new, at>>

\* The other subtree of x was higher.
Absorb(x, side) ==
  /\ Retracing(x, side)
  /\ balance[x] = -Sign(side)
  /\ balance' = [balance EXCEPT ![x] = 0]
  /\ phase' = "next"
  /\ UNCHANGED <<root, link, parent, at>>

\* The subtrees of x were even: that of x has grown by one.
Climb(x, side) ==
  /\ Retracing(x, side)
  /\ balance[x] = 0
  /\ balance' = [balance EXCEPT ![x] = Sign(side)]
  /\ at' = x
  /\ UNCHANGED <<root, link, parent, phase>>

\* rotate_left and rotate_right: z comes up and x goes down on `side'.
RotateLinks(links, side, x, z) ==
  [n \in DOMAIN links |-> [s \in Side |->
     IF n = x /\ s = Opposite(side) THEN links[z][side]
     ELSE IF n = z /\ s = side THEN x
     ELSE links[n][s]]]

RotateParents(parents, t, x, z) ==
  [n \in DOMAIN parents |-> IF n = x THEN z ELSE IF n = t THEN x ELSE parents[n]]

\* The end of a rotation: top is where x was.
LinkTop(links, parents, x, top) ==
  LET g == parent[x]
      gside == IF x = links[g]["left"] THEN "left" ELSE "right"
  IN /\ parent' = [parents EXCEPT ![top] = g]
     /\ IF g = NIL
        THEN root' = top /\ link' = links
        ELSE /\ link' = [n \in nodes |-> [s \in Side |->
                           IF n = g /\ s = gside THEN top ELSE links[n][s]]]
             /\ UNCHANGED root

\* z is too high on `side' of x, by its child on the same side.
RotateOnce(x, side) ==
  LET z == at
      t == link[z][Opposite(side)]
  IN /\ Retracing(x, side)
     /\ balance[x] = Sign(side) /\ balance[z] # -Sign(side)
     /\ LinkTop(RotateLinks(link, Opposite(side), x, z),
                RotateParents(parent, t, x, z), x, z)
     /\ balance' = [balance EXCEPT ![x] = 0, ![z] = 0]
     /\ phase' = "next"
     /\ UNCHANGED at

\* Mutant of DoubleBalance: as if y had been in balance.
DoubleFlat(b, sign) == <<0, 0>>

\* The new balance of x and of z after a double rotation, when y, which has
\* come up, had balance b.
DoubleBalance(b, sign) ==
  IF b = 0 THEN <<0, 0>> ELSE IF b = sign THEN <<-sign, 0>> ELSE <<0, sign>>

\* z is too high on `side' of x, by its child on the other side.
RotateTwice(x, side) ==
  LET z == at
      y == link[z][Opposite(side)]
      links == RotateLinks(link, side, z, y)
      parents == RotateParents(parent, link[y][side], z, y)
      even == DoubleBalance(balance[y], Sign(side))
  IN /\ Retracing(x, side)
     /\ balance[x] = Sign(side) /\ balance[z] = -Sign(side)
     /\ LinkTop(RotateLinks(links, Opposite(side), x, y),
                RotateParents(parents, links[y][Opposite(side)], x, y), x, y)
     /\ balance' = [balance EXCEPT ![x] = even[1], ![z] = even[2], ![y] = 0]
     /\ phase' = "next"
     /\ UNCHANGED at

AvlInit ==
  /\ table \in Table \cup {NoTable}
  /\ next = DOMAIN table
  /\ root = NIL /\ link = [n \in {} |-> NoChildren]
  /\ parent = [n \in {} |-> NIL] /\ balance = [n \in {} |-> 0]
  /\ phase = "next" /\ new = NIL /\ at = NIL

retrace ==
  \/ TopReached
  \/ \E x \in nodes, side \in Side :
       Absorb(x, side) \/ Climb(x, side) \/ RotateOnce(x, side) \/ RotateTwice(x, side)

FbxSetupAVL == InsertNext \/ KeyKnown \/ GoDown \/ Attach \/ retrace

AvlSpec == AvlInit /\ [][FbxSetupAVL]_avlvars

-----------------------------------------------------------------------------
(* The search of utf8_to_local *)

\* The node with a character, below node n.
Found(unicode) ==
  LET Search[n \in nodes \cup {NIL}] ==
        IF n = NIL THEN NIL
        ELSE IF unicode = table[n] THEN n
        ELSE Search[link[n][SideOf(unicode, n)]]
  IN Search[root]

-----------------------------------------------------------------------------
(* Properties *)

Below[n \in nodes \cup {NIL}] ==
  IF n = NIL THEN {}
  ELSE {n} \cup Below[link[n]["left"]] \cup Below[link[n]["right"]]

Higher(m, n) == IF m < n THEN n ELSE m

Height[n \in nodes \cup {NIL}] ==
  IF n = NIL THEN 0
  ELSE 1 + Higher(Height[link[n]["left"]], Height[link[n]["right"]])

\* Node n has its balance, and its subtrees are on their sides and linked back.
WellPlaced(n) ==
  /\ balance[n] = Height[link[n]["right"]] - Height[link[n]["left"]]
  /\ balance[n] \in {-1, 0, 1}
  /\ \A m \in Below[link[n]["left"]] : table[m] < table[n]
  /\ \A m \in Below[link[n]["right"]] : table[m] > table[n]
  /\ \A side \in Side : link[n][side] # NIL => parent[link[n][side]] = n

IsAvlTree ==
  /\ \A n \in nodes : WellPlaced(n)
  /\ Below[root] = nodes
  /\ root # NIL => parent[root] = NIL

\* The tree is an AVL tree after every insertion, and each character of the
\* table that has been seen is found in it, as some local character that
\* stands for it.
Balanced ==
  phase = "next" =>
    /\ IsAvlTree
    /\ \A l \in DOMAIN table \ next :
         Found(table[l]) # NIL /\ table[Found(table[l])] = table[l]
=============================================================================
