--------------------------- MODULE ClusterProofs ---------------------------
(* Theorems about Cluster, for every set of nodes and strangers, lists of every
   length and every number of restarts.                                        *)
EXTENDS Cluster, WellFoundedInduction, SequenceTheorems, TLAPS

-----------------------------------------------------------------------------
(* What has to be known besides the properties to prove them.                  *)

Typed ==
    /\ object \in [Node -> [Tag -> List]] /\ local \in [Node -> Tag]
    /\ file \in [Node -> List \cup {None, Torn}]
    /\ job \in [Node -> [Node -> {"none", "loaded", "writing", "done"}]]
    /\ encoded \in [Node -> [Node -> List]]
    /\ phase \in [Node -> {"out", "asking", "telling", "in", "ended"}]
    /\ contact \in [Node -> Node] /\ turn \in [Node -> Nat] /\ length \in [Node -> Nat]
    /\ updating \cup crossed \subseteq Node /\ restarts \in 0 .. MaxRestarts

\* Lists in which nobody is who does not have the key.
Checked(l) == Elements(l.nodes) \cap Stranger = {}

\* On a node that is up and on which no handlers crossed one runs at a time; it has read
\* what the file held and writes what LocalNode holds.
OneByOne(n) ==
    /\ \A i, j \in Busy(n) : i = j
    /\ \A j \in Writing(n) : file[n] = Torn /\ encoded[n][j] = LocalNode(n)
    /\ Writing(n) = {} => file[n] = LocalNode(n)
    /\ \A j \in Node : job[n][j] = "loaded" => object[n][j] = file[n]

\* What is known of each node by itself.  One that has not received its list runs no
\* handler and has no list; LocalNode is the list of the last update only where
\* UpdateClusterFile runs; JoinCluster loads no file for a node without the key.
Good(n) ==
    /\ phase[n] \in {"out", "asking"} => Busy(n) = {} /\ LocalNode(n) = Empty
    /\ n \in Up => file[n] # None /\ (file[n] = Torn => Writing(n) # {})
    /\ n \in Up \ crossed => OneByOne(n)
    /\ local[n] = "tick" => n \in updating
    /\ \A t \in Tag : Checked(object[n][t])
    /\ \A j \in Node : Checked(encoded[n][j])
    /\ file[n] \in List => Checked(file[n])
    /\ \A j \in Stranger : job[n][j] # "loaded"

\* Strangers are never up; contacts are or were in the cluster.
Contacts ==
    /\ \A j \in Stranger : phase[j] \in {"out", "ended"}
    /\ phase[Founder] \notin {"out", "asking"} /\ contact[Founder] = Founder
    /\ \A j \in Node : phase[contact[j]] # "out"

\* A joiner is in the list of its contact before it receives that.
Added(j) == j \in Elements(LocalNode(contact[j]).nodes)
Asked(j) == phase[j] = "asking" /\ job[contact[j]][j] \in {"writing", "done"}
AddedFirst == \A j \in Node : Asked(j) /\ contact[j] \in Calm => Added(j)

\* All that LocalNode and the file of n may become holds the key.
Keyed(n) ==
    /\ LocalNode(n).key /\ (file[n] \in List => file[n].key)
    /\ \A j \in Node : (job[n][j] = "writing" => encoded[n][j].key)
                       /\ (job[n][j] = "loaded" => object[n][j].key)
AllKeyed == \A n \in Up : Path(n) \cap updating = {} => Keyed(n)

IInv ==
    /\ Typed /\ (\A n \in Node : Good(n)) /\ Contacts
    /\ AddedFirst /\ KeptByContact /\ JoinerKnows /\ AllKeyed

\* The theorems' properties follow.
LEMMA IInvShows ==
  ASSUME IInv PROVE Inv /\ KeptByContact /\ JoinerKnows /\ KeyKept
<1>1. TypeOK
  BY DEF IInv, Typed, TypeOK, Good, Up
<1>2. KeyChecked
  BY DEF IInv, Good, KeyChecked, Checked
<1>3. FileIsLocal
  <2> SUFFICES ASSUME NEW n \in Up \ crossed, Busy(n) = {} PROVE file[n] = LocalNode(n)
    BY DEF FileIsLocal
  <2>1. OneByOne(n)
    BY DEF IInv, Good, Up
  <2>2. Writing(n) = {}
    BY DEF Busy, Writing
  <2> QED BY <2>1, <2>2 DEF OneByOne
<1>4. KeyKept
  <2> SUFFICES ASSUME NEW n \in Up, Path(n) \cap updating = {} PROVE LocalNode(n).key
    BY DEF KeyKept
  <2> QED BY DEF IInv, AllKeyed, Keyed
<1> QED BY <1>1, <1>2, <1>3, <1>4 DEF IInv, Inv

-----------------------------------------------------------------------------
(* Paths.                                                                      *)

PathIn(c, n) == {m \in Node : \A S \in SUBSET Node : n \in S /\ (\A k \in S : c[k] \in S) => m \in S}

\* Path is PathIn of the contacts, now and after a step.
LEMMA PathIs ==
  ASSUME NEW n PROVE Path(n) = PathIn(contact, n) /\ Path(n)' = PathIn(contact', n)
BY DEF Path, PathIn

\* PathIn is the least set that holds n and the contact of each member.
LEMMA PathLeast ==
  ASSUME NEW c, NEW n, NEW S \in SUBSET Node, n \in S, \A k \in S : c[k] \in S
  PROVE  PathIn(c, n) \subseteq S
BY DEF PathIn

\* It is such a set itself.
LEMMA PathClosed ==
  ASSUME NEW c \in [Node -> Node], NEW n \in Node
  PROVE  /\ PathIn(c, n) \in SUBSET Node /\ n \in PathIn(c, n)
         /\ \A k \in PathIn(c, n) : c[k] \in PathIn(c, n)
BY DEF PathIn

\* Who is on the way of n is n or is on the way of its contact.
LEMMA PathStep ==
  ASSUME NEW c \in [Node -> Node], NEW n \in Node
  PROVE  PathIn(c, n) = {n} \cup PathIn(c, c[n])
<1>p. PICK p, q : p = PathIn(c, n) /\ q = PathIn(c, c[n])
  OBVIOUS
<1>1. /\ p \in SUBSET Node /\ n \in p /\ \A k \in p : c[k] \in p
      /\ q \in SUBSET Node /\ c[n] \in q /\ \A k \in q : c[k] \in q
  BY <1>p, PathClosed
<1>2. p \subseteq {n} \cup q
  <2>s. PICK S : S = {n} \cup q
    OBVIOUS
  <2>1. S \in SUBSET Node /\ n \in S /\ \A k \in S : c[k] \in S
    BY <1>1, <2>s
  <2> QED BY <1>p, <2>1, <2>s, PathLeast
<1>3. q \subseteq p
  <2>1. c[n] \in p
    BY <1>1
  <2> QED BY <1>1, <1>p, <2>1, PathLeast
<1> QED BY <1>1, <1>2, <1>3, <1>p

\* A way that stays among nodes whose contacts stay the same stays the same.
LEMMA PathSame ==
  ASSUME NEW c \in [Node -> Node], NEW d \in [Node -> Node], NEW S \in SUBSET Node, NEW n \in S,
         \A k \in S : c[k] \in S /\ d[k] = c[k]
  PROVE  PathIn(d, n) = PathIn(c, n)
<1>p. PICK p, q : p = PathIn(c, n) /\ q = PathIn(d, n)
  OBVIOUS
<1>1. /\ p \in SUBSET Node /\ n \in p /\ \A k \in p : c[k] \in p
      /\ q \in SUBSET Node /\ n \in q /\ \A k \in q : d[k] \in q
  BY <1>p, PathClosed
<1>2. p \subseteq S
  BY <1>p, PathLeast
<1>3. q \subseteq S
  BY <1>p, PathLeast
<1>4. q \subseteq p
  <2>1. \A k \in p : d[k] \in p
    BY <1>1, <1>2
  <2> QED BY <1>1, <1>p, <2>1, PathLeast
<1>5. p \subseteq q
  <2>1. \A k \in q : c[k] \in q
    BY <1>1, <1>3
  <2> QED BY <1>1, <1>p, <2>1, PathLeast
<1> QED BY <1>4, <1>5, <1>p

-----------------------------------------------------------------------------
(* What the loop of delRepeatElem leaves: the turns can be taken, and each leaves
   a list of what was in it.                                                   *)

\* Induction over the turns: a set of numbers has a least one ...
LEMMA Least ==
  ASSUME NEW T \in SUBSET Nat, T # {} PROVE \E x \in T : \A y \in T : x <= y
<1> DEFINE R == {p \in Nat \X Nat : p[1] < p[2]}
<1>1. OpToRel(<, Nat) = R
  BY DEF OpToRel
<1>2. IsWellFoundedOn(R, Nat)
  BY <1>1, NatLessThanWellFounded
<1>3. \E x \in T : \A y \in T : ~ (<<y, x>> \in R)
  <2> HIDE DEF R
  <2> QED BY <1>2, WFMin
<1>4. \A x, y \in Nat : ~ (<<y, x>> \in R) => x <= y
  OBVIOUS
<1> QED BY <1>3, <1>4

\* ... so that one that holds 0 and with each number the next holds all.
LEMMA Induct ==
  ASSUME NEW T, 0 \in T, \A n \in Nat : n \in T => n + 1 \in T
  PROVE  Nat \subseteq T
<1> SUFFICES ASSUME Nat \ T # {} PROVE FALSE
  OBVIOUS
<1>1. PICK x \in Nat \ T : \A y \in Nat \ T : x <= y
  <2> DEFINE U == Nat \ T
  <2>1. U \in SUBSET Nat /\ U # {}
    OBVIOUS
  <2> HIDE DEF U
  <2>2. \E x \in U : \A y \in U : x <= y
    BY <2>1, Least
  <2> QED BY <2>2 DEF U
<1>2. x # 0 /\ x - 1 \in Nat /\ ~ (x <= x - 1) /\ (x - 1) + 1 = x
  BY <1>1
<1>3. x - 1 \in T
  BY <1>1, <1>2
<1> QED BY <1>1, <1>2, <1>3

Turn(q, g, n) == IF n = 0 THEN [i |-> 2, left |-> q] ELSE loopTurn(g[n - 1])

\* The function that takes the turns one after the other exists.
LEMMA TurnsExist ==
  ASSUME NEW q, NEW n \in Nat PROVE \E g : g = [i \in 0 .. n |-> Turn(q, g, i)]
<1> DEFINE T == {m \in Nat : \E g : g = [i \in 0 .. m |-> Turn(q, g, i)]}
<1>1. 0 \in T
  <2> DEFINE g == [i \in 0 .. 0 |-> [i |-> 2, left |-> q]]
  <2>1. g = [i \in 0 .. 0 |-> Turn(q, g, i)]
    BY DEF Turn
  <2> QED BY <2>1
<1>2. ASSUME NEW m \in Nat, m \in T PROVE m + 1 \in T
  <2>1. PICK g : g = [i \in 0 .. m |-> Turn(q, g, i)]
    BY <1>2
  <2> DEFINE h == [i \in 0 .. m + 1 |-> IF i = m + 1 THEN Turn(q, g, m + 1) ELSE g[i]]
  <2>2. ASSUME NEW i \in 0 .. m + 1 PROVE h[i] = Turn(q, h, i)
    <3>1. CASE i = 0
      BY <2>1, <3>1 DEF Turn
    <3>2. CASE i \in 1 .. m
      <4>1. h[i] = g[i] /\ h[i - 1] = g[i - 1] /\ i # 0
        BY <3>2
      <4>2. g[i] = Turn(q, g, i)
        BY <2>1, <3>2
      <4> HIDE DEF h
      <4> QED BY <4>1, <4>2 DEF Turn
    <3>3. CASE i = m + 1
      <4>1. h[i] = Turn(q, g, i) /\ h[i - 1] = g[i - 1] /\ i # 0
        BY <3>3
      <4> HIDE DEF h
      <4> QED BY <4>1 DEF Turn
    <3> QED BY <3>1, <3>2, <3>3
  <2>3. h = [i \in 0 .. m + 1 |-> h[i]]
    OBVIOUS
  <2>4. h = [i \in 0 .. m + 1 |-> Turn(q, h, i)]
    <3> HIDE DEF h
    <3> QED BY <2>2, <2>3
  <2>5. \E k : k = [i \in 0 .. m + 1 |-> Turn(q, k, i)]
    <3> HIDE DEF h
    <3> QED BY <2>4
  <2> QED BY <2>5
<1>3. Nat \subseteq T
  <2> HIDE DEF T
  <2> QED BY <1>1, <1>2, Induct
<1> QED BY <1>3

\* A state of the loop: its i and a list in which is nobody who is not in q.
Within(was, q) ==
    /\ was = [i |-> was.i, left |-> was.left] /\ was.i \in Nat /\ was.i >= 2
    /\ was.left \in Seq(Node) /\ Elements(was.left) \subseteq Elements(q)

\* A turn of the loop leaves such a state.
LEMMA TurnWithin ==
  ASSUME NEW was, NEW q, Within(was, q) PROVE Within(loopTurn(was), q)
<1>i. PICK i, s : i = was.i /\ s = was.left
  OBVIOUS
<1>1. i \in Nat /\ i >= 2 /\ s \in Seq(Node) /\ Elements(s) \subseteq Elements(q) /\ Len(s) \in Nat
  BY <1>i DEF Within
<1>2. CASE i >= Len(s)
  BY <1>2, <1>i DEF loopTurn
<1>3. CASE ~ (i >= Len(s)) /\ s[i] \in {s[i + 1], s[i - 1]}
  <2>a. PICK a : a = SubSeq(s, 1, i - 1)
    OBVIOUS
  <2>b. PICK b : b = SubSeq(s, i + 1, Len(s))
    OBVIOUS
  <2>r. PICK r : r = a \o b
    OBVIOUS
  <2>1. /\ a \in Seq(Node) /\ Len(a) \in Nat
        /\ \A k \in 1 .. Len(a) : \E l \in 1 .. Len(s) : a[k] = s[l]
    <3>1. i - 1 \in Nat /\ 1 <= i - 1 + 1 /\ i - 1 <= Len(s)
      BY <1>1, <1>3
    <3>2. /\ a \in Seq(Node) /\ Len(a) = i - 1 /\ \A k \in 1 .. i - 1 : a[k] = s[1 + k - 1]
      BY <1>1, <1>3, <2>a, <3>1, SubSeqProperties
    <3>3. \A k \in 1 .. i - 1 : 1 + k - 1 \in 1 .. Len(s)
      BY <1>1, <3>1
    <3> QED BY <3>1, <3>2, <3>3
  <2>2. /\ b \in Seq(Node) /\ Len(b) \in Nat
        /\ \A k \in 1 .. Len(b) : \E l \in 1 .. Len(s) : b[k] = s[l]
    <3>1. i + 1 \in Nat /\ 1 <= i + 1 /\ i + 1 <= Len(s) + 1
      BY <1>1, <1>3
    <3>2. /\ b \in Seq(Node) /\ Len(b) = Len(s) - (i + 1) + 1
          /\ \A k \in 1 .. Len(s) - (i + 1) + 1 : b[k] = s[i + 1 + k - 1]
      BY <1>1, <1>3, <2>b, <3>1, SubSeqProperties
    <3>3. Len(s) - (i + 1) + 1 \in Nat
      BY <1>1, <1>3
    <3>4. \A k \in 1 .. Len(s) - (i + 1) + 1 : i + 1 + k - 1 \in 1 .. Len(s)
      BY <1>1, <3>1
    <3> QED BY <3>2, <3>3, <3>4
  <2>3. r \in Seq(Node) /\ \A k \in DOMAIN r : (\E l \in 1 .. Len(a) : r[k] = a[l]) \/ (\E l \in 1 .. Len(b) : r[k] = b[l])
    <3>1. /\ r \in Seq(Node) /\ Len(r) = Len(a) + Len(b) /\ DOMAIN r = 1 .. Len(a) + Len(b)
          /\ \A k \in 1 .. Len(a) + Len(b) : r[k] = IF k <= Len(a) THEN a[k] ELSE b[k - Len(a)]
      BY <2>1, <2>2, <2>r, ConcatProperties
    <3>2. ASSUME NEW k \in 1 .. Len(a) + Len(b) PROVE k \in 1 .. Len(a) \/ k - Len(a) \in 1 .. Len(b)
      BY <2>1, <2>2
    <3>3. ASSUME NEW k \in 1 .. Len(a) + Len(b), ~ (k <= Len(a)) PROVE k - Len(a) \in 1 .. Len(b)
      BY <2>1, <2>2, <3>3
    <3>4. ASSUME NEW k \in 1 .. Len(a) + Len(b), k <= Len(a) PROVE k \in 1 .. Len(a)
      BY <2>1, <3>4
    <3> QED BY <3>1, <3>3, <3>4
  <2>4. Elements(r) \subseteq Elements(s)
    <3>1. DOMAIN s = 1 .. Len(s)
      BY <1>1
    <3> SUFFICES ASSUME NEW k \in DOMAIN r PROVE \E l \in DOMAIN s : r[k] = s[l]
      BY DEF Elements
    <3>2. CASE \E l \in 1 .. Len(a) : r[k] = a[l]
      BY <2>1, <3>1, <3>2
    <3>3. CASE \E l \in 1 .. Len(b) : r[k] = b[l]
      BY <2>2, <3>1, <3>3
    <3> QED BY <2>3, <3>2, <3>3
  <2>5. loopTurn(was) = [i |-> i, left |-> r]
    BY <1>3, <1>i, <2>a, <2>b, <2>r DEF loopTurn
  <2> QED BY <1>1, <2>3, <2>4, <2>5 DEF Within
<1>4. CASE ~ (i >= Len(s)) /\ s[i] \notin {s[i + 1], s[i - 1]}
  <2>1. loopTurn(was) = [i |-> i + 1, left |-> s]
    BY <1>4, <1>i DEF loopTurn
  <2>2. i + 1 \in Nat /\ i + 1 >= 2
    BY <1>1
  <2> QED BY <1>1, <2>1, <2>2 DEF Within
<1> QED BY <1>2, <1>3, <1>4

\* delRepeatElem returns a list in which is nobody new.
LEMMA Fewer ==
  ASSUME NEW q \in Seq(Node)
  PROVE  delRepeatElem(q) \in Seq(Node) /\ Elements(delRepeatElem(q)) \subseteq Elements(q)
<1> DEFINE G == CHOOSE g : g = [k \in 0 .. Len(q) |-> Turn(q, g, k)]
<1>0. Len(q) \in Nat
  OBVIOUS
<1>1. \E g : g = [k \in 0 .. Len(q) |-> Turn(q, g, k)]
  BY <1>0, TurnsExist
<1>2. G = [k \in 0 .. Len(q) |-> Turn(q, G, k)]
  BY <1>1
<1>3. delRepeatElem(q) = G[Len(q)].left
  BY DEF delRepeatElem, Turn
<1> HIDE DEF G
<1> DEFINE T == {n \in Nat : n <= Len(q) => Within(G[n], q)}
<1>4. 0 \in T
  <2>1. G[0] = [i |-> 2, left |-> q]
    BY <1>0, <1>2 DEF Turn
  <2> QED BY <2>1 DEF Within
<1>5. ASSUME NEW n \in Nat, n \in T PROVE n + 1 \in T
  <2> SUFFICES ASSUME n + 1 <= Len(q) PROVE Within(G[n + 1], q)
    OBVIOUS
  <2>1. n + 1 \in 0 .. Len(q) /\ n + 1 # 0 /\ (n + 1) - 1 = n /\ n <= Len(q)
    BY <1>0
  <2>2. G[n + 1] = loopTurn(G[n])
    BY <1>2, <2>1 DEF Turn
  <2> QED BY <1>5, <2>1, <2>2, TurnWithin
<1>6. Len(q) \in T
  <2> HIDE DEF T
  <2> QED BY <1>0, <1>4, <1>5, Induct
<1>7. Within(G[Len(q)], q)
  BY <1>0, <1>6
<1> QED BY <1>3, <1>7 DEF Within

-----------------------------------------------------------------------------
(* AddNodeToClusterFile.                                                       *)

\* The list of members as a record.
LEMMA ListIs ==
  ASSUME NEW l \in List
  PROVE  l = [nodes |-> l.nodes, key |-> l.key] /\ l.nodes \in Seq(Node) /\ l.key \in BOOLEAN
BY DEF List

\* Its nodes are replaced, and its key stays.
LEMMA NodesChanged ==
  ASSUME NEW l \in List, NEW s \in Seq(Node)
  PROVE  /\ [l EXCEPT !.nodes = s] = [nodes |-> s, key |-> l.key]
         /\ [l EXCEPT !.nodes = s] \in List
BY DEF List

\* What append leaves.
LEMMA Appended ==
  ASSUME NEW s \in Seq(Node), NEW x \in Node
  PROVE  /\ Append(s, x) \in Seq(Node) /\ Elements(Append(s, x)) = Elements(s) \cup {x}
         /\ Len(Append(s, x)) = Len(s) + 1 /\ Len(s) \in Nat
<1>1. /\ Append(s, x) \in Seq(Node) /\ Len(Append(s, x)) = Len(s) + 1 /\ Len(s) \in Nat
      /\ \A i \in 1 .. Len(s) : Append(s, x)[i] = s[i]
      /\ Append(s, x)[Len(s) + 1] = x
  OBVIOUS
<1>2. DOMAIN s = 1 .. Len(s) /\ DOMAIN Append(s, x) = 1 .. Len(s) + 1
  OBVIOUS
<1>3. 1 .. Len(s) + 1 = (1 .. Len(s)) \cup {Len(s) + 1}
  BY <1>1
<1> QED BY <1>1, <1>2, <1>3 DEF Elements

\* The list with the tag has one node more, and the one the node was started with may
\* have it in a place of its own; no list loses its key, no other list changes.
AddsTo(n, j, tag, node) ==
    /\ \A m \in Node \ {n} : object'[m] = object[m] /\ local'[m] = local[m] /\ file'[m] = file[m]
                             /\ encoded'[m] = encoded[m] /\ job'[m] = job[m]
    /\ \A t \in Tag : object'[n][t].key = object[n][t].key
    /\ \A t \in Tag \ {tag, "start"} : object'[n][t] = object[n][t]
    /\ tag # "tick" => \A t \in Tag \ {tag} : object'[n][t] = object[n][t]
    /\ \A t \in Tag : Elements(object'[n][t].nodes) \subseteq Elements(object[n][t].nodes) \cup {node}
    /\ Elements(object'[n][tag].nodes) = Elements(object[n][tag].nodes) \cup {node}
    /\ local'[n] = tag /\ file'[n] = Torn
    /\ encoded'[n][j] = object'[n][tag] /\ \A k \in Node \ {j} : encoded'[n][k] = encoded[n][k]
    /\ job'[n][j] = "writing" /\ \A k \in Node \ {j} : job'[n][k] = job[n][k]
    /\ object' \in [Node -> [Tag -> List]] /\ local' \in [Node -> Tag]
    /\ file' \in [Node -> List \cup {None, Torn}]
    /\ encoded' \in [Node -> [Node -> List]]
    /\ job' \in [Node -> [Node -> {"none", "loaded", "writing", "done"}]]

\* What AddNodeToClusterFile does, in the parts the proofs use.
LEMMA AddNodeIs ==
  ASSUME Typed, NEW n \in Node, NEW j \in Node, NEW tag \in Tag, NEW node \in Node,
         AddNodeToClusterFile(n, j, tag, node)
  PROVE  AddsTo(n, j, tag, node)
<1>o. PICK o : o = object[n]
  OBVIOUS
<1>1. o \in [Tag -> List] /\ "start" \in Tag /\ object \in [Node -> [Tag -> List]]
  BY <1>o DEF Typed, Tag
<1>l. PICK more : more = Append(o[tag].nodes, node)
  OBVIOUS
<1>s. PICK old : old = o["start"].nodes
  OBVIOUS
<1>a. PICK also : also = [old EXCEPT ![Len(o[tag].nodes) + 1] = node]
  OBVIOUS
<1> DEFINE within == tag = "tick" /\ Len(o[tag].nodes) + 1 <= Len(old)
<1>2. /\ more \in Seq(Node) /\ Elements(more) = Elements(o[tag].nodes) \cup {node}
      /\ Len(o[tag].nodes) \in Nat /\ old \in Seq(Node)
  <2>1. o[tag] \in List /\ o["start"] \in List
    BY <1>1
  <2>2. o[tag].nodes \in Seq(Node) /\ old \in Seq(Node)
    BY <1>s, <2>1, ListIs
  <2> QED BY <1>l, <2>2, Appended
<1>3. within => also \in Seq(Node) /\ Elements(also) \subseteq Elements(old) \cup {node}
  <2> SUFFICES ASSUME within PROVE also \in Seq(Node) /\ Elements(also) \subseteq Elements(old) \cup {node}
    OBVIOUS
  <2>1. old \in Seq(Node) /\ Len(old) \in Nat /\ DOMAIN old = 1 .. Len(old) /\ old \in [1 .. Len(old) -> Node]
    BY <1>2, LenProperties
  <2>2. also \in [1 .. Len(old) -> Node] /\ DOMAIN also = DOMAIN old
    BY <1>a, <2>1
  <2>3. also \in Seq(Node)
    BY <2>1, <2>2, SeqDef
  <2>4. \A i \in DOMAIN also : also[i] = node \/ also[i] = old[i]
    BY <1>a, <2>1
  <2> QED BY <2>2, <2>3, <2>4 DEF Elements
<1>b. PICK p : p = [o EXCEPT ![tag].nodes = Append(@, node)]
  OBVIOUS
<1>c. PICK q : q = IF within THEN [p EXCEPT !["start"].nodes = also] ELSE p
  OBVIOUS
<1>4. /\ p \in [Tag -> List] /\ p[tag] = [nodes |-> more, key |-> o[tag].key]
      /\ \A t \in Tag \ {tag} : p[t] = o[t]
  <2>1. [o[tag] EXCEPT !.nodes = more] = [nodes |-> more, key |-> o[tag].key]
        /\ [o[tag] EXCEPT !.nodes = more] \in List
    BY <1>1, <1>2, NodesChanged
  <2>2. p = [o EXCEPT ![tag] = [o[tag] EXCEPT !.nodes = more]]
    BY <1>b, <1>l
  <2> QED BY <1>1, <2>1, <2>2
<1>5. /\ q \in [Tag -> List] /\ \A t \in Tag \ {"start"} : q[t] = p[t]
      /\ ~ within => q["start"] = p["start"]
      /\ within => q["start"] = [nodes |-> also, key |-> o["start"].key]
  <2>1. CASE ~ within
    BY <1>4, <1>c, <2>1
  <2>2. CASE within
    <3>p. PICK ps : ps = p["start"]
      OBVIOUS
    <3>1. ps = o["start"] /\ ps \in List
      BY <1>1, <1>4, <2>2, <3>p
    <3>2. [ps EXCEPT !.nodes = also] = [nodes |-> also, key |-> ps.key] /\ [ps EXCEPT !.nodes = also] \in List
      BY <1>3, <2>2, <3>1, NodesChanged
    <3>3. q = [p EXCEPT !["start"] = [ps EXCEPT !.nodes = also]]
      BY <1>c, <2>2, <3>p
    <3> QED BY <1>1, <1>4, <2>2, <3>1, <3>2, <3>3
  <2> QED BY <2>1, <2>2
<1>6. object' = [object EXCEPT ![n] = q]
  BY <1>o, <1>s, <1>a, <1>b, <1>c DEF AddNodeToClusterFile
<1>7. object'[n] = q /\ \A m \in Node \ {n} : object'[m] = object[m]
  BY <1>1, <1>6
<1>8. object' \in [Node -> [Tag -> List]]
  BY <1>1, <1>5, <1>6
<1>9. /\ local' = [local EXCEPT ![n] = tag] /\ file' = [file EXCEPT ![n] = Torn]
      /\ encoded' = [encoded EXCEPT ![n][j] = object'[n][local'[n]]]
      /\ job' = [job EXCEPT ![n][j] = "writing"]
  BY DEF AddNodeToClusterFile, Save
<1>10. /\ local'[n] = tag /\ local' \in [Node -> Tag] /\ \A m \in Node \ {n} : local'[m] = local[m]
       /\ file'[n] = Torn /\ file' \in [Node -> List \cup {None, Torn}]
       /\ \A m \in Node \ {n} : file'[m] = file[m]
  BY <1>9 DEF Typed
<1>11. /\ job' \in [Node -> [Node -> {"none", "loaded", "writing", "done"}]]
       /\ job'[n][j] = "writing" /\ \A k \in Node \ {j} : job'[n][k] = job[n][k]
       /\ \A m \in Node \ {n} : job'[m] = job[m]
  BY <1>9 DEF Typed
<1>12. /\ encoded' \in [Node -> [Node -> List]]
       /\ encoded'[n][j] = q[tag] /\ \A k \in Node \ {j} : encoded'[n][k] = encoded[n][k]
       /\ \A m \in Node \ {n} : encoded'[m] = encoded[m]
  <2>e. PICK e : e = q[tag]
    OBVIOUS
  <2>1. e \in List /\ encoded' = [encoded EXCEPT ![n][j] = e]
    BY <1>5, <1>7, <1>9, <1>10, <2>e
  <2> QED BY <2>1, <2>e DEF Typed
<1>13. \A t \in Tag : q[t].key = o[t].key
  BY <1>4, <1>5
<1>14. \A t \in Tag \ {tag, "start"} : q[t] = o[t]
  BY <1>4, <1>5
<1>15. tag # "tick" => \A t \in Tag \ {tag} : q[t] = o[t]
  BY <1>4, <1>5
<1>16. Elements(q[tag].nodes) = Elements(o[tag].nodes) \cup {node}
  <2>1. q[tag].nodes = more
    BY <1>4, <1>5
  <2> QED BY <1>2, <2>1
<1>17. \A t \in Tag : Elements(q[t].nodes) \subseteq Elements(o[t].nodes) \cup {node}
  <2> SUFFICES ASSUME NEW t \in Tag PROVE Elements(q[t].nodes) \subseteq Elements(o[t].nodes) \cup {node}
    OBVIOUS
  <2>1. CASE t = tag
    BY <1>16, <2>1
  <2>2. CASE t # tag /\ t # "start"
    BY <1>14, <2>2
  <2>3. CASE t # tag /\ t = "start" /\ ~ within
    BY <1>4, <1>5, <2>3
  <2>4. CASE t = "start" /\ within
    BY <1>3, <1>5, <1>s, <2>4
  <2> QED BY <2>1, <2>2, <2>3, <2>4
<1> QED BY <1>7, <1>8, <1>10, <1>11, <1>12, <1>13, <1>14, <1>15, <1>16, <1>17, <1>o DEF AddsTo

-----------------------------------------------------------------------------
(* What a step may do that keeps the invariant.                                *)

\* A node on which no handler runs in this step.
SameNode(m) ==
    /\ object'[m] = object[m] /\ local'[m] = local[m] /\ file'[m] = file[m] /\ encoded'[m] = encoded[m]
    /\ m \in Up' => m \in Up
    /\ phase'[m] \in {"out", "asking"} => phase[m] \in {"out", "asking"}
    /\ \A j \in Node : job'[m][j] = job[m][j] \/ (job[m][j] = "done" /\ job'[m][j] = "none")

\* Nobody leaves a list.
Grows(m) == Elements(LocalNode(m).nodes) \subseteq Elements(LocalNode(m)'.nodes)

\* Contacts are chosen before anything else, among those that are in the cluster.
KeepContacts ==
    /\ \A m \in Node : phase[m] # "out" => contact'[m] = contact[m] /\ phase'[m] # "out"
    /\ \A m \in Node : phase[contact'[m]] # "out"
    /\ \A m \in Node : phase'[m] = "asking" => phase[m] \in {"out", "asking"}
    /\ \A m \in Stranger : phase'[m] \in {phase[m], "ended"}
    /\ updating \subseteq updating' /\ crossed \subseteq crossed'

\* A handler has begun to write down a joiner only if that is in the list by now.
AsksKept == \A i \in Node : Asked(i)' => (Asked(i) /\ contact'[i] = contact[i]) \/ Added(i)'

\* A node that enters has received the list of its contact with itself in it.
Enters(n) ==
    /\ phase[n] # "out" /\ contact[n] \in Up
    /\ contact[n] \in Calm => Added(n) /\ LocalNode(n)' = LocalNode(contact[n])
    /\ Keyed(contact[n]) => Keyed(n)'

\* The handlers of other nodes know nothing of a step on n.
LEMMA SameGood ==
  ASSUME NEW m \in Node, Typed, Typed', Good(m), SameNode(m), updating \subseteq updating', crossed \subseteq crossed'
  PROVE  Good(m)'
<1>1. \A j \in Node : (job'[m][j] = "loaded" => job[m][j] = "loaded") /\ (job'[m][j] = "writing" <=> job[m][j] = "writing")
                      /\ (job'[m][j] = "loaded" <=> job[m][j] = "loaded")
  BY DEF SameNode
<1>2. Busy(m)' = Busy(m) /\ Writing(m)' = Writing(m)
  BY <1>1 DEF Busy, Writing
<1>3. LocalNode(m)' = LocalNode(m)
  BY DEF SameNode, LocalNode
<1>4. phase'[m] \in {"out", "asking"} => Busy(m)' = {} /\ LocalNode(m)' = Empty
  BY <1>2, <1>3 DEF Good, SameNode
<1>5. m \in Up' => file'[m] # None /\ (file'[m] = Torn => Writing(m)' # {})
  BY <1>2 DEF Good, SameNode
<1>6. m \in Up' \ crossed' => OneByOne(m)'
  <2> SUFFICES ASSUME m \in Up' \ crossed' PROVE OneByOne(m)'
    OBVIOUS
  <2>1. OneByOne(m)
    BY DEF Good, SameNode
  <2> QED BY <1>1, <1>2, <1>3, <2>1 DEF OneByOne, SameNode
<1>7. local'[m] = "tick" => m \in updating'
  BY DEF Good, SameNode
<1>8. \A t \in Tag : Checked(object'[m][t])
  BY DEF Good, SameNode
<1>9. /\ \A j \in Node : Checked(encoded'[m][j])
      /\ file'[m] \in List => Checked(file'[m])
      /\ \A j \in Stranger : job'[m][j] # "loaded"
  <2>1. Stranger \subseteq Node
    BY ClusterAssumption
  <2> QED BY <1>1, <2>1 DEF Good, SameNode
<1> QED BY <1>4, <1>5, <1>6, <1>7, <1>8, <1>9 DEF Good, Checked

\* The way by which a node came does not change.
LEMMA PathSteady ==
  ASSUME Typed, Typed', Contacts, KeepContacts, NEW m \in Node, phase[m] # "out"
  PROVE  Path(m)' = Path(m)
<1>s. PICK S : S = {k \in Node : phase[k] # "out"}
  OBVIOUS
<1>1. contact \in [Node -> Node] /\ contact' \in [Node -> Node]
  BY DEF Typed
<1>2. S \in SUBSET Node /\ m \in S /\ \A k \in S : contact[k] \in S /\ contact'[k] = contact[k]
  BY <1>1, <1>s DEF Contacts, KeepContacts
<1>3. PathIn(contact', m) = PathIn(contact, m)
  BY <1>1, <1>2, PathSame
<1> QED BY <1>3, PathIs

\* A step on n that keeps contacts, lists and keys keeps the invariant.
LEMMA Step ==
  ASSUME IInv, Typed', NEW n \in Node, Good(n)', \A m \in Node \ {n} : SameNode(m), KeepContacts, AsksKept,
         n \in Calm' => Grows(n),
         n \in Up /\ n \in Up' /\ n \notin updating' /\ Keyed(n) => Keyed(n)',
         n \in Up' /\ n \notin Up => Enters(n)
  PROVE  IInv'
<1>0. Typed /\ Contacts /\ AddedFirst /\ KeptByContact /\ JoinerKnows /\ AllKeyed /\ \A m \in Node : Good(m)
  BY DEF IInv
<1>u. updating \subseteq updating' /\ crossed \subseteq crossed' /\ Calm' \subseteq Calm
  BY DEF KeepContacts, Calm
<1>1. \A m \in Node : Good(m)'
  BY <1>0, <1>u, SameGood
<1>2. Contacts'
  <2>1. \A j \in Stranger : phase'[j] \in {"out", "ended"}
    BY <1>0 DEF Contacts, KeepContacts
  <2>2. phase'[Founder] \notin {"out", "asking"} /\ contact'[Founder] = Founder
    BY <1>0, ClusterAssumption DEF Contacts, KeepContacts
  <2>3. ASSUME NEW j \in Node PROVE phase'[contact'[j]] # "out"
    <3>1. contact[j] \in Node /\ contact'[j] \in Node
      BY <1>0 DEF Typed
    <3>2. phase[contact'[j]] # "out"
      BY DEF KeepContacts
    <3> QED BY <3>1, <3>2 DEF KeepContacts
  <2> QED BY <2>1, <2>2, <2>3 DEF Contacts
<1>3. \A m \in Calm' : Grows(m)
  <2> SUFFICES ASSUME NEW m \in Calm', m # n PROVE Grows(m)
    OBVIOUS
  <2>1. SameNode(m)
    BY DEF Calm
  <2> QED BY <2>1 DEF SameNode, Grows, LocalNode
<1>4. \A m \in Up' : phase[m] # "out" /\ contact'[m] = contact[m] /\ Path(m)' = Path(m) /\ m \in Node
  <2> SUFFICES ASSUME NEW m \in Up'
               PROVE  phase[m] # "out" /\ contact'[m] = contact[m] /\ Path(m)' = Path(m) /\ m \in Node
    OBVIOUS
  <2>1. m \in Node /\ (m # n => m \in Up)
    BY DEF Up, SameNode
  <2>2. m \in Up => phase[m] # "out"
    BY DEF Up
  <2>3. phase[m] # "out"
    BY <2>1, <2>2 DEF Enters
  <2>4. contact'[m] = contact[m]
    BY <2>1, <2>3 DEF KeepContacts
  <2> QED BY <1>0, <2>1, <2>3, <2>4, PathSteady
<1>5. \A m \in Up' : m = n \/ m \in Up
  BY DEF Up, SameNode
<1>a. ASSUME NEW j \in Node, contact'[j] = contact[j], contact[j] \in Calm', Added(j) PROVE Added(j)'
  <2>1. Grows(contact[j])
    BY <1>3, <1>a
  <2> QED BY <1>a, <2>1 DEF Added, Grows, LocalNode
<1>6. AddedFirst'
  <2> SUFFICES ASSUME NEW j \in Node, Asked(j)', contact'[j] \in Calm' PROVE Added(j)'
    BY DEF AddedFirst
  <2>1. CASE Added(j)'
    BY <2>1
  <2>2. CASE Asked(j) /\ contact'[j] = contact[j]
    <3>1. Added(j)
      BY <1>0, <1>u, <2>2 DEF AddedFirst
    <3> QED BY <1>a, <2>2, <3>1
  <2> QED BY <2>1, <2>2 DEF AsksKept
<1>7. KeptByContact'
  <2> SUFFICES ASSUME NEW j \in Up' \ {Founder}, contact'[j] \in Calm' PROVE Added(j)'
    BY DEF KeptByContact, Added
  <2>1. contact'[j] = contact[j] /\ contact[j] \in Calm' /\ contact[j] \in Calm /\ j \in Node
    BY <1>4, <1>u
  <2>2. Added(j)
    BY <1>0, <1>5, <2>1 DEF KeptByContact, Added, Enters
  <2> QED BY <1>a, <2>1, <2>2
<1>8. JoinerKnows'
  <2> SUFFICES ASSUME NEW j \in Up' \cap Calm', Path(j)' \subseteq Calm'
               PROVE  Path(j)' \subseteq Elements(LocalNode(j)'.nodes)
    BY DEF JoinerKnows
  <2>1. Path(j)' = Path(j) /\ Path(j) \subseteq Calm /\ j \in Node /\ j \in Calm
    BY <1>4, <1>u
  <2>2. CASE j \in Up
    <3>1. Path(j) \subseteq Elements(LocalNode(j).nodes)
      BY <1>0, <2>1, <2>2 DEF JoinerKnows
    <3>2. Grows(j)
      BY <1>3
    <3> QED BY <2>1, <3>1, <3>2 DEF Grows
  <2>3. CASE j \notin Up
    <3>1. j = n /\ Enters(j)
      BY <1>5, <2>3
    <3>2. contact \in [Node -> Node] /\ contact[j] \in Node
      BY <1>0, <2>1 DEF Typed
    <3>3. Path(j) = {j} \cup Path(contact[j])
      <4>1. PathIn(contact, j) = {j} \cup PathIn(contact, contact[j])
        BY <2>1, <3>2, PathStep
      <4> QED BY <3>2, <4>1, PathIs
    <3>4. contact[j] \in Path(contact[j])
      BY <3>2, PathIs, PathClosed
    <3>5. contact[j] \in Up \cap Calm /\ Path(contact[j]) \subseteq Calm
      BY <2>1, <3>1, <3>3, <3>4 DEF Enters
    <3>6. Path(contact[j]) \subseteq Elements(LocalNode(contact[j]).nodes)
      BY <1>0, <3>5 DEF JoinerKnows
    <3>7. Added(j) /\ LocalNode(j)' = LocalNode(contact[j])
      BY <3>1, <3>5 DEF Enters
    <3> QED BY <2>1, <3>3, <3>6, <3>7 DEF Added
  <2> QED BY <2>2, <2>3
<1>9. AllKeyed'
  <2> SUFFICES ASSUME NEW j \in Up', Path(j)' \cap updating' = {} PROVE Keyed(j)'
    BY DEF AllKeyed
  <2>1. Path(j)' = Path(j) /\ Path(j) \cap updating = {} /\ j \in Node
    BY <1>4, <1>u
  <2>2. contact \in [Node -> Node] /\ contact[j] \in Node /\ j \in Path(j)
    <3>1. contact \in [Node -> Node] /\ contact[j] \in Node
      BY <1>0, <2>1 DEF Typed
    <3>2. j \in PathIn(contact, j)
      BY <2>1, <3>1, PathClosed
    <3> QED BY <3>1, <3>2, PathIs
  <2>3. CASE j \in Up
    <3>1. Keyed(j)
      BY <1>0, <2>1, <2>3 DEF AllKeyed
    <3>2. CASE j = n
      BY <2>1, <2>2, <2>3, <3>1, <3>2
    <3>3. CASE j # n
      <4>1. SameNode(j)
        BY <2>1, <3>3
      <4> QED BY <3>1, <4>1 DEF SameNode, Keyed, LocalNode
    <3> QED BY <3>2, <3>3
  <2>4. CASE j \notin Up
    <3>1. j = n /\ Enters(j)
      BY <1>5, <2>4
    <3>3. Path(j) = {j} \cup Path(contact[j])
      <4>1. PathIn(contact, j) = {j} \cup PathIn(contact, contact[j])
        BY <2>1, <2>2, PathStep
      <4> QED BY <2>2, <4>1, PathIs
    <3>4. Keyed(contact[j])
      BY <1>0, <2>1, <3>1, <3>3 DEF AllKeyed, Enters
    <3> QED BY <3>1, <3>4 DEF Enters
  <2> QED BY <2>3, <2>4
<1> QED BY <1>1, <1>2, <1>6, <1>7, <1>8, <1>9 DEF IInv

-----------------------------------------------------------------------------
(* The actions.                                                                *)

\* A node on which AddNodeToClusterFile ran stays as Good says, if no handlers cross or
\* that is noted.
LEMMA AddGood ==
  ASSUME Typed, NEW n \in Up, NEW j \in Node, NEW tag \in Tag, NEW node \in Node, Good(n),
         AddsTo(n, j, tag, node), node \notin Stranger, tag = "tick" => n \in updating',
         n \in Up', n \notin crossed' => n \notin crossed /\ Busy(n) \subseteq {j}
  PROVE  Good(n)'
<1>1. phase'[n] \notin {"out", "asking"} /\ n \in Node /\ Stranger \subseteq Node
  BY ClusterAssumption DEF Up
<1>2. job'[n][j] = "writing" /\ j \in Writing(n)'
  BY DEF AddsTo, Writing
<1>3. n \in Up' => file'[n] # None /\ (file'[n] = Torn => Writing(n)' # {})
  BY <1>2, ClusterAssumption DEF AddsTo
<1>4. n \notin crossed' => OneByOne(n)'
  <2> SUFFICES ASSUME n \notin crossed' PROVE OneByOne(n)'
    OBVIOUS
  <2>1. \A k \in Node \ {j} : job'[n][k] \notin {"loaded", "writing"}
    BY DEF AddsTo, Busy
  <2>2. Busy(n)' = {j} /\ Writing(n)' = {j}
    BY <1>2, <2>1 DEF Busy, Writing
  <2>3. file'[n] = Torn /\ encoded'[n][j] = LocalNode(n)'
    BY DEF AddsTo, LocalNode
  <2>4. \A k \in Node : job'[n][k] # "loaded"
    BY <1>2, <2>1
  <2> QED BY <2>2, <2>3, <2>4 DEF OneByOne
<1>5. local'[n] = "tick" => n \in updating'
  BY DEF AddsTo
<1>6. \A t \in Tag : Checked(object'[n][t])
  <2> SUFFICES ASSUME NEW t \in Tag PROVE Elements(object'[n][t].nodes) \cap Stranger = {}
    BY DEF Checked
  <2>1. Elements(object[n][t].nodes) \cap Stranger = {}
    BY DEF Good, Checked
  <2>2. Elements(object'[n][t].nodes) \subseteq Elements(object[n][t].nodes) \cup {node}
    BY DEF AddsTo
  <2> QED BY <2>1, <2>2
<1>7. \A k \in Node : Checked(encoded'[n][k])
  BY <1>6 DEF Good, AddsTo
<1>8. file'[n] \notin List
  BY ClusterAssumption DEF AddsTo
<1>9. \A k \in Stranger : job'[n][k] # "loaded"
  BY <1>1, <1>2 DEF Good, AddsTo
<1> QED BY <1>1, <1>3, <1>4, <1>5, <1>6, <1>7, <1>8, <1>9 DEF Good, Checked

\* AddNodeToClusterFile keeps the key where every list had it.
LEMMA AddKeyed ==
  ASSUME Typed, NEW n \in Node, NEW j \in Node, NEW tag \in Tag, NEW node \in Node,
         AddsTo(n, j, tag, node), Keyed(n), object[n][tag].key
  PROVE  Keyed(n)'
<1>1. LocalNode(n)'.key
  BY DEF AddsTo, LocalNode
<1>2. file'[n] \notin List
  BY ClusterAssumption DEF AddsTo
<1>3. \A k \in Node : job'[n][k] = "writing" => encoded'[n][k].key
  <2>1. encoded'[n][j] = object'[n][tag] /\ object'[n][tag].key = object[n][tag].key
    BY DEF AddsTo
  <2>2. encoded'[n][j].key
    BY <2>1
  <2>3. \A k \in Node \ {j} : encoded'[n][k] = encoded[n][k] /\ job'[n][k] = job[n][k]
    BY DEF AddsTo
  <2> QED BY <2>2, <2>3 DEF Keyed
<1>4. \A k \in Node : job'[n][k] = "loaded" => object'[n][k].key
  <2>1. Node \subseteq Tag
    BY DEF Tag
  <2> QED BY <2>1 DEF AddsTo, Keyed
<1> QED BY <1>1, <1>2, <1>3, <1>4 DEF Keyed

\* AddNodeToClusterFile on n leaves the other nodes alone.
LEMMA AddSame ==
  ASSUME NEW n \in Node, NEW j \in Node, NEW tag, NEW node, AddsTo(n, j, tag, node), phase' = phase
  PROVE  \A m \in Node \ {n} : SameNode(m)
BY DEF AddsTo, SameNode, Up

\* End changes no phase but to "ended".
LEMMA Ends ==
  ASSUME Typed, NEW S, End(S)
  PROVE  /\ \A m \in Node : phase'[m] = IF m \in S THEN "ended" ELSE phase[m]
         /\ phase' \in [Node -> {"out", "asking", "telling", "in", "ended"}]
         /\ \A m \in Node : (phase'[m] # "ended" => phase'[m] = phase[m]) /\ (phase[m] # "out" => phase'[m] # "out")
         /\ Up' \subseteq Up
BY DEF Typed, End, Up

\* JoinCluster after the check of the key: the joiner is added to the list it loaded.
LEMMA JoinClusterKeeps ==
  ASSUME IInv, NEW n \in Node, NEW j \in Node, JoinCluster(n, j)
  PROVE  IInv'
<1>0. Typed /\ Good(n) /\ n \in Up /\ job[n][j] = "loaded" /\ j \in Tag /\ j # "tick" /\ n \in Up'
  BY ClusterAssumption DEF IInv, JoinCluster, Tag, Up, joining
<1>s. UNCHANGED <<crossed, phase, contact, turn, length, updating, restarts>> /\ AddNodeToClusterFile(n, j, j, j)
  BY DEF JoinCluster, joining
<1>1. AddsTo(n, j, j, j)
  BY <1>0, <1>s, AddNodeIs
<1>2. Typed'
  BY <1>0, <1>1, <1>s DEF Typed, AddsTo
<1>3. j \notin Stranger /\ j \in Busy(n)
  BY <1>0 DEF Good, Busy
<1>4. n \notin crossed => Busy(n) = {j} /\ object[n][j] = LocalNode(n)
  <2> SUFFICES ASSUME n \notin crossed PROVE Busy(n) = {j} /\ object[n][j] = LocalNode(n)
    OBVIOUS
  <2>1. OneByOne(n)
    BY <1>0 DEF Good
  <2>2. Busy(n) = {j}
    BY <1>3, <2>1 DEF OneByOne
  <2>3. Writing(n) = {}
    BY <1>0, <2>2 DEF Busy, Writing
  <2> QED BY <1>0, <2>1, <2>2, <2>3 DEF OneByOne
<1>5. Good(n)'
  <2>1. n \notin crossed' => n \notin crossed /\ Busy(n) \subseteq {j}
    BY <1>4, <1>s
  <2> QED BY <1>0, <1>1, <1>3, <2>1, AddGood
<1>6. \A m \in Node \ {n} : SameNode(m)
  BY <1>1, <1>s, AddSame
<1>7. KeepContacts
  BY <1>0, <1>s DEF KeepContacts, IInv, Contacts
<1>8. AsksKept
  <2> SUFFICES ASSUME NEW i \in Node, Asked(i)' PROVE Asked(i) \/ Added(i)'
    BY <1>s DEF AsksKept
  <2>1. CASE i = j /\ contact[i] = n
    BY <1>1, <1>s, <2>1 DEF AddsTo, Added, LocalNode
  <2>2. CASE ~ (i = j /\ contact[i] = n)
    <3>1. contact[i] \in Node /\ contact'[i] = contact[i] /\ phase'[i] = phase[i]
      BY <1>0, <1>s DEF Typed
    <3>2. job'[contact[i]][i] = job[contact[i]][i]
      BY <1>1, <2>2, <3>1 DEF AddsTo
    <3> QED BY <3>1, <3>2 DEF Asked
  <2> QED BY <2>1, <2>2
<1>9. n \in Calm' => Grows(n)
  BY <1>1, <1>4, <1>s DEF Calm, Grows, AddsTo, LocalNode
<1>10. Keyed(n) => Keyed(n)'
  BY <1>0, <1>1, AddKeyed DEF Keyed
<1> QED BY <1>0, <1>2, <1>5, <1>6, <1>7, <1>8, <1>9, <1>10, Step

\* BroadcastNode: a member adds itself to its list, or the joiner ends with the call.
LEMMA BroadcastNodeKeeps ==
  ASSUME IInv, NEW j \in Node, NEW i \in Rest(j), BroadcastNode(j, i)
  PROVE  IInv'
<1>0. /\ Typed /\ Good(j) /\ phase[j] = "telling" /\ \A n \in Node : job[n][j] = "none"
      /\ i \in Nat /\ turn' = [turn EXCEPT ![j] = i + 1]
      /\ UNCHANGED <<contact, length, updating, restarts>>
  <2>1. turn[j] .. length[j] \subseteq Nat
    BY DEF IInv, Typed
  <2> QED BY <2>1 DEF IInv, BroadcastNode, BroadCast, Rest
<1>t. turn' \in [Node -> Nat]
  BY <1>0 DEF Typed
<1>1. CASE ~ InRange(j, i) \/ Callee(j, i) \notin Up
  <2>1. End(With(j)) /\ UNCHANGED <<object, local, file, job, encoded, crossed>>
    BY <1>1 DEF BroadcastNode, memory, handling
  <2>2. /\ \A m \in Node : (phase'[m] # "ended" => phase'[m] = phase[m]) /\ (phase[m] # "out" => phase'[m] # "out")
        /\ Up' \subseteq Up /\ phase' \in [Node -> {"out", "asking", "telling", "in", "ended"}]
    BY <1>0, <2>1, Ends
  <2>3. Typed'
    BY <1>0, <1>t, <2>1, <2>2 DEF Typed
  <2>4. \A m \in Node : SameNode(m)
    BY <2>1, <2>2 DEF SameNode
  <2>5. Good(j)'
    BY <1>0, <2>1, <2>3, <2>4, SameGood
  <2>6. KeepContacts
    <3>1. Stranger \subseteq Node
      BY ClusterAssumption
    <3>2. \A m \in Node : phase[contact[m]] # "out"
      BY DEF IInv, Contacts
    <3> QED BY <1>0, <2>1, <2>2, <3>1, <3>2 DEF KeepContacts
  <2>7. AsksKept
    BY <1>0, <2>1, <2>2 DEF AsksKept, Asked
  <2>8. Grows(j) /\ (Keyed(j) => Keyed(j)')
    BY <2>1 DEF Grows, LocalNode, Keyed
  <2> QED BY <2>2, <2>3, <2>4, <2>5, <2>6, <2>7, <2>8, Step
<1>2. CASE InRange(j, i) /\ Callee(j, i) \in Up
  <2>n. PICK n : n = Callee(j, i)
    OBVIOUS
  <2>1. /\ n \in Up /\ n \in Node /\ AddNodeToClusterFile(n, j, local[n], n) /\ Begin(n)
        /\ phase' = phase /\ local[n] \in Tag /\ Good(n) /\ n \in Up' /\ job[n][j] = "none"
    BY <1>0, <1>2, <2>n DEF BroadcastNode, Up, Typed, IInv
  <2>t. PICK tag : tag = local[n]
    OBVIOUS
  <2>2. AddsTo(n, j, tag, n) /\ tag \in Tag
    BY <1>0, <2>1, <2>t, AddNodeIs
  <2>3. crossed' \subseteq Node /\ crossed \subseteq crossed' /\ (n \notin crossed' => n \notin crossed /\ Busy(n) = {})
    BY <1>0, <2>1 DEF Begin, Typed
  <2>4. Typed'
    BY <1>0, <1>t, <2>1, <2>2, <2>3 DEF Typed, AddsTo
  <2>5. n \notin Stranger
    BY <2>1 DEF IInv, Contacts, Up
  <2>6. Good(n)'
    <3>1. tag = "tick" => n \in updating'
      BY <1>0, <2>1, <2>t DEF Good
    <3> QED BY <1>0, <2>1, <2>2, <2>3, <2>5, <3>1, AddGood
  <2>7. \A m \in Node \ {n} : SameNode(m)
    BY <2>1, <2>2, AddSame
  <2>8. KeepContacts
    BY <1>0, <2>1, <2>3 DEF KeepContacts, IInv, Contacts
  <2>9. AsksKept
    <3> SUFFICES ASSUME NEW k \in Node, Asked(k)' PROVE Asked(k)
      BY <1>0 DEF AsksKept
    <3>1. k # j /\ contact[k] \in Node /\ contact'[k] = contact[k] /\ phase'[k] = phase[k]
      BY <1>0, <2>1 DEF Asked, Typed
    <3>2. job'[contact[k]][k] = job[contact[k]][k]
      BY <2>2, <3>1 DEF AddsTo
    <3> QED BY <3>1, <3>2 DEF Asked
  <2>10. Grows(n)
    BY <2>2, <2>t DEF Grows, AddsTo, LocalNode
  <2>11. Keyed(n) => Keyed(n)'
    BY <1>0, <2>1, <2>2, <2>t, AddKeyed DEF Keyed, LocalNode
  <2> QED BY <2>1, <2>4, <2>6, <2>7, <2>8, <2>9, <2>10, <2>11, Step
<1> QED BY <1>1, <1>2

\* JoinCluster up to the check of the key: while no handlers cross, the file holds what
\* LocalNode was, so that to load it changes nothing.
LEMMA LoadKeeps ==
  ASSUME IInv, NEW n \in Node, NEW j \in Node, LoadClusterFile(n, j)
  PROVE  IInv'
<1>0. /\ Typed /\ Good(n) /\ n \in Up /\ phase[n] # "out" /\ phase[j] = "out" /\ j # n
      /\ j \in Tag /\ j # "tick" /\ contact' = [contact EXCEPT ![j] = n]
      /\ UNCHANGED <<file, encoded, turn, length, updating, restarts>> /\ file[n] # None
  BY ClusterAssumption DEF IInv, LoadClusterFile, Tag, Up, Good
<1>c. /\ contact' \in [Node -> Node] /\ contact'[j] = n
      /\ \A m \in Node \ {j} : contact'[m] = contact[m]
      /\ \A m \in Node : phase[contact'[m]] # "out"
  BY <1>0 DEF Typed, IInv, Contacts
<1>1. CASE file[n] = Torn
  <2>1. End(With(n) \cup {j}) /\ UNCHANGED <<object, local, job, crossed>>
    BY <1>1 DEF LoadClusterFile, memory
  <2>2. /\ \A m \in Node : (phase'[m] # "ended" => phase'[m] = phase[m]) /\ (phase[m] # "out" => phase'[m] # "out")
        /\ Up' \subseteq Up /\ phase' \in [Node -> {"out", "asking", "telling", "in", "ended"}]
    BY <1>0, <2>1, Ends
  <2>e. phase'[j] = "ended"
    BY <2>1 DEF End
  <2>3. Typed'
    BY <1>0, <1>c, <2>1, <2>2 DEF Typed
  <2>4. \A m \in Node : SameNode(m)
    BY <1>0, <2>1, <2>2 DEF SameNode
  <2>5. Good(n)'
    BY <1>0, <2>1, <2>3, <2>4, SameGood
  <2>6. KeepContacts
    <3>1. Stranger \subseteq Node
      BY ClusterAssumption
    <3> QED BY <1>0, <1>c, <2>1, <2>2, <3>1 DEF KeepContacts
  <2>7. AsksKept
    BY <1>0, <1>c, <2>1, <2>2, <2>e DEF AsksKept, Asked
  <2>8. Grows(n) /\ (Keyed(n) => Keyed(n)')
    BY <1>0, <2>1 DEF Grows, LocalNode, Keyed
  <2> QED BY <2>2, <2>3, <2>4, <2>5, <2>6, <2>7, <2>8, Step
<1>2. CASE file[n] # Torn
  <2>f. PICK l : l = file[n]
    OBVIOUS
  <2>1. /\ l \in List /\ object' = [object EXCEPT ![n][j] = l] /\ local' = [local EXCEPT ![n] = j]
        /\ Checked(l)
    BY <1>0, <1>2, <2>f DEF LoadClusterFile, Typed, Good
  <2>2. /\ object' \in [Node -> [Tag -> List]] /\ local' \in [Node -> Tag]
        /\ object'[n][j] = l /\ \A t \in Tag \ {j} : object'[n][t] = object[n][t]
        /\ local'[n] = j /\ \A m \in Node \ {n} : object'[m] = object[m] /\ local'[m] = local[m]
        /\ LocalNode(n)' = l
    BY <1>0, <2>1 DEF Typed, LocalNode
  <2>3. n \notin crossed => LocalNode(n)' = LocalNode(n)
    <3> SUFFICES ASSUME n \notin crossed PROVE file[n] = LocalNode(n)
      BY <2>2, <2>f
    <3>1. OneByOne(n)
      BY <1>0 DEF Good
    <3>2. Writing(n) = {}
      BY <1>2, <3>1 DEF OneByOne
    <3> QED BY <3>1, <3>2 DEF OneByOne
  <2>4. n \notin crossed => Writing(n) = {} /\ OneByOne(n)
    <3> SUFFICES ASSUME n \notin crossed PROVE Writing(n) = {} /\ OneByOne(n)
      OBVIOUS
    <3>1. OneByOne(n)
      BY <1>0 DEF Good
    <3> QED BY <1>2, <3>1 DEF OneByOne
  <2>5. Grows(n) \/ n \in crossed
    BY <2>3 DEF Grows
  <2>6. \A t \in Tag : Checked(object'[n][t])
    BY <1>0, <2>1, <2>2 DEF Good
  <2>7. CASE j \in Stranger \/ ~ file[n].key
    <3>1. End({j}) /\ UNCHANGED <<job, crossed>>
      BY <1>2, <2>7 DEF LoadClusterFile
    <3>2. /\ \A m \in Node : phase'[m] = IF m \in {j} THEN "ended" ELSE phase[m]
          /\ Up' \subseteq Up /\ phase' \in [Node -> {"out", "asking", "telling", "in", "ended"}]
      BY <1>0, <3>1, Ends
    <3>3. Typed'
      BY <1>0, <1>c, <2>2, <3>1, <3>2 DEF Typed
    <3>4. \A m \in Node \ {n} : SameNode(m)
      BY <1>0, <2>2, <3>1, <3>2 DEF SameNode
    <3>5. Good(n)'
      <4>1. n \in Up' \ crossed' => OneByOne(n)'
        <5> SUFFICES ASSUME n \notin crossed PROVE OneByOne(n)'
          BY <3>1
        <5>1. Busy(n)' = Busy(n) /\ Writing(n)' = Writing(n) /\ Writing(n) = {} /\ OneByOne(n)
          BY <2>4, <3>1 DEF Busy, Writing
        <5>2. \A k \in Node : job'[n][k] = "loaded" => object'[n][k] = file'[n]
          <6>1. Node \subseteq Tag
            BY DEF Tag
          <6> QED BY <1>0, <2>2, <2>f, <3>1, <5>1, <6>1 DEF OneByOne
        <5> QED BY <1>0, <2>2, <2>f, <5>1, <5>2 DEF OneByOne
      <4>2. phase'[n] = phase[n] /\ phase'[n] \notin {"out", "asking"}
        BY <1>0, <3>2 DEF Up
      <4>3. Writing(n)' = Writing(n)
        BY <3>1 DEF Writing
      <4> QED BY <1>0, <1>2, <2>1, <2>2, <2>6, <2>f, <3>1, <4>1, <4>2, <4>3 DEF Good
    <3>6. KeepContacts
      <4>1. Stranger \subseteq Node
        BY ClusterAssumption
      <4> QED BY <1>0, <1>c, <3>1, <3>2, <4>1 DEF KeepContacts
    <3>7. AsksKept
      BY <1>0, <1>c, <3>1, <3>2 DEF AsksKept, Asked
    <3>8. n \in Calm' => Grows(n)
      BY <1>0, <2>5, <3>1 DEF Calm
    <3>9. Keyed(n) => Keyed(n)'
      <4> SUFFICES ASSUME Keyed(n) PROVE Keyed(n)'
        OBVIOUS
      <4>1. l.key /\ Node \subseteq Tag
        BY <2>1, <2>f DEF Keyed, Tag
      <4>2. \A k \in Node : job'[n][k] = "loaded" => object'[n][k].key
        BY <2>2, <3>1, <4>1 DEF Keyed
      <4> QED BY <1>0, <2>2, <2>f, <3>1, <4>1, <4>2 DEF Keyed
    <3> QED BY <3>2, <3>3, <3>4, <3>5, <3>6, <3>7, <3>8, <3>9, Step
  <2>8. CASE j \notin Stranger /\ file[n].key
    <3>1. /\ phase' = [phase EXCEPT ![j] = "asking"] /\ job' = [job EXCEPT ![n][j] = "loaded"] /\ Begin(n)
      BY <1>2, <2>8 DEF LoadClusterFile
    <3>2. /\ phase' \in [Node -> {"out", "asking", "telling", "in", "ended"}]
          /\ phase'[j] = "asking" /\ \A m \in Node \ {j} : phase'[m] = phase[m]
          /\ Up' \subseteq Up /\ n \in Up'
          /\ job' \in [Node -> [Node -> {"none", "loaded", "writing", "done"}]]
          /\ job'[n][j] = "loaded" /\ \A k \in Node \ {j} : job'[n][k] = job[n][k]
          /\ \A m \in Node \ {n} : job'[m] = job[m]
      BY <1>0, <3>1 DEF Typed, Up
    <3>b. crossed' \subseteq Node /\ crossed \subseteq crossed' /\ (n \notin crossed' => n \notin crossed /\ Busy(n) = {})
      BY <1>0, <3>1 DEF Begin, Typed
    <3>3. Typed'
      BY <1>0, <1>c, <2>2, <3>2, <3>b DEF Typed
    <3>4. \A m \in Node \ {n} : SameNode(m)
      BY <1>0, <2>2, <3>2 DEF SameNode
    <3>5. Good(n)'
      <4>1. n \in Up' \ crossed' => OneByOne(n)'
        <5> SUFFICES ASSUME n \notin crossed' PROVE OneByOne(n)'
          OBVIOUS
        <5>1. \A k \in Node \ {j} : job'[n][k] \notin {"loaded", "writing"}
          BY <3>2, <3>b DEF Busy
        <5>2. Busy(n)' = {j} /\ Writing(n)' = {}
          BY <3>2, <5>1 DEF Busy, Writing
        <5>3. \A k \in Node : job'[n][k] = "loaded" => object'[n][k] = file'[n]
          BY <1>0, <2>2, <2>f, <5>1
        <5> QED BY <1>0, <2>2, <2>f, <5>2, <5>3 DEF OneByOne
      <4>2. phase'[n] \notin {"out", "asking"}
        BY <3>2 DEF Up
      <4>3. \A k \in Stranger : job'[n][k] # "loaded"
        <5>1. Stranger \subseteq Node
          BY ClusterAssumption
        <5> QED BY <1>0, <2>8, <3>2, <5>1 DEF Good
      <4> QED BY <1>0, <1>2, <2>1, <2>2, <2>6, <2>f, <4>1, <4>2, <4>3 DEF Good
    <3>6. KeepContacts
      <4>1. \A m \in Stranger : m # j /\ m \in Node
        BY <2>8, ClusterAssumption
      <4> QED BY <1>0, <1>c, <3>2, <3>b, <4>1 DEF KeepContacts
    <3>7. AsksKept
      <4> SUFFICES ASSUME NEW k \in Node, Asked(k)' PROVE Asked(k) /\ contact'[k] = contact[k]
        BY DEF AsksKept
      <4>1. k # j
        BY <1>c, <3>2 DEF Asked
      <4>2. contact'[k] = contact[k] /\ contact[k] \in Node /\ phase'[k] = phase[k]
        BY <1>0, <1>c, <3>2, <4>1 DEF Typed
      <4>3. job'[contact[k]][k] = job[contact[k]][k]
        BY <3>2, <4>1, <4>2
      <4> QED BY <4>2, <4>3 DEF Asked
    <3>8. n \in Calm' => Grows(n)
      BY <2>5, <3>b DEF Calm
    <3>9. Keyed(n) => Keyed(n)'
      <4> SUFFICES ASSUME Keyed(n) PROVE Keyed(n)'
        OBVIOUS
      <4>1. l.key /\ Node \subseteq Tag
        BY <2>1, <2>f DEF Keyed, Tag
      <4>2. \A k \in Node : job'[n][k] = "loaded" => object'[n][k].key
        <5>1. object'[n][j].key
          BY <2>2, <4>1
        <5>2. \A k \in Node \ {j} : object'[n][k] = object[n][k] /\ job'[n][k] = job[n][k]
          BY <2>2, <3>2, <4>1
        <5> QED BY <5>1, <5>2 DEF Keyed
      <4>3. \A k \in Node : job'[n][k] = "writing" => encoded'[n][k].key
        BY <1>0, <3>2 DEF Keyed
      <4> QED BY <1>0, <2>2, <2>f, <4>1, <4>2, <4>3 DEF Keyed
    <3> QED BY <3>2, <3>3, <3>4, <3>5, <3>6, <3>7, <3>8, <3>9, Step
  <2> QED BY <2>7, <2>8
<1> QED BY <1>1, <1>2

\* A handler of n for j writes what LocalNode holds, while no handlers cross.
LEMMA WrittenKeeps ==
  ASSUME IInv, NEW n \in Node, NEW j \in Node, Written(n, j)
  PROVE  IInv'
<1>0. /\ Typed /\ Good(n) /\ n \in Up /\ job[n][j] = "writing" /\ encoded[n][j] \in List
      /\ UNCHANGED <<object, local, encoded, crossed, phase, contact, turn, length, updating, restarts>>
  BY DEF IInv, Written, memory, joining, Typed
<1>e. PICK l : l = encoded[n][j]
  OBVIOUS
<1>k. PICK w : w = IF j = n THEN "none" ELSE "done"
  OBVIOUS
<1>1. file' = [file EXCEPT ![n] = l] /\ job' = [job EXCEPT ![n][j] = w]
  BY <1>e, <1>k DEF Written
<1>2. /\ l \in List /\ l # None /\ l # Torn /\ w \in {"none", "done"}
      /\ file' \in [Node -> List \cup {None, Torn}] /\ file'[n] = l /\ \A m \in Node \ {n} : file'[m] = file[m]
      /\ job' \in [Node -> [Node -> {"none", "loaded", "writing", "done"}]]
      /\ job'[n][j] = w /\ \A k \in Node \ {j} : job'[n][k] = job[n][k]
      /\ \A m \in Node \ {n} : job'[m] = job[m]
  BY <1>0, <1>1, <1>e, <1>k, ClusterAssumption DEF Typed
<1>3. Typed'
  BY <1>0, <1>2 DEF Typed
<1>4. \A m \in Node \ {n} : SameNode(m)
  BY <1>0, <1>2 DEF SameNode, Up
<1>5. Good(n)'
  <2>1. n \notin crossed => OneByOne(n)'
    <3> SUFFICES ASSUME n \notin crossed PROVE OneByOne(n)'
      OBVIOUS
    <3>1. OneByOne(n) /\ j \in Busy(n) /\ j \in Writing(n)
      BY <1>0 DEF Good, Busy, Writing
    <3>2. \A k \in Node \ {j} : job[n][k] \notin {"loaded", "writing"}
      BY <3>1 DEF OneByOne, Busy
    <3>3. \A k \in Node : job'[n][k] \notin {"loaded", "writing"}
      BY <1>2, <3>2
    <3>4. Busy(n)' = {} /\ Writing(n)' = {}
      BY <3>3 DEF Busy, Writing
    <3>5. LocalNode(n)' = LocalNode(n) /\ LocalNode(n) = l
      BY <1>0, <1>e, <3>1 DEF LocalNode, OneByOne
    <3> QED BY <1>2, <3>3, <3>4, <3>5 DEF OneByOne
  <2>2. phase'[n] \notin {"out", "asking"}
    BY <1>0 DEF Up
  <2>3. Checked(l) /\ \A k \in Stranger : job'[n][k] # "loaded"
    <3>1. Stranger \subseteq Node
      BY ClusterAssumption
    <3> QED BY <1>0, <1>2, <1>e, <3>1 DEF Good
  <2> QED BY <1>0, <1>2, <2>1, <2>2, <2>3 DEF Good
<1>6. KeepContacts
  BY <1>0 DEF KeepContacts, IInv, Contacts
<1>7. AsksKept
  <2> SUFFICES ASSUME NEW i \in Node, Asked(i)' PROVE Asked(i)
    BY <1>0 DEF AsksKept
  <2>1. contact[i] \in Node /\ contact'[i] = contact[i] /\ phase'[i] = "asking" /\ phase[i] = "asking"
    BY <1>0 DEF Typed, Asked
  <2>2. CASE i = j /\ contact[i] = n
    BY <1>0, <2>1, <2>2 DEF Asked
  <2>3. CASE ~ (i = j /\ contact[i] = n)
    <3>1. job'[contact[i]][i] = job[contact[i]][i]
      BY <1>2, <2>1, <2>3
    <3> QED BY <2>1, <3>1 DEF Asked
  <2> QED BY <2>2, <2>3
<1>8. Grows(n) /\ LocalNode(n)' = LocalNode(n)
  BY <1>0 DEF Grows, LocalNode
<1>9. Keyed(n) => Keyed(n)'
  <2> SUFFICES ASSUME Keyed(n) PROVE Keyed(n)'
    OBVIOUS
  <2>1. l.key
    BY <1>0, <1>e DEF Keyed
  <2> QED BY <1>0, <1>2, <1>8, <2>1 DEF Keyed
<1>10. n \in Up'
  BY <1>0 DEF Up
<1> QED BY <1>0, <1>3, <1>4, <1>5, <1>6, <1>7, <1>8, <1>9, Step

\* UpdateClusterFile runs where lists are not kept; its list holds nobody new.
LEMMA UpdateClusterFileKeeps ==
  ASSUME IInv, NEW n \in Node, UpdateClusterFile(n)
  PROVE  IInv'
<1>0. /\ Typed /\ Good(n) /\ n \in updating /\ n \in Up /\ job[n][n] = "none"
      /\ UNCHANGED <<phase, contact, turn, length, updating, restarts>> /\ Begin(n)
      /\ "start" \in Tag /\ "tick" \in Tag
  BY DEF IInv, UpdateClusterFile, joining, Tag
<1>o. PICK old : old = object[n]["start"].nodes
  OBVIOUS
<1>f. PICK fewer : fewer = delRepeatElem(old)
  OBVIOUS
<1>g. PICK rest : rest = [i \in DOMAIN old |-> IF i \in DOMAIN fewer THEN fewer[i] ELSE old[Len(old)]]
  OBVIOUS
<1>l. PICK l : l = [nodes |-> fewer, key |-> FALSE]
  OBVIOUS
<1>1. old \in Seq(Node) /\ object[n]["start"] \in List
  BY <1>0, <1>o, ListIs DEF Typed
<1>2. fewer \in Seq(Node) /\ Elements(fewer) \subseteq Elements(old) /\ l \in List
  BY <1>1, <1>f, <1>l, Fewer DEF List
<1>3. rest \in Seq(Node) /\ Elements(rest) \subseteq Elements(old)
  <2>1. Len(old) \in Nat /\ DOMAIN old = 1 .. Len(old) /\ old \in [1 .. Len(old) -> Node]
    BY <1>1, LenProperties
  <2>2. \A i \in DOMAIN fewer : fewer[i] \in Elements(old)
    BY <1>2 DEF Elements
  <2>3. \A i \in DOMAIN old : old[Len(old)] \in Elements(old)
    <3> SUFFICES ASSUME NEW i \in DOMAIN old PROVE Len(old) \in DOMAIN old
      BY DEF Elements
    <3> QED BY <2>1
  <2>4. Elements(old) \subseteq Node
    BY <2>1 DEF Elements
  <2>5. DOMAIN rest = DOMAIN old /\ \A i \in DOMAIN old : rest[i] \in Elements(old)
    BY <1>g, <2>2, <2>3
  <2>6. rest \in [1 .. Len(old) -> Node]
    BY <1>g, <2>1, <2>4, <2>5
  <2>7. rest \in Seq(Node)
    BY <2>1, <2>6, SeqDef
  <2> QED BY <2>5, <2>7 DEF Elements
<1>a. PICK a : a = [object[n]["start"] EXCEPT !.nodes = rest]
  OBVIOUS
<1>4. a = [nodes |-> rest, key |-> object[n]["start"].key] /\ a \in List /\ a.nodes = rest /\ l.nodes = fewer
  BY <1>1, <1>3, <1>a, <1>l, NodesChanged
<1>5. object' = [object EXCEPT ![n]["tick"] = l, ![n]["start"].nodes = rest]
  BY <1>o, <1>f, <1>g, <1>l DEF UpdateClusterFile
<1>6. object' = [object EXCEPT ![n]["tick"] = l, ![n]["start"] = a]
  BY <1>0, <1>5, <1>a DEF Typed
<1>7. /\ object' \in [Node -> [Tag -> List]] /\ object'[n]["tick"] = l /\ object'[n]["start"] = a
      /\ \A t \in Tag \ {"start", "tick"} : object'[n][t] = object[n][t]
      /\ \A m \in Node \ {n} : object'[m] = object[m]
  BY <1>0, <1>2, <1>4, <1>6 DEF Typed
<1>8. /\ local' = [local EXCEPT ![n] = "tick"] /\ file' = [file EXCEPT ![n] = Torn]
      /\ encoded' = [encoded EXCEPT ![n][n] = object'[n][local'[n]]]
      /\ job' = [job EXCEPT ![n][n] = "writing"]
  BY DEF UpdateClusterFile, Save
<1>9. /\ local'[n] = "tick" /\ local' \in [Node -> Tag] /\ \A m \in Node \ {n} : local'[m] = local[m]
      /\ file'[n] = Torn /\ file' \in [Node -> List \cup {None, Torn}]
      /\ \A m \in Node \ {n} : file'[m] = file[m]
      /\ job' \in [Node -> [Node -> {"none", "loaded", "writing", "done"}]]
      /\ job'[n][n] = "writing" /\ \A k \in Node \ {n} : job'[n][k] = job[n][k]
      /\ \A m \in Node \ {n} : job'[m] = job[m]
  BY <1>0, <1>8 DEF Typed
<1>10. /\ encoded' \in [Node -> [Node -> List]] /\ encoded'[n][n] = l
       /\ \A k \in Node \ {n} : encoded'[n][k] = encoded[n][k]
       /\ \A m \in Node \ {n} : encoded'[m] = encoded[m]
  <2>1. encoded' = [encoded EXCEPT ![n][n] = l]
    BY <1>7, <1>8, <1>9
  <2> QED BY <1>0, <1>2, <2>1 DEF Typed
<1>11. crossed' \subseteq Node /\ crossed \subseteq crossed' /\ (n \notin crossed' => Busy(n) = {})
  BY <1>0 DEF Begin, Typed
<1>12. Typed'
  BY <1>0, <1>7, <1>9, <1>10, <1>11 DEF Typed
<1>13. \A m \in Node \ {n} : SameNode(m)
  BY <1>0, <1>7, <1>9, <1>10 DEF SameNode, Up
<1>14. Good(n)'
  <2>1. n \in Writing(n)' /\ phase'[n] \notin {"out", "asking"} /\ file'[n] # None /\ file'[n] \notin List
    BY <1>0, <1>9, ClusterAssumption DEF Writing, Up
  <2>2. n \notin crossed' => OneByOne(n)'
    <3> SUFFICES ASSUME n \notin crossed' PROVE OneByOne(n)'
      OBVIOUS
    <3>1. \A k \in Node \ {n} : job'[n][k] \notin {"loaded", "writing"}
      BY <1>9, <1>11 DEF Busy
    <3>2. Busy(n)' = {n} /\ Writing(n)' = {n} /\ \A k \in Node : job'[n][k] # "loaded"
      BY <1>9, <3>1 DEF Busy, Writing
    <3>3. LocalNode(n)' = l
      BY <1>7, <1>9 DEF LocalNode
    <3> QED BY <1>9, <1>10, <3>2, <3>3 DEF OneByOne
  <2>3. Elements(old) \cap Stranger = {}
    BY <1>0, <1>o DEF Good, Checked
  <2>4. Checked(l) /\ Checked(a)
    BY <1>2, <1>3, <1>4, <2>3 DEF Checked
  <2>5. \A t \in Tag : Checked(object'[n][t])
    BY <1>0, <1>7, <2>4 DEF Good
  <2>6. \A k \in Node : Checked(encoded'[n][k])
    BY <1>0, <1>10, <2>4 DEF Good
  <2>7. \A k \in Stranger : job'[n][k] # "loaded"
    <3>1. Stranger \subseteq Node
      BY ClusterAssumption
    <3> QED BY <1>0, <1>9, <3>1 DEF Good
  <2> QED BY <1>0, <2>1, <2>2, <2>5, <2>6, <2>7 DEF Good
<1>15. KeepContacts
  BY <1>0, <1>11 DEF KeepContacts, IInv, Contacts
<1>16. AsksKept
  <2> SUFFICES ASSUME NEW i \in Node, Asked(i)' PROVE Asked(i)
    BY <1>0 DEF AsksKept
  <2>1. contact[i] \in Node /\ contact'[i] = contact[i] /\ phase'[i] = "asking" /\ phase[i] = "asking" /\ i # n
    BY <1>0 DEF Typed, Asked, Up
  <2>2. job'[contact[i]][i] = job[contact[i]][i]
    BY <1>9, <2>1
  <2> QED BY <2>1, <2>2 DEF Asked
<1>17. n \notin Calm' /\ n \in updating'
  BY <1>0 DEF Calm
<1> QED BY <1>0, <1>12, <1>13, <1>14, <1>15, <1>16, <1>17, Step

\* A node that was started again has the list of its file, and updates it from then on.
LEMMA RestartKeeps ==
  ASSUME IInv, NEW n \in Node, Restart(n)
  PROVE  IInv'
<1>0. /\ Typed /\ Good(n) /\ n \in Up /\ phase[n] = "in" /\ file[n] # None /\ restarts' \in 0 .. MaxRestarts
      /\ UNCHANGED <<file, encoded, crossed, contact, turn, length>>
      /\ job' = [job EXCEPT ![n] = [j \in Node |-> IF job[n][j] = "done" THEN "done" ELSE "none"]]
  <2>1. Typed /\ Good(n) /\ n \in Up /\ phase[n] = "in"
    BY DEF IInv, Restart, Up
  <2>2. MaxRestarts \in Nat /\ restarts \in 0 .. MaxRestarts /\ restarts < MaxRestarts /\ restarts' = restarts + 1
    BY <2>1, ClusterAssumption DEF Typed, Restart
  <2>3. restarts' \in 0 .. MaxRestarts
    BY <2>2
  <2> QED BY <2>1, <2>3 DEF Good, Restart
<1>1. /\ job' \in [Node -> [Node -> {"none", "loaded", "writing", "done"}]]
      /\ \A j \in Node : job'[n][j] \in {"none", "done"} /\ (job'[n][j] = "done" => job[n][j] = "done")
      /\ \A m \in Node \ {n} : job'[m] = job[m]
  BY <1>0 DEF Typed
<1>2. Busy(n)' = {} /\ Writing(n)' = {}
  BY <1>1 DEF Busy, Writing
<1>3. \A j \in Stranger : job'[n][j] # "loaded"
  BY <1>1, ClusterAssumption
<1>4. ASSUME \A m \in Node : (phase'[m] # "ended" => phase'[m] = phase[m]) PROVE AsksKept
  <2> SUFFICES ASSUME NEW i \in Node, Asked(i)' PROVE Asked(i)
    BY <1>0 DEF AsksKept
  <2>1. contact[i] \in Node /\ contact'[i] = contact[i] /\ phase'[i] = "asking" /\ phase[i] = "asking"
    BY <1>0, <1>4 DEF Typed, Asked
  <2>2. CASE contact[i] = n
    <3>1. job'[n][i] = "done" /\ job[n][i] = "done"
      BY <1>1, <2>1, <2>2 DEF Asked
    <3> QED BY <2>1, <2>2, <3>1 DEF Asked
  <2>3. CASE contact[i] # n
    BY <1>1, <2>1, <2>3 DEF Asked
  <2> QED BY <2>2, <2>3
<1>5. CASE file[n] = Torn
  <2>1. End(With(n)) /\ UNCHANGED <<object, local, updating>>
    BY <1>5 DEF Restart, memory
  <2>2. /\ \A m \in Node : (phase'[m] # "ended" => phase'[m] = phase[m]) /\ (phase[m] # "out" => phase'[m] # "out")
        /\ Up' \subseteq Up /\ phase' \in [Node -> {"out", "asking", "telling", "in", "ended"}]
    BY <1>0, <2>1, Ends
  <2>e. phase'[n] = "ended"
    BY <2>1 DEF End, With
  <2>3. Typed'
    BY <1>0, <1>1, <2>1, <2>2 DEF Typed
  <2>4. \A m \in Node \ {n} : SameNode(m)
    BY <1>0, <1>1, <2>1, <2>2 DEF SameNode
  <2>5. Good(n)'
    BY <1>0, <1>3, <2>1, <2>e DEF Good, Up
  <2>6. KeepContacts
    <3>1. Stranger \subseteq Node
      BY ClusterAssumption
    <3>2. \A m \in Node : phase[contact[m]] # "out"
      BY DEF IInv, Contacts
    <3> QED BY <1>0, <2>1, <2>2, <3>1, <3>2 DEF KeepContacts
  <2>7. AsksKept
    BY <1>4, <2>2
  <2>8. Grows(n) /\ n \notin Up'
    BY <2>1, <2>e DEF Grows, LocalNode, Up
  <2> QED BY <2>2, <2>3, <2>4, <2>5, <2>6, <2>7, <2>8, Step
<1>6. CASE file[n] # Torn
  <2>f. PICK l : l = file[n]
    OBVIOUS
  <2>1. /\ End(With(n) \ {n}) /\ updating' = updating \cup {n} /\ l \in List /\ Checked(l)
        /\ object' = [object EXCEPT ![n] = [t \in Tag |-> IF t = "start" THEN l ELSE Empty]]
        /\ local' = [local EXCEPT ![n] = "start"] /\ "start" \in Tag
    BY <1>0, <1>6, <2>f DEF Restart, Typed, Good, Tag
  <2>2. /\ \A m \in Node : phase'[m] = IF m \in With(n) \ {n} THEN "ended" ELSE phase[m]
        /\ \A m \in Node : (phase'[m] # "ended" => phase'[m] = phase[m]) /\ (phase[m] # "out" => phase'[m] # "out")
        /\ Up' \subseteq Up /\ phase' \in [Node -> {"out", "asking", "telling", "in", "ended"}]
    BY <1>0, <2>1, Ends
  <2>m. Empty \in List /\ Checked(Empty)
    <3>1. << >> \in Seq(Node) /\ Elements(<< >>) = {}
      BY DEF Elements
    <3> QED BY <3>1 DEF List, Empty, Checked
  <2>3. /\ object' \in [Node -> [Tag -> List]] /\ local' \in [Node -> Tag] /\ local'[n] = "start"
        /\ \A t \in Tag : object'[n][t] \in {l, Empty}
        /\ object'[n]["start"] = l /\ \A m \in Node \ {n} : object'[m] = object[m] /\ local'[m] = local[m]
    BY <1>0, <2>1, <2>m DEF Typed
  <2>4. Typed'
    BY <1>0, <1>1, <2>1, <2>2, <2>3 DEF Typed
  <2>5. \A m \in Node \ {n} : SameNode(m)
    BY <1>0, <1>1, <2>2, <2>3 DEF SameNode
  <2>6. Good(n)'
    <3>1. LocalNode(n)' = l /\ file'[n] = l
      BY <1>0, <2>3, <2>f DEF LocalNode
    <3>2. OneByOne(n)'
      BY <1>1, <1>2, <3>1 DEF OneByOne
    <3>3. phase'[n] \notin {"out", "asking"}
      BY <1>0, <2>2
    <3>4. \A t \in Tag : Checked(object'[n][t])
      BY <2>1, <2>3, <2>m
    <3> QED BY <1>0, <1>3, <1>6, <2>1, <2>3, <2>f, <3>1, <3>2, <3>3, <3>4 DEF Good
  <2>7. KeepContacts
    <3>1. Stranger \subseteq Node
      BY ClusterAssumption
    <3>2. \A m \in Node : phase[contact[m]] # "out"
      BY DEF IInv, Contacts
    <3> QED BY <1>0, <2>1, <2>2, <3>1, <3>2 DEF KeepContacts
  <2>8. AsksKept
    BY <1>4, <2>2
  <2>9. n \notin Calm' /\ n \in updating'
    BY <2>1 DEF Calm
  <2> QED BY <1>0, <2>2, <2>4, <2>5, <2>6, <2>7, <2>8, <2>9, Step
<1> QED BY <1>5, <1>6

\* The joiner receives the file of its contact after that has written it.
LEMMA JoinToClusterKeeps ==
  ASSUME IInv, NEW j \in Node, JoinToCluster(j)
  PROVE  IInv'
<1>h. PICK host : host = contact[j]
  OBVIOUS
<1>0. /\ Typed /\ Good(j) /\ phase[j] = "asking" /\ host \in Node /\ job[host][j] = "done" /\ Good(host)
      /\ job' = [job EXCEPT ![host][j] = "none"] /\ j \notin Up /\ Asked(j) /\ j # Founder
      /\ UNCHANGED <<encoded, crossed, contact, updating, restarts>>
      /\ \A m \in Node : phase[contact[m]] # "out"
  <2>1. Typed /\ Good(j) /\ phase[j] = "asking" /\ host \in Node
    BY <1>h DEF IInv, JoinToCluster, Typed
  <2> QED BY <1>h, <2>1 DEF IInv, JoinToCluster, Up, Asked, Contacts
<1>1. /\ job' \in [Node -> [Node -> {"none", "loaded", "writing", "done"}]]
      /\ \A m, k \in Node : job'[m][k] = job[m][k] \/ (m = host /\ k = j /\ job'[m][k] = "none")
  BY <1>0 DEF Typed
<1>2. Busy(j) = {} /\ LocalNode(j) = Empty
  BY <1>0 DEF Good
<1>3. Elements(LocalNode(j).nodes) = {}
  BY <1>2 DEF Elements, Empty
<1>4. ASSUME \A m \in Node : phase'[m] = "asking" => phase[m] = "asking" PROVE AsksKept
  <2> SUFFICES ASSUME NEW i \in Node, Asked(i)' PROVE Asked(i)
    BY <1>0 DEF AsksKept
  <2>1. contact[i] \in Node /\ contact'[i] = contact[i] /\ phase'[i] = "asking" /\ phase[i] = "asking"
    BY <1>0, <1>4 DEF Typed, Asked
  <2> QED BY <1>1, <2>1 DEF Asked
<1>5. CASE host \notin Up \/ Sent(host) = Torn
  <2>1. End({j}) /\ UNCHANGED <<object, local, file, turn, length>>
    BY <1>5, <1>h DEF JoinToCluster, memory
  <2>2. /\ \A m \in Node : (phase'[m] # "ended" => phase'[m] = phase[m]) /\ (phase[m] # "out" => phase'[m] # "out")
        /\ Up' \subseteq Up /\ phase' \in [Node -> {"out", "asking", "telling", "in", "ended"}]
    BY <1>0, <2>1, Ends
  <2>3. Typed'
    BY <1>0, <1>1, <2>1, <2>2 DEF Typed
  <2>4. \A m \in Node : SameNode(m)
    BY <1>0, <1>1, <2>1, <2>2 DEF SameNode
  <2>5. Good(j)'
    BY <1>0, <2>1, <2>3, <2>4, SameGood
  <2>6. KeepContacts
    <3>1. Stranger \subseteq Node
      BY ClusterAssumption
    <3> QED BY <1>0, <2>1, <2>2, <3>1 DEF KeepContacts
  <2>7. AsksKept
    BY <1>4, <2>2
  <2>8. Grows(j)
    BY <2>1 DEF Grows, LocalNode
  <2> QED BY <1>0, <2>2, <2>3, <2>4, <2>5, <2>6, <2>7, <2>8, Step
<1>6. CASE host \in Up /\ Sent(host) # Torn
  <2>f. PICK l : l = file[host]
    OBVIOUS
  <2>1. /\ l \in List /\ l # Torn /\ l # None /\ Checked(l)
    BY <1>0, <1>6, <2>f, ClusterAssumption DEF Sent, Good, Typed
  <2>2. /\ file' = [file EXCEPT ![j] = l] /\ object' = [object EXCEPT ![j]["start"] = l]
        /\ local' = [local EXCEPT ![j] = "start"] /\ turn' = [turn EXCEPT ![j] = 1]
        /\ length' = [length EXCEPT ![j] = Len(l.nodes)] /\ phase' = [phase EXCEPT ![j] = "telling"]
        /\ "start" \in Tag
    BY <1>6, <1>h, <2>f DEF JoinToCluster, Sent, Tag
  <2>3. /\ file' \in [Node -> List \cup {None, Torn}] /\ file'[j] = l
        /\ object' \in [Node -> [Tag -> List]] /\ local' \in [Node -> Tag] /\ local'[j] = "start"
        /\ object'[j]["start"] = l /\ \A t \in Tag \ {"start"} : object'[j][t] = object[j][t]
        /\ \A m \in Node \ {j} : file'[m] = file[m] /\ object'[m] = object[m] /\ local'[m] = local[m]
    BY <1>0, <2>1, <2>2 DEF Typed
  <2>4. /\ phase' \in [Node -> {"out", "asking", "telling", "in", "ended"}] /\ phase'[j] = "telling"
        /\ \A m \in Node \ {j} : phase'[m] = phase[m]
    BY <1>0, <2>2 DEF Typed
  <2>5. turn' \in [Node -> Nat] /\ length' \in [Node -> Nat]
    <3>1. Len(l.nodes) \in Nat
      BY <2>1, ListIs
    <3> QED BY <1>0, <2>2, <3>1 DEF Typed
  <2>6. Typed'
    BY <1>0, <1>1, <2>3, <2>4, <2>5 DEF Typed
  <2>7. \A m \in Node \ {j} : SameNode(m)
    BY <1>0, <1>1, <2>3, <2>4 DEF SameNode, Up
  <2>8. Good(j)'
    <3>1. LocalNode(j)' = l
      BY <2>3 DEF LocalNode
    <3>2. \A k \in Node : job'[j][k] \notin {"loaded", "writing"}
      BY <1>0, <1>1, <1>2 DEF Busy
    <3>3. Busy(j)' = {} /\ Writing(j)' = {}
      BY <3>2 DEF Busy, Writing
    <3>4. OneByOne(j)'
      BY <2>3, <3>1, <3>2, <3>3 DEF OneByOne
    <3>5. \A t \in Tag : Checked(object'[j][t])
      BY <1>0, <2>1, <2>3 DEF Good
    <3>6. \A k \in Stranger : job'[j][k] # "loaded"
      BY <3>2, ClusterAssumption
    <3> QED BY <1>0, <2>1, <2>3, <2>4, <3>4, <3>5, <3>6 DEF Good
  <2>9. KeepContacts
    <3>1. Stranger \subseteq Node /\ j \notin Stranger
      BY <1>0, ClusterAssumption DEF IInv, Contacts
    <3> QED BY <1>0, <2>4, <3>1 DEF KeepContacts
  <2>10. AsksKept
    BY <1>4, <2>4
  <2>11. Grows(j)
    BY <1>3 DEF Grows
  <2>12. Enters(j)
    <3>1. phase[j] # "out" /\ contact[j] \in Up
      BY <1>0, <1>6, <1>h
    <3>2. ASSUME contact[j] \in Calm PROVE Added(j) /\ LocalNode(j)' = LocalNode(contact[j])
      <4>1. Added(j)
        BY <1>0, <3>2 DEF IInv, AddedFirst
      <4>2. OneByOne(host)
        BY <1>0, <1>6, <1>h, <3>2 DEF Good, Calm
      <4>3. Writing(host) = {}
        BY <1>6, <4>2 DEF OneByOne, Sent
      <4>4. l = LocalNode(host)
        BY <2>f, <4>2, <4>3 DEF OneByOne
      <4>5. LocalNode(j)' = l
        BY <2>3 DEF LocalNode
      <4> QED BY <1>h, <4>1, <4>4, <4>5
    <3>3. ASSUME Keyed(contact[j]) PROVE Keyed(j)'
      <4>1. l.key
        BY <1>h, <2>1, <2>f, <3>3 DEF Keyed
      <4>2. \A k \in Node : job'[j][k] \notin {"loaded", "writing"}
        BY <1>0, <1>1, <1>2 DEF Busy
      <4> QED BY <2>3, <4>1, <4>2 DEF Keyed, LocalNode
    <3> QED BY <3>1, <3>2, <3>3 DEF Enters
  <2> QED BY <1>0, <2>6, <2>7, <2>8, <2>9, <2>10, <2>11, <2>12, Step
<1> QED BY <1>5, <1>6

\* The last call of BroadCast has returned; and BroadCast has.
LEMMA TellingKeeps ==
  ASSUME IInv, NEW j \in Node, Told(j) \/ Joined(j)
  PROVE  IInv'
<1>0. /\ Typed /\ Good(j) /\ phase[j] = "telling" /\ j \in Up
      /\ UNCHANGED <<object, local, file, encoded, crossed, contact, updating, restarts>>
      /\ \A m \in Node : phase[contact[m]] # "out"
  BY DEF IInv, Told, Joined, BroadCast, memory, handling, joining, Up, Contacts
<1>1. /\ job' \in [Node -> [Node -> {"none", "loaded", "writing", "done"}]]
      /\ \A m, k \in Node : job'[m][k] = job[m][k] \/ (job[m][k] = "done" /\ job'[m][k] = "none")
  <2>1. CASE Joined(j)
    BY <1>0, <2>1 DEF Joined, handling, Typed
  <2>2. CASE Told(j)
    <3>1. PICK n \in Node : job[n][j] = "done" /\ job' = [job EXCEPT ![n][j] = "none"]
      BY <2>2 DEF Told
    <3> QED BY <1>0, <3>1 DEF Typed
  <2> QED BY <2>1, <2>2
<1>2. /\ phase' \in [Node -> {"out", "asking", "telling", "in", "ended"}] /\ phase'[j] \in {"telling", "in"}
      /\ \A m \in Node \ {j} : phase'[m] = phase[m]
  <2>1. CASE Joined(j)
    BY <1>0, <2>1 DEF Joined, Typed
  <2>2. CASE Told(j)
    BY <1>0, <2>2 DEF Told, joining, Typed
  <2> QED BY <2>1, <2>2
<1>3. turn' \in [Node -> Nat] /\ length' \in [Node -> Nat]
  <2>1. CASE Joined(j)
    BY <1>0, <2>1 DEF Joined, Typed
  <2>2. CASE Told(j)
    BY <1>0, <2>2 DEF Told, joining, Typed
  <2> QED BY <2>1, <2>2
<1>4. Typed'
  BY <1>0, <1>1, <1>2, <1>3 DEF Typed
<1>5. \A m \in Node : SameNode(m)
  BY <1>0, <1>1, <1>2 DEF SameNode, Up
<1>6. Good(j)'
  BY <1>0, <1>4, <1>5, SameGood
<1>7. KeepContacts
  <2>1. Stranger \subseteq Node /\ j \notin Stranger
    BY <1>0, ClusterAssumption DEF IInv, Contacts
  <2> QED BY <1>0, <1>2, <2>1 DEF KeepContacts
<1>8. AsksKept
  <2> SUFFICES ASSUME NEW i \in Node, Asked(i)' PROVE Asked(i)
    BY <1>0 DEF AsksKept
  <2>1. contact[i] \in Node /\ contact'[i] = contact[i] /\ phase'[i] = "asking" /\ phase[i] = "asking"
    BY <1>0, <1>2 DEF Typed, Asked
  <2> QED BY <1>1, <2>1 DEF Asked
<1>9. Grows(j) /\ (Keyed(j) => Keyed(j)')
  <2>1. Grows(j)
    BY <1>0 DEF Grows, LocalNode
  <2> QED BY <1>0, <1>1, <2>1 DEF Keyed, LocalNode
<1> QED BY <1>0, <1>4, <1>5, <1>6, <1>7, <1>8, <1>9, Step

-----------------------------------------------------------------------------
(* The theorems.                                                               *)

\* The founder's cluster satisfies the invariant (Init, SaveClusterFile).
LEMMA InitHolds == Init => IInv
<1> SUFFICES ASSUME Init PROVE IInv
  OBVIOUS
<1>e. /\ Empty \in List /\ Checked(Empty) /\ Created \in List /\ Checked(Created)
      /\ Empty.nodes = << >> /\ Created.nodes = <<Founder>> /\ Created.key
      /\ Elements(<<Founder>>) = {Founder}
  <2>1. << >> \in Seq(Node) /\ Elements(<< >>) = {} /\ <<Founder>> \in Seq(Node)
    BY ClusterAssumption DEF Elements
  <2>2. Elements(<<Founder>>) = {Founder}
    <3>1. DOMAIN <<Founder>> = {1}
      OBVIOUS
    <3> QED BY <3>1 DEF Elements
  <2> QED BY <2>1, <2>2, ClusterAssumption DEF List, Empty, Created, Checked
<1>1. Founder \in Node /\ Stranger \subseteq Node \ {Founder} /\ MaxRestarts \in Nat /\ "start" \in Tag
  BY ClusterAssumption DEF Tag
<1>2. Typed
  BY <1>1, <1>e DEF Init, Typed
<1>3. /\ \A n \in Node : Busy(n) = {} /\ Writing(n) = {}
      /\ \A n \in Node : LocalNode(n) = IF n = Founder THEN Created ELSE Empty
      /\ Up = {Founder}
  BY <1>1 DEF Init, Busy, Writing, LocalNode, Up
<1>4. \A n \in Node : Good(n)
  <2> SUFFICES ASSUME NEW n \in Node PROVE Good(n)
    OBVIOUS
  <2>1. n \in Up => OneByOne(n) /\ file[n] # None /\ file[n] # Torn
    <3> SUFFICES ASSUME n = Founder PROVE OneByOne(n) /\ file[n] # None /\ file[n] # Torn
      BY <1>3
    <3>1. file[n] = Created
      BY DEF Init
    <3> QED BY <1>3, <1>e, <3>1, ClusterAssumption DEF OneByOne, Init
  <2>2. \A t \in Tag : Checked(object[n][t])
    BY <1>e DEF Init
  <2>3. \A j \in Node : Checked(encoded[n][j]) /\ job[n][j] = "none"
    BY <1>e DEF Init
  <2>4. file[n] \in List => Checked(file[n])
    BY <1>e, ClusterAssumption DEF Init
  <2>5. phase[n] \in {"out", "asking"} => Busy(n) = {} /\ LocalNode(n) = Empty
    BY <1>3 DEF Init
  <2>6. local[n] # "tick"
    BY DEF Init
  <2> QED BY <1>1, <1>3, <2>1, <2>2, <2>3, <2>4, <2>5, <2>6 DEF Good
<1>5. Contacts
  BY <1>1 DEF Init, Contacts
<1>6. AddedFirst
  BY <1>1 DEF Init, AddedFirst, Asked
<1>7. KeptByContact
  BY <1>3 DEF KeptByContact
<1>8. JoinerKnows
  <2> SUFFICES Path(Founder) \subseteq Elements(LocalNode(Founder).nodes)
    BY <1>3 DEF JoinerKnows
  <2>1. PathIn(contact, Founder) \subseteq {Founder}
    <3>1. contact[Founder] = Founder
      BY <1>1 DEF Init
    <3> QED BY <1>1, <3>1, PathLeast
  <2> QED BY <1>1, <1>3, <1>e, <2>1, PathIs
<1>9. AllKeyed
  <2> SUFFICES Keyed(Founder)
    BY <1>3 DEF AllKeyed
  <2> QED BY <1>1, <1>3, <1>e DEF Keyed, Init
<1> QED BY <1>2, <1>4, <1>5, <1>6, <1>7, <1>8, <1>9 DEF IInv

\* So does a step that changes nothing.
LEMMA SameVars == ASSUME IInv, UNCHANGED vars PROVE IInv'
<1>0. /\ Typed' /\ \A m \in Node : SameNode(m)
      /\ UNCHANGED <<object, local, file, job, encoded, crossed, phase, contact, turn, length, updating, restarts>>
  BY DEF IInv, Typed, SameNode, Up, vars, memory, handling, joining
<1>1. Founder \in Node /\ (Founder \in Up' => Founder \in Up)
  BY <1>0, ClusterAssumption DEF Up
<1>2. Good(Founder)'
  BY <1>0, <1>1, SameGood DEF IInv
<1>3. KeepContacts /\ AsksKept
  BY <1>0 DEF KeepContacts, AsksKept, Asked, IInv, Contacts
<1>4. Grows(Founder) /\ (Keyed(Founder) => Keyed(Founder)')
  BY <1>0 DEF Grows, LocalNode, Keyed
<1> QED BY <1>0, <1>1, <1>2, <1>3, <1>4, Step

\* The strengthened invariant of the cluster list holds of every behaviour.
THEOREM Invariance == Spec => []IInv
<1>1. Init => IInv
  BY InitHolds
<1>2. IInv /\ [Next]_vars => IInv'
  <2> SUFFICES ASSUME IInv, [Next]_vars PROVE IInv'
    OBVIOUS
  <2>1. CASE UNCHANGED vars
    BY <2>1, SameVars
  <2>2. ASSUME NEW n \in Node, Enter(n) PROVE IInv'
    <3>1. CASE JoinToCluster(n)
      BY <3>1, JoinToClusterKeeps
    <3>2. CASE \E i \in Rest(n) : BroadcastNode(n, i)
      BY <3>2, BroadcastNodeKeeps
    <3>3. CASE Told(n) \/ Joined(n)
      BY <3>3, TellingKeeps
    <3> QED BY <2>2, <3>1, <3>2, <3>3 DEF Enter
  <2>3. ASSUME NEW n \in Node, UpdateClusterFile(n) PROVE IInv'
    BY <2>3, UpdateClusterFileKeeps
  <2>4. ASSUME NEW n \in Node, Restart(n) PROVE IInv'
    BY <2>4, RestartKeeps
  <2>5. ASSUME NEW n \in Node, NEW j \in Node, Serve(n, j) PROVE IInv'
    BY <2>5, LoadKeeps, JoinClusterKeeps, WrittenKeeps DEF Serve
  <2> QED BY <2>1, <2>2, <2>3, <2>4, <2>5 DEF Next
<1> QED BY <1>1, <1>2, PTL DEF Spec

\* Types, the check of the key, and the file that holds what LocalNode points to between
\* two handlers (JoinCluster, BroadcastNode, SaveClusterFile).
THEOREM ListsAreSound == Spec => []Inv
<1>1. IInv => Inv
  BY IInvShows
<1> QED BY <1>1, Invariance, PTL

\* Who has joined stays in the list of the node it came through (JoinCluster).
THEOREM ContactsKeepTheirs == Spec => []KeptByContact
<1>1. IInv => KeptByContact
  BY IInvShows
<1> QED BY <1>1, Invariance, PTL

\* A joiner knows everyone on the path it came by (JoinToCluster).
THEOREM JoinersKnowTheirPath == Spec => []JoinerKnows
<1>1. IInv => JoinerKnows
  BY IInvShows
<1> QED BY <1>1, Invariance, PTL

\* The key is lost only through UpdateClusterFile (LoadClusterFile, SaveClusterFile).
THEOREM KeyIsKept == Spec => []KeyKept
<1>1. IInv => KeyKept
  BY IInvShows
<1> QED BY <1>1, Invariance, PTL
=============================================================================
