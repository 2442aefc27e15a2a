---------------------------- MODULE NodeTree_proof ----------------------------
(***************************************************************************)
(* The tree of nodes: no name twice in a directory, for any number of      *)
(* threads; and, one hook at a time, no way to a freed node, one node for  *)
(* an inode, and the file that was asked for.                              *)
(***************************************************************************)
EXTENDS NodeTree, FiniteSetTheorems, SequenceTheorems, WellFoundedInduction, TLAPS

N == 1 .. Len(nodes)

-----------------------------------------------------------------------------
(* What the tree and the calls are made of, for any number of threads.     *)

Making(t) == pc[t] \in {"count", "append"}
Pending == {t \in Threads : pc[t] = "count"}

VMWNode == [name : Names \cup {""}, parent : Nat, inode : Nat]

\* Every node but the root has an older one for a parent, every list is made of nodes,
\* and only a node that was made has one.
Shape ==
  /\ nodes \in Seq(VMWNode)
  /\ Root \in N /\ Len(nodes) <= MaxNodes
  /\ nodes[Root].parent = None
  /\ \A n \in N \ {Root} : nodes[n].parent \in 1 .. n - 1
  /\ children \in [1 .. MaxNodes -> Seq(N)]
  /\ \A n \in (1 .. MaxNodes) \ N : children[n] = <<>>
  /\ freed \subseteq N

\* The counter and the inodes, a thread between the two halves of counting included.
Counting ==
  /\ sCurrentInode \in Nat /\ sCurrentInode >= 3
  /\ sCurrentInode + Cardinality(Pending) <= Len(nodes) + 2
  /\ \A n \in N : nodes[n].inode \in 2 .. n + 1
  /\ \A t \in Pending : nodes[node[t]].inode + Cardinality(Pending) <= Len(nodes) + 2
                        /\ nodes[node[t]].inode >= 3

Kinds(h) == \A p \in DOMAIN h : h[p] \in {"file", "dir"}

Outside ==
  /\ \A i \in DOMAIN vnodes : vnodes[i] \in [node : N, kind : {"file", "dir"}]
  /\ Kinds(host)

Adding(t) == pc[t] \in {"new", "count", "append"}

Calling ==
  /\ pc \in [Threads -> {"idle", "rpc", "scan", "new", "count", "append", "get", "delete"}]
  /\ call \in [Threads -> [hook : AllHooks \cup {"none"}, dir : N \cup {None},
                           name : Names \cup {"", ".."}, to : N \cup {None},
                           toName : Names \cup {"", ".."}]]
  /\ item \in [Threads -> N \cup {None}]
  /\ node \in [Threads -> N \cup {None}]

\* What a hook was called with.
Arguments ==
  \A t \in Threads : pc[t] # "idle" =>
    /\ call[t].dir \in N
    /\ call[t].name \in Names \cup {".."}
    /\ call[t].name = ".." => call[t].dir # Root /\ ~ Adding(t)
    /\ pc[t] = "get" => node[t] \in N

\* A node being made is in no list yet, and only its thread knows it.
Fresh ==
  \A t \in Threads : Making(t) =>
    /\ node[t] \in N
    /\ nodes[node[t]].name = call[t].name /\ nodes[node[t]].parent = call[t].dir
    /\ \A d \in 1 .. MaxNodes : \A k \in DOMAIN children[d] : children[d][k] # node[t]
    /\ \A u \in Threads : item[u] # node[t]
    /\ \A u \in Threads \ {t} : Making(u) => node[u] # node[t]

\* Up to the item that a thread saw last, there is nothing of the name it adds.
Searched ==
  \A t \in Threads : Adding(t) =>
    LET list == children[call[t].dir]
    IN  \A k \in DOMAIN list : list[k] = item[t] =>
          \A j \in 1 .. k : nodes[list[j]].name # call[t].name

IInv ==
  /\ Shape /\ Counting /\ Outside /\ Calling /\ Arguments /\ Fresh /\ Searched
  /\ SiblingNamesUnique

-----------------------------------------------------------------------------
(* Lists.                                                                  *)

\* A set of places in a list has a first one.
LEMMA LeastOf ==
  ASSUME NEW S \in SUBSET Nat, S # {}
  PROVE  \E k \in S : \A l \in S : k <= l
  <1>1. PICK k \in S : \A l \in S : ~ (<<l, k>> \in OpToRel(<, Nat))
    BY WFMin, NatLessThanWellFounded
  <1>2. \A l \in S : ~ (l < k)
    BY <1>1, Zenon DEF OpToRel
  <1>3. \A l \in S : k <= l
    BY <1>2
  <1> QED BY <1>3

\* A search misses a name only if nothing has it.
LEMMA FirstOfNamed ==
  ASSUME NEW S, NEW d, children[d] \in Seq(S), NEW name, First(d, name) = {}
  PROVE  Named(d, name) = {}
  <1>1. Named(d, name) \subseteq Nat
    BY DEF Named
  <1> QED BY <1>1, LeastOf DEF First

LEMMA FirstIsNamed ==
  ASSUME NEW d, NEW name, NEW k \in First(d, name)
  PROVE  k \in DOMAIN children[d] /\ nodes[children[d][k]].name = name
  BY DEF First, Named

\* A list without the item at place k.
LEMMA Removed ==
  ASSUME NEW S, NEW s \in Seq(S), NEW k \in DOMAIN s
  PROVE  /\ RemoveAt(s, k) \in Seq(S)
         /\ Len(RemoveAt(s, k)) = Len(s) - 1
         /\ \A j \in 1 .. Len(s) - 1 : RemoveAt(s, k)[j] = IF j < k THEN s[j] ELSE s[j + 1]
  <1> DEFINE a == SubSeq(s, 1, k - 1)
             b == SubSeq(s, k + 1, Len(s))
  <1>1. /\ a \in Seq(S) /\ Len(a) = k - 1
        /\ \A j \in 1 .. k - 1 : a[j] = s[j]
    BY SubSeqProperties
  <1>2. /\ b \in Seq(S) /\ Len(b) = Len(s) - k
        /\ \A j \in 1 .. Len(s) - k : b[j] = s[j + k]
    BY SubSeqProperties
  <1>3. Len(s) \in Nat /\ k \in 1 .. Len(s)
    BY LenProperties
  <1>4. RemoveAt(s, k) = a \o b
    BY DEF RemoveAt
  <1> HIDE DEF a, b
  <1>5. /\ a \o b \in Seq(S) /\ Len(a \o b) = Len(a) + Len(b)
        /\ \A j \in 1 .. Len(a) + Len(b) : (a \o b)[j] = IF j <= Len(a) THEN a[j] ELSE b[j - Len(a)]
    BY <1>1, <1>2, ConcatProperties
  <1>6. ASSUME NEW j \in 1 .. Len(s) - 1
        PROVE  (a \o b)[j] = IF j < k THEN s[j] ELSE s[j + 1]
    <2>1. CASE j < k
      BY <1>1, <1>2, <1>3, <1>5, <2>1
    <2>2. CASE ~ (j < k)
      <3>1. j - (k - 1) \in 1 .. Len(s) - k /\ (j - (k - 1)) + k = j + 1
        BY <1>3, <2>2
      <3>2. (a \o b)[j] = b[j - (k - 1)]
        <4>1. j \in 1 .. Len(a) + Len(b) /\ ~ (j <= Len(a)) /\ j - Len(a) = j - (k - 1)
          BY <1>1, <1>2, <1>3, <2>2
        <4> QED BY <1>5, <4>1
      <3> QED BY <1>2, <2>2, <3>1, <3>2
    <2> QED BY <2>1, <2>2
  <1> QED BY <1>1, <1>2, <1>3, <1>4, <1>5, <1>6

\* A list that ends at place k, with one more item.
LEMMA CutAndAppended ==
  ASSUME NEW S, NEW s \in Seq(S), NEW k \in DOMAIN s, NEW x \in S
  PROVE  LET r == Append(SubSeq(s, 1, k), x)
         IN  /\ r \in Seq(S)
             /\ Len(r) = k + 1
             /\ \A j \in 1 .. k : r[j] = s[j]
             /\ r[k + 1] = x
  <1>1. /\ SubSeq(s, 1, k) \in Seq(S) /\ Len(SubSeq(s, 1, k)) = k
        /\ \A j \in 1 .. k : SubSeq(s, 1, k)[j] = s[j]
    BY SubSeqProperties
  <1> QED BY <1>1, AppendProperties

-----------------------------------------------------------------------------
(* What a step does.                                                       *)

TreeStays == UNCHANGED <<nodes, children, freed>>

LEMMA StepOfTree ==
  ASSUME NEW t \in Threads, Step(t)
  PROVE  TreeStays \/ NewNode(t) \/ AppendChild(t) \/ DeleteChildIfExists(t)
  BY DEF Step, TreeStays, tree, Begin, HostDoes, HostRefuses, FindChild, MissChild, NewInode,
         GetKnownVnode, GetNewVnode, GetNoVnode

\* A thread changes nothing of another's.
LEMMA OthersStay ==
  ASSUME Calling, NEW t \in Threads, Step(t), NEW u \in Threads, u # t
  PROVE  pc'[u] = pc[u] /\ call'[u] = call[u] /\ item'[u] = item[u] /\ node'[u] = node[u]
  <1> USE DEF Calling, Go, Return, GotChild
  <1>1. CASE Begin(t)
    BY <1>1 DEF Begin
  <1>2. CASE HostDoes(t) \/ HostRefuses(t)
    BY <1>2 DEF HostDoes, HostRefuses
  <1>3. CASE FindChild(t) \/ MissChild(t)
    BY <1>3 DEF FindChild, MissChild
  <1>4. CASE NewNode(t) \/ NewInode(t)
    BY <1>4 DEF NewNode, NewInode
  <1>5. CASE AppendChild(t)
    BY <1>5 DEF AppendChild
  <1>6. CASE GetKnownVnode(t) \/ GetNewVnode(t) \/ GetNoVnode(t)
    BY <1>6 DEF GetKnownVnode, GetNewVnode, GetNoVnode
  <1>7. CASE DeleteChildIfExists(t)
    BY <1>7 DEF DeleteChildIfExists
  <1> QED BY <1>1, <1>2, <1>3, <1>4, <1>5, <1>6, <1>7 DEF Step

\* How a thread comes to the places of a search that found nothing.
Places(t) ==
  /\ pc'[t] = "new" => MissChild(t)
  /\ pc'[t] = "count" => NewNode(t)
  /\ pc'[t] = "append" => NewInode(t)
  /\ MissChild(t) \/ item'[t] \in {item[t], None}
  /\ \/ pc'[t] = "idle"
     \/ Begin(t)
     \/ pc[t] # "idle" /\ call'[t] = call[t]

LEMMA StepOfPlaces ==
  ASSUME Calling, NEW t \in Threads, Step(t)
  PROVE  Places(t)
  <1> USE DEF Calling, Go, Return, GotChild, Places
  <1>1. CASE Begin(t)
    BY <1>1 DEF Begin
  <1>2. CASE HostDoes(t)
    BY <1>2 DEF HostDoes
  <1>3. CASE HostRefuses(t)
    BY <1>3 DEF HostRefuses
  <1>4. CASE FindChild(t)
    BY <1>4 DEF FindChild
  <1>5. CASE MissChild(t)
    BY <1>5 DEF MissChild
  <1>6. CASE NewNode(t)
    BY <1>6 DEF NewNode
  <1>7. CASE NewInode(t)
    BY <1>7 DEF NewInode
  <1>8. CASE AppendChild(t)
    BY <1>8 DEF AppendChild
  <1>9. CASE GetKnownVnode(t) \/ GetNewVnode(t) \/ GetNoVnode(t) \/ DeleteChildIfExists(t)
    BY <1>9 DEF GetKnownVnode, GetNewVnode, GetNoVnode, DeleteChildIfExists
  <1> QED BY <1>1, <1>2, <1>3, <1>4, <1>5, <1>6, <1>7, <1>8, <1>9 DEF Step

\* A step of the VFS or on the host changes nothing of the threads or the tree.
LEMMA StepOutside ==
  ASSUME PutVnode \/ HostMakes \/ HostRemoves
  PROVE  TreeStays /\ UNCHANGED <<sCurrentInode, thread>>
  BY DEF PutVnode, HostMakes, HostRemoves, TreeStays, tree

-----------------------------------------------------------------------------
(* The lists and the nodes after a step.                                   *)

LEMMA NodesCount == Shape => Len(nodes) \in Nat /\ \A n \in N : n \in Nat /\ n \in 1 .. MaxNodes
  <1>1. Shape => Len(nodes) \in Nat /\ Len(nodes) <= MaxNodes
    BY LenProperties DEF Shape
  <1> QED BY <1>1, BoundsAssumption DEF N

LEMMA ListOf ==
  ASSUME Shape, NEW d \in 1 .. MaxNodes
  PROVE  /\ children[d] \in Seq(N)
         /\ DOMAIN children[d] = 1 .. Len(children[d]) /\ Len(children[d]) \in Nat
         /\ \A k \in DOMAIN children[d] : children[d][k] \in N
  <1>1. children[d] \in Seq(N)
    BY DEF Shape
  <1> QED BY <1>1, LenProperties, ElementOfSeq

LEMMA ChildIsNode ==
  ASSUME Shape, NEW d \in N, NEW name, name = ".." => d # Root, NEW n \in Child(d, name)
  PROVE  n \in N
  <1>1. CASE name = ".."
    <2>1. n = nodes[d].parent /\ d \in N \ {Root}
      BY <1>1 DEF Child
    <2>2. n \in 1 .. d - 1
      BY <2>1 DEF Shape
    <2> QED BY <2>1, <2>2, NodesCount DEF N
  <1>2. CASE name # ".."
    <2>1. PICK k \in First(d, name) : n = children[d][k]
      BY <1>2 DEF Child
    <2> QED BY <2>1, FirstIsNamed, ListOf, NodesCount
  <1> QED BY <1>1, <1>2

\* The new list is the old one up to a place, then the new node; nothing that a search
\* that found nothing has not seen is before it.
Appended(old, new, n, last) ==
  \/ new = old /\ last # None /\ ~ Contains(old, last)
  \/ \E c \in 0 .. Len(old) :
       /\ Len(new) = c + 1
       /\ \A j \in 1 .. c : new[j] = old[j]
       /\ new[c + 1] = n
       /\ IF c = 0 THEN last = None ELSE old[c] = last

LEMMA ListAppended ==
  ASSUME Shape, Calling, Arguments, Fresh, NEW t \in Threads, AppendChild(t)
  PROVE  \E new \in Seq(N) :
           /\ children' = [children EXCEPT ![call[t].dir] = new]
           /\ Appended(children[call[t].dir], new, node[t], item[t])
  <1> DEFINE d == call[t].dir
             old == children[d]
  <1>1. pc[t] = "append" /\ d \in N /\ node[t] \in N
    BY DEF AppendChild, GotChild, Return, Go, Arguments, Fresh, Making
  <1>2. /\ d \in 1 .. MaxNodes /\ old \in Seq(N) /\ DOMAIN old = 1 .. Len(old)
        /\ Len(old) \in Nat
    BY <1>1, ListOf, NodesCount
  <1>3. CASE item[t] = None
    <2>1. children' = [children EXCEPT ![d] = <<node[t]>>]
      BY <1>3 DEF AppendChild
    <2>2. <<node[t]>> \in Seq(N) /\ Len(<<node[t]>>) = 1 /\ <<node[t]>>[1] = node[t]
      BY <1>1
    <2>3. Appended(old, <<node[t]>>, node[t], item[t])
      BY <1>2, <1>3, <2>2 DEF Appended
    <2> QED BY <2>1, <2>2, <2>3
  <1>4. CASE item[t] # None /\ Contains(old, item[t])
    <2> DEFINE c == CHOOSE k \in DOMAIN old : old[k] = item[t]
               new == Append(SubSeq(old, 1, c), node[t])
    <2>1. \E k \in DOMAIN old : old[k] = item[t]
      BY <1>2, <1>4 DEF Contains
    <2>2. c \in DOMAIN old /\ old[c] = item[t]
      BY <2>1
    <2>3. children' = [children EXCEPT ![d] = new]
      BY <1>4 DEF AppendChild
    <2> HIDE DEF c
    <2>4. /\ new \in Seq(N) /\ Len(new) = c + 1 /\ new[c + 1] = node[t]
          /\ \A j \in 1 .. c : new[j] = old[j]
      BY <1>1, <1>2, <2>2, CutAndAppended
    <2> HIDE DEF new
    <2>5. Appended(old, new, node[t], item[t])
      BY <1>2, <2>2, <2>4 DEF Appended
    <2> QED BY <2>3, <2>4, <2>5
  <1>5. CASE item[t] # None /\ ~ Contains(old, item[t])
    <2>1. children' = [children EXCEPT ![d] = old]
      BY <1>5 DEF AppendChild
    <2>2. Appended(old, old, node[t], item[t])
      BY <1>5 DEF Appended
    <2> QED BY <1>2, <2>1, <2>2
  <1> QED BY <1>3, <1>4, <1>5

\* A new list is the old one without a place.
Cut(old, new, k) ==
  /\ Len(new) = Len(old) - 1
  /\ \A j \in 1 .. Len(old) - 1 : new[j] = IF j < k THEN old[j] ELSE old[j + 1]

LEMMA ListCut ==
  ASSUME Shape, Arguments, NEW t \in Threads, DeleteChildIfExists(t)
  PROVE  /\ call[t].dir \in N
         /\ \/ TreeStays
            \/ /\ UNCHANGED nodes
               /\ \E k \in First(call[t].dir, call[t].name), new \in Seq(N) :
                    /\ children' = [children EXCEPT ![call[t].dir] = new]
                    /\ Cut(children[call[t].dir], new, k)
                    /\ freed' = freed \cup Below(children[call[t].dir][k])
  <1> DEFINE d == call[t].dir
  <1>1. pc[t] = "delete" /\ d \in N
    BY DEF DeleteChildIfExists, Return, Go, Arguments
  <1>2. CASE TreeStays
    BY <1>1, <1>2
  <1>3. CASE ~ TreeStays
    <2>1. PICK k \in First(d, call[t].name) :
            /\ children' = [children EXCEPT ![d] = RemoveAt(children[d], k)]
            /\ freed' = freed \cup Below(children[d][k])
      BY <1>3 DEF DeleteChildIfExists, TreeStays
    <2>2. k \in DOMAIN children[d] /\ children[d] \in Seq(N)
      BY <1>1, ListOf, NodesCount, FirstIsNamed
    <2>3. RemoveAt(children[d], k) \in Seq(N) /\ Cut(children[d], RemoveAt(children[d], k), k)
      BY <2>2, Removed DEF Cut
    <2>4. UNCHANGED nodes
      BY DEF DeleteChildIfExists
    <2> QED BY <1>1, <2>1, <2>3, <2>4
  <1> QED BY <1>2, <1>3

\* The nodes after one is made.
LEMMA NodeAppended ==
  ASSUME Shape, Calling, Arguments, Counting, NEW t \in Threads, NewNode(t)
  PROVE  /\ pc[t] = "new" /\ node'[t] = Len(nodes) + 1
         /\ Len(nodes') = Len(nodes) + 1 /\ N' = N \cup {Len(nodes) + 1}
         /\ Len(nodes) + 1 \notin N /\ Len(nodes) \in Nat /\ Len(nodes) < MaxNodes
         /\ nodes' \in Seq(VMWNode)
         /\ \A n \in N : nodes'[n] = nodes[n]
         /\ nodes'[Len(nodes) + 1] = Node(call[t].name, call[t].dir, sCurrentInode)
         /\ call[t].dir \in N /\ call[t].name \in Names
  <1> DEFINE new == Node(call[t].name, call[t].dir, sCurrentInode)
  <1>1. /\ pc[t] = "new" /\ nodes' = Append(nodes, new) /\ Len(nodes) < MaxNodes
        /\ node'[t] = Len(nodes')
    BY DEF NewNode, Go, Calling
  <1>2. call[t].dir \in N /\ call[t].name \in Names
    BY <1>1 DEF Arguments, Adding
  <1>3. new \in VMWNode
    BY <1>2, NodesCount DEF Node, VMWNode, Counting
  <1>4. nodes \in Seq(VMWNode) /\ Len(nodes) \in Nat
    BY NodesCount DEF Shape
  <1> HIDE DEF new
  <1>5. /\ nodes' \in Seq(VMWNode) /\ Len(nodes') = Len(nodes) + 1
        /\ \A n \in 1 .. Len(nodes) : nodes'[n] = nodes[n]
        /\ nodes'[Len(nodes) + 1] = new
    BY <1>1, <1>3, <1>4, AppendProperties
  <1> QED BY <1>1, <1>2, <1>4, <1>5 DEF N, new

-----------------------------------------------------------------------------
(* The invariant for any number of threads.                                *)

LEMMA InitInvariant == Init => IInv
  <1> SUFFICES ASSUME Init PROVE IInv
    OBVIOUS
  <1> DEFINE root == Node("", None, 2)
  <1>1. nodes = <<root>> /\ root \in VMWNode /\ root.parent = None /\ root.inode = 2
    BY DEF Init, VMWNode, Node, None
  <1> HIDE DEF root
  <1>1a. nodes \in Seq(VMWNode) /\ Len(nodes) = 1 /\ N = {1} /\ nodes[1] = root
    BY <1>1 DEF N
  <1>1b. children \in [1 .. MaxNodes -> Seq(N)] /\ \A n \in 1 .. MaxNodes : children[n] = <<>>
    BY EmptySeq DEF Init
  <1>2. Shape
    <2>1. Root \in N /\ Len(nodes) <= MaxNodes /\ N \ {Root} = {}
      BY <1>1a, BoundsAssumption DEF Root
    <2>2. /\ nodes[Root].parent = None /\ freed \subseteq N
          /\ \A n \in (1 .. MaxNodes) \ N : children[n] = <<>>
      BY <1>1, <1>1a, <1>1b DEF Root, Init
    <2> QED BY <1>1a, <1>1b, <2>1, <2>2 DEF Shape
  <1>3. Pending = {}
    BY DEF Init, Pending
  <1>4. Counting
    <2>1. Cardinality(Pending) = 0 /\ sCurrentInode = 3
      BY <1>3, FS_EmptySet DEF Init
    <2>2. \A n \in N : n = 1 /\ nodes[n].inode = 2
      BY <1>1, <1>1a
    <2> QED BY <1>3, <1>1a, <2>1, <2>2 DEF Counting
  <1>5. Outside
    BY <1>1a DEF Init, Outside, Root, Kinds
  <1>6. Calling
    BY DEF Init, Calling, NoCall, None
  <1>7. Arguments /\ Fresh /\ Searched
    BY DEF Init, Arguments, Fresh, Searched, Making, Adding
  <1>8. SiblingNamesUnique
    BY <1>1a, <1>1b, BoundsAssumption DEF SiblingNamesUnique, N
  <1> QED BY <1>2, <1>4, <1>5, <1>6, <1>7, <1>8 DEF IInv

LEMMA ShapeStays == Shape /\ TreeStays => Shape'
  BY DEF Shape, TreeStays, N

LEMMA BelowAreNodes == \A n : Below(n) \subseteq N
  BY DEF Below, N

LEMMA ShapeStep ==
  ASSUME IInv, NEW t \in Threads, Step(t)
  PROVE  Shape'
  <1> USE DEF IInv
  <1>1. CASE TreeStays
    BY <1>1, ShapeStays
  <1>2. CASE NewNode(t)
    <2>1. UNCHANGED <<children, freed>>
      BY <1>2 DEF NewNode
    <2>2. nodes' \in Seq(VMWNode) /\ Len(nodes') <= MaxNodes /\ Root \in N'
      BY <1>2, NodeAppended, BoundsAssumption DEF Shape
    <2>3. nodes'[Root].parent = None
      BY <1>2, NodeAppended DEF Shape
    <2>4. ASSUME NEW n \in N', n # Root PROVE nodes'[n].parent \in 1 .. n - 1
      <3>1. CASE n \in N
        BY <1>2, <2>4, <3>1, NodeAppended DEF Shape
      <3>2. CASE n = Len(nodes) + 1
        <4>1. Node(call[t].name, call[t].dir, sCurrentInode).parent = call[t].dir
          BY DEF Node
        <4>2. nodes'[n].parent = call[t].dir /\ call[t].dir \in N
          BY <1>2, <3>2, <4>1, NodeAppended
        <4> QED BY <1>2, <3>2, <4>2, NodeAppended DEF N
      <3> QED BY <1>2, <3>1, <3>2, NodeAppended
    <2>5. children' \in [1 .. MaxNodes -> Seq(N')] /\ freed' \subseteq N'
      BY <1>2, <2>1, NodeAppended, SeqMonotonic DEF Shape
    <2>6. \A n \in (1 .. MaxNodes) \ N' : children'[n] = <<>>
      BY <1>2, <2>1, NodeAppended DEF Shape
    <2> QED BY <2>2, <2>3, <2>4, <2>5, <2>6 DEF Shape
  <1>3. CASE AppendChild(t)
    <2>1. UNCHANGED <<nodes, freed>>
      BY <1>3 DEF AppendChild
    <2>2. \E new \in Seq(N) : children' = [children EXCEPT ![call[t].dir] = new]
      BY <1>3, ListAppended
    <2>3. call[t].dir \in N
      BY <1>3 DEF AppendChild, GotChild, Return, Go, Arguments
    <2> QED BY <2>1, <2>2, <2>3 DEF Shape, N
  <1>4. CASE DeleteChildIfExists(t)
    <2>1. CASE TreeStays
      BY <2>1, ShapeStays
    <2>2. CASE ~ TreeStays
      <3>1. /\ UNCHANGED nodes
            /\ \E new \in Seq(N) : children' = [children EXCEPT ![call[t].dir] = new]
            /\ freed' \subseteq N /\ call[t].dir \in N
        BY <1>4, <2>2, ListCut, BelowAreNodes DEF Shape
      <3> QED BY <3>1 DEF Shape, N
    <2> QED BY <2>1, <2>2
  <1> QED BY <1>1, <1>2, <1>3, <1>4, StepOfTree

\* Begin, with its arguments.
Begins(t, hook, dir, to, name, toName) ==
  /\ name = ".." => hook = "lookup" /\ dir # Root
  /\ Len(CopyPathTo(dir, name)) <= MaxDepth
  /\ IF hook = "rename"
     THEN toName \in Names /\ Len(CopyPathTo(to, toName)) <= MaxDepth
     ELSE to = Root /\ toName = ".."
  /\ call' = [call EXCEPT ![t] = [hook |-> hook, dir |-> dir, name |-> name,
                                  to |-> to, toName |-> toName]]
  /\ Go(t, "idle", IF hook \in {"unlink", "rename"} THEN "scan" ELSE "rpc")

LEMMA CallingStep ==
  ASSUME IInv, NEW t \in Threads, Step(t)
  PROVE  Calling' /\ Arguments'
  <1> USE DEF IInv
  <1> DEFINE Place == {"idle", "rpc", "scan", "new", "count", "append", "get", "delete"}
             Call == [hook : AllHooks \cup {"none"}, dir : N \cup {None},
                      name : Names \cup {"", ".."}, to : N \cup {None},
                      toName : Names \cup {"", ".."}]
  <1>1. N \subseteq N'
    BY StepOfTree, NodeAppended DEF AppendChild, DeleteChildIfExists, TreeStays, N
  <1>2. /\ pc \in [Threads -> Place] /\ call \in [Threads -> Call]
        /\ item \in [Threads -> N \cup {None}] /\ node \in [Threads -> N \cup {None}]
    BY DEF Calling
  <1>3. NoCall \in Call
    BY DEF NoCall, None
  <1> DEFINE Fine ==
               /\ pc' \in [Threads -> Place] /\ call' \in [Threads -> Call]
               /\ item' \in [Threads -> N' \cup {None}] /\ node' \in [Threads -> N' \cup {None}]
             Arg(u) == pc'[u] # "idle" =>
                         /\ call'[u].dir \in N
                         /\ call'[u].name \in Names \cup {".."}
                         /\ call'[u].name = ".." => call'[u].dir # Root /\ ~ Adding(u)'
                         /\ pc'[u] = "get" => node'[u] \in N
  <1> HIDE DEF Call
  <1>4. ASSUME NEW f \in {"scan", "append"}, NEW n \in N, GotChild(t, f, n)
        PROVE  Fine /\ Arg(t)
    BY <1>1, <1>2, <1>3, <1>4 DEF GotChild, Return, Go, Adding, Arguments
  <1>5. ASSUME NEW f, Return(t, f) PROVE Fine /\ Arg(t)
    BY <1>1, <1>2, <1>3, <1>5 DEF Return, Go
  <1>6. Fine /\ Arg(t)
    <2>1. CASE Begin(t)
      <3>1. Dirs \subseteq N
        BY DEF Dirs, Outside, Range
      <3>2. PICK hook \in Hooks, dir \in Dirs, to \in Dirs, name \in Names \cup {".."},
                 toName \in Names \cup {".."} : Begins(t, hook, dir, to, name, toName)
        BY <2>1, Zenon DEF Begin, Begins
      <3> DEFINE c == [hook |-> hook, dir |-> dir, name |-> name, to |-> to, toName |-> toName]
      <3>3. c \in Call /\ c.dir = dir /\ c.name = name
        BY <3>1, HooksAssumption DEF Call
      <3> HIDE DEF c
      <3>4. call' = [call EXCEPT ![t] = c] /\ UNCHANGED <<item, node>>
        BY <2>1, <3>2 DEF c, Begin, Begins
      <3>5. /\ name = ".." => dir # Root
            /\ Go(t, "idle", "scan") \/ Go(t, "idle", "rpc")
        BY <3>2 DEF Begins
      <3> QED BY <1>1, <1>2, <3>1, <3>2, <3>3, <3>4, <3>5 DEF Go, Adding
    <2>2. CASE HostDoes(t)
      BY <1>1, <1>2, <1>5, <2>2 DEF HostDoes, Go, Adding, Arguments
    <2>3. CASE HostRefuses(t)
      BY <1>1, <1>2, <1>5, <2>3 DEF HostRefuses, Go, Adding, Arguments
    <2>4. CASE FindChild(t)
      <3>1. PICK n \in Child(call[t].dir, call[t].name) : GotChild(t, "scan", n)
        BY <2>4 DEF FindChild
      <3>2. n \in N
        BY <2>4, ChildIsNode DEF FindChild, Arguments
      <3> QED BY <1>4, <3>1, <3>2
    <2>5. CASE MissChild(t)
      <3>1. pc[t] = "scan" /\ call[t].dir \in N /\ call[t].name # ".."
        BY <2>5 DEF MissChild, Go, Child, Arguments
      <3>2. item'[t] \in N \cup {None}
        BY <1>2, <2>5, <3>1, ListOf, NodesCount DEF MissChild, Last
      <3>3. \E x \in N \cup {None} : item' = [item EXCEPT ![t] = x]
        BY <1>2, <2>5, <3>2 DEF MissChild
      <3> QED BY <1>1, <1>2, <2>5, <3>1, <3>3 DEF MissChild, Go, Arguments, Adding
    <2>6. CASE NewNode(t)
      BY <1>1, <1>2, <2>6, NodeAppended DEF NewNode, Go, Arguments, Adding
    <2>7. CASE NewInode(t)
      BY <1>1, <1>2, <2>7 DEF NewInode, Go, Arguments, Adding
    <2>8. CASE AppendChild(t)
      <3>1. GotChild(t, "append", node[t]) /\ node[t] \in N
        BY <2>8 DEF AppendChild, GotChild, Return, Go, Fresh, Making
      <3> QED BY <1>4, <3>1
    <2>9. CASE \/ GetKnownVnode(t) \/ GetNewVnode(t) \/ GetNoVnode(t)
               \/ DeleteChildIfExists(t)
      <3>1. Return(t, "get") \/ Return(t, "delete")
        BY <2>9 DEF GetKnownVnode, GetNewVnode, GetNoVnode, DeleteChildIfExists
      <3> QED BY <1>5, <3>1
    <2> QED BY <2>1, <2>2, <2>3, <2>4, <2>5, <2>6, <2>7, <2>8, <2>9 DEF Step
  <1>7. \A u \in Threads : Arg(u)
    <2> SUFFICES ASSUME NEW u \in Threads, u # t PROVE Arg(u)
      BY <1>6
    <2> QED BY <1>1, OthersStay DEF Arguments, Adding
  <1>8. Calling'
    <2>1. Call \subseteq Call'
      BY <1>1 DEF Call
    <2> QED BY <1>6, <2>1 DEF Calling, Call
  <1>9. Arguments'
    BY <1>1, <1>7 DEF Arguments
  <1> QED BY <1>8, <1>9

LEMMA PendingCount ==
  IsFiniteSet(Pending) /\ Cardinality(Pending) \in Nat
  BY ThreadsAssumption, FS_Subset, FS_CardinalityType DEF Pending

\* A step that leaves the thread's place out of or in "count".
LEMMA PendingStep ==
  ASSUME Calling, NEW t \in Threads, Step(t)
  PROVE  /\ NewNode(t) => Pending' = Pending \cup {t} /\ t \notin Pending
         /\ NewInode(t) => Pending' = Pending \ {t} /\ t \in Pending
         /\ ~ NewNode(t) /\ ~ NewInode(t) => Pending' = Pending /\ t \notin Pending
  <1> USE DEF Calling
  <1>1. \A u \in Threads \ {t} : u \in Pending' <=> u \in Pending
    BY OthersStay DEF Pending
  <1>2. NewNode(t) => t \in Pending' /\ t \notin Pending
    BY DEF NewNode, Go, Pending
  <1>3. NewInode(t) => t \notin Pending' /\ t \in Pending
    BY DEF NewInode, Go, Pending
  <1>4. ~ NewNode(t) => t \notin Pending'
    BY StepOfPlaces DEF Places, Pending
  <1>5. ~ NewNode(t) /\ ~ NewInode(t) => pc[t] # "count"
    BY DEF Step, Begin, HostDoes, HostRefuses, FindChild, MissChild, AppendChild, GotChild,
           GetKnownVnode, GetNewVnode, GetNoVnode, DeleteChildIfExists, Return, Go
  <1>6. Pending \subseteq Threads /\ Pending' \subseteq Threads
    BY DEF Pending
  <1>7. ~ NewNode(t) /\ ~ NewInode(t) => t \notin Pending
    BY <1>5 DEF Pending
  <1>8. NewNode(t) => Pending' = Pending \cup {t}
    BY <1>1, <1>2, <1>6
  <1>9. NewInode(t) => Pending' = Pending \ {t}
    BY <1>1, <1>3, <1>6
  <1>10. ASSUME ~ NewNode(t), ~ NewInode(t) PROVE Pending' = Pending
    <2>1. \A u \in Threads : u \in Pending' <=> u \in Pending
      BY <1>1, <1>4, <1>7, <1>10
    <2> QED BY <1>6, <2>1
  <1> QED BY <1>2, <1>3, <1>7, <1>8, <1>9, <1>10

LEMMA CountingStep ==
  ASSUME IInv, NEW t \in Threads, Step(t)
  PROVE  Counting'
  <1> USE DEF IInv
  <1> DEFINE P == Cardinality(Pending)
  <1>1. P \in Nat /\ Len(nodes) \in Nat
    BY PendingCount, NodesCount
  <1>2. ASSUME NEW u \in Pending, u # t PROVE node'[u] = node[u] /\ node[u] \in N
    BY <1>2, OthersStay DEF Pending, Fresh, Making
  <1>3. CASE NewNode(t)
    <2> DEFINE n == Len(nodes) + 1
    <2>1. Pending' = Pending \cup {t} /\ t \notin Pending /\ Cardinality(Pending') = P + 1
      BY <1>3, PendingStep, PendingCount, FS_AddElement
    <2>2. UNCHANGED sCurrentInode
      BY <1>3 DEF NewNode
    <2>3. Node(call[t].name, call[t].dir, sCurrentInode).inode = sCurrentInode
      BY DEF Node
    <2>4. /\ N' = N \cup {n} /\ nodes'[n].inode = sCurrentInode /\ node'[t] = n
          /\ \A m \in N : nodes'[m] = nodes[m]
          /\ Len(nodes') = n
      BY <1>3, <2>3, NodeAppended
    <2> HIDE DEF n, P
    <2>5. \A m \in N' : nodes'[m].inode \in 2 .. m + 1
      BY <1>1, <2>4 DEF Counting, P, n
    <2>6. ASSUME NEW u \in Pending'
          PROVE  /\ nodes'[node'[u]].inode + Cardinality(Pending') <= Len(nodes') + 2
                 /\ nodes'[node'[u]].inode >= 3
      <3>1. CASE u = t
        BY <1>1, <2>1, <2>4, <3>1 DEF Counting, P, n
      <3>2. CASE u # t
        <4>1. u \in Pending /\ node'[u] = node[u] /\ node[u] \in N
          BY <1>2, <2>1, <3>2
        <4>2. /\ nodes[node[u]].inode + P <= Len(nodes) + 2 /\ nodes[node[u]].inode >= 3
              /\ nodes[node[u]].inode \in Int
          BY <4>1 DEF Counting, P
        <4> QED BY <1>1, <2>1, <2>4, <4>1, <4>2 DEF n
      <3> QED BY <3>1, <3>2
    <2> QED BY <1>1, <2>1, <2>2, <2>4, <2>5, <2>6 DEF Counting, P, n
  <1>4. CASE NewInode(t)
    <2>1. Pending' = Pending \ {t} /\ t \in Pending /\ Cardinality(Pending') = P - 1
      BY <1>4, PendingStep, PendingCount, FS_RemoveElement
    <2>2. /\ sCurrentInode' \in {sCurrentInode + 1, nodes[node[t]].inode + 1}
          /\ UNCHANGED <<nodes, node>>
      BY <1>4 DEF NewInode
    <2>3. Cardinality(Pending') \in Nat
      BY <1>1, <2>1, ThreadsAssumption, FS_Subset, FS_CardinalityType DEF Pending
    <2>4. node[t] \in N
      BY <2>1 DEF Pending, Fresh, Making
    <2> HIDE DEF P
    <2>5. /\ nodes[node[t]].inode \in Nat
          /\ nodes[node[t]].inode + P <= Len(nodes) + 2 /\ nodes[node[t]].inode >= 3
      BY <1>1, <2>1, <2>4 DEF Counting, P, N
    <2>5a. sCurrentInode \in Nat /\ sCurrentInode >= 3 /\ sCurrentInode + P <= Len(nodes) + 2
      BY DEF Counting, P
    <2>6. /\ sCurrentInode' \in Nat /\ sCurrentInode' >= 3
          /\ sCurrentInode' + (P - 1) <= Len(nodes) + 2
      <3>1. P \in Nat
        BY <1>1
      <3>2. CASE sCurrentInode' = sCurrentInode + 1
        BY <1>1, <2>5a, <3>1, <3>2
      <3>3. CASE sCurrentInode' = nodes[node[t]].inode + 1
        BY <1>1, <2>5, <3>1, <3>3
      <3> QED BY <2>2, <3>2, <3>3
    <2>7. \A u \in Pending' : /\ nodes[node[u]].inode + (P - 1) <= Len(nodes) + 2
                              /\ nodes[node[u]].inode >= 3
      <3> SUFFICES ASSUME NEW u \in Pending', u # t
                   PROVE  /\ nodes[node[u]].inode + (P - 1) <= Len(nodes) + 2
                          /\ nodes[node[u]].inode >= 3
        BY <2>1
      <3>1. node[u] \in N /\ u \in Pending
        BY <1>2, <2>1
      <3>2. nodes[node[u]].inode \in 2 .. node[u] + 1
        BY <3>1 DEF Counting
      <3> QED BY <1>1, <3>1, <3>2 DEF Counting, P
    <2> QED BY <2>1, <2>2, <2>6, <2>7 DEF Counting, N
  <1>5. CASE ~ NewNode(t) /\ ~ NewInode(t)
    <2>1. Pending' = Pending /\ t \notin Pending
      BY <1>5, PendingStep
    <2>2. UNCHANGED <<nodes, sCurrentInode>>
      BY <1>5 DEF Step, Begin, HostDoes, HostRefuses, FindChild, MissChild, AppendChild,
             GetKnownVnode, GetNewVnode, GetNoVnode, DeleteChildIfExists, tree
    <2>3. \A u \in Pending : node'[u] = node[u]
      BY <1>2, <2>1
    <2> QED BY <2>1, <2>2, <2>3 DEF Counting, N
  <1> QED BY <1>3, <1>4, <1>5

LEMMA HostStep ==
  ASSUME Outside, Next
  PROVE  Kinds(host')
  <1>1. Kinds(host)
    BY DEF Outside
  <1>2. \A p : Kinds(With(p, "file")) /\ Kinds(With(p, "dir"))
    BY <1>1 DEF With, Kinds
  <1>3. \A p : Kinds(Without(p))
    BY <1>1 DEF Without, Kinds
  <1>4. ASSUME NEW p, NEW q PROVE Kinds(Moved(p, q))
    <2> DEFINE to(r) == IF IsPrefix(p, r) THEN q \o SubSeq(r, Len(p) + 1, Len(r)) ELSE r
    <2>1. ASSUME NEW s \in {to(r) : r \in DOMAIN host}
          PROVE  host[CHOOSE r \in DOMAIN host : to(r) = s] \in {"file", "dir"}
      <3> HIDE DEF to
      <3>1. \E r \in DOMAIN host : to(r) = s
        BY <2>1
      <3> QED BY <1>1, <3>1 DEF Kinds
    <2>2. Moved(p, q) = [s \in {to(r) : r \in DOMAIN host} |->
                           host[CHOOSE r \in DOMAIN host : to(r) = s]]
      BY DEF Moved
    <2> HIDE DEF to
    <2> QED BY <2>1, <2>2 DEF Kinds
  <1>5. CASE UNCHANGED host
    BY <1>1, <1>5
  <1>6. CASE ~ UNCHANGED host
    <2>1. \/ \E p : host' = With(p, "file") \/ host' = With(p, "dir") \/ host' = Without(p)
          \/ \E p, q : host' = Moved(p, q)
      <3>1. CASE HostMakes \/ HostRemoves
        BY <3>1 DEF HostMakes, HostRemoves
      <3>2. CASE \E t \in Threads : HostDoes(t)
        BY <1>6, <3>2 DEF HostDoes, Command
      <3>3. HostMakes \/ HostRemoves \/ \E t \in Threads : HostDoes(t)
        BY <1>6 DEF Next, Step, PutVnode, Begin, HostRefuses, FindChild, MissChild, NewNode,
           NewInode, AppendChild, GetKnownVnode, GetNewVnode, GetNoVnode, DeleteChildIfExists
      <3> QED BY <3>1, <3>2, <3>3
    <2> QED BY <1>2, <1>3, <1>4, <2>1
  <1> QED BY <1>5, <1>6

LEMMA OutsideStep ==
  ASSUME IInv, Next
  PROVE  Outside'
  <1> USE DEF IInv
  <1>1. N \subseteq N'
    BY StepOfTree, StepOutside, NodeAppended
       DEF Next, AppendChild, DeleteChildIfExists, TreeStays, N
  <1>2. ASSUME NEW i \in DOMAIN vnodes' PROVE vnodes'[i] \in [node : N, kind : {"file", "dir"}]
    <2>1. CASE i \in DOMAIN vnodes /\ vnodes'[i] = vnodes[i]
      BY <2>1 DEF Outside
    <2>2. CASE ~ (i \in DOMAIN vnodes /\ vnodes'[i] = vnodes[i])
      <3>1. PICK t \in Threads : GetNewVnode(t)
        BY <1>2, <2>2 DEF Next, Step, PutVnode, HostMakes, HostRemoves, Begin, HostDoes,
           HostRefuses, FindChild, MissChild, NewNode, NewInode, AppendChild, GetKnownVnode,
           GetNoVnode, DeleteChildIfExists
      <3>2. PICK n \in Resolve(Inode(t)) :
              /\ Path(n) \in DOMAIN host
              /\ vnodes' = [j \in DOMAIN vnodes \cup {Inode(t)} |->
                              IF j = Inode(t) THEN [node |-> n, kind |-> host[Path(n)]]
                              ELSE vnodes[j]]
        BY <3>1 DEF GetNewVnode
      <3>3. n \in N /\ host[Path(n)] \in {"file", "dir"}
        BY <3>2, BelowAreNodes DEF Resolve, Outside, Kinds
      <3> QED BY <1>2, <2>2, <3>2, <3>3
    <2> QED BY <2>1, <2>2
  <1> QED BY <1>1, <1>2, HostStep DEF Outside

\* A place in a new list is a place in the old one, or the new node's.
LEMMA AppendedFrom ==
  ASSUME NEW old, Len(old) \in Nat, NEW new, NEW n, NEW last, Appended(old, new, n, last),
         NEW k \in 1 .. Len(new)
  PROVE  \/ k \in 1 .. Len(old) /\ new[k] = old[k] /\ \A j \in 1 .. k : new[j] = old[j]
         \/ /\ new[k] = n /\ k = Len(new) /\ k - 1 \in 0 .. Len(old)
            /\ \A j \in 1 .. k - 1 : new[j] = old[j]
            /\ k # 1 => old[k - 1] = last
  BY DEF Appended

\* The place in the old list of what is at place k in the new one.
From(c, k) == IF k < c THEN k ELSE k + 1

LEMMA CutFrom ==
  ASSUME NEW old, NEW new, NEW c, Len(old) \in Nat, c \in 1 .. Len(old), Cut(old, new, c)
  PROVE  \A k \in 1 .. Len(new) :
           /\ From(c, k) \in 1 .. Len(old)
           /\ new[k] = old[From(c, k)]
           /\ \A j \in 1 .. k : From(c, j) \in 1 .. From(c, k)
  <1> SUFFICES ASSUME NEW k \in 1 .. Len(new)
               PROVE  /\ From(c, k) \in 1 .. Len(old)
                      /\ new[k] = old[From(c, k)]
                      /\ \A j \in 1 .. k : From(c, j) \in 1 .. From(c, k)
    OBVIOUS
  <1>1. k \in 1 .. Len(old) - 1 /\ new[k] = IF k < c THEN old[k] ELSE old[k + 1]
    BY DEF Cut
  <1>2. From(c, k) \in 1 .. Len(old) /\ \A j \in 1 .. k : From(c, j) \in 1 .. From(c, k)
    BY <1>1 DEF From
  <1> QED BY <1>1, <1>2 DEF From

\* No step puts anything but the node being made in a list.
LEMMA ListStep ==
  ASSUME IInv, NEW t \in Threads, Step(t), NEW d \in 1 .. MaxNodes, NEW k \in DOMAIN children'[d]
  PROVE  \/ \E l \in DOMAIN children[d] : children'[d][k] = children[d][l]
         \/ AppendChild(t) /\ call[t].dir = d /\ children'[d][k] = node[t]
  <1> USE DEF IInv
  <1>1. /\ DOMAIN children[d] = 1 .. Len(children[d])
        /\ children[d] \in Seq(N) /\ Len(children[d]) \in Nat
    BY ListOf
  <1>2. CASE TreeStays \/ NewNode(t)
    BY <1>2 DEF TreeStays, NewNode
  <1>3. CASE AppendChild(t)
    <2>1. PICK new \in Seq(N) :
           /\ children' = [children EXCEPT ![call[t].dir] = new]
           /\ Appended(children[call[t].dir], new, node[t], item[t])
      BY <1>3, ListAppended
    <2>2. CASE d = call[t].dir
      <3>1. children'[d] = new /\ k \in 1 .. Len(new)
        BY <1>1, <2>1, <2>2, LenProperties DEF Shape
      <3> QED BY <1>1, <1>3, <2>1, <2>2, <3>1, AppendedFrom
    <2>3. CASE d # call[t].dir
      BY <1>1, <2>1, <2>3 DEF Shape
    <2> QED BY <2>2, <2>3
  <1>4. CASE DeleteChildIfExists(t) /\ ~ TreeStays
    <2>1. PICK c \in First(call[t].dir, call[t].name), new \in Seq(N) :
            /\ children' = [children EXCEPT ![call[t].dir] = new]
            /\ Cut(children[call[t].dir], new, c)
      BY <1>4, ListCut
    <2>2. CASE d = call[t].dir
      <3>1. children'[d] = new /\ k \in 1 .. Len(new) /\ c \in 1 .. Len(children[d])
        BY <1>1, <2>1, <2>2, LenProperties, FirstIsNamed DEF Shape
      <3>2. \E l \in 1 .. Len(children[d]) : new[k] = children[d][l]
        <4>1. Cut(children[d], new, c) /\ Len(children[d]) \in Nat
          BY <1>1, <2>1, <2>2
        <4> QED BY <3>1, <4>1, CutFrom
      <3> QED BY <1>1, <3>1, <3>2
    <2>3. CASE d # call[t].dir
      BY <1>1, <2>1, <2>3 DEF Shape
    <2> QED BY <2>2, <2>3
  <1> QED BY <1>2, <1>3, <1>4, StepOfTree

LEMMA NodesStay ==
  ASSUME IInv, NEW t \in Threads, Step(t)
  PROVE  N \subseteq N' /\ \A n \in N : nodes'[n] = nodes[n]
  BY StepOfTree, NodeAppended
     DEF IInv, AppendChild, DeleteChildIfExists, TreeStays, N

\* A search that found nothing has seen all of the list.
LEMMA Missed ==
  ASSUME IInv, NEW t \in Threads, MissChild(t)
  PROVE  LET d == call[t].dir
         IN  /\ d \in N /\ d \in 1 .. MaxNodes /\ UNCHANGED <<nodes, children, call>>
             /\ Named(d, call[t].name) = {}
             /\ item'[t] = IF children[d] = <<>> THEN None ELSE Last(children[d])
             /\ item'[t] = None \/ \E k \in DOMAIN children[d] : item'[t] = children[d][k]
  <1> USE DEF IInv
  <1> DEFINE d == call[t].dir
             list == children[d]
  <1>1. /\ pc[t] = "scan" /\ d \in N /\ d \in 1 .. MaxNodes
        /\ call[t].name # ".." /\ First(d, call[t].name) = {}
    BY NodesCount DEF MissChild, Go, Child, Arguments
  <1>2. list \in Seq(N) /\ DOMAIN list = 1 .. Len(list) /\ Len(list) \in Nat
    BY <1>1, ListOf
  <1>3. Named(d, call[t].name) = {}
    BY <1>1, <1>2, FirstOfNamed
  <1>4. item'[t] = IF list = <<>> THEN None ELSE Last(list)
    BY DEF MissChild, Calling
  <1>5. list = <<>> \/ Len(list) \in DOMAIN list
    BY <1>2, EmptySeq
  <1>6. UNCHANGED <<nodes, children, call>>
    BY DEF MissChild, tree
  <1> HIDE DEF d
  <1>7. item'[t] = None \/ \E k \in DOMAIN list : item'[t] = list[k]
    BY <1>4, <1>5 DEF Last
  <1> QED BY <1>1, <1>3, <1>4, <1>6, <1>7 DEF d

LEMMA FreshStep ==
  ASSUME IInv, NEW t \in Threads, Step(t)
  PROVE  Fresh'
  <1> USE DEF IInv
  <1> DEFINE Ok(u) ==
        /\ node'[u] \in N'
        /\ nodes'[node'[u]].name = call'[u].name /\ nodes'[node'[u]].parent = call'[u].dir
        /\ \A d \in 1 .. MaxNodes : \A k \in DOMAIN children'[d] : children'[d][k] # node'[u]
        /\ \A v \in Threads : item'[v] # node'[u]
        /\ \A v \in Threads \ {u} : Making(v)' => node'[v] # node'[u]
  <1>1. CASE NewNode(t)
    <2> DEFINE n == Len(nodes) + 1
    <2>1. /\ node'[t] = n /\ n \in N' /\ n \notin N
          /\ \A v \in Threads \ {t} : node'[v] = node[v]
          /\ UNCHANGED <<children, call, item>>
      BY <1>1, OthersStay, NodeAppended DEF NewNode
    <2>2. n # None
      BY <1>1, NodeAppended DEF None
    <2>3. \A v \in Threads \ {t} : Making(v)' => Making(v) /\ node[v] \in N
      BY OthersStay DEF Fresh, Making
    <2>4. \A v \in Threads : item[v] # n
      BY <2>1, <2>2 DEF Calling
    <2>5. \A d \in 1 .. MaxNodes : \A k \in DOMAIN children[d] : children[d][k] \in N
      BY ListOf
    <2>6. Ok(t)
      <3>1. nodes'[n] = Node(call[t].name, call[t].dir, sCurrentInode)
        BY <1>1, NodeAppended
      <3>2. nodes'[n].name = call[t].name /\ nodes'[n].parent = call[t].dir
        BY <3>1 DEF Node
      <3> HIDE DEF n
      <3> QED BY <2>1, <2>3, <2>4, <2>5, <3>2
    <2>7. ASSUME NEW u \in Threads \ {t}, Making(u)' PROVE Ok(u)
      <3>1. Making(u) /\ node[u] \in N /\ node'[u] = node[u] /\ nodes'[node[u]] = nodes[node[u]]
        BY <2>1, <2>3, <2>7, NodesStay
      <3> HIDE DEF n
      <3> QED BY <2>1, <2>3, <3>1, NodesStay DEF Fresh
    <2> QED BY <2>6, <2>7 DEF Fresh
  <1>2. CASE ~ NewNode(t)
    <2>1. ASSUME NEW u \in Threads, Making(u)'
          PROVE  Making(u) /\ node'[u] = node[u] /\ call'[u] = call[u]
      <3>1. CASE u = t
        <4>1. NewInode(t)
          BY <1>2, <2>1, <3>1, StepOfPlaces DEF Places, Making
        <4> QED BY <3>1, <4>1 DEF NewInode, Go, Making
      <3>2. CASE u # t
        BY <2>1, <3>2, OthersStay DEF Making
      <3> QED BY <3>1, <3>2
    <2>2. ASSUME NEW u \in Threads, Making(u)' PROVE Ok(u)
      <3>1. /\ Making(u) /\ node'[u] = node[u] /\ call'[u] = call[u]
            /\ node[u] \in N /\ nodes'[node[u]] = nodes[node[u]] /\ node[u] \in N'
        BY <2>1, <2>2, NodesStay DEF Fresh
      <3>2. ASSUME NEW d \in 1 .. MaxNodes, NEW k \in DOMAIN children'[d]
            PROVE  children'[d][k] # node[u]
        <4>1. CASE \E l \in DOMAIN children[d] : children'[d][k] = children[d][l]
          BY <3>1, <4>1 DEF Fresh
        <4>2. CASE AppendChild(t) /\ children'[d][k] = node[t]
          <5>1. Making(t) /\ ~ Making(t)'
            BY <4>2 DEF AppendChild, GotChild, Return, Go, Making, Calling
          <5>2. t # u
            BY <2>2, <5>1
          <5> QED BY <3>1, <4>2, <5>1, <5>2 DEF Fresh
        <4> QED BY <3>2, <4>1, <4>2, ListStep
      <3>3. ASSUME NEW v \in Threads PROVE item'[v] # node[u]
        <4>1. CASE v # t \/ item'[v] \in {item[v], None}
          BY <3>1, <4>1, OthersStay, NodesCount DEF Fresh, None, N
        <4>2. CASE v = t /\ item'[v] # None /\ MissChild(t)
          <5>1. \E d \in 1 .. MaxNodes : \E k \in DOMAIN children[d] : item'[v] = children[d][k]
            BY <4>2, Missed
          <5> QED BY <3>1, <5>1 DEF Fresh
        <4> QED BY <4>1, <4>2, StepOfPlaces DEF Places
      <3>4. \A v \in Threads \ {u} : Making(v)' => node'[v] # node[u]
        BY <2>1, <3>1 DEF Fresh
      <3> QED BY <3>1, <3>2, <3>3, <3>4 DEF Fresh
    <2> QED BY <2>2 DEF Fresh
  <1> QED BY <1>1, <1>2

LEMMA SearchedStep ==
  ASSUME IInv, NEW t \in Threads, Step(t)
  PROVE  Searched'
  <1> USE DEF IInv
  <1> DEFINE Seen(u) ==
        \A k \in DOMAIN children'[call'[u].dir] : children'[call'[u].dir][k] = item'[u] =>
          \A j \in 1 .. k : nodes'[children'[call'[u].dir][j]].name # call'[u].name
  <1> SUFFICES ASSUME NEW u \in Threads, Adding(u)' PROVE Seen(u)
    BY DEF Searched
  <1>1. CASE u = t /\ MissChild(t)
    <2> DEFINE list == children[call[t].dir]
    <2>1. /\ call[t].dir \in 1 .. MaxNodes /\ UNCHANGED <<nodes, children, call>>
          /\ Named(call[t].dir, call[t].name) = {}
      BY <1>1, Missed
    <2>2. \A k \in DOMAIN list : nodes[list[k]].name # call[t].name
      BY <2>1 DEF Named
    <2>3. DOMAIN list = 1 .. Len(list) /\ Len(list) \in Nat
      BY <2>1, ListOf
    <2>4. \A k \in DOMAIN list : \A j \in 1 .. k : j \in DOMAIN list
      BY <2>3
    <2> QED BY <1>1, <2>1, <2>2, <2>4
  <1>2. CASE ~ (u = t /\ MissChild(t))
    <2>1. Adding(u) /\ call'[u] = call[u] /\ item'[u] = item[u]
      <3>1. CASE u = t
        <4>1. NewNode(t) \/ NewInode(t)
          BY <1>2, <3>1, StepOfPlaces DEF Places, Adding
        <4> QED BY <3>1, <4>1 DEF NewNode, NewInode, Go, Adding
      <3>2. CASE u # t
        BY <3>2, OthersStay DEF Adding
      <3> QED BY <3>1, <3>2
    <2> DEFINE d == call[u].dir
               old == children[d]
               name == call[u].name
    <2>2. d \in N /\ d \in 1 .. MaxNodes
      BY <2>1, NodesCount DEF Arguments, Adding
    <2>3. /\ DOMAIN old = 1 .. Len(old) /\ Len(old) \in Nat
          /\ \A j \in 1 .. Len(old) : old[j] \in N /\ nodes'[old[j]] = nodes[old[j]]
      BY <2>2, ListOf, NodesStay
    <2>4. \A k \in DOMAIN old : old[k] = item[u] =>
            \A j \in 1 .. k : nodes[old[j]].name # name
      BY <2>1 DEF Searched
    <2> HIDE DEF d
    <2> SUFFICES ASSUME NEW k \in DOMAIN children'[d], children'[d][k] = item[u],
                        NEW j \in 1 .. k
                 PROVE  nodes'[children'[d][j]].name # name
      BY <2>1 DEF d
    <2>5. CASE children'[d] = old
      BY <2>3, <2>4, <2>5
    <2>6. CASE AppendChild(t) /\ children'[d] # old
      <3>1. PICK new \in Seq(N) :
              /\ children' = [children EXCEPT ![call[t].dir] = new]
              /\ Appended(children[call[t].dir], new, node[t], item[t])
        BY <2>6, ListAppended
      <3>2. d = call[t].dir /\ children'[d] = new
        BY <2>2, <2>6, <3>1 DEF Shape
      <3>3. k \in 1 .. Len(new) /\ new[k] = item[u] /\ Appended(old, new, node[t], item[t])
        BY <3>1, <3>2, LenProperties
      <3>4. new[k] # node[t]
        BY <2>6, <3>3 DEF AppendChild, GotChild, Return, Go, Fresh, Making
      <3>5. k \in 1 .. Len(old) /\ new[k] = old[k] /\ new[j] = old[j]
        BY <2>3, <3>3, <3>4, AppendedFrom
      <3>6. nodes[old[j]].name # name /\ j \in 1 .. Len(old)
        BY <2>3, <2>4, <3>3, <3>5
      <3> QED BY <2>3, <3>2, <3>5, <3>6
    <2>7. CASE DeleteChildIfExists(t) /\ children'[d] # old
      <3>1. PICK c \in First(call[t].dir, call[t].name), new \in Seq(N) :
              /\ children' = [children EXCEPT ![call[t].dir] = new]
              /\ Cut(children[call[t].dir], new, c)
        BY <2>7, ListCut DEF TreeStays
      <3>2. d = call[t].dir /\ children'[d] = new
        BY <2>2, <2>7, <3>1 DEF Shape
      <3>3. /\ k \in 1 .. Len(new) /\ new[k] = item[u] /\ Cut(old, new, c)
            /\ c \in 1 .. Len(old)
        BY <2>3, <3>1, <3>2, LenProperties, FirstIsNamed
      <3>4. /\ From(c, k) \in 1 .. Len(old) /\ new[k] = old[From(c, k)]
            /\ From(c, j) \in 1 .. From(c, k) /\ j \in 1 .. Len(new)
        <4> HIDE DEF old
        <4>1. j \in 1 .. Len(new) /\ Len(old) \in Nat
          BY <2>3, <3>3
        <4> QED BY <3>3, <4>1, CutFrom
      <3>5. new[j] = old[From(c, j)]
        <4> HIDE DEF old
        <4> QED BY <2>3, <3>3, <3>4, CutFrom
      <3>6. From(c, k) \in DOMAIN old /\ old[From(c, k)] = item[u]
        BY <2>3, <3>3, <3>4
      <3>7. nodes[old[From(c, j)]].name # name /\ From(c, j) \in 1 .. Len(old)
        BY <2>3, <2>4, <3>4, <3>6
      <3> QED BY <2>3, <3>2, <3>5, <3>7
    <2> QED BY <2>5, <2>6, <2>7, StepOfTree DEF TreeStays, NewNode
  <1> QED BY <1>1, <1>2

\* The names of the list of d are all different, and of children of d.
Sorted(ns, d, list) ==
  /\ \A j, k \in DOMAIN list : ns[list[j]].name = ns[list[k]].name => j = k
  /\ \A k \in DOMAIN list : ns[list[k]].parent = d

LEMMA UniqueStep ==
  ASSUME IInv, NEW t \in Threads, Step(t)
  PROVE  SiblingNamesUnique'
  <1> USE DEF IInv
  <1>1. \A d \in N : Sorted(nodes, d, children[d])
    BY DEF SiblingNamesUnique, Sorted, N
  <1>2. CASE TreeStays
    BY <1>2 DEF SiblingNamesUnique, TreeStays
  <1>3. CASE NewNode(t)
    <2>1. UNCHANGED children
      BY <1>3 DEF NewNode
    <2>2. ASSUME NEW d \in N' PROVE Sorted(nodes', d, children'[d])
      <3>1. CASE d \in N
        <4>1. \A k \in DOMAIN children[d] : nodes'[children[d][k]] = nodes[children[d][k]]
          BY <3>1, ListOf, NodesCount, NodesStay
        <4> QED BY <1>1, <2>1, <3>1, <4>1 DEF Sorted
      <3>2. CASE d \notin N
        <4>1. d = Len(nodes) + 1 /\ d \in (1 .. MaxNodes) \ N
          BY <1>3, <2>2, <3>2, NodeAppended, BoundsAssumption
        <4>2. children[d] = <<>>
          BY <4>1 DEF Shape
        <4> QED BY <2>1, <4>2 DEF Sorted
      <3> QED BY <3>1, <3>2
    <2> QED BY <2>1, <2>2 DEF SiblingNamesUnique, Sorted, N
  <1>4. CASE AppendChild(t)
    <2> DEFINE d == call[t].dir
               old == children[d]
    <2>1. PICK new \in Seq(N) :
            /\ children' = [children EXCEPT ![call[t].dir] = new]
            /\ Appended(children[call[t].dir], new, node[t], item[t])
      BY <1>4, ListAppended
    <2>2. /\ UNCHANGED nodes /\ N' = N /\ d \in N /\ d \in 1 .. MaxNodes
          /\ Adding(t) /\ Making(t)
      BY <1>4, NodesCount
         DEF AppendChild, GotChild, Return, Go, Arguments, Making, Adding, N
    <2>3. DOMAIN old = 1 .. Len(old) /\ Len(old) \in Nat /\ DOMAIN new = 1 .. Len(new)
      BY <2>2, ListOf, LenProperties
    <2>4. /\ \A k \in DOMAIN old : old[k] = item[t] =>
               \A j \in 1 .. k : nodes[old[j]].name # call[t].name
          /\ nodes[node[t]].name = call[t].name /\ nodes[node[t]].parent = d
      BY <2>2 DEF Searched, Fresh
    <2>5. Sorted(nodes, d, old)
      BY <1>1, <2>2
    <2> HIDE DEF d, old
    <2>6. Appended(old, new, node[t], item[t])
      BY <2>1 DEF old, d
    <2>7. Sorted(nodes, d, new)
      <3>1. CASE new = old
        BY <2>5, <3>1
      <3>2. CASE new # old
        <4>1. PICK c \in 0 .. Len(old) :
                /\ Len(new) = c + 1
                /\ \A j \in 1 .. c : new[j] = old[j]
                /\ new[c + 1] = node[t]
                /\ c # 0 => old[c] = item[t]
          BY <2>6, <3>2 DEF Appended
        <4>2. \A j \in 1 .. c : nodes[new[j]].name # call[t].name /\ j \in DOMAIN old
          BY <2>3, <2>4, <4>1
        <4>3. DOMAIN new = 1 .. c + 1 /\ c \in Nat
          BY <2>3, <4>1
        <4>4. \A k \in DOMAIN new : nodes[new[k]].parent = d
          BY <2>4, <2>5, <4>1, <4>2, <4>3 DEF Sorted
        <4>5. \A j, k \in DOMAIN new : nodes[new[j]].name = nodes[new[k]].name => j = k
          <5> SUFFICES ASSUME NEW j \in DOMAIN new, NEW k \in DOMAIN new,
                              nodes[new[j]].name = nodes[new[k]].name
                       PROVE  j = k
            OBVIOUS
          <5>1. CASE j \in 1 .. c /\ k \in 1 .. c
            BY <2>5, <4>1, <4>2, <5>1 DEF Sorted
          <5>2. CASE j = c + 1 \/ k = c + 1
            BY <2>4, <4>1, <4>2, <4>3, <5>2
          <5> QED BY <4>3, <5>1, <5>2
        <4> QED BY <4>4, <4>5 DEF Sorted
      <3> QED BY <3>1, <3>2
    <2>8. \A e \in N : Sorted(nodes, e, children'[e])
      BY <1>1, <2>1, <2>2, <2>7 DEF Shape, d
    <2> QED BY <2>2, <2>8 DEF SiblingNamesUnique, Sorted, N
  <1>5. CASE DeleteChildIfExists(t) /\ ~ TreeStays
    <2> DEFINE d == call[t].dir
               old == children[d]
    <2>1. PICK c \in First(call[t].dir, call[t].name), new \in Seq(N) :
            /\ children' = [children EXCEPT ![call[t].dir] = new]
            /\ Cut(children[call[t].dir], new, c)
      BY <1>5, ListCut
    <2>2. UNCHANGED nodes /\ N' = N /\ d \in N /\ d \in 1 .. MaxNodes
      BY <1>5, ListCut, NodesCount DEF N
    <2>3. /\ DOMAIN old = 1 .. Len(old) /\ Len(old) \in Nat /\ DOMAIN new = 1 .. Len(new)
          /\ c \in 1 .. Len(old)
      BY <2>2, ListOf, LenProperties, FirstIsNamed
    <2>5. Sorted(nodes, d, old)
      BY <1>1, <2>2
    <2> HIDE DEF d, old
    <2>6. Cut(old, new, c)
      BY <2>1 DEF old, d
    <2>7. Sorted(nodes, d, new)
      <3> DEFINE from(j) == IF j < c THEN j ELSE j + 1
      <3>1. \A j \in DOMAIN new : from(j) \in DOMAIN old /\ new[j] = old[from(j)]
        BY <2>3, <2>6 DEF Cut
      <3>2. \A j, k \in DOMAIN new : from(j) = from(k) => j = k
        BY <2>3
      <3> HIDE DEF from
      <3> QED BY <2>5, <3>1, <3>2 DEF Sorted
    <2>8. \A e \in N : Sorted(nodes, e, children'[e])
      BY <1>1, <2>1, <2>2, <2>7 DEF Shape, d
    <2> QED BY <2>2, <2>8 DEF SiblingNamesUnique, Sorted, N
  <1> QED BY <1>2, <1>3, <1>4, <1>5, StepOfTree

LEMMA OthersUnchanged ==
  ASSUME IInv, UNCHANGED <<nodes, children, freed, sCurrentInode, pc, call, item, node>>
  PROVE  Shape' /\ Counting' /\ Calling' /\ Arguments' /\ Fresh' /\ Searched' /\ SiblingNamesUnique'
  <1> USE DEF IInv, N
  <1>1. Shape' /\ SiblingNamesUnique'
    BY DEF Shape, SiblingNamesUnique
  <1>2. Counting'
    BY DEF Counting, Pending
  <1>3. Calling' /\ Arguments'
    BY DEF Calling, Arguments, Adding
  <1>4. Fresh' /\ Searched'
    BY DEF Fresh, Searched, Making, Adding
  <1> QED BY <1>1, <1>2, <1>3, <1>4

LEMMA StepInvariant == IInv /\ [Next]_vars => IInv'
  <1> SUFFICES ASSUME IInv, [Next]_vars PROVE IInv'
    OBVIOUS
  <1>1. CASE UNCHANGED vars
    <2>1. UNCHANGED <<nodes, children, freed, sCurrentInode, pc, call, item, node>>
      BY <1>1 DEF vars, tree, thread
    <2>2. Outside'
      BY <1>1 DEF vars, tree, IInv, Outside, Kinds, N
    <2> QED BY <2>1, <2>2, OthersUnchanged DEF IInv
  <1>2. CASE PutVnode \/ HostMakes \/ HostRemoves
    <2>1. Outside'
      BY <1>2, OutsideStep DEF Next
    <2>2. UNCHANGED <<nodes, children, freed, sCurrentInode, pc, call, item, node>>
      BY <1>2, StepOutside DEF TreeStays, thread
    <2> QED BY <2>1, <2>2, OthersUnchanged DEF IInv
  <1>3. ASSUME NEW t \in Threads, Step(t) PROVE IInv'
    <2>1. Shape' /\ Counting' /\ Calling' /\ Arguments'
      BY <1>3, ShapeStep, CountingStep, CallingStep
    <2>2. Outside'
      BY <1>3, OutsideStep DEF Next
    <2>3. Fresh' /\ Searched' /\ SiblingNamesUnique'
      BY <1>3, FreshStep, SearchedStep, UniqueStep
    <2> QED BY <2>1, <2>2, <2>3 DEF IInv
  <1> QED BY <1>1, <1>2, <1>3 DEF Next

LEMMA TypeFollows == IInv => TypeOK
  <1> SUFFICES ASSUME IInv PROVE TypeOK
    OBVIOUS
  <1> USE DEF IInv
  <1>1. Len(nodes) \in Nat /\ Len(nodes) <= MaxNodes /\ MaxNodes \in Nat
    BY NodesCount, BoundsAssumption DEF Shape
  <1>2. ASSUME NEW n \in N
        PROVE  nodes[n] \in [name : Names \cup {""}, parent : 0 .. n - 1, inode : 2 .. MaxNodes + 1]
    <2>1. nodes[n] \in VMWNode
      BY <1>2, ElementOfSeq DEF Shape, N
    <2>2. nodes[n].parent \in 0 .. n - 1
      <3>1. CASE n = Root
        BY <3>1 DEF Shape, Root, None
      <3>2. CASE n # Root
        BY <1>1, <3>2 DEF Shape, N
      <3> QED BY <3>1, <3>2
    <2>3. nodes[n].inode \in 2 .. MaxNodes + 1
      BY <1>1 DEF Counting, N
    <2> HIDE DEF IInv
    <2> QED BY <2>1, <2>2, <2>3 DEF VMWNode
  <1>3. sCurrentInode \in 3 .. MaxNodes + 2
    BY <1>1, PendingCount DEF Counting
  <1>4. \A n \in 1 .. MaxNodes : children[n] \in Seq(N)
    BY DEF Shape
  <1>5. \A t \in Threads : item[t] \in N \cup {None} /\ node[t] \in N \cup {None}
    BY DEF Calling
  <1> QED BY <1>1, <1>2, <1>3, <1>4, <1>5 DEF TypeOK, N, Shape, Outside

LEMMA Invariance == Spec => []IInv
  BY InitInvariant, StepInvariant, PTL DEF Spec

\* The state of the tree, of the VFS and of the threads is of its type, whatever the
\* threads, the names and the bounds: every inode is below the bound on nodes, which
\* takes the two halves of fInode = sCurrentInode; sCurrentInode++ into account.
THEOREM TypeCorrect == Spec => []TypeOK
  BY Invariance, TypeFollows, PTL

\* However many threads search and add to the lists at once, no list names two nodes
\* alike (VMWNode::GetChild).
THEOREM NamesStayUnique == Spec => []SiblingNamesUnique
  <1>1. IInv => SiblingNamesUnique
    BY DEF IInv
  <1> QED BY <1>1, Invariance, PTL
-----------------------------------------------------------------------------
(* One hook at a time.                                                     *)

\* The inodes are all different, and below the next one once it is counted.
Distinct ==
  /\ \A m, n \in N : nodes[m].inode = nodes[n].inode => m = n
  /\ \A n \in N : nodes[n].inode < sCurrentInode \/ \E t \in Pending : node[t] = n
  /\ \A t \in Pending : nodes[node[t]].inode = sCurrentInode

\* What the tree leads to is not freed, and a node being made is not in it yet.
Alive ==
  /\ Below(Root) \cap freed = {}
  /\ \A t \in Threads : Making(t) =>
       /\ node[t] \notin Below(Root) \cup freed
       /\ children[node[t]] = <<>>

\* A vnode is of the node of its inode, which the tree leads to until it is freed.
Known ==
  \A i \in DOMAIN vnodes :
    /\ nodes[vnodes[i].node].inode = i
    /\ vnodes[i].node \in freed \cup Below(Root)

\* What a thread goes by is in the tree.
Current ==
  \A t \in Threads : pc[t] # "idle" =>
    /\ call[t].dir \in Below(Root)
    /\ Adding(t) => LET list == children[call[t].dir]
                   IN  item[t] = IF list = <<>> THEN None ELSE Last(list)
    /\ pc[t] = "get" =>
         /\ node[t] \in Below(Root)
         /\ IF call[t].name = ".." THEN node[t] = nodes[call[t].dir].parent
            ELSE /\ node[t] # Root /\ nodes[node[t]].name = call[t].name
                 /\ nodes[node[t]].parent = call[t].dir

OneThread == \A t, u \in Threads : t = u
OneInv == IInv /\ Distinct /\ Alive /\ Known /\ Current
-----------------------------------------------------------------------------
(* What a tree leads to, for lists of children and a set of nodes.         *)

Down(kids, M, n) ==
  {m \in M : \A S \in SUBSET M : n \in S /\ (\A x \in S : ToSet(kids[x]) \subseteq S) => m \in S}

LEMMA BelowIsDown ==
  /\ \A n : Below(n) = Down(children, N, n)
  /\ \A n : Below(n)' = Down(children', N', n)
  BY DEF Below, Down, Closed, N

LEMMA DownIsClosed ==
  ASSUME NEW kids, NEW M, NEW n \in M, \A x \in M : ToSet(kids[x]) \subseteq M
  PROVE  /\ n \in Down(kids, M, n) /\ Down(kids, M, n) \subseteq M
         /\ \A x \in Down(kids, M, n) : ToSet(kids[x]) \subseteq Down(kids, M, n)
  BY DEF Down

LEMMA DownIsLeast ==
  ASSUME NEW kids, NEW M, NEW n, NEW S \in SUBSET M, n \in S,
         \A x \in S : ToSet(kids[x]) \subseteq S
  PROVE  Down(kids, M, n) \subseteq S
  BY DEF Down

\* The lists of a tree that is in order, as sets.
LEMMA ListsAsSets ==
  ASSUME IInv
  PROVE  /\ \A x \in N : ToSet(children[x]) \subseteq N
         /\ \A x \in N : \A y \in ToSet(children[x]) : nodes[y].parent = x /\ y # Root /\ x < y
  <1> USE DEF IInv
  <1>1. ASSUME NEW x \in N, NEW y \in ToSet(children[x])
        PROVE  y \in N /\ nodes[y].parent = x /\ y # Root /\ x < y
    <2>1. y \in N
      BY ListOf, NodesCount DEF ToSet
    <2>2. nodes[y].parent = x
      BY DEF SiblingNamesUnique, ToSet, N
    <2>3. y # Root
      BY <2>2, NodesCount DEF Shape, None, N
    <2>4. nodes[y].parent \in 1 .. y - 1
      BY <2>1, <2>3 DEF Shape
    <2> QED BY <2>1, <2>2, <2>3, <2>4, NodesCount
  <1> QED BY <1>1

\* A node below another one, its parent is, too.
LEMMA ParentIsBelow ==
  ASSUME IInv, NEW n \in N, NEW e \in Below(n), e # n
  PROVE  nodes[e].parent \in Below(n)
  <1> DEFINE S == Below(n) \ {e}
  <1>1. /\ n \in Below(n) /\ Below(n) \subseteq N
        /\ \A x \in Below(n) : ToSet(children[x]) \subseteq Below(n)
    BY ListsAsSets, DownIsClosed, BelowIsDown
  <1>2. ASSUME nodes[e].parent \notin Below(n) PROVE FALSE
    <2>1. \A x \in S : ToSet(children[x]) \subseteq S
      BY <1>1, <1>2, ListsAsSets
    <2>2. Below(n) \subseteq S
      BY <1>1, <2>1, DownIsLeast, BelowIsDown
    <2> QED BY <2>2
  <1> QED BY <1>2

\* Everything below a node is younger.
LEMMA BelowAreYounger ==
  ASSUME IInv, NEW n \in N, NEW e \in Below(n)
  PROVE  n <= e
  <1> DEFINE S == {m \in N : n <= m}
  <1>1. \A x \in S : ToSet(children[x]) \subseteq S
    BY ListsAsSets, NodesCount DEF IInv
  <1>2. n \in S
    BY NodesCount DEF IInv
  <1>3. Below(n) \subseteq S
    BY <1>1, <1>2, DownIsLeast, BelowIsDown
  <1> QED BY <1>3

\* The lists as sets after a step.
LEMMA ListsAfterAppend ==
  ASSUME OneInv, OneThread, NEW t \in Threads, AppendChild(t)
  PROVE  /\ call[t].dir \in N /\ node[t] \in N /\ UNCHANGED nodes
         /\ \A x \in N : ToSet(children'[x]) = IF x = call[t].dir
                                               THEN ToSet(children[x]) \cup {node[t]}
                                               ELSE ToSet(children[x])
  <1> USE DEF OneInv, IInv
  <1> DEFINE d == call[t].dir
             old == children[d]
  <1>1. /\ pc[t] = "append" /\ d \in N /\ d \in 1 .. MaxNodes /\ node[t] \in N /\ UNCHANGED nodes
        /\ item[t] = IF old = <<>> THEN None ELSE Last(old)
    BY NodesCount DEF AppendChild, GotChild, Return, Go, Arguments, Fresh, Making, Current, Adding
  <1>2. /\ old \in Seq(N) /\ DOMAIN old = 1 .. Len(old) /\ Len(old) \in Nat
        /\ \A k \in DOMAIN old : old[k] \in N
    BY <1>1, ListOf
  <1>3. PICK new \in Seq(N) :
          /\ children' = [children EXCEPT ![call[t].dir] = new]
          /\ Appended(children[call[t].dir], new, node[t], item[t])
    BY ListAppended
  <1>4. \A j, k \in DOMAIN old : old[j] = old[k] => j = k
    BY <1>1 DEF SiblingNamesUnique, N
  <1> HIDE DEF d, old
  <1>5. Appended(old, new, node[t], item[t])
    BY <1>3 DEF d, old
  <1>6. /\ DOMAIN new = 1 .. Len(old) + 1
        /\ \A j \in DOMAIN old : new[j] = old[j]
        /\ new[Len(old) + 1] = node[t]
    <2>1. CASE old = <<>>
      <3>1. Len(old) = 0 /\ item[t] = None
        BY <1>1, <2>1
      <3>2. Len(new) = 1 /\ new[1] = node[t]
        BY <1>5, <3>1 DEF Appended
      <3> QED BY <1>2, <3>1, <3>2, LenProperties
    <2>2. CASE old # <<>>
      <3>1. Len(old) \in DOMAIN old /\ item[t] = old[Len(old)]
        BY <1>1, <1>2, <2>2, EmptySeq DEF Last
      <3>2. item[t] # None /\ Contains(old, item[t])
        BY <1>2, <3>1 DEF Contains, None, N
      <3>3. PICK c \in 0 .. Len(old) :
              /\ Len(new) = c + 1
              /\ \A j \in 1 .. c : new[j] = old[j]
              /\ new[c + 1] = node[t]
              /\ IF c = 0 THEN item[t] = None ELSE old[c] = item[t]
        BY <1>5, <3>2 DEF Appended
      <3>4. c = Len(old)
        <4>1. c # 0 /\ old[c] = item[t]
          BY <3>2, <3>3
        <4>2. c \in DOMAIN old
          BY <1>2, <4>1
        <4> QED BY <1>4, <3>1, <4>1, <4>2
      <3> QED BY <1>2, <3>3, <3>4, LenProperties
    <2> QED BY <2>1, <2>2
  <1>7. ToSet(new) = ToSet(old) \cup {node[t]}
    BY <1>2, <1>6 DEF ToSet
  <1>8. \A x \in N : children'[x] = IF x = d THEN new ELSE children[x]
    BY <1>3, NodesCount DEF Shape, d
  <1> QED BY <1>1, <1>7, <1>8 DEF d, old

LEMMA ListsAfterDelete ==
  ASSUME IInv, NEW t \in Threads, DeleteChildIfExists(t), ~ TreeStays
  PROVE  \E c \in ToSet(children[call[t].dir]) :
           /\ call[t].dir \in N /\ UNCHANGED nodes
           /\ \A x \in N : ToSet(children'[x]) = ToSet(children[x]) \ {c}
           /\ freed' = freed \cup Below(c)
  <1> USE DEF IInv
  <1> DEFINE d == call[t].dir
             old == children[d]
  <1>1. PICK k \in First(call[t].dir, call[t].name), new \in Seq(N) :
          /\ children' = [children EXCEPT ![call[t].dir] = new]
          /\ Cut(children[call[t].dir], new, k)
          /\ freed' = freed \cup Below(children[call[t].dir][k])
    BY ListCut
  <1>2. d \in N /\ d \in 1 .. MaxNodes /\ UNCHANGED nodes
    BY ListCut, NodesCount
  <1>3. old \in Seq(N) /\ DOMAIN old = 1 .. Len(old) /\ Len(old) \in Nat /\ k \in DOMAIN old
    BY <1>1, <1>2, ListOf, FirstIsNamed
  <1>4. \A i, j \in DOMAIN old : old[i] = old[j] => i = j
    BY <1>2 DEF SiblingNamesUnique, N
  <1>5. \A x \in N \ {d} : old[k] \notin ToSet(children[x])
    <2>1. old[k] \in ToSet(children[d])
      BY <1>3 DEF ToSet
    <2>2. nodes[old[k]].parent = d
      BY <1>2, <2>1, ListsAsSets
    <2> QED BY <2>2, ListsAsSets
  <1> HIDE DEF d, old
  <1>6. Cut(old, new, k) /\ DOMAIN new = 1 .. Len(old) - 1
    BY <1>1, LenProperties DEF d, old, Cut
  <1>7. ToSet(new) = ToSet(old) \ {old[k]}
    <2>1. ToSet(new) \subseteq ToSet(old) \ {old[k]}
      <3> SUFFICES ASSUME NEW j \in DOMAIN new PROVE new[j] \in ToSet(old) \ {old[k]}
        BY DEF ToSet
      <3>1. new[j] = IF j < k THEN old[j] ELSE old[j + 1]
        BY <1>6 DEF Cut
      <3>2. CASE j < k
        BY <1>3, <1>4, <1>6, <3>1, <3>2 DEF ToSet
      <3>3. CASE ~ (j < k)
        <4>1. j + 1 \in DOMAIN old /\ j + 1 # k
          BY <1>3, <1>6, <3>3
        <4> QED BY <1>3, <1>4, <3>1, <3>3, <4>1 DEF ToSet
      <3> QED BY <3>2, <3>3
    <2>2. ToSet(old) \ {old[k]} \subseteq ToSet(new)
      <3> SUFFICES ASSUME NEW j \in DOMAIN old, j # k PROVE old[j] \in ToSet(new)
        BY DEF ToSet
      <3>1. CASE j < k
        <4>1. j \in DOMAIN new /\ new[j] = old[j]
          BY <1>3, <1>6, <3>1 DEF Cut
        <4> QED BY <4>1 DEF ToSet
      <3>2. CASE ~ (j < k)
        <4>1. j - 1 \in 1 .. Len(old) - 1 /\ ~ (j - 1 < k) /\ (j - 1) + 1 = j
          BY <1>3, <3>2
        <4>2. j - 1 \in DOMAIN new /\ new[j - 1] = old[j]
          BY <1>6, <4>1 DEF Cut
        <4> QED BY <4>2 DEF ToSet
      <3> QED BY <3>1, <3>2
    <2> QED BY <2>1, <2>2
  <1>8. \A x \in N : children'[x] = IF x = d THEN new ELSE children[x]
    BY <1>1, NodesCount DEF Shape, d
  <1>9. \A x \in N : ToSet(children'[x]) = ToSet(children[x]) \ {old[k]}
    BY <1>5, <1>7, <1>8 DEF old
  <1>10. old[k] \in ToSet(children[d])
    BY <1>3 DEF ToSet, old
  <1>11. freed' = freed \cup Below(old[k])
    BY <1>1 DEF old, d
  <1> QED BY <1>2, <1>9, <1>10, <1>11 DEF d

-----------------------------------------------------------------------------
(* Where the tree leads after a step.                                      *)

LEMMA RootIsNode == IInv => Root \in N
  BY DEF IInv, Shape

LEMMA ReachStays ==
  ASSUME IInv, UNCHANGED children, N \subseteq N',
         \A x \in N' : ToSet(children'[x]) \subseteq N'
  PROVE  Below(Root)' = Below(Root)
  <1>1. /\ Root \in Below(Root) /\ Below(Root) \subseteq N
        /\ \A x \in Below(Root) : ToSet(children[x]) \subseteq Below(Root)
    BY ListsAsSets, DownIsClosed, BelowIsDown, RootIsNode
  <1>2. Below(Root)' \subseteq Below(Root)
    BY <1>1, DownIsLeast, BelowIsDown
  <1>3. /\ Root \in Below(Root)'
        /\ \A x \in Below(Root)' : ToSet(children'[x]) \subseteq Below(Root)'
    BY DownIsClosed, BelowIsDown, RootIsNode
  <1>4. Below(Root) \subseteq Below(Root)'
    <2>1. Below(Root)' \in SUBSET N
      BY <1>1, <1>2
    <2> QED BY <1>3, <2>1, DownIsLeast, BelowIsDown
  <1> QED BY <1>2, <1>4

\* A node that is appended is led to, and nothing else is that was not.
LEMMA ReachAfterAppend ==
  ASSUME OneInv, OneThread, NEW t \in Threads, AppendChild(t)
  PROVE  Below(Root)' = Below(Root) \cup {node[t]}
  <1> USE DEF OneInv
  <1> DEFINE d == call[t].dir
             n == node[t]
             B == Below(Root)
             C == Below(Root)'
  <1>1. /\ d \in N /\ n \in N /\ N' = N
        /\ \A x \in N : ToSet(children'[x]) = IF x = d THEN ToSet(children[x]) \cup {n}
                                              ELSE ToSet(children[x])
    BY ListsAfterAppend DEF N
  <1>2. d \in B /\ ToSet(children[n]) = {} /\ n \notin B
    BY DEF AppendChild, GotChild, Return, Go, Current, Alive, Making, ToSet
  <1>3. Root \in B /\ B \subseteq N /\ \A x \in B : ToSet(children[x]) \subseteq B
    BY ListsAsSets, DownIsClosed, BelowIsDown, RootIsNode
  <1>4. \A x \in N : ToSet(children'[x]) \subseteq N
    BY <1>1, ListsAsSets
  <1>5. Root \in C /\ C \subseteq N /\ \A x \in C : ToSet(children'[x]) \subseteq C
    BY <1>1, <1>4, DownIsClosed, BelowIsDown, RootIsNode
  <1>6. C \subseteq B \cup {n}
    <2>1. \A x \in B \cup {n} : ToSet(children'[x]) \subseteq B \cup {n}
      BY <1>1, <1>2, <1>3
    <2>2. B \cup {n} \in SUBSET N' /\ Root \in B \cup {n}
      BY <1>1, <1>3
    <2> HIDE DEF B, n
    <2> QED BY <2>1, <2>2, DownIsLeast, BelowIsDown
  <1>7. B \subseteq C
    <2>1. \A x \in C : ToSet(children[x]) \subseteq C
      BY <1>1, <1>5
    <2> HIDE DEF C
    <2> QED BY <1>5, <2>1, DownIsLeast, BelowIsDown
  <1>8. n \in C
    BY <1>1, <1>2, <1>5, <1>7
  <1> QED BY <1>6, <1>7, <1>8

\* What is not led to any more after a node was taken out is below it.
LEMMA ReachAfterDelete ==
  ASSUME IInv, NEW c, NEW d \in Below(Root), UNCHANGED nodes, c \in ToSet(children[d]),
         \A x \in N : ToSet(children'[x]) = ToSet(children[x]) \ {c}
  PROVE  /\ Below(Root)' \subseteq Below(Root) \ Below(c)
         /\ Below(Root) \subseteq Below(c) \cup Below(Root)'
  <1> DEFINE B == Below(Root)
             C == Below(Root)'
             E == Below(c)
  <1>1. Root \in B /\ B \subseteq N /\ \A x \in B : ToSet(children[x]) \subseteq B
    BY ListsAsSets, DownIsClosed, BelowIsDown, RootIsNode
  <1>2. N' = N /\ d \in N /\ c \in N /\ c # Root /\ Root < c
    BY <1>1, ListsAsSets, BelowAreYounger, RootIsNode, NodesCount DEF N, IInv, Root
  <1>3. c \in E /\ E \subseteq N /\ \A x \in E : ToSet(children[x]) \subseteq E
    BY <1>2, ListsAsSets, DownIsClosed, BelowIsDown
  <1>4. \A x \in N : ToSet(children'[x]) \subseteq N
    BY <1>2, ListsAsSets
  <1>5. Root \in C /\ C \subseteq N /\ \A x \in C : ToSet(children'[x]) \subseteq C
    BY <1>2, <1>4, DownIsClosed, BelowIsDown, RootIsNode
  <1>6. C \subseteq B \ E
    <2>1. ASSUME NEW x \in B \ E, NEW y \in ToSet(children'[x]) PROVE y \in B \ E
      <3>1. x \in N /\ y \in ToSet(children[x]) /\ y # c /\ nodes[y].parent = x /\ y \in B
        BY <1>1, <2>1, ListsAsSets
      <3>2. y \in E => x \in E
        BY <1>2, <3>1, ParentIsBelow
      <3> QED BY <3>1, <3>2
    <2>2. Root \notin E
      <3>1. Root \in E => c <= Root
        BY <1>2, BelowAreYounger
      <3> QED BY <1>2, <3>1, NodesCount DEF Root, IInv
    <2>3. B \ E \in SUBSET N' /\ Root \in B \ E
      BY <1>1, <1>2, <2>2
    <2> HIDE DEF B, E
    <2> QED BY <2>1, <2>3, DownIsLeast, BelowIsDown
  <1>7. B \subseteq E \cup C
    <2>1. \A x \in E \cup C : ToSet(children[x]) \subseteq E \cup C
      BY <1>3, <1>5
    <2>2. E \cup C \in SUBSET N /\ Root \in E \cup C
      BY <1>3, <1>5
    <2> HIDE DEF C, E
    <2> QED BY <2>1, <2>2, DownIsLeast, BelowIsDown
  <1> QED BY <1>6, <1>7

\* What a step does to what the tree leads to.
LEMMA ReachStep ==
  ASSUME OneInv, OneThread, NEW t \in Threads, Step(t)
  PROVE  \/ /\ ~ AppendChild(t) /\ UNCHANGED <<children, freed>> /\ Below(Root)' = Below(Root)
         \/ /\ AppendChild(t) /\ UNCHANGED <<nodes, freed>>
            /\ Below(Root)' = Below(Root) \cup {node[t]}
         \/ \E E \in SUBSET N :
              /\ DeleteChildIfExists(t) /\ UNCHANGED nodes /\ freed' = freed \cup E
              /\ Below(Root)' \subseteq Below(Root) \ E
              /\ Below(Root) \subseteq E \cup Below(Root)'
  <1> USE DEF OneInv
  <1>1. Shape' /\ N \subseteq N'
    BY ShapeStep, NodesStay DEF IInv
  <1>2. CASE AppendChild(t)
    BY <1>2, ReachAfterAppend DEF AppendChild
  <1>3. CASE ~ AppendChild(t) /\ (TreeStays \/ NewNode(t))
    <2>1. UNCHANGED <<children, freed>>
      BY <1>3 DEF TreeStays, NewNode
    <2>2. \A x \in N' : ToSet(children'[x]) \subseteq N'
      <3>1. \A x \in N' : x \in 1 .. MaxNodes
        <4>1. Len(nodes') \in Nat /\ Len(nodes') <= MaxNodes
          BY <1>1, LenProperties DEF Shape
        <4> QED BY <4>1, BoundsAssumption DEF N
      <3>2. \A x \in 1 .. MaxNodes : ToSet(children[x]) \subseteq N
        BY ListOf DEF ToSet, IInv
      <3> QED BY <1>1, <2>1, <3>1, <3>2
    <2> QED BY <1>1, <1>3, <2>1, <2>2, ReachStays
  <1>4. CASE DeleteChildIfExists(t) /\ ~ TreeStays
    <2>1. PICK c \in ToSet(children[call[t].dir]) :
            /\ call[t].dir \in N /\ UNCHANGED nodes
            /\ \A x \in N : ToSet(children'[x]) = ToSet(children[x]) \ {c}
            /\ freed' = freed \cup Below(c)
      BY <1>4, ListsAfterDelete
    <2>2. call[t].dir \in Below(Root)
      BY <1>4 DEF DeleteChildIfExists, Return, Go, Current
    <2>3. /\ Below(Root)' \subseteq Below(Root) \ Below(c)
          /\ Below(Root) \subseteq Below(c) \cup Below(Root)'
      BY <2>1, <2>2, ReachAfterDelete
    <2>4. Below(c) \in SUBSET N
      BY BelowAreNodes
    <2> QED BY <1>4, <2>1, <2>3, <2>4
  <1> QED BY <1>2, <1>3, <1>4, StepOfTree

LEMMA DistinctStep ==
  ASSUME OneInv, OneThread, NEW t \in Threads, Step(t)
  PROVE  Distinct'
  <1> USE DEF OneInv, IInv
  <1>1. Threads = {t}
    BY DEF OneThread
  <1>2. \A n \in N : nodes[n].inode \in Nat /\ sCurrentInode \in Nat
    BY NodesCount DEF Counting
  <1>3. CASE NewNode(t)
    <2> DEFINE n == Len(nodes) + 1
    <2>1. Pending = {} /\ Pending' = {t}
      BY <1>1, <1>3, PendingStep DEF Pending
    <2>2. Node(call[t].name, call[t].dir, sCurrentInode).inode = sCurrentInode
      BY DEF Node
    <2>3. /\ N' = N \cup {n} /\ n \notin N /\ nodes'[n].inode = sCurrentInode
          /\ \A m \in N : nodes'[m] = nodes[m]
          /\ node'[t] = n /\ UNCHANGED sCurrentInode
      BY <1>3, <2>2, NodeAppended DEF NewNode
    <2>4. \A m \in N : nodes[m].inode < sCurrentInode
      BY <2>1 DEF Distinct
    <2> HIDE DEF n
    <2>5. \A l, m \in N' : nodes'[l].inode = nodes'[m].inode => l = m
      BY <1>2, <2>3, <2>4 DEF Distinct
    <2>6. \A m \in N' : nodes'[m].inode < sCurrentInode' \/ \E u \in Pending' : node'[u] = m
      BY <2>1, <2>3, <2>4
    <2>7. \A u \in Pending' : nodes'[node'[u]].inode = sCurrentInode'
      BY <2>1, <2>3
    <2> QED BY <2>5, <2>6, <2>7 DEF Distinct
  <1>4. CASE NewInode(t)
    <2>1. Pending = {t} /\ Pending' = {}
      BY <1>1, <1>4, PendingStep DEF Pending
    <2>2. /\ sCurrentInode' \in {sCurrentInode + 1, nodes[node[t]].inode + 1}
          /\ UNCHANGED <<nodes, node>> /\ N' = N
      BY <1>4 DEF NewInode, N
    <2>3. sCurrentInode' = sCurrentInode + 1
      BY <2>1, <2>2 DEF Distinct
    <2>4. \A m \in N : nodes[m].inode < sCurrentInode + 1
      <3> SUFFICES ASSUME NEW m \in N PROVE nodes[m].inode < sCurrentInode + 1
        OBVIOUS
      <3>1. nodes[m].inode < sCurrentInode \/ nodes[m].inode = sCurrentInode
        BY <2>1 DEF Distinct
      <3> QED BY <1>2, <3>1
    <2> QED BY <2>1, <2>2, <2>3, <2>4 DEF Distinct
  <1>5. CASE ~ NewNode(t) /\ ~ NewInode(t)
    <2>1. Pending' = Pending /\ Pending = {}
      BY <1>1, <1>5, PendingStep DEF Pending
    <2>2. UNCHANGED <<nodes, sCurrentInode>>
      BY <1>5 DEF Step, Begin, HostDoes, HostRefuses, FindChild, MissChild, AppendChild,
             GetKnownVnode, GetNewVnode, GetNoVnode, DeleteChildIfExists, tree
    <2> QED BY <2>1, <2>2 DEF Distinct, N
  <1> QED BY <1>3, <1>4, <1>5

LEMMA AliveStep ==
  ASSUME OneInv, OneThread, NEW t \in Threads, Step(t)
  PROVE  Alive'
  <1> USE DEF OneInv, IInv
  <1>1. Threads = {t}
    BY DEF OneThread
  <1>2. Below(Root)' \cap freed' = {}
    <2>1. CASE AppendChild(t)
      <3>1. node[t] \notin freed
        BY <2>1 DEF AppendChild, GotChild, Return, Go, Alive, Making
      <3> QED BY <2>1, <3>1, ReachStep
             DEF Alive, AppendChild, DeleteChildIfExists, GotChild, Return, Go
    <2>2. CASE ~ AppendChild(t)
      BY <2>2, ReachStep DEF Alive
    <2> QED BY <2>1, <2>2
  <1>3. ASSUME Making(t)'
        PROVE  node'[t] \notin Below(Root)' \cup freed' /\ children'[node'[t]] = <<>>
    <2>1. NewNode(t) \/ NewInode(t)
      BY <1>3, StepOfPlaces DEF Places, Making
    <2>2. UNCHANGED <<children, freed>> /\ Below(Root)' = Below(Root)
      BY <2>1, ReachStep
         DEF NewNode, NewInode, AppendChild, DeleteChildIfExists, Go, GotChild, Return
    <2>3. CASE NewNode(t)
      <3>1. /\ node'[t] = Len(nodes) + 1 /\ Len(nodes) + 1 \notin N
            /\ Len(nodes) + 1 \in (1 .. MaxNodes) \ N
        BY <2>3, NodeAppended, BoundsAssumption
      <3>2. children[Len(nodes) + 1] = <<>>
        BY <3>1 DEF Shape
      <3> QED BY <2>2, <3>1, <3>2, BelowAreNodes DEF Shape
    <2>4. CASE NewInode(t)
      BY <2>2, <2>4 DEF NewInode, Go, Alive, Making
    <2> QED BY <2>1, <2>3, <2>4
  <1> QED BY <1>1, <1>2, <1>3 DEF Alive

LEMMA KnownStep ==
  ASSUME OneInv, OneThread, NEW t \in Threads, Step(t)
  PROVE  Known'
  <1> USE DEF OneInv, IInv
  <1>1. freed \cup Below(Root) \subseteq freed' \cup Below(Root)'
    BY ReachStep
  <1>2. \A i \in DOMAIN vnodes : vnodes[i].node \in N
    BY DEF Outside
  <1>3. CASE GetNewVnode(t)
    <2>1. PICK n \in Resolve(Inode(t)) :
            vnodes' = [j \in DOMAIN vnodes \cup {Inode(t)} |->
                         IF j = Inode(t) THEN [node |-> n, kind |-> host[Path(n)]]
                         ELSE vnodes[j]]
      BY <1>3 DEF GetNewVnode
    <2>2. n \in Below(Root) /\ nodes[n].inode = Inode(t) /\ n \in N
      BY BelowAreNodes DEF Resolve
    <2>3. UNCHANGED nodes
      BY <1>3 DEF GetNewVnode, tree
    <2>4. ASSUME NEW i \in DOMAIN vnodes'
          PROVE  nodes'[vnodes'[i].node].inode = i /\ vnodes'[i].node \in freed' \cup Below(Root)'
      <3>1. CASE i = Inode(t)
        <4>1. vnodes'[i].node = n
          BY <2>1, <3>1
        <4> QED BY <1>1, <2>2, <2>3, <3>1, <4>1
      <3>2. CASE i # Inode(t)
        <4>1. i \in DOMAIN vnodes /\ vnodes'[i] = vnodes[i]
          BY <2>1, <2>4, <3>2
        <4> QED BY <1>1, <2>3, <4>1 DEF Known
      <3> QED BY <3>1, <3>2
    <2> QED BY <2>4 DEF Known
  <1>4. CASE ~ GetNewVnode(t)
    <2>1. UNCHANGED vnodes
      BY <1>4 DEF Step, Begin, HostDoes, HostRefuses, FindChild, MissChild, NewNode, NewInode,
             AppendChild, GetKnownVnode, GetNoVnode, DeleteChildIfExists
    <2>2. \A i \in DOMAIN vnodes : nodes'[vnodes[i].node] = nodes[vnodes[i].node]
      BY <1>2, NodesStay
    <2> QED BY <1>1, <2>1, <2>2 DEF Known
  <1> QED BY <1>3, <1>4

\* The vnodes that are not freed are in the tree.
LEMMA DirsAreReached ==
  OneInv => Dirs \subseteq Below(Root)
  BY DEF OneInv, Known, Dirs, Range

LEMMA FoundChild ==
  ASSUME OneInv, NEW d \in Below(Root), NEW name, name = ".." => d # Root, NEW n \in Child(d, name)
  PROVE  /\ n \in Below(Root)
         /\ IF name = ".." THEN n = nodes[d].parent
            ELSE n # Root /\ nodes[n].name = name /\ nodes[n].parent = d
  <1> USE DEF OneInv
  <1>1. d \in N /\ d \in 1 .. MaxNodes /\ Root \in N
    BY BelowAreNodes, RootIsNode, NodesCount DEF IInv
  <1>2. CASE name = ".."
    BY <1>1, <1>2, ParentIsBelow DEF Child
  <1>3. CASE name # ".."
    <2>1. PICK k \in First(d, name) : n = children[d][k]
      BY <1>3 DEF Child
    <2>2. n \in ToSet(children[d]) /\ nodes[n].name = name
      BY <2>1, FirstIsNamed DEF ToSet
    <2>3. n # Root /\ nodes[n].parent = d
      BY <1>1, <2>2, ListsAsSets
    <2>4. n \in Below(Root)
      BY <1>1, <2>2, ListsAsSets, DownIsClosed, BelowIsDown
    <2> QED BY <1>3, <2>2, <2>3, <2>4
  <1> QED BY <1>2, <1>3

LEMMA CurrentStep ==
  ASSUME OneInv, OneThread, NEW t \in Threads, Step(t)
  PROVE  Current'
  <1> USE DEF OneInv, IInv
  <1>1. Threads = {t}
    BY DEF OneThread
  <1> DEFINE Found(n) ==
               /\ n \in Below(Root)'
               /\ IF call'[t].name = ".." THEN n = nodes'[call'[t].dir].parent
                  ELSE /\ n # Root /\ nodes'[n].name = call'[t].name
                       /\ nodes'[n].parent = call'[t].dir
  <1>2. ASSUME pc'[t] # "idle" PROVE call'[t].dir \in Below(Root)'
    <2>1. CASE Begin(t)
      <3>1. PICK hook \in Hooks, dir \in Dirs, to \in Dirs, name \in Names \cup {".."},
                 toName \in Names \cup {".."} : Begins(t, hook, dir, to, name, toName)
        BY <2>1, Zenon DEF Begin, Begins
      <3> DEFINE c == [hook |-> hook, dir |-> dir, name |-> name, to |-> to, toName |-> toName]
      <3>2. c.dir = dir
        OBVIOUS
      <3>3. call' = [call EXCEPT ![t] = c]
        BY <3>1 DEF Begins
      <3> HIDE DEF c
      <3>4. call'[t].dir = dir
        BY <3>2, <3>3 DEF Calling
      <3>5. Below(Root)' = Below(Root)
        BY <2>1, ReachStep DEF Begin, AppendChild, DeleteChildIfExists, GotChild, Return, Go
      <3> QED BY <3>4, <3>5, DirsAreReached
    <2>2. CASE ~ Begin(t)
      <3>1. pc[t] # "idle" /\ call'[t] = call[t] /\ call[t].dir \in Below(Root)
        BY <1>2, <2>2, StepOfPlaces DEF Places, Current
      <3>2. ~ DeleteChildIfExists(t)
        BY <1>2 DEF DeleteChildIfExists, Return, Go, Calling
      <3> QED BY <3>1, <3>2, ReachStep
    <2> QED BY <2>1, <2>2
  <1>3. ASSUME Adding(t)'
        PROVE  LET list == children'[call'[t].dir]
               IN  item'[t] = IF list = <<>> THEN None ELSE Last(list)
    <2>1. MissChild(t) \/ NewNode(t) \/ NewInode(t)
      BY <1>3, StepOfPlaces DEF Places, Adding
    <2>2. CASE MissChild(t)
      BY <2>2, Missed
    <2>3. CASE NewNode(t) \/ NewInode(t)
      <3>1. Adding(t) /\ UNCHANGED <<children, call, item>>
        BY <2>3 DEF NewNode, NewInode, Go, Adding
      <3>2. LET list == children[call[t].dir]
            IN  item[t] = IF list = <<>> THEN None ELSE Last(list)
        BY <3>1 DEF Current, Adding
      <3> QED BY <3>1, <3>2
    <2> QED BY <2>1, <2>2, <2>3
  <1>4. ASSUME pc'[t] = "get" PROVE Found(node'[t])
    <2>1. FindChild(t) \/ AppendChild(t)
      BY <1>4 DEF Step, Begin, HostDoes, HostRefuses, MissChild, NewNode, NewInode, GetKnownVnode,
             GetNewVnode, GetNoVnode, DeleteChildIfExists, Return, Go, Calling
    <2>2. CASE FindChild(t)
      <3>1. PICK n \in Child(call[t].dir, call[t].name) : GotChild(t, "scan", n)
        BY <2>2 DEF FindChild
      <3>2. node'[t] = n /\ call' = call /\ nodes' = nodes
        BY <1>4, <2>2, <3>1 DEF FindChild, GotChild, Return, Go, Calling, tree
      <3>3. call[t].dir \in Below(Root) /\ (call[t].name = ".." => call[t].dir # Root)
        BY <2>2 DEF FindChild, Current, Arguments
      <3>4. Below(Root)' = Below(Root)
        BY <2>2, ReachStep DEF FindChild, AppendChild, DeleteChildIfExists, GotChild, Return, Go
      <3> QED BY <3>2, <3>3, <3>4, FoundChild
    <2>3. CASE AppendChild(t)
      <3>1. pc[t] = "append" /\ call' = call /\ node'[t] = node[t] /\ nodes' = nodes
        BY <1>4, <2>3 DEF AppendChild, GotChild, Return, Go, Calling
      <3>2. Below(Root)' = Below(Root) \cup {node[t]}
        BY <2>3, ReachAfterAppend
      <3>3. /\ nodes[node[t]].name = call[t].name /\ nodes[node[t]].parent = call[t].dir
            /\ call[t].dir \in N /\ call[t].name # ".."
        BY <3>1 DEF Fresh, Making, Arguments, Adding
      <3>4. node[t] # Root
        BY <3>3, NodesCount DEF Shape, None, N
      <3> QED BY <3>1, <3>2, <3>3, <3>4
    <2> QED BY <2>1, <2>2, <2>3
  <1> HIDE DEF OneInv, IInv
  <1> QED BY <1>1, <1>2, <1>3, <1>4 DEF Current

LEMMA OneInitInvariant == Init => OneInv
  <1> SUFFICES ASSUME Init PROVE OneInv
    OBVIOUS
  <1>1. IInv
    BY InitInvariant
  <1>2. N = {1} /\ \A n \in N : nodes[n].inode = 2
    <2> DEFINE root == Node("", None, 2)
    <2>1. nodes = <<root>> /\ root.inode = 2
      BY DEF Init, Node
    <2> HIDE DEF root
    <2> QED BY <2>1 DEF N
  <1>3. Pending = {} /\ freed = {} /\ sCurrentInode = 3 /\ \A t \in Threads : pc[t] = "idle"
    BY DEF Init, Pending
  <1>4. Distinct
    <2>1. \A n \in N : nodes[n].inode < sCurrentInode /\ n = 1
      BY <1>2, <1>3
    <2> QED BY <1>3, <2>1 DEF Distinct
  <1>5. Alive /\ Current
    BY <1>3 DEF Alive, Current, Making
  <1>6. Root \in Below(Root)
    BY <1>1, ListsAsSets, DownIsClosed, BelowIsDown, RootIsNode
  <1>7. Known
    BY <1>2, <1>6 DEF Known, Init, Root
  <1> QED BY <1>1, <1>4, <1>5, <1>7 DEF OneInv

LEMMA OneStepInvariant ==
  ASSUME OneThread
  PROVE  OneInv /\ [Next]_vars => OneInv'
  <1> SUFFICES ASSUME OneInv, [Next]_vars PROVE OneInv'
    OBVIOUS
  <1>1. IInv'
    BY StepInvariant DEF OneInv
  <1>2. CASE \E t \in Threads : Step(t)
    BY <1>1, <1>2, DistinctStep, AliveStep, KnownStep, CurrentStep DEF OneInv
  <1>3. CASE ~ \E t \in Threads : Step(t)
    <2>1. /\ UNCHANGED <<nodes, children, freed, sCurrentInode, pc, call, item, node>>
          /\ DOMAIN vnodes' \subseteq DOMAIN vnodes
          /\ \A i \in DOMAIN vnodes' : vnodes'[i] = vnodes[i]
      <3>1. CASE PutVnode \/ HostMakes \/ HostRemoves
        BY <3>1 DEF PutVnode, HostMakes, HostRemoves, tree, thread
      <3>2. CASE UNCHANGED vars
        BY <3>2 DEF vars, tree, thread
      <3> QED BY <1>3, <3>1, <3>2 DEF Next
    <2>2. Below(Root)' = Below(Root)
      BY <2>1 DEF Below, Closed
    <2>3. Distinct'
      BY <2>1 DEF OneInv, Distinct, N, Pending
    <2>4. Alive'
      BY <2>1, <2>2 DEF OneInv, Alive, Making
    <2>5. Known'
      BY <2>1, <2>2 DEF OneInv, Known
    <2>6. Current'
      BY <2>1, <2>2 DEF OneInv, Current, Adding
    <2> QED BY <1>1, <2>3, <2>4, <2>5, <2>6 DEF OneInv
  <1> QED BY <1>2, <1>3

-----------------------------------------------------------------------------
(* Paths.                                                                  *)

\* path is a function on the first k nodes that spells a path from the parent's.
Spells(path, k) ==
  path = [m \in 1 .. k |-> IF m = Root THEN <<>>
                           ELSE Append(path[nodes[m].parent], nodes[m].name)]

LEMMA LongerPaths ==
  ASSUME Shape, NEW k \in Nat, k + 1 \in N, NEW path, Spells(path, k)
  PROVE  \E longer : Spells(longer, k + 1)
  <1> DEFINE At(f, m) == IF m = Root THEN <<>> ELSE Append(f[nodes[m].parent], nodes[m].name)
             longer == [m \in 1 .. k + 1 |-> IF m = k + 1 THEN At(path, m) ELSE path[m]]
  <1>1. \A m \in 1 .. k + 1 : m # Root => nodes[m].parent \in 1 .. k /\ nodes[m].parent # k + 1
    <2> SUFFICES ASSUME NEW m \in 1 .. k + 1, m # Root PROVE nodes[m].parent \in 1 .. k
      OBVIOUS
    <2>1. m \in N \ {Root}
      BY NodesCount DEF N
    <2>2. nodes[m].parent \in 1 .. m - 1
      BY <2>1 DEF Shape
    <2> QED BY <2>2
  <1>2. \A m \in 1 .. k : path[m] = At(path, m)
    BY DEF Spells
  <1>3. \A m \in 1 .. k : longer[m] = path[m]
    OBVIOUS
  <1>4. longer[k + 1] = At(path, k + 1)
    OBVIOUS
  <1>5. \A m \in 1 .. k + 1 : At(longer, m) = At(path, m)
    <2> SUFFICES ASSUME NEW m \in 1 .. k + 1, m # Root
                 PROVE  longer[nodes[m].parent] = path[nodes[m].parent]
      OBVIOUS
    <2> QED BY <1>1, <1>3
  <1>6. \A m \in 1 .. k + 1 : longer[m] = At(longer, m)
    <2> HIDE DEF longer, At
    <2> QED BY <1>2, <1>3, <1>4, <1>5
  <1>7. longer = [m \in 1 .. k + 1 |-> longer[m]]
    OBVIOUS
  <1>8. longer = [m \in 1 .. k + 1 |-> At(longer, m)]
    <2> HIDE DEF longer, At
    <2> QED BY <1>6, <1>7
  <1> QED BY <1>8 DEF Spells

LEMMA PathsExist ==
  ASSUME Shape
  PROVE  \E path : Spells(path, Len(nodes))
  <1> DEFINE Bad == {k \in 0 .. Len(nodes) : ~ \E path : Spells(path, k)}
  <1>1. Len(nodes) \in Nat
    BY NodesCount
  <1>2. CASE Bad = {}
    BY <1>1, <1>2
  <1>3. CASE Bad # {}
    <2>0. Bad \in SUBSET Nat
      BY <1>1
    <2>1. PICK k \in Bad : \A l \in Bad : k <= l
      <3> HIDE DEF Bad
      <3> QED BY <1>3, <2>0, LeastOf
    <2>2. k # 0
      <3>1. Spells([m \in 1 .. 0 |-> <<>>], 0)
        BY DEF Spells
      <3> QED BY <3>1
    <2>3. k - 1 \in 0 .. Len(nodes) /\ k - 1 \notin Bad /\ k \in N
      BY <1>1, <2>1, <2>2 DEF N
    <2>4. PICK path : Spells(path, k - 1)
      BY <2>3
    <2>5. \E longer : Spells(longer, k)
      <3>1. k - 1 \in Nat /\ (k - 1) + 1 = k
        BY <2>3
      <3> QED BY <2>3, <2>4, <3>1, LongerPaths
    <2> QED BY <2>5
  <1> QED BY <1>2, <1>3

\* CopyPathTo goes from a node to its parent.
LEMMA PathOfNode ==
  ASSUME Shape, NEW n \in N, n # Root
  PROVE  Path(n) = Append(Path(nodes[n].parent), nodes[n].name)
  <1> DEFINE path == CHOOSE f : f = [m \in DOMAIN nodes |->
                        IF m = Root THEN <<>> ELSE Append(f[nodes[m].parent], nodes[m].name)]
  <1>1. DOMAIN nodes = 1 .. Len(nodes) /\ Len(nodes) \in Nat
    BY LenProperties DEF Shape
  <1>2. \E f : f = [m \in DOMAIN nodes |->
                  IF m = Root THEN <<>> ELSE Append(f[nodes[m].parent], nodes[m].name)]
    BY <1>1, PathsExist DEF Spells
  <1>3. path = [m \in DOMAIN nodes |->
                  IF m = Root THEN <<>> ELSE Append(path[nodes[m].parent], nodes[m].name)]
    BY <1>2
  <1>4. \A m : Path(m) = path[m]
    BY DEF Path
  <1> HIDE DEF path
  <1>5. path[n] = Append(path[nodes[n].parent], nodes[n].name)
    BY <1>1, <1>3 DEF N
  <1> QED BY <1>4, <1>5

-----------------------------------------------------------------------------
(* The results for one hook at a time.                                     *)

LEMMA OneInvariance ==
  ASSUME OneThread
  PROVE  Spec => []OneInv
  BY OneInitInvariant, OneStepInvariant, PTL DEF Spec

\* One hook at a time, remove_dir leaves no way to what it freed, whatever was below it
\* (VMWNode::DeleteChildIfExists and the destructor).
THEOREM TreeStaysAlive ==
  ASSUME OneThread
  PROVE  Spec => []TreeIsAlive
  <1>1. OneInv => TreeIsAlive
    BY DEF OneInv, Alive, TreeIsAlive
  <1> QED BY <1>1, OneInvariance, PTL

LEMMA InodeOfOne ==
  ASSUME OneInv, NEW n \in Below(Root)
  PROVE  Resolve(nodes[n].inode) = {n}
  BY BelowAreNodes DEF OneInv, Distinct, Resolve

\* One hook at a time, vmwfs_get_vnode finds for an inode the node that the VFS knows
\* by it, and only that one, as long as it is not freed.
THEOREM InodesLeadBack ==
  ASSUME OneThread
  PROVE  Spec => []VnodesResolve
  <1>1. OneInv => VnodesResolve
    <2> SUFFICES ASSUME OneInv, NEW i \in DOMAIN vnodes, vnodes[i].node \notin freed
                 PROVE  Resolve(i) = {vnodes[i].node}
      BY DEF VnodesResolve
    <2>1. vnodes[i].node \in Below(Root) /\ nodes[vnodes[i].node].inode = i
      BY DEF OneInv, Known
    <2> QED BY <2>1, InodeOfOne
  <1> QED BY <1>1, OneInvariance, PTL

\* One hook at a time, what a lookup or a create hands to the VFS is a vnode for the
\* path it was asked for: its node is in the tree, and is the one the path ends in.
THEOREM NamesMeanTheirFiles ==
  ASSUME OneThread
  PROVE  Spec => NameMeansItsFile
  <1> DEFINE Means == \A t \in Threads :
                        pc[t] = "get" /\ pc'[t] = "idle" /\ Inode(t) \in DOMAIN vnodes' =>
                          /\ vnodes'[Inode(t)].node \notin freed
                          /\ Path(vnodes'[Inode(t)].node) = PathOf(t)
  <1>1. ASSUME OneInv, [Next]_vars PROVE [Means]_vars
    <2> SUFFICES ASSUME NEW t \in Threads, Next,
                        pc[t] = "get", pc'[t] = "idle", Inode(t) \in DOMAIN vnodes'
                 PROVE  /\ vnodes'[Inode(t)].node \notin freed
                        /\ Path(vnodes'[Inode(t)].node) = PathOf(t)
      BY <1>1
    <2>1. /\ Shape /\ node[t] \in Below(Root) /\ node[t] \in N
          /\ IF call[t].name = ".." THEN node[t] = nodes[call[t].dir].parent
             ELSE /\ node[t] # Root /\ nodes[node[t]].name = call[t].name
                  /\ nodes[node[t]].parent = call[t].dir
      BY <1>1, BelowAreNodes DEF OneInv, IInv, Current
    <2>2. Path(node[t]) = PathOf(t)
      BY <2>1, PathOfNode DEF PathOf, CopyPathTo
    <2>3. node[t] \notin freed
      BY <1>1, <2>1 DEF OneInv, Alive
    <2>4. vnodes'[Inode(t)].node = node[t]
      <3>1. GetKnownVnode(t) \/ GetNewVnode(t) \/ GetNoVnode(t)
        <4>1. Step(t)
          BY <1>1, OthersStay, StepOutside DEF Next, OneThread, thread, OneInv, IInv
        <4> QED BY <4>1 DEF Step, Begin, HostDoes, HostRefuses, FindChild, MissChild, NewNode,
               NewInode, AppendChild, GotChild, DeleteChildIfExists, Return, Go
      <3>2. Resolve(Inode(t)) = {node[t]}
        BY <1>1, <2>1, InodeOfOne DEF Inode
      <3>3. CASE GetKnownVnode(t)
        <4>1. vnodes' = vnodes /\ Inode(t) \in DOMAIN vnodes
          BY <3>3 DEF GetKnownVnode
        <4>2. nodes[vnodes[Inode(t)].node].inode = Inode(t) /\ vnodes[Inode(t)].node \in N
          BY <1>1, <4>1 DEF OneInv, Known, IInv, Outside
        <4> QED BY <1>1, <2>1, <4>1, <4>2 DEF OneInv, Distinct, Inode
      <3>4. CASE GetNewVnode(t)
        BY <3>2, <3>4 DEF GetNewVnode
      <3>5. CASE GetNoVnode(t)
        BY <3>5 DEF GetNoVnode
      <3> QED BY <3>1, <3>3, <3>4, <3>5
    <2> QED BY <2>2, <2>3, <2>4
  <1> QED BY <1>1, OneInvariance, PTL DEF Spec, NameMeansItsFile

=============================================================================
