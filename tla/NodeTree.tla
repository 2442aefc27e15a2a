------------------------------ MODULE NodeTree ------------------------------
(***************************************************************************)
(* The directory hooks of the file system and the tree of VMWNodes behind  *)
(* them.  The host knows files by path, the VFS by inode number: a VMWNode *)
(* ties one to the other.  It is made the first time a hook meets a name,  *)
(* with the next inode number, and is appended to its parent's list; its   *)
(* path is spelled from its name and its parents' names ever after.        *)
(*                                                                         *)
(* Nothing locks the tree.  Each hook is taken apart where another thread  *)
(* can come between: the command sent to the host, the search of the list, *)
(* the two halves of fInode = sCurrentInode; sCurrentInode++, the append,  *)
(* and the call of get_vnode.                                              *)
(*                                                                         *)
(* External: the host's files, which change on their own too, and the VFS, *)
(* which keeps a table of vnodes by inode number, calls a hook on a vnode  *)
(* it keeps meanwhile, and forgets the others when it likes.  A hook on a  *)
(* vnode whose VMWNode was freed (by remove_dir) is undefined behaviour    *)
(* and not modelled.  Neither are the node monitor's messages, memory      *)
(* running out and paths longer than B_PATH_NAME_LENGTH.                   *)
(***************************************************************************)
EXTENDS Integers, FiniteSets, SequencesExt

CONSTANTS
  Threads,
  Names,     \* names of files
  Hooks,     \* the hooks that are called
  MaxNodes,  \* bound on the VMWNodes ever made
  MaxDepth,  \* bound on the length of a path
  MaxFiles   \* bound on what the host holds, its root included

AllHooks ==
  {"lookup", "create", "create_dir", "read_dir", "remove_dir", "unlink", "rename"}

ASSUME HooksAssumption == Hooks \subseteq AllHooks
ASSUME NamesAssumption == Names \cap {"", ".."} = {}
ASSUME ThreadsAssumption == IsFiniteSet(Threads)
ASSUME BoundsAssumption == {MaxDepth, MaxFiles} \subseteq Nat /\ MaxNodes \in Nat \ {0}

VARIABLES
  nodes,          \* every VMWNode made: its fName, fParent and fInode
  children,       \* fChildren, as the list of nodes reached from it
  freed,          \* the VMWNodes deleted
  sCurrentInode,
  vnodes,         \* the VFS: private_node and type of each vnode it knows
  host,           \* the host: what is at each path, "file" or "dir"
  pc, call,       \* the hook each thread is in, and its arguments
  item, node      \* GetChild's locals: the last item seen, the node found

tree == <<nodes, children, freed, sCurrentInode>>
thread == <<pc, call, item, node>>
vars == <<tree, vnodes, host, thread>>

Root == 1
None == 0
Node(name, parent, inode) == [name |-> name, parent |-> parent, inode |-> inode]
NoCall == [hook |-> "none", dir |-> None, name |-> "", to |-> None, toName |-> ""]

Init ==
  /\ nodes = <<Node("", None, 2)>>
  /\ children = [n \in 1 .. MaxNodes |-> <<>>]
  /\ freed = {}
  /\ sCurrentInode = 3
  /\ vnodes = [i \in {2} |-> [node |-> Root, kind |-> "dir"]]
  /\ host = [p \in {<<>>} |-> "dir"]
  /\ pc = [t \in Threads |-> "idle"]
  /\ call = [t \in Threads |-> NoCall]
  /\ item = [t \in Threads |-> None]
  /\ node = [t \in Threads |-> None]

-----------------------------------------------------------------------------
(* VMWNode.                                                                *)

\* CopyPathTo: the path of a node, and of a name in it.
Path(n) ==
  LET path[m \in DOMAIN nodes] ==
        IF m = Root THEN <<>> ELSE Append(path[nodes[m].parent], nodes[m].name)
  IN  path[n]

CopyPathTo(n, name) ==
  IF name = ".." THEN Path(nodes[n].parent) ELSE Append(Path(n), name)

\* The children of d called name: GetChild and DeleteChildIfExists stop at the
\* first.
Named(d, name) == {k \in DOMAIN children[d] : nodes[children[d][k]].name = name}

First(d, name) == {k \in Named(d, name) : \A l \in Named(d, name) : k <= l}

\* What GetChild(name) finds in d, if anything.
Child(d, name) ==
  IF name = ".." THEN {nodes[d].parent}
  ELSE {children[d][k] : k \in First(d, name)}

\* The nodes that can be reached from n, which its destructor deletes: those in
\* every set that n is in, and with a node its children.
Closed(S) == \A m \in S : ToSet(children[m]) \subseteq S
Below(n) ==
  {m \in 1 .. Len(nodes) : \A S \in SUBSET (1 .. Len(nodes)) :
                             n \in S /\ Closed(S) => m \in S}

\* GetChild(inode): a search from the root.
Resolve(inode) == {n \in Below(Root) : nodes[n].inode = inode}

-----------------------------------------------------------------------------
(* The host.                                                               *)

IsDir(p) == p \in DOMAIN host /\ host[p] = "dir"
Parent(p) == SubSeq(p, 1, Len(p) - 1)
Entries(p) == {q \in DOMAIN host : Len(q) = Len(p) + 1 /\ Parent(q) = p}

With(p, kind) == [q \in DOMAIN host \cup {p} |-> IF q = p THEN kind ELSE host[q]]
Without(p) == [q \in DOMAIN host \ {p} |-> host[q]]

\* Moves p, and what is below it, to q.
Moved(p, q) ==
  LET to(r) == IF IsPrefix(p, r) THEN q \o SubSeq(r, Len(p) + 1, Len(r)) ELSE r
  IN  [s \in {to(r) : r \in DOMAIN host} |->
         host[CHOOSE r \in DOMAIN host : to(r) = s]]

HasRoom == Cardinality(DOMAIN host) < MaxFiles

\* Somebody works on the host itself.
HostMakes ==
  /\ \E p \in DOMAIN host, name \in Names, kind \in {"file", "dir"} :
       /\ IsDir(p) /\ Len(p) < MaxDepth
       /\ Append(p, name) \notin DOMAIN host /\ HasRoom
       /\ host' = With(Append(p, name), kind)
  /\ UNCHANGED <<tree, vnodes, thread>>

HostRemoves ==
  /\ \E p \in DOMAIN host \ {<<>>} : Entries(p) = {} /\ host' = Without(p)
  /\ UNCHANGED <<tree, vnodes, thread>>

-----------------------------------------------------------------------------
(* The hooks.                                                              *)

Go(t, from, to) == pc[t] = from /\ pc' = [pc EXCEPT ![t] = to]

\* The hook returns, whatever its status.
Return(t, from) ==
  /\ Go(t, from, "idle")
  /\ call' = [call EXCEPT ![t] = NoCall]
  /\ item' = [item EXCEPT ![t] = None]
  /\ node' = [node EXCEPT ![t] = None]

\* The directories of the vnodes the VFS knows.
Dirs == {v.node : v \in {u \in Range(vnodes) : u.kind = "dir"}} \ freed

\* The VFS calls a hook.  unlink and rename search the tree first, the others
\* send the host a command first.
Begin(t) ==
  /\ \E hook \in Hooks, dir, to \in Dirs, name, toName \in Names \cup {".."} :
       /\ name = ".." => hook = "lookup" /\ dir # Root
       /\ Len(CopyPathTo(dir, name)) <= MaxDepth
       /\ IF hook = "rename"
          THEN toName \in Names /\ Len(CopyPathTo(to, toName)) <= MaxDepth
          ELSE to = Root /\ toName = ".."
       /\ call' = [call EXCEPT ![t] = [hook |-> hook, dir |-> dir, name |-> name,
                                       to |-> to, toName |-> toName]]
       /\ Go(t, "idle", IF hook \in {"unlink", "rename"} THEN "scan" ELSE "rpc")
  /\ UNCHANGED <<tree, vnodes, host, item, node>>

Calls(t, hook) == call[t].hook = hook
PathOf(t) == CopyPathTo(call[t].dir, call[t].name)

\* The command the hook sends, when the host carries it out, and what follows.
\* The listing read_dir continues may be older than any change of the directory.
Command(t) ==
  LET p == PathOf(t)
      q == CopyPathTo(call[t].to, call[t].toName)
  IN  \/ /\ Calls(t, "lookup")
         /\ p \in DOMAIN host
         /\ UNCHANGED host
      \/ /\ Calls(t, "read_dir")
         /\ UNCHANGED host
      \/ /\ Calls(t, "create")
         /\ IsDir(Parent(p)) /\ ~IsDir(p)
         /\ p \in DOMAIN host \/ HasRoom
         /\ host' = With(p, "file")
      \/ /\ Calls(t, "create_dir")
         /\ IsDir(Parent(p)) /\ p \notin DOMAIN host /\ HasRoom
         /\ host' = With(p, "dir")
      \/ /\ Calls(t, "remove_dir")
         /\ IsDir(p) /\ Entries(p) = {}
         /\ host' = Without(p)
      \/ /\ Calls(t, "unlink")
         /\ p \in DOMAIN host /\ ~IsDir(p)
         /\ host' = Without(p)
      \/ /\ Calls(t, "rename")
         /\ p \in DOMAIN host /\ q \notin DOMAIN host
         /\ IsDir(Parent(q)) /\ ~IsPrefix(p, q)
         /\ host' = Moved(p, q)

HostDoes(t) ==
  /\ pc[t] = "rpc"
  /\ Command(t)
  /\ \/ /\ call[t].hook \in {"unlink", "rename"}
        /\ Return(t, "rpc")
     \/ /\ call[t].hook \notin {"unlink", "rename"}
        /\ Go(t, "rpc", "scan")
        /\ UNCHANGED <<call, item, node>>
  /\ UNCHANGED <<tree, vnodes>>

\* The host, or the service, answers with an error.  create_dir goes on to the
\* tree all the same.
HostRefuses(t) ==
  /\ \/ /\ Calls(t, "create_dir")
        /\ Go(t, "rpc", "scan")
        /\ UNCHANGED <<call, item, node>>
     \/ /\ ~Calls(t, "create_dir")
        /\ Return(t, "rpc")
  /\ UNCHANGED <<tree, vnodes, host>>

-----------------------------------------------------------------------------
(* GetChild(name), and what each hook does with the node.                  *)

GotChild(t, from, n) ==
  \/ /\ call[t].hook \in {"create_dir", "read_dir"}
     /\ Return(t, from)
  \/ /\ call[t].hook \notin {"create_dir", "read_dir"}
     /\ Go(t, from, IF call[t].hook \in {"lookup", "create"} THEN "get"
                    ELSE IF call[t].hook = "remove_dir" THEN "delete" ELSE "rpc")
     /\ node' = [node EXCEPT ![t] = n]
     /\ item' = [item EXCEPT ![t] = None]
     /\ UNCHANGED call

\* The search of the list ends at the first item of that name.
FindChild(t) ==
  /\ pc[t] = "scan"
  /\ \E n \in Child(call[t].dir, call[t].name) : GotChild(t, "scan", n)
  /\ UNCHANGED <<tree, vnodes, host>>

\* Or at the last item, if there is any.
MissChild(t) ==
  LET list == children[call[t].dir]
  IN  /\ Go(t, "scan", "new")
      /\ Child(call[t].dir, call[t].name) = {}
      /\ item' = [item EXCEPT ![t] = IF list = <<>> THEN None ELSE Last(list)]
      /\ UNCHANGED <<tree, vnodes, host, call, node>>

\* The constructor: fInode = sCurrentInode.
NewNode(t) ==
  /\ Go(t, "new", "count")
  /\ Len(nodes) < MaxNodes
  /\ nodes' = Append(nodes, Node(call[t].name, call[t].dir, sCurrentInode))
  /\ node' = [node EXCEPT ![t] = Len(nodes')]
  /\ UNCHANGED <<children, freed, sCurrentInode, vnodes, host, call, item>>

\* Mutant: a node leaves the counter alone.
NewInode_Same(t) ==
  /\ Go(t, "count", "append")
  /\ UNCHANGED <<tree, vnodes, host, call, item, node>>

\* Mutant: a node counts twice.
NewInode_Twice(t) ==
  /\ Go(t, "count", "append")
  /\ sCurrentInode' = sCurrentInode + 2
  /\ UNCHANGED <<nodes, children, freed, vnodes, host, call, item, node>>

\* sCurrentInode++, whether it is read again or not.
NewInode(t) ==
  /\ Go(t, "count", "append")
  /\ sCurrentInode' \in {sCurrentInode + 1, nodes[node[t]].inode + 1}
  /\ UNCHANGED <<nodes, children, freed, vnodes, host, call, item, node>>

\* Mutant: the item goes to the end of the list as it is now.
AppendChild_Anywhere(t) ==
  /\ GotChild(t, "append", node[t])
  /\ children' = [children EXCEPT ![call[t].dir] = Append(@, node[t])]
  /\ UNCHANGED <<nodes, freed, sCurrentInode, vnodes, host>>

\* The new item follows the one seen last, in place of what other threads put
\* there; if that one was itself replaced, the new item is out of reach.
AppendChild(t) ==
  LET d == call[t].dir
  IN  /\ GotChild(t, "append", node[t])
      /\ children' =
           [children EXCEPT ![d] =
              IF item[t] = None THEN <<node[t]>>
              ELSE IF Contains(@, item[t])
              THEN Append(SubSeq(@, 1, CHOOSE k \in DOMAIN @ : @[k] = item[t]),
                          node[t])
              ELSE @]
      /\ UNCHANGED <<nodes, freed, sCurrentInode, vnodes, host>>

-----------------------------------------------------------------------------
(* What is left of the hook.                                               *)

Inode(t) == nodes[node[t]].inode

\* lookup and create end in get_vnode.  For a vnode it does not know, the VFS
\* calls vmwfs_get_vnode, which looks for the inode from the root and asks the
\* host what is at the node's path.
GetKnownVnode(t) ==
  /\ Return(t, "get")
  /\ Inode(t) \in DOMAIN vnodes
  /\ UNCHANGED <<tree, vnodes, host>>

GetNewVnode(t) ==
  /\ Return(t, "get")
  /\ Inode(t) \notin DOMAIN vnodes
  /\ \E n \in Resolve(Inode(t)) :
       /\ Path(n) \in DOMAIN host
       /\ vnodes' = [i \in DOMAIN vnodes \cup {Inode(t)} |->
                       IF i = Inode(t) THEN [node |-> n, kind |-> host[Path(n)]]
                       ELSE vnodes[i]]
  /\ UNCHANGED <<tree, host>>

GetNoVnode(t) ==
  /\ Return(t, "get")
  /\ Inode(t) \notin DOMAIN vnodes
  /\ \/ Resolve(Inode(t)) = {}
     \/ \E n \in Resolve(Inode(t)) : Path(n) \notin DOMAIN host
  /\ UNCHANGED <<tree, vnodes, host>>

\* Mutant: the node is deleted and stays in the list.
DeleteChildIfExists_Keeps(t) ==
  /\ Return(t, "delete")
  /\ freed' = freed \cup UNION {Below(n) : n \in Child(call[t].dir, call[t].name)}
  /\ UNCHANGED <<nodes, children, sCurrentInode, vnodes, host>>

\* remove_dir ends in DeleteChildIfExists: the first child of the name is taken
\* out of the list, and freed with those below.
DeleteChildIfExists(t) ==
  LET d == call[t].dir
      first == First(d, call[t].name)
  IN  /\ Return(t, "delete")
      /\ \/ \E k \in first :
              /\ children' = [children EXCEPT ![d] = RemoveAt(@, k)]
              /\ freed' = freed \cup Below(children[d][k])
         \/ first = {} /\ UNCHANGED <<children, freed>>
      /\ UNCHANGED <<nodes, sCurrentInode, vnodes, host>>

\* The VFS forgets a vnode that is not in use.
PutVnode ==
  /\ \E i \in DOMAIN vnodes \ {2} :
       /\ \A t \in Threads : vnodes[i].node \notin {call[t].dir, call[t].to}
       /\ vnodes' = [j \in DOMAIN vnodes \ {i} |-> vnodes[j]]
  /\ UNCHANGED <<tree, host, thread>>

Step(t) ==
  \/ Begin(t) \/ HostDoes(t) \/ HostRefuses(t)
  \/ FindChild(t) \/ MissChild(t) \/ NewNode(t) \/ NewInode(t) \/ AppendChild(t)
  \/ GetKnownVnode(t) \/ GetNewVnode(t) \/ GetNoVnode(t)
  \/ DeleteChildIfExists(t)

Next == \/ \E t \in Threads : Step(t)
        \/ PutVnode \/ HostMakes \/ HostRemoves

Spec == Init /\ [][Next]_vars

-----------------------------------------------------------------------------
(* Properties.                                                             *)

TypeOK ==
  LET N == 1 .. Len(nodes)
  IN  /\ Len(nodes) <= MaxNodes
      /\ \A n \in N : nodes[n] \in [name : Names \cup {""}, parent : 0 .. n - 1,
                                    inode : 2 .. MaxNodes + 1]
      /\ \A n \in 1 .. MaxNodes : children[n] \in Seq(N)
      /\ freed \subseteq N
      /\ sCurrentInode \in 3 .. MaxNodes + 2
      /\ \A i \in DOMAIN vnodes :
           vnodes[i] \in [node : N, kind : {"file", "dir"}]
      /\ \A t \in Threads : item[t] \in N \cup {None} /\ node[t] \in N \cup {None}

\* No directory lists a name twice, so a name always means the same node, even
\* when two threads add it at once: the one that appends last cuts off what the
\* other put behind the item both saw last.
SiblingNamesUnique ==
  \A d \in 1 .. Len(nodes) :
    LET list == children[d]
    IN  /\ \A j, k \in DOMAIN list : nodes[list[j]].name = nodes[list[k]].name => j = k
        /\ \A k \in DOMAIN list : nodes[list[k]].parent = d

\* One hook at a time, the tree never leads to a node that was freed.
TreeIsAlive == Below(Root) \cap freed = {}

\* One hook at a time, the VFS and the tree agree on what an inode is: looking
\* up the inode of a vnode whose node is alive finds that node and no other.
VnodesResolve ==
  \A i \in DOMAIN vnodes : vnodes[i].node \in freed \/ Resolve(i) = {vnodes[i].node}

\* One hook at a time, a lookup or a create that succeeds leaves the caller with
\* a vnode for the path it asked for, never that of another file.
NameMeansItsFile ==
  [][\A t \in Threads :
       pc[t] = "get" /\ pc'[t] = "idle" /\ Inode(t) \in DOMAIN vnodes' =>
         /\ vnodes'[Inode(t)].node \notin freed
         /\ Path(vnodes'[Inode(t)].node) = PathOf(t)]_vars
=============================================================================
