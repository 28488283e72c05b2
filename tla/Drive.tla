-------------------------------- MODULE Drive --------------------------------
(***************************************************************************)
(* The virtual file system: one owner's tree of folders and files in the   *)
(* repository's table nodes, under the operations of VFSService and the    *)
(* routes of api/routes/nodes.py.                                          *)
(*                                                                         *)
(* No operation suspends, so each is one step, also the PATCH that moves   *)
(* and renames and the copy of a whole folder; both can fail in the middle *)
(* and leave what they did so far.                                         *)
(*                                                                         *)
(* ancestor_ids is kept as a set: its order is that of the depths, and the *)
(* slice that a move keeps is the set of what is not above the moved node. *)
(* Identities are numbers given in order, the order in which the           *)
(* repository walks its table.  A name stands for its folded form.         *)
(***************************************************************************)
EXTENDS Integers, FiniteSets

CONSTANTS
  MaxNodes,  \* bound on the nodes of a behaviour, the root aside,
  MaxFresh,  \* on those that are neither folder copies nor in one,
  MaxBusy,   \* and on those after which nothing happens any more
  FolderNames, \* folded names that folders
  FileNames,   \* and files are given
  Quota,     \* quota_bytes in files of size 1; 0 is no limit
  NoNode

ASSUME DriveAssumption ==
  /\ MaxNodes \in Nat
  /\ MaxFresh \in 0 .. MaxNodes
  /\ MaxBusy \in Nat
  /\ Quota \in Nat

Root == 0
Nodes == 0 .. MaxNodes
Names == FolderNames \union FileNames
NamesFor(kind) == IF kind = "folder" THEN FolderNames ELSE FileNames

VARIABLES
  tree,    \* repo.nodes
  used,    \* users[...].used_bytes
  created  \* how many identities were given

vars == <<tree, used, created>>

-------------------------------------------------------------------------------
\* A node.  parent of the root is the root; "listed" is the top of something
\* trashed (trash_parent_id is None), "below" went to the trash with a folder.
Places == {"live", "listed", "below"}

Node == [kind : {"folder", "file"}, name : Names \union {"/"}, parent : Nodes,
         above : SUBSET Nodes, place : Places]

RootNode == [kind |-> "folder", name |-> "/", parent |-> Root,
             above |-> {}, place |-> "live"]

ASSUME SentinelAssumption == NoNode \notin Node

Exists(n) == tree[n] # NoNode
Present == {n \in Nodes : Exists(n)}
Live(n) == tree[n].place = "live"
IsFolder(n) == Exists(n) /\ tree[n].kind = "folder"

Below(n) == {m \in Present : n \in tree[m].above}
Subtree(n) == Below(n) \union {n}

\* find_child_by_name: the live children of that name.
Namesakes(p, name) ==
  {m \in Present \ {Root} : tree[m].parent = p /\ tree[m].name = name /\ Live(m)}

\* What recompute_usage sums up.
LiveFiles(t) == {n \in Nodes : t[n] # NoNode /\ t[n].kind = "file"
                                            /\ t[n].place = "live"}
Usage(t) == Cardinality(LiveFiles(t))

NewNode(kind, name, p) ==
  [kind |-> kind, name |-> name, parent |-> p,
   above |-> tree[p].above \union {p}, place |-> "live"]

Init ==
  /\ tree = [n \in Nodes |-> IF n = Root THEN RootNode ELSE NoNode]
  /\ used = 0
  /\ created = 0

-------------------------------------------------------------------------------
\* Creating.

Insert(kind, p, name) ==
  /\ created < MaxFresh
  /\ name \in NamesFor(kind)
  /\ IsFolder(p) /\ Live(p)
  /\ tree' = [tree EXCEPT ![created + 1] = NewNode(kind, name, p)]
  /\ created' = created + 1

CreateFolder(p, name) ==
  /\ Namesakes(p, name) = {}
  /\ Insert("folder", p, name)
  /\ UNCHANGED used

\* The node an upload creates, its size reserved first; overwrite=true stands
\* for a second node of the name, whatever bears it.
CreateFile(p, name, overwrite) ==
  /\ overwrite \/ Namesakes(p, name) = {}
  /\ Quota > 0 => used + 1 <= Quota
  /\ Insert("file", p, name)
  /\ used' = used + 1

-------------------------------------------------------------------------------
\* Moving and renaming.

\* The cycle tests of VFSService.move and move_node.  Both refuse a target
\* that is above the node as well as one that is below it.
Refused(n, p) ==
  \/ p = n
  \/ p \in tree[n].above
  \/ n \in tree[p].above

CanMove(n, p) ==
  /\ Exists(n) /\ n # Root
  /\ IsFolder(p) /\ Live(p)
  /\ ~Refused(n, p)
  /\ Namesakes(p, tree[n].name) \ {n} = {}

\* Mutant: the arrays of the subtree are left as they were.
ReparentNodeOnly(n, p) ==
  [tree EXCEPT ![n].parent = p, ![n].above = tree[p].above \union {p}]

\* _reparent: the node and everything below it get the new prefix.
Reparent(n, p) ==
  LET prefix == tree[p].above \union {p} IN
  [m \in Nodes |->
     IF m = n THEN [tree[m] EXCEPT !.parent = p, !.above = prefix]
     ELSE IF m \in Below(n)
     THEN [tree[m] EXCEPT !.above =
             prefix \union {n} \union (@ \ (tree[n].above \union {n}))]
     ELSE tree[m]]

Move(n, p) ==
  /\ CanMove(n, p)
  /\ tree' = Reparent(n, p)
  /\ UNCHANGED <<used, created>>

Rename(n, name) ==
  /\ Exists(n) /\ n # Root
  /\ name \in NamesFor(tree[n].kind) \ {tree[n].name}
  /\ Namesakes(tree[n].parent, name) \ {n} = {}
  /\ tree' = [tree EXCEPT ![n].name = name]
  /\ UNCHANGED <<used, created>>

\* PATCH with a parent and a name: move, with the old name; then rename, if the
\* new name is free there.  If it is not, the move stays and 409 is answered.
Patch(n, p, name) ==
  /\ CanMove(n, p) /\ p # tree[n].parent
  /\ name \in NamesFor(tree[n].kind) \ {tree[n].name}
  /\ tree' = IF Namesakes(p, name) \ {n} = {}
               THEN [Reparent(n, p) EXCEPT ![n].name = name]
               ELSE Reparent(n, p)
  /\ UNCHANGED <<used, created>>

-------------------------------------------------------------------------------
\* The trash.

\* Mutant: what was live below the node joins the trash as tops of their own,
\* what had been trashed with another folder is taken over.
TrashedFlat(n) ==
  [m \in Nodes |-> IF m \in Subtree(n) THEN [tree[m] EXCEPT !.place = "below"]
                                       ELSE tree[m]]

Trashed(n) ==
  [m \in Nodes |->
     IF m \in Subtree(n) /\ Live(m)
       THEN [tree[m] EXCEPT !.place = IF m = n THEN "listed" ELSE "below"]
       ELSE tree[m]]

\* Mutant: the sizes in the trash are not given back, as if on purge only.
TrashKeepingUsage(n) ==
  /\ Exists(n) /\ n # Root
  /\ tree' = Trashed(n)
  /\ UNCHANGED <<used, created>>

\* Mutant: what the trashed files hold is taken off, charged or not.
TrashReleasing(n) ==
  /\ Exists(n) /\ n # Root
  /\ tree' = Trashed(n)
  /\ used' = used - Cardinality(LiveFiles(tree) \ LiveFiles(tree'))
  /\ UNCHANGED created

Trash(n) ==
  /\ Exists(n) /\ n # Root
  /\ tree' = Trashed(n)
  /\ used' = Usage(tree')
  /\ UNCHANGED created

\* restore_node: the subtree becomes live, whatever each node was trashed
\* with; names, parents and quota are not looked at.
Restored(n) ==
  [m \in Nodes |-> IF m \in Subtree(n) THEN [tree[m] EXCEPT !.place = "live"]
                                       ELSE tree[m]]

Restore(n) ==
  /\ Exists(n)
  /\ tree' = Restored(n)
  /\ used' = Usage(tree')
  /\ UNCHANGED created

LiveChildren(n) ==
  {m \in Present \ {Root} : tree[m].parent = n /\ Live(m)}

Purged(n) == [m \in Nodes |-> IF m \in Subtree(n) THEN NoNode ELSE tree[m]]

Purge(n, recursive) ==
  /\ Exists(n) /\ n # Root
  /\ (IsFolder(n) /\ ~recursive) => LiveChildren(n) = {}
  /\ tree' = Purged(n)
  /\ used' = Usage(tree')
  /\ UNCHANGED created

-------------------------------------------------------------------------------
\* Copying.

\* copy_file_node: a live clone anywhere but beside a namesake; not charged.
CopyFile(n, p, name) ==
  /\ Exists(n) /\ tree[n].kind = "file" /\ name \in FileNames
  /\ created < MaxFresh
  /\ IsFolder(p)
  /\ Namesakes(p, name) = {}
  /\ tree' = [tree EXCEPT ![created + 1] = NewNode("file", name, p)]
  /\ created' = created + 1
  /\ UNCHANGED used

\* The walk of copy_folder_subtree: by depth, then in the order of the table.
Before(a, b) ==
  LET depth(m) == Cardinality(tree[m].above) IN
  depth(a) < depth(b) \/ (depth(a) = depth(b) /\ a < b)

\* Mutant: the namesake is not looked for.
ClashesNever(n, m) == FALSE

\* A descendant is refused when its copy would stand beside a namesake: the
\* copies are live even where the originals are in the trash.
Clashes(n, m) ==
  \E k \in Below(n) : /\ Before(k, m)
                      /\ tree[k].parent = tree[m].parent
                      /\ tree[k].name = tree[m].name

\* What is copied: everything, or all that comes before the first refusal.
Copied(n) ==
  {m \in Below(n) : \A k \in Below(n) : (k = m \/ Before(k, m)) => ~Clashes(n, k)}

\* The identity of the copy of m, where the copied folder itself comes first.
CopyOf(n, m) ==
  IF m = n THEN created + 1
  ELSE created + 2 + Cardinality({k \in Copied(n) : Before(k, m)})

\* The copy of m: in the place of m within the copied folder, and live.
Clone(n, m, p, name) ==
  IF m = n THEN NewNode("folder", name, p)
  ELSE [tree[m] EXCEPT
          !.parent = CopyOf(n, tree[m].parent),
          !.above = tree[p].above \union {p}
                      \union {CopyOf(n, k) : k \in tree[m].above \ tree[n].above},
          !.place = "live"]

CopyFolder(n, p, name) ==
  /\ IsFolder(n) /\ IsFolder(p) /\ name \in FolderNames
  /\ Namesakes(p, name) = {}
  /\ created + 1 + Cardinality(Copied(n)) <= MaxNodes
  /\ LET originals == Copied(n) \union {n} IN
     tree' = [i \in Nodes |->
                IF \E m \in originals : CopyOf(n, m) = i
                  THEN Clone(n, CHOOSE m \in originals : CopyOf(n, m) = i, p, name)
                  ELSE tree[i]]
  /\ created' = created + 1 + Cardinality(Copied(n))
  /\ UNCHANGED used

-------------------------------------------------------------------------------
\* The specification.

Next ==
  /\ created <= MaxBusy
  /\ \/ \E p \in Present, name \in Names :
          \/ CreateFolder(p, name)
          \/ \E overwrite \in BOOLEAN : CreateFile(p, name, overwrite)
     \/ \E n \in Present, name \in Names : Rename(n, name)
     \/ \E n, p \in Present : Move(n, p)
     \/ \E n, p \in Present, name \in Names :
          Patch(n, p, name) \/ CopyFile(n, p, name) \/ CopyFolder(n, p, name)
     \/ \E n \in Present : Trash(n) \/ Restore(n)
     \/ \E n \in Present, recursive \in BOOLEAN : Purge(n, recursive)

Spec == Init /\ [][Next]_vars

-------------------------------------------------------------------------------
\* Properties.

TypeOK ==
  /\ tree \in [Nodes -> Node \union {NoNode}]
  /\ used \in 0 .. MaxNodes
  /\ created \in Nodes

\* The tree stays a tree and ancestor_ids says what it is: every node hangs
\* from a folder that exists, its ancestors are those of its parent and the
\* parent, and nothing is above itself.  Moves rewrite the arrays of a whole
\* subtree, and every later subtree walk (trash, purge, restore, copy) and
\* every later cycle test reads them.
TreeIsConsistent ==
  \A n \in Present :
    /\ n \notin tree[n].above
    /\ IF n = Root
         THEN tree[n].above = {}
         ELSE /\ IsFolder(tree[n].parent)
              /\ tree[n].above = tree[tree[n].parent].above \union {tree[n].parent}

\* used_bytes never exceeds what the live files hold, however trash, restore,
\* purge and reservations follow on one another: nobody is refused for bytes
\* that are not there.  (It may be below: copies are not charged.)
NeverOvercharged == used <= Usage(tree)

Clash(a, b) ==
  /\ a # b /\ a # Root /\ b # Root /\ Exists(a) /\ Exists(b)
  /\ tree[a].parent = tree[b].parent /\ tree[a].name = tree[b].name
  /\ Live(a) /\ Live(b)

\* Two live siblings of one name come about only by a restore, which tests no
\* name, or by an upload with overwrite, the one step that charges the owner:
\* no creation, rename, move, PATCH or copy of a subtree makes them.
DuplicatesHaveTwoSources ==
  [][\A a, b \in Nodes :
       Clash(a, b)' => \/ Clash(a, b)
                       \/ Exists(a) /\ ~Live(a)
                       \/ Exists(b) /\ ~Live(b)
                       \/ used' > used /\ created' > created]_vars

\* What is found in the trash: it is listed, or something above it is in the
\* trash too and leads to it.
Found(n) == tree[n].place = "listed"
            \/ \E m \in tree[n].above : Exists(m) /\ ~Live(m)

\* What goes to the trash can be found there, and stays so until it is restored
\* or purged, whatever is trashed, restored and purged around it.  Only a move of
\* it, or of something above it, can take it out of the place it is found at.
TrashStaysFindable ==
  [][\A n \in Nodes :
       (/\ Exists(n) /\ (Live(n) \/ Found(n))
        /\ Exists(n)' /\ ~Live(n)' /\ tree[n].above = tree'[n].above)
         => Found(n)']_vars

===============================================================================
