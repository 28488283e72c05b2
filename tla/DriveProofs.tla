------------------------------ MODULE DriveProofs ------------------------------
(***************************************************************************)
(* What Drive promises for any number of nodes and names and any quota.    *)
(*                                                                         *)
(* That every node has its parent's ancestors and its parent is not        *)
(* inductive: the walks of move, copy and purge read the whole array of    *)
(* ancestors.  IsTree adds that the ancestors of a node's ancestors are    *)
(* among its own (Ancestors), and that of any two of them one is above the *)
(* other (Lines), without which the slice a move keeps would be too short. *)
(***************************************************************************)
EXTENDS Drive, FiniteSetTheorems, TLAPS

Some(t) == {n \in Nodes : t[n] # NoNode}

Parents(t) ==
  \A n \in Some(t) \ {Root} :
    /\ t[n].parent \in Some(t)
    /\ t[t[n].parent].kind = "folder"
    /\ t[n].above = t[t[n].parent].above \union {t[n].parent}

Ancestors(t) ==
  \A n \in Some(t) :
    /\ n \notin t[n].above
    /\ \A a \in t[n].above : a \in Some(t) /\ t[a].above \subseteq t[n].above

Lines(t) ==
  \A n \in Some(t) :
    \A a, b \in t[n].above : a = b \/ a \in t[b].above \/ b \in t[a].above

Typed(t) ==
  /\ t \in [Nodes -> Node \union {NoNode}]
  /\ Root \in Some(t) /\ t[Root].kind = "folder" /\ t[Root].above = {}

IsTree(t) == Typed(t) /\ Parents(t) /\ Ancestors(t) /\ Lines(t)

Fresh == \A i \in Nodes : i > created => tree[i] = NoNode

IInv ==
  /\ used \in Nat
  /\ created \in Nodes
  /\ IsTree(tree)
  /\ Fresh
  /\ NeverOvercharged

-------------------------------------------------------------------------------
\* Trees.

LEMMA NodeFields ==
  ASSUME NEW t, t \in [Nodes -> Node \union {NoNode}], NEW n \in Some(t)
  PROVE  /\ n \in Nodes /\ t[n] \in Node
         /\ t[n].kind \in {"folder", "file"} /\ t[n].name \in Names \union {"/"}
         /\ t[n].parent \in Nodes /\ t[n].above \in SUBSET Nodes /\ t[n].place \in Places
BY DEF Some, Node

LEMMA RootIsNode == Root \in Nodes
BY DriveAssumption DEF Root, Nodes

\* A change of names and places leaves the tree as it is.
LEMMA SameShape ==
  ASSUME NEW t, NEW u, IsTree(t), u \in [Nodes -> Node \union {NoNode}],
         Some(u) = Some(t),
         \A n \in Some(t) : /\ u[n].parent = t[n].parent
                            /\ u[n].above = t[n].above
                            /\ u[n].kind = t[n].kind
  PROVE  IsTree(u)
<1>1. Typed(u)
  BY DEF IsTree, Typed
<1>2. Parents(u)
  BY DEF IsTree, Parents
<1>3. Ancestors(u)
  BY DEF IsTree, Ancestors
<1>4. Lines(u)
  BY DEF IsTree, Ancestors, Lines
<1> QED  BY <1>1, <1>2, <1>3, <1>4 DEF IsTree

\* A new node below a folder.
LEMMA Grown ==
  ASSUME NEW t, IsTree(t), NEW i \in Nodes, t[i] = NoNode,
         NEW p \in Some(t), t[p].kind = "folder",
         NEW u, u \in [Nodes -> Node \union {NoNode}],
         u[i] # NoNode, u[i].parent = p, u[i].above = t[p].above \union {p},
         \A n \in Nodes : n # i => u[n] = t[n]
  PROVE  IsTree(u) /\ Some(u) = Some(t) \union {i}
<1>1. t \in [Nodes -> Node \union {NoNode}]
  BY DEF IsTree, Typed
<1>2. \A n \in Some(t) : u[n] = t[n]
  BY DEF Some
<1>3. i \notin Some(t) /\ i # p
  BY DEF Some
<1>4. Some(u) = Some(t) \union {i}
  BY <1>1, <1>2 DEF Some
<1>5. Typed(u)
  BY <1>2, <1>4 DEF IsTree, Typed
<1>6. Parents(u)
  <2> SUFFICES ASSUME NEW n \in Some(u) \ {Root}
               PROVE  /\ u[n].parent \in Some(u)
                      /\ u[u[n].parent].kind = "folder"
                      /\ u[n].above = u[u[n].parent].above \union {u[n].parent}
    BY DEF Parents
  <2>1. CASE n = i
    BY <1>2, <1>4, <2>1
  <2>2. CASE n \in Some(t)
    <3>1. /\ t[n].parent \in Some(t) /\ t[t[n].parent].kind = "folder"
          /\ t[n].above = t[t[n].parent].above \union {t[n].parent}
      BY <2>2 DEF IsTree, Parents
    <3> QED  BY <1>2, <1>4, <2>2, <3>1
  <2> QED  BY <1>4, <2>1, <2>2
<1>7. \A a \in u[i].above : a \in Some(t) /\ u[a] = t[a] /\ t[a].above \subseteq u[i].above
  BY <1>2 DEF IsTree, Ancestors
<1>8. Ancestors(u)
  BY <1>2, <1>3, <1>4, <1>7 DEF IsTree, Ancestors
<1>9. Lines(u)
  <2> SUFFICES ASSUME NEW n \in Some(u), NEW a \in u[n].above, NEW b \in u[n].above
               PROVE  a = b \/ a \in u[b].above \/ b \in u[a].above
    BY DEF Lines
  <2>1. CASE n \in Some(t)
    BY <1>2, <2>1 DEF IsTree, Ancestors, Lines
  <2>2. CASE n = i
    BY <1>2, <1>7, <2>2 DEF IsTree, Lines
  <2> QED  BY <1>4, <2>1, <2>2
<1> QED  BY <1>4, <1>5, <1>6, <1>8, <1>9 DEF IsTree

\* A subtree is cut off.
LEMMA Shrunk ==
  ASSUME NEW t, IsTree(t), NEW n \in Some(t) \ {Root}, NEW u,
         u \in [Nodes -> Node \union {NoNode}],
         \A m \in Nodes :
           u[m] = IF m = n \/ (m \in Some(t) /\ n \in t[m].above) THEN NoNode ELSE t[m]
  PROVE  IsTree(u) /\ Some(u) \subseteq Some(t) /\ \A m \in Some(u) : u[m] = t[m]
<1>1. t \in [Nodes -> Node \union {NoNode}]
  BY DEF IsTree, Typed
<1>2. /\ Some(u) = {m \in Some(t) : m # n /\ n \notin t[m].above}
      /\ \A m \in Some(u) : u[m] = t[m]
  BY <1>1 DEF Some
<1>3. Typed(u)
  BY <1>2 DEF IsTree, Typed
<1>4. Parents(u)
  <2> SUFFICES ASSUME NEW m \in Some(u) \ {Root}
               PROVE  /\ u[m].parent \in Some(u)
                      /\ u[u[m].parent].kind = "folder"
                      /\ u[m].above = u[u[m].parent].above \union {u[m].parent}
    BY DEF Parents
  <2>1. m \in Some(t) /\ u[m] = t[m] /\ m # n /\ n \notin t[m].above
    BY <1>2
  <2>2. /\ t[m].parent \in Some(t) /\ t[t[m].parent].kind = "folder"
        /\ t[m].above = t[t[m].parent].above \union {t[m].parent}
    BY <2>1 DEF IsTree, Parents
  <2>3. t[m].parent \in Some(u)
    BY <1>2, <2>1, <2>2
  <2> QED  BY <1>2, <2>1, <2>2, <2>3
<1>5. Ancestors(u)
  BY <1>2 DEF IsTree, Ancestors
<1>6. Lines(u)
  BY <1>2, <1>5 DEF IsTree, Ancestors, Lines
<1> QED  BY <1>2, <1>3, <1>4, <1>5, <1>6 DEF IsTree

\* A subtree hangs from another folder, which is not in it.
LEMMA Moved ==
  ASSUME NEW t, IsTree(t), NEW n \in Some(t) \ {Root}, NEW p \in Some(t),
         t[p].kind = "folder", p # n, n \notin t[p].above,
         NEW u, u \in [Nodes -> Node \union {NoNode}],
         Some(u) = Some(t),
         \A m \in Some(t) : u[m].kind = t[m].kind,
         \A m \in Some(t) \ {n} : u[m].parent = t[m].parent,
         u[n].parent = p, u[n].above = t[p].above \union {p},
         \A m \in Some(t) : n \in t[m].above =>
            u[m].above = t[p].above \union {p} \union {n}
                           \union (t[m].above \ (t[n].above \union {n})),
         \A m \in Some(t) \ {n} : n \notin t[m].above => u[m].above = t[m].above
  PROVE  IsTree(u)
<1> DEFINE prefix == t[p].above \union {p}
           old == t[n].above \union {n}
           below == {m \in Some(t) : n \in t[m].above}
<1>1. /\ \A m \in Some(t) : m \notin t[m].above
      /\ \A m \in Some(t) : \A a \in t[m].above : a \in Some(t) /\ t[a].above \subseteq t[m].above
  BY DEF IsTree, Ancestors
<1>2. \A a \in prefix : a \in Some(t) /\ a # n /\ a \notin below /\ t[a].above \subseteq prefix
                        /\ u[a].above = t[a].above
  <2> SUFFICES ASSUME NEW a \in prefix
               PROVE  a \in Some(t) /\ a # n /\ a \notin below /\ t[a].above \subseteq prefix
    OBVIOUS
  <2>1. CASE a = p
    BY <2>1
  <2>2. CASE a \in t[p].above
    BY <1>1, <2>2
  <2> QED  BY <2>1, <2>2
<1>3. n \notin below /\ u[n].above = prefix
  BY <1>1
<1>4. \A m \in below : u[m].above = prefix \union {n} \union (t[m].above \ old)
  OBVIOUS
<1>5. ASSUME NEW m \in below, NEW a \in t[m].above \ old
      PROVE  a \in below /\ a # n /\ a \in Some(t)
  BY <1>1, <1>5 DEF IsTree, Lines
<1>6. Typed(u)
  <2>1. n \notin t[Root].above /\ Root \in Some(t)
    BY DEF IsTree, Typed
  <2> QED  BY <2>1 DEF IsTree, Typed
<1>7. Parents(u)
  <2> SUFFICES ASSUME NEW m \in Some(t) \ {Root}
               PROVE  /\ u[m].parent \in Some(t)
                      /\ u[u[m].parent].kind = "folder"
                      /\ u[m].above = u[u[m].parent].above \union {u[m].parent}
    BY DEF Parents
  <2>1. CASE m = n
    BY <1>2, <2>1
  <2> DEFINE q == t[m].parent
  <2>2. q \in Some(t) /\ t[q].kind = "folder" /\ t[m].above = t[q].above \union {q}
    BY DEF IsTree, Parents
  <2>3. CASE m # n /\ m \notin below
    <3>1. q # n /\ q \notin below
      BY <2>2, <2>3
    <3> QED  BY <2>2, <2>3, <3>1
  <2>4. CASE m # n /\ m \in below /\ q = n
    BY <1>3, <1>4, <2>2, <2>4
  <2>5. CASE m # n /\ m \in below /\ q # n
    <3>1. q \in below
      BY <2>2, <2>5
    <3>2. q \notin old
      BY <1>1, <2>5, <3>1
    <3> QED  BY <1>4, <2>2, <2>5, <3>1, <3>2
  <2> QED  BY <2>1, <2>3, <2>4, <2>5
<1>8. Ancestors(u)
  <2>1. ASSUME NEW m \in below
        PROVE  /\ m \notin u[m].above
               /\ \A a \in u[m].above : a \in Some(t) /\ u[a].above \subseteq u[m].above
    <3>1. m \notin prefix /\ m # n
      BY <1>2, <1>3
    <3>2. m \notin t[m].above
      BY <1>1
    <3>3. ASSUME NEW a \in t[m].above \ old
          PROVE  u[a].above \subseteq u[m].above
      BY <1>1, <1>4, <1>5, <3>3
    <3> QED  BY <1>2, <1>3, <1>4, <1>5, <3>1, <3>2, <3>3
  <2>2. /\ n \notin u[n].above
        /\ \A a \in u[n].above : a \in Some(t) /\ u[a].above \subseteq u[n].above
    BY <1>2, <1>3
  <2>3. ASSUME NEW m \in Some(t), m # n, m \notin below
        PROVE  /\ m \notin u[m].above
               /\ \A a \in u[m].above : a \in Some(t) /\ u[a].above \subseteq u[m].above
    <3>1. u[m].above = t[m].above
      BY <2>3
    <3>2. \A a \in t[m].above : a \in Some(t) /\ a # n /\ a \notin below
      BY <1>1, <2>3
    <3> QED  BY <1>1, <3>1, <3>2
  <2> QED  BY <2>1, <2>2, <2>3 DEF Ancestors
<1>9. Lines(u)
  <2> SUFFICES ASSUME NEW m \in Some(t), NEW a \in u[m].above, NEW b \in u[m].above
               PROVE  a = b \/ a \in u[b].above \/ b \in u[a].above
    BY DEF Lines
  <2>1. ASSUME a \in prefix, b \in prefix
        PROVE  a = b \/ a \in u[b].above \/ b \in u[a].above
    BY <1>2, <2>1 DEF IsTree, Lines
  <2>2. CASE m = n
    BY <1>3, <2>1, <2>2
  <2>3. CASE m \in below
    <3>1. ASSUME NEW c \in below \union {n} PROVE prefix \subseteq u[c].above
      BY <1>3, <1>4
    <3>2. ASSUME NEW c \in below PROVE n \in u[c].above
      BY <1>4
    <3>3. a \in prefix \/ a = n \/ a \in t[m].above \ old
      BY <1>4, <2>3
    <3>4. b \in prefix \/ b = n \/ b \in t[m].above \ old
      BY <1>4, <2>3
    <3>5. CASE a \in t[m].above \ old /\ b \in t[m].above \ old
      <4>1. a = b \/ a \in t[b].above \/ b \in t[a].above
        BY <3>5 DEF IsTree, Lines
      <4>2. a \in below /\ b \in below
        BY <1>5, <2>3, <3>5
      <4> QED  BY <1>4, <3>5, <4>1, <4>2
    <3> QED  BY <1>5, <2>1, <2>3, <3>1, <3>2, <3>3, <3>4, <3>5
  <2>4. CASE m # n /\ m \notin below
    <3>1. a \in t[m].above /\ b \in t[m].above
      BY <2>4
    <3>2. a # n /\ a \notin below /\ b # n /\ b \notin below /\ a \in Some(t) /\ b \in Some(t)
      BY <1>1, <2>4, <3>1
    <3> QED  BY <3>1, <3>2 DEF IsTree, Lines
  <2> QED  BY <2>2, <2>3, <2>4
<1> QED  BY <1>6, <1>7, <1>8, <1>9 DEF IsTree

\* A folder n and what is copied with it (S) are cloned to new identities (f).
IsClone(t, n, p, S, f, u) ==
  /\ IsTree(t) /\ n \in Some(t) /\ t[n].kind = "folder"
  /\ p \in Some(t) /\ t[p].kind = "folder"
  /\ S \in SUBSET Some(t) /\ n \in S
  /\ \A m \in S \ {n} : n \in t[m].above
  /\ \A m \in S : \A a \in t[m].above : n \in t[a].above => a \in S
  /\ f \in [S -> Nodes] /\ \A m, k \in S : f[m] = f[k] => m = k
  /\ \A m \in S : t[f[m]] = NoNode
  /\ u \in [Nodes -> Node \union {NoNode}]
  /\ \A i \in Nodes : (\A m \in S : f[m] # i) => u[i] = t[i]
  /\ \A m \in S : u[f[m]] # NoNode /\ u[f[m]].kind = t[m].kind
  /\ u[f[n]].parent = p
  /\ \A m \in S \ {n} : u[f[m]].parent = f[t[m].parent]
  /\ \A m \in S : u[f[m]].above = t[p].above \union {p}
                          \union {f[k] : k \in t[m].above \ t[n].above}

LEMMA Cloned ==
  ASSUME NEW t, NEW n, NEW p, NEW S, NEW f, NEW u, IsClone(t, n, p, S, f, u)
  PROVE  IsTree(u) /\ \A m \in Some(t) : u[m] = t[m]
<1> USE DEF IsClone
<1> DEFINE prefix == t[p].above \union {p}
           Path(m) == t[m].above \ t[n].above
<1>0. \A m \in S : u[f[m]].above = prefix \union {f[k] : k \in Path(m)}
  OBVIOUS
<1>1. /\ \A m \in Some(t) : m \notin t[m].above
      /\ \A m \in Some(t) : \A a \in t[m].above : a \in Some(t) /\ t[a].above \subseteq t[m].above
  BY DEF IsTree, Ancestors
<1>2. \A m \in S : f[m] \in Nodes /\ f[m] \notin Some(t)
  BY DEF Some
<1>3. \A m \in Some(t) : u[m] = t[m] /\ m \in Some(u)
  BY <1>2 DEF Some
<1>4. Some(u) = Some(t) \union {f[m] : m \in S}
  BY <1>2, <1>3 DEF Some
<1>5. \A a \in prefix : a \in Some(t) /\ t[a].above \subseteq prefix
  BY <1>1
<1>6. ASSUME NEW m \in S, NEW k \in Path(m)
      PROVE  k \in S /\ (k = n \/ n \in t[k].above) /\ Path(k) \subseteq Path(m)
  <2>1. m # n /\ n \in t[m].above /\ k \in t[m].above /\ k \notin t[n].above
    BY <1>6
  <2>2. k = n \/ n \in t[k].above
    BY <2>1 DEF IsTree, Lines
  <2>3. k \in S
    BY <2>1, <2>2
  <2> QED  BY <1>1, <2>1, <2>2, <2>3
<1>7. Typed(u)
  BY <1>3 DEF IsTree, Typed
<1>8. Parents(u)
  <2>1. ASSUME NEW m \in Some(t) \ {Root}
        PROVE  /\ u[m].parent \in Some(u)
               /\ u[u[m].parent].kind = "folder"
               /\ u[m].above = u[u[m].parent].above \union {u[m].parent}
    BY <1>3 DEF IsTree, Parents
  <2>2. /\ u[f[n]].parent \in Some(u)
        /\ u[u[f[n]].parent].kind = "folder"
        /\ u[f[n]].above = u[u[f[n]].parent].above \union {u[f[n]].parent}
    <3>1. Path(n) = {}
      OBVIOUS
    <3>2. u[f[n]].above = prefix
      BY <1>0, <3>1
    <3> QED  BY <1>3, <3>2
  <2>3. ASSUME NEW m \in S \ {n}
        PROVE  /\ u[f[m]].parent \in Some(u)
               /\ u[u[f[m]].parent].kind = "folder"
               /\ u[f[m]].above = u[u[f[m]].parent].above \union {u[f[m]].parent}
    <3> DEFINE q == t[m].parent
    <3>1. m # Root
      BY DEF IsTree, Typed
    <3>2. q \in Some(t) /\ t[q].kind = "folder" /\ t[m].above = t[q].above \union {q}
      BY <3>1 DEF IsTree, Parents
    <3>3. q = n \/ n \in t[q].above
      BY <3>2
    <3>4. q \notin t[n].above
      BY <1>1, <3>2, <3>3
    <3>5. q \in S
      BY <3>2, <3>3
    <3>6. Path(m) = Path(q) \union {q}
      BY <3>2, <3>4
    <3>7. u[f[m]].parent = f[q] /\ f[q] \in Some(u) /\ u[f[q]].kind = "folder"
      BY <1>4, <3>2, <3>5
    <3>8. {f[k] : k \in Path(m)} = {f[k] : k \in Path(q)} \union {f[q]}
      BY <3>6
    <3>9. u[f[m]].above = u[f[q]].above \union {f[q]}
      <4>1. u[f[m]].above = prefix \union {f[k] : k \in Path(m)}
        BY <1>0
      <4>2. u[f[q]].above = prefix \union {f[k] : k \in Path(q)}
        BY <1>0, <3>5
      <4> HIDE DEF Path, prefix, q
      <4> QED  BY <3>8, <4>1, <4>2
    <3> HIDE DEF q
    <3> QED  BY <3>7, <3>9
  <2> QED  BY <1>4, <2>1, <2>2, <2>3 DEF Parents
<1>9. Ancestors(u)
  <2>1. ASSUME NEW m \in Some(t)
        PROVE  /\ m \notin u[m].above
               /\ \A a \in u[m].above : a \in Some(u) /\ u[a].above \subseteq u[m].above
    BY <1>1, <1>3
  <2>2. ASSUME NEW m \in S
        PROVE  /\ f[m] \notin u[f[m]].above
               /\ \A a \in u[f[m]].above : a \in Some(u) /\ u[a].above \subseteq u[f[m]].above
    <3>1. f[m] \notin prefix
      BY <1>2, <1>5
    <3>2. ASSUME NEW k \in Path(m) PROVE f[k] # f[m]
      BY <1>1, <1>6, <3>2
    <3>3. ASSUME NEW a \in prefix PROVE a \in Some(u) /\ u[a].above \subseteq prefix
      BY <1>3, <1>5
    <3>4. ASSUME NEW k \in Path(m)
          PROVE  f[k] \in Some(u) /\ u[f[k]].above \subseteq u[f[m]].above
      <4>1. k \in S /\ Path(k) \subseteq Path(m)
        BY <1>6
      <4> QED  BY <1>4, <4>1
    <3> QED  BY <3>1, <3>2, <3>3, <3>4
  <2> QED  BY <1>4, <2>1, <2>2 DEF Ancestors
<1>10. Lines(u)
  <2>1. ASSUME NEW m \in Some(t), NEW a \in u[m].above, NEW b \in u[m].above
        PROVE  a = b \/ a \in u[b].above \/ b \in u[a].above
    BY <1>1, <1>3 DEF IsTree, Lines
  <2>2. ASSUME NEW m \in S, NEW a \in u[f[m]].above, NEW b \in u[f[m]].above
        PROVE  a = b \/ a \in u[b].above \/ b \in u[a].above
    <3>1. ASSUME a \in prefix, b \in prefix
          PROVE  a = b \/ a \in u[b].above \/ b \in u[a].above
      BY <1>3, <1>5, <3>1 DEF IsTree, Lines
    <3>2. \A k \in Path(m) : prefix \subseteq u[f[k]].above
      BY <1>6
    <3>3. ASSUME NEW k \in Path(m), NEW l \in Path(m)
          PROVE  k = l \/ f[k] \in u[f[l]].above \/ f[l] \in u[f[k]].above
      <4>1. k \in S /\ l \in S
        BY <1>6
      <4>2. k = l \/ k \in Path(l) \/ l \in Path(k)
        BY <4>1 DEF IsTree, Lines
      <4> QED  BY <4>1, <4>2
    <3>4. \A c \in u[f[m]].above : c \in prefix \/ \E k \in Path(m) : c = f[k]
      OBVIOUS
    <3>5. ASSUME NEW k \in Path(m), a = f[k] PROVE a = b \/ a \in u[b].above \/ b \in u[a].above
      <4>1. CASE b \in prefix
        BY <3>2, <3>5, <4>1
      <4>2. ASSUME NEW l \in Path(m), b = f[l] PROVE a = b \/ a \in u[b].above \/ b \in u[a].above
        <5>1. k = l \/ f[k] \in u[f[l]].above \/ f[l] \in u[f[k]].above
          BY <3>3
        <5> QED  BY ONLY <3>5, <4>2, <5>1
      <4> QED  BY <3>4, <4>1, <4>2
    <3>6. ASSUME a \in prefix PROVE a = b \/ a \in u[b].above \/ b \in u[a].above
      <4>1. CASE b \in prefix
        BY <3>1, <3>6, <4>1
      <4>2. ASSUME NEW l \in Path(m), b = f[l] PROVE a \in u[b].above
        BY <3>2, <3>6, <4>2
      <4> QED  BY <3>4, <4>1, <4>2
    <3> QED  BY <3>4, <3>5, <3>6
  <2> QED  BY <1>4, <2>1, <2>2 DEF Lines
<1> QED  BY <1>3, <1>4, <1>7, <1>8, <1>9, <1>10 DEF IsTree

-------------------------------------------------------------------------------
\* What is charged.

LEMMA LiveFilesAreFinite ==
  ASSUME NEW t, Typed(t)
  PROVE  /\ LiveFiles(t) \subseteq 1 .. MaxNodes
         /\ IsFiniteSet(LiveFiles(t))
         /\ Usage(t) \in 0 .. MaxNodes
<1>1. LiveFiles(t) \subseteq 1 .. MaxNodes
  BY DriveAssumption DEF LiveFiles, Typed, Nodes, Root
<1>2. IsFiniteSet(1 .. MaxNodes) /\ Cardinality(1 .. MaxNodes) = MaxNodes
  BY FS_Interval, DriveAssumption
<1>3. IsFiniteSet(LiveFiles(t)) /\ Cardinality(LiveFiles(t)) <= MaxNodes
  BY <1>1, <1>2, FS_Subset
<1>4. Cardinality(LiveFiles(t)) \in Nat
  BY <1>3, FS_CardinalityType
<1> QED  BY <1>1, <1>3, <1>4, DriveAssumption DEF Usage

LEMMA UsageGrows ==
  ASSUME NEW t, Typed(t), NEW u, Typed(u), LiveFiles(t) \subseteq LiveFiles(u)
  PROVE  Usage(t) <= Usage(u)
BY LiveFilesAreFinite, FS_Subset DEF Usage

-------------------------------------------------------------------------------
\* The steps.

LEMMA TreeFacts ==
  ASSUME IInv
  PROVE  /\ tree \in [Nodes -> Node \union {NoNode}]
         /\ Present = Some(tree)
         /\ Root \in Present
         /\ tree[Root].above = {}
         /\ Usage(tree) \in Nat
BY LiveFilesAreFinite, RootIsNode DEF IInv, IsTree, Typed, Some, Present, Exists

\* A node appears with a new identity.
LEMMA InsertKeepsInv ==
  ASSUME IInv, NEW kind \in {"folder", "file"}, NEW name \in Names,
         NEW p \in Present, IsFolder(p), created < MaxNodes,
         tree' = [tree EXCEPT ![created + 1] = NewNode(kind, name, p)],
         created' = created + 1,
         used' \in Nat,
         used' <= IF kind = "file" THEN used + 1 ELSE used
  PROVE  IInv'
<1>1. PICK i \in Nodes : i = created + 1 /\ i > created /\ created \in Nat
  BY DriveAssumption DEF IInv, Nodes
<1>2. tree[i] = NoNode
  BY <1>1 DEF IInv, Fresh
<1>3. tree \in [Nodes -> Node \union {NoNode}] /\ p \in Some(tree) /\ tree[p].kind = "folder"
  BY TreeFacts DEF IsFolder
<1>4. PICK v \in Node : /\ v = NewNode(kind, name, p)
                        /\ v.parent = p /\ v.above = tree[p].above \union {p}
                        /\ v.kind = kind /\ v.place = "live"
  BY <1>3, NodeFields DEF NewNode, Node, Places
<1>5. IsTree(tree') /\ Some(tree') = Some(tree) \union {i}
  <2>1. /\ tree' \in [Nodes -> Node \union {NoNode}]
        /\ tree'[i] = v /\ \A n \in Nodes : n # i => tree'[n] = tree[n]
    BY <1>1, <1>3, <1>4
  <2>2. tree'[i] # NoNode /\ tree'[i].parent = p /\ tree'[i].above = tree[p].above \union {p}
    BY <1>4, <2>1, SentinelAssumption
  <2>3. IsTree(tree)
    BY DEF IInv
  <2> QED  BY ONLY <1>2, <1>3, <2>1, <2>2, <2>3, i \in Nodes, Grown
<1>6. Fresh'
  BY <1>1, <1>3 DEF IInv, Fresh, Nodes
<1>7. NeverOvercharged'
  <2>1. tree'[i] = v /\ \A n \in Nodes : n # i => tree'[n] = tree[n]
    BY <1>1, <1>3, <1>4
  <2>2. LiveFiles(tree) \subseteq LiveFiles(tree')
    BY <1>2, <2>1 DEF LiveFiles
  <2>3. Typed(tree) /\ Typed(tree')
    BY <1>5 DEF IInv, IsTree
  <2>4. Usage(tree) \in Nat /\ Usage(tree') \in Nat /\ used \in Nat /\ used <= Usage(tree)
    BY <2>3, LiveFilesAreFinite DEF IInv, NeverOvercharged
  <2>5. CASE kind = "folder"
    <3>1. Usage(tree) <= Usage(tree')
      BY <2>2, <2>3, UsageGrows
    <3>2. used' <= used
      BY <2>5
    <3>3. used' <= Usage(tree')
      BY <2>4, <3>1, <3>2
    <3> QED  BY <3>3 DEF NeverOvercharged
  <2>6. CASE kind = "file"
    <3>1. LiveFiles(tree') = LiveFiles(tree) \union {i} /\ i \notin LiveFiles(tree)
      BY <1>1, <1>2, <1>4, <2>1, <2>6, SentinelAssumption DEF LiveFiles
    <3>2. Usage(tree') = Usage(tree) + 1
      BY <2>3, <3>1, LiveFilesAreFinite, FS_AddElement DEF Usage
    <3> QED  BY <2>4, <2>6, <3>2 DEF NeverOvercharged
  <2> QED  BY <2>5, <2>6
<1> QED  BY <1>1, <1>5, <1>6, <1>7 DEF IInv

\* The nodes stay; what changes is where they hang, their names and places.
LEMMA ChangeKeepsInv ==
  ASSUME IInv, IsTree(tree'), Some(tree') = Some(tree), UNCHANGED created,
         \/ UNCHANGED used /\ LiveFiles(tree') = LiveFiles(tree)
         \/ used' = Usage(tree')
  PROVE  IInv'
<1>1. Typed(tree) /\ Typed(tree')
  BY DEF IInv, IsTree
<1>2. used' \in Nat /\ NeverOvercharged'
  BY <1>1, LiveFilesAreFinite DEF IInv, NeverOvercharged, Usage
<1>3. Fresh'
  BY DEF IInv, Fresh, Some
<1> QED  BY <1>2, <1>3 DEF IInv

LEMMA RelabelKeepsInv ==
  ASSUME IInv, tree' \in [Nodes -> Node \union {NoNode}], UNCHANGED created,
         \A n \in Nodes : tree[n] = NoNode => tree'[n] = NoNode,
         \A n \in Some(tree) : /\ tree'[n] # NoNode
                               /\ tree'[n].parent = tree[n].parent
                               /\ tree'[n].above = tree[n].above
                               /\ tree'[n].kind = tree[n].kind,
         \/ UNCHANGED used /\ \A n \in Some(tree) : tree'[n].place = tree[n].place
         \/ used' = Usage(tree')
  PROVE  IInv'
<1>1. Some(tree') = Some(tree)
  BY DEF Some
<1>2. IsTree(tree')
  BY <1>1, SameShape DEF IInv
<1>3. UNCHANGED used => LiveFiles(tree') = LiveFiles(tree) \/ used' = Usage(tree')
  BY DEF LiveFiles, Some
<1> QED  BY <1>1, <1>2, <1>3, ChangeKeepsInv

LEMMA RenameKeepsInv ==
  ASSUME IInv, NEW n \in Present, NEW name \in Names, Rename(n, name)
  PROVE  IInv'
<1>1. tree \in [Nodes -> Node \union {NoNode}] /\ n \in Some(tree) /\ n \in Nodes
  BY TreeFacts DEF Some
<1>2. PICK v : v = [tree[n] EXCEPT !.name = name]
  OBVIOUS
<1>3. v \in Node /\ v.parent = tree[n].parent /\ v.above = tree[n].above
      /\ v.kind = tree[n].kind /\ v.place = tree[n].place
  BY <1>1, <1>2, NodeFields DEF Node
<1>4. tree' = [tree EXCEPT ![n] = v] /\ UNCHANGED <<used, created>>
  BY <1>2 DEF Rename
<1>5. tree' \in [Nodes -> Node \union {NoNode}] /\ tree'[n] = v
      /\ \A m \in Nodes : m # n => tree'[m] = tree[m]
  BY <1>1, <1>3, <1>4
<1>6. \A m \in Nodes : tree[m] = NoNode => tree'[m] = NoNode
  BY <1>1, <1>5 DEF Some
<1>7. \A m \in Some(tree) : /\ tree'[m] # NoNode
                            /\ tree'[m].parent = tree[m].parent
                            /\ tree'[m].above = tree[m].above
                            /\ tree'[m].kind = tree[m].kind
                            /\ tree'[m].place = tree[m].place
  BY <1>3, <1>5, SentinelAssumption DEF Some
<1> QED  BY <1>4, <1>5, <1>6, <1>7, RelabelKeepsInv

\* Trash and restore change places only.
LEMMA PlacesKeepInv ==
  ASSUME IInv, NEW n \in Present, Trash(n) \/ Restore(n) PROVE IInv'
<1>1. tree \in [Nodes -> Node \union {NoNode}]
  BY TreeFacts
<1>2. \A m \in Subtree(n) : m \in Some(tree)
  BY TreeFacts DEF Subtree, Below
<1>3. \A m \in Nodes :
        \/ tree'[m] = tree[m]
        \/ m \in Some(tree) /\ \E w \in Places : tree'[m] = [tree[m] EXCEPT !.place = w]
  BY <1>2 DEF Trash, Trashed, Restore, Restored, Places
<1>4. ASSUME NEW m \in Some(tree), NEW w \in Places
      PROVE  /\ [tree[m] EXCEPT !.place = w] \in Node
             /\ [tree[m] EXCEPT !.place = w].parent = tree[m].parent
             /\ [tree[m] EXCEPT !.place = w].above = tree[m].above
             /\ [tree[m] EXCEPT !.place = w].kind = tree[m].kind
  BY <1>1, NodeFields DEF Node
<1>5. \A m \in Nodes : tree[m] = NoNode => tree'[m] = NoNode
  BY <1>3 DEF Some
<1>6. \A m \in Some(tree) : /\ tree'[m] \in Node
                            /\ tree'[m].parent = tree[m].parent
                            /\ tree'[m].above = tree[m].above
                            /\ tree'[m].kind = tree[m].kind
  <2> SUFFICES ASSUME NEW m \in Some(tree)
               PROVE  /\ tree'[m] \in Node
                      /\ tree'[m].parent = tree[m].parent
                      /\ tree'[m].above = tree[m].above
                      /\ tree'[m].kind = tree[m].kind
    OBVIOUS
  <2>1. CASE tree'[m] = tree[m]
    BY <1>1, <2>1 DEF Some
  <2>2. ASSUME NEW w \in Places, tree'[m] = [tree[m] EXCEPT !.place = w]
        PROVE  /\ tree'[m] \in Node
               /\ tree'[m].parent = tree[m].parent
               /\ tree'[m].above = tree[m].above
               /\ tree'[m].kind = tree[m].kind
    BY <1>4, <2>2
  <2> QED  BY <1>3, <2>1, <2>2 DEF Some
<1>7. tree' \in [Nodes -> Node \union {NoNode}]
  <2>1. tree' = [m \in Nodes |-> tree'[m]]
    BY DEF Trash, Trashed, Restore, Restored
  <2>2. \A m \in Nodes : tree'[m] \in Node \union {NoNode}
    BY <1>5, <1>6 DEF Some
  <2> QED  BY <2>1, <2>2
<1>8. UNCHANGED created /\ used' = Usage(tree')
  BY DEF Trash, Restore
<1>9. \A m \in Some(tree) : /\ tree'[m] # NoNode
                            /\ tree'[m].parent = tree[m].parent
                            /\ tree'[m].above = tree[m].above
                            /\ tree'[m].kind = tree[m].kind
  BY <1>6, SentinelAssumption
<1> QED  BY ONLY IInv, <1>5, <1>7, <1>8, <1>9, RelabelKeepsInv

\* Move and PATCH: the subtree hangs elsewhere, whatever its top is called then.
LEMMA ReparentKeepsInv ==
  ASSUME IInv, NEW n \in Present, NEW p \in Present, CanMove(n, p),
         NEW name \in Names \union {"/"},
         tree' \in {Reparent(n, p), [Reparent(n, p) EXCEPT ![n].name = name]},
         UNCHANGED <<used, created>>
  PROVE  IInv'
<1>1. tree \in [Nodes -> Node \union {NoNode}] /\ Present = Some(tree)
  BY TreeFacts
<1>2. /\ n \in Some(tree) \ {Root} /\ p \in Some(tree) /\ tree[p].kind = "folder"
      /\ p # n /\ n \notin tree[p].above
  BY <1>1 DEF CanMove, Refused, IsFolder
<1>3. PICK prefix \in SUBSET Nodes :
        prefix = tree[p].above \union {p} /\ n \in Nodes /\ p \in Nodes
  <2>1. tree[p].above \in SUBSET Nodes /\ n \in Nodes /\ p \in Nodes
    BY <1>1, <1>2, NodeFields
  <2>2. tree[p].above \union {p} \in SUBSET Nodes
    BY <2>1
  <2> QED  BY <2>1, <2>2
<1>4. n \notin Below(n) /\ Below(n) \subseteq Some(tree)
  BY <1>1 DEF Below, IInv, IsTree, Ancestors
<1>5. PICK r : r = Reparent(n, p)
  OBVIOUS
<1>6. r[n] = [tree[n] EXCEPT !.parent = p, !.above = prefix]
  BY <1>3, <1>5 DEF Reparent
<1>7. r[n] \in Node /\ r[n].parent = p /\ r[n].above = prefix
      /\ r[n].kind = tree[n].kind /\ r[n].place = tree[n].place
  <2>1. tree[n] \in Node
    BY <1>1, <1>2, NodeFields
  <2>2. prefix \in SUBSET Nodes /\ p \in Nodes
    BY <1>3
  <2>3. PICK v : v = tree[n]
    OBVIOUS
  <2>4. PICK w : w = r[n]
    OBVIOUS
  <2>5. v \in Node /\ w = [v EXCEPT !.parent = p, !.above = prefix]
    BY <1>6, <2>1, <2>3, <2>4
  <2>6. /\ w \in Node /\ w.parent = p /\ w.above = prefix
        /\ w.kind = v.kind /\ w.place = v.place
    BY <2>2, <2>5 DEF Node
  <2> QED  BY <2>3, <2>4, <2>6
<1>8. ASSUME NEW m \in Some(tree), m # n, n \in tree[m].above
      PROVE  /\ r[m] \in Node /\ r[m].parent = tree[m].parent
             /\ r[m].above = prefix \union {n} \union (tree[m].above \ (tree[n].above \union {n}))
             /\ r[m].kind = tree[m].kind /\ r[m].place = tree[m].place
  <2> DEFINE new == prefix \union {n} \union (tree[m].above \ (tree[n].above \union {n}))
  <2>1. m \in Below(n) /\ m \in Nodes
    BY <1>1, <1>8, NodeFields DEF Below
  <2>2. r[m] = [tree[m] EXCEPT !.above = new]
    BY <1>3, <1>5, <1>8, <2>1 DEF Reparent
  <2>3. new \in SUBSET Nodes
    BY <1>1, <1>3, <1>8, NodeFields
  <2> HIDE DEF new
  <2>4. /\ r[m] \in Node /\ r[m].parent = tree[m].parent /\ r[m].above = new
        /\ r[m].kind = tree[m].kind /\ r[m].place = tree[m].place
    BY <1>1, <2>2, <2>3, NodeFields DEF Node
  <2> QED  BY <2>4 DEF new
<1>9. ASSUME NEW m \in Nodes, m # n, m \notin Below(n) PROVE r[m] = tree[m]
  BY <1>5, <1>9 DEF Reparent
<1>10. r = [m \in Nodes |-> r[m]]
  BY <1>5 DEF Reparent
<1>11. /\ Some(tree') = Some(tree)
       /\ \A m \in Nodes : m # n => tree'[m] = r[m]
       /\ tree'[n] \in Node /\ tree'[n].parent = p /\ tree'[n].above = prefix
       /\ tree'[n].kind = tree[n].kind /\ tree'[n].place = tree[n].place
       /\ tree' \in [Nodes -> Node \union {NoNode}]
  <2>1. \A m \in Nodes : m # n => r[m] \in Node \union {NoNode} /\ (r[m] = NoNode <=> tree[m] = NoNode)
    BY <1>1, <1>4, <1>8, <1>9, SentinelAssumption DEF Below, Some
  <2>2. r \in [Nodes -> Node \union {NoNode}]
    BY <1>7, <1>10, <2>1
  <2>3. CASE tree' = r
    BY <1>2, <1>7, <2>1, <2>2, <2>3, SentinelAssumption DEF Some
  <2>4. CASE tree' = [r EXCEPT ![n].name = name]
    <3>1. PICK v : v = [r[n] EXCEPT !.name = name]
      OBVIOUS
    <3>2. v \in Node /\ v.parent = p /\ v.above = prefix
          /\ v.kind = tree[n].kind /\ v.place = tree[n].place
      BY <1>7, <3>1 DEF Node
    <3>3. tree' = [r EXCEPT ![n] = v]
      BY <2>4, <3>1
    <3>4. tree' \in [Nodes -> Node \union {NoNode}] /\ tree'[n] = v
          /\ \A m \in Nodes : m # n => tree'[m] = r[m]
      BY <1>3, <2>2, <3>2, <3>3
    <3>5. Some(tree') = Some(tree)
      BY <1>2, <2>1, <3>2, <3>4, SentinelAssumption DEF Some
    <3> QED  BY <3>2, <3>4, <3>5
  <2> QED  BY <1>5, <2>3, <2>4
<1>12. /\ \A m \in Some(tree) : tree'[m].kind = tree[m].kind /\ tree'[m].place = tree[m].place
       /\ \A m \in Some(tree) \ {n} : tree'[m].parent = tree[m].parent
       /\ \A m \in Some(tree) : n \in tree[m].above =>
             tree'[m].above = tree[p].above \union {p} \union {n}
                                \union (tree[m].above \ (tree[n].above \union {n}))
       /\ \A m \in Some(tree) \ {n} : n \notin tree[m].above => tree'[m].above = tree[m].above
  <2> SUFFICES ASSUME NEW m \in Some(tree)
               PROVE  /\ tree'[m].kind = tree[m].kind /\ tree'[m].place = tree[m].place
                      /\ m # n => tree'[m].parent = tree[m].parent
                      /\ n \in tree[m].above =>
                           tree'[m].above = tree[p].above \union {p} \union {n}
                                \union (tree[m].above \ (tree[n].above \union {n}))
                      /\ (m # n /\ n \notin tree[m].above) => tree'[m].above = tree[m].above
    OBVIOUS
  <2>1. CASE m = n
    BY <1>4, <1>11, <2>1 DEF IInv, IsTree, Ancestors
  <2>2. CASE m # n /\ n \in tree[m].above
    BY <1>3, <1>8, <1>11, <2>2 DEF Some
  <2>3. CASE m # n /\ n \notin tree[m].above
    BY <1>9, <1>11, <2>3 DEF Some, Below
  <2> QED  BY <2>1, <2>2, <2>3
<1>13. IsTree(tree) /\ tree'[n].parent = p /\ tree'[n].above = tree[p].above \union {p}
       /\ Some(tree') = Some(tree) /\ tree' \in [Nodes -> Node \union {NoNode}]
  BY <1>3, <1>11 DEF IInv
<1>14. IsTree(tree')
  <2>1. /\ n \in Some(tree) \ {Root} /\ p \in Some(tree) /\ tree[p].kind = "folder"
        /\ p # n /\ n \notin tree[p].above
    BY <1>2
  <2>2. \A m \in Some(tree) : tree'[m].kind = tree[m].kind
    BY <1>12
  <2> QED  BY ONLY <1>12, <1>13, <2>1, <2>2, Moved
<1>15. LiveFiles(tree') = LiveFiles(tree)
  BY <1>12, <1>13 DEF LiveFiles, Some
<1> QED  BY <1>13, <1>14, <1>15, ChangeKeepsInv

LEMMA PurgeKeepsInv ==
  ASSUME IInv, NEW n \in Present, NEW recursive \in BOOLEAN, Purge(n, recursive)
  PROVE  IInv'
<1>1. tree \in [Nodes -> Node \union {NoNode}] /\ Present = Some(tree) /\ IsTree(tree)
  BY TreeFacts DEF IInv
<1>2. n \in Some(tree) \ {Root} /\ tree' = Purged(n) /\ used' = Usage(tree')
      /\ UNCHANGED created
  BY <1>1 DEF Purge
<1>3. \A m \in Nodes :
        tree'[m] = IF m = n \/ (m \in Some(tree) /\ n \in tree[m].above)
                   THEN NoNode ELSE tree[m]
  BY <1>1, <1>2 DEF Purged, Subtree, Below
<1>4. tree' = [m \in Nodes |-> tree'[m]]
  BY <1>2 DEF Purged
<1>5. tree' \in [Nodes -> Node \union {NoNode}]
  BY <1>1, <1>3, <1>4
<1>6. IsTree(tree') /\ Some(tree') \subseteq Some(tree)
  BY ONLY <1>1, <1>2, <1>3, <1>5, Shrunk
<1>7. Fresh'
  BY <1>2, <1>6 DEF IInv, Fresh, Some
<1>8. used' \in Nat /\ NeverOvercharged'
  BY <1>2, <1>6, LiveFilesAreFinite DEF IsTree, NeverOvercharged
<1> QED  BY <1>2, <1>6, <1>7, <1>8 DEF IInv

-------------------------------------------------------------------------------
\* Copying a folder.

\* The order in which what is below the folder is copied: a strict order of all
\* nodes in which a node comes after those above it.
LEMMA Depths ==
  ASSUME IInv, NEW m \in Present
  PROVE  Cardinality(tree[m].above) \in Nat /\ IsFiniteSet(tree[m].above)
<1>1. IsFiniteSet(Nodes)
  BY FS_Interval, DriveAssumption DEF Nodes
<1>2. tree[m].above \in SUBSET Nodes
  BY TreeFacts, NodeFields
<1>3. IsFiniteSet(tree[m].above)
  BY <1>1, <1>2, FS_Subset
<1> QED  BY <1>3, FS_CardinalityType

LEMMA BeforeIsStrict ==
  ASSUME IInv
  PROVE  /\ \A m \in Present : ~Before(m, m)
         /\ \A m, k \in Present : m = k \/ Before(m, k) \/ Before(k, m)
         /\ \A m, k, l \in Present : Before(m, k) /\ Before(k, l) => Before(m, l)
         /\ \A m \in Present : \A a \in tree[m].above : a \in Present /\ Before(a, m)
<1>1. \A m \in Present : Cardinality(tree[m].above) \in Nat /\ m \in Int
  BY Depths, DriveAssumption DEF Present, Nodes
<1>2. \A m \in Present : ~Before(m, m)
  BY <1>1 DEF Before
<1>3. \A m, k \in Present : m = k \/ Before(m, k) \/ Before(k, m)
  BY <1>1 DEF Before
<1>4. \A m, k, l \in Present : Before(m, k) /\ Before(k, l) => Before(m, l)
  BY <1>1 DEF Before
<1>5. ASSUME NEW m \in Present, NEW a \in tree[m].above PROVE a \in Present /\ Before(a, m)
  <2>1. a \in Present /\ tree[a].above \subseteq tree[m].above /\ a \notin tree[a].above
    BY TreeFacts DEF IInv, IsTree, Ancestors
  <2>2. Cardinality(tree[a].above) < Cardinality(tree[m].above)
    <3>1. /\ Cardinality(tree[a].above) <= Cardinality(tree[m].above)
          /\ Cardinality(tree[m].above) = Cardinality(tree[a].above)
               => tree[m].above = tree[a].above
      BY <2>1, Depths, FS_Subset
    <3>2. tree[m].above # tree[a].above
      BY <2>1
    <3> QED  BY <1>1, <2>1, <3>1, <3>2
  <2> QED  BY <2>1, <2>2 DEF Before
<1> QED  BY <1>2, <1>3, <1>4, <1>5

\* What is copied contains all that lies between the folder and a copied node.
LEMMA CopiedFacts ==
  ASSUME IInv, NEW n \in Present
  PROVE  /\ Copied(n) \subseteq Present /\ n \notin Copied(n)
         /\ \A m \in Copied(n) : n \in tree[m].above
         /\ \A m \in Copied(n) \union {n} : \A a \in tree[m].above :
              n \in tree[a].above => a \in Copied(n)
         /\ IsFiniteSet(Copied(n)) /\ Cardinality(Copied(n)) \in Nat
<1>1. Copied(n) \subseteq Below(n) /\ Below(n) \subseteq Present
  BY DEF Copied, Below
<1>2. \A m \in Present : /\ m \notin tree[m].above
                         /\ \A a \in tree[m].above : a \in Present /\ tree[a].above \subseteq tree[m].above
  BY TreeFacts DEF IInv, IsTree, Ancestors
<1>3. n \notin Copied(n) /\ \A m \in Copied(n) : n \in tree[m].above
  BY <1>1, <1>2 DEF Below
<1>4. ASSUME NEW m \in Copied(n) \union {n}, NEW a \in tree[m].above, n \in tree[a].above
      PROVE  a \in Copied(n)
  <2>1. m \in Copied(n)
    BY <1>2, <1>4
  <2>2. m \in Present /\ a \in Present /\ a \in Below(n) /\ Before(a, m)
    BY <1>1, <1>2, <1>4, <2>1, BeforeIsStrict DEF Below
  <2> SUFFICES ASSUME NEW k \in Below(n), k = a \/ Before(k, a) PROVE ~Clashes(n, k)
    BY <2>2 DEF Copied
  <2>3. k \in Present
    BY <1>1
  <2>4. Before(k, m)
    BY <2>2, <2>3, BeforeIsStrict
  <2> QED  BY <2>1, <2>4 DEF Copied
<1>5. IsFiniteSet(Nodes)
  BY FS_Interval, DriveAssumption DEF Nodes
<1>6. IsFiniteSet(Copied(n))
  <2>1. Copied(n) \in SUBSET Nodes
    BY <1>1 DEF Present
  <2> QED  BY <1>5, <2>1, FS_Subset
<1>7. Cardinality(Copied(n)) \in Nat
  BY <1>6, FS_CardinalityType
<1> QED  BY <1>1, <1>3, <1>4, <1>6, <1>7

\* The copies have identities of their own, none of them given before.
LEMMA CopyOfFacts ==
  ASSUME IInv, NEW n \in Present, created + 1 + Cardinality(Copied(n)) <= MaxNodes
  PROVE  /\ \A m \in Copied(n) \union {n} :
              CopyOf(n, m) \in created + 1 .. created + 1 + Cardinality(Copied(n))
         /\ \A m, k \in Copied(n) \union {n} : CopyOf(n, m) = CopyOf(n, k) => m = k
<1> DEFINE Rank(m) == {k \in Copied(n) : Before(k, m)}
<1>1. /\ Copied(n) \subseteq Present /\ n \notin Copied(n)
      /\ IsFiniteSet(Copied(n)) /\ Cardinality(Copied(n)) \in Nat /\ created \in Nat
  BY CopiedFacts, DriveAssumption DEF IInv, Nodes
<1>2. \A m \in Copied(n) : IsFiniteSet(Rank(m)) /\ Cardinality(Rank(m)) \in Nat
  BY <1>1, FS_Subset, FS_CardinalityType
<1>3. ASSUME NEW m \in Copied(n) PROVE Cardinality(Rank(m)) < Cardinality(Copied(n))
  <2>1. Rank(m) \in SUBSET Copied(n) /\ m \notin Rank(m)
    BY <1>1, BeforeIsStrict
  <2>2. Cardinality(Rank(m)) <= Cardinality(Copied(n))
        /\ Cardinality(Rank(m)) # Cardinality(Copied(n))
    BY <1>1, <2>1, FS_Subset
  <2> QED  BY <1>1, <1>2, <2>2
<1>4. ASSUME NEW m \in Copied(n), NEW k \in Copied(n), Before(m, k)
      PROVE  Cardinality(Rank(m)) < Cardinality(Rank(k))
  <2>1. Rank(m) \in SUBSET Rank(k)
    BY <1>1, <1>4, BeforeIsStrict
  <2>2. m \in Rank(k) /\ m \notin Rank(m)
    BY <1>1, <1>4, BeforeIsStrict
  <2>3. Cardinality(Rank(m)) <= Cardinality(Rank(k))
        /\ Cardinality(Rank(m)) # Cardinality(Rank(k))
    BY <1>2, <2>1, <2>2, FS_Subset
  <2>4. Cardinality(Rank(m)) \in Nat /\ Cardinality(Rank(k)) \in Nat
    BY <1>2
  <2> HIDE DEF Rank
  <2> QED  BY <2>3, <2>4
<1>5. CopyOf(n, n) = created + 1
  BY DEF CopyOf
<1>6. \A m \in Copied(n) : CopyOf(n, m) = created + 2 + Cardinality(Rank(m))
  BY <1>1 DEF CopyOf
<1> HIDE DEF Rank
<1>7. \A m \in Copied(n) \union {n} :
        CopyOf(n, m) \in created + 1 .. created + 1 + Cardinality(Copied(n))
  BY <1>1, <1>2, <1>3, <1>5, <1>6
<1>8. ASSUME NEW m \in Copied(n) \union {n}, NEW k \in Copied(n) \union {n},
             CopyOf(n, m) = CopyOf(n, k)
      PROVE  m = k
  <2>1. CASE m = n \/ k = n
    BY <1>1, <1>2, <1>5, <1>6, <1>8, <2>1
  <2>2. CASE m \in Copied(n) /\ k \in Copied(n)
    <3>1. Cardinality(Rank(m)) = Cardinality(Rank(k))
      BY <1>1, <1>2, <1>6, <1>8, <2>2
    <3>2. ~Before(m, k) /\ ~Before(k, m)
      BY <1>2, <1>4, <2>2, <3>1
    <3> QED  BY <1>1, <2>2, <3>2, BeforeIsStrict
  <2> QED  BY <2>1, <2>2
<1> QED  BY <1>7, <1>8

LEMMA CopyFolderKeepsInv ==
  ASSUME IInv, NEW n \in Present, NEW p \in Present, NEW name \in Names,
         CopyFolder(n, p, name)
  PROVE  IInv'
<1>1. tree \in [Nodes -> Node \union {NoNode}] /\ Present = Some(tree) /\ IsTree(tree)
  BY TreeFacts DEF IInv
<1>2. PICK S \in SUBSET Present : S = Copied(n) \union {n}
  BY CopiedFacts
<1>3. PICK size \in Nat : size = Cardinality(Copied(n)) /\ created + 1 + size <= MaxNodes
  BY CopiedFacts DEF CopyFolder
<1>4. created \in Nat /\ MaxNodes \in Nat
  BY DriveAssumption DEF IInv, Nodes
<1>5. PICK f \in [S -> Nodes] : \A m \in S : f[m] = CopyOf(n, m)
  <2>1. \A m \in S : CopyOf(n, m) \in Nodes
    BY <1>2, <1>3, <1>4, CopyOfFacts DEF Nodes
  <2>2. [m \in S |-> CopyOf(n, m)] \in [S -> Nodes]
    BY <2>1
  <2> QED  BY <2>2
<1>6. \A m \in S : f[m] > created /\ f[m] <= created + 1 + size /\ f[m] \in Nodes
  BY <1>2, <1>3, <1>4, <1>5, CopyOfFacts
<1>7. \A m, k \in S : f[m] = f[k] => m = k
  BY <1>2, <1>3, <1>5, CopyOfFacts
<1>8. \A m \in S : tree[f[m]] = NoNode
  BY <1>6 DEF IInv, Fresh
<1>9. /\ n \in S /\ n \in Some(tree) /\ p \in Some(tree)
      /\ tree[n].kind = "folder" /\ tree[p].kind = "folder"
      /\ \A m \in S \ {n} : n \in tree[m].above
      /\ \A m \in S : \A a \in tree[m].above : n \in tree[a].above => a \in S
  BY <1>1, <1>2, CopiedFacts DEF CopyFolder, IsFolder
<1>10. /\ tree' = [i \in Nodes |->
                    IF \E m \in S : CopyOf(n, m) = i
                      THEN Clone(n, CHOOSE m \in S : CopyOf(n, m) = i, p, name)
                      ELSE tree[i]]
       /\ created' = created + 1 + size /\ UNCHANGED used
  BY <1>2, <1>3 DEF CopyFolder
<1>11. \A i \in Nodes : (\A m \in S : f[m] # i) => tree'[i] = tree[i]
  BY <1>5, <1>10
<1>12. \A m \in S : tree'[f[m]] = Clone(n, m, p, name)
  <2> SUFFICES ASSUME NEW m \in S PROVE tree'[f[m]] = Clone(n, m, p, name)
    OBVIOUS
  <2>1. \A k \in S : CopyOf(n, k) = f[m] => k = m
    BY <1>5, <1>7
  <2>2. CopyOf(n, m) = f[m] /\ f[m] \in Nodes
    BY <1>5, <1>6
  <2>3. (CHOOSE k \in S : CopyOf(n, k) = f[m]) = m
    BY <2>1, <2>2
  <2> QED  BY <1>10, <2>2, <2>3
<1>13. \A m \in S : tree[m].above \ tree[n].above \subseteq S
  <2> SUFFICES ASSUME NEW m \in S, NEW k \in tree[m].above \ tree[n].above PROVE k \in S
    OBVIOUS
  <2>1. m # n /\ n \in tree[m].above
    BY <1>9
  <2>2. k = n \/ n \in tree[k].above
    BY <1>1, <1>2, <2>1 DEF IsTree, Lines
  <2> QED  BY <1>9, <2>2
<1>14. PICK prefix \in SUBSET Nodes : prefix = tree[p].above \union {p}
  <2>1. tree[p].above \in SUBSET Nodes /\ p \in Nodes
    BY <1>1, <1>9, NodeFields
  <2>2. tree[p].above \union {p} \in SUBSET Nodes
    BY <2>1
  <2> QED  BY <2>2
<1>15. ASSUME NEW m \in S
       PROVE  /\ tree'[f[m]] \in Node
              /\ tree'[f[m]].kind = tree[m].kind
              /\ m = n => tree'[f[m]].parent = p
              /\ m # n => tree'[f[m]].parent = f[tree[m].parent]
              /\ tree'[f[m]].above = tree[p].above \union {p}
                     \union {f[k] : k \in tree[m].above \ tree[n].above}
  <2>1. CASE m = n
    <3>1. tree'[f[m]] = NewNode("folder", name, p)
      BY <1>12, <2>1 DEF Clone
    <3>2. NewNode("folder", name, p) \in Node
      BY <1>1, <1>9, <1>14, NodeFields DEF NewNode, Node, Places
    <3>3. {f[k] : k \in tree[m].above \ tree[n].above} = {}
      BY <2>1
    <3> QED  BY <1>9, <2>1, <3>1, <3>2, <3>3 DEF NewNode
  <2>2. CASE m # n
    <3>1. PICK q : q = tree[m].parent
      OBVIOUS
    <3>2. q \in S
      <4>1. m # Root /\ m \in Some(tree)
        BY <1>1, <1>2, <1>9, <2>2 DEF IsTree, Typed
      <4>2. q \in tree[m].above /\ tree[m].above = tree[q].above \union {q}
        BY <1>1, <3>1, <4>1 DEF IsTree, Parents
      <4>3. q = n \/ n \in tree[q].above
        BY <1>9, <2>2, <4>2
      <4> QED  BY <1>9, <4>2, <4>3
    <3>3. PICK image : image = {f[k] : k \in tree[m].above \ tree[n].above}
      OBVIOUS
    <3>4. image \in SUBSET Nodes /\ image = {CopyOf(n, k) : k \in tree[m].above \ tree[n].above}
      BY <1>5, <1>13, <3>3
    <3>5. CopyOf(n, q) = f[q] /\ f[q] \in Nodes
      BY <1>5, <3>2
    <3>6. PICK new \in SUBSET Nodes : new = prefix \union image
      BY <3>4
    <3>7. tree'[f[m]] = [tree[m] EXCEPT !.parent = f[q], !.above = new, !.place = "live"]
      BY <1>12, <1>14, <2>2, <3>1, <3>4, <3>5, <3>6 DEF Clone
    <3>8. tree[m] \in Node
      BY <1>1, <1>2, NodeFields
    <3>9. /\ tree'[f[m]] \in Node /\ tree'[f[m]].kind = tree[m].kind
          /\ tree'[f[m]].parent = f[q] /\ tree'[f[m]].above = new
      BY <3>5, <3>6, <3>7, <3>8 DEF Node, Places
    <3> QED  BY <1>14, <2>2, <3>1, <3>3, <3>6, <3>9
  <2> QED  BY <2>1, <2>2
<1>16. tree' \in [Nodes -> Node \union {NoNode}]
  <2>1. tree' = [i \in Nodes |-> tree'[i]]
    BY <1>10
  <2>2. \A i \in Nodes : tree'[i] \in Node \union {NoNode}
    BY <1>1, <1>11, <1>15
  <2> QED  BY <2>1, <2>2
<1>17. /\ \A m \in S : tree'[f[m]] # NoNode /\ tree'[f[m]].kind = tree[m].kind
       /\ tree'[f[n]].parent = p
       /\ \A m \in S \ {n} : tree'[f[m]].parent = f[tree[m].parent]
       /\ \A m \in S : tree'[f[m]].above = tree[p].above \union {p}
                           \union {f[k] : k \in tree[m].above \ tree[n].above}
  BY <1>9, <1>15, SentinelAssumption
<1>18. IsTree(tree') /\ \A m \in Some(tree) : tree'[m] = tree[m]
  <2>1. S \in SUBSET Some(tree)
    BY <1>1, <1>2
  <2>2. f \in [S -> Nodes]
    OBVIOUS
  <2>3. IsClone(tree, n, p, S, f, tree')
    BY ONLY <1>1, <2>2, <1>7, <1>8, <1>9, <1>11, <1>16, <1>17, <2>1 DEF IsClone
  <2> QED  BY <2>3, Cloned
<1>19. Fresh' /\ created' \in Nodes
  BY <1>3, <1>4, <1>6, <1>10, <1>11 DEF IInv, Fresh, Nodes
<1>20. LiveFiles(tree) \subseteq LiveFiles(tree')
  BY <1>18 DEF LiveFiles, Some
<1>21. Usage(tree) <= Usage(tree') /\ Usage(tree) \in Nat /\ Usage(tree') \in Nat
  BY <1>1, <1>18, <1>20, UsageGrows, LiveFilesAreFinite DEF IsTree
<1>22. NeverOvercharged'
  BY <1>10, <1>21 DEF IInv, NeverOvercharged
<1> QED  BY <1>10, <1>18, <1>19, <1>22 DEF IInv

-------------------------------------------------------------------------------
LEMMA InitInv == Init => IInv
<1> SUFFICES ASSUME Init PROVE IInv
  OBVIOUS
<1>1. RootNode \in Node
  BY RootIsNode DEF RootNode, Node, Places
<1>2. /\ tree \in [Nodes -> Node \union {NoNode}] /\ tree[Root] = RootNode
      /\ \A n \in Nodes : n # Root => tree[n] = NoNode
  BY <1>1, RootIsNode DEF Init
<1>3. Some(tree) = {Root}
  BY <1>1, <1>2, RootIsNode, SentinelAssumption DEF Some
<1>4. IsTree(tree)
  BY <1>2, <1>3 DEF IsTree, Typed, Parents, Ancestors, Lines, RootNode
<1>5. Fresh /\ created \in Nodes
  BY <1>2, RootIsNode DEF Init, Fresh, Root
<1>6. NeverOvercharged
  BY <1>4, LiveFilesAreFinite DEF Init, NeverOvercharged, IsTree
<1> QED  BY <1>4, <1>5, <1>6 DEF Init, IInv

LEMMA NextInv == ASSUME IInv, [Next]_vars PROVE IInv'
<1>1. CASE UNCHANGED vars
  BY <1>1 DEF vars, IInv, Fresh, NeverOvercharged
<1>2. ASSUME NEW p \in Present, NEW name \in Names,
             \/ CreateFolder(p, name)
             \/ \E overwrite \in BOOLEAN : CreateFile(p, name, overwrite)
             \/ \E n \in Present : CopyFile(n, p, name)
      PROVE  IInv'
  <2>1. PICK kind \in {"folder", "file"} :
          /\ IsFolder(p) /\ created < MaxFresh
          /\ tree' = [tree EXCEPT ![created + 1] = NewNode(kind, name, p)]
          /\ created' = created + 1
          /\ (used' = used \/ (kind = "file" /\ used' = used + 1))
    BY <1>2 DEF CreateFolder, CreateFile, CopyFile, Insert
  <2>2. created < MaxNodes
    BY <2>1, DriveAssumption DEF IInv, Nodes
  <2>3. used' \in Nat /\ used' <= IF kind = "file" THEN used + 1 ELSE used
    BY <2>1 DEF IInv
  <2> QED  BY <2>1, <2>2, <2>3, InsertKeepsInv
<1>3. ASSUME NEW n \in Present, NEW p \in Present,
             Move(n, p) \/ \E name \in Names : Patch(n, p, name)
      PROVE  IInv'
  <2>1. PICK name \in Names \union {"/"} :
          /\ CanMove(n, p)
          /\ tree' \in {Reparent(n, p), [Reparent(n, p) EXCEPT ![n].name = name]}
          /\ UNCHANGED <<used, created>>
    BY <1>3 DEF Move, Patch
  <2> QED  BY <2>1, ReparentKeepsInv
<1> QED
  BY <1>1, <1>2, <1>3, RenameKeepsInv, PlacesKeepInv, PurgeKeepsInv, CopyFolderKeepsInv
     DEF Next

LEMMA Invariant == Spec => []IInv
<1>1. IInv /\ [Next]_vars => IInv'
  BY NextInv
<1> QED  BY <1>1, InitInv, PTL DEF Spec

\* The table nodes, used_bytes and the identities given have their types in every
\* behaviour; in particular used_bytes is never negative.
THEOREM TypeCorrect == Spec => []TypeOK
<1>1. IInv => TypeOK
  <2> SUFFICES ASSUME IInv PROVE TypeOK
    OBVIOUS
  <2>1. Usage(tree) \in 0 .. MaxNodes
    BY LiveFilesAreFinite DEF IInv, IsTree
  <2>2. used \in 0 .. MaxNodes
    BY <2>1, DriveAssumption DEF IInv, NeverOvercharged
  <2> QED  BY <2>2 DEF IInv, IsTree, Typed, TypeOK
<1> QED  BY <1>1, Invariant, PTL

\* However folders are moved, copied, trashed, restored and purged, ancestor_ids
\* is the way from a node to the root, and every node hangs from a folder.
THEOREM TreeStaysConsistent == Spec => []TreeIsConsistent
<1>1. IInv => TreeIsConsistent
  BY TreeFacts
     DEF IInv, IsTree, Typed, Parents, Ancestors, TreeIsConsistent, IsFolder, Present
<1> QED  BY <1>1, Invariant, PTL

\* No sequence of reservations, trashing, restoring, purging and copying charges
\* an owner for more than the live files hold.
THEOREM NobodyIsOvercharged == Spec => []NeverOvercharged
<1>1. IInv => NeverOvercharged
  BY DEF IInv
<1> QED  BY <1>1, Invariant, PTL

-------------------------------------------------------------------------------
\* What one step does to the nodes that a reader of the table sees.

\* A move, with or without a new name: of the other nodes only the arrays change.
LEMMA MovedNodes ==
  ASSUME IInv, NEW n \in Present, NEW p \in Present, CanMove(n, p),
         NEW name \in Names \union {"/"},
         tree' \in {Reparent(n, p), [Reparent(n, p) EXCEPT ![n].name = name]}
  PROVE  /\ \A m \in Nodes \ Present : tree'[m] = NoNode
         /\ \A m \in Present : tree'[m] \in Node /\ tree'[m].place = tree[m].place
         /\ \A m \in Present \ {n} : /\ tree'[m].parent = tree[m].parent
                                     /\ tree'[m].name = tree[m].name
         /\ tree'[n].parent = p /\ tree'[n].name \in {tree[n].name, name}
         /\ tree' = Reparent(n, p) => tree'[n].name = tree[n].name
<1>1. tree \in [Nodes -> Node \union {NoNode}] /\ Present = Some(tree) /\ n \in Nodes
  BY TreeFacts DEF Present
<1>2. PICK prefix \in SUBSET Nodes : prefix = tree[p].above \union {p}
  <2>1. tree[p].above \in SUBSET Nodes /\ p \in Nodes
    BY <1>1, NodeFields
  <2>2. tree[p].above \union {p} \in SUBSET Nodes
    BY <2>1
  <2> QED  BY <2>2
<1>3. PICK r : r = Reparent(n, p)
  OBVIOUS
<1>4. /\ r[n] \in Node /\ r[n].parent = p
      /\ r[n].name = tree[n].name /\ r[n].place = tree[n].place
  <2>1. PICK v, w : v = tree[n] /\ w = r[n]
    OBVIOUS
  <2>2. v \in Node /\ w = [v EXCEPT !.parent = p, !.above = prefix] /\ p \in Nodes
    BY <1>1, <1>2, <1>3, <2>1, NodeFields DEF Reparent, Present
  <2>3. w \in Node /\ w.parent = p /\ w.name = v.name /\ w.place = v.place
    BY <2>2 DEF Node
  <2> QED  BY <2>1, <2>3
<1>5. ASSUME NEW m \in Present, m # n
      PROVE  /\ r[m] \in Node /\ r[m].parent = tree[m].parent
             /\ r[m].name = tree[m].name /\ r[m].place = tree[m].place
  <2>1. m \in Nodes /\ tree[m] \in Node
    BY <1>1, NodeFields DEF Present
  <2>2. CASE m \notin Below(n)
    BY <1>3, <1>5, <2>1, <2>2 DEF Reparent
  <2>3. CASE m \in Below(n)
    <3>1. PICK v, w, new : /\ v = tree[m] /\ w = r[m]
                           /\ new = prefix \union {n} \union (tree[m].above \ (tree[n].above \union {n}))
      OBVIOUS
    <3>2. tree[m].above \in SUBSET Nodes
      BY <1>1, NodeFields
    <3>3. new \in SUBSET Nodes
      BY <1>1, <1>2, <3>1, <3>2
    <3>4. v \in Node /\ w = [v EXCEPT !.above = new]
      BY <1>2, <1>3, <1>5, <2>1, <2>3, <3>1 DEF Reparent
    <3>5. w \in Node /\ w.parent = v.parent /\ w.name = v.name /\ w.place = v.place
      BY <3>3, <3>4 DEF Node
    <3> QED  BY <3>1, <3>5
  <2> QED  BY <2>2, <2>3
<1>6. \A m \in Nodes \ Present : r[m] = NoNode
  <2> SUFFICES ASSUME NEW m \in Nodes, m \notin Present PROVE r[m] = NoNode
    OBVIOUS
  <2>1. m # n /\ m \notin Below(n) /\ tree[m] = NoNode
    BY DEF Below, Present, Exists
  <2> QED  BY <1>3, <2>1 DEF Reparent
<1>7. CASE tree' = r
  BY <1>3, <1>4, <1>5, <1>6, <1>7
<1>8. CASE tree' = [r EXCEPT ![n].name = name]
  <2>1. PICK v, w : v = r[n] /\ w = [v EXCEPT !.name = name]
    OBVIOUS
  <2>2. DOMAIN r = Nodes
    BY <1>3 DEF Reparent
  <2>3. tree'[n] = w /\ \A m \in Nodes : m # n => tree'[m] = r[m]
    BY <1>1, <1>8, <2>1, <2>2
  <2>4. w \in Node /\ w.parent = v.parent /\ w.name = name /\ w.place = v.place
    BY <1>4, <2>1 DEF Node
  <2>5. tree' = Reparent(n, p) => tree'[n].name = tree[n].name
    BY <1>3, <1>4
  <2> QED  BY <1>4, <1>5, <1>6, <2>1, <2>3, <2>4, <2>5 DEF Present
<1> QED  BY <1>3, <1>7, <1>8

\* A new node, by a creation, an upload or the copy of a file.
LEMMA InsertedNodes ==
  ASSUME IInv, NEW kind, NEW p, NEW name, created < MaxFresh,
         tree' = [tree EXCEPT ![created + 1] = NewNode(kind, name, p)]
  PROVE  /\ created + 1 \in Nodes \ Present
         /\ tree'[created + 1] = NewNode(kind, name, p)
         /\ \A m \in Nodes \ {created + 1} : tree'[m] = tree[m]
<1>1. created + 1 \in Nodes /\ created + 1 > created
  BY DriveAssumption DEF IInv, Nodes
<1>2. created + 1 \notin Present
  BY <1>1 DEF IInv, Fresh, Present, Exists
<1> QED  BY <1>1, <1>2, TreeFacts

\* f gives the copies of a folder and of what is copied with it: identities of
\* their own, live, each in the place of its original; the rest is as it was.
Copies(n, p, name, S, f) ==
  /\ f \in [S -> Nodes \ Present]
  /\ \A m, k \in S : f[m] = f[k] => m = k
  /\ \A m \in S \ {n} : /\ tree[m].parent \in S
                         /\ tree'[f[m]].parent = f[tree[m].parent]
                         /\ tree'[f[m]].name = tree[m].name
                         /\ tree'[f[m]].place = "live"
  /\ tree'[f[n]] = NewNode("folder", name, p)
  /\ \A i \in Nodes : tree'[i] = tree[i] \/ \E m \in S : i = f[m]
  /\ \A i \in Present : tree'[i] = tree[i]

LEMMA CopiedNodes ==
  ASSUME IInv, NEW n \in Present, NEW p \in Present, NEW name \in Names,
         CopyFolder(n, p, name)
  PROVE  \E f : Copies(n, p, name, Copied(n) \union {n}, f)
<1>1. tree \in [Nodes -> Node \union {NoNode}] /\ Present = Some(tree) /\ IsTree(tree)
  BY TreeFacts DEF IInv
<1>2. PICK S \in SUBSET Present : S = Copied(n) \union {n}
  BY CopiedFacts
<1>3. PICK size \in Nat : size = Cardinality(Copied(n)) /\ created + 1 + size <= MaxNodes
  BY CopiedFacts DEF CopyFolder
<1>4. created \in Nat /\ MaxNodes \in Nat
  BY DriveAssumption DEF IInv, Nodes
<1>5. \A m \in S : CopyOf(n, m) \in Nodes \ Present
  <2> SUFFICES ASSUME NEW m \in S PROVE CopyOf(n, m) \in Nodes \ Present
    OBVIOUS
  <2>1. CopyOf(n, m) \in created + 1 .. created + 1 + size
    BY <1>2, <1>3, CopyOfFacts
  <2>2. CopyOf(n, m) \in Nodes /\ CopyOf(n, m) > created
    BY <1>3, <1>4, <2>1 DEF Nodes
  <2> QED  BY <2>2 DEF IInv, Fresh, Present, Exists
<1>6. PICK f \in [S -> Nodes \ Present] : \A m \in S : f[m] = CopyOf(n, m)
  <2>1. [m \in S |-> CopyOf(n, m)] \in [S -> Nodes \ Present]
    BY <1>5
  <2> QED  BY <2>1
<1>7. \A m, k \in S : f[m] = f[k] => m = k
  BY <1>2, <1>3, <1>6, CopyOfFacts
<1>8. tree' = [i \in Nodes |->
                 IF \E m \in S : CopyOf(n, m) = i
                   THEN Clone(n, CHOOSE m \in S : CopyOf(n, m) = i, p, name)
                   ELSE tree[i]]
  BY <1>2 DEF CopyFolder
<1>9. \A i \in Nodes : tree'[i] = tree[i] \/ \E m \in S : i = f[m]
  BY <1>6, <1>8
<1>10. \A i \in Present : tree'[i] = tree[i]
  BY <1>6, <1>9 DEF Present
<1>11. \A m \in S : tree'[f[m]] = Clone(n, m, p, name)
  <2> SUFFICES ASSUME NEW m \in S PROVE tree'[f[m]] = Clone(n, m, p, name)
    OBVIOUS
  <2>1. \A k \in S : CopyOf(n, k) = f[m] => k = m
    BY <1>6, <1>7
  <2>2. CopyOf(n, m) = f[m] /\ f[m] \in Nodes
    BY <1>6
  <2>3. (CHOOSE k \in S : CopyOf(n, k) = f[m]) = m
    BY <2>1, <2>2
  <2> QED  BY <1>8, <2>2, <2>3
<1>12. ASSUME NEW m \in Copied(n)
       PROVE  /\ tree[m].parent \in S
              /\ tree'[f[m]].parent = f[tree[m].parent]
              /\ tree'[f[m]].name = tree[m].name
              /\ tree'[f[m]].place = "live"
  <2>1. m \in S /\ m # n /\ m \in Some(tree) /\ n \in tree[m].above
    BY <1>1, <1>2, CopiedFacts
  <2>2. m # Root
    BY <1>1, <2>1 DEF IsTree, Typed
  <2>3. PICK q : q = tree[m].parent
    OBVIOUS
  <2>4. q \in tree[m].above /\ tree[m].above = tree[q].above \union {q}
    BY <1>1, <2>1, <2>2, <2>3 DEF IsTree, Parents
  <2>5. q \in S
    BY <1>2, <2>1, <2>4, CopiedFacts
  <2>6. PICK v, w, new : /\ v = tree[m] /\ w = tree'[f[m]]
                         /\ new = tree[p].above \union {p}
                               \union {CopyOf(n, k) : k \in tree[m].above \ tree[n].above}
    OBVIOUS
  <2>7. v \in Node /\ w = [v EXCEPT !.parent = f[q], !.above = new, !.place = "live"]
    BY <1>1, <1>6, <1>11, <2>1, <2>3, <2>5, <2>6, NodeFields DEF Clone
  <2>8. w.parent = f[q] /\ w.name = v.name /\ w.place = "live"
    BY <2>7 DEF Node
  <2> QED  BY <2>3, <2>5, <2>6, <2>8
<1>13. tree'[f[n]] = NewNode("folder", name, p)
  BY <1>2, <1>11 DEF Clone
<1>14. Copies(n, p, name, S, f)
  BY <1>2, <1>6, <1>7, <1>9, <1>10, <1>12, <1>13 DEF Copies
<1> QED  BY <1>2, <1>14

LEMMA RenamedNodes ==
  ASSUME IInv, NEW n \in Present, NEW name \in Names, Rename(n, name)
  PROVE  /\ \A m \in Nodes \ {n} : tree'[m] = tree[m]
         /\ tree'[n] \in Node /\ tree'[n].name = name
         /\ tree'[n].parent = tree[n].parent /\ tree'[n].place = tree[n].place
<1>1. n \in Nodes /\ tree[n] \in Node
  BY TreeFacts, NodeFields DEF Present
<1>2. PICK v, w : v = tree[n] /\ w = [v EXCEPT !.name = name]
  OBVIOUS
<1>3. tree' = [tree EXCEPT ![n] = w]
  BY <1>2 DEF Rename
<1>4. tree'[n] = w /\ \A m \in Nodes \ {n} : tree'[m] = tree[m]
  BY <1>1, <1>3, TreeFacts
<1>5. w \in Node /\ w.name = name /\ w.parent = v.parent /\ w.place = v.place
  BY <1>1, <1>2 DEF Node
<1> QED  BY <1>2, <1>4, <1>5

-------------------------------------------------------------------------------
\* The trash.

StaysFound(n) ==
  (/\ Exists(n) /\ (Live(n) \/ Found(n))
   /\ Exists(n)' /\ ~Live(n)' /\ tree[n].above = tree'[n].above)
    => Found(n)'

\* A node is found while what it is found by is still in the trash.
LEMMA StillFound ==
  ASSUME NEW n \in Nodes, Found(n), tree[n].above = tree'[n].above,
         tree[n].place = "listed" => tree'[n].place = "listed",
         \A m \in tree[n].above : Exists(m) /\ ~Live(m) => Exists(m)' /\ ~Live(m)'
  PROVE  Found(n)'
BY DEF Found

LEMMA SamePlaces ==
  ASSUME IInv, \A m \in Present : tree'[m] # NoNode /\ tree'[m].place = tree[m].place
  PROVE  \A n \in Nodes : StaysFound(n)
<1> SUFFICES ASSUME NEW n \in Nodes, Exists(n), Live(n) \/ Found(n),
                    ~Live(n)', tree[n].above = tree'[n].above
             PROVE  Found(n)'
  BY DEF StaysFound
<1>1. n \in Present /\ Found(n) /\ tree[n].above \subseteq Present
  BY TreeFacts DEF Present, Live, IInv, IsTree, Ancestors
<1>2. \A m \in tree[n].above : Exists(m) /\ ~Live(m) => Exists(m)' /\ ~Live(m)'
  BY <1>1 DEF Exists, Live
<1>3. tree[n].place = "listed" => tree'[n].place = "listed"
  BY <1>1
<1> QED  BY <1>1, <1>2, <1>3, StillFound

LEMMA TrashFindable ==
  ASSUME IInv, NEW m \in Present, Trash(m)
  PROVE  \A n \in Nodes : StaysFound(n)
<1>1. tree \in [Nodes -> Node \union {NoNode}]
  BY TreeFacts
<1>2. \A k \in Nodes : k \notin Subtree(m) \/ ~Live(k) => tree'[k] = tree[k]
  BY DEF Trash, Trashed
<1>3. ASSUME NEW k \in Present, k \in Subtree(m), Live(k)
      PROVE  tree'[k] # NoNode /\ tree'[k].place = IF k = m THEN "listed" ELSE "below"
  <2>1. PICK v, w, place : /\ v = tree[k] /\ w = tree'[k]
                           /\ place = IF k = m THEN "listed" ELSE "below"
    OBVIOUS
  <2>2. v \in Node /\ w = [v EXCEPT !.place = place] /\ place \in Places
    BY <1>1, <1>3, <2>1, NodeFields, TreeFacts DEF Trash, Trashed, Places, Present
  <2>3. w \in Node /\ w.place = place
    BY <2>2 DEF Node
  <2> QED  BY <2>1, <2>3, SentinelAssumption
<1>4. \A k \in Present : ~Live(k) => tree'[k] = tree[k]
  BY <1>2 DEF Present
<1>5. m \in Present /\ Exists(m)' /\ ~Live(m)'
  BY <1>3, <1>4 DEF Subtree, Present, Exists, Live
<1> SUFFICES ASSUME NEW n \in Nodes, Exists(n), Live(n) \/ Found(n),
                    ~Live(n)', tree[n].above = tree'[n].above
             PROVE  Found(n)'
  BY DEF StaysFound
<1>6. n \in Present /\ tree[n].above \subseteq Present
  BY TreeFacts DEF Present, IInv, IsTree, Ancestors
<1>7. CASE Live(n)
  <2>1. n \in Subtree(m)
    BY <1>2, <1>7 DEF Live
  <2>2. CASE n = m
    BY <1>3, <1>6, <1>7, <2>1, <2>2 DEF Found
  <2>3. CASE n # m
    <3>1. m \in tree'[n].above
      BY <2>1, <2>3 DEF Subtree, Below
    <3> QED  BY <1>5, <3>1 DEF Found
  <2> QED  BY <2>2, <2>3
<1>8. CASE ~Live(n)
  <2>1. \A k \in tree[n].above : Exists(k) /\ ~Live(k) => Exists(k)' /\ ~Live(k)'
    BY <1>4, <1>6 DEF Exists, Live
  <2>2. tree'[n] = tree[n] /\ Found(n)
    BY <1>4, <1>6, <1>8
  <2> QED  BY <2>1, <2>2, StillFound
<1> QED  BY <1>7, <1>8

\* A restore and a purge take whole subtrees: what leads to a node outside of
\* them is outside of them.
LEMMA SubtreeFindable ==
  ASSUME IInv, NEW m \in Present,
         \A k \in Nodes \ Subtree(m) : tree'[k] = tree[k],
         \A k \in Subtree(m) : tree'[k] # NoNode => tree'[k].place = "live"
  PROVE  \A n \in Nodes : StaysFound(n)
<1> SUFFICES ASSUME NEW n \in Nodes, Exists(n), Live(n) \/ Found(n), Exists(n)',
                    ~Live(n)', tree[n].above = tree'[n].above
             PROVE  Found(n)'
  BY DEF StaysFound
<1>1. n \in Present /\ n \notin Subtree(m) /\ tree'[n] = tree[n] /\ Found(n)
  BY DEF Present, Exists, Live
<1>2. \A k \in tree[n].above :
        k \in Present /\ k \in Nodes /\ tree[k].above \subseteq tree[n].above
  BY <1>1, TreeFacts DEF Present, IInv, IsTree, Ancestors
<1>3. \A k \in tree[n].above : k \notin Subtree(m)
  BY <1>1, <1>2 DEF Subtree, Below
<1>4. \A k \in tree[n].above : Exists(k) /\ ~Live(k) => Exists(k)' /\ ~Live(k)'
  BY <1>2, <1>3 DEF Exists, Live
<1> QED  BY <1>1, <1>4, StillFound

LEMMA RestoreFindable ==
  ASSUME IInv, NEW m \in Present, Restore(m)
  PROVE  \A n \in Nodes : StaysFound(n)
<1>1. \A k \in Nodes \ Subtree(m) : tree'[k] = tree[k]
  BY DEF Restore, Restored
<1>2. ASSUME NEW k \in Subtree(m) PROVE tree'[k].place = "live"
  <2>1. k \in Nodes /\ tree[k] \in Node
    BY TreeFacts, NodeFields DEF Subtree, Below, Present
  <2>2. PICK v, w : v = tree[k] /\ w = tree'[k]
    OBVIOUS
  <2>3. v \in Node /\ w = [v EXCEPT !.place = "live"]
    BY <1>2, <2>1, <2>2 DEF Restore, Restored
  <2>4. w.place = "live"
    BY <2>3 DEF Node
  <2> QED  BY <2>2, <2>4
<1> QED  BY <1>1, <1>2, SubtreeFindable

LEMMA PurgeFindable ==
  ASSUME IInv, NEW m \in Present, NEW recursive \in BOOLEAN, Purge(m, recursive)
  PROVE  \A n \in Nodes : StaysFound(n)
<1>1. \A k \in Nodes \ Subtree(m) : tree'[k] = tree[k]
  BY DEF Purge, Purged
<1>2. \A k \in Subtree(m) : tree'[k] = NoNode
  BY DEF Purge, Purged, Subtree, Below, Present
<1> QED  BY <1>1, <1>2, SubtreeFindable

LEMMA NodesStay ==
  ASSUME IInv, \A m \in Present : tree'[m] = tree[m]
  PROVE  \A n \in Nodes : StaysFound(n)
BY SamePlaces DEF Present, Exists

\* What goes to the trash is found there, whatever is trashed, restored, purged,
\* copied and renamed around it, in a tree of any depth.
THEOREM TrashIsFindable == Spec => TrashStaysFindable
<1>1. ASSUME IInv, [Next]_vars PROVE \A n \in Nodes : StaysFound(n)
  <2>1. CASE UNCHANGED vars
    BY <1>1, <2>1, NodesStay DEF vars
  <2>2. ASSUME NEW kind, NEW p, NEW name, created < MaxFresh,
               tree' = [tree EXCEPT ![created + 1] = NewNode(kind, name, p)]
        PROVE  \A n \in Nodes : StaysFound(n)
    <3>1. \A m \in Present : tree'[m] = tree[m]
      BY <1>1, <2>2, InsertedNodes DEF Present
    <3> QED  BY <1>1, <3>1, NodesStay
  <2>3. ASSUME NEW p \in Present, NEW name \in Names,
               \/ CreateFolder(p, name)
               \/ \E overwrite \in BOOLEAN : CreateFile(p, name, overwrite)
               \/ \E n \in Present : CopyFile(n, p, name)
        PROVE  \A n \in Nodes : StaysFound(n)
    <3>1. PICK kind \in {"folder", "file"} :
            /\ created < MaxFresh
            /\ tree' = [tree EXCEPT ![created + 1] = NewNode(kind, name, p)]
      BY <2>3 DEF CreateFolder, CreateFile, CopyFile, Insert
    <3> QED  BY <2>2, <3>1
  <2>4. ASSUME NEW m \in Present, NEW p \in Present,
               Move(m, p) \/ \E name \in Names : Patch(m, p, name)
        PROVE  \A n \in Nodes : StaysFound(n)
    <3>1. PICK name \in Names \union {"/"} :
            /\ CanMove(m, p)
            /\ tree' \in {Reparent(m, p), [Reparent(m, p) EXCEPT ![m].name = name]}
      BY <2>4 DEF Move, Patch
    <3>2. \A k \in Present : tree'[k] \in Node /\ tree'[k].place = tree[k].place
      BY <1>1, <3>1, MovedNodes
    <3> QED  BY <1>1, <3>2, SamePlaces, SentinelAssumption
  <2>5. ASSUME NEW m \in Present, NEW name \in Names, Rename(m, name)
        PROVE  \A n \in Nodes : StaysFound(n)
    <3>1. \A k \in Present : tree'[k] # NoNode /\ tree'[k].place = tree[k].place
      BY <1>1, <2>5, RenamedNodes, SentinelAssumption DEF Present, Exists
    <3> QED  BY <1>1, <3>1, SamePlaces
  <2>6. ASSUME NEW m \in Present, NEW p \in Present, NEW name \in Names,
               CopyFolder(m, p, name)
        PROVE  \A n \in Nodes : StaysFound(n)
    <3>1. \A k \in Present : tree'[k] = tree[k]
      BY <1>1, <2>6, CopiedNodes DEF Copies
    <3> QED  BY <1>1, <3>1, NodesStay
  <2> QED  BY <1>1, <2>1, <2>3, <2>4, <2>5, <2>6, TrashFindable, RestoreFindable,
             PurgeFindable DEF Next
<1>2. IInv /\ [Next]_vars =>
        [\A n \in Nodes :
           (/\ Exists(n) /\ (Live(n) \/ Found(n))
            /\ Exists(n)' /\ ~Live(n)' /\ tree[n].above = tree'[n].above)
             => Found(n)']_vars
  BY <1>1 DEF StaysFound
<1> QED  BY <1>2, Invariant, PTL DEF Spec, TrashStaysFindable

-------------------------------------------------------------------------------
\* Two siblings of one name.

Sourced(a, b) ==
  Clash(a, b)' => \/ Clash(a, b)
                  \/ Exists(a) /\ ~Live(a)
                  \/ Exists(b) /\ ~Live(b)
                  \/ used' > used /\ created' > created

\* Nodes that stay where they are, under their names, clash as they did.
LEMMA OldClash ==
  ASSUME NEW a \in Present, NEW b \in Present, Clash(a, b)',
         \A m \in {a, b} : tree'[m].parent = tree[m].parent /\ tree'[m].name = tree[m].name
  PROVE  Clash(a, b) \/ ~Live(a) \/ ~Live(b)
BY DEF Clash, Present

\* A step that touches one node keeps clashes away if that node has no live
\* sibling of its name.
LEMMA OneNewSibling ==
  ASSUME NEW n \in Nodes,
         \A m \in Nodes \ Present : m # n => tree'[m] = NoNode,
         \A m \in Present \ {n} : /\ tree'[m].parent = tree[m].parent
                                  /\ tree'[m].name = tree[m].name
                                  /\ tree'[m].place = tree[m].place,
         \/ n \in Present /\ ~Live(n)
         \/ Namesakes(tree'[n].parent, tree'[n].name) \ {n} = {}
         \/ used' > used /\ created' > created
  PROVE  \A a, b \in Nodes : Sourced(a, b)
<1> SUFFICES ASSUME NEW a \in Nodes, NEW b \in Nodes, Clash(a, b)',
                    ~(Exists(a) /\ ~Live(a)), ~(Exists(b) /\ ~Live(b)),
                    ~(used' > used /\ created' > created)
             PROVE  Clash(a, b)
  BY DEF Sourced
<1>1. (a \in Present \/ a = n) /\ (b \in Present \/ b = n) /\ a # b
  BY DEF Clash, Exists
<1>2. CASE a # n /\ b # n
  BY <1>1, <1>2 DEF Clash, Present
<1>3. ASSUME NEW m \in Present \ {n}, m # Root, Live(m),
             tree'[m].parent = tree'[n].parent, tree'[m].name = tree'[n].name
      PROVE  n \in Present /\ ~Live(n)
  <2>1. m \in Namesakes(tree'[n].parent, tree'[n].name) \ {n}
    BY <1>3 DEF Namesakes
  <2> QED  BY <2>1
<1>4. CASE a = n
  BY <1>1, <1>3, <1>4 DEF Clash, Exists, Present
<1>5. CASE b = n
  BY <1>1, <1>3, <1>5 DEF Clash, Exists, Present
<1> QED  BY <1>1, <1>2, <1>4, <1>5

\* Trash, restore and purge leave parents and names as they are: what is live
\* after one of them was live before, or was in the trash.
LEMMA PlacesSourced ==
  ASSUME IInv, NEW n \in Present,
         Trash(n) \/ Restore(n) \/ \E recursive \in BOOLEAN : Purge(n, recursive)
  PROVE  \A a, b \in Nodes : Sourced(a, b)
<1>1. ASSUME NEW m \in Nodes, tree'[m] # NoNode
      PROVE  m \in Present /\ tree'[m].parent = tree[m].parent /\ tree'[m].name = tree[m].name
  <2>1. m \in Present
    BY <1>1 DEF Trash, Trashed, Restore, Restored, Purge, Purged, Subtree, Below, Present, Exists
  <2>2. tree[m] \in Node
    BY <2>1, TreeFacts, NodeFields
  <2>3. PICK v, w : v = tree[m] /\ w = tree'[m]
    OBVIOUS
  <2>4. w = v \/ \E place \in Places : w = [v EXCEPT !.place = place]
    BY <1>1, <2>3 DEF Trash, Trashed, Restore, Restored, Purge, Purged, Places
  <2>5. w.parent = v.parent /\ w.name = v.name
    BY <2>2, <2>3, <2>4 DEF Node
  <2> QED  BY <2>1, <2>3, <2>5
<1> SUFFICES ASSUME NEW a \in Nodes, NEW b \in Nodes, Clash(a, b)'
             PROVE  Clash(a, b) \/ (Exists(a) /\ ~Live(a)) \/ (Exists(b) /\ ~Live(b))
  BY DEF Sourced
<1>2. tree'[a] # NoNode /\ tree'[b] # NoNode
  BY DEF Clash, Exists
<1> QED  BY <1>1, <1>2, OldClash DEF Present

LEMMA InsertSourced ==
  ASSUME IInv, NEW kind, NEW p, NEW name, created < MaxFresh,
         tree' = [tree EXCEPT ![created + 1] = NewNode(kind, name, p)],
         created' = created + 1,
         Namesakes(p, name) = {} \/ used' = used + 1
  PROVE  \A a, b \in Nodes : Sourced(a, b)
<1>1. PICK n \in Nodes \ Present : n = created + 1
  BY InsertedNodes
<1>2. tree'[n] = NewNode(kind, name, p) /\ \A m \in Nodes \ {n} : tree'[m] = tree[m]
  BY <1>1, InsertedNodes
<1>3. tree'[n].parent = p /\ tree'[n].name = name
  BY <1>2 DEF NewNode
<1>4. used' = used + 1 => used' > used /\ created' > created
  BY DriveAssumption DEF IInv, Nodes
<1>5. \A m \in Nodes \ Present : m # n => tree'[m] = NoNode
  BY <1>2 DEF Present, Exists
<1>6. \A m \in Present \ {n} : tree'[m] = tree[m]
  BY <1>2 DEF Present
<1> QED  BY <1>1, <1>3, <1>4, <1>5, <1>6, OneNewSibling

LEMMA MoveSourced ==
  ASSUME IInv, NEW n \in Present, NEW p \in Present, NEW name \in Names \union {"/"},
         Move(n, p) \/ Patch(n, p, name)
  PROVE  \A a, b \in Nodes : Sourced(a, b)
<1>1. /\ CanMove(n, p) /\ Namesakes(p, tree[n].name) \ {n} = {}
      /\ \/ tree' = Reparent(n, p)
         \/ /\ tree' = [Reparent(n, p) EXCEPT ![n].name = name]
            /\ Namesakes(p, name) \ {n} = {}
  BY DEF Move, Patch, CanMove
<1>2. /\ \A m \in Nodes \ Present : tree'[m] = NoNode
      /\ \A m \in Present : tree'[m].place = tree[m].place
      /\ \A m \in Present \ {n} : /\ tree'[m].parent = tree[m].parent
                                  /\ tree'[m].name = tree[m].name
      /\ tree'[n].parent = p /\ tree'[n].name \in {tree[n].name, name}
      /\ tree' = Reparent(n, p) => tree'[n].name = tree[n].name
  BY <1>1, MovedNodes
<1>3. Namesakes(tree'[n].parent, tree'[n].name) \ {n} = {}
  BY <1>1, <1>2
<1> QED  BY <1>2, <1>3, OneNewSibling DEF Present

LEMMA RenameSourced ==
  ASSUME IInv, NEW n \in Present, NEW name \in Names, Rename(n, name)
  PROVE  \A a, b \in Nodes : Sourced(a, b)
<1>1. /\ \A m \in Nodes \ {n} : tree'[m] = tree[m]
      /\ tree'[n].name = name /\ tree'[n].parent = tree[n].parent
  BY RenamedNodes
<1>2. Namesakes(tree'[n].parent, tree'[n].name) \ {n} = {}
  BY <1>1 DEF Rename
<1>3. \A m \in Nodes \ Present : m # n => tree'[m] = NoNode
  BY <1>1 DEF Present, Exists
<1>4. \A m \in Present \ {n} : tree'[m] = tree[m]
  BY <1>1 DEF Present
<1> QED  BY <1>2, <1>3, <1>4, OneNewSibling DEF Present

\* Copies of siblings bear different names: the walk stops at the first that
\* would not, and of two siblings one comes before the other.
LEMMA CopiesDiffer ==
  ASSUME IInv, NEW n \in Present, NEW m \in Copied(n), NEW k \in Copied(n),
         tree[m].parent = tree[k].parent, tree[m].name = tree[k].name
  PROVE  m = k
<1>1. Copied(n) \subseteq Present /\ Copied(n) \subseteq Below(n)
  BY CopiedFacts DEF Copied
<1>2. ~Clashes(n, m) /\ ~Clashes(n, k)
  BY DEF Copied
<1>3. ~Before(k, m) /\ ~Before(m, k)
  BY <1>1, <1>2 DEF Clashes
<1> QED  BY <1>1, <1>3, BeforeIsStrict

LEMMA CopyFolderSourced ==
  ASSUME IInv, NEW n \in Present, NEW p \in Present, NEW name \in Names,
         CopyFolder(n, p, name)
  PROVE  \A a, b \in Nodes : Sourced(a, b)
<1>1. PICK S \in SUBSET Present : S = Copied(n) \union {n}
  BY CopiedFacts
<1>2. PICK f : Copies(n, p, name, S, f)
  BY <1>1, CopiedNodes
<1>3. /\ f \in [S -> Nodes \ Present]
      /\ \A m, k \in S : f[m] = f[k] => m = k
      /\ \A m \in Copied(n) : /\ tree[m].parent \in S
                              /\ tree'[f[m]].parent = f[tree[m].parent]
                              /\ tree'[f[m]].name = tree[m].name
      /\ tree'[f[n]] = NewNode("folder", name, p)
      /\ \A i \in Nodes : tree'[i] = tree[i] \/ \E m \in S : i = f[m]
      /\ \A i \in Present : tree'[i] = tree[i]
  BY <1>1, <1>2, CopiedFacts DEF Copies
<1>4. tree'[f[n]].parent = p /\ tree'[f[n]].name = name
  BY <1>3 DEF NewNode
<1>5. Namesakes(p, name) = {}
  BY DEF CopyFolder
<1>6. \A i \in Present : i # Root => tree[i].parent \in Present
  BY TreeFacts DEF IInv, IsTree, Parents
<1>7. ASSUME NEW i \in Present, i # Root, Live(i), NEW m \in S,
             tree'[i].parent = tree'[f[m]].parent, tree'[i].name = tree'[f[m]].name
      PROVE  FALSE
  <2>1. CASE m = n
    BY <1>3, <1>4, <1>5, <1>7, <2>1 DEF Namesakes
  <2>2. CASE m \in Copied(n)
    <3>1. tree'[f[m]].parent \notin Present
      BY <1>3, <2>2
    <3> QED  BY <1>3, <1>6, <1>7, <3>1
  <2> QED  BY <1>1, <2>1, <2>2
<1>8. ASSUME NEW m \in S, NEW k \in S, tree'[f[m]].parent = tree'[f[k]].parent,
             tree'[f[m]].name = tree'[f[k]].name
      PROVE  m = k
  <2>1. CASE m \in Copied(n) /\ k \in Copied(n)
    <3>1. tree[m].parent = tree[k].parent /\ tree[m].name = tree[k].name
      BY <1>3, <1>8, <2>1
    <3> QED  BY <2>1, <3>1, CopiesDiffer
  <2>2. \A l \in Copied(n) : tree'[f[l]].parent # p
    BY <1>3
  <2> QED  BY <1>1, <1>4, <1>8, <2>1, <2>2
<1> SUFFICES ASSUME NEW a \in Nodes, NEW b \in Nodes, Clash(a, b)',
                    ~(Exists(a) /\ ~Live(a)), ~(Exists(b) /\ ~Live(b))
             PROVE  Clash(a, b)
  BY DEF Sourced
<1>9. /\ a # b /\ a # Root /\ b # Root
      /\ tree'[a].parent = tree'[b].parent /\ tree'[a].name = tree'[b].name
      /\ tree'[a] # NoNode /\ tree'[b] # NoNode
  BY DEF Clash, Exists
<1>10. \A i \in {a, b} : (i \in Present /\ Live(i)) \/ \E m \in S : i = f[m]
  BY <1>3, <1>9 DEF Present, Exists
<1>11. a \in Present /\ b \in Present
  BY <1>7, <1>8, <1>9, <1>10
<1> QED  BY <1>3, <1>9, <1>11, OldClash DEF Present

\* Only a restore and an upload with overwrite put two live siblings of one name
\* side by side, for any number of names and nodes and copies of any folder.
THEOREM DuplicatesAreSourced == Spec => DuplicatesHaveTwoSources
<1>1. ASSUME IInv, [Next]_vars PROVE \A a, b \in Nodes : Sourced(a, b)
  <2>1. CASE UNCHANGED vars
    BY <2>1 DEF vars, Sourced, Clash, Exists, Live
  <2>2. ASSUME NEW p \in Present, NEW name \in Names,
               \/ CreateFolder(p, name)
               \/ \E overwrite \in BOOLEAN : CreateFile(p, name, overwrite)
               \/ \E n \in Present : CopyFile(n, p, name)
        PROVE  \A a, b \in Nodes : Sourced(a, b)
    <3>1. PICK kind \in {"folder", "file"} :
            /\ created < MaxFresh
            /\ tree' = [tree EXCEPT ![created + 1] = NewNode(kind, name, p)]
            /\ created' = created + 1
            /\ Namesakes(p, name) = {} \/ used' = used + 1
      BY <2>2 DEF CreateFolder, CreateFile, CopyFile, Insert
    <3> QED  BY <1>1, <3>1, InsertSourced
  <2>3. ASSUME NEW n \in Present, NEW p \in Present,
               Move(n, p) \/ \E name \in Names : Patch(n, p, name)
        PROVE  \A a, b \in Nodes : Sourced(a, b)
    <3>1. PICK name \in Names \union {"/"} : Move(n, p) \/ Patch(n, p, name)
      BY <2>3
    <3> QED  BY <1>1, <3>1, MoveSourced
  <2> QED  BY <1>1, <2>1, <2>2, <2>3, RenameSourced, PlacesSourced,
             CopyFolderSourced DEF Next
<1>2. IInv /\ [Next]_vars =>
        [\A a, b \in Nodes :
           Clash(a, b)' => \/ Clash(a, b)
                           \/ Exists(a) /\ ~Live(a)
                           \/ Exists(b) /\ ~Live(b)
                           \/ used' > used /\ created' > created]_vars
  BY <1>1 DEF Sourced
<1> QED  BY <1>2, Invariant, PTL DEF Spec, DuplicatesHaveTwoSources

===============================================================================
