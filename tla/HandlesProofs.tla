--------------------------- MODULE HandlesProofs ---------------------------
(* Proofs about Handles: what the two searches return in a tree of any size *)
(* and depth, however the hashes of inodes collide.                         *)
EXTENDS Handles, FiniteSetTheorems, SequenceTheorems, WellFoundedInduction, TLAPS

----------------------------------------------------------------------------
(* Induction and recursion *)

\* A set of natural numbers that is not empty has a least element.
LEMMA Least ==
    ASSUME NEW T, T \subseteq Nat, T # {}
    PROVE  \E n \in T : \A m \in T : n <= m
<1> DEFINE R == OpToRel(<, Nat)
<1>1. IsWellFoundedOn(R, Nat)
    BY NatLessThanWellFounded
<1>2. \A m, n \in Nat : m < n => <<m, n>> \in R
    BY DEF OpToRel
<1> HIDE DEF R
<1>3. PICK n \in T : \A m \in T : ~(<<m, n>> \in R)
    BY <1>1, WFMin
<1>4. ASSUME NEW m \in T PROVE n <= m
    <2>1. ~(m < n)
        BY <1>2, <1>3
    <2> QED
        BY <2>1
<1> QED
    BY <1>4

\* Induction up to a bound, over a set in place of a predicate.
LEMMA Induct ==
    ASSUME NEW N \in Nat, NEW S, 0 \in S,
           \A n \in 0..N : n < N /\ n \in S => n + 1 \in S
    PROVE  0..N \subseteq S
<1> SUFFICES ASSUME (0..N) \ S # {} PROVE FALSE
    OBVIOUS
<1> DEFINE T == (0..N) \ S
<1>0. T \subseteq Nat /\ T # {}
    OBVIOUS
<1>a. \E n \in T : \A m \in T : n <= m
    <2> HIDE DEF T
    <2> QED
        BY <1>0, Least
<1>1. PICK n \in T : \A m \in T : n <= m
    BY <1>a
<1>2. n # 0 /\ n - 1 \in 0..N /\ n - 1 < N /\ n - 1 \in S
    BY <1>1
<1> QED
    BY <1>1, <1>2

\* A function defined by recursion from 0 to N exists.
Steps(G, N, V) == G \in [1..N -> [V -> V]]
Recursive(f, v0, G, N, V) ==
    f \in [0..N -> V] /\ f[0] = v0 /\ \A k \in 1..N : f[k] = G[k][f[k - 1]]

\* Such a function exists for all steps G and every first value.
LEMMA RecExists ==
    ASSUME NEW N, N \in Nat, NEW V, NEW v0, v0 \in V, NEW G, Steps(G, N, V)
    PROVE  \E f : Recursive(f, v0, G, N, V)
<1> USE DEF Steps, Recursive
<1> DEFINE S == {n \in 0..N : \E f \in [0..n -> V] :
                    f[0] = v0 /\ \A k \in 1..n : f[k] = G[k][f[k - 1]]}
<1>1. 0 \in S
    <2> DEFINE f == [k \in 0..0 |-> v0]
    <2>1. f \in [0..0 -> V] /\ f[0] = v0 /\ \A k \in 1..0 : f[k] = G[k][f[k - 1]]
        OBVIOUS
    <2> HIDE DEF f
    <2> QED
        BY <2>1
<1>2. ASSUME NEW n \in 0..N, n < N, n \in S PROVE n + 1 \in S
    <2>1. PICK f \in [0..n -> V] : f[0] = v0 /\ \A k \in 1..n : f[k] = G[k][f[k - 1]]
        BY <1>2
    <2> DEFINE g == [k \in 0..(n + 1) |-> IF k <= n THEN f[k] ELSE G[n + 1][f[n]]]
    <2>2. G[n + 1] \in [V -> V] /\ f[n] \in V
        BY <1>2
    <2>3. G[n + 1][f[n]] \in V
        BY <2>2
    <2>4. g \in [0..(n + 1) -> V]
        BY <2>3
    <2>5. g[0] = v0 /\ g[n + 1] = G[n + 1][g[n]]
        BY <2>1, <1>2
    <2>6. ASSUME NEW k \in 1..n PROVE g[k] = G[k][g[k - 1]]
        BY <2>1
    <2> HIDE DEF g
    <2>7. ASSUME NEW k \in 1..(n + 1) PROVE g[k] = G[k][g[k - 1]]
        <3>1. k = n + 1 \/ k \in 1..n
            OBVIOUS
        <3>2. k = n + 1 => g[k] = G[k][g[k - 1]]
            BY <2>5
        <3> QED
            BY <3>1, <3>2, <2>6
    <2>8. n + 1 \in 0..N
        BY <1>2
    <2> QED
        BY <2>4, <2>5, <2>7, <2>8
<1> HIDE DEF S
<1>3. \A n \in 0..N : n < N /\ n \in S => n + 1 \in S
    BY <1>2
<1>4. 0..N \subseteq S
    BY <1>1, <1>3, Induct
<1>5. N \in S
    BY <1>4
<1> QED
    BY <1>5 DEF S

----------------------------------------------------------------------------
(* The tree *)

\* Every object but the root lies in a directory, under a name of its own there.
Tree ==
    /\ tree \in [All -> [up : All \cup {0}, name : Names \cup {NoName}, dir : BOOLEAN]]
    /\ tree[RootIno] = [up |-> RootIno, name |-> NoName, dir |-> TRUE]
    /\ \A i \in Live \ {RootIno} : IsDir(tree[i].up) /\ tree[i].name \in Names
    /\ \A i, j \in Live \ {RootIno} :
         tree[i].up = tree[j].up /\ tree[i].name = tree[j].name => i = j

\* The root of the tree is a directory, and 0 is no inode.
LEMMA RootLive ==
    ASSUME Tree
    PROVE  RootIno \in Live /\ IsDir(RootIno) /\ 0 \notin All /\ RootIno \in All
<1>1. RootIno \in All /\ RootIno # 0 /\ 0 \notin All
    BY HandlesAssumption DEF All
<1>2. tree[RootIno] = [up |-> RootIno, name |-> NoName, dir |-> TRUE]
    BY DEF Tree
<1>3. tree[RootIno].up = RootIno /\ Absent.up = 0
    BY <1>2 DEF Absent
<1>4. tree[RootIno].dir = TRUE
    BY <1>2
<1> QED
    BY <1>1, <1>3, <1>4 DEF Live, IsDir

\* lstat of an entry finds an object or nothing.
LEMMA EntryIn ==
    ASSUME Tree, NEW d, IsDir(d), NEW n
    PROVE  Entry(d, n) \in Live \cup {0}
<1>1. d \in Live
    BY DEF IsDir
<1>2. CASE n = "."
    BY <1>1, <1>2 DEF Entry
<1>3. CASE n = ".."
    <2>1. d # RootIno => tree[d].up \in Live
        BY <1>1 DEF Tree, IsDir
    <2>2. Entry(d, n) = IF d = RootIno THEN RootIno ELSE tree[d].up
        BY <1>3 DEF Entry
    <2> QED
        BY <2>1, <2>2, RootLive
<1>4. CASE n # "." /\ n # ".."
    <2>1. Entry(d, n) = IF \E i \in Children(d) : tree[i].name = n
                        THEN CHOOSE i \in Children(d) : tree[i].name = n ELSE 0
        BY <1>4 DEF Entry
    <2>2. Children(d) \subseteq Live
        BY DEF Children
    <2> QED
        BY <2>1, <2>2
<1> QED
    BY <1>2, <1>3, <1>4

\* A name that is neither "." nor ".." leads to the child of that name.
LEMMA EntryChild ==
    ASSUME NEW d, NEW n \in Names, Entry(d, n) # 0
    PROVE  Entry(d, n) \in Live \ {RootIno} /\ tree[Entry(d, n)].up = d /\ tree[Entry(d, n)].name = n
<1>1. n # "." /\ n # ".."
    BY HandlesAssumption
<1>2. Entry(d, n) = IF \E i \in Children(d) : tree[i].name = n
                    THEN CHOOSE i \in Children(d) : tree[i].name = n ELSE 0
    BY <1>1 DEF Entry
<1>3. Entry(d, n) \in Children(d) /\ tree[Entry(d, n)].name = n
    BY <1>2
<1> QED
    BY <1>3 DEF Children

\* An object is found in its directory under its name.
LEMMA EntryOwn ==
    ASSUME Tree, NEW i \in Live \ {RootIno}
    PROVE  Entry(tree[i].up, tree[i].name) = i
<1> DEFINE d == tree[i].up
           n == tree[i].name
<1>1. n \in Names /\ n # "." /\ n # ".."
    BY HandlesAssumption DEF Tree
<1>2. Entry(d, n) = IF \E j \in Children(d) : tree[j].name = n
                    THEN CHOOSE j \in Children(d) : tree[j].name = n ELSE 0
    BY <1>1 DEF Entry
<1>3. i \in Children(d) /\ tree[i].name = n
    BY DEF Children
<1>4. Entry(d, n) \in Children(d) /\ tree[Entry(d, n)].name = n
    BY <1>2, <1>3
<1> QED
    BY <1>4 DEF Children, Tree

----------------------------------------------------------------------------
(* Walking a path *)

\* One component of a path: where it leads from the inode d.
Step(d, n) == IF IsDir(d) THEN Entry(d, n) ELSE 0

\* A step leads to an inode or nowhere.
LEMMA StepIn ==
    ASSUME Tree, NEW d, NEW n
    PROVE  Step(d, n) \in Live \cup {0}
BY EntryIn DEF Step

\* What the recursion of Walk computes.
LEMMA WalkDef ==
    ASSUME Tree, NEW S, NEW path \in Seq(S)
    PROVE  /\ Walk(path) \in [0..Len(path) -> Live \cup {0}]
           /\ Walk(path)[0] = RootIno
           /\ \A k \in 1..Len(path) : Walk(path)[k] = Step(Walk(path)[k - 1], path[k])
<1> DEFINE N == Len(path)
           V == Live \cup {0}
           G == [k \in 1..N |-> [v \in V |-> Step(v, path[k])]]
           Is(w) == w = [k \in 0..N |->
                            IF k = 0 THEN RootIno
                            ELSE IF IsDir(w[k - 1]) THEN Entry(w[k - 1], path[k]) ELSE 0]
<1>1. N \in Nat
    OBVIOUS
<1>2. Steps(G, N, V)
    BY StepIn DEF Steps
<1>3. RootIno \in V
    BY RootLive
<1>4. \E f : Recursive(f, RootIno, G, N, V)
    <2> HIDE DEF N, V, G, Is
    <2> QED
        BY <1>1, <1>2, <1>3, RecExists
<1>5. PICK f \in [0..N -> V] : f[0] = RootIno /\ \A k \in 1..N : f[k] = G[k][f[k - 1]]
    BY <1>4 DEF Recursive
<1> HIDE DEF N
<1>6. \A k \in 1..N : f[k - 1] \in V /\ f[k] = Step(f[k - 1], path[k])
    BY <1>1, <1>5
<1>7. Is(f)
    <2>1. \A k \in 0..N : f[k] = IF k = 0 THEN RootIno
                            ELSE IF IsDir(f[k - 1]) THEN Entry(f[k - 1], path[k]) ELSE 0
        BY <1>1, <1>5, <1>6 DEF Step
    <2> QED
        BY <2>1
<1>8. Walk(path) = CHOOSE w : Is(w)
    BY DEF Walk, N
<1>9. Is(Walk(path))
    <2> HIDE DEF Is
    <2> QED
        BY <1>7, <1>8
<1> DEFINE w == Walk(path)
<1>10. /\ w[0] = RootIno
       /\ \A k \in 1..N : w[k] = Step(w[k - 1], path[k])
       /\ DOMAIN w = 0..N
       /\ w = [k \in 0..N |-> w[k]]
    <2> HIDE DEF w
    <2>1. Is(w)
        BY <1>9 DEF w
    <2> QED
        BY <2>1, <1>1 DEF Step
<1> HIDE DEF w
<1>11. \A k \in 0..N : w[k] \in V
    <2> HIDE DEF Is
    <2>1. ASSUME NEW k \in 1..N PROVE w[k] \in V
        <3>1. w[k] = Step(w[k - 1], path[k])
            BY <1>10
        <3> QED
            BY <3>1, StepIn
    <2> QED
        BY <1>1, <2>1, <1>10, <1>3
<1>12. w \in [0..N -> V]
    BY <1>10, <1>11
<1> QED
    BY <1>10, <1>12 DEF w, N

\* lstat of any path is an inode that exists, or 0.
LEMMA lstatIn ==
    ASSUME Tree, NEW S, NEW path \in Seq(S)
    PROVE  lstat(path) \in Live \cup {0} /\ (path = <<>> => lstat(path) = RootIno)
<1>1. Len(path) \in 0..Len(path) /\ (path = <<>> => Len(path) = 0)
    OBVIOUS
<1>2. /\ Walk(path) \in [0..Len(path) -> Live \cup {0}]
      /\ Walk(path)[0] = RootIno
    BY WalkDef
<1> QED
    BY <1>1, <1>2 DEF lstat

\* One component more is one step more.
LEMMA WalkAppend ==
    ASSUME Tree, NEW S, NEW q \in Seq(S), NEW n \in S
    PROVE  lstat(Append(q, n)) = Step(lstat(q), n)
<1> DEFINE a == Append(q, n)
           N == Len(q)
           w == Walk(q)
           x == Walk(a)
           T == {k \in 0..N : x[k] = w[k]}
<1>1. /\ N \in Nat /\ a \in Seq(S) /\ Len(a) = N + 1 /\ a[N + 1] = n
      /\ \A k \in 1..N : a[k] = q[k]
    OBVIOUS
<1> HIDE DEF N
<1>2. /\ w[0] = RootIno
      /\ \A k \in 1..N : w[k] = Step(w[k - 1], q[k])
    BY WalkDef DEF N
<1> HIDE DEF a
<1>3. /\ x[0] = RootIno
      /\ \A k \in 1..Len(a) : x[k] = Step(x[k - 1], a[k])
    BY <1>1, WalkDef
<1> HIDE DEF w, x
<1>4. 0 \in T
    BY <1>1, <1>2, <1>3
<1>5. ASSUME NEW k \in 0..N, k < N, k \in T PROVE k + 1 \in T
    <2>1. k + 1 \in 1..N /\ k + 1 \in 1..Len(a) /\ (k + 1) - 1 = k /\ x[k] = w[k]
        BY <1>1, <1>5
    <2>2. w[k + 1] = Step(w[(k + 1) - 1], q[k + 1])
        BY <1>2, <2>1
    <2>3. x[k + 1] = Step(x[(k + 1) - 1], a[k + 1])
        BY <1>3, <2>1
    <2>4. x[k + 1] = w[k + 1]
        BY <1>1, <2>1, <2>2, <2>3
    <2> QED
        BY <2>1, <2>4
<1>6. 0..N \subseteq T
    <2>1. \A k \in 0..N : k < N /\ k \in T => k + 1 \in T
        BY <1>5
    <2> HIDE DEF T
    <2> QED
        BY <1>1, <1>4, <2>1, Induct
<1>7. x[N] = w[N]
    BY <1>1, <1>6
<1>8. x[N + 1] = Step(x[(N + 1) - 1], a[N + 1]) /\ (N + 1) - 1 = N
    BY <1>1, <1>3
<1> QED
    BY <1>1, <1>7, <1>8 DEF lstat, w, x, N, a

----------------------------------------------------------------------------
(* What a search finds *)

\* The names of entries, paths of them, and what a search may have found below each
\* inode.
Any == Names \cup {".", ".."}
Paths == Seq(Any)
Results == [All -> SUBSET Paths]

\* A path found from d: an entry that is the object, or an entry followed by a
\* path found from there.
Found(v, d, ino, p) ==
    \E n \in Any :
        /\ IsDir(d)
        /\ \/ p = <<n>> /\ Entry(d, n) = ino
           \/ Entry(d, n) \in All /\ \E q \in v[Entry(d, n)] : p = <<n>> \o q

\* Whatever a search finds leads to the object.
Searches(r, N, ino) ==
    /\ r \in [0..N -> Results]
    /\ \A d \in All : r[0][d] = {}
    /\ \A k \in 1..N : \A d \in All : \A p \in r[k][d] : Found(r[k - 1], d, ino, p)

\* By induction over the depth: a path found from the root leads to the object.
LEMMA SearchSound ==
    ASSUME Tree, NEW N, N \in Nat, NEW r, NEW ino, Searches(r, N, ino), NEW path \in r[N][RootIno]
    PROVE  path \in Paths /\ lstat(path) = ino
<1> USE DEF Searches
<1> DEFINE Leads(k) == \A d \in All : \A p \in r[k][d] : \A q \in Paths :
                            lstat(q) = d => lstat(q \o p) = ino
           T == {k \in 0..N : Leads(k)}
<1>1. 0 \in T
    OBVIOUS
<1>2. ASSUME NEW k \in 0..N, k < N, k \in T PROVE k + 1 \in T
    <2>1. k + 1 \in 1..N /\ (k + 1) - 1 = k /\ k + 1 \in 0..N
        BY <1>2
    <2>2. ASSUME NEW d \in All, NEW p \in r[k + 1][d], NEW q \in Paths, lstat(q) = d
          PROVE  lstat(q \o p) = ino
        <3>1. Found(r[k], d, ino, p)
            BY <2>1
        <3>2. PICK n \in Any :
                /\ IsDir(d)
                /\ \/ p = <<n>> /\ Entry(d, n) = ino
                   \/ Entry(d, n) \in All /\ \E s \in r[k][Entry(d, n)] : p = <<n>> \o s
            BY <3>1 DEF Found
        <3>3. lstat(Append(q, n)) = Entry(d, n)
            BY <2>2, <3>2, WalkAppend DEF Paths, Step
        <3>4. CASE p = <<n>> /\ Entry(d, n) = ino
            <4>1. q \o p = Append(q, n)
                BY <3>4 DEF Paths
            <4> QED
                BY <4>1, <3>3, <3>4
        <3>5. CASE Entry(d, n) \in All /\ \E s \in r[k][Entry(d, n)] : p = <<n>> \o s
            <4>1. PICK s \in r[k][Entry(d, n)] : p = <<n>> \o s
                BY <3>5
            <4>2. s \in Paths
                <5>1. r[k] \in Results
                    OBVIOUS
                <5> QED
                    BY <5>1, <3>5 DEF Results
            <4>3. Append(q, n) \in Paths /\ Append(q, n) \o s = q \o (<<n>> \o s)
                BY <4>2 DEF Paths
            <4>4. lstat(Append(q, n) \o s) = ino
                BY <1>2, <3>3, <3>5, <4>1, <4>3
            <4> QED
                BY <4>1, <4>3, <4>4
        <3> QED
            BY <3>2, <3>4, <3>5
    <2> QED
        BY <2>1, <2>2
<1>3. 0..N \subseteq T
    <2>1. \A k \in 0..N : k < N /\ k \in T => k + 1 \in T
        BY <1>2
    <2> HIDE DEF T
    <2> QED
        BY <1>1, <2>1, Induct
<1>4. r[N] \in Results /\ RootIno \in All /\ Leads(N)
    BY <1>3, RootLive
<1>5. path \in Paths
    BY <1>4 DEF Results
<1>6. <<>> \in Paths /\ lstat(<<>>) = RootIno
    <2>1. <<>> \in Seq(Any)
        OBVIOUS
    <2> QED
        BY <2>1, lstatIn DEF Paths
<1>7. lstat(<<>> \o path) = ino
    BY <1>4, <1>6
<1>8. <<>> \o path = path
    BY <1>5 DEF Paths
<1> QED
    BY <1>5, <1>7, <1>8

\* An entry of a directory is a name there, and leads to an object.
LEMMA EntriesLead ==
    ASSUME Tree, NEW d, IsDir(d), NEW n \in Entries(d)
    PROVE  n \in Any /\ Entry(d, n) \in Live
<1>1. CASE n = "."
    BY <1>1 DEF Any, Entry, IsDir
<1>2. CASE n = ".."
    <2>1. d \in Live /\ (d # RootIno => tree[d].up \in Live)
        BY DEF Tree, IsDir
    <2>2. Entry(d, n) = IF d = RootIno THEN RootIno ELSE tree[d].up
        BY <1>2 DEF Entry
    <2> QED
        BY <1>2, <2>1, <2>2, RootLive DEF Any
<1>3. CASE n \notin {".", ".."}
    <2>1. PICK i \in Children(d) : tree[i].name = n
        BY <1>3 DEF Entries
    <2>2. i \in Live \ {RootIno} /\ tree[i].up = d
        BY <2>1 DEF Children
    <2>3. n \in Names /\ Entry(d, n) = i
        BY <2>1, <2>2, EntryOwn DEF Tree
    <2> QED
        BY <2>2, <2>3 DEF Any
<1> QED
    BY <1>1, <1>2, <1>3

\* One level of fh_rec, with k components of the handle left, given the paths v
\* found from every directory with one less.
Objects(h, d) == {e \in Entries(d) : IsObject(h, Entry(d, e))}
\* The entries fh_rec descends into at level k, and one level of its recursion over
\* the results v of the next.
Leads(h, k, d) == {e \in Entries(d) : /\ ~IsObject(h, Entry(d, e))
                                      /\ MayLead(h, Len(h.inos) - k + 1, e, Entry(d, e))}
RecFrom(h, k, d, v) ==
    IF ~IsDir(d) THEN {}
    ELSE {<<n>> : n \in Objects(h, d)}
         \cup TryAll({Prefixed(n, v[Entry(d, n)]) : n \in Leads(h, k, d)})

\* What one level of fh_rec finds is an entry that is the object or comes from below.
LEMMA RecFromIn ==
    ASSUME Tree, NEW h, NEW k, NEW d, NEW v \in Results, NEW p \in RecFrom(h, k, d, v)
    PROVE  p \in Paths /\ Found(v, d, h.ino, p)
<1>1. IsDir(d)
    BY DEF RecFrom
<1>2. \/ \E n \in Objects(h, d) : p = <<n>>
      \/ \E n \in Leads(h, k, d) : p \in Prefixed(n, v[Entry(d, n)])
    BY <1>1 DEF RecFrom, TryAll
<1>3. CASE \E n \in Objects(h, d) : p = <<n>>
    <2>1. PICK n \in Objects(h, d) : p = <<n>>
        BY <1>3
    <2>2. n \in Entries(d) /\ Entry(d, n) = h.ino
        BY <2>1 DEF Objects, IsObject
    <2>3. n \in Any
        BY <1>1, <2>2, EntriesLead
    <2>4. p \in Paths
        BY <2>1, <2>3 DEF Paths
    <2> QED
        BY <1>1, <2>1, <2>2, <2>3, <2>4 DEF Found
<1>4. CASE \E n \in Leads(h, k, d) : p \in Prefixed(n, v[Entry(d, n)])
    <2>1. PICK n \in Leads(h, k, d) : p \in Prefixed(n, v[Entry(d, n)])
        BY <1>4
    <2>2. n \in Entries(d)
        BY <2>1 DEF Leads
    <2>3. n \in Any /\ Entry(d, n) \in All
        BY <1>1, <2>2, EntriesLead DEF Live
    <2>4. PICK q \in v[Entry(d, n)] : p = <<n>> \o q
        BY <2>1 DEF Prefixed
    <2>5. q \in Paths
        BY <2>3, <2>4 DEF Results
    <2>6. p \in Paths
        BY <2>3, <2>4, <2>5 DEF Paths
    <2> QED
        BY <1>1, <2>3, <2>4, <2>6 DEF Found
<1> QED
    BY <1>2, <1>3, <1>4

\* One level of fh_rec for all inodes, and the level below the last component.
RecLevel(h, k, v) == [d \in All |-> RecFrom(h, k, d, v)]
Nothing == [d \in All |-> {}]

\* A level of fh_rec maps tables of results to tables of results.
LEMMA RecLevelIn ==
    ASSUME Tree, NEW h, NEW k, NEW v \in Results
    PROVE  RecLevel(h, k, v) \in Results
<1>1. \A d \in All : RecFrom(h, k, d, v) \in SUBSET Paths
    BY RecFromIn
<1> QED
    BY <1>1 DEF RecLevel, Results

\* What the recursion of fh_rec computes.
RecTable(h, r) ==
    /\ r \in [0..Len(h.inos) -> Results]
    /\ \A d \in All : r[0][d] = {}
    /\ \A k \in 1..Len(h.inos) : \A d \in All : r[k][d] = RecFrom(h, k, d, r[k - 1])
    /\ fh_rec(h) = r[Len(h.inos)][RootIno]

\* The recursive function that defines fh_rec exists, and its values are the levels.
LEMMA RecDef ==
    ASSUME Tree, NEW h, NEW S, h.inos \in Seq(S)
    PROVE  \E r : RecTable(h, r)
<1> DEFINE N == Len(h.inos)
           G == [k \in 1..N |-> [v \in Results |-> RecLevel(h, k, v)]]
           Is(r) == r = [k \in 0..N |->
                [d \in All |->
                    IF k = 0 \/ ~IsDir(d) THEN {}
                    ELSE {<<n>> : n \in {e \in Entries(d) : IsObject(h, Entry(d, e))}}
                         \cup TryAll({Prefixed(n, r[k - 1][Entry(d, n)]) :
                                n \in {e \in Entries(d) :
                                         /\ ~IsObject(h, Entry(d, e))
                                         /\ MayLead(h, N - k + 1, e, Entry(d, e))}})]]
           Lists(r) == r = [k \in 0..N |-> IF k = 0 THEN Nothing ELSE RecLevel(h, k, r[k - 1])]
<1>1. N \in Nat
    OBVIOUS
<1>2. Steps(G, N, Results)
    BY RecLevelIn DEF Steps
<1>3. Nothing \in Results
    BY DEF Results, Nothing
<1>4. \E f : Recursive(f, Nothing, G, N, Results)
    <2> HIDE DEF N, G, Is, Lists
    <2> QED
        BY <1>1, <1>2, <1>3, RecExists
<1>5. PICK f \in [0..N -> Results] : f[0] = Nothing /\ \A k \in 1..N : f[k] = G[k][f[k - 1]]
    BY <1>4 DEF Recursive
<1>6. \A r : Is(r) <=> Lists(r)
    BY DEF RecLevel, Nothing, RecFrom, Objects, Leads
<1> HIDE DEF N, Is
<1>7. ASSUME NEW k \in 1..N PROVE f[k - 1] \in Results /\ f[k] = RecLevel(h, k, f[k - 1])
    <2>1. k - 1 \in 0..N
        BY <1>1
    <2>2. f[k - 1] \in Results
        BY <2>1
    <2>3. \A v \in Results : G[k][v] = RecLevel(h, k, v)
        OBVIOUS
    <2> HIDE DEF G
    <2> QED
        BY <1>5, <2>2, <2>3
<1>8. Lists(f)
    <2>1. \A k \in 0..N : f[k] = IF k = 0 THEN Nothing ELSE RecLevel(h, k, f[k - 1])
        BY <1>1, <1>5, <1>7
    <2> QED
        BY <2>1
<1> DEFINE r == CHOOSE r : Is(r)
<1>9. fh_rec(h) = r[N][RootIno]
    BY DEF fh_rec, N, Is
<1>10. Lists(r)
    <2> HIDE DEF Lists
    <2> QED
        BY <1>6, <1>8
<1> HIDE DEF r
<1> HIDE DEF G
<1>11. /\ r[0] = Nothing
       /\ \A k \in 1..N : r[k] = RecLevel(h, k, r[k - 1])
       /\ r = [k \in 0..N |-> r[k]]
    <2>1. DOMAIN r = 0..N /\ r = [k \in DOMAIN r |-> r[k]]
        BY <1>10
    <2>2. \A k \in 0..N : r[k] = IF k = 0 THEN Nothing ELSE RecLevel(h, k, r[k - 1])
        BY <1>10
    <2> HIDE DEF Lists
    <2>3. 0 \in 0..N /\ \A k \in 1..N : k \in 0..N /\ k # 0
        BY <1>1
    <2>4. r[0] = Nothing
        BY <2>2, <2>3
    <2>5. \A k \in 1..N : r[k] = RecLevel(h, k, r[k - 1])
        BY <2>2, <2>3
    <2> QED
        BY <2>1, <2>4, <2>5
<1> HIDE DEF Lists
<1> DEFINE T == {k \in 0..N : r[k] \in Results}
<1>12. 0..N \subseteq T
    <2>1. 0 \in T
        BY <1>1, <1>3, <1>11
    <2>2. ASSUME NEW k \in 0..N, k < N, k \in T PROVE k + 1 \in T
        <3>1. k + 1 \in 1..N /\ k + 1 \in 0..N /\ (k + 1) - 1 = k /\ r[k] \in Results
            BY <1>1, <2>2
        <3>2. r[k + 1] = RecLevel(h, k + 1, r[(k + 1) - 1])
            BY <3>1, <1>11
        <3>3. r[k + 1] \in Results
            BY <3>1, <3>2, RecLevelIn
        <3> QED
            BY <3>1, <3>3
    <2>3. \A k \in 0..N : k < N /\ k \in T => k + 1 \in T
        BY <2>2
    <2> HIDE DEF T
    <2> QED
        BY <1>1, <2>1, <2>3, Induct
<1>13. r \in [0..N -> Results]
    BY <1>11, <1>12
<1>14. \A d \in All : r[0][d] = {}
    BY <1>11 DEF Nothing
<1>15. \A k \in 1..N : \A d \in All : r[k][d] = RecFrom(h, k, d, r[k - 1])
    BY <1>11 DEF RecLevel
<1>16. RecTable(h, r)
    BY <1>9, <1>13, <1>14, <1>15 DEF RecTable, N
<1> QED
    BY <1>16

\* There are finitely many inodes.
LEMMA AllFinite == IsFiniteSet(All) /\ Cardinality(All) \in Nat
BY HandlesAssumption, FS_AddElement, FS_CardinalityType DEF All

\* The same for locate_pfx.
Matches(h, d) == {e \in Entries(d) : Entry(d, e) = h.ino}
\* The directories locate_pfx descends into, and one level of its recursion.
Deeper(h, k, d) == {e \in Entries(d) \ {".", ".."} :
                      Entry(d, e) # h.ino /\ Descends(k, Entry(d, e))}
LocFrom(h, k, d, v) ==
    IF ~IsDir(d) THEN {}
    ELSE {<<n>> : n \in Matches(h, d)}
         \cup UNION {Prefixed(n, v[Entry(d, n)]) : n \in Deeper(h, k, d)}

\* What one level of locate_pfx finds is an entry that is the object or comes from below.
LEMMA LocFromIn ==
    ASSUME Tree, NEW h, NEW k, NEW d, NEW v \in Results, NEW p \in LocFrom(h, k, d, v)
    PROVE  p \in Paths /\ Found(v, d, h.ino, p)
<1>1. IsDir(d)
    BY DEF LocFrom
<1>2. \/ \E n \in Matches(h, d) : p = <<n>>
      \/ \E n \in Deeper(h, k, d) : p \in Prefixed(n, v[Entry(d, n)])
    BY <1>1 DEF LocFrom
<1>3. CASE \E n \in Matches(h, d) : p = <<n>>
    <2>1. PICK n \in Matches(h, d) : p = <<n>>
        BY <1>3
    <2>2. n \in Entries(d) /\ Entry(d, n) = h.ino
        BY <2>1 DEF Matches
    <2>3. n \in Any
        BY <1>1, <2>2, EntriesLead
    <2>4. p \in Paths
        BY <2>1, <2>3 DEF Paths
    <2> QED
        BY <1>1, <2>1, <2>2, <2>3, <2>4 DEF Found
<1>4. CASE \E n \in Deeper(h, k, d) : p \in Prefixed(n, v[Entry(d, n)])
    <2>1. PICK n \in Deeper(h, k, d) : p \in Prefixed(n, v[Entry(d, n)])
        BY <1>4
    <2>2. n \in Entries(d)
        BY <2>1 DEF Deeper
    <2>3. n \in Any /\ Entry(d, n) \in All
        BY <1>1, <2>2, EntriesLead DEF Live
    <2>4. PICK q \in v[Entry(d, n)] : p = <<n>> \o q
        BY <2>1 DEF Prefixed
    <2>5. q \in Paths
        BY <2>3, <2>4 DEF Results
    <2>6. p \in Paths
        BY <2>3, <2>4, <2>5 DEF Paths
    <2> QED
        BY <1>1, <2>3, <2>4, <2>6 DEF Found
<1> QED
    BY <1>2, <1>3, <1>4

\* One level of locate_pfx for all inodes.
LocLevel(h, k, v) == [d \in All |-> LocFrom(h, k, d, v)]

\* A level of locate_pfx maps tables of results to tables of results.
LEMMA LocLevelIn ==
    ASSUME Tree, NEW h, NEW k, NEW v \in Results
    PROVE  LocLevel(h, k, v) \in Results
<1>1. \A d \in All : LocFrom(h, k, d, v) \in SUBSET Paths
    BY LocFromIn
<1> QED
    BY <1>1 DEF LocLevel, Results

\* What the recursion of locate_pfx computes.
LocTable(h, r) ==
    /\ r \in [0..Cardinality(All) -> Results]
    /\ \A d \in All : r[0][d] = {}
    /\ \A k \in 1..Cardinality(All) : \A d \in All : r[k][d] = LocFrom(h, k, d, r[k - 1])
    /\ locate_pfx(h) = r[Cardinality(All)][RootIno]

\* The recursive function that defines locate_pfx exists, and its values are the levels.
LEMMA LocDef ==
    ASSUME Tree, NEW h
    PROVE  \E r : LocTable(h, r)
<1> DEFINE N == Cardinality(All)
           G == [k \in 1..N |-> [v \in Results |-> LocLevel(h, k, v)]]
           Is(r) == r = [k \in 0..N |->
                [d \in All |->
                    IF k = 0 \/ ~IsDir(d) THEN {}
                    ELSE {<<n>> : n \in {e \in Entries(d) : Entry(d, e) = h.ino}}
                         \cup UNION {Prefixed(n, r[k - 1][Entry(d, n)]) :
                                n \in {e \in Entries(d) \ {".", ".."} :
                                         Entry(d, e) # h.ino /\ Descends(k, Entry(d, e))}}]]
           Lists(r) == r = [k \in 0..N |-> IF k = 0 THEN Nothing ELSE LocLevel(h, k, r[k - 1])]
<1>1. N \in Nat
    BY AllFinite
<1>2. Steps(G, N, Results)
    BY LocLevelIn DEF Steps
<1>3. Nothing \in Results
    BY DEF Results, Nothing
<1>4. \E f : Recursive(f, Nothing, G, N, Results)
    <2> HIDE DEF N, G, Is, Lists
    <2> QED
        BY <1>1, <1>2, <1>3, RecExists
<1>5. PICK f \in [0..N -> Results] : f[0] = Nothing /\ \A k \in 1..N : f[k] = G[k][f[k - 1]]
    BY <1>4 DEF Recursive
<1>6. \A r : Is(r) <=> Lists(r)
    BY DEF LocLevel, Nothing, LocFrom, Matches, Deeper
<1> HIDE DEF N, Is
<1>7. ASSUME NEW k \in 1..N PROVE f[k - 1] \in Results /\ f[k] = LocLevel(h, k, f[k - 1])
    <2>1. k - 1 \in 0..N
        BY <1>1
    <2>2. f[k - 1] \in Results
        BY <2>1
    <2>3. \A v \in Results : G[k][v] = LocLevel(h, k, v)
        OBVIOUS
    <2> HIDE DEF G
    <2> QED
        BY <1>5, <2>2, <2>3
<1>8. Lists(f)
    <2>1. \A k \in 0..N : f[k] = IF k = 0 THEN Nothing ELSE LocLevel(h, k, f[k - 1])
        BY <1>1, <1>5, <1>7
    <2> QED
        BY <2>1
<1> DEFINE r == CHOOSE r : Is(r)
<1>9. locate_pfx(h) = r[N][RootIno]
    BY DEF locate_pfx, N, Is
<1>10. Lists(r)
    <2> HIDE DEF Lists
    <2> QED
        BY <1>6, <1>8
<1> HIDE DEF r
<1> HIDE DEF G
<1>11. /\ r[0] = Nothing
       /\ \A k \in 1..N : r[k] = LocLevel(h, k, r[k - 1])
       /\ r = [k \in 0..N |-> r[k]]
    <2>1. DOMAIN r = 0..N /\ r = [k \in DOMAIN r |-> r[k]]
        BY <1>10
    <2>2. \A k \in 0..N : r[k] = IF k = 0 THEN Nothing ELSE LocLevel(h, k, r[k - 1])
        BY <1>10
    <2> HIDE DEF Lists
    <2>3. 0 \in 0..N /\ \A k \in 1..N : k \in 0..N /\ k # 0
        BY <1>1
    <2>4. r[0] = Nothing
        BY <2>2, <2>3
    <2>5. \A k \in 1..N : r[k] = LocLevel(h, k, r[k - 1])
        BY <2>2, <2>3
    <2> QED
        BY <2>1, <2>4, <2>5
<1> HIDE DEF Lists
<1> DEFINE T == {k \in 0..N : r[k] \in Results}
<1>12. 0..N \subseteq T
    <2>1. 0 \in T
        BY <1>1, <1>3, <1>11
    <2>2. ASSUME NEW k \in 0..N, k < N, k \in T PROVE k + 1 \in T
        <3>1. k + 1 \in 1..N /\ k + 1 \in 0..N /\ (k + 1) - 1 = k /\ r[k] \in Results
            BY <1>1, <2>2
        <3>2. r[k + 1] = LocLevel(h, k + 1, r[(k + 1) - 1])
            BY <3>1, <1>11
        <3>3. r[k + 1] \in Results
            BY <3>1, <3>2, LocLevelIn
        <3> QED
            BY <3>1, <3>3
    <2>3. \A k \in 0..N : k < N /\ k \in T => k + 1 \in T
        BY <2>2
    <2> HIDE DEF T
    <2> QED
        BY <1>1, <2>1, <2>3, Induct
<1>13. r \in [0..N -> Results]
    BY <1>11, <1>12
<1>14. \A d \in All : r[0][d] = {}
    BY <1>11 DEF Nothing
<1>15. \A k \in 1..N : \A d \in All : r[k][d] = LocFrom(h, k, d, r[k - 1])
    BY <1>11 DEF LocLevel
<1>16. LocTable(h, r)
    BY <1>9, <1>13, <1>14, <1>15 DEF LocTable, N
<1> QED
    BY <1>16

----------------------------------------------------------------------------
(* The way from the root *)

\* No directory lies below itself: every object has a distance from the root.
Ranked(rank) ==
    /\ rank \in [All -> Nat]
    /\ rank[RootIno] = 0
    /\ \A i \in Live \ {RootIno} : rank[i] = rank[tree[i].up] + 1
Acyclic == \E rank : Ranked(rank)

\* The distance is less than the number of inodes: there is an object at every
\* distance up to it.
LEMMA RankBound ==
    ASSUME Tree, NEW rank, Ranked(rank), NEW i \in Live
    PROVE  rank[i] < Cardinality(All)
<1> DEFINE n == rank[i]
           At(m) == \E j \in Live : rank[j] = m
           T == {k \in 0..n : At(n - k)}
<1>1. n \in Nat /\ \A j \in Live : j \in All /\ rank[j] \in Nat
    BY DEF Ranked, Live
<1> HIDE DEF n
<1>2. 0 \in T
    BY <1>1 DEF n
<1>3. ASSUME NEW k \in 0..n, k < n, k \in T PROVE k + 1 \in T
    <2>1. PICK j \in Live : rank[j] = n - k
        BY <1>3
    <2>2. rank[j] # 0 /\ j # RootIno
        BY <1>1, <1>3, <2>1 DEF Ranked
    <2>3. tree[j].up \in Live /\ rank[j] = rank[tree[j].up] + 1
        BY <2>1, <2>2 DEF Tree, Ranked, IsDir
    <2>4. rank[tree[j].up] = n - (k + 1)
        BY <1>1, <2>1, <2>3
    <2> QED
        BY <1>1, <1>3, <2>3, <2>4
<1>4. 0..n \subseteq T
    <2>1. \A k \in 0..n : k < n /\ k \in T => k + 1 \in T
        BY <1>3
    <2> HIDE DEF T
    <2> QED
        BY <1>1, <1>2, <2>1, Induct
<1>5. ASSUME NEW m \in 0..n PROVE At(m)
    <2>1. n - m \in 0..n /\ n - (n - m) = m
        BY <1>1
    <2>2. n - m \in T
        BY <1>4, <2>1
    <2> QED
        BY <2>1, <2>2
<1> DEFINE g == [m \in 0..n |-> CHOOSE j \in Live : rank[j] = m]
<1>6. \A m \in 0..n : g[m] \in All /\ rank[g[m]] = m
    BY <1>1, <1>5
<1>7. g \in [0..n -> All]
    BY <1>6
<1>8. IsFiniteSet(0..n) /\ Cardinality(0..n) = n + 1
    <2>1. 0 \in Int /\ n \in Int /\ ~(0 > n)
        BY <1>1
    <2>2. IsFiniteSet(0..n) /\ Cardinality(0..n) = IF 0 > n THEN 0 ELSE n - 0 + 1
        BY <2>1, FS_Interval
    <2> QED
        BY <2>1, <2>2
<1> HIDE DEF g
<1>9. ASSUME Cardinality(All) < n + 1 PROVE FALSE
    <2> DEFINE D == 0..n
    <2>1. IsFiniteSet(D) /\ Cardinality(All) < Cardinality(D) /\ g \in [D -> All]
        BY <1>7, <1>8, <1>9
    <2>2. \E x, y \in D : x # y /\ g[x] = g[y]
        <3> HIDE DEF D
        <3> QED
            BY <2>1, AllFinite, FS_PigeonHole
    <2> QED
        BY <2>2, <1>6
<1>10. n < Cardinality(All)
    BY <1>1, <1>9, AllFinite
<1> QED
    BY <1>10 DEF n

\* What the recursion of Chain computes.
Ways == [All -> Seq(All)]
NoWay == [j \in All |-> <<>>]
Extended(v) ==
    [j \in All |-> IF j \notin Live \/ j = RootIno THEN <<>> ELSE Append(v[tree[j].up], j)]
ChainTable(c) ==
    /\ c \in [0..Cardinality(All) -> Ways]
    /\ c[0] = NoWay
    /\ \A k \in 1..Cardinality(All) : c[k] = Extended(c[k - 1])
    /\ \A i : Chain(i) = c[Cardinality(All)][i]

\* Extending a table of chains gives a table of chains.
LEMMA ExtendedIn ==
    ASSUME Tree, NEW v \in Ways
    PROVE  Extended(v) \in Ways
<1>1. \A j \in Live \ {RootIno} : tree[j].up \in All
    BY DEF Tree, IsDir, Live
<1>2. \A j \in All : (IF j \notin Live \/ j = RootIno THEN <<>> ELSE Append(v[tree[j].up], j)) \in Seq(All)
    BY <1>1 DEF Ways
<1> QED
    BY <1>2 DEF Extended, Ways

\* The recursive function behind Chain exists, and its values are the tables.
LEMMA ChainDef ==
    ASSUME Tree
    PROVE  \E c : ChainTable(c)
<1> DEFINE N == Cardinality(All)
           G == [k \in 1..N |-> [v \in Ways |-> Extended(v)]]
           Is(c) == c = [k \in 0..N |->
                            [j \in All |-> IF k = 0 \/ j \notin Live \/ j = RootIno THEN <<>>
                                           ELSE Append(c[k - 1][tree[j].up], j)]]
           Lists(c) == c = [k \in 0..N |-> IF k = 0 THEN NoWay ELSE Extended(c[k - 1])]
<1>1. N \in Nat
    BY AllFinite
<1>2. Steps(G, N, Ways)
    BY ExtendedIn DEF Steps
<1>3. NoWay \in Ways
    BY DEF Ways, NoWay
<1>4. \E f : Recursive(f, NoWay, G, N, Ways)
    <2> HIDE DEF N, G, Is, Lists
    <2> QED
        BY <1>1, <1>2, <1>3, RecExists
<1>5. PICK f \in [0..N -> Ways] : f[0] = NoWay /\ \A k \in 1..N : f[k] = G[k][f[k - 1]]
    BY <1>4 DEF Recursive
<1>6. \A c : Is(c) <=> Lists(c)
    BY DEF NoWay, Extended
<1> HIDE DEF N, Is
<1>7. ASSUME NEW k \in 1..N PROVE f[k - 1] \in Ways /\ f[k] = Extended(f[k - 1])
    <2>1. k - 1 \in 0..N
        BY <1>1
    <2>2. f[k - 1] \in Ways
        BY <2>1
    <2>3. \A v \in Ways : G[k][v] = Extended(v)
        OBVIOUS
    <2> HIDE DEF G
    <2> QED
        BY <1>5, <2>2, <2>3
<1>8. Lists(f)
    <2>1. \A k \in 0..N : f[k] = IF k = 0 THEN NoWay ELSE Extended(f[k - 1])
        BY <1>1, <1>5, <1>7
    <2> QED
        BY <2>1
<1> DEFINE c == CHOOSE c : Is(c)
<1>9. \A i : Chain(i) = c[N][i]
    BY DEF Chain, N, Is
<1>10. Lists(c)
    <2> HIDE DEF Lists
    <2> QED
        BY <1>6, <1>8
<1> HIDE DEF c
<1> HIDE DEF G
<1>11. /\ c[0] = NoWay
       /\ \A k \in 1..N : c[k] = Extended(c[k - 1])
       /\ c = [k \in 0..N |-> c[k]]
    <2>1. DOMAIN c = 0..N /\ c = [k \in DOMAIN c |-> c[k]]
        BY <1>10
    <2>2. \A k \in 0..N : c[k] = IF k = 0 THEN NoWay ELSE Extended(c[k - 1])
        BY <1>10
    <2> HIDE DEF Lists
    <2>3. 0 \in 0..N /\ \A k \in 1..N : k \in 0..N /\ k # 0
        BY <1>1
    <2>4. c[0] = NoWay
        BY <2>2, <2>3
    <2>5. \A k \in 1..N : c[k] = Extended(c[k - 1])
        BY <2>2, <2>3
    <2> QED
        BY <2>1, <2>4, <2>5
<1> HIDE DEF Lists
<1> DEFINE T == {k \in 0..N : c[k] \in Ways}
<1>12. 0..N \subseteq T
    <2>1. 0 \in T
        BY <1>1, <1>3, <1>11
    <2>2. ASSUME NEW k \in 0..N, k < N, k \in T PROVE k + 1 \in T
        <3>1. k + 1 \in 1..N /\ k + 1 \in 0..N /\ (k + 1) - 1 = k /\ c[k] \in Ways
            BY <1>1, <2>2
        <3>2. c[k + 1] = Extended(c[(k + 1) - 1])
            BY <3>1, <1>11
        <3>3. c[k + 1] \in Ways
            BY <3>1, <3>2, ExtendedIn
        <3> QED
            BY <3>1, <3>3
    <2>3. \A k \in 0..N : k < N /\ k \in T => k + 1 \in T
        BY <2>2
    <2> HIDE DEF T
    <2> QED
        BY <1>1, <2>1, <2>3, Induct
<1>13. c \in [0..N -> Ways]
    BY <1>11, <1>12
<1>14. ChainTable(c)
    BY <1>9, <1>11, <1>13 DEF ChainTable, N
<1> QED
    BY <1>14

\* The chain of an object is that of its directory and the object.
LEMMA ChainStep ==
    ASSUME Tree, Acyclic
    PROVE  /\ \A i \in All : Chain(i) \in Seq(All)
           /\ Chain(RootIno) = <<>>
           /\ \A i \in Live \ {RootIno} : Chain(i) = Append(Chain(tree[i].up), i)
<1> DEFINE N == Cardinality(All)
<1>1. PICK rank : Ranked(rank)
    BY DEF Acyclic
<1>2. PICK c : ChainTable(c)
    BY ChainDef
<1>3. /\ c \in [0..N -> Ways]
      /\ c[0] = NoWay
      /\ \A k \in 1..N : c[k] = Extended(c[k - 1])
      /\ \A i : Chain(i) = c[N][i]
    BY <1>2 DEF ChainTable
<1>4. N \in Nat /\ \A i \in Live : i \in All /\ rank[i] \in Nat /\ rank[i] < N
    BY <1>1, AllFinite, RankBound DEF Ranked, Live
<1> HIDE DEF N
<1>5. N \in 0..N /\ N \in 1..N /\ N - 1 \in 0..N
    BY <1>4, RootLive
<1>6. /\ \A i \in All : Chain(i) \in Seq(All)
      /\ Chain(RootIno) = <<>>
    BY <1>3, <1>5, RootLive DEF Ways, Extended
<1> DEFINE Settled(k) == \A j \in Live : rank[j] < k => c[k][j] = c[k - 1][j]
           T == {k \in 0..N : k > 0 => Settled(k)}
<1>7. 0 \in T
    BY <1>4
<1>8. ASSUME NEW k \in 0..N, k < N, k \in T PROVE k + 1 \in T
    <2>1. k + 1 \in 1..N /\ k + 1 \in 0..N /\ (k + 1) - 1 = k
        BY <1>4, <1>8
    <2>2. c[k + 1] = Extended(c[k])
        BY <1>3, <2>1
    <2>3. ASSUME NEW j \in Live, rank[j] < k + 1 PROVE c[k + 1][j] = c[k][j]
        <3>1. CASE j = RootIno
            <4>1. c[k + 1][j] = <<>>
                BY <1>4, <2>2, <3>1 DEF Extended
            <4>2. k = 0 => c[k][j] = <<>>
                BY <1>3, <1>4 DEF NoWay
            <4>3. k # 0 => c[k] = Extended(c[k - 1])
                BY <1>3, <1>4
            <4>4. k # 0 => c[k][j] = <<>>
                BY <1>4, <4>3, <3>1 DEF Extended
            <4> QED
                BY <4>1, <4>2, <4>4
        <3>2. CASE j # RootIno
            <4> DEFINE u == tree[j].up
            <4>1. u \in Live /\ rank[j] = rank[u] + 1
                BY <1>1, <3>2 DEF Tree, Ranked, IsDir
            <4> HIDE DEF u
            <4>2. k > 0 /\ k \in 1..N /\ rank[u] < k
                BY <1>4, <2>3, <4>1
            <4>3. c[k][u] = c[k - 1][u]
                BY <1>8, <4>1, <4>2
            <4>4. c[k] = Extended(c[k - 1])
                BY <1>3, <4>2
            <4>5. c[k + 1][j] = Append(c[k][u], j) /\ c[k][j] = Append(c[k - 1][u], j)
                BY <1>4, <2>2, <3>2, <4>4 DEF Extended, u
            <4> QED
                BY <4>3, <4>5
        <3> QED
            BY <3>1, <3>2
    <2> QED
        BY <2>1, <2>3
<1>9. 0..N \subseteq T
    <2>1. \A k \in 0..N : k < N /\ k \in T => k + 1 \in T
        BY <1>8
    <2> HIDE DEF T
    <2> QED
        BY <1>4, <1>7, <2>1, Induct
<1>10. ASSUME NEW i \in Live \ {RootIno} PROVE Chain(i) = Append(Chain(tree[i].up), i)
    <2> DEFINE u == tree[i].up
    <2>1. u \in Live
        BY DEF Tree, IsDir
    <2> HIDE DEF u
    <2>2. c[N][i] = Append(c[N - 1][u], i)
        BY <1>3, <1>4, <1>5 DEF Extended, u
    <2>3. Settled(N)
        BY <1>5, <1>9
    <2>4. c[N][u] = c[N - 1][u]
        BY <1>4, <2>1, <2>3
    <2> QED
        BY <1>3, <2>2, <2>4 DEF u
<1> QED
    BY <1>6, <1>10

\* The chain of an object: its directories from the root down, then itself.
OnWay(c, k) == IF k = 0 THEN RootIno ELSE c[k]
Shape(c, i, rank) ==
    /\ c \in Seq(All) /\ Len(c) = rank[i]
    /\ OnWay(c, Len(c)) = i
    /\ \A k \in 1..Len(c) :
         c[k] \in Live \ {RootIno} /\ rank[c[k]] = k /\ tree[c[k]].up = OnWay(c, k - 1)

\* By induction over the distance from the root: the chain of an object has its shape.
LEMMA ChainShape ==
    ASSUME Tree, NEW rank, Ranked(rank), NEW i \in Live
    PROVE  Shape(Chain(i), i, rank)
<1> DEFINE N == rank[i]
           T == {m \in 0..N : \A j \in Live : rank[j] = m => Shape(Chain(j), j, rank)}
<1>1. N \in Nat /\ \A j \in Live : j \in All /\ rank[j] \in Nat
    BY DEF Ranked, Live
<1> HIDE DEF N
<1>2. \A j \in Live \ {RootIno} : rank[j] = rank[tree[j].up] + 1 /\ tree[j].up \in Live
    BY DEF Ranked, Tree, IsDir
<1>3. rank[RootIno] = 0 /\ Acyclic
    BY DEF Ranked, Acyclic
<1>4. 0 \in T
    <2>1. ASSUME NEW j \in Live, rank[j] = 0 PROVE Shape(Chain(j), j, rank)
        <3>1. j = RootIno
            BY <1>1, <1>2, <2>1
        <3>2. Chain(j) = <<>>
            BY <1>3, <3>1, ChainStep
        <3> QED
            BY <2>1, <3>1, <3>2 DEF Shape, OnWay
    <2> QED
        BY <1>1, <2>1
<1>5. ASSUME NEW m \in 0..N, m < N, m \in T PROVE m + 1 \in T
    <2>1. ASSUME NEW j \in Live, rank[j] = m + 1 PROVE Shape(Chain(j), j, rank)
        <3> DEFINE u == tree[j].up
                   c == Chain(u)
                   e == Append(c, j)
        <3>1. j # RootIno /\ j \in All
            BY <1>1, <1>3, <2>1
        <3>2. u \in Live /\ rank[u] = m
            BY <1>1, <1>2, <2>1, <3>1
        <3>3. Chain(j) = e
            BY <1>3, <3>1, ChainStep
        <3> HIDE DEF u
        <3>4. Shape(c, u, rank)
            BY <1>5, <3>2
        <3> HIDE DEF c
        <3>5. /\ c \in Seq(All) /\ Len(c) = m
              /\ OnWay(c, m) = u
              /\ \A k \in 1..m : /\ c[k] \in Live \ {RootIno} /\ rank[c[k]] = k
                                 /\ tree[c[k]].up = OnWay(c, k - 1)
            BY <3>2, <3>4 DEF Shape
        <3>6. e \in Seq(All) /\ Len(e) = m + 1 /\ e[m + 1] = j /\ \A k \in 1..m : e[k] = c[k]
            BY <3>1, <3>5
        <3> HIDE DEF e
        <3>7. \A k \in 0..m : OnWay(e, k) = OnWay(c, k)
            BY <3>6 DEF OnWay
        <3>8. ASSUME NEW k \in 1..(m + 1)
              PROVE  /\ e[k] \in Live \ {RootIno} /\ rank[e[k]] = k
                     /\ tree[e[k]].up = OnWay(e, k - 1)
            <4>1. CASE k = m + 1
                <5>1. e[k] = j /\ k - 1 = m /\ m \in 0..m
                    BY <3>6, <4>1
                <5>2. OnWay(e, k - 1) = u
                    BY <3>5, <3>7, <5>1
                <5> QED
                    BY <2>1, <3>1, <4>1, <5>1, <5>2 DEF u
            <4>2. CASE k \in 1..m
                <5>1. k - 1 \in 0..m
                    BY <4>2
                <5> QED
                    BY <3>5, <3>6, <3>7, <4>2, <5>1
            <4> QED
                BY <4>1, <4>2
        <3>9. OnWay(e, Len(e)) = j
            BY <3>6 DEF OnWay
        <3>10. Shape(e, j, rank)
            BY <2>1, <3>6, <3>8, <3>9 DEF Shape
        <3> QED
            BY <3>3, <3>10
    <2>2. m + 1 \in 0..N
        BY <1>1, <1>5
    <2> QED
        BY <2>1, <2>2
<1>6. 0..N \subseteq T
    <2>1. \A m \in 0..N : m < N /\ m \in T => m + 1 \in T
        BY <1>5
    <2> HIDE DEF T
    <2> QED
        BY <1>1, <1>4, <2>1, Induct
<1>7. N \in T
    BY <1>1, <1>6
<1> QED
    BY <1>7 DEF N

\* The names on the way lead to the object.
LEMMA PathWalk ==
    ASSUME Tree, Acyclic, NEW i \in Live
    PROVE  /\ Path(i) \in Seq(Names) /\ Len(Path(i)) = Len(Chain(i))
           /\ \A k \in 0..Len(Chain(i)) : Walk(Path(i))[k] = OnWay(Chain(i), k)
           /\ lstat(Path(i)) = i
<1>1. PICK rank : Ranked(rank)
    BY DEF Acyclic
<1> DEFINE c == Chain(i)
           p == Path(i)
           N == Len(c)
           w == Walk(p)
           T == {k \in 0..N : w[k] = OnWay(c, k)}
<1>2. Shape(c, i, rank)
    BY <1>1, ChainShape
<1>3. p = [k \in DOMAIN c |-> tree[c[k]].name]
    BY DEF Path
<1> HIDE DEF c, p
<1>4. /\ c \in Seq(All) /\ DOMAIN c = 1..N /\ N \in Nat
      /\ OnWay(c, N) = i
      /\ \A k \in 1..N : c[k] \in Live \ {RootIno} /\ tree[c[k]].up = OnWay(c, k - 1)
    BY <1>2 DEF Shape
<1> HIDE DEF N
<1>5. \A k \in 1..N : tree[c[k]].name \in Names
    BY <1>4 DEF Tree
<1>6. p \in [1..N -> Names]
    BY <1>3, <1>4, <1>5
<1>7. p \in Seq(Names) /\ Len(p) = N /\ \A k \in 1..N : p[k] = tree[c[k]].name
    <2>1. p \in Seq(Names) /\ DOMAIN p = 1..N
        BY <1>4, <1>6
    <2>2. Len(p) \in Nat /\ DOMAIN p = 1..Len(p)
        BY <2>1, LenProperties
    <2>3. Len(p) = N
        <3>1. Len(p) <= N
            BY <1>4, <2>1, <2>2
        <3>2. N <= Len(p)
            BY <1>4, <2>1, <2>2
        <3>3. N \in Nat
            BY <1>4
        <3> DEFINE M == Len(p)
        <3>4. M <= N /\ N <= M /\ M \in Nat
            BY <2>2, <3>1, <3>2
        <3>5. M = N
            <4> HIDE DEF M
            <4> QED
                BY <3>3, <3>4
        <3> QED
            BY <3>5
    <2> QED
        BY <1>3, <1>4, <2>1, <2>3
<1>8. /\ w[0] = RootIno
      /\ \A k \in 1..N : w[k] = Step(w[k - 1], p[k])
    BY <1>7, WalkDef
<1> HIDE DEF w
<1>9. 0 \in T
    BY <1>4, <1>8 DEF OnWay
<1>10. ASSUME NEW k \in 0..N, k < N, k \in T PROVE k + 1 \in T
    <2> DEFINE j == c[k + 1]
    <2>1. k + 1 \in 1..N /\ k + 1 \in 0..N /\ (k + 1) - 1 = k /\ w[k] = OnWay(c, k)
        BY <1>4, <1>10
    <2>2. j \in Live \ {RootIno} /\ tree[j].up = w[k] /\ p[k + 1] = tree[j].name
        BY <1>4, <1>7, <2>1
    <2>3. IsDir(w[k])
        BY <2>2 DEF Tree
    <2>4. w[k + 1] = Step(w[k], p[k + 1])
        BY <1>8, <2>1
    <2>5. w[k + 1] = j
        BY <2>2, <2>3, <2>4, EntryOwn DEF Step
    <2>6. OnWay(c, k + 1) = j
        BY <2>1 DEF OnWay
    <2> QED
        BY <2>1, <2>5, <2>6
<1>11. 0..N \subseteq T
    <2>1. \A k \in 0..N : k < N /\ k \in T => k + 1 \in T
        BY <1>10
    <2> HIDE DEF T
    <2> QED
        BY <1>4, <1>9, <2>1, Induct
<1>12. lstat(p) = i
    BY <1>4, <1>7, <1>11 DEF lstat, w
<1> QED
    BY <1>7, <1>11, <1>12 DEF w, p, c, N

\* Conversely a path of names passes the chain of the object it leads to: by
\* induction over the path.
LEMMA WalkChain ==
    ASSUME Tree, Acyclic, NEW path \in Seq(Names), lstat(path) # 0
    PROVE  Chain(lstat(path)) = Passed(path)
<1> DEFINE N == Len(path)
           w == Walk(path)
           To(k) == [j \in 1..k |-> w[j]]
           T == {k \in 0..N : w[k] # 0 => Chain(w[k]) = To(k)}
<1>1. /\ N \in Nat
      /\ w \in [0..N -> Live \cup {0}] /\ w[0] = RootIno
      /\ \A k \in 1..N : w[k] = Step(w[k - 1], path[k])
    BY WalkDef
<1> HIDE DEF N, w
<1>2. 0 \in T
    <2>1. Chain(w[0]) = <<>>
        BY <1>1, ChainStep
    <2> QED
        BY <1>1, <2>1
<1>3. ASSUME NEW k \in 0..N, k < N, k \in T PROVE k + 1 \in T
    <2>1. k + 1 \in 1..N /\ k + 1 \in 0..N /\ (k + 1) - 1 = k
        BY <1>1, <1>3
    <2>2. w[k + 1] = Step(w[k], path[k + 1]) /\ path[k + 1] \in Names
        BY <1>1, <2>1 DEF N
    <2>3. ASSUME w[k + 1] # 0 PROVE Chain(w[k + 1]) = To(k + 1)
        <3>1. IsDir(w[k]) /\ w[k + 1] = Entry(w[k], path[k + 1])
            BY <2>2, <2>3 DEF Step
        <3>2. w[k + 1] \in Live \ {RootIno} /\ tree[w[k + 1]].up = w[k]
            BY <2>2, <2>3, <3>1, EntryChild
        <3>3. Chain(w[k + 1]) = Append(Chain(w[k]), w[k + 1])
            BY <3>2, ChainStep
        <3>4. w[k] # 0
            BY <3>1, RootLive DEF IsDir, Live
        <3>5. Chain(w[k]) = To(k)
            BY <1>3, <3>4
        <3>6. Append(To(k), w[k + 1]) = To(k + 1)
            <4>1. \A j \in 1..(k + 1) : w[j] \in Live \cup {0}
                BY <1>1, <2>1
            <4>2. To(k) \in Seq(Live \cup {0}) /\ Len(To(k)) = k
                BY <4>1
            <4>3. To(k + 1) \in Seq(Live \cup {0}) /\ Len(To(k + 1)) = k + 1
                BY <4>1
            <4> QED
                BY <4>1, <4>2, <4>3
        <3> QED
            BY <3>3, <3>5, <3>6
    <2> QED
        BY <2>1, <2>3
<1>4. 0..N \subseteq T
    <2>1. \A k \in 0..N : k < N /\ k \in T => k + 1 \in T
        BY <1>3
    <2> HIDE DEF T
    <2> QED
        BY <1>1, <1>2, <2>1, Induct
<1>5. N \in T /\ lstat(path) = w[N]
    BY <1>1, <1>4 DEF lstat, w, N
<1>6. Chain(lstat(path)) = To(N)
    BY <1>5
<1> QED
    BY <1>6 DEF Passed, N, w

----------------------------------------------------------------------------
(* Handles *)

\* What FH_HASH takes as values.
HashSet == {FH_HASH[x] : x \in All \cup {0}}

\* The handle of an object on the device, with the inodes passed when it was
\* made, at most as many as it has room for; only the root has none.
OnDevice(h, chain) ==
    /\ h.ino \in All /\ chain \in Seq(All \cup {0})
    /\ h = Handle(DEV, h.ino, Hashes(chain), chain)
    /\ Len(chain) <= FH_MAXLEN
    /\ chain = <<>> => h.ino = RootIno

\* What every handle is that a client holds.
Made(h) == h = RemovableFh \/ OnDevice(h, h.chain)

\* The hashes of a chain, one for each component.
LEMMA HashesShape ==
    ASSUME NEW chain \in Seq(All \cup {0})
    PROVE  /\ Hashes(chain) \in Seq(HashSet) /\ Len(Hashes(chain)) = Len(chain)
           /\ \A k \in 1..Len(chain) : Hashes(chain)[k] = FH_HASH[chain[k]]
<1> DEFINE N == Len(chain)
           p == Hashes(chain)
<1>1. DOMAIN chain = 1..N /\ N \in Nat /\ \A k \in 1..N : chain[k] \in All \cup {0}
    OBVIOUS
<1> HIDE DEF N
<1>2. p = [k \in 1..N |-> FH_HASH[chain[k]]]
    BY <1>1 DEF Hashes
<1>3. \A k \in 1..N : FH_HASH[chain[k]] \in HashSet
    BY <1>1 DEF HashSet
<1> HIDE DEF p
<1>4. p \in [1..N -> HashSet]
    BY <1>2, <1>3
<1>5. p \in Seq(HashSet) /\ DOMAIN p = 1..N
    BY <1>1, <1>4
<1>6. Len(p) = N
    <2>1. Len(p) \in Nat /\ DOMAIN p = 1..Len(p)
        BY <1>5, LenProperties
    <2> DEFINE M == Len(p)
    <2>2. 1..M = 1..N /\ M \in Nat
        BY <1>5, <2>1
    <2>3. M = N
        <3> HIDE DEF M
        <3>1. M <= N
            BY <1>1, <2>2
        <3>2. N <= M
            BY <1>1, <2>2
        <3> QED
            BY <1>1, <2>2, <3>1, <3>2
    <2> QED
        BY <2>3
<1> QED
    BY <1>2, <1>5, <1>6 DEF p, N

\* A handle on the device has a hash for each inode of its chain.
LEMMA OnDeviceShape ==
    ASSUME NEW h, OnDevice(h, h.chain)
    PROVE  /\ h.dev = DEV /\ h.ino \in All /\ h.inos = Hashes(h.chain)
           /\ h.chain \in Seq(All \cup {0})
           /\ h.inos \in Seq(HashSet) /\ Len(h.inos) = Len(h.chain)
           /\ \A k \in 1..Len(h.chain) : h.inos[k] = FH_HASH[h.chain[k]]
           /\ Len(h.inos) <= FH_MAXLEN
           /\ h.inos = <<>> => h.chain = <<>> /\ h.ino = RootIno
           /\ ~Special(h) /\ h.ino # 1 /\ export_point_from_fsid(h.dev) = {}
<1> DEFINE c == h.chain
           i == h.ino
<1>1. i \in All /\ c \in Seq(All \cup {0}) /\ Len(c) <= FH_MAXLEN /\ (c = <<>> => i = RootIno)
    BY DEF OnDevice
<1>2. h = Handle(DEV, i, Hashes(c), c)
    BY DEF OnDevice
<1> HIDE DEF c, i
<1>3. h.dev = DEV /\ h.inos = Hashes(c)
    BY <1>2 DEF Handle
<1>4. /\ Hashes(c) \in Seq(HashSet) /\ Len(Hashes(c)) = Len(c)
      /\ \A k \in 1..Len(c) : Hashes(c)[k] = FH_HASH[c[k]]
    BY <1>1, HashesShape
<1>5. Hashes(c) = <<>> => c = <<>>
    <2>1. Hashes(c) = <<>> => Len(Hashes(c)) = 0
        OBVIOUS
    <2>2. Len(c) = 0 => c = <<>>
        BY <1>1
    <2> QED
        BY <1>4, <2>1, <2>2
<1>6. DEV # FSID /\ 1 \notin All
    BY HandlesAssumption DEF All
<1>7. ~Special(h) /\ export_point_from_fsid(h.dev) = {}
    BY <1>3, <1>6 DEF Special, export_point_from_fsid
<1> QED
    BY <1>1, <1>3, <1>4, <1>5, <1>6, <1>7 DEF c, i

\* The searches lead to the object.
LEMMA RecSound ==
    ASSUME Tree, NEW h, NEW S, h.inos \in Seq(S), NEW path \in fh_rec(h)
    PROVE  path \in Paths /\ lstat(path) = h.ino
<1> DEFINE N == Len(h.inos)
<1>1. PICK r : RecTable(h, r)
    BY RecDef
<1>2. /\ N \in Nat
      /\ r \in [0..N -> Results]
      /\ \A d \in All : r[0][d] = {}
      /\ \A k \in 1..N : \A d \in All : r[k][d] = RecFrom(h, k, d, r[k - 1])
      /\ fh_rec(h) = r[N][RootIno]
    BY <1>1 DEF RecTable
<1> HIDE DEF N
<1>3. ASSUME NEW k \in 1..N, NEW d \in All, NEW p \in r[k][d]
      PROVE  Found(r[k - 1], d, h.ino, p)
    <2>1. k - 1 \in 0..N
        BY <1>2
    <2>2. r[k - 1] \in Results /\ p \in RecFrom(h, k, d, r[k - 1])
        BY <1>2, <1>3, <2>1
    <2> QED
        BY <2>2, RecFromIn
<1> DEFINE ino == h.ino
<1>4. Searches(r, N, ino)
    BY <1>2, <1>3 DEF Searches
<1>5. path \in r[N][RootIno]
    BY <1>2
<1> HIDE DEF ino
<1>6. path \in Paths /\ lstat(path) = ino
    BY <1>2, <1>4, <1>5, SearchSound
<1> QED
    BY <1>6 DEF ino

\* What the brute-force search finds is the object.
LEMMA LocSound ==
    ASSUME Tree, NEW h, NEW path \in locate_pfx(h)
    PROVE  path \in Paths /\ lstat(path) = h.ino
<1> DEFINE N == Cardinality(All)
<1>1. PICK r : LocTable(h, r)
    BY LocDef
<1>2. /\ N \in Nat
      /\ r \in [0..N -> Results]
      /\ \A d \in All : r[0][d] = {}
      /\ \A k \in 1..N : \A d \in All : r[k][d] = LocFrom(h, k, d, r[k - 1])
      /\ locate_pfx(h) = r[N][RootIno]
    BY <1>1, AllFinite DEF LocTable
<1> HIDE DEF N
<1>3. ASSUME NEW k \in 1..N, NEW d \in All, NEW p \in r[k][d]
      PROVE  Found(r[k - 1], d, h.ino, p)
    <2>1. k - 1 \in 0..N
        BY <1>2
    <2>2. r[k - 1] \in Results /\ p \in LocFrom(h, k, d, r[k - 1])
        BY <1>2, <1>3, <2>1
    <2> QED
        BY <2>2, LocFromIn
<1> DEFINE ino == h.ino
<1>4. Searches(r, N, ino)
    BY <1>2, <1>3 DEF Searches
<1>5. path \in r[N][RootIno]
    BY <1>2
<1> HIDE DEF ino
<1>6. path \in Paths /\ lstat(path) = ino
    BY <1>2, <1>4, <1>5, SearchSound
<1> QED
    BY <1>6 DEF ino

\* What a handle that was made resolves to.
LEMMA DecompSound ==
    ASSUME Tree, NEW h, Made(h), NEW path \in fh_decomp(h)
    PROVE  /\ path \in Paths
           /\ OnDevice(h, h.chain) => lstat(path) = h.ino
           /\ h = RemovableFh => path = IF exported = "none" THEN <<>> ELSE ExportPath
<1>1. CASE OnDevice(h, h.chain)
    <2>1. /\ h.dev = DEV /\ h.inos \in Seq(HashSet) /\ (h.inos = <<>> => h.ino = RootIno)
          /\ ~Special(h) /\ h.ino # 1
        BY <1>1, OnDeviceShape
    <2>2. path \in fh_decomp_raw(h) \/ path \in locate_pfx(h)
        BY <2>1 DEF fh_decomp, locate_file
    <2>3. h # RemovableFh
        BY <2>1 DEF Special, RemovableFh, Handle
    <2>4. CASE path \in fh_decomp_raw(h) /\ h.inos = <<>>
        <3>1. path = <<>>
            BY <2>4 DEF fh_decomp_raw
        <3>2. <<>> \in Seq(Any)
            OBVIOUS
        <3>3. lstat(<<>>) = RootIno
            BY <3>2, lstatIn
        <3> QED
            BY <2>1, <2>3, <2>4, <3>1, <3>2, <3>3 DEF Paths
    <2>5. CASE path \in fh_decomp_raw(h) /\ h.inos # <<>>
        <3>1. path \in fh_rec(h)
            BY <2>5 DEF fh_decomp_raw
        <3> QED
            BY <2>1, <2>3, <3>1, RecSound
    <2>6. CASE path \in locate_pfx(h)
        BY <2>3, <2>6, LocSound
    <2> QED
        BY <2>2, <2>4, <2>5, <2>6
<1>2. CASE h = RemovableFh
    <2>1. h.dev = FSID /\ h.ino = 1 /\ h.inos = <<>>
        BY <1>2 DEF RemovableFh, Handle
    <2>2. ~OnDevice(h, h.chain)
        <3>1. OnDevice(h, h.chain) => h.ino \in All
            BY DEF OnDevice
        <3> QED
            BY <2>1, <3>1, HandlesAssumption DEF All
    <2>3. path = IF exported = "none" THEN <<>> ELSE ExportPath
        BY <2>1 DEF fh_decomp, export_point_from_fsid, fh_decomp_raw
    <2>4. <<>> \in Paths /\ ExportPath \in Paths
        BY HandlesAssumption DEF Paths, Any
    <2> QED
        BY <2>2, <2>3, <2>4
<1> QED
    BY <1>1, <1>2 DEF Made

\* The inductive invariant: the directory tree is a tree, and every handle a client
\* holds was made by fh_comp_raw or fh_extend.
HandlesInv ==
    /\ Tree
    /\ Acyclic
    /\ \A h \in handles : Made(h)

\* Both searches are sound, so a handle never leads to another object.
LEMMA InvNeverAnother == HandlesInv => NeverAnother
<1> SUFFICES ASSUME HandlesInv, NEW h \in handles, NEW path \in fh_decomp(h)
             PROVE  IF Special(h) THEN exported # "none" => path = ExportPath
                    ELSE lstat(path) = h.ino
    BY DEF NeverAnother
<1>1. Tree /\ Made(h)
    BY DEF HandlesInv
<1>2. CASE h = RemovableFh
    BY <1>1, <1>2, DecompSound DEF RemovableFh, Handle, Special
<1>3. CASE OnDevice(h, h.chain)
    <2>1. ~Special(h)
        BY <1>3, OnDeviceShape
    <2>2. lstat(path) = h.ino
        BY <1>1, <1>3, DecompSound
    <2> QED
        BY <2>1, <2>2
<1> QED
    BY <1>1, <1>2, <1>3 DEF Made

\* What fh_comp_raw makes of a path that exists and fits.
LEMMA CompOfPath ==
    ASSUME Tree, NEW S, NEW path \in Seq(S), NEW need,
           lstat(path) # 0, Len(path) <= FH_MAXLEN, need => IsDir(lstat(path))
    PROVE  fh_comp_raw(path, FALSE, need)
             = Handle(DEV, lstat(path), Hashes(Passed(path)), Passed(path))
<1>1. Len(path) \in Nat /\ FH_MAXLEN \in Nat /\ ~(Len(path) > FH_MAXLEN)
    BY HandlesAssumption
<1> QED
    BY <1>1 DEF fh_comp_raw, lstat, Passed

\* The path of an object passes its chain, so fh_comp_raw makes the handle of the
\* chain.
LEMMA InvMadeAlike == HandlesInv => MadeAlike
<1> SUFFICES ASSUME HandlesInv, NEW h \in handles, InPlace(h)
             PROVE  fh_comp_raw(Path(h.ino), FALSE, FALSE) = h
    BY DEF MadeAlike
<1> DEFINE i == h.ino
           p == Path(i)
           c == h.chain
<1>1. Tree /\ Acyclic /\ Made(h)
    BY DEF HandlesInv
<1>2. i \in Live /\ Chain(i) = c /\ h.dev # FSID
    BY DEF InPlace, Special
<1>3. OnDevice(h, c)
    BY <1>1, <1>2 DEF Made, RemovableFh, Handle
<1>4. h = Handle(DEV, i, Hashes(c), c) /\ c \in Seq(All \cup {0}) /\ Len(c) <= FH_MAXLEN
    BY <1>3 DEF OnDevice
<1> HIDE DEF c, i
<1>5. /\ p \in Seq(Names) /\ Len(p) = Len(c)
      /\ \A k \in 0..Len(c) : Walk(p)[k] = OnWay(c, k)
      /\ lstat(p) = i
    BY <1>1, <1>2, PathWalk
<1>6. i # 0
    BY <1>1, <1>2, RootLive DEF Live
<1> HIDE DEF p
<1>7. fh_comp_raw(p, FALSE, FALSE) = Handle(DEV, i, Hashes(Passed(p)), Passed(p))
    BY <1>1, <1>4, <1>5, <1>6, CompOfPath
<1>8. Passed(p) = c
    <2> DEFINE N == Len(c)
    <2>1. N \in Nat /\ DOMAIN c = 1..N /\ c = [k \in 1..N |-> c[k]]
        BY <1>4
    <2>2. Passed(p) = [k \in 1..N |-> Walk(p)[k]]
        BY <1>5 DEF Passed
    <2> HIDE DEF N
    <2>3. \A k \in 1..N : Walk(p)[k] = c[k]
        BY <1>5, <2>1 DEF OnWay, N
    <2> QED
        BY <2>1, <2>2, <2>3
<1> QED
    BY <1>4, <1>7, <1>8 DEF p, i

\* The last k components of a sequence.
Rear(p, k) == [m \in 1..k |-> p[Len(p) - k + m]]

\* The rear part of a path, one component longer.
LEMMA RearGrows ==
    ASSUME NEW S, NEW p \in Seq(S), NEW k \in 0..Len(p), k < Len(p)
    PROVE  /\ Rear(p, k + 1) = <<p[Len(p) - k]>> \o Rear(p, k)
           /\ Rear(p, 1) = <<p[Len(p)]>>
<1> DEFINE N == Len(p)
           x == p[N - k]
           a == Rear(p, k)
           b == Rear(p, k + 1)
<1>1. N \in Nat /\ \A m \in 1..N : p[m] \in S
    OBVIOUS
<1>2. N - k \in 1..N /\ x \in S
    BY <1>1
<1>3. a = [m \in 1..k |-> p[N - k + m]] /\ b = [m \in 1..(k + 1) |-> p[N - (k + 1) + m]]
    BY DEF Rear
<1>4. \A m \in 1..k : N - k + m \in 1..N
    BY <1>1
<1>5. \A m \in 1..(k + 1) : N - (k + 1) + m \in 1..N
    BY <1>1
<1> HIDE DEF N
<1>6. a \in [1..k -> S] /\ b \in [1..(k + 1) -> S]
    BY <1>1, <1>3, <1>4, <1>5
<1>7. a \in Seq(S) /\ Len(a) = k /\ b \in Seq(S) /\ Len(b) = k + 1
    BY <1>3, <1>6
<1>8. b[1] = x
    BY <1>1, <1>2, <1>3
<1>9. ASSUME NEW m \in 2..(k + 1) PROVE b[m] = a[m - 1]
    <2>1. m \in 1..(k + 1) /\ m - 1 \in 1..k /\ N - (k + 1) + m = N - k + (m - 1)
        BY <1>1
    <2> QED
        BY <1>3, <2>1
<1> HIDE DEF a, b, x
<1>10. b = <<x>> \o a
    <2> DEFINE q == <<x>> \o a
    <2>1. /\ q \in Seq(S) /\ Len(q) = k + 1 /\ q[1] = x
          /\ \A m \in 2..(k + 1) : q[m] = a[m - 1]
        BY <1>2, <1>7
    <2> HIDE DEF q
    <2>2. \A m \in 1..(k + 1) : q[m] = b[m]
        <3>1. \A m \in 1..(k + 1) : m = 1 \/ m \in 2..(k + 1)
            OBVIOUS
        <3> QED
            BY <1>8, <1>9, <2>1, <3>1
    <2> QED
        BY <1>7, <2>1, <2>2
<1>11. Rear(p, 1) = <<p[N]>>
    BY <1>1, <1>2 DEF Rear, N
<1> QED
    BY <1>10, <1>11 DEF a, b, x, N

\* By induction from the object upwards: fh_rec, which compares hashes only and
\* backtracks, finds at each level the rest of the path.
LEMMA InvResolvable == HandlesInv => Resolvable
<1> SUFFICES ASSUME HandlesInv, NEW h \in handles, InPlace(h)
             PROVE  Path(h.ino) \in fh_decomp_raw(h)
    BY DEF Resolvable
<1> DEFINE i == h.ino
           p == Path(i)
           c == h.chain
           N == Len(c)
<1>1. Tree /\ Acyclic /\ Made(h)
    BY DEF HandlesInv
<1>2. i \in Live /\ Chain(i) = c /\ h.dev # FSID
    BY DEF InPlace, Special
<1>3. OnDevice(h, c)
    BY <1>1, <1>2 DEF Made, RemovableFh, Handle
<1>4. /\ h.dev = DEV /\ h.inos \in Seq(HashSet) /\ Len(h.inos) = N /\ c \in Seq(All \cup {0})
      /\ \A k \in 1..N : h.inos[k] = FH_HASH[c[k]]
    BY <1>3, OnDeviceShape
<1> HIDE DEF c, i
<1>5. PICK rank : Ranked(rank)
    BY <1>1 DEF Acyclic
<1>6. /\ rank[i] = N /\ OnWay(c, N) = i /\ N \in Nat
      /\ \A k \in 1..N : /\ c[k] \in Live \ {RootIno} /\ rank[c[k]] = k
                         /\ tree[c[k]].up = OnWay(c, k - 1)
    BY <1>1, <1>2, <1>4, <1>5, ChainShape DEF Shape
<1>7. p \in Seq(Names) /\ Len(p) = N
    BY <1>1, <1>2, PathWalk
<1>8. \A k \in 1..N : p[k] = tree[c[k]].name
    BY <1>2, <1>4 DEF Path
<1> HIDE DEF p
<1>9. CASE h.inos = <<>>
    <2>1. Len(h.inos) = 0
        BY <1>9
    <2>2. Len(p) = 0
        BY <1>4, <1>7, <2>1
    <2>3. p = <<>>
        BY <1>7, <2>2
    <2> QED
        BY <1>9, <2>3 DEF fh_decomp_raw, p, i
<1>10. CASE h.inos # <<>>
    <2> HIDE DEF N
    <2>1. N > 0
        BY <1>4, <1>6, <1>10
    <2>2. PICK r : RecTable(h, r)
        BY <1>1, <1>4, RecDef
    <2>3. /\ \A k \in 1..N : \A d \in All : r[k][d] = RecFrom(h, k, d, r[k - 1])
          /\ fh_rec(h) = r[N][RootIno]
        BY <1>4, <2>2 DEF RecTable
    <2> DEFINE T == {k \in 0..N : k > 0 => Rear(p, k) \in r[k][OnWay(c, N - k)]}
    <2>4. 0 \in T
        BY <1>6
    <2>5. ASSUME NEW k \in 0..N, k < N, k \in T PROVE k + 1 \in T
        <3> DEFINE j == c[N - k]
                   d == OnWay(c, N - (k + 1))
                   n == tree[j].name
        <3>1. N - k \in 1..N /\ (N - k) - 1 = N - (k + 1) /\ k + 1 \in 1..N /\ (k + 1) - 1 = k
            BY <1>6, <2>5
        <3>2. j \in Live \ {RootIno} /\ rank[j] = N - k /\ tree[j].up = d /\ p[N - k] = n
            BY <1>6, <1>8, <3>1
        <3>3. IsDir(d) /\ n \in Names
            BY <1>1, <3>2 DEF Tree
        <3>4. d \in All /\ n \in Entries(d) /\ n \notin {".", ".."}
            BY <3>2, <3>3, HandlesAssumption DEF IsDir, Live, Entries, Children
        <3>5. Entry(d, n) = j
            BY <1>1, <3>2, EntryOwn
        <3>6. r[k + 1][d] = RecFrom(h, k + 1, d, r[k])
            BY <2>3, <3>1, <3>4
        <3>7. FH_HASH[j] = h.inos[Len(h.inos) - (k + 1) + 1]
            <4>1. Len(h.inos) - (k + 1) + 1 = N - k
                BY <1>4, <1>6
            <4> QED
                BY <1>4, <3>1, <4>1
        <3>8. /\ Rear(p, k + 1) = <<n>> \o Rear(p, k)
              /\ k = 0 => Rear(p, k + 1) = <<n>>
            <4>1. Len(p) = N /\ k \in 0..Len(p) /\ k < Len(p)
                BY <1>7, <2>5
            <4>2. /\ Rear(p, k + 1) = <<p[Len(p) - k]>> \o Rear(p, k)
                  /\ Rear(p, 1) = <<p[Len(p)]>>
                BY <1>7, <4>1, RearGrows
            <4> QED
                BY <3>2, <4>1, <4>2, <1>6
        <3>9. OnWay(c, N - k) = j
            BY <3>1 DEF OnWay
        <3> HIDE DEF d, n, j
        <3>10. CASE k = 0
            <4>1. j = i
                BY <1>6, <3>9, <3>10
            <4>2. n \in Objects(h, d)
                BY <1>4, <3>4, <3>5, <4>1 DEF Objects, IsObject, i
            <4>3. <<n>> \in r[k + 1][d]
                BY <3>3, <3>6, <4>2 DEF RecFrom
            <4> QED
                BY <3>1, <3>8, <3>10, <4>3 DEF d
        <3>11. CASE k # 0
            <4>1. j # i
                BY <1>6, <3>2, <3>11
            <4>2. n \in Leads(h, k + 1, d)
                BY <3>4, <3>5, <3>7, <4>1 DEF Leads, IsObject, MayLead, i
            <4>3. Rear(p, k) \in r[k][j]
                BY <2>5, <3>9, <3>11
            <4>4. <<n>> \o Rear(p, k) \in Prefixed(n, r[k][Entry(d, n)])
                BY <3>5, <4>3 DEF Prefixed
            <4>5. <<n>> \o Rear(p, k) \in TryAll({Prefixed(m, r[k][Entry(d, m)]) : m \in Leads(h, k + 1, d)})
                BY <4>2, <4>4 DEF TryAll
            <4>6. <<n>> \o Rear(p, k) \in r[k + 1][d]
                BY <3>3, <3>6, <4>5 DEF RecFrom
            <4>7. Rear(p, k + 1) \in r[k + 1][d]
                BY <3>8, <4>6, Zenon
            <4>8. k + 1 \in 0..N
                BY <3>1
            <4> QED
                BY <4>7, <4>8 DEF d
        <3> QED
            BY <3>10, <3>11
    <2>6. 0..N \subseteq T
        <3>1. \A k \in 0..N : k < N /\ k \in T => k + 1 \in T
            BY <2>5
        <3> HIDE DEF T
        <3> QED
            BY <1>6, <2>4, <3>1, Induct
    <2>7. Rear(p, N) \in r[N][RootIno]
        <3>1. N \in T /\ N - N = 0
            BY <1>6, <2>6
        <3>2. OnWay(c, N - N) = RootIno
            BY <3>1 DEF OnWay
        <3> QED
            BY <2>1, <3>1, <3>2
    <2>8. Rear(p, N) = p
        <3>1. \A m \in 1..N : N - N + m = m
            BY <1>6
        <3>2. p = [m \in 1..N |-> p[m]]
            BY <1>7
        <3> QED
            BY <1>7, <3>1, <3>2 DEF Rear
    <2> QED
        BY <1>10, <2>3, <2>7, <2>8 DEF fh_decomp_raw, p, i
<1> QED
    BY <1>9, <1>10

\* By induction from the object upwards: locate_pfx finds the rest of the path from
\* every directory on the way.
LEMMA InvBruteForceFinds == HandlesInv => BruteForceFinds
<1> SUFFICES ASSUME HandlesInv, opt_brute_force, NEW h \in handles, ~Special(h), h.ino \in Live
             PROVE  fh_decomp(h) # {}
    BY DEF BruteForceFinds
<1> DEFINE i == h.ino
           c == Chain(i)
           N == Cardinality(All)
           L == Len(c)
<1>1. Tree /\ Acyclic /\ Made(h) /\ i \in Live
    BY DEF HandlesInv
<1>2. OnDevice(h, h.chain)
    BY <1>1 DEF Made, RemovableFh, Handle, Special
<1>3. h.dev = DEV /\ export_point_from_fsid(h.dev) = {}
    BY <1>2, OnDeviceShape
<1>4. PICK rank : Ranked(rank)
    BY <1>1 DEF Acyclic
<1>5. PICK r : LocTable(h, r)
    BY <1>1, LocDef
<1>6. /\ N \in Nat
      /\ \A k \in 1..N : \A d \in All : r[k][d] = LocFrom(h, k, d, r[k - 1])
      /\ locate_pfx(h) = r[N][RootIno]
    BY <1>5, AllFinite DEF LocTable
<1> HIDE DEF i
<1>7. Shape(c, i, rank) /\ rank[i] < N
    BY <1>1, <1>4, ChainShape, RankBound
<1> HIDE DEF c, N
<1>8. /\ L = rank[i] /\ OnWay(c, L) = i /\ L \in Nat /\ L < N
      /\ \A k \in 1..L : /\ c[k] \in Live \ {RootIno} /\ rank[c[k]] = k
                         /\ tree[c[k]].up = OnWay(c, k - 1)
    BY <1>7 DEF Shape
<1> HIDE DEF L
<1>9. RootIno \in All /\ IsDir(RootIno)
    BY <1>1, RootLive
<1>10. ASSUME L = 0 PROVE r[N][RootIno] # {}
    <2>1. i = RootIno
        BY <1>8, <1>10 DEF OnWay
    <2>2. "." \in Matches(h, RootIno)
        BY <2>1 DEF Matches, Entries, Entry, i
    <2>3. <<".">> \in LocFrom(h, N, RootIno, r[N - 1])
        BY <1>9, <2>2 DEF LocFrom
    <2>4. N \in 1..N
        BY <1>6, <1>8
    <2> QED
        BY <1>6, <1>9, <2>3, <2>4
<1>11. ASSUME L # 0 PROVE r[N][RootIno] # {}
    <2> DEFINE Hit(k) == \A e \in 0..N : e >= k /\ e > 0 => r[e][OnWay(c, L - k)] # {}
               T == {k \in 0..L : k > 0 => Hit(k)}
    <2>1. 0 \in T
        BY <1>8
    <2>2. ASSUME NEW k \in 0..L, k < L, k \in T PROVE k + 1 \in T
        <3> DEFINE j == c[L - k]
                   d == OnWay(c, L - (k + 1))
                   n == tree[j].name
        <3>1. L - k \in 1..L /\ (L - k) - 1 = L - (k + 1) /\ k + 1 \in 0..L
            BY <1>8, <2>2
        <3>2. j \in Live \ {RootIno} /\ rank[j] = L - k /\ tree[j].up = d
            BY <1>8, <3>1
        <3>3. IsDir(d) /\ n \in Names
            BY <1>1, <3>2 DEF Tree
        <3>4. d \in All /\ n \in Entries(d) /\ n \notin {".", ".."}
            BY <3>2, <3>3, HandlesAssumption DEF IsDir, Live, Entries, Children
        <3>5. Entry(d, n) = j
            BY <1>1, <3>2, EntryOwn
        <3>6. OnWay(c, L - k) = j
            BY <3>1 DEF OnWay
        <3>a. k # 0 => IsDir(j)
            <4> SUFFICES ASSUME k # 0 PROVE IsDir(j)
                OBVIOUS
            <4>1. L - (k - 1) \in 1..L /\ (L - (k - 1)) - 1 = L - k
                BY <1>8, <2>2
            <4>2. c[L - (k - 1)] \in Live \ {RootIno} /\ tree[c[L - (k - 1)]].up = j
                BY <1>8, <3>6, <4>1
            <4> QED
                BY <1>1, <4>2 DEF Tree
        <3> HIDE DEF d, n, j
        <3>7. ASSUME NEW e \in 0..N, e >= k + 1, e > 0 PROVE r[e][d] # {}
            <4>1. e \in 1..N /\ e - 1 \in 0..N /\ e - 1 >= k
                BY <1>6, <3>7
            <4>2. r[e][d] = LocFrom(h, e, d, r[e - 1])
                BY <1>6, <3>4, <4>1
            <4>3. CASE j = i
                <5>1. n \in Matches(h, d)
                    BY <3>4, <3>5, <4>3 DEF Matches, i
                <5>2. <<n>> \in LocFrom(h, e, d, r[e - 1])
                    BY <3>3, <5>1 DEF LocFrom
                <5> QED
                    BY <4>2, <5>2
            <4>4. CASE j # i
                <5>1. k # 0
                    BY <1>8, <3>6, <4>4
                <5>2. e > 1 /\ e - 1 > 0
                    BY <3>7, <5>1
                <5>3. n \in Deeper(h, e, d)
                    BY <3>4, <3>5, <4>4, <3>a, <5>1, <5>2 DEF Deeper, Descends, i
                <5>4. Hit(k)
                    BY <2>2, <5>1
                <5>5. r[e - 1][j] # {}
                    BY <3>6, <4>1, <5>2, <5>4
                <5>6. PICK q : q \in r[e - 1][j]
                    BY <5>5
                <5>7. <<n>> \o q \in Prefixed(n, r[e - 1][Entry(d, n)])
                    BY <3>5, <5>6 DEF Prefixed
                <5>8. <<n>> \o q \in UNION {Prefixed(m, r[e - 1][Entry(d, m)]) : m \in Deeper(h, e, d)}
                    BY <5>3, <5>7
                <5>9. <<n>> \o q \in LocFrom(h, e, d, r[e - 1])
                    BY <3>3, <5>8 DEF LocFrom
                <5> QED
                    BY <4>2, <5>9
            <4> QED
                BY <4>3, <4>4
        <3> QED
            BY <3>1, <3>7 DEF d
    <2>3. 0..L \subseteq T
        <3>1. \A k \in 0..L : k < L /\ k \in T => k + 1 \in T
            BY <2>2
        <3> HIDE DEF T
        <3> QED
            BY <1>8, <2>1, <3>1, Induct
    <2>4. r[N][RootIno] # {}
        <3>1. L \in T /\ L - L = 0 /\ L > 0 /\ N \in 0..N /\ N >= L /\ N > 0
            BY <1>6, <1>8, <1>11, <2>3
        <3>2. OnWay(c, L - L) = RootIno
            BY <3>1 DEF OnWay
        <3>3. Hit(L)
            BY <3>1
        <3> QED
            BY <3>1, <3>2, <3>3
    <2> QED
        BY <2>4
<1>12. locate_pfx(h) # {}
    BY <1>6, <1>10, <1>11
<1> QED
    BY <1>3, <1>12 DEF fh_decomp, locate_file

----------------------------------------------------------------------------
(* Every handle that is given out was made *)

\* A procedure that answers with a made handle keeps all handles made.
LEMMA GiveMade ==
    ASSUME NEW h0, Give(h0), \A h \in handles : Made(h), fh_valid(h0) => Made(h0)
    PROVE  \A h \in handles' : Made(h)
BY DEF Give

\* A valid handle of fh_comp_raw is made.
LEMMA CompMade ==
    ASSUME Tree, NEW S, NEW path \in Seq(S), NEW special, NEW need,
           fh_valid(fh_comp_raw(path, special, need))
    PROVE  Made(fh_comp_raw(path, special, need))
<1> DEFINE N == Len(path)
           i == lstat(path)
           c == Passed(path)
           h == fh_comp_raw(path, special, need)
<1>1. h \in {RemovableFh, invalid_fh, Handle(DEV, i, Hashes(c), c)}
    BY DEF fh_comp_raw, Passed, lstat
<1>2. h = Handle(DEV, i, Hashes(c), c) => h = RemovableFh \/ h = invalid_fh \/ (i # 0 /\ ~(N > FH_MAXLEN))
    BY DEF fh_comp_raw, Passed, lstat
<1>3. h # invalid_fh
    BY DEF fh_valid, invalid_fh, Handle
<1>4. CASE h # RemovableFh
    <2>1. h = Handle(DEV, i, Hashes(c), c) /\ i # 0 /\ ~(N > FH_MAXLEN)
        BY <1>1, <1>2, <1>3, <1>4
    <2>2. /\ i \in Live \cup {0} /\ (path = <<>> => i = RootIno)
          /\ Walk(path) \in [0..N -> Live \cup {0}] /\ N \in Nat
        BY lstatIn, WalkDef
    <2>3. c = [k \in 1..N |-> Walk(path)[k]] /\ \A k \in 1..N : Walk(path)[k] \in All \cup {0}
        BY <2>2 DEF Passed, Live
    <2>4. c \in Seq(All \cup {0}) /\ Len(c) = N
        <3> HIDE DEF c, N
        <3>1. c \in [1..N -> All \cup {0}]
            BY <2>3
        <3> QED
            BY <2>2, <2>3, <3>1
    <2>5. c = <<>> => i = RootIno
        <3>1. c = <<>> => Len(c) = 0
            OBVIOUS
        <3>2. N = 0 => path = <<>>
            OBVIOUS
        <3> QED
            BY <2>2, <2>4, <3>1, <3>2
    <2> HIDE DEF c, i, h, N
    <2>6. h.ino = i /\ h.chain = c
        BY <2>1 DEF Handle
    <2>7. Len(c) <= FH_MAXLEN
        BY <2>1, <2>2, <2>4, HandlesAssumption
    <2>8. i \in All
        BY <2>1, <2>2 DEF Live
    <2>9. OnDevice(h, h.chain)
        BY <2>1, <2>4, <2>5, <2>6, <2>7, <2>8 DEF OnDevice
    <2> QED
        BY <2>9 DEF Made, h
<1> QED
    BY <1>4 DEF Made

\* A valid handle that fh_extend makes from a made one is made.
LEMMA ExtendMade ==
    ASSUME Tree, Acyclic, NEW h, Made(h), NEW dir \in fh_decomp(h), NEW ino \in All,
           fh_valid(fh_extend(h, dir, ino))
    PROVE  Made(fh_extend(h, dir, ino))
<1> DEFINE f == fh_real(h)
           c == IF h.dev = FSID THEN Passed(dir) ELSE h.chain
           e == Append(c, ino)
           x == fh_extend(h, dir, ino)
<1>1. /\ fh_valid(f) /\ ~IsFull(f)
      /\ x = Handle(DEV, ino, Append(f.inos, FH_HASH[ino]), e)
    <2>1. ~fh_valid(invalid_fh)
        BY DEF fh_valid, invalid_fh, Handle
    <2> QED
        BY <2>1 DEF fh_extend
<1>2. c \in Seq(All \cup {0}) /\ f.inos = Hashes(c) /\ Len(c) <= FH_MAXLEN
    <2>1. CASE OnDevice(h, h.chain)
        <3>1. /\ h.dev = DEV /\ h.inos = Hashes(h.chain) /\ h.chain \in Seq(All \cup {0})
              /\ Len(h.inos) = Len(h.chain) /\ Len(h.inos) <= FH_MAXLEN
              /\ export_point_from_fsid(h.dev) = {} /\ ~Special(h)
            BY <2>1, OnDeviceShape
        <3>2. f = h /\ c = h.chain
            BY <3>1 DEF fh_real, Special
        <3> QED
            BY <3>1, <3>2
    <2>2. CASE h = RemovableFh
        <3>1. h.dev = FSID /\ h.inos = <<>> /\ c = Passed(dir)
            BY <2>2 DEF RemovableFh, Handle
        <3>2. dir = IF exported = "none" THEN <<>> ELSE ExportPath
            BY <2>2, DecompSound
        <3>3. CASE exported = "none"
            <4>3. c = <<>>
                BY <3>1, <3>2, <3>3 DEF Passed
            <4>4. f.inos = <<>>
                BY <3>1, <3>3 DEF fh_real, export_point_from_fsid
            <4>5. Hashes(<<>>) = <<>>
                BY DEF Hashes
            <4> HIDE DEF c
            <4>6. Len(<<>>) <= FH_MAXLEN
                BY HandlesAssumption
            <4> QED
                BY <4>3, <4>4, <4>5, <4>6
        <3>4. CASE exported # "none"
            <4>1. f = fh_comp_raw(ExportPath, FALSE, FALSE)
                BY <3>1, <3>4 DEF fh_real, export_point_from_fsid
            <4>2. f # invalid_fh
                BY <1>1 DEF fh_valid, invalid_fh, Handle
            <4>3. /\ f = Handle(DEV, lstat(ExportPath), Hashes(Passed(ExportPath)), Passed(ExportPath))
                  /\ lstat(ExportPath) # 0 /\ ~(Len(ExportPath) > FH_MAXLEN)
                BY <4>1, <4>2 DEF fh_comp_raw, Passed, lstat
            <4>4. ExportPath \in Seq(Names \cup {".", ".."})
                BY HandlesAssumption
            <4>6. c = Passed(ExportPath)
                BY <3>1, <3>2, <3>4
            <4>7. Made(f)
                BY <1>1, <4>1, <4>4, CompMade
            <4>8. OnDevice(f, f.chain)
                <5>1. f.dev = DEV
                    BY <4>3 DEF Handle
                <5>2. f # RemovableFh
                    BY <5>1, HandlesAssumption DEF RemovableFh, Handle
                <5> QED
                    BY <4>7, <5>2 DEF Made
            <4>9. f.chain = c /\ f.inos = Hashes(c)
                BY <4>3, <4>6 DEF Handle
            <4> HIDE DEF c, f
            <4> QED
                BY <4>8, <4>9 DEF OnDevice
        <3> QED
            BY <3>3, <3>4
    <2> QED
        BY <2>1, <2>2 DEF Made
<1>3. /\ f.inos \in Seq(HashSet) /\ Len(f.inos) = Len(c)
      /\ \A k \in 1..Len(c) : f.inos[k] = FH_HASH[c[k]]
    <2> HIDE DEF c, f
    <2> QED
        BY <1>2, HashesShape
<1> HIDE DEF c, f
<1>4. e \in Seq(All \cup {0}) /\ Len(e) = Len(c) + 1 /\ e # <<>> /\ Len(c) \in Nat
    BY <1>2
<1>5. Append(f.inos, FH_HASH[ino]) = Hashes(e)
    <2> DEFINE a == f.inos
               y == FH_HASH[ino]
               N == Len(c)
    <2>1. a \in Seq(HashSet) /\ y \in HashSet /\ Len(a) = N /\ N \in Nat
        BY <1>3, <1>4 DEF HashSet
    <2>2. \A k \in 1..N : a[k] = FH_HASH[e[k]]
        BY <1>2, <1>3
    <2>3. e[N + 1] = ino
        BY <1>2
    <2>4. /\ Hashes(e) \in Seq(HashSet) /\ Len(Hashes(e)) = N + 1
          /\ \A k \in 1..(N + 1) : Hashes(e)[k] = FH_HASH[e[k]]
        <3> HIDE DEF e
        <3> QED
            BY <1>4, HashesShape
    <2> DEFINE g == Hashes(e)
    <2> HIDE DEF a, N, e, g
    <2>5. /\ Append(a, y) \in Seq(HashSet) /\ Len(Append(a, y)) = N + 1
          /\ \A k \in 1..N : Append(a, y)[k] = a[k] /\ Append(a, y)[N + 1] = y
        BY <2>1
    <2> DEFINE b == Append(a, y)
    <2> HIDE DEF b
    <2>6. \A k \in 1..(N + 1) : b[k] = g[k]
        <3>1. \A k \in 1..(N + 1) : k = N + 1 \/ k \in 1..N
            BY <2>1
        <3>2. b[N + 1] = y
            BY <2>1 DEF b
        <3>3. N + 1 \in 1..(N + 1)
            BY <2>1
        <3> QED
            BY <2>2, <2>3, <2>4, <2>5, <3>1, <3>2, <3>3 DEF b, g
    <2>7. b = g
        BY <2>1, <2>4, <2>5, <2>6 DEF b, g
    <2> QED
        BY <2>7 DEF a, b, g
<1>6. Len(e) <= FH_MAXLEN
    <2>1. Len(f.inos) # FH_MAXLEN
        BY <1>1 DEF IsFull
    <2> QED
        BY <1>2, <1>3, <1>4, <2>1, HandlesAssumption
<1> HIDE DEF e, x
<1>7. x = Handle(DEV, ino, Hashes(e), e)
    BY <1>1, <1>5
<1>8. x.ino = ino /\ x.chain = e
    BY <1>7 DEF Handle
<1>9. OnDevice(x, x.chain)
    BY <1>4, <1>6, <1>7, <1>8 DEF OnDevice
<1> QED
    BY <1>9 DEF Made, x

----------------------------------------------------------------------------
(* Every change keeps the tree a tree *)

\* Where an entry is absent, no object has that name there.
LEMMA NoEntry ==
    ASSUME Tree, NEW d, NEW n \in Names, Entry(d, n) = 0, NEW j \in Live \ {RootIno},
           tree[j].up = d, tree[j].name = n
    PROVE  FALSE
<1>1. j = 0
    BY EntryOwn
<1> QED
    BY <1>1, RootLive DEF Live

\* A new object goes below a directory that exists: its distance is one more.
LEMMA MakeTree ==
    ASSUME Tree, Acyclic, NEW i \in Inodes \ Live, NEW d, IsDir(d), NEW n \in Names,
           NEW b \in BOOLEAN, Entry(d, n) = 0,
           tree' = [tree EXCEPT ![i] = [up |-> d, name |-> n, dir |-> b]]
    PROVE  Tree' /\ Acyclic'
<1> DEFINE x == [up |-> d, name |-> n, dir |-> b]
<1>1. i \in All /\ i # RootIno /\ d \in Live /\ d \in All /\ d # 0 /\ d # i
    BY HandlesAssumption, RootLive DEF All, IsDir, Live
<1>2. /\ tree \in [All -> [up : All \cup {0}, name : Names \cup {NoName}, dir : BOOLEAN]]
      /\ tree[RootIno] = [up |-> RootIno, name |-> NoName, dir |-> TRUE]
    BY DEF Tree
<1>3. x \in [up : All \cup {0}, name : Names \cup {NoName}, dir : BOOLEAN] /\ x.up = d /\ x.name = n
    BY <1>1
<1>4. x # Absent
    <2>1. Absent.up = 0
        BY DEF Absent
    <2> QED
        BY <1>1, <1>3, <2>1
<1> HIDE DEF x
<1>5. /\ tree' \in [All -> [up : All \cup {0}, name : Names \cup {NoName}, dir : BOOLEAN]]
      /\ tree'[i] = x
      /\ \A j \in All : j # i => tree'[j] = tree[j]
    BY <1>1, <1>2, <1>3 DEF x
<1>6. Live' = Live \cup {i}
    BY <1>1, <1>4, <1>5 DEF Live
<1>7. \A j \in Live : IsDir(j) => j \in Live' /\ tree'[j].dir
    BY <1>5, <1>6 DEF IsDir, Live
<1>8. \A j \in Live \ {RootIno} : /\ j # i /\ j \in All /\ tree'[j] = tree[j]
                                  /\ IsDir(tree[j].up) /\ tree[j].name \in Names
                                  /\ tree[j].up \in Live
    BY <1>5 DEF Tree, Live, IsDir
<1>9. \A j \in Live' \ {RootIno} : /\ tree'[j].up \in Live' /\ tree'[tree'[j].up].dir
                                   /\ tree'[j].name \in Names
    BY <1>1, <1>3, <1>5, <1>6, <1>7, <1>8
<1>10. ASSUME NEW j \in Live' \ {RootIno}, NEW k \in Live' \ {RootIno},
              tree'[j].up = tree'[k].up, tree'[j].name = tree'[k].name
       PROVE  j = k
    <2>1. CASE j = i /\ k # i
        <3>1. k \in Live \ {RootIno} /\ tree[k].up = d /\ tree[k].name = n
            BY <1>3, <1>5, <1>6, <1>8, <1>10, <2>1
        <3> QED
            BY <3>1, NoEntry
    <2>2. CASE k = i /\ j # i
        <3>1. j \in Live \ {RootIno} /\ tree[j].up = d /\ tree[j].name = n
            BY <1>3, <1>5, <1>6, <1>8, <1>10, <2>2
        <3> QED
            BY <3>1, NoEntry
    <2>3. CASE j # i /\ k # i
        BY <1>6, <1>8, <1>10, <2>3 DEF Tree
    <2> QED
        BY <2>1, <2>2, <2>3
<1>11. Tree'
    BY <1>1, <1>2, <1>5, <1>9, <1>10, RootLive DEF Tree, IsDir
<1>12. Acyclic'
    <2>1. PICK rank : Ranked(rank)
        BY DEF Acyclic
    <2> DEFINE new == [rank EXCEPT ![i] = rank[d] + 1]
    <2>2. /\ rank \in [All -> Nat] /\ rank[RootIno] = 0
          /\ \A j \in Live \ {RootIno} : rank[j] = rank[tree[j].up] + 1
        BY <2>1 DEF Ranked
    <2>3. new \in [All -> Nat] /\ new[i] = rank[d] + 1 /\ \A j \in All : j # i => new[j] = rank[j]
        BY <1>1, <2>2
    <2> HIDE DEF new
    <2>4. new[RootIno] = 0
        BY <1>1, <2>2, <2>3, RootLive
    <2>5. ASSUME NEW j \in Live' \ {RootIno} PROVE new[j] = new[tree'[j].up] + 1
        <3>1. CASE j = i
            BY <1>1, <1>3, <1>5, <2>3, <3>1
        <3>2. CASE j # i
            <4>1. j \in Live \ {RootIno} /\ tree'[j].up = tree[j].up /\ tree[j].up \in Live
                BY <1>6, <1>8, <3>2
            <4>2. j \in All /\ tree[j].up # i /\ tree[j].up \in All
                BY <4>1 DEF Live
            <4> QED
                BY <2>2, <2>3, <3>2, <4>1, <4>2
        <3> QED
            BY <3>1, <3>2
    <2>6. Ranked(new)'
        BY <2>3, <2>4, <2>5 DEF Ranked
    <2> QED
        BY <2>6 DEF Acyclic
<1> QED
    BY <1>11, <1>12

\* Only objects without entries are removed.
LEMMA UnlinkTree ==
    ASSUME Tree, Acyclic, NEW i \in Live \ {RootIno}, Children(i) = {},
           tree' = [tree EXCEPT ![i] = Absent]
    PROVE  Tree' /\ Acyclic'
<1>1. i \in All /\ i # RootIno
    BY DEF Live
<1>2. /\ tree \in [All -> [up : All \cup {0}, name : Names \cup {NoName}, dir : BOOLEAN]]
      /\ tree[RootIno] = [up |-> RootIno, name |-> NoName, dir |-> TRUE]
    BY DEF Tree
<1>3. Absent \in [up : All \cup {0}, name : Names \cup {NoName}, dir : BOOLEAN]
    BY DEF Absent
<1>4. /\ tree' \in [All -> [up : All \cup {0}, name : Names \cup {NoName}, dir : BOOLEAN]]
      /\ tree'[i] = Absent
      /\ \A j \in All : j # i => tree'[j] = tree[j]
    BY <1>1, <1>2, <1>3
<1>5. Live' = Live \ {i}
    BY <1>1, <1>4 DEF Live
<1>6. \A j \in Live \ {RootIno} : /\ tree[j].up # i /\ tree[j].up \in Live /\ tree[tree[j].up].dir
                                  /\ tree[j].name \in Names
    BY DEF Tree, IsDir, Children
<1>7. \A j \in Live' \ {RootIno} : j \in Live \ {RootIno} /\ j \in All /\ tree'[j] = tree[j]
    BY <1>4, <1>5 DEF Live
<1>8. \A j \in Live' \ {RootIno} : /\ tree'[j].up \in Live' /\ tree'[tree'[j].up].dir
                                   /\ tree'[j].name \in Names
    BY <1>4, <1>5, <1>6, <1>7 DEF Live
<1>9. \A j, k \in Live' \ {RootIno} :
        tree'[j].up = tree'[k].up /\ tree'[j].name = tree'[k].name => j = k
    BY <1>7 DEF Tree
<1>10. Tree'
    BY <1>1, <1>2, <1>4, <1>8, <1>9, RootLive DEF Tree, IsDir
<1>11. Acyclic'
    <2>1. PICK rank : Ranked(rank)
        BY DEF Acyclic
    <2>2. Ranked(rank)'
        BY <1>7, <2>1 DEF Ranked
    <2> QED
        BY <2>2 DEF Acyclic
<1> QED
    BY <1>10, <1>11

\* The objects at and below i: i itself, and what lies in one of them.
LEMMA BelowShape ==
    ASSUME Tree, NEW rank, Ranked(rank), NEW i \in Live \ {RootIno}
    PROVE  /\ i \in Below(i) /\ RootIno \notin Below(i)
           /\ \A j \in Below(i) : j \in Live /\ rank[j] >= rank[i]
           /\ \A j \in Live \ {RootIno} : j # i => (j \in Below(i) <=> tree[j].up \in Below(i))
<1>1. Acyclic
    BY DEF Acyclic
<1>2. ASSUME NEW j \in Live
      PROVE  /\ Chain(j) \in Seq(All) /\ Len(Chain(j)) = rank[j] /\ rank[j] \in Nat
             /\ j \in Below(i) <=> \E k \in 1..Len(Chain(j)) : Chain(j)[k] = i
             /\ \A k \in 1..Len(Chain(j)) : rank[Chain(j)[k]] = k
             /\ OnWay(Chain(j), Len(Chain(j))) = j
    <2>1. Shape(Chain(j), j, rank)
        BY ChainShape
    <2>2. DOMAIN Chain(j) = 1..Len(Chain(j)) /\ Chain(j) \in Seq(All)
        BY <2>1 DEF Shape
    <2> QED
        BY <2>1, <2>2 DEF Shape, Below, Ranked, Live
<1>3. RootIno \notin Below(i)
    <2>1. Chain(RootIno) = <<>> /\ RootIno \in Live
        BY <1>1, ChainStep, RootLive
    <2> QED
        BY <2>1 DEF Below
<1>4. i \in Below(i)
    <2>1. Len(Chain(i)) # 0
        BY <1>2 DEF OnWay
    <2>2. Chain(i)[Len(Chain(i))] = i /\ Len(Chain(i)) \in 1..Len(Chain(i))
        BY <1>2, <2>1 DEF OnWay
    <2> QED
        BY <1>2, <2>2
<1>5. ASSUME NEW j \in Below(i) PROVE j \in Live /\ rank[j] >= rank[i]
    <2>1. j \in Live
        BY DEF Below
    <2>2. PICK k \in 1..Len(Chain(j)) : Chain(j)[k] = i
        BY <1>2, <2>1
    <2>3. rank[i] = k /\ Len(Chain(j)) = rank[j]
        BY <1>2, <2>1, <2>2
    <2> QED
        BY <2>1, <2>2, <2>3, <1>2
<1>6. ASSUME NEW j \in Live \ {RootIno}, j # i PROVE j \in Below(i) <=> tree[j].up \in Below(i)
    <2> DEFINE u == tree[j].up
               c == Chain(u)
               e == Append(c, j)
    <2>1. u \in Live /\ Chain(j) = e
        BY <1>1, ChainStep DEF Tree, IsDir
    <2>2. c \in Seq(All) /\ (u \in Below(i) <=> \E k \in 1..Len(c) : c[k] = i)
        BY <1>2, <2>1
    <2>3. j \in Below(i) <=> \E k \in 1..Len(e) : e[k] = i
        BY <1>2, <2>1
    <2> HIDE DEF c, u
    <2>4. Len(e) = Len(c) + 1 /\ e[Len(c) + 1] = j /\ Len(c) \in Nat /\ \A k \in 1..Len(c) : e[k] = c[k]
        BY <2>2
    <2>5. (\E k \in 1..Len(e) : e[k] = i) <=> \E k \in 1..Len(c) : c[k] = i
        <3> DEFINE M == Len(c)
        <3> HIDE DEF e, M
        <3>1. ASSUME NEW k \in 1..(M + 1), e[k] = i PROVE k \in 1..M /\ c[k] = i
            <4>1. k # M + 1
                BY <1>6, <2>4, <3>1 DEF M
            <4>2. k \in 1..M
                BY <2>4, <4>1 DEF M
            <4> QED
                BY <2>4, <3>1, <4>2 DEF M
        <3>2. ASSUME NEW k \in 1..M, c[k] = i PROVE k \in 1..(M + 1) /\ e[k] = i
            BY <2>4, <3>2 DEF M
        <3>3. Len(e) = M + 1
            BY <2>4 DEF M
        <3> QED
            BY <3>1, <3>2, <3>3 DEF M
    <2> QED
        BY <2>2, <2>3, <2>5 DEF u
<1> QED
    BY <1>3, <1>4, <1>5, <1>6

\* A directory is not renamed into itself or below itself, so distances can be given
\* anew to all that lies below it.
LEMMA RenameTree ==
    ASSUME Tree, Acyclic, NEW i \in Live \ {RootIno}, NEW d, IsDir(d), d \notin Below(i),
           NEW n \in Names, Entry(d, n) = 0,
           tree' = [tree EXCEPT ![i].up = d, ![i].name = n]
    PROVE  Tree' /\ Acyclic'
<1> DEFINE x == [up |-> d, name |-> n, dir |-> tree[i].dir]
<1>1. i \in All /\ i # RootIno /\ d \in Live /\ d \in All /\ d # 0
    BY RootLive DEF IsDir, Live
<1>2. /\ tree \in [All -> [up : All \cup {0}, name : Names \cup {NoName}, dir : BOOLEAN]]
      /\ tree[RootIno] = [up |-> RootIno, name |-> NoName, dir |-> TRUE]
    BY DEF Tree
<1>3. /\ x \in [up : All \cup {0}, name : Names \cup {NoName}, dir : BOOLEAN]
      /\ x.up = d /\ x.name = n /\ x.dir = tree[i].dir
    BY <1>1, <1>2
<1>4. x # Absent
    <2>1. Absent.up = 0
        BY DEF Absent
    <2> QED
        BY <1>1, <1>3, <2>1
<1>5. /\ tree' \in [All -> [up : All \cup {0}, name : Names \cup {NoName}, dir : BOOLEAN]]
      /\ tree'[i] = x
      /\ \A j \in All : j # i => tree'[j] = tree[j]
    <2>1. tree[i] \in [up : All \cup {0}, name : Names \cup {NoName}, dir : BOOLEAN]
        BY <1>1, <1>2
    <2>2. tree'[i] = x
        BY <1>1, <1>2, <2>1
    <2>3. \A j \in All : j # i => tree'[j] = tree[j]
        BY <1>1, <1>2
    <2>4. tree' = [j \in All |-> tree'[j]]
        BY <1>1, <1>2
    <2> HIDE DEF x
    <2>5. \A j \in All : tree'[j] \in [up : All \cup {0}, name : Names \cup {NoName}, dir : BOOLEAN]
        BY <1>1, <1>2, <1>3, <2>2, <2>3
    <2> QED
        BY <2>2, <2>3, <2>4, <2>5
<1> HIDE DEF x
<1>6. Live' = Live
    BY <1>1, <1>4, <1>5 DEF Live
<1>7. \A j \in Live : j \in All /\ tree'[j].dir = tree[j].dir
    BY <1>3, <1>5 DEF Live
<1>8. \A j \in Live \ {RootIno} : /\ tree[j].up \in Live /\ tree[tree[j].up].dir
                                  /\ tree[j].name \in Names
                                  /\ j # i => tree'[j] = tree[j]
    BY <1>5 DEF Tree, Live, IsDir
<1>9. d \in Live /\ tree[d].dir
    BY DEF IsDir
<1>10. ASSUME NEW j \in Live' \ {RootIno}
       PROVE  /\ tree'[j].up \in Live' /\ tree'[tree'[j].up].dir
              /\ tree'[j].name \in Names
    <2>1. CASE j = i
        BY <1>3, <1>5, <1>6, <1>7, <1>9, <2>1
    <2>2. CASE j # i
        <3> DEFINE u == tree[j].up
        <3>1. tree'[j] = tree[j] /\ u \in Live /\ tree[u].dir /\ tree[j].name \in Names
            BY <1>6, <1>8, <2>2
        <3>2. tree'[j].up = u
            BY <3>1
        <3> HIDE DEF u
        <3>3. tree'[u].dir
            BY <1>7, <3>1
        <3> QED
            BY <1>6, <3>1, <3>2, <3>3
    <2> QED
        BY <2>1, <2>2
<1>11. ASSUME NEW j \in Live' \ {RootIno}, NEW k \in Live' \ {RootIno},
              tree'[j].up = tree'[k].up, tree'[j].name = tree'[k].name
       PROVE  j = k
    <2>1. CASE j = i /\ k # i
        <3>1. k \in Live \ {RootIno} /\ tree[k].up = d /\ tree[k].name = n
            BY <1>3, <1>5, <1>6, <1>8, <1>11, <2>1
        <3> QED
            BY <3>1, NoEntry
    <2>2. CASE k = i /\ j # i
        <3>1. j \in Live \ {RootIno} /\ tree[j].up = d /\ tree[j].name = n
            BY <1>3, <1>5, <1>6, <1>8, <1>11, <2>2
        <3> QED
            BY <3>1, NoEntry
    <2>3. CASE j # i /\ k # i
        BY <1>6, <1>8, <1>11, <2>3 DEF Tree
    <2> QED
        BY <2>1, <2>2, <2>3
<1>12. Tree'
    BY <1>1, <1>2, <1>5, <1>10, <1>11, RootLive DEF Tree, IsDir
<1>13. Acyclic'
    <2>1. PICK rank : Ranked(rank)
        BY DEF Acyclic
    <2> DEFINE B == Below(i)
               new == [j \in All |-> IF j \in B THEN (rank[j] - rank[i]) + (rank[d] + 1) ELSE rank[j]]
    <2>2. /\ i \in B /\ RootIno \notin B
          /\ \A j \in B : j \in Live /\ rank[j] >= rank[i]
          /\ \A j \in Live \ {RootIno} : j # i => (j \in B <=> tree[j].up \in B)
        BY <2>1, BelowShape
    <2>3. d \notin B
        OBVIOUS
    <2> HIDE DEF B
    <2>4. /\ rank \in [All -> Nat] /\ rank[RootIno] = 0
          /\ \A j \in Live \ {RootIno} : rank[j] = rank[tree[j].up] + 1
        BY <2>1 DEF Ranked
    <2>5. \A j \in All : /\ rank[j] \in Nat
                         /\ j \in B => new[j] = (rank[j] - rank[i]) + (rank[d] + 1)
                         /\ j \notin B => new[j] = rank[j]
        BY <2>4
    <2>6. new \in [All -> Nat]
        <3>1. \A j \in All : (IF j \in B THEN (rank[j] - rank[i]) + (rank[d] + 1) ELSE rank[j]) \in Nat
            BY <1>1, <2>2, <2>4
        <3> QED
            BY <3>1
    <2> HIDE DEF new
    <2>7. new[RootIno] = 0
        BY <2>2, <2>4, <2>5, RootLive
    <2>8. ASSUME NEW j \in Live \ {RootIno} PROVE new[j] = new[tree'[j].up] + 1
        <3>1. CASE j = i
            <4>1. tree'[j].up = d /\ new[d] = rank[d] /\ rank[d] \in Nat /\ rank[i] \in Nat
                BY <1>1, <1>3, <1>5, <2>3, <2>5, <3>1
            <4>2. new[j] = (rank[i] - rank[i]) + (rank[d] + 1)
                BY <1>1, <2>2, <2>5, <3>1
            <4> QED
                BY <4>1, <4>2
        <3>2. CASE j # i
            <4> DEFINE u == tree[j].up
            <4>1. tree'[j].up = u /\ u \in Live /\ u \in All /\ j \in All
                BY <1>8, <3>2 DEF Live
            <4>2. rank[j] = rank[u] + 1 /\ (j \in B <=> u \in B)
                BY <2>2, <2>4, <3>2
            <4> HIDE DEF u
            <4>3. rank[u] \in Nat /\ rank[i] \in Nat /\ rank[d] \in Nat
                BY <1>1, <2>5, <4>1
            <4>4. CASE j \in B
                <5>1. /\ new[j] = (rank[j] - rank[i]) + (rank[d] + 1)
                      /\ new[u] = (rank[u] - rank[i]) + (rank[d] + 1)
                    BY <2>5, <4>1, <4>2, <4>4
                <5> QED
                    BY <4>1, <4>2, <4>3, <5>1
            <4>5. CASE j \notin B
                <5>1. new[j] = rank[j] /\ new[u] = rank[u]
                    BY <2>5, <4>1, <4>2, <4>5
                <5> QED
                    BY <4>1, <4>2, <5>1
            <4> QED
                BY <4>4, <4>5
        <3> QED
            BY <3>1, <3>2
    <2>9. PICK r : r = new
        OBVIOUS
    <2>10. Ranked(r)'
        BY <1>6, <2>6, <2>7, <2>8, <2>9 DEF Ranked
    <2> QED
        BY <2>10 DEF Acyclic
<1> QED
    BY <1>12, <1>13

----------------------------------------------------------------------------
(* The specification *)

\* A step that leaves the tree alone keeps it a tree.
LEMMA TreeSame ==
    ASSUME Tree, Acyclic, UNCHANGED tree
    PROVE  Tree' /\ Acyclic'
<1>1. Live' = Live
    BY DEF Live
<1>2. Tree'
    BY <1>1 DEF Tree, IsDir
<1>3. PICK rank : Ranked(rank)
    BY DEF Acyclic
<1>4. Ranked(rank)'
    BY <1>1, <1>3 DEF Ranked
<1> QED
    BY <1>2, <1>4 DEF Acyclic

\* getRealPathNFS puts in a name.
LEMMA RealPath ==
    ASSUME NEW path \in Seq(Any), NEW real \in getRealPathNFS(path)
    PROVE  real \in Seq(Any)
<1>1. CASE real = path
    BY <1>1
<1>2. ASSUME NEW k \in 1..Len(path), NEW u \in Uids,
             real = SubSeq(path, 1, k) \o <<u>> \o SubSeq(path, k + 1, Len(path))
      PROVE  real \in Seq(Any)
    <2>1. u \in Any
        BY HandlesAssumption DEF Any
    <2>2. SubSeq(path, 1, k) \in Seq(Any) /\ <<u>> \in Seq(Any)
        BY <2>1
    <2>3. SubSeq(path, k + 1, Len(path)) \in Seq(Any)
        BY DEF Any
    <2> QED
        BY <1>2, <2>2, <2>3
<1>3. CASE real # path
    <2> DEFINE U == IF private THEN Uids ELSE {}
               Put(u) == {SubSeq(path, 1, k) \o <<u>> \o SubSeq(path, k + 1, Len(path)) :
                             k \in 1..Len(path)}
    <2>1. real \in UNION {Put(u) : u \in U}
        BY <1>3 DEF getRealPathNFS
    <2>2. PICK u \in Uids : real \in Put(u)
        <3> HIDE DEF Put
        <3> QED
            BY <2>1
    <2>3. \E k \in 1..Len(path) :
            real = SubSeq(path, 1, k) \o <<u>> \o SubSeq(path, k + 1, Len(path))
        BY <2>2
    <2> QED
        BY <1>2, <2>3
<1> QED
    BY <1>1, <1>3

\* Initially there is only the root.
LEMMA InitInv == Init => HandlesInv
<1> SUFFICES ASSUME Init PROVE HandlesInv
    OBVIOUS
<1> DEFINE root == [up |-> RootIno, name |-> NoName, dir |-> TRUE]
<1>1. RootIno \in All /\ RootIno # 0
    BY HandlesAssumption DEF All
<1>2. /\ root \in [up : All \cup {0}, name : Names \cup {NoName}, dir : BOOLEAN]
      /\ Absent \in [up : All \cup {0}, name : Names \cup {NoName}, dir : BOOLEAN]
    BY <1>1 DEF Absent
<1>3. tree = [i \in All |-> IF i = RootIno THEN root ELSE Absent] /\ handles = {}
    BY DEF Init
<1>4. tree[RootIno] = root
    BY <1>1, <1>3
<1>5. Live \subseteq {RootIno}
    BY <1>3 DEF Live
<1> HIDE DEF root
<1>6. tree \in [All -> [up : All \cup {0}, name : Names \cup {NoName}, dir : BOOLEAN]]
    BY <1>2, <1>3
<1>7. Tree
    BY <1>4, <1>5, <1>6 DEF Tree, root
<1>8. Acyclic
    <2> DEFINE rank == [i \in All |-> 0]
    <2>1. Ranked(rank)
        BY <1>1, <1>5 DEF Ranked
    <2> HIDE DEF rank
    <2> QED
        BY <2>1 DEF Acyclic
<1> QED
    BY <1>3, <1>7, <1>8 DEF HandlesInv

\* One case for each action of Next.
LEMMA NextInv == HandlesInv /\ [Next]_vars => HandlesInv'
<1> SUFFICES ASSUME HandlesInv, [Next]_vars PROVE HandlesInv'
    OBVIOUS
<1>1. Tree /\ Acyclic /\ \A h \in handles : Made(h)
    BY DEF HandlesInv
<1>2. ASSUME NEW i \in All, Mnt(i) PROVE HandlesInv'
    <2>1. IsDir(i) /\ Give(fh_comp_raw(Path(i), TRUE, TRUE)) /\ UNCHANGED tree
        BY <1>2 DEF Mnt
    <2>2. Path(i) \in Seq(Names)
        BY <1>1, <2>1, PathWalk DEF IsDir
    <2> DEFINE x == fh_comp_raw(Path(i), TRUE, TRUE)
    <2>3. fh_valid(x) => Made(x)
        BY <1>1, <2>2, CompMade
    <2> HIDE DEF x
    <2>4. \A h \in handles' : Made(h)
        BY <1>1, <2>1, <2>3, GiveMade DEF x
    <2> QED
        BY <1>1, <2>1, <2>4, TreeSame DEF HandlesInv
<1>3. ASSUME LOOKUP PROVE HandlesInv'
    <2>1. PICK h \in handles : \E n \in Names \cup {".", ".."} : Lookup(h, n)
        BY <1>3 DEF LOOKUP
    <2>2. PICK n \in Names \cup {".", ".."} : Lookup(h, n)
        BY <2>1
    <2>0. PICK path \in fh_decomp(h) : \E real \in getRealPathNFS(path) :
            CASE n = "." -> Give(fh_comp_raw(real, TRUE, FALSE))
              [] n = ".." -> Give(fh_comp_raw(Dirname(real), TRUE, FALSE))
              [] OTHER -> /\ lstat(Append(real, n)) # 0
                          /\ Give(fh_extend(h, path, lstat(Append(real, n))))
        BY <2>2 DEF Lookup
    <2>3. PICK real \in getRealPathNFS(path) :
            CASE n = "." -> Give(fh_comp_raw(real, TRUE, FALSE))
              [] n = ".." -> Give(fh_comp_raw(Dirname(real), TRUE, FALSE))
              [] OTHER -> /\ lstat(Append(real, n)) # 0
                          /\ Give(fh_extend(h, path, lstat(Append(real, n))))
        BY <2>0
    <2>4. real \in Seq(Any) /\ n \in Any
        <3>1. path \in Seq(Any)
            BY <1>1, <2>0, DecompSound DEF Paths, Any
        <3> QED
            BY <2>3, <3>1, RealPath DEF Any
    <2>5. Dirname(real) \in Seq(Any)
        BY <2>4 DEF Dirname
    <2>6. ASSUME n = "." PROVE \A k \in handles' : Made(k)
        <3> DEFINE x == fh_comp_raw(real, TRUE, FALSE)
        <3>1. Give(x)
            BY <2>3, <2>6
        <3>2. fh_valid(x) => Made(x)
            BY <1>1, <2>4, CompMade
        <3> HIDE DEF x
        <3> QED
            BY <1>1, <3>1, <3>2, GiveMade
    <2>7. ASSUME n = ".." PROVE \A k \in handles' : Made(k)
        <3> DEFINE q == Dirname(real)
                   x == fh_comp_raw(q, TRUE, FALSE)
        <3>1. Give(x)
            BY <2>3, <2>7
        <3>2. q \in Seq(Any)
            BY <2>5
        <3> HIDE DEF q
        <3>3. fh_valid(x) => Made(x)
            BY <1>1, <3>2, CompMade
        <3> HIDE DEF x
        <3> QED
            BY <1>1, <3>1, <3>3, GiveMade
    <2>8. ASSUME n \notin {".", ".."} PROVE \A k \in handles' : Made(k)
        <3> DEFINE ino == lstat(Append(real, n))
                   x == fh_extend(h, path, ino)
        <3>1. ino # 0 /\ Give(x)
            BY <2>3, <2>8
        <3>2. Append(real, n) \in Seq(Any)
            BY <2>4
        <3>3. ino \in All
            BY <1>1, <3>1, <3>2, lstatIn DEF Live
        <3> HIDE DEF ino
        <3>4. fh_valid(x) => Made(x)
            BY <1>1, <2>0, <2>1, <3>3, ExtendMade
        <3> HIDE DEF x
        <3> QED
            BY <1>1, <3>1, <3>4, GiveMade
    <2>9. \A k \in handles' : Made(k)
        BY <2>6, <2>7, <2>8
    <2>10. UNCHANGED tree
        BY <1>3 DEF LOOKUP
    <2> QED
        BY <1>1, <2>9, <2>10, TreeSame DEF HandlesInv
<1>4. ASSUME CREATE PROVE HandlesInv'
    <2>1. PICK h \in handles, n \in Names, i \in Inodes \ Live, dir \in BOOLEAN :
            \E path \in fh_decomp(h) : \E real \in getRealPathNFS(path) :
                /\ IsDir(lstat(real)) /\ Entry(lstat(real), n) = 0
                /\ tree' = [tree EXCEPT ![i] = [up |-> lstat(real), name |-> n, dir |-> dir]]
                /\ Give(fh_extend(h, path, i))
        BY <1>4 DEF CREATE
    <2>0. PICK path \in fh_decomp(h) : \E real \in getRealPathNFS(path) :
                /\ IsDir(lstat(real)) /\ Entry(lstat(real), n) = 0
                /\ tree' = [tree EXCEPT ![i] = [up |-> lstat(real), name |-> n, dir |-> dir]]
                /\ Give(fh_extend(h, path, i))
        BY <2>1
    <2>2. PICK real \in getRealPathNFS(path) :
                /\ IsDir(lstat(real)) /\ Entry(lstat(real), n) = 0
                /\ tree' = [tree EXCEPT ![i] = [up |-> lstat(real), name |-> n, dir |-> dir]]
                /\ Give(fh_extend(h, path, i))
        BY <2>0
    <2>3. PICK d : d = lstat(real)
        OBVIOUS
    <2>4. Tree' /\ Acyclic'
        <3>1. /\ IsDir(d) /\ Entry(d, n) = 0
              /\ tree' = [tree EXCEPT ![i] = [up |-> d, name |-> n, dir |-> dir]]
            BY <2>2, <2>3
        <3> QED
            BY <1>1, <3>1, MakeTree
    <2> DEFINE x == fh_extend(h, path, i)
    <2>5. fh_valid(x) => Made(x)
        <3>1. i \in All
            BY DEF All
        <3> QED
            BY <1>1, <2>0, <2>1, <3>1, ExtendMade
    <2>6. Give(x)
        BY <2>2
    <2> HIDE DEF x
    <2>7. \A k \in handles' : Made(k)
        BY <1>1, <2>5, <2>6, GiveMade
    <2> QED
        BY <2>4, <2>7 DEF HandlesInv
<1>5. ASSUME Make PROVE HandlesInv'
    <2>1. PICK i \in Inodes \ Live, d \in Live, n \in Names, dir \in BOOLEAN :
            /\ IsDir(d) /\ Entry(d, n) = 0
            /\ tree' = [tree EXCEPT ![i] = [up |-> d, name |-> n, dir |-> dir]]
        BY <1>5 DEF Make
    <2>2. Tree' /\ Acyclic'
        BY <1>1, <2>1, MakeTree
    <2> QED
        BY <1>1, <1>5, <2>2 DEF Make, HandlesInv
<1>6. ASSUME Unlink PROVE HandlesInv'
    <2>1. PICK i \in Live \ {RootIno} : Children(i) = {} /\ tree' = [tree EXCEPT ![i] = Absent]
        BY <1>6 DEF Unlink
    <2>2. Tree' /\ Acyclic'
        BY <1>1, <2>1, UnlinkTree
    <2> QED
        BY <1>1, <1>6, <2>2 DEF Unlink, HandlesInv
<1>7. ASSUME Rename PROVE HandlesInv'
    <2>1. PICK i \in Live \ {RootIno}, d \in Live, n \in Names :
            /\ IsDir(d) /\ d \notin Below(i) /\ Entry(d, n) = 0
            /\ tree' = [tree EXCEPT ![i].up = d, ![i].name = n]
        BY <1>7 DEF Rename
    <2>2. Tree' /\ Acyclic'
        BY <1>1, <2>1, RenameTree
    <2> QED
        BY <1>1, <1>7, <2>2 DEF Rename, HandlesInv
<1>8. ASSUME UNCHANGED <<tree, handles>> PROVE HandlesInv'
    BY <1>1, <1>8, TreeSame DEF HandlesInv
<1>9. ASSUME Reexport PROVE HandlesInv'
    BY <1>8, <1>9 DEF Reexport
<1>10. ASSUME UNCHANGED vars PROVE HandlesInv'
    BY <1>8, <1>10 DEF vars
<1> QED
    BY <1>2, <1>3, <1>4, <1>5, <1>6, <1>7, <1>9, <1>10 DEF Next

\* The invariant gives the types of all variables.
LEMMA InvTypeOK == HandlesInv => TypeOK
<1> SUFFICES ASSUME HandlesInv PROVE TypeOK
    OBVIOUS
<1>1. tree \in [All -> [up : All \cup {0}, name : Names \cup {NoName}, dir : BOOLEAN]]
    BY DEF HandlesInv, Tree
<1>2. ASSUME NEW h \in handles
      PROVE  h.dev \in {DEV, FSID} /\ h.ino \in All \cup {1} /\ Len(h.inos) <= FH_MAXLEN
    <2>1. CASE h = RemovableFh
        BY <2>1, HandlesAssumption DEF RemovableFh, Handle
    <2>2. CASE OnDevice(h, h.chain)
        BY <2>2, OnDeviceShape
    <2> QED
        BY <2>1, <2>2 DEF HandlesInv, Made
<1> QED
    BY <1>1, <1>2 DEF TypeOK

\* For any set of inodes and names, any hash and any length of handles, the tree
\* remains a tree and every handle the server has given out was made by fh_comp_raw
\* or fh_extend (fh.c), through all requests, removals and renames.
THEOREM InvHolds == Spec => []HandlesInv
BY InitInv, NextInv, PTL DEF Spec

\* The handles clients hold and the tree are of their types: an object has a name and
\* a parent, a handle at most FH_MAXLEN hashes.
THEOREM TypeCorrect == Spec => []TypeOK
BY InvHolds, InvTypeOK, PTL

\* fh_decomp_raw finds, by hashes alone, every object that is where its handle was
\* made, in a tree of any depth and however FH_HASH makes inodes collide: the
\* backtracking of fh_rec never loses the object behind a collision.
THEOREM HandleResolvable == Spec => []Resolvable
BY InvHolds, InvResolvable, PTL

\* A handle fh_extend made one component at a time, as LOOKUP, CREATE and MKDIR do,
\* equals the one fh_comp_raw makes from the whole path, for every object in place.
THEOREM HandleMadeAlike == Spec => []MadeAlike
BY InvHolds, InvMadeAlike, PTL

\* fh_decomp, with its guided and its brute-force search, never returns the path of
\* another object than the one with the inode of the handle, and for a removable
\* export point in force nothing but the export path.
THEOREM HandleNeverAnother == Spec => []NeverAnother
BY InvHolds, InvNeverAnother, PTL

\* With the option -b, locate_file finds every object that still exists, wherever
\* in the tree it was moved.
THEOREM HandleBruteForceFinds == Spec => []BruteForceFinds
BY InvHolds, InvBruteForceFinds, PTL

\* A handle fh_comp_raw makes from a path of names (the paths of exports are such, but
\* for those of removable media, which realpath is not asked about) is in place when it
\* is made: what the theorems say of handles in place holds from then on until the
\* object or a directory above it is renamed or removed.
THEOREM HandleInPlace ==
    ASSUME HandlesInv, NEW path \in Seq(Names), NEW need_dir,
           fh_valid(fh_comp_raw(path, FALSE, need_dir))
    PROVE  InPlace(fh_comp_raw(path, FALSE, need_dir))
<1> DEFINE h == fh_comp_raw(path, FALSE, need_dir)
           i == lstat(path)
<1>1. h # invalid_fh
    <2>1. ~fh_valid(invalid_fh)
        BY DEF fh_valid, invalid_fh, Handle
    <2> QED
        BY <2>1
<1>2. h = Handle(DEV, i, Hashes(Passed(path)), Passed(path)) /\ i # 0
    BY <1>1 DEF fh_comp_raw
<1> HIDE DEF h, i
<1>3. h.dev = DEV /\ h.ino = i /\ h.chain = Passed(path)
    BY <1>2 DEF Handle
<1>4. i \in Live
    <2>1. lstat(path) \in Live \cup {0}
        BY lstatIn, Zenon DEF HandlesInv
    <2> QED
        BY <1>2, <2>1 DEF i
<1>5. Chain(i) = Passed(path)
    BY <1>2, WalkChain DEF HandlesInv, i
<1> QED
    BY <1>3, <1>4, <1>5, HandlesAssumption DEF InPlace, Special, h

\* Where LOOKUP looks into the directory of the handle itself (a public export, or a
\* path that has the caller's directory in it), extending a handle in place by the
\* entry found gives a handle in place: component by component the hashes remain
\* those of the way to the object.
THEOREM ExtensionInPlace ==
    ASSUME HandlesInv, NEW h \in handles, InPlace(h), NEW path \in fh_decomp(h),
           NEW n \in Names, lstat(Append(path, n)) # 0,
           fh_valid(fh_extend(h, path, lstat(Append(path, n))))
    PROVE  InPlace(fh_extend(h, path, lstat(Append(path, n))))
<1> DEFINE i == lstat(Append(path, n))
           x == fh_extend(h, path, i)
<1>1. Tree /\ Acyclic /\ Made(h)
    BY DEF HandlesInv
<1>2. h.dev # FSID /\ h.ino \in Live /\ Chain(h.ino) = h.chain
    BY DEF InPlace, Special
<1>3. path \in Seq(Any) /\ lstat(path) = h.ino
    <2>1. h # RemovableFh
        BY <1>2 DEF RemovableFh, Handle
    <2> QED
        BY <1>1, <2>1, DecompSound DEF Paths, Made
<1>4. x.dev = DEV /\ x.ino = i /\ x.chain = Append(h.chain, i)
    <2>1. ~fh_valid(invalid_fh)
        BY DEF fh_valid, invalid_fh, Handle
    <2>2. x = Handle(DEV, i, Append(fh_real(h).inos, FH_HASH[i]), Append(h.chain, i))
        BY <1>2, <2>1 DEF fh_extend
    <2> HIDE DEF x
    <2> QED
        BY <2>2 DEF Handle
<1>5. n \in Any
    BY DEF Any
<1>6. i = Step(h.ino, n) /\ i # 0
    BY <1>1, <1>3, <1>5, WalkAppend
<1>7. i = Entry(h.ino, n)
    BY <1>6 DEF Step
<1>8. i \in Live \ {RootIno} /\ tree[i].up = h.ino
    BY <1>6, <1>7, EntryChild
<1> HIDE DEF i, x
<1>9. Chain(i) = Append(h.chain, i)
    BY <1>1, <1>2, <1>8, ChainStep
<1>10. InPlace(x)
    BY <1>4, <1>8, <1>9, HandlesAssumption DEF InPlace, Special
<1> QED
    BY <1>10 DEF x, i
=============================================================================
