---------------------------- MODULE DaemonProofs ----------------------------
(***************************************************************************)
(* Proofs about what the server process is made of: the dispatch of a      *)
(* request and its reply (Rpc, with NfsTypes, Xdr and Errors), for any     *)
(* number of requests, any counts and any lists; the mount service         *)
(* (Mount), for any number of hosts, directories, nonces and repeated      *)
(* requests; and the life of the process (Daemon), for any set of          *)
(* instances, any ports and any number of starts.                          *)
(***************************************************************************)
EXTENDS Rpc, Mount, Daemon, FiniteSetTheorems, SequenceTheorems, WellFoundedInduction, TLAPS

----------------------------------------------------------------------------
(* Sums: the recursive functions of NfsTypes, Xdr and Rpc add up the sizes  *)
(* of the members of a structure.                                           *)

\* A set of natural numbers that is not empty has a least element.
LEMMA Least ==
    ASSUME NEW T, T \subseteq Nat, T # {}
    PROVE  \E n \in T : \A m \in T : n <= m
<1> DEFINE R == OpToRel(<, Nat)
<1>1. IsWellFoundedOn(R, Nat)
    BY NatLessThanWellFounded
<1>2. \A m, n \in Nat : m < n => <<m, n>> \in R
    BY DEF OpToRel
<1> HIDE DEF R
<1>3. PICK n \in T : \A m \in T : ~(<<m, n>> \in R)
    BY <1>1, WFMin
<1>4. ASSUME NEW m \in T PROVE n <= m
    <2>1. ~(m < n)
        BY <1>2, <1>3
    <2> QED
        BY <2>1
<1> QED
    BY <1>4

\* Induction up to a bound, over a set in place of a predicate.
LEMMA Induct ==
    ASSUME NEW N \in Nat, NEW S, 0 \in S,
           \A n \in 0..N : n < N /\ n \in S => n + 1 \in S
    PROVE  0..N \subseteq S
<1> SUFFICES ASSUME (0..N) \ S # {} PROVE FALSE
    OBVIOUS
<1> DEFINE T == (0..N) \ S
<1>0. T \subseteq Nat /\ T # {}
    OBVIOUS
<1>a. \E n \in T : \A m \in T : n <= m
    <2> HIDE DEF T
    <2> QED
        BY <1>0, Least
<1>1. PICK n \in T : \A m \in T : n <= m
    BY <1>a
<1>2. n # 0 /\ n - 1 \in 0..N /\ n - 1 < N /\ n - 1 \in S
    BY <1>1
<1> QED
    BY <1>1, <1>2

\* u[k] is b plus the first k of the n numbers v.
Sums(u, b, v, n) ==
    u \in [0..n -> Nat] /\ u[0] = b /\ \A k \in 1..n : u[k] = u[k - 1] + v[k]

\* The equation by which the model defines such a function.
Upto(u, b, v, n) == u = [i \in 0..n |-> IF i = 0 THEN b ELSE u[i - 1] + v[i]]

\* The sums of any numbers exist.
LEMMA SumExists ==
    ASSUME NEW n \in Nat, NEW b \in Nat, NEW v \in [1..n -> Nat]
    PROVE  \E u : Sums(u, b, v, n)
<1> DEFINE S == {m \in 0..n : \E u \in [0..m -> Nat] :
                    u[0] = b /\ \A k \in 1..m : u[k] = u[k - 1] + v[k]}
<1>1. 0 \in S
    <2> DEFINE u == [k \in 0..0 |-> b]
    <2>1. u \in [0..0 -> Nat] /\ u[0] = b /\ \A k \in 1..0 : u[k] = u[k - 1] + v[k]
        OBVIOUS
    <2> HIDE DEF u
    <2> QED
        BY <2>1
<1>2. ASSUME NEW m \in 0..n, m < n, m \in S PROVE m + 1 \in S
    <2>1. PICK u \in [0..m -> Nat] : u[0] = b /\ \A k \in 1..m : u[k] = u[k - 1] + v[k]
        BY <1>2
    <2> DEFINE z == [k \in 0..(m + 1) |-> IF k <= m THEN u[k] ELSE u[m] + v[m + 1]]
    <2>2. u[m] \in Nat /\ v[m + 1] \in Nat
        BY <1>2
    <2>3. z \in [0..(m + 1) -> Nat]
        BY <2>2
    <2>4. z[0] = b /\ z[m + 1] = z[m] + v[m + 1]
        BY <2>1, <1>2
    <2>5. ASSUME NEW k \in 1..m PROVE z[k] = z[k - 1] + v[k]
        BY <2>1
    <2> HIDE DEF z
    <2>6. ASSUME NEW k \in 1..(m + 1) PROVE z[k] = z[k - 1] + v[k]
        <3>1. k = m + 1 \/ k \in 1..m
            OBVIOUS
        <3>2. k = m + 1 => z[k] = z[k - 1] + v[k]
            BY <2>4
        <3> QED
            BY <3>1, <3>2, <2>5
    <2>7. m + 1 \in 0..n
        BY <1>2
    <2> QED
        BY <2>3, <2>4, <2>6, <2>7
<1> HIDE DEF S
<1>3. 0..n \subseteq S
    BY <1>1, <1>2, Induct
<1>4. n \in S
    BY <1>3
<1> QED
    BY <1>4 DEF S, Sums

\* The equation has a solution, and every solution is the function of the sums.
LEMMA UptoExists ==
    ASSUME NEW n \in Nat, NEW b \in Nat, NEW v \in [1..n -> Nat]
    PROVE  \E u : Upto(u, b, v, n)
<1>1. PICK u : Sums(u, b, v, n)
    BY SumExists
<1>2. u \in [0..n -> Nat] /\ \A i \in 0..n : u[i] = IF i = 0 THEN b ELSE u[i - 1] + v[i]
    BY <1>1 DEF Sums
<1>3. Upto(u, b, v, n)
    BY <1>2 DEF Upto
<1> QED
    BY <1>3

\* The equation of the model defines the sums.
LEMMA UptoSums ==
    ASSUME NEW n \in Nat, NEW b \in Nat, NEW v \in [1..n -> Nat], NEW u, Upto(u, b, v, n)
    PROVE  Sums(u, b, v, n)
<1>1. DOMAIN u = 0..n /\ u = [k \in DOMAIN u |-> u[k]]
    BY DEF Upto
<1>2. \A i \in 0..n : u[i] = IF i = 0 THEN b ELSE u[i - 1] + v[i]
    BY DEF Upto
<1>3. u[0] = b /\ \A k \in 1..n : u[k] = u[k - 1] + v[k]
    BY <1>2
<1> DEFINE S == {k \in 0..n : u[k] \in Nat}
<1>4. 0 \in S
    BY <1>3
<1>5. ASSUME NEW k \in 0..n, k < n, k \in S PROVE k + 1 \in S
    <2>1. k + 1 \in 1..n /\ k + 1 \in 0..n /\ (k + 1) - 1 = k /\ u[k] \in Nat
        BY <1>5
    <2>2. u[k + 1] = u[k] + v[k + 1] /\ v[k + 1] \in Nat
        BY <1>3, <2>1
    <2> QED
        BY <2>1, <2>2
<1> HIDE DEF S
<1>6. 0..n \subseteq S
    BY <1>4, <1>5, Induct
<1>7. \A k \in 0..n : u[k] \in Nat
    BY <1>6 DEF S
<1>8. u \in [0..n -> Nat]
    BY <1>1, <1>7
<1> QED
    BY <1>3, <1>8 DEF Sums

\* The sum of w over the members of s, as sizeof and words define it.
Total(w, s) ==
    LET upto[i \in 0 .. Len(s)] == IF i = 0 THEN 0 ELSE upto[i - 1] + w[s[i]]
    IN  upto[Len(s)]

\* The numbers w gives to the members of s; Total adds them up.
Each(w, s) == [i \in 1..Len(s) |-> w[s[i]]]

Weighs(w, s) == Len(s) \in Nat /\ \A i \in 1..Len(s) : w[s[i]] \in Nat

AddsUp(u, w, s) == Sums(u, 0, Each(w, s), Len(s)) /\ Total(w, s) = u[Len(s)]

\* Total(w, s) is the sum of the numbers w gives to the members of s.
LEMMA TotalDef ==
    ASSUME NEW w, NEW s, Weighs(w, s)
    PROVE  \E u : AddsUp(u, w, s)
<1> DEFINE N == Len(s)
           v == Each(w, s)
           Is(u) == u = [i \in 0 .. Len(s) |-> IF i = 0 THEN 0 ELSE u[i - 1] + w[s[i]]]
           u0 == CHOOSE u : Is(u)
<1>1. N \in Nat /\ v \in [1..N -> Nat] /\ \A i \in 1..N : v[i] = w[s[i]]
    BY DEF Each, Weighs
<1>2. \A u : Is(u) <=> Upto(u, 0, v, N)
    <2>1. ASSUME NEW u PROVE [i \in 0 .. Len(s) |-> IF i = 0 THEN 0 ELSE u[i - 1] + w[s[i]]]
                           = [i \in 0 .. N |-> IF i = 0 THEN 0 ELSE u[i - 1] + v[i]]
        BY <1>1
    <2> HIDE DEF N, v
    <2> QED
        BY <2>1 DEF Upto, N
<1>3. Total(w, s) = u0[N]
    BY DEF Total
<1> HIDE DEF N, v, Is
<1>4. \E u : Upto(u, 0, v, N)
    BY <1>1, UptoExists
<1>5. Is(u0)
    BY <1>2, <1>4
<1> HIDE DEF u0
<1>6. Upto(u0, 0, v, N)
    BY <1>2, <1>5
<1>7. Sums(u0, 0, v, N)
    BY <1>1, <1>6, UptoSums
<1> QED
    BY <1>3, <1>7 DEF N, v, AddsUp

\* Sums over structures of the lengths that occur.
LEMMA Total1 ==
    ASSUME NEW w, NEW a1,
           w[a1] \in Nat
    PROVE  Total(w, <<a1>>) =
           w[a1]
<1> DEFINE s == <<a1>>
<1>1. Len(s) = 1
    OBVIOUS
<1>2. /\ s[1] = a1
    OBVIOUS
<1>3. 1..1 = {1}
    OBVIOUS
<1> HIDE DEF s
<1>4. Weighs(w, s)
    BY <1>1, <1>2, <1>3 DEF Weighs
<1>5. PICK u : AddsUp(u, w, s)
    BY <1>4, TotalDef
<1>6. u[0] = 0 /\ \A k \in 1..1 : u[k] = u[k - 1] + w[s[k]]
    BY <1>1, <1>5 DEF AddsUp, Sums, Each
<1>s1. u[1] = u[0] + w[a1]
    BY <1>2, <1>6
<1>7. u[1] = w[a1]
    BY <1>6, <1>s1
<1> QED
    BY <1>1, <1>5, <1>7 DEF AddsUp, s

\* Total of a sequence of two members, and of the lengths the structures have.
LEMMA Total2 ==
    ASSUME NEW w, NEW a1, NEW a2,
           w[a1] \in Nat, w[a2] \in Nat
    PROVE  Total(w, <<a1, a2>>) =
           w[a1] + w[a2]
<1> DEFINE s == <<a1, a2>>
<1>1. Len(s) = 2
    OBVIOUS
<1>2. /\ s[1] = a1
      /\ s[2] = a2
    OBVIOUS
<1>3. 1..2 = {1, 2}
    OBVIOUS
<1> HIDE DEF s
<1>4. Weighs(w, s)
    BY <1>1, <1>2, <1>3 DEF Weighs
<1>5. PICK u : AddsUp(u, w, s)
    BY <1>4, TotalDef
<1>6. u[0] = 0 /\ \A k \in 1..2 : u[k] = u[k - 1] + w[s[k]]
    BY <1>1, <1>5 DEF AddsUp, Sums, Each
<1>s1. u[1] = u[0] + w[a1]
    BY <1>2, <1>6
<1>s2. u[2] = u[1] + w[a2]
    BY <1>2, <1>6
<1>7. u[2] = w[a1] + w[a2]
    BY <1>6, <1>s1, <1>s2
<1> QED
    BY <1>1, <1>5, <1>7 DEF AddsUp, s

LEMMA Total3 ==
    ASSUME NEW w, NEW a1, NEW a2, NEW a3,
           w[a1] \in Nat, w[a2] \in Nat, w[a3] \in Nat
    PROVE  Total(w, <<a1, a2, a3>>) =
           w[a1] + w[a2] + w[a3]
<1> DEFINE s == <<a1, a2, a3>>
<1>1. Len(s) = 3
    OBVIOUS
<1>2. /\ s[1] = a1
      /\ s[2] = a2
      /\ s[3] = a3
    OBVIOUS
<1>3. 1..3 = {1, 2, 3}
    OBVIOUS
<1> HIDE DEF s
<1>4. Weighs(w, s)
    BY <1>1, <1>2, <1>3 DEF Weighs
<1>5. PICK u : AddsUp(u, w, s)
    BY <1>4, TotalDef
<1>6. u[0] = 0 /\ \A k \in 1..3 : u[k] = u[k - 1] + w[s[k]]
    BY <1>1, <1>5 DEF AddsUp, Sums, Each
<1>s1. u[1] = u[0] + w[a1]
    BY <1>2, <1>6
<1>s2. u[2] = u[1] + w[a2]
    BY <1>2, <1>6
<1>s3. u[3] = u[2] + w[a3]
    BY <1>2, <1>6
<1>7. u[3] = w[a1] + w[a2] + w[a3]
    BY <1>6, <1>s1, <1>s2, <1>s3
<1> QED
    BY <1>1, <1>5, <1>7 DEF AddsUp, s

LEMMA Total6 ==
    ASSUME NEW w, NEW a1, NEW a2, NEW a3, NEW a4, NEW a5, NEW a6,
           w[a1] \in Nat, w[a2] \in Nat, w[a3] \in Nat, w[a4] \in Nat, w[a5] \in Nat,
           w[a6] \in Nat
    PROVE  Total(w, <<a1, a2, a3, a4, a5, a6>>) =
           w[a1] + w[a2] + w[a3] + w[a4] + w[a5] + w[a6]
<1> DEFINE s == <<a1, a2, a3, a4, a5, a6>>
<1>1. Len(s) = 6
    OBVIOUS
<1>2. /\ s[1] = a1
      /\ s[2] = a2
      /\ s[3] = a3
      /\ s[4] = a4
      /\ s[5] = a5
      /\ s[6] = a6
    OBVIOUS
<1>3. 1..6 = {1, 2, 3, 4, 5, 6}
    OBVIOUS
<1> HIDE DEF s
<1>4. Weighs(w, s)
    BY <1>1, <1>2, <1>3 DEF Weighs
<1>5. PICK u : AddsUp(u, w, s)
    BY <1>4, TotalDef
<1>6. u[0] = 0 /\ \A k \in 1..6 : u[k] = u[k - 1] + w[s[k]]
    BY <1>1, <1>5 DEF AddsUp, Sums, Each
<1>s1. u[1] = u[0] + w[a1]
    BY <1>2, <1>6
<1>s2. u[2] = u[1] + w[a2]
    BY <1>2, <1>6
<1>s3. u[3] = u[2] + w[a3]
    BY <1>2, <1>6
<1>s4. u[4] = u[3] + w[a4]
    BY <1>2, <1>6
<1>s5. u[5] = u[4] + w[a5]
    BY <1>2, <1>6
<1>s6. u[6] = u[5] + w[a6]
    BY <1>2, <1>6
<1>7. u[6] = w[a1] + w[a2] + w[a3] + w[a4] + w[a5] + w[a6]
    BY <1>6, <1>s1, <1>s2, <1>s3, <1>s4, <1>s5, <1>s6
<1> QED
    BY <1>1, <1>5, <1>7 DEF AddsUp, s

LEMMA Total13 ==
    ASSUME NEW w, NEW a1, NEW a2, NEW a3, NEW a4, NEW a5, NEW a6, NEW a7, NEW a8, NEW a9, NEW
           a10, NEW a11, NEW a12, NEW a13,
           w[a1] \in Nat, w[a2] \in Nat, w[a3] \in Nat, w[a4] \in Nat, w[a5] \in Nat,
           w[a6] \in Nat, w[a7] \in Nat, w[a8] \in Nat, w[a9] \in Nat, w[a10] \in Nat,
           w[a11] \in Nat, w[a12] \in Nat, w[a13] \in Nat
    PROVE  Total(w, <<a1, a2, a3, a4, a5, a6, a7, a8, a9, a10, a11, a12, a13>>) =
           w[a1] + w[a2] + w[a3] + w[a4] + w[a5] + w[a6] + w[a7] + w[a8] + w[a9] +
           w[a10] + w[a11] + w[a12] + w[a13]
<1> DEFINE s == <<a1, a2, a3, a4, a5, a6, a7, a8, a9, a10, a11, a12, a13>>
<1>1. Len(s) = 13
    OBVIOUS
<1>2. /\ s[1] = a1
      /\ s[2] = a2
      /\ s[3] = a3
      /\ s[4] = a4
      /\ s[5] = a5
      /\ s[6] = a6
      /\ s[7] = a7
      /\ s[8] = a8
      /\ s[9] = a9
      /\ s[10] = a10
      /\ s[11] = a11
      /\ s[12] = a12
      /\ s[13] = a13
    OBVIOUS
<1>3. 1..13 = {1, 2, 3, 4, 5, 6, 7, 8, 9, 10, 11, 12, 13}
    OBVIOUS
<1> HIDE DEF s
<1>4. Weighs(w, s)
    BY <1>1, <1>2, <1>3 DEF Weighs
<1>5. PICK u : AddsUp(u, w, s)
    BY <1>4, TotalDef
<1>6. u[0] = 0 /\ \A k \in 1..13 : u[k] = u[k - 1] + w[s[k]]
    BY <1>1, <1>5 DEF AddsUp, Sums, Each
<1>s1. u[1] = u[0] + w[a1]
    BY <1>2, <1>6
<1>s2. u[2] = u[1] + w[a2]
    BY <1>2, <1>6
<1>s3. u[3] = u[2] + w[a3]
    BY <1>2, <1>6
<1>s4. u[4] = u[3] + w[a4]
    BY <1>2, <1>6
<1>s5. u[5] = u[4] + w[a5]
    BY <1>2, <1>6
<1>s6. u[6] = u[5] + w[a6]
    BY <1>2, <1>6
<1>s7. u[7] = u[6] + w[a7]
    BY <1>2, <1>6
<1>s8. u[8] = u[7] + w[a8]
    BY <1>2, <1>6
<1>s9. u[9] = u[8] + w[a9]
    BY <1>2, <1>6
<1>s10. u[10] = u[9] + w[a10]
    BY <1>2, <1>6
<1>s11. u[11] = u[10] + w[a11]
    BY <1>2, <1>6
<1>s12. u[12] = u[11] + w[a12]
    BY <1>2, <1>6
<1>s13. u[13] = u[12] + w[a13]
    BY <1>2, <1>6
<1>7. u[13] = w[a1] + w[a2] + w[a3] + w[a4] + w[a5] + w[a6] + w[a7] + w[a8] + w[a9] +
                 w[a10] + w[a11] + w[a12] + w[a13]
    BY <1>6, <1>s1, <1>s2, <1>s3, <1>s4, <1>s5, <1>s6, <1>s7, <1>s8, <1>s9, <1>s10, <1>s11,
        <1>s12, <1>s13
<1> QED
    BY <1>1, <1>5, <1>7 DEF AddsUp, s

\* Total of no members.
LEMMA Total0 == ASSUME NEW w PROVE Total(w, <<>>) = 0
<1> DEFINE s == <<>>
<1>1. Len(s) = 0
    OBVIOUS
<1> HIDE DEF s
<1>a. Weighs(w, s)
    BY <1>1 DEF Weighs
<1>2. PICK u : AddsUp(u, w, s)
    BY <1>a, TotalDef
<1> QED
    BY <1>1, <1>2 DEF AddsUp, Sums, s

----------------------------------------------------------------------------
(* The sizes of the structures in memory.                                   *)

\* The equation sizeof solves, and the table of sizes that is its only solution.
SizeBody(w, t) == IF Types[t] = Cell THEN 1 ELSE Total(w, Types[t])

Cells == {"bool", "uint32", "uint64", "ftype3", "time_how", "createmode3", "stable_how",
          "verf", "pointer"}

Sizes == [bool |-> 1, uint32 |-> 1, uint64 |-> 1, ftype3 |-> 1, time_how |-> 1,
          createmode3 |-> 1, stable_how |-> 1, verf |-> 1, pointer |-> 1, specdata3 |-> 2,
          nfs_fh3 |-> 2, opaque |-> 2, nfstime3 |-> 2, fattr3 |-> 17, post_op_attr |-> 18,
          wcc_attr |-> 5, pre_op_attr |-> 6, wcc_data |-> 24, post_op_fh3 |-> 3, set_mode3
          |-> 2, set_uid3 |-> 2, set_gid3 |-> 2, set_size3 |-> 2, set_atime |-> 3,
          set_mtime |-> 3, sattr3 |-> 14, diropargs3 |-> 3, sattrguard3 |-> 3, createhow3
          |-> 15, symlinkdata3 |-> 15, devicedata3 |-> 16, mknoddata3 |-> 17, dirlist3 |->
          2, fhandle3 |-> 2]

\* The table solves the equation: each structure is the sum of its members.
LEMMA SizeStep ==
    ASSUME NEW w, \A t \in Cells : w[t] = 1
    PROVE  /\ \A t \in Cells : SizeBody(w, t) = 1
           /\ SizeBody(w, "specdata3") = 2
           /\ SizeBody(w, "nfs_fh3") = 2
           /\ SizeBody(w, "opaque") = 2
           /\ SizeBody(w, "nfstime3") = 2
           /\ w["specdata3"] = 2 /\ w["nfstime3"] = 2 => SizeBody(w, "fattr3") = 17
           /\ w["fattr3"] = 17 => SizeBody(w, "post_op_attr") = 18
           /\ w["nfstime3"] = 2 => SizeBody(w, "wcc_attr") = 5
           /\ w["wcc_attr"] = 5 => SizeBody(w, "pre_op_attr") = 6
           /\ w["pre_op_attr"] = 6 /\ w["post_op_attr"] = 18 => SizeBody(w, "wcc_data") =
              24
           /\ w["nfs_fh3"] = 2 => SizeBody(w, "post_op_fh3") = 3
           /\ SizeBody(w, "set_mode3") = 2
           /\ SizeBody(w, "set_uid3") = 2
           /\ SizeBody(w, "set_gid3") = 2
           /\ SizeBody(w, "set_size3") = 2
           /\ w["nfstime3"] = 2 => SizeBody(w, "set_atime") = 3
           /\ w["nfstime3"] = 2 => SizeBody(w, "set_mtime") = 3
           /\ w["set_mode3"] = 2 /\ w["set_uid3"] = 2 /\ w["set_gid3"] = 2 /\
              w["set_size3"] = 2 /\ w["set_atime"] = 3 /\ w["set_mtime"] = 3 =>
              SizeBody(w, "sattr3") = 14
           /\ w["nfs_fh3"] = 2 => SizeBody(w, "diropargs3") = 3
           /\ w["nfstime3"] = 2 => SizeBody(w, "sattrguard3") = 3
           /\ w["sattr3"] = 14 => SizeBody(w, "createhow3") = 15
           /\ w["sattr3"] = 14 => SizeBody(w, "symlinkdata3") = 15
           /\ w["sattr3"] = 14 /\ w["specdata3"] = 2 => SizeBody(w, "devicedata3") = 16
           /\ w["devicedata3"] = 16 => SizeBody(w, "mknoddata3") = 17
           /\ SizeBody(w, "dirlist3") = 2
           /\ SizeBody(w, "fhandle3") = 2
<1>0. \A t \in Cells : SizeBody(w, t) = 1
    BY DEF Cells, SizeBody, Types, Cell
<1>1. SizeBody(w, "specdata3") = 2
    <2>1. Types["specdata3"] = <<"uint32", "uint32">>
        BY DEF Types, specdata3
    <2>2. Types["specdata3"] # Cell
        BY <2>1 DEF Cell
    <2>3. w["uint32"] = 1
        BY DEF Cells
    <2>4. Total(w, Types["specdata3"]) = 2
        BY <2>1, <2>3, Total2
    <2> QED
        BY <2>2, <2>4 DEF SizeBody
<1>2. SizeBody(w, "nfs_fh3") = 2
    <2>1. Types["nfs_fh3"] = <<"uint32", "pointer">>
        BY DEF Types, nfs_fh3
    <2>2. Types["nfs_fh3"] # Cell
        BY <2>1 DEF Cell
    <2>3. w["uint32"] = 1 /\ w["pointer"] = 1
        BY DEF Cells
    <2>4. Total(w, Types["nfs_fh3"]) = 2
        BY <2>1, <2>3, Total2
    <2> QED
        BY <2>2, <2>4 DEF SizeBody
<1>3. SizeBody(w, "opaque") = 2
    <2>1. Types["opaque"] = <<"uint32", "pointer">>
        BY DEF Types, nfs_fh3
    <2>2. Types["opaque"] # Cell
        BY <2>1 DEF Cell
    <2>3. w["uint32"] = 1 /\ w["pointer"] = 1
        BY DEF Cells
    <2>4. Total(w, Types["opaque"]) = 2
        BY <2>1, <2>3, Total2
    <2> QED
        BY <2>2, <2>4 DEF SizeBody
<1>4. SizeBody(w, "nfstime3") = 2
    <2>1. Types["nfstime3"] = <<"uint32", "uint32">>
        BY DEF Types, nfstime3
    <2>2. Types["nfstime3"] # Cell
        BY <2>1 DEF Cell
    <2>3. w["uint32"] = 1
        BY DEF Cells
    <2>4. Total(w, Types["nfstime3"]) = 2
        BY <2>1, <2>3, Total2
    <2> QED
        BY <2>2, <2>4 DEF SizeBody
<1>5. ASSUME w["specdata3"] = 2, w["nfstime3"] = 2
      PROVE  SizeBody(w, "fattr3") = 17
    <2>1. Types["fattr3"] = <<"ftype3", "uint32", "uint32", "uint32", "uint32", "uint64", "uint64",
            "specdata3", "uint64", "uint64", "nfstime3", "nfstime3", "nfstime3">>
        BY DEF Types, fattr3
    <2>2. Types["fattr3"] # Cell
        BY <2>1 DEF Cell
    <2>3. w["ftype3"] = 1 /\ w["uint32"] = 1 /\ w["uint64"] = 1
        BY DEF Cells
    <2>4. Total(w, Types["fattr3"]) = 17
        BY <2>1, <2>3, <1>5, Total13
    <2> QED
        BY <2>2, <2>4 DEF SizeBody
<1>6. ASSUME w["fattr3"] = 17
      PROVE  SizeBody(w, "post_op_attr") = 18
    <2>1. Types["post_op_attr"] = <<"bool", "fattr3">>
        BY DEF Types, post_op_attr
    <2>2. Types["post_op_attr"] # Cell
        BY <2>1 DEF Cell
    <2>3. w["bool"] = 1
        BY DEF Cells
    <2>4. Total(w, Types["post_op_attr"]) = 18
        BY <2>1, <2>3, <1>6, Total2
    <2> QED
        BY <2>2, <2>4 DEF SizeBody
<1>7. ASSUME w["nfstime3"] = 2
      PROVE  SizeBody(w, "wcc_attr") = 5
    <2>1. Types["wcc_attr"] = <<"uint64", "nfstime3", "nfstime3">>
        BY DEF Types, wcc_attr
    <2>2. Types["wcc_attr"] # Cell
        BY <2>1 DEF Cell
    <2>3. w["uint64"] = 1
        BY DEF Cells
    <2>4. Total(w, Types["wcc_attr"]) = 5
        BY <2>1, <2>3, <1>7, Total3
    <2> QED
        BY <2>2, <2>4 DEF SizeBody
<1>8. ASSUME w["wcc_attr"] = 5
      PROVE  SizeBody(w, "pre_op_attr") = 6
    <2>1. Types["pre_op_attr"] = <<"bool", "wcc_attr">>
        BY DEF Types, pre_op_attr
    <2>2. Types["pre_op_attr"] # Cell
        BY <2>1 DEF Cell
    <2>3. w["bool"] = 1
        BY DEF Cells
    <2>4. Total(w, Types["pre_op_attr"]) = 6
        BY <2>1, <2>3, <1>8, Total2
    <2> QED
        BY <2>2, <2>4 DEF SizeBody
<1>9. ASSUME w["pre_op_attr"] = 6, w["post_op_attr"] = 18
      PROVE  SizeBody(w, "wcc_data") = 24
    <2>1. Types["wcc_data"] = <<"pre_op_attr", "post_op_attr">>
        BY DEF Types, wcc_data
    <2>2. Types["wcc_data"] # Cell
        BY <2>1 DEF Cell
    <2>4. Total(w, Types["wcc_data"]) = 24
        BY <2>1, <1>9, Total2
    <2> QED
        BY <2>2, <2>4 DEF SizeBody
<1>10. ASSUME w["nfs_fh3"] = 2
      PROVE  SizeBody(w, "post_op_fh3") = 3
    <2>1. Types["post_op_fh3"] = <<"bool", "nfs_fh3">>
        BY DEF Types, post_op_fh3
    <2>2. Types["post_op_fh3"] # Cell
        BY <2>1 DEF Cell
    <2>3. w["bool"] = 1
        BY DEF Cells
    <2>4. Total(w, Types["post_op_fh3"]) = 3
        BY <2>1, <2>3, <1>10, Total2
    <2> QED
        BY <2>2, <2>4 DEF SizeBody
<1>11. SizeBody(w, "set_mode3") = 2
    <2>1. Types["set_mode3"] = <<"bool", "uint32">>
        BY DEF Types, set_mode3
    <2>2. Types["set_mode3"] # Cell
        BY <2>1 DEF Cell
    <2>3. w["bool"] = 1 /\ w["uint32"] = 1
        BY DEF Cells
    <2>4. Total(w, Types["set_mode3"]) = 2
        BY <2>1, <2>3, Total2
    <2> QED
        BY <2>2, <2>4 DEF SizeBody
<1>12. SizeBody(w, "set_uid3") = 2
    <2>1. Types["set_uid3"] = <<"bool", "uint32">>
        BY DEF Types, set_uid3
    <2>2. Types["set_uid3"] # Cell
        BY <2>1 DEF Cell
    <2>3. w["bool"] = 1 /\ w["uint32"] = 1
        BY DEF Cells
    <2>4. Total(w, Types["set_uid3"]) = 2
        BY <2>1, <2>3, Total2
    <2> QED
        BY <2>2, <2>4 DEF SizeBody
<1>13. SizeBody(w, "set_gid3") = 2
    <2>1. Types["set_gid3"] = <<"bool", "uint32">>
        BY DEF Types, set_gid3
    <2>2. Types["set_gid3"] # Cell
        BY <2>1 DEF Cell
    <2>3. w["bool"] = 1 /\ w["uint32"] = 1
        BY DEF Cells
    <2>4. Total(w, Types["set_gid3"]) = 2
        BY <2>1, <2>3, Total2
    <2> QED
        BY <2>2, <2>4 DEF SizeBody
<1>14. SizeBody(w, "set_size3") = 2
    <2>1. Types["set_size3"] = <<"bool", "uint64">>
        BY DEF Types, set_size3
    <2>2. Types["set_size3"] # Cell
        BY <2>1 DEF Cell
    <2>3. w["bool"] = 1 /\ w["uint64"] = 1
        BY DEF Cells
    <2>4. Total(w, Types["set_size3"]) = 2
        BY <2>1, <2>3, Total2
    <2> QED
        BY <2>2, <2>4 DEF SizeBody
<1>15. ASSUME w["nfstime3"] = 2
      PROVE  SizeBody(w, "set_atime") = 3
    <2>1. Types["set_atime"] = <<"time_how", "nfstime3">>
        BY DEF Types, set_atime
    <2>2. Types["set_atime"] # Cell
        BY <2>1 DEF Cell
    <2>3. w["time_how"] = 1
        BY DEF Cells
    <2>4. Total(w, Types["set_atime"]) = 3
        BY <2>1, <2>3, <1>15, Total2
    <2> QED
        BY <2>2, <2>4 DEF SizeBody
<1>16. ASSUME w["nfstime3"] = 2
      PROVE  SizeBody(w, "set_mtime") = 3
    <2>1. Types["set_mtime"] = <<"time_how", "nfstime3">>
        BY DEF Types, set_mtime
    <2>2. Types["set_mtime"] # Cell
        BY <2>1 DEF Cell
    <2>3. w["time_how"] = 1
        BY DEF Cells
    <2>4. Total(w, Types["set_mtime"]) = 3
        BY <2>1, <2>3, <1>16, Total2
    <2> QED
        BY <2>2, <2>4 DEF SizeBody
<1>17. ASSUME w["set_mode3"] = 2, w["set_uid3"] = 2, w["set_gid3"] = 2, w["set_size3"] = 2,
             w["set_atime"] = 3, w["set_mtime"] = 3
      PROVE  SizeBody(w, "sattr3") = 14
    <2>1. Types["sattr3"] = <<"set_mode3", "set_uid3", "set_gid3", "set_size3", "set_atime", "set_mtime">>
        BY DEF Types, sattr3
    <2>2. Types["sattr3"] # Cell
        BY <2>1 DEF Cell
    <2>4. Total(w, Types["sattr3"]) = 14
        BY <2>1, <1>17, Total6
    <2> QED
        BY <2>2, <2>4 DEF SizeBody
<1>18. ASSUME w["nfs_fh3"] = 2
      PROVE  SizeBody(w, "diropargs3") = 3
    <2>1. Types["diropargs3"] = <<"nfs_fh3", "pointer">>
        BY DEF Types, diropargs3
    <2>2. Types["diropargs3"] # Cell
        BY <2>1 DEF Cell
    <2>3. w["pointer"] = 1
        BY DEF Cells
    <2>4. Total(w, Types["diropargs3"]) = 3
        BY <2>1, <2>3, <1>18, Total2
    <2> QED
        BY <2>2, <2>4 DEF SizeBody
<1>19. ASSUME w["nfstime3"] = 2
      PROVE  SizeBody(w, "sattrguard3") = 3
    <2>1. Types["sattrguard3"] = <<"bool", "nfstime3">>
        BY DEF Types, sattrguard3
    <2>2. Types["sattrguard3"] # Cell
        BY <2>1 DEF Cell
    <2>3. w["bool"] = 1
        BY DEF Cells
    <2>4. Total(w, Types["sattrguard3"]) = 3
        BY <2>1, <2>3, <1>19, Total2
    <2> QED
        BY <2>2, <2>4 DEF SizeBody
<1>20. ASSUME w["sattr3"] = 14
      PROVE  SizeBody(w, "createhow3") = 15
    <2>1. Types["createhow3"] = <<"createmode3", "sattr3">>
        BY DEF Types, createhow3
    <2>2. Types["createhow3"] # Cell
        BY <2>1 DEF Cell
    <2>3. w["createmode3"] = 1
        BY DEF Cells
    <2>4. Total(w, Types["createhow3"]) = 15
        BY <2>1, <2>3, <1>20, Total2
    <2> QED
        BY <2>2, <2>4 DEF SizeBody
<1>21. ASSUME w["sattr3"] = 14
      PROVE  SizeBody(w, "symlinkdata3") = 15
    <2>1. Types["symlinkdata3"] = <<"sattr3", "pointer">>
        BY DEF Types, symlinkdata3
    <2>2. Types["symlinkdata3"] # Cell
        BY <2>1 DEF Cell
    <2>3. w["pointer"] = 1
        BY DEF Cells
    <2>4. Total(w, Types["symlinkdata3"]) = 15
        BY <2>1, <2>3, <1>21, Total2
    <2> QED
        BY <2>2, <2>4 DEF SizeBody
<1>22. ASSUME w["sattr3"] = 14, w["specdata3"] = 2
      PROVE  SizeBody(w, "devicedata3") = 16
    <2>1. Types["devicedata3"] = <<"sattr3", "specdata3">>
        BY DEF Types, devicedata3
    <2>2. Types["devicedata3"] # Cell
        BY <2>1 DEF Cell
    <2>4. Total(w, Types["devicedata3"]) = 16
        BY <2>1, <1>22, Total2
    <2> QED
        BY <2>2, <2>4 DEF SizeBody
<1>23. ASSUME w["devicedata3"] = 16
      PROVE  SizeBody(w, "mknoddata3") = 17
    <2>1. Types["mknoddata3"] = <<"ftype3", "devicedata3">>
        BY DEF Types, mknoddata3
    <2>2. Types["mknoddata3"] # Cell
        BY <2>1 DEF Cell
    <2>3. w["ftype3"] = 1
        BY DEF Cells
    <2>4. Total(w, Types["mknoddata3"]) = 17
        BY <2>1, <2>3, <1>23, Total2
    <2> QED
        BY <2>2, <2>4 DEF SizeBody
<1>24. SizeBody(w, "dirlist3") = 2
    <2>1. Types["dirlist3"] = <<"pointer", "bool">>
        BY DEF Types, dirlist3
    <2>2. Types["dirlist3"] # Cell
        BY <2>1 DEF Cell
    <2>3. w["pointer"] = 1 /\ w["bool"] = 1
        BY DEF Cells
    <2>4. Total(w, Types["dirlist3"]) = 2
        BY <2>1, <2>3, Total2
    <2> QED
        BY <2>2, <2>4 DEF SizeBody
<1>25. SizeBody(w, "fhandle3") = 2
    <2>1. Types["fhandle3"] = <<"uint32", "pointer">>
        BY DEF Types, fhandle3
    <2>2. Types["fhandle3"] # Cell
        BY <2>1 DEF Cell
    <2>3. w["uint32"] = 1 /\ w["pointer"] = 1
        BY DEF Cells
    <2>4. Total(w, Types["fhandle3"]) = 2
        BY <2>1, <2>3, Total2
    <2> QED
        BY <2>2, <2>4 DEF SizeBody
<1> QED
    BY <1>0, <1>1, <1>2, <1>3, <1>4, <1>5, <1>6, <1>7, <1>8, <1>9, <1>10, <1>11, <1>12, <1>13,
       <1>14, <1>15, <1>16, <1>17, <1>18, <1>19, <1>20, <1>21, <1>22, <1>23, <1>24, <1>25

\* The types of members of structures.
SizeTypes == DOMAIN Sizes

\* The table written out.
LEMMA SizeDomain ==
    /\ DOMAIN Types = SizeTypes
    /\ \A t \in SizeTypes : Sizes[t] \in Nat \ {0}
    /\ \A t \in Cells : Sizes[t] = 1
    /\ Cells \subseteq SizeTypes
    /\ Sizes["specdata3"] = 2
    /\ Sizes["nfs_fh3"] = 2
    /\ Sizes["opaque"] = 2
    /\ Sizes["nfstime3"] = 2
    /\ Sizes["fattr3"] = 17
    /\ Sizes["post_op_attr"] = 18
    /\ Sizes["wcc_attr"] = 5
    /\ Sizes["pre_op_attr"] = 6
    /\ Sizes["wcc_data"] = 24
    /\ Sizes["post_op_fh3"] = 3
    /\ Sizes["set_mode3"] = 2
    /\ Sizes["set_uid3"] = 2
    /\ Sizes["set_gid3"] = 2
    /\ Sizes["set_size3"] = 2
    /\ Sizes["set_atime"] = 3
    /\ Sizes["set_mtime"] = 3
    /\ Sizes["sattr3"] = 14
    /\ Sizes["diropargs3"] = 3
    /\ Sizes["sattrguard3"] = 3
    /\ Sizes["createhow3"] = 15
    /\ Sizes["symlinkdata3"] = 15
    /\ Sizes["devicedata3"] = 16
    /\ Sizes["mknoddata3"] = 17
    /\ Sizes["dirlist3"] = 2
    /\ Sizes["fhandle3"] = 2
    /\ \A t \in SizeTypes : t \in Cells \/ t \in {"specdata3", "nfs_fh3", "opaque", "nfstime3", "fattr3",
           "post_op_attr", "wcc_attr", "pre_op_attr", "wcc_data", "post_op_fh3",
           "set_mode3", "set_uid3", "set_gid3", "set_size3", "set_atime",
           "set_mtime", "sattr3", "diropargs3", "sattrguard3", "createhow3",
           "symlinkdata3", "devicedata3", "mknoddata3", "dirlist3", "fhandle3"}
BY DEF Types, Sizes, Cells, SizeTypes

\* The table solves the equation that defines sizeof.
LEMMA SizesSolve == Sizes = [t \in DOMAIN Types |-> SizeBody(Sizes, t)]
<1>1. Sizes = [t \in SizeTypes |-> Sizes[t]]
    BY DEF Sizes, SizeTypes
<1>2. ASSUME NEW t \in SizeTypes PROVE SizeBody(Sizes, t) = Sizes[t]
    BY SizeDomain, SizeStep
<1> QED
    BY <1>1, <1>2, SizeDomain

\* sizeof computes that table.
LEMMA SizeofIs == sizeof = Sizes
<1> DEFINE Is(f) == f = [t \in DOMAIN Types |-> SizeBody(f, t)]
<1>1. sizeof = CHOOSE f : Is(f)
    BY DEF sizeof, SizeBody, Total
<1>2. Is(Sizes)
    BY SizesSolve
<1>3. Is(sizeof)
    <2> HIDE DEF Is
    <2> QED
        BY <1>1, <1>2
<1>4. DOMAIN sizeof = SizeTypes /\ sizeof = [t \in DOMAIN sizeof |-> sizeof[t]]
    BY <1>3, SizeDomain
<1>5. \A t \in SizeTypes : sizeof[t] = SizeBody(sizeof, t)
    BY <1>3, SizeDomain
<1> HIDE DEF Is
<1>6. \A t \in Cells : sizeof[t] = 1
    <2>1. ASSUME NEW t \in Cells PROVE SizeBody(sizeof, t) = 1
        BY DEF Cells, SizeBody, Types, Cell
    <2> QED
        BY <1>5, <2>1, SizeDomain
<1>t0. sizeof["specdata3"] = 2
    BY <1>5, <1>6, SizeStep DEF SizeTypes, Sizes
<1>t1. sizeof["nfs_fh3"] = 2
    BY <1>5, <1>6, SizeStep DEF SizeTypes, Sizes
<1>t2. sizeof["opaque"] = 2
    BY <1>5, <1>6, SizeStep DEF SizeTypes, Sizes
<1>t3. sizeof["nfstime3"] = 2
    BY <1>5, <1>6, SizeStep DEF SizeTypes, Sizes
<1>t4. sizeof["fattr3"] = 17
    BY <1>5, <1>6, SizeStep, <1>t3 DEF SizeTypes, Sizes
<1>t5. sizeof["post_op_attr"] = 18
    BY <1>5, <1>6, SizeStep, <1>t4 DEF SizeTypes, Sizes
<1>t6. sizeof["wcc_attr"] = 5
    BY <1>5, <1>6, SizeStep, <1>t3 DEF SizeTypes, Sizes
<1>t7. sizeof["pre_op_attr"] = 6
    BY <1>5, <1>6, SizeStep, <1>t6 DEF SizeTypes, Sizes
<1>t8. sizeof["wcc_data"] = 24
    BY <1>5, <1>6, SizeStep, <1>t5 DEF SizeTypes, Sizes
<1>t9. sizeof["post_op_fh3"] = 3
    BY <1>5, <1>6, SizeStep, <1>t1 DEF SizeTypes, Sizes
<1>t10. sizeof["set_mode3"] = 2
    BY <1>5, <1>6, SizeStep DEF SizeTypes, Sizes
<1>t11. sizeof["set_uid3"] = 2
    BY <1>5, <1>6, SizeStep DEF SizeTypes, Sizes
<1>t12. sizeof["set_gid3"] = 2
    BY <1>5, <1>6, SizeStep DEF SizeTypes, Sizes
<1>t13. sizeof["set_size3"] = 2
    BY <1>5, <1>6, SizeStep DEF SizeTypes, Sizes
<1>t14. sizeof["set_atime"] = 3
    BY <1>5, <1>6, SizeStep, <1>t3 DEF SizeTypes, Sizes
<1>t15. sizeof["set_mtime"] = 3
    BY <1>5, <1>6, SizeStep, <1>t3 DEF SizeTypes, Sizes
<1>t16. sizeof["sattr3"] = 14
    BY <1>5, <1>6, SizeStep, <1>t15 DEF SizeTypes, Sizes
<1>t17. sizeof["diropargs3"] = 3
    BY <1>5, <1>6, SizeStep, <1>t1 DEF SizeTypes, Sizes
<1>t18. sizeof["sattrguard3"] = 3
    BY <1>5, <1>6, SizeStep, <1>t3 DEF SizeTypes, Sizes
<1>t19. sizeof["createhow3"] = 15
    BY <1>5, <1>6, SizeStep, <1>t16 DEF SizeTypes, Sizes
<1>t20. sizeof["symlinkdata3"] = 15
    BY <1>5, <1>6, SizeStep, <1>t16 DEF SizeTypes, Sizes
<1>t21. sizeof["devicedata3"] = 16
    BY <1>5, <1>6, SizeStep, <1>t0 DEF SizeTypes, Sizes
<1>t22. sizeof["mknoddata3"] = 17
    BY <1>5, <1>6, SizeStep, <1>t21 DEF SizeTypes, Sizes
<1>t23. sizeof["dirlist3"] = 2
    BY <1>5, <1>6, SizeStep DEF SizeTypes, Sizes
<1>t24. sizeof["fhandle3"] = 2
    BY <1>5, <1>6, SizeStep DEF SizeTypes, Sizes
<1>7. \A t \in SizeTypes : sizeof[t] = Sizes[t]
    BY <1>6, SizeDomain, <1>t0, <1>t1, <1>t2, <1>t3, <1>t4, <1>t5, <1>t6, <1>t7,
       <1>t8, <1>t9, <1>t10, <1>t11, <1>t12, <1>t13, <1>t14, <1>t15,
       <1>t16, <1>t17, <1>t18, <1>t19, <1>t20, <1>t21, <1>t22, <1>t23,
       <1>t24
<1> QED
    BY <1>4, <1>7 DEF Sizes, SizeTypes

----------------------------------------------------------------------------
(* Where the fields of a result lie.                                        *)

\* Two sums over numbers that agree are equal.
LEMMA SumsAgree ==
    ASSUME NEW n \in Nat, NEW l \in Nat, NEW m \in Nat, n <= l, n <= m, NEW b,
           NEW u, NEW v, NEW x, NEW y,
           Sums(u, b, v, l), Sums(x, b, y, m), \A k \in 1..n : v[k] = y[k]
    PROVE  u[n] = x[n]
<1> DEFINE S == {k \in 0..n : u[k] = x[k]}
<1>1. 0 \in S
    BY DEF Sums
<1>2. ASSUME NEW k \in 0..n, k < n, k \in S PROVE k + 1 \in S
    <2>1. k + 1 \in 1..n /\ k + 1 \in 1..l /\ k + 1 \in 1..m /\ k + 1 \in 0..n /\ (k + 1) - 1 = k
        BY <1>2
    <2>2. u[k + 1] = u[k] + v[k + 1] /\ x[k + 1] = x[k] + y[k + 1]
        BY <2>1 DEF Sums
    <2> QED
        BY <1>2, <2>1, <2>2
<1> HIDE DEF S
<1>3. 0..n \subseteq S
    BY <1>1, <1>2, Induct
<1> QED
    BY <1>3 DEF S

\* Sums grow.
LEMMA SumsGrow ==
    ASSUME NEW n \in Nat, NEW b, NEW u, NEW v \in [1..n -> Nat], Sums(u, b, v, n),
           NEW i \in 0..n, NEW j \in 0..n, i <= j
    PROVE  u[i] <= u[j]
<1> DEFINE S == {k \in 0..n : k < i \/ u[i] <= u[k]}
<1>0. \A k \in 0..n : u[k] \in Nat
    BY DEF Sums
<1>1. 0 \in S
    BY <1>0
<1>2. ASSUME NEW k \in 0..n, k < n, k \in S PROVE k + 1 \in S
    <2>1. k + 1 \in 1..n /\ k + 1 \in 0..n /\ (k + 1) - 1 = k
        BY <1>2
    <2>2. u[k + 1] = u[k] + v[k + 1] /\ v[k + 1] \in Nat
        BY <2>1 DEF Sums
    <2>3. CASE k < i
        <3>1. k + 1 < i \/ k + 1 = i
            BY <2>3
        <3> QED
            BY <2>1, <3>1, <1>0
    <2>4. CASE ~(k < i)
        <3>1. u[i] <= u[k]
            BY <1>2, <2>4
        <3> QED
            BY <2>1, <2>2, <3>1, <1>0
    <2> QED
        BY <2>3, <2>4
<1> HIDE DEF S
<1>3. 0..n \subseteq S
    BY <1>1, <1>2, Induct
<1> QED
    BY <1>3 DEF S

\* The cells of a field that begins at a, of c cells.
LEMMA OneMore ==
    ASSUME NEW a \in Nat, NEW c \in Nat \ {0}, NEW b, b = a + c
    PROVE  b \in Nat /\ a < b /\ a .. a + c - 1 = a .. b - 1
OBVIOUS

\* An arm of a result whose fields have types of the table.
IsArm(arm) ==
    /\ Len(arm) \in Nat /\ DOMAIN arm = 1..Len(arm)
    /\ \A k \in 1..Len(arm) : arm[k].type \in SizeTypes

\* The sizes of the first n fields of an arm.
TypeSizes(arm, n) == [k \in 1..n |-> sizeof[arm[k].type]]

\* Every field has a size, and none is empty.
LEMMA TypeSizesIn ==
    ASSUME NEW arm, IsArm(arm), NEW n \in 0..Len(arm)
    PROVE  /\ TypeSizes(arm, n) \in [1..n -> Nat]
           /\ \A k \in 1..n : TypeSizes(arm, n)[k] = sizeof[arm[k].type] /\ TypeSizes(arm, n)[k] > 0
<1>1. \A k \in 1..n : k \in 1..Len(arm) /\ arm[k].type \in SizeTypes
    BY DEF IsArm
<1>2. \A k \in 1..n : sizeof[arm[k].type] \in Nat \ {0}
    BY <1>1, SizeofIs, SizeDomain
<1> QED
    BY <1>2 DEF TypeSizes

\* The offset of a field is the sum of the sizes before it.
LEMMA OffsetIs ==
    ASSUME NEW arm, IsArm(arm), NEW u, Sums(u, 0, TypeSizes(arm, Len(arm)), Len(arm)),
           NEW i \in 1..Len(arm)
    PROVE  Offset(arm, i) = u[i - 1]
<1> DEFINE N == i - 1
           v == TypeSizes(arm, N)
           Is(z) == z = [j \in 0 .. i - 1 |-> IF j = 0 THEN 0
                                              ELSE z[j - 1] + sizeof[arm[j].type]]
           u0 == CHOOSE z : Is(z)
<1>0. N \in Nat /\ N \in 0..Len(arm) /\ Len(arm) \in Nat /\ N <= Len(arm)
    BY DEF IsArm
<1>1. v \in [1..N -> Nat] /\ \A k \in 1..N : v[k] = sizeof[arm[k].type]
    <2> HIDE DEF N
    <2> QED
        BY <1>0, TypeSizesIn
<1>2. \A z : Is(z) <=> Upto(z, 0, v, N)
    <2>1. ASSUME NEW z PROVE [j \in 0 .. i - 1 |-> IF j = 0 THEN 0
                                                   ELSE z[j - 1] + sizeof[arm[j].type]]
                           = [j \in 0 .. N |-> IF j = 0 THEN 0 ELSE z[j - 1] + v[j]]
        <3> HIDE DEF v
        <3> QED
            BY <1>1
    <2> HIDE DEF N, v
    <2> QED
        BY <2>1 DEF Upto, N
<1>3. Offset(arm, i) = u0[N]
    BY DEF Offset
<1> HIDE DEF N, v, Is
<1>4. \E z : Upto(z, 0, v, N)
    BY <1>0, <1>1, UptoExists
<1>5. Is(u0)
    BY <1>2, <1>4
<1> HIDE DEF u0
<1>6. Sums(u0, 0, v, N)
    BY <1>0, <1>1, <1>2, <1>5, UptoSums
<1> DEFINE y == TypeSizes(arm, Len(arm))
<1>7. \A k \in 1..N : v[k] = y[k]
    <2>1. \A k \in 1..N : k \in 1..Len(arm)
        BY <1>0
    <2>2. \A k \in 1..Len(arm) : y[k] = sizeof[arm[k].type]
        BY <1>0 DEF TypeSizes
    <2> QED
        BY <1>1, <2>1, <2>2
<1> HIDE DEF y
<1>8. u0[N] = u[N]
    BY <1>0, <1>6, <1>7, SumsAgree DEF y
<1> QED
    BY <1>3, <1>8 DEF N

\* The first fields of an arm, as the other arm has them.
Begins(arm, ok) ==
    /\ Len(arm) \in Nat /\ DOMAIN arm = 1..Len(arm) /\ Len(arm) <= Len(ok)
    /\ \A k \in 1..Len(arm) : arm[k] = ok[k]

\* A field of an arm that is the beginning of resok lies over one field of
\* resok, the field of the same place, and over nothing else.
LEMMA CellsMeet ==
    ASSUME NEW ok, IsArm(ok), NEW arm, Begins(arm, ok),
           NEW i \in 1..Len(arm), NEW k \in 1..Len(ok)
    PROVE  CellsOf(ok, k) \cap CellsOf(arm, i) # {} <=> k = i
<1>0. /\ IsArm(arm) /\ Len(ok) \in Nat /\ Len(arm) \in Nat /\ i \in 1..Len(ok)
      /\ arm[i] = ok[i] /\ Len(arm) <= Len(ok)
    BY DEF IsArm, Begins
<1>a. Len(ok) \in 0..Len(ok) /\ Len(arm) \in 0..Len(arm)
    BY <1>0
<1>1. /\ TypeSizes(ok, Len(ok)) \in [1..Len(ok) -> Nat]
      /\ TypeSizes(arm, Len(arm)) \in [1..Len(arm) -> Nat]
    BY <1>0, <1>a, TypeSizesIn
<1>2. PICK u : Sums(u, 0, TypeSizes(ok, Len(ok)), Len(ok))
    BY <1>0, <1>1, SumExists
<1>3. PICK x : Sums(x, 0, TypeSizes(arm, Len(arm)), Len(arm))
    BY <1>0, <1>1, SumExists
<1>4. Offset(ok, k) = u[k - 1] /\ Offset(ok, i) = u[i - 1] /\ Offset(arm, i) = x[i - 1]
    BY <1>0, <1>2, <1>3, OffsetIs
<1>5. x[i - 1] = u[i - 1]
    <2> DEFINE n == i - 1
               v == TypeSizes(arm, Len(arm))
               y == TypeSizes(ok, Len(ok))
    <2>1. n \in Nat /\ n <= Len(ok) /\ n <= Len(arm)
        BY <1>0
    <2>2. \A j \in 1..n : v[j] = y[j]
        <3>1. \A j \in 1..n : j \in 1..Len(arm) /\ j \in 1..Len(ok) /\ arm[j] = ok[j]
            BY <1>0 DEF Begins
        <3> QED
            BY <3>1 DEF TypeSizes
    <2> HIDE DEF n, v, y
    <2>3. Sums(x, 0, v, Len(arm))
        BY <1>3 DEF v
    <2>4. Sums(u, 0, y, Len(ok))
        BY <1>2 DEF y
    <2>5. x[n] = u[n]
        BY <2>1, <2>2, <2>3, <2>4, <1>0, SumsAgree
    <2> QED
        BY <2>5 DEF n
<1>6. \A j \in 1..Len(ok) : /\ u[j] = u[j - 1] + sizeof[ok[j].type]
                            /\ sizeof[ok[j].type] \in Nat \ {0}
                            /\ u[j] \in Nat /\ u[j - 1] \in Nat
    <2>1. \A j \in 1..Len(ok) : /\ TypeSizes(ok, Len(ok))[j] = sizeof[ok[j].type]
                                /\ TypeSizes(ok, Len(ok))[j] > 0
        BY <1>0, <1>a, TypeSizesIn
    <2>2. \A j \in 1..Len(ok) : TypeSizes(ok, Len(ok))[j] \in Nat
        BY <1>1
    <2> DEFINE y == TypeSizes(ok, Len(ok))
    <2>3. \A j \in 1..Len(ok) : u[j] = u[j - 1] + y[j]
        BY <1>2 DEF Sums
    <2>4. \A j \in 0..Len(ok) : u[j] \in Nat
        BY <1>2 DEF Sums
    <2>5. \A j \in 1..Len(ok) : j \in 0..Len(ok) /\ j - 1 \in 0..Len(ok)
        BY <1>0
    <2> HIDE DEF y
    <2>6. \A j \in 1..Len(ok) : y[j] = sizeof[ok[j].type] /\ y[j] > 0 /\ y[j] \in Nat
        BY <2>1, <2>2 DEF y
    <2>7. ASSUME NEW j \in 1..Len(ok)
          PROVE  /\ u[j] = u[j - 1] + sizeof[ok[j].type]
                 /\ sizeof[ok[j].type] \in Nat \ {0}
                 /\ u[j] \in Nat /\ u[j - 1] \in Nat
        <3>1. u[j] = u[j - 1] + y[j] /\ y[j] = sizeof[ok[j].type] /\ y[j] > 0 /\ y[j] \in Nat
            BY <2>3, <2>6
        <3>2. u[j] \in Nat /\ u[j - 1] \in Nat
            BY <2>4, <2>5
        <3> QED
            BY <3>1, <3>2
    <2> QED
        BY <2>7
<1>7. CellsOf(arm, i) = u[i - 1] .. u[i] - 1 /\ CellsOf(ok, k) = u[k - 1] .. u[k] - 1
    <2>1. CellsOf(arm, i) = u[i - 1] .. u[i - 1] + sizeof[ok[i].type] - 1
        BY <1>0, <1>4, <1>5 DEF CellsOf
    <2>2. CellsOf(ok, k) = u[k - 1] .. u[k - 1] + sizeof[ok[k].type] - 1
        BY <1>4 DEF CellsOf
    <2>3. u[i - 1] .. u[i - 1] + sizeof[ok[i].type] - 1 = u[i - 1] .. u[i] - 1
        <3>1. /\ u[i - 1] \in Nat /\ sizeof[ok[i].type] \in Nat \ {0}
              /\ u[i] = u[i - 1] + sizeof[ok[i].type]
            BY <1>0, <1>6
        <3> QED
            BY ONLY <3>1, OneMore, Zenon
    <2>4. u[k - 1] .. u[k - 1] + sizeof[ok[k].type] - 1 = u[k - 1] .. u[k] - 1
        <3>1. /\ u[k - 1] \in Nat /\ sizeof[ok[k].type] \in Nat \ {0}
              /\ u[k] = u[k - 1] + sizeof[ok[k].type]
            BY <1>0, <1>6
        <3> QED
            BY ONLY <3>1, OneMore, Zenon
    <2> QED
        BY <2>1, <2>2, <2>3, <2>4
<1>b. /\ u[i - 1] \in Nat /\ u[i] \in Nat /\ u[i - 1] < u[i]
      /\ u[k - 1] \in Nat /\ u[k] \in Nat /\ u[k - 1] < u[k]
    <2>1. /\ u[i] = u[i - 1] + sizeof[ok[i].type] /\ sizeof[ok[i].type] \in Nat \ {0}
          /\ u[k] = u[k - 1] + sizeof[ok[k].type] /\ sizeof[ok[k].type] \in Nat \ {0}
          /\ u[i - 1] \in Nat /\ u[k - 1] \in Nat
        BY <1>0, <1>6
    <2> QED
        BY <2>1, OneMore
<1>8. ASSUME k = i PROVE CellsOf(ok, k) \cap CellsOf(arm, i) # {}
    <2>1. u[i - 1] \in CellsOf(ok, k) /\ u[i - 1] \in CellsOf(arm, i)
        BY <1>7, <1>8, <1>b
    <2> QED
        BY <2>1
<1>9. ASSUME k < i PROVE CellsOf(ok, k) \cap CellsOf(arm, i) = {}
    <2>1. u[k] <= u[i - 1]
        <3>1. k \in 0..Len(ok) /\ i - 1 \in 0..Len(ok) /\ k <= i - 1
            BY <1>0, <1>9
        <3> QED
            BY <3>1, <1>0, <1>1, <1>2, SumsGrow
    <2> QED
        BY <2>1, <1>7, <1>b
<1>10. ASSUME i < k PROVE CellsOf(ok, k) \cap CellsOf(arm, i) = {}
    <2>1. u[i] <= u[k - 1]
        <3>1. i \in 0..Len(ok) /\ k - 1 \in 0..Len(ok) /\ i <= k - 1
            BY <1>0, <1>10
        <3> QED
            BY <3>1, <1>0, <1>1, <1>2, SumsGrow
    <2> QED
        BY <2>1, <1>7, <1>b
<1> QED
    BY <1>8, <1>9, <1>10, <1>0

\* What the header has to look like for the failure replies to be right: resfail
\* is the beginning of resok, the names of the fields differ, and xdr.c names
\* the fields of the arm it encodes.
Arms == {"resok", "resfail"}

\* What makes a result well laid out: no two fields of an arm have one name, the
\* failure arm is a beginning of the success arm (field by field of the same types), and
\* the wire routines name fields of the structure.
Distinct(ok) == \A i, k \in 1..Len(ok) : ok[i].name = ok[k].name => i = k

Names(wire, arm) == \A f \in Range(wire) : \E k \in 1..Len(arm) : arm[k].name = f.name

Laid(p) ==
    /\ IsArm(Decl[p].resok)
    /\ Begins(Decl[p].resfail, Decl[p].resok)
    /\ Distinct(Decl[p].resok)
    /\ Names(Wire[p].resok, Decl[p].resok)
    /\ Names(Wire[p].resfail, Decl[p].resfail)

\* The procedures with a result that varies.
ProcNames ==
    {"GETATTR", "SETATTR", "LOOKUP", "ACCESS", "READLINK", "READ", "WRITE",
     "CREATE", "MKDIR", "SYMLINK", "MKNOD", "REMOVE", "RMDIR", "RENAME",
     "LINK", "READDIR", "READDIRPLUS", "FSSTAT", "FSINFO", "PATHCONF", "COMMIT",
     "MNT"}

\* They are the ones Procs derives from the declarations.
LEMMA ProcsAre == Procs = ProcNames
BY DEF Procs, Decl, ProcNames

\* The results of all procedures of nfs.h and mount.h are well laid out.
LEMMA LaidOut == \A p \in Procs : Laid(p)
<1>1. Laid("GETATTR")
    <2>1. Decl["GETATTR"] = GETATTR3 /\ Wire["GETATTR"] = xdr_GETATTR3
        BY DEF Decl, Wire
    <2>2. IsArm(GETATTR3.resok)
        BY DEF IsArm, GETATTR3, F, SizeTypes, Sizes
    <2>3. Begins(GETATTR3.resfail, GETATTR3.resok)
        BY DEF Begins, GETATTR3, F
    <2>4. Distinct(GETATTR3.resok)
        BY DEF Distinct, GETATTR3, F
    <2>5. Names(xdr_GETATTR3.resok, GETATTR3.resok)
        BY DEF Names, Range, xdr_GETATTR3, GETATTR3, F
    <2>6. Names(xdr_GETATTR3.resfail, GETATTR3.resfail)
        BY DEF Names, Range, xdr_GETATTR3, GETATTR3, F
    <2> QED
        BY <2>1, <2>2, <2>3, <2>4, <2>5, <2>6 DEF Laid
<1>2. Laid("SETATTR")
    <2>1. Decl["SETATTR"] = SETATTR3 /\ Wire["SETATTR"] = xdr_SETATTR3
        BY DEF Decl, Wire
    <2>2. IsArm(SETATTR3.resok)
        BY DEF IsArm, SETATTR3, F, SizeTypes, Sizes
    <2>3. Begins(SETATTR3.resfail, SETATTR3.resok)
        BY DEF Begins, SETATTR3, F
    <2>4. Distinct(SETATTR3.resok)
        BY DEF Distinct, SETATTR3, F
    <2>5. Names(xdr_SETATTR3.resok, SETATTR3.resok)
        BY DEF Names, Range, xdr_SETATTR3, SETATTR3, F
    <2>6. Names(xdr_SETATTR3.resfail, SETATTR3.resfail)
        BY DEF Names, Range, xdr_SETATTR3, SETATTR3, F
    <2> QED
        BY <2>1, <2>2, <2>3, <2>4, <2>5, <2>6 DEF Laid
<1>3. Laid("LOOKUP")
    <2>1. Decl["LOOKUP"] = LOOKUP3 /\ Wire["LOOKUP"] = xdr_LOOKUP3
        BY DEF Decl, Wire
    <2>2. IsArm(LOOKUP3.resok)
        BY DEF IsArm, LOOKUP3, F, SizeTypes, Sizes
    <2>3. Begins(LOOKUP3.resfail, LOOKUP3.resok)
        BY DEF Begins, LOOKUP3, F
    <2>4. Distinct(LOOKUP3.resok)
        BY DEF Distinct, LOOKUP3, F
    <2>5. Names(xdr_LOOKUP3.resok, LOOKUP3.resok)
        BY DEF Names, Range, xdr_LOOKUP3, LOOKUP3, F
    <2>6. Names(xdr_LOOKUP3.resfail, LOOKUP3.resfail)
        BY DEF Names, Range, xdr_LOOKUP3, LOOKUP3, F
    <2> QED
        BY <2>1, <2>2, <2>3, <2>4, <2>5, <2>6 DEF Laid
<1>4. Laid("ACCESS")
    <2>1. Decl["ACCESS"] = ACCESS3 /\ Wire["ACCESS"] = xdr_ACCESS3
        BY DEF Decl, Wire
    <2>2. IsArm(ACCESS3.resok)
        BY DEF IsArm, ACCESS3, F, SizeTypes, Sizes
    <2>3. Begins(ACCESS3.resfail, ACCESS3.resok)
        BY DEF Begins, ACCESS3, F
    <2>4. Distinct(ACCESS3.resok)
        BY DEF Distinct, ACCESS3, F
    <2>5. Names(xdr_ACCESS3.resok, ACCESS3.resok)
        BY DEF Names, Range, xdr_ACCESS3, ACCESS3, F
    <2>6. Names(xdr_ACCESS3.resfail, ACCESS3.resfail)
        BY DEF Names, Range, xdr_ACCESS3, ACCESS3, F
    <2> QED
        BY <2>1, <2>2, <2>3, <2>4, <2>5, <2>6 DEF Laid
<1>5. Laid("READLINK")
    <2>1. Decl["READLINK"] = READLINK3 /\ Wire["READLINK"] = xdr_READLINK3
        BY DEF Decl, Wire
    <2>2. IsArm(READLINK3.resok)
        BY DEF IsArm, READLINK3, F, SizeTypes, Sizes
    <2>3. Begins(READLINK3.resfail, READLINK3.resok)
        BY DEF Begins, READLINK3, F
    <2>4. Distinct(READLINK3.resok)
        BY DEF Distinct, READLINK3, F
    <2>5. Names(xdr_READLINK3.resok, READLINK3.resok)
        BY DEF Names, Range, xdr_READLINK3, READLINK3, F
    <2>6. Names(xdr_READLINK3.resfail, READLINK3.resfail)
        BY DEF Names, Range, xdr_READLINK3, READLINK3, F
    <2> QED
        BY <2>1, <2>2, <2>3, <2>4, <2>5, <2>6 DEF Laid
<1>6. Laid("READ")
    <2>1. Decl["READ"] = READ3 /\ Wire["READ"] = xdr_READ3
        BY DEF Decl, Wire
    <2>2. IsArm(READ3.resok)
        BY DEF IsArm, READ3, F, SizeTypes, Sizes
    <2>3. Begins(READ3.resfail, READ3.resok)
        BY DEF Begins, READ3, F
    <2>4. Distinct(READ3.resok)
        BY DEF Distinct, READ3, F
    <2>5. Names(xdr_READ3.resok, READ3.resok)
        BY DEF Names, Range, xdr_READ3, READ3, F
    <2>6. Names(xdr_READ3.resfail, READ3.resfail)
        BY DEF Names, Range, xdr_READ3, READ3, F
    <2> QED
        BY <2>1, <2>2, <2>3, <2>4, <2>5, <2>6 DEF Laid
<1>7. Laid("WRITE")
    <2>1. Decl["WRITE"] = WRITE3 /\ Wire["WRITE"] = xdr_WRITE3
        BY DEF Decl, Wire
    <2>2. IsArm(WRITE3.resok)
        BY DEF IsArm, WRITE3, F, SizeTypes, Sizes
    <2>3. Begins(WRITE3.resfail, WRITE3.resok)
        BY DEF Begins, WRITE3, F
    <2>4. Distinct(WRITE3.resok)
        BY DEF Distinct, WRITE3, F
    <2>5. Names(xdr_WRITE3.resok, WRITE3.resok)
        BY DEF Names, Range, xdr_WRITE3, WRITE3, F
    <2>6. Names(xdr_WRITE3.resfail, WRITE3.resfail)
        BY DEF Names, Range, xdr_WRITE3, WRITE3, F
    <2> QED
        BY <2>1, <2>2, <2>3, <2>4, <2>5, <2>6 DEF Laid
<1>8. Laid("CREATE")
    <2>1. Decl["CREATE"] = CREATE3 /\ Wire["CREATE"] = xdr_CREATE3
        BY DEF Decl, Wire
    <2>2. IsArm(CREATE3.resok)
        BY DEF IsArm, CREATE3, F, SizeTypes, Sizes, Made
    <2>3. Begins(CREATE3.resfail, CREATE3.resok)
        BY DEF Begins, CREATE3, F, Made
    <2>4. Distinct(CREATE3.resok)
        BY DEF Distinct, CREATE3, F, Made
    <2>5. Names(xdr_CREATE3.resok, CREATE3.resok)
        BY DEF Names, Range, xdr_CREATE3, CREATE3, F, Made, MadeOk
    <2>6. Names(xdr_CREATE3.resfail, CREATE3.resfail)
        BY DEF Names, Range, xdr_CREATE3, CREATE3, F, Made, MadeOk
    <2> QED
        BY <2>1, <2>2, <2>3, <2>4, <2>5, <2>6 DEF Laid
<1>9. Laid("MKDIR")
    <2>1. Decl["MKDIR"] = MKDIR3 /\ Wire["MKDIR"] = xdr_MKDIR3
        BY DEF Decl, Wire
    <2>2. IsArm(MKDIR3.resok)
        BY DEF IsArm, MKDIR3, F, SizeTypes, Sizes, Made
    <2>3. Begins(MKDIR3.resfail, MKDIR3.resok)
        BY DEF Begins, MKDIR3, F, Made
    <2>4. Distinct(MKDIR3.resok)
        BY DEF Distinct, MKDIR3, F, Made
    <2>5. Names(xdr_MKDIR3.resok, MKDIR3.resok)
        BY DEF Names, Range, xdr_MKDIR3, MKDIR3, F, Made, MadeOk
    <2>6. Names(xdr_MKDIR3.resfail, MKDIR3.resfail)
        BY DEF Names, Range, xdr_MKDIR3, MKDIR3, F, Made, MadeOk
    <2> QED
        BY <2>1, <2>2, <2>3, <2>4, <2>5, <2>6 DEF Laid
<1>10. Laid("SYMLINK")
    <2>1. Decl["SYMLINK"] = SYMLINK3 /\ Wire["SYMLINK"] = xdr_SYMLINK3
        BY DEF Decl, Wire
    <2>2. IsArm(SYMLINK3.resok)
        BY DEF IsArm, SYMLINK3, F, SizeTypes, Sizes, Made
    <2>3. Begins(SYMLINK3.resfail, SYMLINK3.resok)
        BY DEF Begins, SYMLINK3, F, Made
    <2>4. Distinct(SYMLINK3.resok)
        BY DEF Distinct, SYMLINK3, F, Made
    <2>5. Names(xdr_SYMLINK3.resok, SYMLINK3.resok)
        BY DEF Names, Range, xdr_SYMLINK3, SYMLINK3, F, Made, MadeOk
    <2>6. Names(xdr_SYMLINK3.resfail, SYMLINK3.resfail)
        BY DEF Names, Range, xdr_SYMLINK3, SYMLINK3, F, Made, MadeOk
    <2> QED
        BY <2>1, <2>2, <2>3, <2>4, <2>5, <2>6 DEF Laid
<1>11. Laid("MKNOD")
    <2>1. Decl["MKNOD"] = MKNOD3 /\ Wire["MKNOD"] = xdr_MKNOD3
        BY DEF Decl, Wire
    <2>2. IsArm(MKNOD3.resok)
        BY DEF IsArm, MKNOD3, F, SizeTypes, Sizes, Made
    <2>3. Begins(MKNOD3.resfail, MKNOD3.resok)
        BY DEF Begins, MKNOD3, F, Made
    <2>4. Distinct(MKNOD3.resok)
        BY DEF Distinct, MKNOD3, F, Made
    <2>5. Names(xdr_MKNOD3.resok, MKNOD3.resok)
        BY DEF Names, Range, xdr_MKNOD3, MKNOD3, F, Made, MadeOk
    <2>6. Names(xdr_MKNOD3.resfail, MKNOD3.resfail)
        BY DEF Names, Range, xdr_MKNOD3, MKNOD3, F, Made, MadeOk
    <2> QED
        BY <2>1, <2>2, <2>3, <2>4, <2>5, <2>6 DEF Laid
<1>12. Laid("REMOVE")
    <2>1. Decl["REMOVE"] = REMOVE3 /\ Wire["REMOVE"] = xdr_REMOVE3
        BY DEF Decl, Wire
    <2>2. IsArm(REMOVE3.resok)
        BY DEF IsArm, REMOVE3, F, SizeTypes, Sizes
    <2>3. Begins(REMOVE3.resfail, REMOVE3.resok)
        BY DEF Begins, REMOVE3, F
    <2>4. Distinct(REMOVE3.resok)
        BY DEF Distinct, REMOVE3, F
    <2>5. Names(xdr_REMOVE3.resok, REMOVE3.resok)
        BY DEF Names, Range, xdr_REMOVE3, REMOVE3, F
    <2>6. Names(xdr_REMOVE3.resfail, REMOVE3.resfail)
        BY DEF Names, Range, xdr_REMOVE3, REMOVE3, F
    <2> QED
        BY <2>1, <2>2, <2>3, <2>4, <2>5, <2>6 DEF Laid
<1>13. Laid("RMDIR")
    <2>1. Decl["RMDIR"] = RMDIR3 /\ Wire["RMDIR"] = xdr_RMDIR3
        BY DEF Decl, Wire
    <2>2. IsArm(RMDIR3.resok)
        BY DEF IsArm, RMDIR3, F, SizeTypes, Sizes
    <2>3. Begins(RMDIR3.resfail, RMDIR3.resok)
        BY DEF Begins, RMDIR3, F
    <2>4. Distinct(RMDIR3.resok)
        BY DEF Distinct, RMDIR3, F
    <2>5. Names(xdr_RMDIR3.resok, RMDIR3.resok)
        BY DEF Names, Range, xdr_RMDIR3, RMDIR3, F
    <2>6. Names(xdr_RMDIR3.resfail, RMDIR3.resfail)
        BY DEF Names, Range, xdr_RMDIR3, RMDIR3, F
    <2> QED
        BY <2>1, <2>2, <2>3, <2>4, <2>5, <2>6 DEF Laid
<1>14. Laid("RENAME")
    <2>1. Decl["RENAME"] = RENAME3 /\ Wire["RENAME"] = xdr_RENAME3
        BY DEF Decl, Wire
    <2>2. IsArm(RENAME3.resok)
        BY DEF IsArm, RENAME3, F, SizeTypes, Sizes
    <2>3. Begins(RENAME3.resfail, RENAME3.resok)
        BY DEF Begins, RENAME3, F
    <2>4. Distinct(RENAME3.resok)
        BY DEF Distinct, RENAME3, F
    <2>5. Names(xdr_RENAME3.resok, RENAME3.resok)
        BY DEF Names, Range, xdr_RENAME3, RENAME3, F
    <2>6. Names(xdr_RENAME3.resfail, RENAME3.resfail)
        BY DEF Names, Range, xdr_RENAME3, RENAME3, F
    <2> QED
        BY <2>1, <2>2, <2>3, <2>4, <2>5, <2>6 DEF Laid
<1>15. Laid("LINK")
    <2>1. Decl["LINK"] = LINK3 /\ Wire["LINK"] = xdr_LINK3
        BY DEF Decl, Wire
    <2>2. IsArm(LINK3.resok)
        BY DEF IsArm, LINK3, F, SizeTypes, Sizes
    <2>3. Begins(LINK3.resfail, LINK3.resok)
        BY DEF Begins, LINK3, F
    <2>4. Distinct(LINK3.resok)
        BY DEF Distinct, LINK3, F
    <2>5. Names(xdr_LINK3.resok, LINK3.resok)
        BY DEF Names, Range, xdr_LINK3, LINK3, F
    <2>6. Names(xdr_LINK3.resfail, LINK3.resfail)
        BY DEF Names, Range, xdr_LINK3, LINK3, F
    <2> QED
        BY <2>1, <2>2, <2>3, <2>4, <2>5, <2>6 DEF Laid
<1>16. Laid("READDIR")
    <2>1. Decl["READDIR"] = READDIR3 /\ Wire["READDIR"] = xdr_READDIR3
        BY DEF Decl, Wire
    <2>2. IsArm(READDIR3.resok)
        BY DEF IsArm, READDIR3, F, SizeTypes, Sizes
    <2>3. Begins(READDIR3.resfail, READDIR3.resok)
        BY DEF Begins, READDIR3, F
    <2>4. Distinct(READDIR3.resok)
        BY DEF Distinct, READDIR3, F
    <2>5. Names(xdr_READDIR3.resok, READDIR3.resok)
        BY DEF Names, Range, xdr_READDIR3, READDIR3, F
    <2>6. Names(xdr_READDIR3.resfail, READDIR3.resfail)
        BY DEF Names, Range, xdr_READDIR3, READDIR3, F
    <2> QED
        BY <2>1, <2>2, <2>3, <2>4, <2>5, <2>6 DEF Laid
<1>17. Laid("READDIRPLUS")
    <2>1. Decl["READDIRPLUS"] = READDIRPLUS3 /\ Wire["READDIRPLUS"] = xdr_READDIRPLUS3
        BY DEF Decl, Wire
    <2>2. IsArm(READDIRPLUS3.resok)
        BY DEF IsArm, READDIRPLUS3, F, SizeTypes, Sizes
    <2>3. Begins(READDIRPLUS3.resfail, READDIRPLUS3.resok)
        BY DEF Begins, READDIRPLUS3, F
    <2>4. Distinct(READDIRPLUS3.resok)
        BY DEF Distinct, READDIRPLUS3, F
    <2>5. Names(xdr_READDIRPLUS3.resok, READDIRPLUS3.resok)
        BY DEF Names, Range, xdr_READDIRPLUS3, READDIRPLUS3, F
    <2>6. Names(xdr_READDIRPLUS3.resfail, READDIRPLUS3.resfail)
        BY DEF Names, Range, xdr_READDIRPLUS3, READDIRPLUS3, F
    <2> QED
        BY <2>1, <2>2, <2>3, <2>4, <2>5, <2>6 DEF Laid
<1>18. Laid("FSSTAT")
    <2>1. Decl["FSSTAT"] = FSSTAT3 /\ Wire["FSSTAT"] = xdr_FSSTAT3
        BY DEF Decl, Wire
    <2>2. IsArm(FSSTAT3.resok)
        BY DEF IsArm, FSSTAT3, F, SizeTypes, Sizes
    <2>3. Begins(FSSTAT3.resfail, FSSTAT3.resok)
        BY DEF Begins, FSSTAT3, F
    <2>4. Distinct(FSSTAT3.resok)
        BY DEF Distinct, FSSTAT3, F
    <2>5. Names(xdr_FSSTAT3.resok, FSSTAT3.resok)
        BY DEF Names, Range, xdr_FSSTAT3, FSSTAT3, F
    <2>6. Names(xdr_FSSTAT3.resfail, FSSTAT3.resfail)
        BY DEF Names, Range, xdr_FSSTAT3, FSSTAT3, F
    <2> QED
        BY <2>1, <2>2, <2>3, <2>4, <2>5, <2>6 DEF Laid
<1>19. Laid("FSINFO")
    <2>1. Decl["FSINFO"] = FSINFO3 /\ Wire["FSINFO"] = xdr_FSINFO3
        BY DEF Decl, Wire
    <2>2. IsArm(FSINFO3.resok)
        BY DEF IsArm, FSINFO3, F, SizeTypes, Sizes
    <2>3. Begins(FSINFO3.resfail, FSINFO3.resok)
        BY DEF Begins, FSINFO3, F
    <2>4. Distinct(FSINFO3.resok)
        BY DEF Distinct, FSINFO3, F
    <2>5. Names(xdr_FSINFO3.resok, FSINFO3.resok)
        BY DEF Names, Range, xdr_FSINFO3, FSINFO3, F
    <2>6. Names(xdr_FSINFO3.resfail, FSINFO3.resfail)
        BY DEF Names, Range, xdr_FSINFO3, FSINFO3, F
    <2> QED
        BY <2>1, <2>2, <2>3, <2>4, <2>5, <2>6 DEF Laid
<1>20. Laid("PATHCONF")
    <2>1. Decl["PATHCONF"] = PATHCONF3 /\ Wire["PATHCONF"] = xdr_PATHCONF3
        BY DEF Decl, Wire
    <2>2. IsArm(PATHCONF3.resok)
        BY DEF IsArm, PATHCONF3, F, SizeTypes, Sizes
    <2>3. Begins(PATHCONF3.resfail, PATHCONF3.resok)
        BY DEF Begins, PATHCONF3, F
    <2>4. Distinct(PATHCONF3.resok)
        BY DEF Distinct, PATHCONF3, F
    <2>5. Names(xdr_PATHCONF3.resok, PATHCONF3.resok)
        BY DEF Names, Range, xdr_PATHCONF3, PATHCONF3, F
    <2>6. Names(xdr_PATHCONF3.resfail, PATHCONF3.resfail)
        BY DEF Names, Range, xdr_PATHCONF3, PATHCONF3, F
    <2> QED
        BY <2>1, <2>2, <2>3, <2>4, <2>5, <2>6 DEF Laid
<1>21. Laid("COMMIT")
    <2>1. Decl["COMMIT"] = COMMIT3 /\ Wire["COMMIT"] = xdr_COMMIT3
        BY DEF Decl, Wire
    <2>2. IsArm(COMMIT3.resok)
        BY DEF IsArm, COMMIT3, F, SizeTypes, Sizes
    <2>3. Begins(COMMIT3.resfail, COMMIT3.resok)
        BY DEF Begins, COMMIT3, F
    <2>4. Distinct(COMMIT3.resok)
        BY DEF Distinct, COMMIT3, F
    <2>5. Names(xdr_COMMIT3.resok, COMMIT3.resok)
        BY DEF Names, Range, xdr_COMMIT3, COMMIT3, F
    <2>6. Names(xdr_COMMIT3.resfail, COMMIT3.resfail)
        BY DEF Names, Range, xdr_COMMIT3, COMMIT3, F
    <2> QED
        BY <2>1, <2>2, <2>3, <2>4, <2>5, <2>6 DEF Laid
<1>22. Laid("MNT")
    <2>1. Decl["MNT"] = mountres3 /\ Wire["MNT"] = xdr_mountres3
        BY DEF Decl, Wire
    <2>2. IsArm(mountres3.resok)
        BY DEF IsArm, mountres3, F, SizeTypes, Sizes
    <2>3. Begins(mountres3.resfail, mountres3.resok)
        BY DEF Begins, mountres3, F
    <2>4. Distinct(mountres3.resok)
        BY DEF Distinct, mountres3, F
    <2>5. Names(xdr_mountres3.resok, mountres3.resok)
        BY DEF Names, Range, xdr_mountres3, mountres3, F
    <2>6. Names(xdr_mountres3.resfail, mountres3.resfail)
        BY DEF Names, Range, xdr_mountres3, mountres3, F
    <2> QED
        BY <2>1, <2>2, <2>3, <2>4, <2>5, <2>6 DEF Laid
<1> QED
    BY ProcsAre, <1>1, <1>2, <1>3, <1>4, <1>5, <1>6, <1>7, <1>8,
       <1>9, <1>10, <1>11, <1>12, <1>13, <1>14, <1>15, <1>16,
       <1>17, <1>18, <1>19, <1>20, <1>21, <1>22
       DEF ProcNames

\* What a reply shows for a field, from the writers m of a result.
ShownIn(p, a, m, f) ==
    LET arm == Decl[p][a]
        i   == CHOOSE k \in DOMAIN arm : arm[k].name = f.name
    IN  {<<g.name, m[g.name]>> : g \in Under(p, arm, i)}

\* So what the encoder reads for a field is exactly the field of that name, though the
\* failure arm is written by way of resok.
LEMMA ShownIs ==
    ASSUME NEW p \in Procs, NEW a \in Arms, NEW m, NEW f \in Range(Wire[p][a])
    PROVE  /\ ShownIn(p, a, m, f) = {<<f.name, m[f.name]>>}
           /\ f.name \in {g.name : g \in Range(Decl[p].resok)}
<1> DEFINE arm == Decl[p][a]
           ok  == Decl[p].resok
           i   == CHOOSE k \in DOMAIN arm : arm[k].name = f.name
<1>1. IsArm(ok) /\ Begins(Decl[p].resfail, ok) /\ Distinct(ok)
    BY LaidOut DEF Laid
<1>2. Begins(ok, ok)
    BY <1>1 DEF IsArm, Begins
<1>3. Begins(arm, ok)
    BY <1>1, <1>2 DEF Arms
<1>4. \E k \in 1..Len(arm) : arm[k].name = f.name
    <2>1. Names(Wire[p].resok, ok) /\ Names(Wire[p].resfail, Decl[p].resfail)
        BY LaidOut DEF Laid
    <2>2. Names(Wire[p][a], arm)
        BY <2>1 DEF Arms
    <2> QED
        BY <2>2 DEF Names
<1> HIDE DEF ok, arm
<1>5. i \in 1..Len(arm) /\ arm[i].name = f.name
    BY <1>3, <1>4 DEF Begins
<1>u. Under(p, arm, i) = {ok[j] : j \in {k \in DOMAIN ok : CellsOf(ok, k) \cap CellsOf(arm, i) # {}}}
    BY DEF Under, ok
<1> HIDE DEF i
<1>6. DOMAIN ok = 1..Len(ok) /\ i \in 1..Len(ok) /\ arm[i] = ok[i] /\ Len(ok) \in Nat
    BY <1>1, <1>3, <1>5 DEF IsArm, Begins
<1>7. {k \in DOMAIN ok : CellsOf(ok, k) \cap CellsOf(arm, i) # {}} = {i}
    <2>1. \A k \in 1..Len(ok) : CellsOf(ok, k) \cap CellsOf(arm, i) # {} <=> k = i
        BY <1>1, <1>3, <1>5, CellsMeet
    <2> QED
        BY <2>1, <1>6
<1>8. Under(p, arm, i) = {ok[i]}
    BY <1>u, <1>7
<1>9. ShownIn(p, a, m, f) = {<<g.name, m[g.name]>> : g \in Under(p, arm, i)}
    BY DEF ShownIn, arm, i
<1>10. ok[i].name = f.name
    BY <1>5, <1>6
<1>11. ok[i] \in Range(ok)
    BY <1>6 DEF Range
<1> QED
    BY <1>8, <1>9, <1>10, <1>11 DEF ok

----------------------------------------------------------------------------
(* What the handlers leave.                                                 *)

\* The status codes of failures.
Bad == Statuses \ {nfsstat3.OK}

\* The codes the handlers name are codes of the protocol.
LEMMA StatusFacts ==
    /\ nfsstat3.OK \in Statuses
    /\ nfsstat3.PERM \in Bad /\ nfsstat3.NOENT \in Bad /\ nfsstat3.IO \in Bad
    /\ nfsstat3.NXIO \in Bad /\ nfsstat3.ACCES \in Bad /\ nfsstat3.EXIST \in Bad
    /\ nfsstat3.XDEV \in Bad /\ nfsstat3.NOTDIR \in Bad /\ nfsstat3.INVAL \in Bad
    /\ nfsstat3.ROFS \in Bad /\ nfsstat3.NAMETOOLONG \in Bad /\ nfsstat3.STALE \in Bad
    /\ nfsstat3.NOTSUPP \in Bad /\ nfsstat3.NOTEMPTY \in Bad
    /\ errnos.ENOENT \in Bad
BY DEF Statuses, Bad, nfsstat3, errnos

\* An errno of the table has a code of the protocol that is not NFS3_OK.
LEMMA LikeFacts ==
    \A e \in {"EPERM", "ENOENT", "EACCES", "EEXIST", "EXDEV", "ENOTDIR", "EISDIR", "EINVAL",
              "EFBIG", "ENOSPC", "EROFS", "EMLINK", "ENOTEMPTY", "EDQUOT"} : Like[e] \in Bad
BY DEF Statuses, Bad, nfsstat3, Like

\* No error routine returns NFS3_OK, whatever errno is.
LEMMA ErrsBad ==
    /\ Errs(setattr_err) \subseteq Bad
    /\ Errs(lookup_err) \subseteq Bad
    /\ Errs(read_err) \subseteq Bad
    /\ Errs(write_open_err) \subseteq Bad
    /\ Errs(write_write_err) \subseteq Bad
    /\ Errs(create_err) \subseteq Bad
    /\ Errs(mkdir_err) \subseteq Bad
    /\ Errs(remove_err) \subseteq Bad
    /\ Errs(rmdir_err) \subseteq Bad
    /\ Errs(rename_err) \subseteq Bad
    /\ Errs(readdir_err) \subseteq Bad
<1>1. \A e : setattr_err(e) \in Bad
    BY StatusFacts, LikeFacts DEF setattr_err
<1>2. \A e : lookup_err(e) \in Bad
    BY StatusFacts, LikeFacts DEF lookup_err
<1>3. \A e : read_err(e) \in Bad
    BY StatusFacts, LikeFacts DEF read_err
<1>4. \A e : write_open_err(e) \in Bad
    BY StatusFacts, LikeFacts DEF write_open_err
<1>5. \A e : write_write_err(e) \in Bad
    BY StatusFacts, LikeFacts DEF write_write_err
<1>6. \A e : create_err(e) \in Bad
    BY StatusFacts, LikeFacts DEF create_err
<1>7. \A e : mkdir_err(e) \in Bad
    BY StatusFacts, LikeFacts DEF mkdir_err, symlink_err
<1>8. \A e : remove_err(e) \in Bad
    BY StatusFacts, LikeFacts DEF remove_err
<1>9. \A e : rmdir_err(e) \in Bad
    BY <1>8, StatusFacts DEF rmdir_err
<1>10. \A e : rename_err(e) \in Bad
    BY StatusFacts, LikeFacts DEF rename_err
<1>11. \A e : readdir_err(e) \in Bad
    BY StatusFacts, LikeFacts DEF readdir_err
<1> QED
    BY <1>1, <1>2, <1>3, <1>4, <1>5, <1>6, <1>7, <1>8, <1>9, <1>10, <1>11 DEF Errs

\* The arm of the result a status selects.
ArmOf(s) == IF s = nfsstat3.OK THEN "resok" ELSE "resfail"

\* Only a failing READ leaves part of a field undefined.
TornOnly(p, o) ==
    \/ o.torn = {}
    \/ p = "READ" /\ o.status \in Bad /\ o.torn = {"file_attributes"}

\* The outcome o of a call of p writes every field its reply shows.
Fills(p, o) ==
    /\ o.status \in Statuses
    /\ \A f \in Range(Wire[p][ArmOf(o.status)]) : f.name \in o.writes
    /\ TornOnly(p, o)

NotSupported == {"READLINK", "SYMLINK", "MKNOD", "LINK", "READDIRPLUS", "COMMIT"}

\* okFields are the fields of resok and badFields those of resfail.
Covers(p, okFields, badFields) ==
    /\ \A o \in Handler[p] : TornOnly(p, o)
    /\ \A f \in Range(Wire[p].resok) : f.name \in okFields
    /\ \A f \in Range(Wire[p].resfail) : f.name \in badFields
    /\ \A o \in Handler[p] :
          \/ o.status = nfsstat3.OK /\ okFields \subseteq o.writes
          \/ o.status \in Bad /\ badFields \subseteq o.writes

\* An outcome that writes these fields fills the reply.
LEMMA CoversFills ==
    ASSUME NEW p, NEW okFields, NEW badFields, Covers(p, okFields, badFields), NEW o \in Handler[p]
    PROVE  Fills(p, o)
BY StatusFacts DEF Covers, Fills, ArmOf, Bad

\* Every way through every handler writes all fields the reply of its status shows,
\* handler by handler.
LEMMA HandlersFill ==
    \A p \in Procs \ NotSupported : \A o \in Handler[p] : Fills(p, o)
<1>1. \A o \in Handler["GETATTR"] : Fills("GETATTR", o)
    <2> DEFINE okFields == {"obj_attributes"}
               badFields == {}
    <2>1. Handler["GETATTR"] = nfsproc3_getattr /\ Wire["GETATTR"] = xdr_GETATTR3
        BY DEF Handler, Wire
    <2>2. /\ \A f \in Range(xdr_GETATTR3.resok) : f.name \in okFields
          /\ \A f \in Range(xdr_GETATTR3.resfail) : f.name \in badFields
        BY DEF Range, xdr_GETATTR3, F
    <2>3. \A o \in nfsproc3_getattr :
          /\ \/ o.status = nfsstat3.OK /\ okFields \subseteq o.writes
             \/ o.status \in Bad /\ badFields \subseteq o.writes
          /\ TornOnly("GETATTR", o)
        BY StatusFacts, ErrsBad DEF nfsproc3_getattr, Leaves, TornOnly
    <2> HIDE DEF okFields, badFields
    <2>4. Covers("GETATTR", okFields, badFields)
        BY <2>1, <2>2, <2>3 DEF Covers
    <2> QED
        BY <2>4, CoversFills
<1>2. \A o \in Handler["SETATTR"] : Fills("SETATTR", o)
    <2> DEFINE okFields == {"obj_wcc"}
               badFields == {"obj_wcc"}
    <2>1. Handler["SETATTR"] = nfsproc3_setattr /\ Wire["SETATTR"] = xdr_SETATTR3
        BY DEF Handler, Wire
    <2>2. /\ \A f \in Range(xdr_SETATTR3.resok) : f.name \in okFields
          /\ \A f \in Range(xdr_SETATTR3.resfail) : f.name \in badFields
        BY DEF Range, xdr_SETATTR3, F
    <2>3. \A o \in nfsproc3_setattr :
          /\ \/ o.status = nfsstat3.OK /\ okFields \subseteq o.writes
             \/ o.status \in Bad /\ badFields \subseteq o.writes
          /\ TornOnly("SETATTR", o)
        BY StatusFacts, ErrsBad DEF nfsproc3_setattr, Leaves, TornOnly, exports_rw
    <2> HIDE DEF okFields, badFields
    <2>4. Covers("SETATTR", okFields, badFields)
        BY <2>1, <2>2, <2>3 DEF Covers
    <2> QED
        BY <2>4, CoversFills
<1>3. \A o \in Handler["LOOKUP"] : Fills("LOOKUP", o)
    <2> DEFINE okFields == {"object", "obj_attributes", "dir_attributes"}
               badFields == {"dir_attributes"}
    <2>1. Handler["LOOKUP"] = nfsproc3_lookup /\ Wire["LOOKUP"] = xdr_LOOKUP3
        BY DEF Handler, Wire
    <2>2. /\ \A f \in Range(xdr_LOOKUP3.resok) : f.name \in okFields
          /\ \A f \in Range(xdr_LOOKUP3.resfail) : f.name \in badFields
        BY DEF Range, xdr_LOOKUP3, F
    <2>3. \A o \in nfsproc3_lookup :
          /\ \/ o.status = nfsstat3.OK /\ okFields \subseteq o.writes
             \/ o.status \in Bad /\ badFields \subseteq o.writes
          /\ TornOnly("LOOKUP", o)
        BY StatusFacts, ErrsBad DEF nfsproc3_lookup, Leaves, TornOnly, Failures, cat_name
    <2> HIDE DEF okFields, badFields
    <2>4. Covers("LOOKUP", okFields, badFields)
        BY <2>1, <2>2, <2>3 DEF Covers
    <2> QED
        BY <2>4, CoversFills
<1>4. \A o \in Handler["ACCESS"] : Fills("ACCESS", o)
    <2> DEFINE okFields == {"access", "obj_attributes"}
               badFields == {"obj_attributes"}
    <2>1. Handler["ACCESS"] = nfsproc3_access /\ Wire["ACCESS"] = xdr_ACCESS3
        BY DEF Handler, Wire
    <2>2. /\ \A f \in Range(xdr_ACCESS3.resok) : f.name \in okFields
          /\ \A f \in Range(xdr_ACCESS3.resfail) : f.name \in badFields
        BY DEF Range, xdr_ACCESS3, F
    <2>3. \A o \in nfsproc3_access :
          /\ \/ o.status = nfsstat3.OK /\ okFields \subseteq o.writes
             \/ o.status \in Bad /\ badFields \subseteq o.writes
          /\ TornOnly("ACCESS", o)
        BY StatusFacts, ErrsBad DEF nfsproc3_access, Leaves, TornOnly
    <2> HIDE DEF okFields, badFields
    <2>4. Covers("ACCESS", okFields, badFields)
        BY <2>1, <2>2, <2>3 DEF Covers
    <2> QED
        BY <2>4, CoversFills
<1>5. \A o \in Handler["READ"] : Fills("READ", o)
    <2> DEFINE okFields == {"count", "data", "eof", "file_attributes"}
               badFields == {"file_attributes"}
    <2>1. Handler["READ"] = nfsproc3_read /\ Wire["READ"] = xdr_READ3
        BY DEF Handler, Wire
    <2>2. /\ \A f \in Range(xdr_READ3.resok) : f.name \in okFields
          /\ \A f \in Range(xdr_READ3.resfail) : f.name \in badFields
        BY DEF Range, xdr_READ3, F
    <2>3. \A o \in nfsproc3_read :
          /\ \/ o.status = nfsstat3.OK /\ okFields \subseteq o.writes
             \/ o.status \in Bad /\ badFields \subseteq o.writes
          /\ TornOnly("READ", o)
        <3>1. Failures(is_reg) \subseteq Bad
            BY StatusFacts DEF Failures, is_reg
        <3> DEFINE Early == {[Leaves(s, {"file_attributes"}) EXCEPT !.torn = {"file_attributes"}] :
                               s \in Failures(is_reg) \cup Errs(read_err)}
        <3>2. ASSUME NEW o \in Early
              PROVE  o.status \in Bad /\ o.writes = {"file_attributes"} /\ o.torn = {"file_attributes"}
            BY <3>1, ErrsBad DEF Leaves
        <3>3. ASSUME NEW o \in {Leaves(s, {"file_attributes"}) : s \in Errs(read_err)}
              PROVE  o.status \in Bad /\ o.writes = {"file_attributes"} /\ o.torn = {}
            BY ErrsBad DEF Leaves
        <3>4. ASSUME NEW o \in {Leaves(nfsstat3.OK, okFields)}
              PROVE  o.status = nfsstat3.OK /\ o.writes = okFields /\ o.torn = {}
            BY DEF Leaves
        <3>5. nfsproc3_read = {Leaves(s, {"file_attributes"}) : s \in Errs(read_err)} \cup Early
                                \cup {Leaves(nfsstat3.OK, okFields)}
            BY DEF nfsproc3_read
        <3> HIDE DEF Early
        <3> QED
            BY <3>2, <3>3, <3>4, <3>5 DEF TornOnly
    <2> HIDE DEF okFields, badFields
    <2>4. Covers("READ", okFields, badFields)
        BY <2>1, <2>2, <2>3 DEF Covers
    <2> QED
        BY <2>4, CoversFills
<1>6. \A o \in Handler["WRITE"] : Fills("WRITE", o)
    <2> DEFINE okFields == {"count", "committed", "verf", "file_wcc"}
               badFields == {"file_wcc"}
    <2>1. Handler["WRITE"] = nfsproc3_write /\ Wire["WRITE"] = xdr_WRITE3
        BY DEF Handler, Wire
    <2>2. /\ \A f \in Range(xdr_WRITE3.resok) : f.name \in okFields
          /\ \A f \in Range(xdr_WRITE3.resfail) : f.name \in badFields
        BY DEF Range, xdr_WRITE3, F
    <2>3. \A o \in nfsproc3_write :
          /\ \/ o.status = nfsstat3.OK /\ okFields \subseteq o.writes
             \/ o.status \in Bad /\ badFields \subseteq o.writes
          /\ TornOnly("WRITE", o)
        BY StatusFacts, ErrsBad DEF nfsproc3_write, Leaves, TornOnly, Failures, Joined, join, is_reg, exports_rw
    <2> HIDE DEF okFields, badFields
    <2>4. Covers("WRITE", okFields, badFields)
        BY <2>1, <2>2, <2>3 DEF Covers
    <2> QED
        BY <2>4, CoversFills
<1>7. \A o \in Handler["CREATE"] : Fills("CREATE", o)
    <2> DEFINE okFields == {"obj", "obj_attributes", "dir_wcc"}
               badFields == {"dir_wcc"}
    <2>1. Handler["CREATE"] = nfsproc3_create /\ Wire["CREATE"] = xdr_CREATE3
        BY DEF Handler, Wire
    <2>2. /\ \A f \in Range(xdr_CREATE3.resok) : f.name \in okFields
          /\ \A f \in Range(xdr_CREATE3.resfail) : f.name \in badFields
        BY DEF Range, xdr_CREATE3, F, MadeOk
    <2>3. \A o \in nfsproc3_create :
          /\ \/ o.status = nfsstat3.OK /\ okFields \subseteq o.writes
             \/ o.status \in Bad /\ badFields \subseteq o.writes
          /\ TornOnly("CREATE", o)
        BY StatusFacts, ErrsBad DEF nfsproc3_create, Leaves, TornOnly, Failures, Joined, join, cat_name, exports_rw,
               atomic_attr
    <2> HIDE DEF okFields, badFields
    <2>4. Covers("CREATE", okFields, badFields)
        BY <2>1, <2>2, <2>3 DEF Covers
    <2> QED
        BY <2>4, CoversFills
<1>8. \A o \in Handler["MKDIR"] : Fills("MKDIR", o)
    <2> DEFINE okFields == {"obj", "obj_attributes", "dir_wcc"}
               badFields == {"dir_wcc"}
    <2>1. Handler["MKDIR"] = nfsproc3_mkdir /\ Wire["MKDIR"] = xdr_MKDIR3
        BY DEF Handler, Wire
    <2>2. /\ \A f \in Range(xdr_MKDIR3.resok) : f.name \in okFields
          /\ \A f \in Range(xdr_MKDIR3.resfail) : f.name \in badFields
        BY DEF Range, xdr_MKDIR3, F, MadeOk
    <2>3. \A o \in nfsproc3_mkdir :
          /\ \/ o.status = nfsstat3.OK /\ okFields \subseteq o.writes
             \/ o.status \in Bad /\ badFields \subseteq o.writes
          /\ TornOnly("MKDIR", o)
        BY StatusFacts, ErrsBad DEF nfsproc3_mkdir, Leaves, TornOnly, Failures, join3, join, cat_name, exports_rw,
               atomic_attr
    <2> HIDE DEF okFields, badFields
    <2>4. Covers("MKDIR", okFields, badFields)
        BY <2>1, <2>2, <2>3 DEF Covers
    <2> QED
        BY <2>4, CoversFills
<1>9. \A o \in Handler["REMOVE"] : Fills("REMOVE", o)
    <2> DEFINE okFields == {"dir_wcc"}
               badFields == {"dir_wcc"}
    <2>1. Handler["REMOVE"] = nfsproc3_remove /\ Wire["REMOVE"] = xdr_REMOVE3
        BY DEF Handler, Wire
    <2>2. /\ \A f \in Range(xdr_REMOVE3.resok) : f.name \in okFields
          /\ \A f \in Range(xdr_REMOVE3.resfail) : f.name \in badFields
        BY DEF Range, xdr_REMOVE3, F
    <2>3. \A o \in nfsproc3_remove :
          /\ \/ o.status = nfsstat3.OK /\ okFields \subseteq o.writes
             \/ o.status \in Bad /\ badFields \subseteq o.writes
          /\ TornOnly("REMOVE", o)
        BY StatusFacts, ErrsBad DEF nfsproc3_remove, Leaves, TornOnly, Joined, join, cat_name, exports_rw
    <2> HIDE DEF okFields, badFields
    <2>4. Covers("REMOVE", okFields, badFields)
        BY <2>1, <2>2, <2>3 DEF Covers
    <2> QED
        BY <2>4, CoversFills
<1>10. \A o \in Handler["RMDIR"] : Fills("RMDIR", o)
    <2> DEFINE okFields == {"dir_wcc"}
               badFields == {"dir_wcc"}
    <2>1. Handler["RMDIR"] = nfsproc3_rmdir /\ Wire["RMDIR"] = xdr_RMDIR3
        BY DEF Handler, Wire
    <2>2. /\ \A f \in Range(xdr_RMDIR3.resok) : f.name \in okFields
          /\ \A f \in Range(xdr_RMDIR3.resfail) : f.name \in badFields
        BY DEF Range, xdr_RMDIR3, F
    <2>3. \A o \in nfsproc3_rmdir :
          /\ \/ o.status = nfsstat3.OK /\ okFields \subseteq o.writes
             \/ o.status \in Bad /\ badFields \subseteq o.writes
          /\ TornOnly("RMDIR", o)
        BY StatusFacts, ErrsBad DEF nfsproc3_rmdir, Leaves, TornOnly, Joined, join, cat_name, exports_rw
    <2> HIDE DEF okFields, badFields
    <2>4. Covers("RMDIR", okFields, badFields)
        BY <2>1, <2>2, <2>3 DEF Covers
    <2> QED
        BY <2>4, CoversFills
<1>11. \A o \in Handler["RENAME"] : Fills("RENAME", o)
    <2> DEFINE okFields == {"fromdir_wcc", "todir_wcc"}
               badFields == {"fromdir_wcc", "todir_wcc"}
    <2>1. Handler["RENAME"] = nfsproc3_rename /\ Wire["RENAME"] = xdr_RENAME3
        BY DEF Handler, Wire
    <2>2. /\ \A f \in Range(xdr_RENAME3.resok) : f.name \in okFields
          /\ \A f \in Range(xdr_RENAME3.resfail) : f.name \in badFields
        BY DEF Range, xdr_RENAME3, F
    <2>3. \A o \in nfsproc3_rename :
          /\ \/ o.status = nfsstat3.OK /\ okFields \subseteq o.writes
             \/ o.status \in Bad /\ badFields \subseteq o.writes
          /\ TornOnly("RENAME", o)
        BY StatusFacts, ErrsBad DEF nfsproc3_rename, Leaves, TornOnly, Joined, join, cat_name, exports_rw, exports_compat
    <2> HIDE DEF okFields, badFields
    <2>4. Covers("RENAME", okFields, badFields)
        BY <2>1, <2>2, <2>3 DEF Covers
    <2> QED
        BY <2>4, CoversFills
<1>12. \A o \in Handler["READDIR"] : Fills("READDIR", o)
    <2> DEFINE okFields == {"cookieverf", "reply", "dir_attributes"}
               badFields == {"dir_attributes"}
    <2>1. Handler["READDIR"] = nfsproc3_readdir /\ Wire["READDIR"] = xdr_READDIR3
        BY DEF Handler, Wire
    <2>2. /\ \A f \in Range(xdr_READDIR3.resok) : f.name \in okFields
          /\ \A f \in Range(xdr_READDIR3.resfail) : f.name \in badFields
        BY DEF Range, xdr_READDIR3, F
    <2>3. \A o \in nfsproc3_readdir :
          /\ \/ o.status = nfsstat3.OK /\ okFields \subseteq o.writes
             \/ o.status \in Bad /\ badFields \subseteq o.writes
          /\ TornOnly("READDIR", o)
        BY StatusFacts, ErrsBad DEF nfsproc3_readdir, Leaves, TornOnly
    <2> HIDE DEF okFields, badFields
    <2>4. Covers("READDIR", okFields, badFields)
        BY <2>1, <2>2, <2>3 DEF Covers
    <2> QED
        BY <2>4, CoversFills
<1>13. \A o \in Handler["FSSTAT"] : Fills("FSSTAT", o)
    <2> DEFINE okFields == {"obj_attributes", "tbytes", "fbytes", "abytes", "tfiles", "ffiles", "afiles",
           "invarsec"}
               badFields == {"obj_attributes"}
    <2>1. Handler["FSSTAT"] = nfsproc3_fsstat /\ Wire["FSSTAT"] = xdr_FSSTAT3
        BY DEF Handler, Wire
    <2>2. /\ \A f \in Range(xdr_FSSTAT3.resok) : f.name \in okFields
          /\ \A f \in Range(xdr_FSSTAT3.resfail) : f.name \in badFields
        BY DEF Range, xdr_FSSTAT3, F
    <2>3. \A o \in nfsproc3_fsstat :
          /\ \/ o.status = nfsstat3.OK /\ okFields \subseteq o.writes
             \/ o.status \in Bad /\ badFields \subseteq o.writes
          /\ TornOnly("FSSTAT", o)
        BY StatusFacts, ErrsBad DEF nfsproc3_fsstat, Leaves, TornOnly
    <2> HIDE DEF okFields, badFields
    <2>4. Covers("FSSTAT", okFields, badFields)
        BY <2>1, <2>2, <2>3 DEF Covers
    <2> QED
        BY <2>4, CoversFills
<1>14. \A o \in Handler["FSINFO"] : Fills("FSINFO", o)
    <2> DEFINE okFields == {"obj_attributes", "rtmax", "rtpref", "rtmult", "wtmax", "wtpref", "wtmult",
           "dtpref", "maxfilesize", "time_delta", "properties"}
               badFields == {"obj_attributes"}
    <2>1. Handler["FSINFO"] = nfsproc3_fsinfo /\ Wire["FSINFO"] = xdr_FSINFO3
        BY DEF Handler, Wire
    <2>2. /\ \A f \in Range(xdr_FSINFO3.resok) : f.name \in okFields
          /\ \A f \in Range(xdr_FSINFO3.resfail) : f.name \in badFields
        BY DEF Range, xdr_FSINFO3, F
    <2>3. \A o \in nfsproc3_fsinfo :
          /\ \/ o.status = nfsstat3.OK /\ okFields \subseteq o.writes
             \/ o.status \in Bad /\ badFields \subseteq o.writes
          /\ TornOnly("FSINFO", o)
        BY StatusFacts, ErrsBad DEF nfsproc3_fsinfo, Leaves, TornOnly
    <2> HIDE DEF okFields, badFields
    <2>4. Covers("FSINFO", okFields, badFields)
        BY <2>1, <2>2, <2>3 DEF Covers
    <2> QED
        BY <2>4, CoversFills
<1>15. \A o \in Handler["PATHCONF"] : Fills("PATHCONF", o)
    <2> DEFINE okFields == {"obj_attributes", "linkmax", "name_max", "no_trunc", "chown_restricted",
           "case_insensitive", "case_preserving"}
               badFields == {"obj_attributes"}
    <2>1. Handler["PATHCONF"] = nfsproc3_pathconf /\ Wire["PATHCONF"] = xdr_PATHCONF3
        BY DEF Handler, Wire
    <2>2. /\ \A f \in Range(xdr_PATHCONF3.resok) : f.name \in okFields
          /\ \A f \in Range(xdr_PATHCONF3.resfail) : f.name \in badFields
        BY DEF Range, xdr_PATHCONF3, F
    <2>3. \A o \in nfsproc3_pathconf :
          /\ \/ o.status = nfsstat3.OK /\ okFields \subseteq o.writes
             \/ o.status \in Bad /\ badFields \subseteq o.writes
          /\ TornOnly("PATHCONF", o)
        BY StatusFacts, ErrsBad DEF nfsproc3_pathconf, Leaves, TornOnly
    <2> HIDE DEF okFields, badFields
    <2>4. Covers("PATHCONF", okFields, badFields)
        BY <2>1, <2>2, <2>3 DEF Covers
    <2> QED
        BY <2>4, CoversFills
<1>16. \A o \in Handler["MNT"] : Fills("MNT", o)
    <2> DEFINE okFields == {"fhandle", "auth_flavors"}
               badFields == {}
    <2>1. Handler["MNT"] = mountproc_mnt /\ Wire["MNT"] = xdr_mountres3
        BY DEF Handler, Wire
    <2>2. /\ \A f \in Range(xdr_mountres3.resok) : f.name \in okFields
          /\ \A f \in Range(xdr_mountres3.resfail) : f.name \in badFields
        BY DEF Range, xdr_mountres3, F
    <2>3. \A o \in mountproc_mnt :
          /\ \/ o.status = nfsstat3.OK /\ okFields \subseteq o.writes
             \/ o.status \in Bad /\ badFields \subseteq o.writes
          /\ TornOnly("MNT", o)
        BY StatusFacts, ErrsBad DEF mountproc_mnt, Leaves, TornOnly
    <2> HIDE DEF okFields, badFields
    <2>4. Covers("MNT", okFields, badFields)
        BY <2>1, <2>2, <2>3 DEF Covers
    <2> QED
        BY <2>4, CoversFills
<1> QED
    BY ProcsAre, <1>1, <1>2, <1>3, <1>4, <1>5, <1>6, <1>7, <1>8,
       <1>9, <1>10, <1>11, <1>12, <1>13, <1>14, <1>15, <1>16
       DEF ProcNames, NotSupported

\* The procedures that answer NFS3ERR_NOTSUPP.
LEMMA UnsupportedDoes ==
    \A p \in NotSupported : p \in Procs /\ Handler[p] = Unsupported
BY ProcsAre DEF NotSupported, ProcNames, Handler

\* Every field of resfail may be absent.
LEMMA FailuresMayBeEmpty ==
    \A p \in Procs : \A f \in Range(Wire[p].resfail) : f.type \in MayBeAbsent
<1>1. \A f \in Range(Wire["GETATTR"].resfail) : f.type \in MayBeAbsent
    BY DEF Wire, xdr_GETATTR3, F, Range, MayBeAbsent
<1>2. \A f \in Range(Wire["SETATTR"].resfail) : f.type \in MayBeAbsent
    BY DEF Wire, xdr_SETATTR3, F, Range, MayBeAbsent
<1>3. \A f \in Range(Wire["LOOKUP"].resfail) : f.type \in MayBeAbsent
    BY DEF Wire, xdr_LOOKUP3, F, Range, MayBeAbsent
<1>4. \A f \in Range(Wire["ACCESS"].resfail) : f.type \in MayBeAbsent
    BY DEF Wire, xdr_ACCESS3, F, Range, MayBeAbsent
<1>5. \A f \in Range(Wire["READLINK"].resfail) : f.type \in MayBeAbsent
    BY DEF Wire, xdr_READLINK3, F, Range, MayBeAbsent
<1>6. \A f \in Range(Wire["READ"].resfail) : f.type \in MayBeAbsent
    BY DEF Wire, xdr_READ3, F, Range, MayBeAbsent
<1>7. \A f \in Range(Wire["WRITE"].resfail) : f.type \in MayBeAbsent
    BY DEF Wire, xdr_WRITE3, F, Range, MayBeAbsent
<1>8. \A f \in Range(Wire["CREATE"].resfail) : f.type \in MayBeAbsent
    BY DEF Wire, xdr_CREATE3, F, Range, MayBeAbsent
<1>9. \A f \in Range(Wire["MKDIR"].resfail) : f.type \in MayBeAbsent
    BY DEF Wire, xdr_MKDIR3, F, Range, MayBeAbsent
<1>10. \A f \in Range(Wire["SYMLINK"].resfail) : f.type \in MayBeAbsent
    BY DEF Wire, xdr_SYMLINK3, F, Range, MayBeAbsent
<1>11. \A f \in Range(Wire["MKNOD"].resfail) : f.type \in MayBeAbsent
    BY DEF Wire, xdr_MKNOD3, F, Range, MayBeAbsent
<1>12. \A f \in Range(Wire["REMOVE"].resfail) : f.type \in MayBeAbsent
    BY DEF Wire, xdr_REMOVE3, F, Range, MayBeAbsent
<1>13. \A f \in Range(Wire["RMDIR"].resfail) : f.type \in MayBeAbsent
    BY DEF Wire, xdr_RMDIR3, F, Range, MayBeAbsent
<1>14. \A f \in Range(Wire["RENAME"].resfail) : f.type \in MayBeAbsent
    BY DEF Wire, xdr_RENAME3, F, Range, MayBeAbsent
<1>15. \A f \in Range(Wire["LINK"].resfail) : f.type \in MayBeAbsent
    BY DEF Wire, xdr_LINK3, F, Range, MayBeAbsent
<1>16. \A f \in Range(Wire["READDIR"].resfail) : f.type \in MayBeAbsent
    BY DEF Wire, xdr_READDIR3, F, Range, MayBeAbsent
<1>17. \A f \in Range(Wire["READDIRPLUS"].resfail) : f.type \in MayBeAbsent
    BY DEF Wire, xdr_READDIRPLUS3, F, Range, MayBeAbsent
<1>18. \A f \in Range(Wire["FSSTAT"].resfail) : f.type \in MayBeAbsent
    BY DEF Wire, xdr_FSSTAT3, F, Range, MayBeAbsent
<1>19. \A f \in Range(Wire["FSINFO"].resfail) : f.type \in MayBeAbsent
    BY DEF Wire, xdr_FSINFO3, F, Range, MayBeAbsent
<1>20. \A f \in Range(Wire["PATHCONF"].resfail) : f.type \in MayBeAbsent
    BY DEF Wire, xdr_PATHCONF3, F, Range, MayBeAbsent
<1>21. \A f \in Range(Wire["COMMIT"].resfail) : f.type \in MayBeAbsent
    BY DEF Wire, xdr_COMMIT3, F, Range, MayBeAbsent
<1>22. \A f \in Range(Wire["MNT"].resfail) : f.type \in MayBeAbsent
    BY DEF Wire, xdr_mountres3, F, Range, MayBeAbsent
<1> QED
    BY ProcsAre, <1>1, <1>2, <1>3, <1>4, <1>5, <1>6, <1>7, <1>8,
       <1>9, <1>10, <1>11, <1>12, <1>13, <1>14, <1>15, <1>16,
       <1>17, <1>18, <1>19, <1>20, <1>21, <1>22
       DEF ProcNames

----------------------------------------------------------------------------
(* Replies belong to their calls.                                           *)

\* The fields of the static result of p.
Fields(p) == {g.name : g \in Range(Decl[p].resok)}

\* The inductive invariant: a procedure that is not supported never writes into
\* its result, so the fields its failure reply shows are still zero.
ReplyInv ==
    /\ DOMAIN mem = Procs
    /\ \A p \in Procs : DOMAIN mem[p] = Fields(p)
    /\ \A p \in NotSupported : mem[p] = AllZero[p]
    /\ ReplyOfThisCall

\* PREP zeroes every field.
LEMMA AllZeroIs ==
    /\ DOMAIN AllZero = Procs
    /\ \A p \in Procs : DOMAIN AllZero[p] = Fields(p) /\ \A f \in Fields(p) : AllZero[p][f] = Zero
BY DEF AllZero, Fields

\* What the reply shows after a step that leaves the request alone.
LEMMA ShownNext ==
    ASSUME NEW f, req' = req
    PROVE  Shown(f)' = ShownIn(req.proc, ArmOf(status'), mem'[req.proc], f)
BY DEF Shown, ShownIn, Arm, ArmOf

\* The arm of a reply is that of its status.
LEMMA ArmNext == Arm' = ArmOf(status') /\ ArmOf(status') \in Arms
BY DEF Arm, ArmOf, Arms

\* Steps that answer nothing and write into no result.
LEMMA QuietStep == ReplyInv /\ mem' = mem /\ phase' # "reply" => ReplyInv'
BY DEF ReplyInv, ReplyOfThisCall

\* PREP keeps the invariant: what it refuses is answered from a zeroed result.
LEMMA PrepStep == ReplyInv /\ PREP => ReplyInv'
<1> SUFFICES ASSUME ReplyInv, PREP PROVE ReplyInv'
    OBVIOUS
<1> DEFINE p == req.proc
<1>1. /\ p \in Procs /\ req' = req /\ mem' = [mem EXCEPT ![p] = AllZero[p]]
      /\ status' \in {nfsstat3.ACCES, nfsstat3.STALE}
    BY DEF PREP, Prepares
<1>2. /\ DOMAIN mem' = Procs /\ mem'[p] = AllZero[p]
      /\ \A q \in Procs : q # p => mem'[q] = mem[q]
    BY <1>1 DEF ReplyInv
<1>3. \A q \in Procs : DOMAIN mem'[q] = Fields(q)
    BY <1>2, AllZeroIs DEF ReplyInv
<1>4. \A q \in NotSupported : mem'[q] = AllZero[q]
    BY <1>2, UnsupportedDoes DEF ReplyInv
<1>5. status' \in Bad /\ status' \in Statuses /\ ArmOf(status') = "resfail"
    BY <1>1, StatusFacts DEF Bad, ArmOf
<1>6. ASSUME NEW f \in Range(Wire[p].resfail)
      PROVE  f.type \in MayBeAbsent /\ \A c \in Shown(f)' : c[2] = Zero
    <2>1. f.type \in MayBeAbsent
        BY <1>1, FailuresMayBeEmpty
    <2>2. f \in Range(Wire[p]["resfail"]) /\ "resfail" \in Arms
        BY <1>6 DEF Arms
    <2>3. ShownIn(p, "resfail", mem'[p], f) = {<<f.name, mem'[p][f.name]>>} /\ f.name \in Fields(p)
        BY <1>1, <2>2, ShownIs DEF Fields
    <2>4. mem'[p][f.name] = Zero
        BY <1>1, <1>2, <2>3, AllZeroIs
    <2>5. Shown(f)' = ShownIn(p, "resfail", mem'[p], f)
        BY <1>1, <1>5, ShownNext
    <2> QED
        BY <2>1, <2>3, <2>4, <2>5
<1>7. ReplyOfThisCall'
    <2>1. Wire[req'.proc][Arm'] = Wire[p].resfail
        BY <1>1, <1>5, ArmNext
    <2> QED
        BY <1>5, <1>6, <2>1 DEF ReplyOfThisCall
<1> QED
    BY <1>2, <1>3, <1>4, <1>7 DEF ReplyInv

\* A handler keeps the invariant: it writes what its reply shows, or is one of those
\* not supported.
LEMMA HandleStep == ReplyInv /\ Handle => ReplyInv'
<1> SUFFICES ASSUME ReplyInv, Handle PROVE ReplyInv'
    OBVIOUS
<1> DEFINE p == req.proc
<1>1. p \in Procs /\ req' = req /\ calls' = calls
    BY DEF Handle
<1>2. PICK o \in Handler[p] :
        /\ status' = o.status
        /\ mem' = [mem EXCEPT ![p] =
                     [f \in DOMAIN mem[p] |-> IF f \in o.torn THEN Undef
                                              ELSE IF f \in o.writes THEN calls
                                              ELSE IF o.copied THEN Undef ELSE mem[p][f]]]
    BY DEF Handle
<1>3. /\ DOMAIN mem' = Procs
      /\ mem'[p] = [f \in Fields(p) |-> IF f \in o.torn THEN Undef
                                        ELSE IF f \in o.writes THEN calls
                                        ELSE IF o.copied THEN Undef ELSE mem[p][f]]
      /\ \A q \in Procs : q # p => mem'[q] = mem[q]
    BY <1>1, <1>2 DEF ReplyInv
<1>4. \A q \in Procs : DOMAIN mem'[q] = Fields(q)
    BY <1>3 DEF ReplyInv
<1>5. CASE p \in NotSupported
    <2>1. o = Leaves(nfsstat3.NOTSUPP, {})
        BY <1>5, UnsupportedDoes DEF Unsupported
    <2>2. o.status = nfsstat3.NOTSUPP /\ o.writes = {} /\ o.torn = {} /\ o.copied = FALSE
        BY <2>1 DEF Leaves
    <2>3. mem[p] = AllZero[p]
        BY <1>5 DEF ReplyInv
    <2>4. mem'[p] = [f \in Fields(p) |-> Zero]
        BY <1>1, <1>3, <2>2, <2>3, AllZeroIs
    <2>5. AllZero[p] = [f \in Fields(p) |-> Zero]
        BY <1>1 DEF AllZero, Fields
    <2>6. \A q \in NotSupported : mem'[q] = AllZero[q]
        BY <1>3, <2>4, <2>5, UnsupportedDoes DEF ReplyInv
    <2>7. status' \in Statuses /\ ArmOf(status') = "resfail"
        BY <1>2, <2>2, StatusFacts DEF Bad, ArmOf
    <2>8. ASSUME NEW f \in Range(Wire[p].resfail)
          PROVE  f.type \in MayBeAbsent /\ \A c \in Shown(f)' : c[2] = Zero
        <3>1. f.type \in MayBeAbsent
            BY <1>1, FailuresMayBeEmpty
        <3>2. f \in Range(Wire[p]["resfail"]) /\ "resfail" \in Arms
            BY <2>8 DEF Arms
        <3>3. /\ ShownIn(p, "resfail", mem'[p], f) = {<<f.name, mem'[p][f.name]>>}
              /\ f.name \in Fields(p)
            BY <1>1, <3>2, ShownIs DEF Fields
        <3>4. mem'[p][f.name] = Zero
            BY <2>4, <3>3
        <3>5. Shown(f)' = ShownIn(p, "resfail", mem'[p], f)
            BY <1>1, <2>7, ShownNext
        <3> QED
            BY <3>1, <3>3, <3>4, <3>5
    <2>9. ReplyOfThisCall'
        <3>1. Wire[req'.proc][Arm'] = Wire[p].resfail
            BY <1>1, <2>7, ArmNext
        <3> QED
            BY <2>7, <2>8, <3>1 DEF ReplyOfThisCall
    <2> QED
        BY <1>3, <1>4, <2>6, <2>9 DEF ReplyInv
<1>6. CASE p \notin NotSupported
    <2>1. \A q \in NotSupported : mem'[q] = AllZero[q]
        BY <1>3, <1>6, UnsupportedDoes DEF ReplyInv
    <2>2. Fills(p, o)
        BY <1>1, <1>6, HandlersFill
    <2> DEFINE a == ArmOf(status')
    <2>3. a \in Arms /\ a = Arm' /\ status' \in Statuses
        BY <1>2, <2>2, ArmNext DEF Fills
    <2>4. ASSUME NEW f \in Range(Wire[p][a])
          PROVE  \/ Shown(f)' = {<<f.name, calls>>}
                 \/ SizeUnset(f)' /\ Shown(f)' = {<<f.name, Undef>>}
        <3>1. f.name \in o.writes
            BY <1>2, <2>2, <2>4 DEF Fills
        <3>5. Shown(f)' = ShownIn(p, a, mem'[p], f)
            BY <1>1, ShownNext
        <3> HIDE DEF a
        <3>2. ShownIn(p, a, mem'[p], f) = {<<f.name, mem'[p][f.name]>>} /\ f.name \in Fields(p)
            BY <1>1, <2>3, ShownIs DEF Fields
        <3>3. mem'[p][f.name] = IF f.name \in o.torn THEN Undef ELSE calls
            BY <1>3, <3>1, <3>2
        <3>4. f.name \in o.torn => SizeUnset(f)'
            <4>1. TornOnly(p, o)
                BY <2>2 DEF Fills
            <4>2. o.status \in Bad => Arm' = "resfail"
                BY <1>2 DEF Arm, Bad
            <4> QED
                BY <1>1, <4>1, <4>2 DEF TornOnly, SizeUnset
        <3> QED
            BY <3>2, <3>3, <3>4, <3>5
    <2>5. ReplyOfThisCall'
        <3> HIDE DEF a
        <3>1. Wire[req'.proc][Arm'] = Wire[p][a]
            BY <1>1, <2>3
        <3> QED
            BY <1>1, <2>3, <2>4, <3>1 DEF ReplyOfThisCall
    <2> QED
        BY <1>3, <1>4, <2>1, <2>5 DEF ReplyInv
<1> QED
    BY <1>5, <1>6

\* Initially no reply is under way.
LEMMA ReplyInit == RpcInit => ReplyInv
BY AllZeroIs, UnsupportedDoes DEF RpcInit, ReplyInv, ReplyOfThisCall

\* One case for each step of a request.
LEMMA ReplyStep == ReplyInv /\ [RpcNext]_rpcVars => ReplyInv'
<1> SUFFICES ASSUME ReplyInv, [RpcNext]_rpcVars PROVE ReplyInv'
    OBVIOUS
<1>1. CASE Arrive
    <2>1. mem' = mem /\ phase' # "reply"
        BY <1>1 DEF Arrive
    <2> QED
        BY <2>1, QuietStep
<1>2. CASE Decode
    <2>1. mem' = mem /\ phase' # "reply"
        BY <1>2 DEF Decode, Continue, svcerr_decode
    <2> QED
        BY <2>1, QuietStep
<1>3. CASE DecodeFails
    BY <1>3, QuietStep DEF DecodeFails, svcerr_decode
<1>4. CASE Decoded
    BY <1>4, QuietStep DEF Decoded
<1>5. CASE PREP
    BY <1>5, PrepStep
<1>6. CASE Handle
    BY <1>6, HandleStep
<1>7. CASE HandlePlain
    BY <1>7 DEF HandlePlain, ReplyInv, ReplyOfThisCall
<1>8. CASE Reply
    BY <1>8, QuietStep DEF Reply
<1>9. CASE Restart
    BY <1>9, AllZeroIs, UnsupportedDoes DEF Restart, ReplyInv, ReplyOfThisCall
<1>10. CASE UNCHANGED rpcVars
    <2>1. UNCHANGED <<phase, req, mem, status, calls>>
        BY <1>10 DEF rpcVars
    <2>2. ReplyOfThisCall' = ReplyOfThisCall
        BY <2>1 DEF ReplyOfThisCall, SizeUnset, Shown, Arm
    <2> QED
        BY <2>1, <2>2 DEF ReplyInv
<1> QED
    BY <1>1, <1>2, <1>3, <1>4, <1>5, <1>6, <1>7, <1>8, <1>9, <1>10 DEF RpcNext, Serve

\* For any number of calls, any read counts and lists: every field of a reply is what
\* the handler of this very call put there, or is absent. Nothing an earlier call left in
\* the static result structures (daemon.c, nfs.c) reaches a client, neither after a refused
\* handle nor through the failure arm that the handlers fill by way of resok. What is
\* undefined is the size in the attributes of a READ that failed early, and nothing else.
THEOREM RepliesBelong == RpcSpec => []ReplyOfThisCall
<1>1. ReplyInv => ReplyOfThisCall
    BY DEF ReplyInv
<1> QED
    BY <1>1, ReplyInit, ReplyStep, PTL DEF RpcSpec

----------------------------------------------------------------------------
(* The words of the XDR routines.                                           *)

\* The equation words solves: the longest form each routine of xdr.c writes.
WordBody(w, t) ==
    LET r == Routine[t]
    IN  CASE r.kind = "fixed"   -> r.words
          [] r.kind = "counted" -> 1 + Max({0, r.max})
          [] r.kind = "chain"   -> 1
          [] r.kind = "struct"  -> Total(w, r.parts)
          [] r.kind = "union"   -> 1 + Max({Total(w, r.arms[a]) : a \in DOMAIN r.arms})

\* Max of a set with a known maximum.
LEMMA MaxIs ==
    ASSUME NEW S, S \subseteq Int, NEW m \in S, \A y \in S : m >= y
    PROVE  Max(S) = m
<1>1. Max(S) \in S /\ \A y \in S : Max(S) >= y
    BY DEF Max
<1>2. Max(S) \in Int /\ m \in Int /\ m >= Max(S) /\ Max(S) >= m
    BY <1>1
<1> QED
    BY <1>2

\* The equation for each kind of routine.
LEMMA FixedWord ==
    ASSUME NEW w, NEW t, NEW n, Routine[t] = Fixed(n)
    PROVE  WordBody(w, t) = n
BY DEF WordBody, Fixed

LEMMA ChainWord ==
    ASSUME NEW w, NEW t, NEW s, Routine[t] = Chain(s)
    PROVE  WordBody(w, t) = 1
BY DEF WordBody, Chain

LEMMA StructWord ==
    ASSUME NEW w, NEW t, NEW s, Routine[t] = Struct(s)
    PROVE  WordBody(w, t) = Total(w, s)
BY DEF WordBody, Struct

LEMMA CountedWord ==
    ASSUME NEW w, NEW t, NEW n \in Int, Routine[t] = Counted(n)
    PROVE  WordBody(w, t) = 1 + IF n > 0 THEN n ELSE 0
<1>1. Max({0, n}) = IF n > 0 THEN n ELSE 0
    <2>1. n > 0 => Max({0, n}) = n
        BY MaxIs
    <2>2. ~(n > 0) => Max({0, n}) = 0
        BY MaxIs
    <2> QED
        BY <2>1, <2>2
<1>2. WordBody(w, t) = 1 + Max({0, n})
    BY DEF WordBody, Counted
<1> QED
    BY <1>1, <1>2

\* A union has the words of its longest arm, and one for its discriminant.
LEMMA UnionWord ==
    ASSUME NEW w, NEW t, NEW tag, NEW arms, NEW default, Routine[t] = Union(tag, arms, default),
           NEW a \in DOMAIN arms, \A d \in DOMAIN arms : Total(w, arms[d]) \in Nat,
           \A d \in DOMAIN arms : Total(w, arms[a]) >= Total(w, arms[d])
    PROVE  WordBody(w, t) = 1 + Total(w, arms[a])
<1> DEFINE S == {Total(w, arms[d]) : d \in DOMAIN arms}
<1>1. S \subseteq Int /\ Total(w, arms[a]) \in S /\ \A y \in S : Total(w, arms[a]) >= y
    OBVIOUS
<1>2. Max(S) = Total(w, arms[a])
    <2> HIDE DEF S
    <2> QED
        BY <1>1, MaxIs
<1>3. WordBody(w, t) = 1 + Max(S)
    BY DEF WordBody, Union
<1> QED
    BY <1>2, <1>3

LEMMA OptionalWord ==
    ASSUME NEW w, NEW t, NEW part, Routine[t] = Optional(part), w[part] \in Nat
    PROVE  WordBody(w, t) = 1 + w[part]
<1> DEFINE arms == [v \in 0 .. 1 |-> IF v = 1 THEN <<part>> ELSE <<>>]
<1>1. Routine[t] = Union("bool", arms, "refuse")
    BY DEF Optional
<1>2. DOMAIN arms = {0, 1} /\ arms[1] = <<part>> /\ arms[0] = <<>>
    OBVIOUS
<1> HIDE DEF arms
<1>3. Total(w, arms[1]) = w[part] /\ Total(w, arms[0]) = 0
    BY <1>2, Total0, Total1
<1> QED
    BY <1>1, <1>2, <1>3, UnionWord

\* A union with one arm that is not void.
OneArm(tag, n, part) == Union(tag, [v \in {n} |-> <<part>>], "void")

LEMMA OneArmWord ==
    ASSUME NEW w, NEW t, NEW part, NEW tag, NEW n, w[part] \in Nat,
           Routine[t] = OneArm(tag, n, part)
    PROVE  WordBody(w, t) = 1 + w[part]
<1> DEFINE arms == [v \in {n} |-> <<part>>]
<1>2. DOMAIN arms = {n} /\ arms[n] = <<part>>
    OBVIOUS
<1>1. Routine[t] = Union(tag, arms, "void")
    BY DEF OneArm
<1> HIDE DEF arms
<1>3. Total(w, arms[n]) = w[part]
    BY <1>2, Total1
<1> QED
    BY <1>1, <1>2, <1>3, UnionWord

\* The lengths in words, the only solution of the equation.
WordTable ==
    [bool |-> 1, enum |-> 1, fhandle3 |-> 17, dirpath |-> 257, name |-> 65, mountlist |->
     1, groups |-> 1, exports |-> 1, uint64 |-> 2, uint32 |-> 1, filename3 |-> 1, nfspath3
     |-> 1, fileid3 |-> 2, cookie3 |-> 2, cookieverf3 |-> 2, createverf3 |-> 2, writeverf3
     |-> 2, uid3 |-> 1, gid3 |-> 1, size3 |-> 2, offset3 |-> 2, mode3 |-> 1, count3 |-> 1,
     ftype3 |-> 1, stable_how |-> 1, entry3 |-> 1, entryplus3 |-> 1, bytes |-> 1, nfs_fh3
     |-> 17, specdata3 |-> 2, nfstime3 |-> 2, fattr3 |-> 21, post_op_attr |-> 22, wcc_attr
     |-> 6, pre_op_attr |-> 7, wcc_data |-> 29, post_op_fh3 |-> 18, set_mode3 |-> 2,
     set_uid3 |-> 2, set_gid3 |-> 2, set_size3 |-> 3, set_atime |-> 3, set_mtime |-> 3,
     sattr3 |-> 15, diropargs3 |-> 18, sattrguard3 |-> 3, createhow3 |-> 16, symlinkdata3
     |-> 16, devicedata3 |-> 17, mknoddata3 |-> 18, dirlist3 |-> 2, dirlistplus3 |-> 2]

\* The routines that call no other.
Plain == {"bool", "enum", "fhandle3", "dirpath", "name", "mountlist", "groups", "exports",
          "uint64", "uint32", "filename3", "nfspath3", "fileid3", "cookie3",
          "cookieverf3", "createverf3", "writeverf3", "uid3", "gid3", "size3", "offset3",
          "mode3", "count3", "ftype3", "stable_how", "entry3", "entryplus3", "bytes",
          "nfs_fh3"}

\* The table solves the equation for the structures of plain parts.
LEMMA PlainWords ==
    ASSUME NEW w PROVE \A t \in Plain : WordBody(w, t) = WordTable[t]
<1>1. WordBody(w, "bool") = 1
    <2>1. Routine["bool"] = Fixed(1)
        BY DEF Routine, xdr_bool
    <2> QED
        BY <2>1, FixedWord
<1>2. WordBody(w, "enum") = 1
    <2>1. Routine["enum"] = Fixed(1)
        BY DEF Routine, xdr_enum
    <2> QED
        BY <2>1, FixedWord
<1>3. WordBody(w, "fhandle3") = 17
    <2>1. Routine["fhandle3"] = Counted(16)
        BY DEF Routine, xdr_fhandle3
    <2> QED
        BY <2>1, CountedWord
<1>4. WordBody(w, "dirpath") = 257
    <2>1. Routine["dirpath"] = Counted(256)
        BY DEF Routine, xdr_dirpath
    <2> QED
        BY <2>1, CountedWord
<1>5. WordBody(w, "name") = 65
    <2>1. Routine["name"] = Counted(64)
        BY DEF Routine, xdr_name
    <2> QED
        BY <2>1, CountedWord
<1>6. WordBody(w, "mountlist") = 1
    <2>1. Routine["mountlist"] = Chain(<<"name", "dirpath">>)
        BY DEF Routine, xdr_mountlist
    <2> QED
        BY <2>1, ChainWord
<1>7. WordBody(w, "groups") = 1
    <2>1. Routine["groups"] = Chain(<<"name">>)
        BY DEF Routine, xdr_groups
    <2> QED
        BY <2>1, ChainWord
<1>8. WordBody(w, "exports") = 1
    <2>1. Routine["exports"] = Chain(<<"dirpath", "groups">>)
        BY DEF Routine, xdr_exports
    <2> QED
        BY <2>1, ChainWord
<1>9. WordBody(w, "uint64") = 2
    <2>1. Routine["uint64"] = Fixed(2)
        BY DEF Routine, xdr_uint64
    <2> QED
        BY <2>1, FixedWord
<1>10. WordBody(w, "uint32") = 1
    <2>1. Routine["uint32"] = Fixed(1)
        BY DEF Routine, xdr_uint32
    <2> QED
        BY <2>1, FixedWord
<1>11. WordBody(w, "filename3") = 1
    <2>1. Routine["filename3"] = Counted(-1)
        BY DEF Routine, xdr_filename3, NoLimit
    <2> QED
        BY <2>1, CountedWord
<1>12. WordBody(w, "nfspath3") = 1
    <2>1. Routine["nfspath3"] = Counted(-1)
        BY DEF Routine, xdr_nfspath3, NoLimit
    <2> QED
        BY <2>1, CountedWord
<1>13. WordBody(w, "fileid3") = 2
    <2>1. Routine["fileid3"] = Fixed(2)
        BY DEF Routine, xdr_fileid3, xdr_uint64
    <2> QED
        BY <2>1, FixedWord
<1>14. WordBody(w, "cookie3") = 2
    <2>1. Routine["cookie3"] = Fixed(2)
        BY DEF Routine, xdr_cookie3, xdr_uint64
    <2> QED
        BY <2>1, FixedWord
<1>15. WordBody(w, "cookieverf3") = 2
    <2>1. Routine["cookieverf3"] = Fixed(2)
        BY DEF Routine, xdr_cookieverf3
    <2> QED
        BY <2>1, FixedWord
<1>16. WordBody(w, "createverf3") = 2
    <2>1. Routine["createverf3"] = Fixed(2)
        BY DEF Routine, xdr_createverf3
    <2> QED
        BY <2>1, FixedWord
<1>17. WordBody(w, "writeverf3") = 2
    <2>1. Routine["writeverf3"] = Fixed(2)
        BY DEF Routine, xdr_writeverf3
    <2> QED
        BY <2>1, FixedWord
<1>18. WordBody(w, "uid3") = 1
    <2>1. Routine["uid3"] = Fixed(1)
        BY DEF Routine, xdr_uid3, xdr_uint32
    <2> QED
        BY <2>1, FixedWord
<1>19. WordBody(w, "gid3") = 1
    <2>1. Routine["gid3"] = Fixed(1)
        BY DEF Routine, xdr_gid3, xdr_uint32
    <2> QED
        BY <2>1, FixedWord
<1>20. WordBody(w, "size3") = 2
    <2>1. Routine["size3"] = Fixed(2)
        BY DEF Routine, xdr_size3, xdr_uint64
    <2> QED
        BY <2>1, FixedWord
<1>21. WordBody(w, "offset3") = 2
    <2>1. Routine["offset3"] = Fixed(2)
        BY DEF Routine, xdr_offset3, xdr_uint64
    <2> QED
        BY <2>1, FixedWord
<1>22. WordBody(w, "mode3") = 1
    <2>1. Routine["mode3"] = Fixed(1)
        BY DEF Routine, xdr_mode3, xdr_uint32
    <2> QED
        BY <2>1, FixedWord
<1>23. WordBody(w, "count3") = 1
    <2>1. Routine["count3"] = Fixed(1)
        BY DEF Routine, xdr_count3, xdr_uint32
    <2> QED
        BY <2>1, FixedWord
<1>24. WordBody(w, "ftype3") = 1
    <2>1. Routine["ftype3"] = Fixed(1)
        BY DEF Routine, xdr_ftype3, xdr_enum
    <2> QED
        BY <2>1, FixedWord
<1>25. WordBody(w, "stable_how") = 1
    <2>1. Routine["stable_how"] = Fixed(1)
        BY DEF Routine, xdr_stable_how, xdr_enum
    <2> QED
        BY <2>1, FixedWord
<1>26. WordBody(w, "entry3") = 1
    <2>1. Routine["entry3"] = Chain(<<"fileid3", "filename3", "cookie3">>)
        BY DEF Routine, xdr_entry3
    <2> QED
        BY <2>1, ChainWord
<1>27. WordBody(w, "entryplus3") = 1
    <2>1. Routine["entryplus3"] = Chain(<<"fileid3", "filename3", "cookie3", "post_op_attr", "post_op_fh3">>)
        BY DEF Routine, xdr_entryplus3
    <2> QED
        BY <2>1, ChainWord
<1>28. WordBody(w, "bytes") = 1
    <2>1. Routine["bytes"] = Counted(-1)
        BY DEF Routine, xdr_bytes, NoLimit
    <2> QED
        BY <2>1, CountedWord
<1>29. WordBody(w, "nfs_fh3") = 17
    <2>1. Routine["nfs_fh3"] = Counted(16)
        BY DEF Routine, xdr_nfs_fh3
    <2> QED
        BY <2>1, CountedWord
<1> QED
    BY <1>1, <1>2, <1>3, <1>4, <1>5, <1>6, <1>7, <1>8, <1>9, <1>10, <1>11, <1>12,
       <1>13, <1>14, <1>15, <1>16, <1>17, <1>18, <1>19, <1>20, <1>21, <1>22, <1>23,
       <1>24, <1>25, <1>26, <1>27, <1>28, <1>29
       DEF Plain, WordTable

\* A routine that calls others has the words of what it calls.
LEMMA WordStep ==
    ASSUME NEW w, \A t \in Plain : w[t] = WordTable[t]
    PROVE  /\ \A t \in Plain : WordBody(w, t) = WordTable[t]
           /\ WordBody(w, "specdata3") = 2
           /\ WordBody(w, "nfstime3") = 2
           /\ w["specdata3"] = 2 /\ w["nfstime3"] = 2 => WordBody(w, "fattr3") = 21
           /\ w["fattr3"] = 21 => WordBody(w, "post_op_attr") = 22
           /\ w["nfstime3"] = 2 => WordBody(w, "wcc_attr") = 6
           /\ w["wcc_attr"] = 6 => WordBody(w, "pre_op_attr") = 7
           /\ w["pre_op_attr"] = 7 /\ w["post_op_attr"] = 22 => WordBody(w, "wcc_data") =
              29
           /\ WordBody(w, "post_op_fh3") = 18
           /\ WordBody(w, "set_mode3") = 2
           /\ WordBody(w, "set_uid3") = 2
           /\ WordBody(w, "set_gid3") = 2
           /\ WordBody(w, "set_size3") = 3
           /\ w["nfstime3"] = 2 => WordBody(w, "set_atime") = 3
           /\ w["nfstime3"] = 2 => WordBody(w, "set_mtime") = 3
           /\ w["set_mode3"] = 2 /\ w["set_uid3"] = 2 /\ w["set_gid3"] = 2 /\
              w["set_size3"] = 3 /\ w["set_atime"] = 3 /\ w["set_mtime"] = 3 =>
              WordBody(w, "sattr3") = 15
           /\ WordBody(w, "diropargs3") = 18
           /\ w["nfstime3"] = 2 => WordBody(w, "sattrguard3") = 3
           /\ w["sattr3"] = 15 => WordBody(w, "createhow3") = 16
           /\ w["sattr3"] = 15 => WordBody(w, "symlinkdata3") = 16
           /\ w["sattr3"] = 15 /\ w["specdata3"] = 2 => WordBody(w, "devicedata3") = 17
           /\ w["devicedata3"] = 17 /\ w["sattr3"] = 15 => WordBody(w, "mknoddata3") = 18
           /\ WordBody(w, "dirlist3") = 2
           /\ WordBody(w, "dirlistplus3") = 2
<1>0. \A t \in Plain : WordBody(w, t) = WordTable[t]
    BY PlainWords
<1>1. WordBody(w, "specdata3") = 2
    <2>1. w["uint32"] = 1
        BY DEF Plain, WordTable
    <2>2. Routine["specdata3"] = Struct(<<"uint32", "uint32">>)
        BY DEF Routine, xdr_specdata3
    <2>3. Total(w, <<"uint32", "uint32">>) = 2
        BY <2>1, Total2
    <2> QED
        BY <2>2, <2>3, StructWord
<1>2. WordBody(w, "nfstime3") = 2
    <2>1. w["uint32"] = 1
        BY DEF Plain, WordTable
    <2>2. Routine["nfstime3"] = Struct(<<"uint32", "uint32">>)
        BY DEF Routine, xdr_nfstime3
    <2>3. Total(w, <<"uint32", "uint32">>) = 2
        BY <2>1, Total2
    <2> QED
        BY <2>2, <2>3, StructWord
<1>3. ASSUME w["specdata3"] = 2, w["nfstime3"] = 2
      PROVE  WordBody(w, "fattr3") = 21
    <2>1. w["ftype3"] = 1 /\ w["mode3"] = 1 /\ w["uint32"] = 1 /\ w["uid3"] = 1 /\
          w["gid3"] = 1 /\ w["size3"] = 2 /\ w["uint64"] = 2 /\ w["fileid3"] = 2
        BY DEF Plain, WordTable
    <2>2. Routine["fattr3"] = Struct(<<"ftype3", "mode3", "uint32", "uid3", "gid3", "size3", "size3", "specdata3",
            "uint64", "fileid3", "nfstime3", "nfstime3", "nfstime3">>)
        BY DEF Routine, xdr_fattr3
    <2>3. Total(w, <<"ftype3", "mode3", "uint32", "uid3", "gid3", "size3", "size3", "specdata3",
            "uint64", "fileid3", "nfstime3", "nfstime3", "nfstime3">>) = 21
        BY <2>1, <1>3, Total13
    <2> QED
        BY <2>2, <2>3, StructWord
<1>4. ASSUME w["fattr3"] = 21
      PROVE  WordBody(w, "post_op_attr") = 22
    <2>2. Routine["post_op_attr"] = Optional("fattr3")
        BY DEF Routine, xdr_post_op_attr
    <2>3. w["fattr3"] \in Nat
        BY <1>4
    <2>4. WordBody(w, "post_op_attr") = 1 + w["fattr3"]
        BY <2>2, <2>3, OptionalWord, Zenon
    <2> QED
        BY <1>4, <2>4
<1>5. ASSUME w["nfstime3"] = 2
      PROVE  WordBody(w, "wcc_attr") = 6
    <2>1. w["size3"] = 2
        BY DEF Plain, WordTable
    <2>2. Routine["wcc_attr"] = Struct(<<"size3", "nfstime3", "nfstime3">>)
        BY DEF Routine, xdr_wcc_attr
    <2>3. Total(w, <<"size3", "nfstime3", "nfstime3">>) = 6
        BY <2>1, <1>5, Total3
    <2> QED
        BY <2>2, <2>3, StructWord
<1>6. ASSUME w["wcc_attr"] = 6
      PROVE  WordBody(w, "pre_op_attr") = 7
    <2>2. Routine["pre_op_attr"] = Optional("wcc_attr")
        BY DEF Routine, xdr_pre_op_attr
    <2>3. w["wcc_attr"] \in Nat
        BY <1>6
    <2>4. WordBody(w, "pre_op_attr") = 1 + w["wcc_attr"]
        BY <2>2, <2>3, OptionalWord, Zenon
    <2> QED
        BY <1>6, <2>4
<1>7. ASSUME w["pre_op_attr"] = 7, w["post_op_attr"] = 22
      PROVE  WordBody(w, "wcc_data") = 29
    <2>2. Routine["wcc_data"] = Struct(<<"pre_op_attr", "post_op_attr">>)
        BY DEF Routine, xdr_wcc_data
    <2>3. Total(w, <<"pre_op_attr", "post_op_attr">>) = 29
        BY <1>7, Total2
    <2> QED
        BY <2>2, <2>3, StructWord
<1>8. WordBody(w, "post_op_fh3") = 18
    <2>1. w["nfs_fh3"] = 17
        BY DEF Plain, WordTable
    <2>2. Routine["post_op_fh3"] = Optional("nfs_fh3")
        BY DEF Routine, xdr_post_op_fh3
    <2>3. w["nfs_fh3"] \in Nat
        BY <2>1
    <2>4. WordBody(w, "post_op_fh3") = 1 + w["nfs_fh3"]
        BY <2>2, <2>3, OptionalWord, Zenon
    <2> QED
        BY <2>1, <2>4
<1>9. WordBody(w, "set_mode3") = 2
    <2>1. w["mode3"] = 1
        BY DEF Plain, WordTable
    <2>2. Routine["set_mode3"] = OneArm("bool", 1, "mode3")
        BY DEF OneArm, Routine, xdr_set_mode3, IfSet
    <2>3. w["mode3"] \in Nat
        BY <2>1
    <2>4. WordBody(w, "set_mode3") = 1 + w["mode3"]
        BY <2>2, <2>3, OneArmWord
    <2> QED
        BY <2>1, <2>4
<1>10. WordBody(w, "set_uid3") = 2
    <2>1. w["uid3"] = 1
        BY DEF Plain, WordTable
    <2>2. Routine["set_uid3"] = OneArm("bool", 1, "uid3")
        BY DEF OneArm, Routine, xdr_set_uid3, IfSet
    <2>3. w["uid3"] \in Nat
        BY <2>1
    <2>4. WordBody(w, "set_uid3") = 1 + w["uid3"]
        BY <2>2, <2>3, OneArmWord
    <2> QED
        BY <2>1, <2>4
<1>11. WordBody(w, "set_gid3") = 2
    <2>1. w["gid3"] = 1
        BY DEF Plain, WordTable
    <2>2. Routine["set_gid3"] = OneArm("bool", 1, "gid3")
        BY DEF OneArm, Routine, xdr_set_gid3, IfSet
    <2>3. w["gid3"] \in Nat
        BY <2>1
    <2>4. WordBody(w, "set_gid3") = 1 + w["gid3"]
        BY <2>2, <2>3, OneArmWord
    <2> QED
        BY <2>1, <2>4
<1>12. WordBody(w, "set_size3") = 3
    <2>1. w["size3"] = 2
        BY DEF Plain, WordTable
    <2>2. Routine["set_size3"] = OneArm("bool", 1, "size3")
        BY DEF OneArm, Routine, xdr_set_size3, IfSet
    <2>3. w["size3"] \in Nat
        BY <2>1
    <2>4. WordBody(w, "set_size3") = 1 + w["size3"]
        BY <2>2, <2>3, OneArmWord
    <2> QED
        BY <2>1, <2>4
<1>13. ASSUME w["nfstime3"] = 2
      PROVE  WordBody(w, "set_atime") = 3
    <2>2. Routine["set_atime"] = OneArm("enum", 2, "nfstime3")
        BY DEF OneArm, Routine, xdr_set_atime
    <2>3. w["nfstime3"] \in Nat
        BY <1>13
    <2>4. WordBody(w, "set_atime") = 1 + w["nfstime3"]
        BY <2>2, <2>3, OneArmWord
    <2> QED
        BY <1>13, <2>4
<1>14. ASSUME w["nfstime3"] = 2
      PROVE  WordBody(w, "set_mtime") = 3
    <2>2. Routine["set_mtime"] = OneArm("enum", 2, "nfstime3")
        BY DEF OneArm, Routine, xdr_set_mtime
    <2>3. w["nfstime3"] \in Nat
        BY <1>14
    <2>4. WordBody(w, "set_mtime") = 1 + w["nfstime3"]
        BY <2>2, <2>3, OneArmWord
    <2> QED
        BY <1>14, <2>4
<1>15. ASSUME w["set_mode3"] = 2, w["set_uid3"] = 2, w["set_gid3"] = 2, w["set_size3"] = 3,
             w["set_atime"] = 3, w["set_mtime"] = 3
      PROVE  WordBody(w, "sattr3") = 15
    <2>2. Routine["sattr3"] = Struct(<<"set_mode3", "set_uid3", "set_gid3", "set_size3", "set_atime", "set_mtime">>)
        BY DEF Routine, xdr_sattr3
    <2>3. Total(w, <<"set_mode3", "set_uid3", "set_gid3", "set_size3", "set_atime", "set_mtime">>) = 15
        BY <1>15, Total6
    <2> QED
        BY <2>2, <2>3, StructWord
<1>16. WordBody(w, "diropargs3") = 18
    <2>1. w["nfs_fh3"] = 17 /\ w["filename3"] = 1
        BY DEF Plain, WordTable
    <2>2. Routine["diropargs3"] = Struct(<<"nfs_fh3", "filename3">>)
        BY DEF Routine, xdr_diropargs3
    <2>3. Total(w, <<"nfs_fh3", "filename3">>) = 18
        BY <2>1, Total2
    <2> QED
        BY <2>2, <2>3, StructWord
<1>17. ASSUME w["nfstime3"] = 2
      PROVE  WordBody(w, "sattrguard3") = 3
    <2>2. Routine["sattrguard3"] = Optional("nfstime3")
        BY DEF Routine, xdr_sattrguard3
    <2>3. w["nfstime3"] \in Nat
        BY <1>17
    <2>4. WordBody(w, "sattrguard3") = 1 + w["nfstime3"]
        BY <2>2, <2>3, OptionalWord, Zenon
    <2> QED
        BY <1>17, <2>4
<1>18. ASSUME w["sattr3"] = 15
      PROVE  WordBody(w, "createhow3") = 16
    <2>1. w["createverf3"] = 2
        BY DEF Plain, WordTable
    <2> DEFINE arms == [v \in 0 .. 2 |-> IF v = 2 THEN <<"createverf3">> ELSE <<"sattr3">>]
    <2>2. Routine["createhow3"] = Union("enum", arms, "refuse")
        BY DEF Routine, xdr_createhow3
    <2>3. DOMAIN arms = {0, 1, 2} /\ arms[2] = <<"createverf3">> /\ arms[0] = <<"sattr3">>
          /\ arms[1] = <<"sattr3">>
        OBVIOUS
    <2> HIDE DEF arms
    <2>4. Total(w, arms[0]) = 15 /\ Total(w, arms[1]) = 15 /\ Total(w, arms[2]) = 2
        BY <2>1, <1>18, <2>3, Total1
    <2> QED
        BY <2>2, <2>3, <2>4, UnionWord
<1>19. ASSUME w["sattr3"] = 15
      PROVE  WordBody(w, "symlinkdata3") = 16
    <2>1. w["nfspath3"] = 1
        BY DEF Plain, WordTable
    <2>2. Routine["symlinkdata3"] = Struct(<<"sattr3", "nfspath3">>)
        BY DEF Routine, xdr_symlinkdata3
    <2>3. Total(w, <<"sattr3", "nfspath3">>) = 16
        BY <2>1, <1>19, Total2
    <2> QED
        BY <2>2, <2>3, StructWord
<1>20. ASSUME w["sattr3"] = 15, w["specdata3"] = 2
      PROVE  WordBody(w, "devicedata3") = 17
    <2>2. Routine["devicedata3"] = Struct(<<"sattr3", "specdata3">>)
        BY DEF Routine, xdr_devicedata3
    <2>3. Total(w, <<"sattr3", "specdata3">>) = 17
        BY <1>20, Total2
    <2> QED
        BY <2>2, <2>3, StructWord
<1>21. ASSUME w["devicedata3"] = 17, w["sattr3"] = 15
      PROVE  WordBody(w, "mknoddata3") = 18
    <2> DEFINE arms == [v \in {3, 4, 6, 7} |-> IF v \in {3, 4} THEN <<"devicedata3">>
                                               ELSE <<"sattr3">>]
    <2>2. Routine["mknoddata3"] = Union("enum", arms, "void")
        BY DEF Routine, xdr_mknoddata3
    <2>3. DOMAIN arms = {3, 4, 6, 7} /\ arms[3] = <<"devicedata3">> /\ arms[4] = <<"devicedata3">>
          /\ arms[6] = <<"sattr3">> /\ arms[7] = <<"sattr3">>
        OBVIOUS
    <2> HIDE DEF arms
    <2>4. /\ Total(w, arms[3]) = 17 /\ Total(w, arms[4]) = 17
          /\ Total(w, arms[6]) = 15 /\ Total(w, arms[7]) = 15
        BY <1>21, <2>3, Total1
    <2> QED
        BY <2>2, <2>3, <2>4, UnionWord
<1>22. WordBody(w, "dirlist3") = 2
    <2>1. w["entry3"] = 1 /\ w["bool"] = 1
        BY DEF Plain, WordTable
    <2>2. Routine["dirlist3"] = Struct(<<"entry3", "bool">>)
        BY DEF Routine, xdr_dirlist3
    <2>3. Total(w, <<"entry3", "bool">>) = 2
        BY <2>1, Total2
    <2> QED
        BY <2>2, <2>3, StructWord
<1>23. WordBody(w, "dirlistplus3") = 2
    <2>1. w["entryplus3"] = 1 /\ w["bool"] = 1
        BY DEF Plain, WordTable
    <2>2. Routine["dirlistplus3"] = Struct(<<"entryplus3", "bool">>)
        BY DEF Routine, xdr_dirlistplus3
    <2>3. Total(w, <<"entryplus3", "bool">>) = 2
        BY <2>1, Total2
    <2> QED
        BY <2>2, <2>3, StructWord
<1> QED
    BY <1>0, <1>1, <1>2, <1>3, <1>4, <1>5, <1>6, <1>7, <1>8, <1>9, <1>10, <1>11, <1>12, <1>13,
       <1>14, <1>15, <1>16, <1>17, <1>18, <1>19, <1>20, <1>21, <1>22, <1>23

\* The table gives every routine a length.
LEMMA WordDomain ==
    /\ DOMAIN Routine = DOMAIN WordTable
    /\ Plain \subseteq DOMAIN WordTable
    /\ WordTable = [t \in DOMAIN WordTable |-> WordTable[t]]
    /\ \A t \in DOMAIN WordTable : WordTable[t] \in Nat
    /\ WordTable["specdata3"] = 2
    /\ WordTable["nfstime3"] = 2
    /\ WordTable["fattr3"] = 21
    /\ WordTable["post_op_attr"] = 22
    /\ WordTable["wcc_attr"] = 6
    /\ WordTable["pre_op_attr"] = 7
    /\ WordTable["wcc_data"] = 29
    /\ WordTable["post_op_fh3"] = 18
    /\ WordTable["set_mode3"] = 2
    /\ WordTable["set_uid3"] = 2
    /\ WordTable["set_gid3"] = 2
    /\ WordTable["set_size3"] = 3
    /\ WordTable["set_atime"] = 3
    /\ WordTable["set_mtime"] = 3
    /\ WordTable["sattr3"] = 15
    /\ WordTable["diropargs3"] = 18
    /\ WordTable["sattrguard3"] = 3
    /\ WordTable["createhow3"] = 16
    /\ WordTable["symlinkdata3"] = 16
    /\ WordTable["devicedata3"] = 17
    /\ WordTable["mknoddata3"] = 18
    /\ WordTable["dirlist3"] = 2
    /\ WordTable["dirlistplus3"] = 2
    /\ \A t \in DOMAIN WordTable : t \in Plain \/ t \in {"specdata3", "nfstime3", "fattr3", "post_op_attr", "wcc_attr", "pre_op_attr",
           "wcc_data", "post_op_fh3", "set_mode3", "set_uid3", "set_gid3", "set_size3",
           "set_atime", "set_mtime", "sattr3", "diropargs3", "sattrguard3", "createhow3",
           "symlinkdata3", "devicedata3", "mknoddata3", "dirlist3", "dirlistplus3"}
BY DEF Routine, WordTable, Plain

\* The table solves the equation for all routines.
LEMMA WordsSolve == WordTable = [t \in DOMAIN Routine |-> WordBody(WordTable, t)]
<1>1. ASSUME NEW t \in DOMAIN WordTable PROVE WordBody(WordTable, t) = WordTable[t]
    BY WordDomain, WordStep
<1> QED
    BY <1>1, WordDomain

\* words computes the table.
LEMMA WordsAre == words = WordTable
<1> DEFINE Is(f) == f = [t \in DOMAIN Routine |-> WordBody(f, t)]
<1>1. words = CHOOSE f : Is(f)
    BY DEF words, WordBody, Total
<1>2. Is(WordTable)
    BY WordsSolve
<1>3. Is(words)
    <2> HIDE DEF Is
    <2> QED
        BY <1>1, <1>2
<1>4. DOMAIN words = DOMAIN WordTable /\ words = [t \in DOMAIN words |-> words[t]]
    BY <1>3, WordDomain
<1>5. \A t \in DOMAIN WordTable : words[t] = WordBody(words, t)
    BY <1>3, WordDomain
<1> HIDE DEF Is
<1>6. \A t \in Plain : words[t] = WordTable[t]
    BY <1>5, PlainWords, WordDomain
<1>t0. words["specdata3"] = 2
    BY <1>5, <1>6, WordStep DEF WordTable
<1>t1. words["nfstime3"] = 2
    BY <1>5, <1>6, WordStep DEF WordTable
<1>t2. words["fattr3"] = 21
    BY <1>5, <1>6, WordStep, <1>t0, <1>t1 DEF WordTable
<1>t3. words["post_op_attr"] = 22
    BY <1>5, <1>6, WordStep, <1>t2 DEF WordTable
<1>t4. words["wcc_attr"] = 6
    BY <1>5, <1>6, WordStep, <1>t1 DEF WordTable
<1>t5. words["pre_op_attr"] = 7
    BY <1>5, <1>6, WordStep, <1>t4 DEF WordTable
<1>t6. words["wcc_data"] = 29
    BY <1>5, <1>6, WordStep, <1>t5, <1>t3 DEF WordTable
<1>t7. words["post_op_fh3"] = 18
    BY <1>5, <1>6, WordStep DEF WordTable
<1>t8. words["set_mode3"] = 2
    BY <1>5, <1>6, WordStep DEF WordTable
<1>t9. words["set_uid3"] = 2
    BY <1>5, <1>6, WordStep DEF WordTable
<1>t10. words["set_gid3"] = 2
    BY <1>5, <1>6, WordStep DEF WordTable
<1>t11. words["set_size3"] = 3
    BY <1>5, <1>6, WordStep DEF WordTable
<1>t12. words["set_atime"] = 3
    BY <1>5, <1>6, WordStep, <1>t1 DEF WordTable
<1>t13. words["set_mtime"] = 3
    BY <1>5, <1>6, WordStep, <1>t1 DEF WordTable
<1>t14. words["sattr3"] = 15
    BY <1>5, <1>6, WordStep, <1>t8, <1>t9, <1>t10, <1>t11, <1>t12, <1>t13 DEF WordTable
<1>t15. words["diropargs3"] = 18
    BY <1>5, <1>6, WordStep DEF WordTable
<1>t16. words["sattrguard3"] = 3
    BY <1>5, <1>6, WordStep, <1>t1 DEF WordTable
<1>t17. words["createhow3"] = 16
    BY <1>5, <1>6, WordStep, <1>t14 DEF WordTable
<1>t18. words["symlinkdata3"] = 16
    BY <1>5, <1>6, WordStep, <1>t14 DEF WordTable
<1>t19. words["devicedata3"] = 17
    BY <1>5, <1>6, WordStep, <1>t14, <1>t0 DEF WordTable
<1>t20. words["mknoddata3"] = 18
    BY <1>5, <1>6, WordStep, <1>t19, <1>t14 DEF WordTable
<1>t21. words["dirlist3"] = 2
    BY <1>5, <1>6, WordStep DEF WordTable
<1>t22. words["dirlistplus3"] = 2
    BY <1>5, <1>6, WordStep DEF WordTable
<1>7. \A t \in DOMAIN WordTable : words[t] = WordTable[t]
    BY <1>6, WordDomain, <1>t0, <1>t1, <1>t2, <1>t3, <1>t4, <1>t5, <1>t6, <1>t7, <1>t8, <1>t9, <1>t10,
       <1>t11, <1>t12, <1>t13, <1>t14, <1>t15, <1>t16, <1>t17, <1>t18, <1>t19, <1>t20,
       <1>t21, <1>t22
<1> QED
    BY <1>4, <1>7, WordDomain

----------------------------------------------------------------------------
(* The length of a reply.                                                   *)

\* The types that occur in replies.
ReplyTypes == {t \in DOMAIN WordTable : WordTable[t] <= 29}

\* The result of no procedure has more than 11 fields, and none of its fields
\* more than 29 words besides its data.
Short(arm) == Len(arm) \in 0..11 /\ \A k \in 1..Len(arm) : arm[k].type \in ReplyTypes

\* They are at most as long as wcc_data.
LEMMA TypesShort ==
    {"fattr3", "wcc_data", "nfs_fh3", "post_op_attr", "uint32", "nfspath3", "count3", "bool",
     "bytes", "stable_how", "writeverf3", "post_op_fh3", "cookieverf3", "dirlist3",
     "dirlistplus3", "size3", "nfstime3", "fhandle3"} \subseteq ReplyTypes
BY DEF ReplyTypes, WordTable

\* The arms of all procedures are short, procedure by procedure.
LEMMA RepliesShort == \A p \in Procs : Short(Wire[p].resok) /\ Short(Wire[p].resfail)
<1>1. Short(Wire["GETATTR"].resok) /\ Short(Wire["GETATTR"].resfail)
    <2>1. Wire["GETATTR"] = xdr_GETATTR3
        BY DEF Wire
    <2>2. Short(xdr_GETATTR3.resok)
        BY TypesShort DEF Short, xdr_GETATTR3, F
    <2>3. Short(xdr_GETATTR3.resfail)
        BY TypesShort DEF Short, xdr_GETATTR3, F
    <2> QED
        BY <2>1, <2>2, <2>3
<1>2. Short(Wire["SETATTR"].resok) /\ Short(Wire["SETATTR"].resfail)
    <2>1. Wire["SETATTR"] = xdr_SETATTR3
        BY DEF Wire
    <2>2. Short(xdr_SETATTR3.resok)
        BY TypesShort DEF Short, xdr_SETATTR3, F
    <2>3. Short(xdr_SETATTR3.resfail)
        BY TypesShort DEF Short, xdr_SETATTR3, F
    <2> QED
        BY <2>1, <2>2, <2>3
<1>3. Short(Wire["LOOKUP"].resok) /\ Short(Wire["LOOKUP"].resfail)
    <2>1. Wire["LOOKUP"] = xdr_LOOKUP3
        BY DEF Wire
    <2>2. Short(xdr_LOOKUP3.resok)
        BY TypesShort DEF Short, xdr_LOOKUP3, F
    <2>3. Short(xdr_LOOKUP3.resfail)
        BY TypesShort DEF Short, xdr_LOOKUP3, F
    <2> QED
        BY <2>1, <2>2, <2>3
<1>4. Short(Wire["ACCESS"].resok) /\ Short(Wire["ACCESS"].resfail)
    <2>1. Wire["ACCESS"] = xdr_ACCESS3
        BY DEF Wire
    <2>2. Short(xdr_ACCESS3.resok)
        BY TypesShort DEF Short, xdr_ACCESS3, F
    <2>3. Short(xdr_ACCESS3.resfail)
        BY TypesShort DEF Short, xdr_ACCESS3, F
    <2> QED
        BY <2>1, <2>2, <2>3
<1>5. Short(Wire["READLINK"].resok) /\ Short(Wire["READLINK"].resfail)
    <2>1. Wire["READLINK"] = xdr_READLINK3
        BY DEF Wire
    <2>2. Short(xdr_READLINK3.resok)
        BY TypesShort DEF Short, xdr_READLINK3, F
    <2>3. Short(xdr_READLINK3.resfail)
        BY TypesShort DEF Short, xdr_READLINK3, F
    <2> QED
        BY <2>1, <2>2, <2>3
<1>6. Short(Wire["READ"].resok) /\ Short(Wire["READ"].resfail)
    <2>1. Wire["READ"] = xdr_READ3
        BY DEF Wire
    <2>2. Short(xdr_READ3.resok)
        BY TypesShort DEF Short, xdr_READ3, F
    <2>3. Short(xdr_READ3.resfail)
        BY TypesShort DEF Short, xdr_READ3, F
    <2> QED
        BY <2>1, <2>2, <2>3
<1>7. Short(Wire["WRITE"].resok) /\ Short(Wire["WRITE"].resfail)
    <2>1. Wire["WRITE"] = xdr_WRITE3
        BY DEF Wire
    <2>2. Short(xdr_WRITE3.resok)
        BY TypesShort DEF Short, xdr_WRITE3, F
    <2>3. Short(xdr_WRITE3.resfail)
        BY TypesShort DEF Short, xdr_WRITE3, F
    <2> QED
        BY <2>1, <2>2, <2>3
<1>8. Short(Wire["CREATE"].resok) /\ Short(Wire["CREATE"].resfail)
    <2>1. Wire["CREATE"] = xdr_CREATE3
        BY DEF Wire
    <2>2. Short(xdr_CREATE3.resok)
        BY TypesShort DEF Short, xdr_CREATE3, F, MadeOk
    <2>3. Short(xdr_CREATE3.resfail)
        BY TypesShort DEF Short, xdr_CREATE3, F
    <2> QED
        BY <2>1, <2>2, <2>3
<1>9. Short(Wire["MKDIR"].resok) /\ Short(Wire["MKDIR"].resfail)
    <2>1. Wire["MKDIR"] = xdr_MKDIR3
        BY DEF Wire
    <2>2. Short(xdr_MKDIR3.resok)
        BY TypesShort DEF Short, xdr_MKDIR3, F, MadeOk
    <2>3. Short(xdr_MKDIR3.resfail)
        BY TypesShort DEF Short, xdr_MKDIR3, F
    <2> QED
        BY <2>1, <2>2, <2>3
<1>10. Short(Wire["SYMLINK"].resok) /\ Short(Wire["SYMLINK"].resfail)
    <2>1. Wire["SYMLINK"] = xdr_SYMLINK3
        BY DEF Wire
    <2>2. Short(xdr_SYMLINK3.resok)
        BY TypesShort DEF Short, xdr_SYMLINK3, F, MadeOk
    <2>3. Short(xdr_SYMLINK3.resfail)
        BY TypesShort DEF Short, xdr_SYMLINK3, F
    <2> QED
        BY <2>1, <2>2, <2>3
<1>11. Short(Wire["MKNOD"].resok) /\ Short(Wire["MKNOD"].resfail)
    <2>1. Wire["MKNOD"] = xdr_MKNOD3
        BY DEF Wire
    <2>2. Short(xdr_MKNOD3.resok)
        BY TypesShort DEF Short, xdr_MKNOD3, F, MadeOk
    <2>3. Short(xdr_MKNOD3.resfail)
        BY TypesShort DEF Short, xdr_MKNOD3, F
    <2> QED
        BY <2>1, <2>2, <2>3
<1>12. Short(Wire["REMOVE"].resok) /\ Short(Wire["REMOVE"].resfail)
    <2>1. Wire["REMOVE"] = xdr_REMOVE3
        BY DEF Wire
    <2>2. Short(xdr_REMOVE3.resok)
        BY TypesShort DEF Short, xdr_REMOVE3, F
    <2>3. Short(xdr_REMOVE3.resfail)
        BY TypesShort DEF Short, xdr_REMOVE3, F
    <2> QED
        BY <2>1, <2>2, <2>3
<1>13. Short(Wire["RMDIR"].resok) /\ Short(Wire["RMDIR"].resfail)
    <2>1. Wire["RMDIR"] = xdr_RMDIR3
        BY DEF Wire
    <2>2. Short(xdr_RMDIR3.resok)
        BY TypesShort DEF Short, xdr_RMDIR3, F
    <2>3. Short(xdr_RMDIR3.resfail)
        BY TypesShort DEF Short, xdr_RMDIR3, F
    <2> QED
        BY <2>1, <2>2, <2>3
<1>14. Short(Wire["RENAME"].resok) /\ Short(Wire["RENAME"].resfail)
    <2>1. Wire["RENAME"] = xdr_RENAME3
        BY DEF Wire
    <2>2. Short(xdr_RENAME3.resok)
        BY TypesShort DEF Short, xdr_RENAME3, F
    <2>3. Short(xdr_RENAME3.resfail)
        BY TypesShort DEF Short, xdr_RENAME3, F
    <2> QED
        BY <2>1, <2>2, <2>3
<1>15. Short(Wire["LINK"].resok) /\ Short(Wire["LINK"].resfail)
    <2>1. Wire["LINK"] = xdr_LINK3
        BY DEF Wire
    <2>2. Short(xdr_LINK3.resok)
        BY TypesShort DEF Short, xdr_LINK3, F
    <2>3. Short(xdr_LINK3.resfail)
        BY TypesShort DEF Short, xdr_LINK3, F
    <2> QED
        BY <2>1, <2>2, <2>3
<1>16. Short(Wire["READDIR"].resok) /\ Short(Wire["READDIR"].resfail)
    <2>1. Wire["READDIR"] = xdr_READDIR3
        BY DEF Wire
    <2>2. Short(xdr_READDIR3.resok)
        BY TypesShort DEF Short, xdr_READDIR3, F
    <2>3. Short(xdr_READDIR3.resfail)
        BY TypesShort DEF Short, xdr_READDIR3, F
    <2> QED
        BY <2>1, <2>2, <2>3
<1>17. Short(Wire["READDIRPLUS"].resok) /\ Short(Wire["READDIRPLUS"].resfail)
    <2>1. Wire["READDIRPLUS"] = xdr_READDIRPLUS3
        BY DEF Wire
    <2>2. Short(xdr_READDIRPLUS3.resok)
        BY TypesShort DEF Short, xdr_READDIRPLUS3, F
    <2>3. Short(xdr_READDIRPLUS3.resfail)
        BY TypesShort DEF Short, xdr_READDIRPLUS3, F
    <2> QED
        BY <2>1, <2>2, <2>3
<1>18. Short(Wire["FSSTAT"].resok) /\ Short(Wire["FSSTAT"].resfail)
    <2>1. Wire["FSSTAT"] = xdr_FSSTAT3
        BY DEF Wire
    <2>2. Short(xdr_FSSTAT3.resok)
        BY TypesShort DEF Short, xdr_FSSTAT3, F
    <2>3. Short(xdr_FSSTAT3.resfail)
        BY TypesShort DEF Short, xdr_FSSTAT3, F
    <2> QED
        BY <2>1, <2>2, <2>3
<1>19. Short(Wire["FSINFO"].resok) /\ Short(Wire["FSINFO"].resfail)
    <2>1. Wire["FSINFO"] = xdr_FSINFO3
        BY DEF Wire
    <2>2. Short(xdr_FSINFO3.resok)
        BY TypesShort DEF Short, xdr_FSINFO3, F
    <2>3. Short(xdr_FSINFO3.resfail)
        BY TypesShort DEF Short, xdr_FSINFO3, F
    <2> QED
        BY <2>1, <2>2, <2>3
<1>20. Short(Wire["PATHCONF"].resok) /\ Short(Wire["PATHCONF"].resfail)
    <2>1. Wire["PATHCONF"] = xdr_PATHCONF3
        BY DEF Wire
    <2>2. Short(xdr_PATHCONF3.resok)
        BY TypesShort DEF Short, xdr_PATHCONF3, F
    <2>3. Short(xdr_PATHCONF3.resfail)
        BY TypesShort DEF Short, xdr_PATHCONF3, F
    <2> QED
        BY <2>1, <2>2, <2>3
<1>21. Short(Wire["COMMIT"].resok) /\ Short(Wire["COMMIT"].resfail)
    <2>1. Wire["COMMIT"] = xdr_COMMIT3
        BY DEF Wire
    <2>2. Short(xdr_COMMIT3.resok)
        BY TypesShort DEF Short, xdr_COMMIT3, F
    <2>3. Short(xdr_COMMIT3.resfail)
        BY TypesShort DEF Short, xdr_COMMIT3, F
    <2> QED
        BY <2>1, <2>2, <2>3
<1>22. Short(Wire["MNT"].resok) /\ Short(Wire["MNT"].resfail)
    <2>1. Wire["MNT"] = xdr_mountres3
        BY DEF Wire
    <2>2. Short(xdr_mountres3.resok)
        BY TypesShort DEF Short, xdr_mountres3, F
    <2>3. Short(xdr_mountres3.resfail)
        BY TypesShort DEF Short, xdr_mountres3, F
    <2> QED
        BY <2>1, <2>2, <2>3
<1> QED
    BY ProcsAre, <1>1, <1>2, <1>3, <1>4, <1>5, <1>6, <1>7, <1>8,
       <1>9, <1>10, <1>11, <1>12, <1>13, <1>14, <1>15, <1>16,
       <1>17, <1>18, <1>19, <1>20, <1>21, <1>22
       DEF ProcNames

\* A sum of n numbers up to 29.
LEMMA SumsBound ==
    ASSUME NEW n \in Nat, NEW b \in Nat, NEW u, NEW v \in [1..n -> Nat], Sums(u, b, v, n),
           \A k \in 1..n : v[k] <= 29
    PROVE  u[n] \in Nat /\ u[n] <= b + 29 * n
<1> DEFINE S == {k \in 0..n : u[k] <= b + 29 * k}
<1>0. \A k \in 0..n : u[k] \in Nat
    BY DEF Sums
<1>1. 0 \in S
    BY DEF Sums
<1>2. ASSUME NEW k \in 0..n, k < n, k \in S PROVE k + 1 \in S
    <2>1. k + 1 \in 1..n /\ k + 1 \in 0..n /\ (k + 1) - 1 = k
        BY <1>2
    <2>2. u[k + 1] = u[k] + v[k + 1] /\ v[k + 1] \in Nat /\ v[k + 1] <= 29
        BY <2>1 DEF Sums
    <2>3. u[k] \in Nat /\ u[k] <= b + 29 * k
        BY <1>0, <1>2
    <2> QED
        BY <2>1, <2>2, <2>3
<1> HIDE DEF S
<1>3. 0..n \subseteq S
    BY <1>1, <1>2, Induct
<1> QED
    BY <1>0, <1>3 DEF S

\* The length of the fixed part of a reply.
ReplyWords(p, a) ==
    LET s == Wire[p][a]
        upto[i \in 0 .. Len(s)] == IF i = 0 THEN 1 ELSE upto[i - 1] + words[s[i].type]
    IN  upto[Len(s)]

\* It is at most 320 words, far less than the buffers.
LEMMA ReplyWordsBound ==
    ASSUME NEW p \in Procs, NEW a \in Arms
    PROVE  ReplyWords(p, a) \in 1..320
<1> DEFINE s == Wire[p][a]
           N == Len(s)
           v == [i \in 1..N |-> words[s[i].type]]
           Is(u) == u = [i \in 0 .. Len(s) |-> IF i = 0 THEN 1 ELSE u[i - 1] + words[s[i].type]]
           u0 == CHOOSE u : Is(u)
<1>0. Short(s)
    <2>1. s = Wire[p].resok \/ s = Wire[p].resfail
        BY DEF Arms
    <2> HIDE DEF s
    <2> QED
        BY <2>1, RepliesShort
<1>8. ReplyWords(p, a) = u0[N]
    BY DEF ReplyWords
<1> HIDE DEF s
<1>1. N \in Nat /\ N <= 11 /\ \A i \in 1..N : words[s[i].type] \in Nat /\ words[s[i].type] <= 29
    <2>1. \A t \in ReplyTypes : words[t] \in Nat /\ words[t] <= 29
        BY WordsAre, WordDomain DEF ReplyTypes
    <2>2. N \in 0..11 /\ \A i \in 1..N : s[i].type \in ReplyTypes
        BY <1>0 DEF Short
    <2> QED
        BY <2>1, <2>2
<1>2. v \in [1..N -> Nat] /\ \A i \in 1..N : v[i] = words[s[i].type] /\ v[i] <= 29
    <2> HIDE DEF N
    <2> QED
        BY <1>1
<1>3. \A u : Is(u) <=> Upto(u, 1, v, N)
    <2>1. ASSUME NEW u PROVE [i \in 0 .. Len(s) |-> IF i = 0 THEN 1 ELSE u[i - 1] + words[s[i].type]]
                           = [i \in 0 .. N |-> IF i = 0 THEN 1 ELSE u[i - 1] + v[i]]
        <3> HIDE DEF v
        <3> QED
            BY <1>2
    <2> HIDE DEF N, v
    <2> QED
        BY <2>1 DEF Upto, N
<1> HIDE DEF N, v, Is
<1>4. \E u : Upto(u, 1, v, N)
    BY <1>1, <1>2, UptoExists
<1>5. Is(u0)
    BY <1>3, <1>4
<1> HIDE DEF u0
<1>6. Sums(u0, 1, v, N)
    BY <1>1, <1>2, <1>3, <1>5, UptoSums
<1>7. u0[N] \in Nat /\ u0[N] <= 1 + 29 * N
    BY <1>1, <1>2, <1>6, SumsBound
<1>9. 1 <= u0[N]
    <2>1. 0 \in 0..N /\ N \in 0..N /\ 0 <= N
        BY <1>1
    <2>2. u0[0] <= u0[N]
        BY <1>1, <1>2, <1>6, <2>1, SumsGrow
    <2> QED
        BY <2>2, <1>6 DEF Sums
<1>10. u0[N] \in 1..320
    <2> DEFINE k == u0[N]
    <2>1. k \in Nat /\ k <= 1 + 29 * N /\ 1 <= k
        BY <1>7, <1>9
    <2> HIDE DEF k
    <2>2. k \in 1..320
        BY <1>1, <2>1
    <2> QED
        BY <2>2 DEF k
<1> QED
    BY <1>8, <1>10

----------------------------------------------------------------------------
(* Replies fit.                                                             *)

\* The procedures the NFS dispatcher knows.
NfsProcs == {nfs3_program_3[i] : i \in 1..22}

\* The inductive invariant: the request is one of the two programs', and the
\* procedures of the NFS program are those of its dispatch table.
FitInv ==
    /\ req.prog \in {"nfs", "mount"} /\ req.via \in {"udp", "tcp"}
    /\ req.prog = "nfs" => req.proc \in NfsProcs
    /\ RepliesFit

\* They are those with handlers in nfs.c.
LEMMA NfsProcsAre ==
    /\ Len(nfs3_program_3) = 22
    /\ "NULL" \in NfsProcs
    /\ \A p \in NfsProcs : p # "DUMP" /\ p # "EXPORT"
BY DEF NfsProcs, nfs3_program_3

\* Min of a count and a limit is at most the limit.
LEMMA MinBound ==
    ASSUME NEW c \in Nat, NEW l \in Nat
    PROVE  Min({c, l}) \in 0..l
<1>1. \E m \in {c, l} : \A y \in {c, l} : m <= y
    OBVIOUS
<1>2. Min({c, l}) \in {c, l} /\ \A y \in {c, l} : Min({c, l}) <= y
    BY <1>1 DEF Min
<1> QED
    BY <1>2

\* What a reply of the NFS program may add to its fixed part.
LEMMA ExtraBound ==
    ASSUME req.proc \in NfsProcs, req.via = "udp", NEW x \in Extra
    PROVE  x \in 0..NFS_MAXDATA_UDP
<1>1. req.proc \notin DOMAIN EntryWords
    BY NfsProcsAre DEF EntryWords
<1>2. x \in {BytesRead(req.via, c) : c \in ReadCounts} \/ x = 4096 \div 4 \/ x = 0
    BY <1>1 DEF Extra
<1>3. 4096 \div 4 \in 0..NFS_MAXDATA_UDP /\ 0 \in 0..NFS_MAXDATA_UDP /\ NFS_MAXDATA_UDP \in Nat
    BY DEF NFS_MAXDATA_UDP
<1>4. maxdata(req.via) = NFS_MAXDATA_UDP
    BY DEF maxdata
<1>5. ASSUME NEW c \in ReadCounts PROVE BytesRead(req.via, c) \in 0..NFS_MAXDATA_UDP
    <2>1. c \in Nat
        BY RpcAssumption
    <2> QED
        BY <2>1, <1>3, <1>4, MinBound DEF BytesRead
<1> QED
    BY <1>2, <1>3, <1>5

\* Encoding keeps the invariant: the fixed part and the data fit into the buffer.
LEMMA FitReply == FitInv /\ Reply => FitInv'
<1> SUFFICES ASSUME FitInv, Reply PROVE FitInv'
    OBVIOUS
<1>1. req' = req
    BY DEF Reply
<1>2. ASSUME answer'.kind = "systemerr" PROVE req.prog = "mount" /\ req.via = "udp"
    <2>1. PICK x \in Extra :
            answer' = IF Fits(req.via, HeaderWords + FixedWords + x)
                      THEN [kind |-> "reply", words |-> HeaderWords + FixedWords + x]
                      ELSE [kind |-> "systemerr", words |-> HeaderWords]
        BY DEF Reply
    <2>2. ~Fits(req.via, HeaderWords + FixedWords + x)
        BY <1>2, <2>1
    <2>3. req.via = "udp" /\ ~(HeaderWords + FixedWords + x <= NFS_MAX_UDP_PACKET)
        BY <2>2 DEF Fits, FitInv
    <2>4. ASSUME req.prog = "nfs" PROVE FALSE
        <3>1. x \in 0..NFS_MAXDATA_UDP
            BY <2>3, <2>4, ExtraBound DEF FitInv
        <3>2. FixedWords \in 1..320
            <4>1. CASE req.proc \notin Procs
                BY <4>1 DEF FixedWords
            <4>2. CASE req.proc \in Procs
                <5>1. Arm \in Arms
                    BY DEF Arm, Arms
                <5>2. FixedWords = ReplyWords(req.proc, Arm)
                    BY <4>2 DEF FixedWords, ReplyWords
                <5> QED
                    BY <4>2, <5>1, <5>2, ReplyWordsBound
            <4> QED
                BY <4>1, <4>2
        <3>3. HeaderWords = 6 /\ NFS_MAX_UDP_PACKET = NFS_MAXDATA_UDP + 1024 /\ NFS_MAXDATA_UDP \in Nat
            BY DEF HeaderWords, NFS_MAX_UDP_PACKET, NFS_MAXDATA_UDP
        <3> QED
            BY <2>3, <3>1, <3>2, <3>3
    <2> QED
        BY <2>3, <2>4 DEF FitInv
<1>3. RepliesFit'
    BY <1>1, <1>2 DEF RepliesFit
<1> QED
    BY <1>1, <1>3 DEF FitInv

\* A request that arrives is one of the two programs'.
LEMMA FitArrive == FitInv /\ Arrive => FitInv'
<1> SUFFICES ASSUME FitInv, Arrive PROVE FitInv'
    OBVIOUS
<1>1. PICK prog \in DOMAIN Table, via \in {"udp", "tcp"} : \E n \in 0 .. Len(Table[prog]) :
         IF n = Len(Table[prog])
         THEN answer' = [kind |-> "noproc", words |-> 6] /\ req' = req
         ELSE /\ req' = [prog |-> prog, proc |-> Table[prog][n + 1], via |-> via]
              /\ answer' = NoAnswer
    BY DEF Arrive
<1>2. PICK n \in 0 .. Len(Table[prog]) :
         IF n = Len(Table[prog])
         THEN answer' = [kind |-> "noproc", words |-> 6] /\ req' = req
         ELSE /\ req' = [prog |-> prog, proc |-> Table[prog][n + 1], via |-> via]
              /\ answer' = NoAnswer
    BY <1>1
<1>3. CASE n = Len(Table[prog])
    BY <1>2, <1>3 DEF FitInv, RepliesFit
<1>4. CASE n # Len(Table[prog])
    <2>1. prog \in {"nfs", "mount"}
        BY DEF Table
    <2>2. prog = "nfs" => Table[prog][n + 1] \in NfsProcs
        <3>1. prog = "nfs" => Table[prog] = nfs3_program_3
            BY DEF Table
        <3>2. prog = "nfs" => n + 1 \in 1..22
            <4>1. prog = "nfs" => Len(Table[prog]) = 22
                BY <3>1, NfsProcsAre
            <4> DEFINE l == Len(Table[prog])
            <4>2. n \in 0..l /\ n # l
                BY <1>4
            <4> HIDE DEF l
            <4>3. l = 22 => n + 1 \in 1..22
                BY <4>2
            <4> QED
                BY <4>1, <4>3 DEF l
        <3> QED
            BY <3>1, <3>2 DEF NfsProcs
    <2>3. /\ req'.prog = prog /\ req'.proc = Table[prog][n + 1] /\ req'.via = via
          /\ answer' = NoAnswer
        BY <1>2, <1>4
    <2>4. answer'.kind # "systemerr"
        BY <2>3 DEF NoAnswer
    <2> QED
        BY <2>1, <2>2, <2>3, <2>4 DEF FitInv, RepliesFit
<1> QED
    BY <1>3, <1>4

\* Initially no reply was sent.
LEMMA FitInit == RpcInit => FitInv
BY NfsProcsAre DEF RpcInit, FitInv, RepliesFit, NoRequest, NoAnswer

\* One case for each step of a request.
LEMMA FitStep == FitInv /\ [RpcNext]_rpcVars => FitInv'
<1> SUFFICES ASSUME FitInv, [RpcNext]_rpcVars PROVE FitInv'
    OBVIOUS
<1>0. ASSUME req' = req, answer' = answer \/ answer'.kind # "systemerr" PROVE FitInv'
    BY <1>0 DEF FitInv, RepliesFit
<1>1. CASE Arrive
    BY <1>1, FitArrive
<1>2. CASE Decode
    <2>1. req' = req /\ (answer' = answer \/ answer'.kind # "systemerr")
        BY <1>2 DEF Decode, Continue, svcerr_decode
    <2> QED
        BY <1>0, <2>1
<1>3. CASE DecodeFails
    BY <1>0, <1>3 DEF DecodeFails, svcerr_decode
<1>4. CASE Decoded
    BY <1>0, <1>4 DEF Decoded
<1>5. CASE PREP
    BY <1>0, <1>5 DEF PREP
<1>6. CASE Handle
    BY <1>0, <1>6 DEF Handle
<1>7. CASE HandlePlain
    BY <1>0, <1>7 DEF HandlePlain
<1>8. CASE Reply
    BY <1>8, FitReply
<1>9. CASE Restart
    BY <1>0, <1>9 DEF Restart
<1>10. CASE UNCHANGED rpcVars
    BY <1>0, <1>10 DEF rpcVars
<1> QED
    BY <1>1, <1>2, <1>3, <1>4, <1>5, <1>6, <1>7, <1>8, <1>9, <1>10 DEF RpcNext, Serve

\* For any counts clients ask for and lists of any length: svc_sendreply (daemon.c) never
\* fails for want of room in a reply of the NFS program, over UDP or TCP, because READ
\* and READDIR cut what they return; only lists of the mount program over UDP can be
\* too long.
THEOREM RepliesAreSent == RpcSpec => []RepliesFit
<1>1. FitInv => RepliesFit
    BY DEF FitInv
<1> QED
    BY <1>1, FitInit, FitStep, PTL DEF RpcSpec

----------------------------------------------------------------------------

(* The inductive invariant: a nonce that authenticated a mount was          *)
(* generated, so no nonce generated later equals it; and no one-time        *)
(* password is computed from the empty nonce the server starts with.        *)
OtpInv ==
    /\ nonce \in spent \cup {NoNonce}
    /\ spent \subseteq Nonces
    /\ used \subseteq spent
    /\ held \in [Hosts -> Nonces \cup {NoNonce}]
    /\ \A m \in sent : m.otp \in Nonces
    /\ OtpUsedOnce

\* A step that generates a nonce and marks none but the old one as used.
LEMMA FreshNonce ==
    ASSUME OtpInv, gen_nonce, used' \subseteq used \cup {nonce}, nonce \in spent \/ used' = used
    PROVE  /\ nonce' \in spent'
           /\ spent' \subseteq Nonces
           /\ used' \subseteq spent'
           /\ nonce' \notin used'
BY DEF OtpInv, gen_nonce, OtpUsedOnce

\* Steps that touch nothing the invariant is about.
LEMMA OtpSame == OtpInv /\ UNCHANGED otpVars => OtpInv'
BY DEF OtpInv, otpVars, OtpUsedOnce

\* Every step keeps the invariant.
LEMMA OtpStep == OtpInv /\ [MountNext]_mountVars => OtpInv'
<1> SUFFICES ASSUME OtpInv, [MountNext]_mountVars PROVE OtpInv'
    OBVIOUS
<1>1. ASSUME NEW c \in Hosts, NEW d \in Dirs, SendOtp(c, d) PROVE OtpInv'
    <2>1. held[c] \in Nonces
        BY <1>1 DEF SendOtp, OtpInv
    <2> QED
        BY <1>1, <2>1 DEF SendOtp, OtpInv, OtpUsedOnce
<1>2. ASSUME NEW c \in Hosts, MntGetNonce(c) PROVE OtpInv'
    <2>1. /\ gen_nonce
          /\ held' = [held EXCEPT ![c] = nonce']
          /\ used' = used
          /\ sent' = sent
        BY <1>2 DEF MntGetNonce
    <2>2. nonce' \in Nonces
        BY <2>1 DEF gen_nonce
    <2>3. /\ nonce' \in spent'
          /\ spent' \subseteq Nonces
          /\ used' \subseteq spent'
          /\ nonce' \notin used'
        BY <2>1, FreshNonce
    <2>4. held' \in [Hosts -> Nonces \cup {NoNonce}]
        BY <2>1, <2>2 DEF OtpInv
    <2> QED
        BY <2>1, <2>3, <2>4 DEF OtpInv, OtpUsedOnce
<1>3. ASSUME NEW m \in sent, MntOtp(m) PROVE OtpInv'
    <2>1. held' = held /\ sent' = sent
        BY <1>3 DEF MntOtp
    <2>2. CASE OtpCheck(m)
        <3>1. gen_nonce /\ used' = IF m.otp = nonce THEN used \cup {m.otp} ELSE used
            BY <2>2 DEF OtpCheck
        <3>2. used' \subseteq used \cup {nonce}
            BY <3>1
        <3>3. nonce \in spent \/ used' = used
            BY <3>1, ExportAssumption DEF OtpInv
        <3>4. /\ nonce' \in spent'
              /\ spent' \subseteq Nonces
              /\ used' \subseteq spent'
              /\ nonce' \notin used'
            BY <3>1, <3>2, <3>3, FreshNonce
        <3> QED
            BY <2>1, <3>4 DEF OtpInv, OtpUsedOnce
    <2>3. CASE UNCHANGED <<nonce, spent, used>>
        BY <2>1, <2>3 DEF OtpInv, OtpUsedOnce
    <2> QED
        BY <1>3, <2>2, <2>3 DEF MntOtp
<1>4. ASSUME NEW c \in Hosts, NEW d \in Dirs, MntPlain(c, d) PROVE OtpInv'
    BY <1>4, OtpSame DEF MntPlain
<1>5. ASSUME NEW c \in Hosts, NEW d \in Dirs, NEW right \in BOOLEAN, MntPassword(c, d, right)
      PROVE  OtpInv'
    BY <1>5, OtpSame DEF MntPassword
<1>6. ASSUME NEW c \in Hosts, NEW d \in Dirs, Umnt(c, d) \/ NfsRequest(c, d) PROVE OtpInv'
    BY <1>6, OtpSame DEF Umnt, NfsRequest
<1>7. ASSUME NEW c \in Hosts, UmntAll(c) PROVE OtpInv'
    BY <1>7, OtpSame DEF UmntAll
<1>8. ASSUME NEW d \in Dirs, Media(d) PROVE OtpInv'
    BY <1>8, OtpSame DEF Media
<1>9. CASE UNCHANGED mountVars
    BY <1>9, OtpSame DEF mountVars, otpVars
<1> QED
    BY <1>1, <1>2, <1>3, <1>4, <1>5, <1>6, <1>7, <1>8, <1>9 DEF MountNext

\* No one-time password ever authenticates two mounts, although the server keeps
\* a single nonce and the network repeats requests.
THEOREM OtpIsOneTime == MountSpec => []OtpUsedOnce
<1>1. MountInit => OtpInv
    BY DEF MountInit, OtpInv, OtpUsedOnce
<1>2. OtpInv => OtpUsedOnce
    BY DEF OtpInv
<1> QED
    BY <1>1, <1>2, OtpStep, PTL DEF MountSpec

----------------------------------------------------------------------------
(* The counter *)

\* A list of anything, and the invariant: the counter is the length of the list.
IsList(s) == s \in Seq({s[i] : i \in DOMAIN s})

CountInv == IsList(mount_list) /\ CountMatches

\* A list has a length and positions up to it.
LEMMA ListLength ==
    ASSUME NEW s, IsList(s)
    PROVE  Len(s) \in Nat /\ DOMAIN s = 1..Len(s)
BY LenProperties DEF IsList

\* A function on the numbers up to n is a list of n entries.
LEMMA ListOf ==
    ASSUME NEW n \in Nat, NEW s, NEW V, s \in [1..n -> V]
    PROVE  IsList(s) /\ Len(s) = n
<1>1. s \in [1..n -> {s[i] : i \in DOMAIN s}]
    OBVIOUS
<1>2. s \in Seq({s[i] : i \in DOMAIN s})
    BY <1>1
<1>3. IsList(s)
    BY <1>2 DEF IsList
<1>4. s \in Seq(V)
    OBVIOUS
<1>5. Len(s) = n
    BY <1>4
<1> QED
    BY <1>3, <1>5

\* A mount makes the list one entry longer.
LEMMA MountCounted ==
    ASSUME CountInv, NEW c, NEW d, add_mount(c, d)
    PROVE  CountInv'
<1> DEFINE e == [host |-> c, dir |-> d]
           V == {mount_list[i] : i \in DOMAIN mount_list} \cup {e}
<1>1. mount_list' = Append(mount_list, e) /\ mount_cnt' = mount_cnt + 1
    BY DEF add_mount
<1>2. mount_list \in Seq({mount_list[i] : i \in DOMAIN mount_list})
    BY DEF CountInv, IsList
<1>3. mount_list \in Seq(V) /\ e \in V
    <2>1. \A i \in 1..Len(mount_list) : mount_list[i] \in V
        BY <1>2
    <2> HIDE DEF V
    <2>2. mount_list = [i \in 1..Len(mount_list) |-> mount_list[i]]
        BY <1>2
    <2>3. mount_list \in [1..Len(mount_list) -> V]
        BY <2>1, <2>2
    <2>4. Len(mount_list) \in Nat
        BY <1>2, LenProperties
    <2> QED
        BY <2>3, <2>4 DEF V
<1> HIDE DEF V, e
<1>4. mount_list' \in Seq(V) /\ Len(mount_list') = Len(mount_list) + 1 /\ Len(mount_list) \in Nat
    BY <1>1, <1>3, AppendProperties, LenProperties
<1>5. mount_list' \in [1..(Len(mount_list) + 1) -> V]
    BY <1>4, LenProperties
<1>6. IsList(mount_list')
    BY <1>4, <1>5, ListOf
<1>7. mount_cnt' = Len(mount_list')
    BY <1>1, <1>4 DEF CountInv, CountMatches
<1> QED
    BY <1>6, <1>7 DEF CountInv, CountMatches, IsList

\* What goes is what the counter is lowered by: it never hits the stop at 0 early.
LEMMA UnmountCounted ==
    ASSUME CountInv, NEW c, NEW dirs, remove_mount(c, dirs)
    PROVE  CountInv'
<1> DEFINE S == Stay(c, dirs)
           n == Cardinality(S)
           N == Len(mount_list)
           list == [i \in 1..n |-> mount_list[Nth(S, i)]]
<1>1. mount_list' = list /\ mount_cnt' = IF mount_cnt > N - Len(mount_list') THEN mount_cnt - (N - Len(mount_list')) ELSE 0
    BY DEF remove_mount, Rest
<1>2. N \in Nat /\ DOMAIN mount_list = 1..N /\ mount_cnt = N
    BY ListLength DEF CountInv, CountMatches
<1>3. S \subseteq 1..N
    BY <1>2 DEF Stay
<1>4. IsFiniteSet(1..N) /\ Cardinality(1..N) = N
    <2> HIDE DEF N
    <2>1. IsFiniteSet(1..N) /\ Cardinality(1..N) = IF 1 > N THEN 0 ELSE N - 1 + 1
        BY <1>2, FS_Interval
    <2> QED
        BY <1>2, <2>1
<1> HIDE DEF S, N
<1>5. n \in Nat /\ n <= N
    BY <1>3, <1>4, FS_Subset, FS_CardinalityType
<1>6. IsList(list) /\ Len(list) = n
    <2> DEFINE V == {mount_list[Nth(S, i)] : i \in 1..n}
    <2>1. list \in [1..n -> V]
        OBVIOUS
    <2> HIDE DEF list, V, n
    <2> QED
        BY <1>5, <2>1, ListOf
<1> HIDE DEF list, n
<1>7. mount_cnt' = n
    BY <1>1, <1>2, <1>5, <1>6
<1>8. mount_cnt' = Len(mount_list') /\ IsList(mount_list')
    BY <1>1, <1>6, <1>7
<1> QED
    BY <1>8 DEF CountInv, CountMatches, IsList

\* Mounting adds one entry and one to the counter; unmounting keeps what stays.
LEMMA CountStep == CountInv /\ [MountNext]_mountVars => CountInv'
<1> SUFFICES ASSUME CountInv, [MountNext]_mountVars PROVE CountInv'
    OBVIOUS
<1>1. ASSUME UNCHANGED <<mount_list, mount_cnt>> PROVE CountInv'
    BY <1>1 DEF CountInv, CountMatches, IsList
<1>2. ASSUME NEW c, NEW d, NEW opts, NEW authenticated, Admit(c, d, opts, authenticated) PROVE CountInv'
    BY <1>1, <1>2, MountCounted DEF Admit
<1>3. ASSUME NEW c \in Hosts, NEW d \in Dirs,
             MntPlain(c, d) \/ (\E right \in BOOLEAN : MntPassword(c, d, right))
      PROVE  CountInv'
    BY <1>2, <1>3 DEF MntPlain, MntPassword
<1>4. ASSUME NEW m \in sent, MntOtp(m) PROVE CountInv'
    BY <1>2, <1>4 DEF MntOtp
<1>5. ASSUME NEW c \in Hosts, NEW d \in Dirs, Umnt(c, d) \/ UmntAll(c) PROVE CountInv'
    BY <1>5, UnmountCounted DEF Umnt, UmntAll
<1>6. ASSUME NEW c \in Hosts, UmntAll(c) PROVE CountInv'
    BY <1>6, UnmountCounted DEF UmntAll
<1>7. ASSUME NEW c \in Hosts, NEW d \in Dirs, SendOtp(c, d) \/ NfsRequest(c, d) PROVE CountInv'
    BY <1>1, <1>7 DEF SendOtp, NfsRequest
<1>8. ASSUME NEW c \in Hosts, MntGetNonce(c) PROVE CountInv'
    BY <1>1, <1>8 DEF MntGetNonce
<1>9. ASSUME NEW d \in Dirs, Media(d) PROVE CountInv'
    BY <1>1, <1>9 DEF Media
<1>10. CASE UNCHANGED mountVars
    BY <1>1, <1>10 DEF mountVars
<1> QED
    BY <1>3, <1>4, <1>5, <1>6, <1>7, <1>8, <1>9, <1>10 DEF MountNext

\* The counter that decides when UMNT and UMNTALL flush the descriptors is always
\* the length of the mount list, however many entries of however many hosts go at
\* once.
THEOREM CounterCounts == MountSpec => []CountMatches
<1>1. MountInit => CountInv
    BY DEF MountInit, CountInv, CountMatches, IsList
<1>2. CountInv => CountMatches
    BY DEF CountInv
<1> QED
    BY <1>1, <1>2, CountStep, PTL DEF MountSpec

----------------------------------------------------------------------------
(* Types of the mount service *)

\* The i-th of a finite set of positions is one of them.
LEMMA NthIn ==
    ASSUME NEW N \in Nat, NEW S, S \subseteq 1..N, NEW i \in 1..Cardinality(S)
    PROVE  Nth(S, i) \in S
<1> DEFINE Low(k) == {j \in S : j <= k}
           T == {k \in 0..N : Cardinality(Low(k)) >= i}
<1>1. IsFiniteSet(S) /\ Cardinality(S) \in Nat
    <2>1. IsFiniteSet(1..N)
        BY FS_Interval
    <2> QED
        BY <2>1, FS_Subset, FS_CardinalityType
<1>2. \A k \in 0..N : IsFiniteSet(Low(k)) /\ Cardinality(Low(k)) \in Nat
    <2> SUFFICES ASSUME NEW k \in 0..N PROVE IsFiniteSet(Low(k)) /\ Cardinality(Low(k)) \in Nat
        OBVIOUS
    <2>1. Low(k) \in SUBSET S
        OBVIOUS
    <2> HIDE DEF Low
    <2> QED
        BY <1>1, <2>1, FS_Subset, FS_CardinalityType
<1>0. \A j \in S : j \in Nat /\ 1 <= j /\ j <= N
    OBVIOUS
<1>3. Low(N) = S /\ Low(0) = {}
    <2>1. \A j \in S : ~(j <= 0)
        BY <1>0
    <2> QED
        BY <1>0, <2>1, Zenon
<1> HIDE DEF Low
<1>4. N \in T
    BY <1>1, <1>3
<1>5. T \subseteq Nat /\ T # {}
    BY <1>4
<1> HIDE DEF T
<1>6. PICK k \in T : \A m \in T : k <= m
    BY <1>5, Least
<1>7. k \in 0..N /\ Cardinality(Low(k)) >= i
    BY <1>6 DEF T
<1>8. k # 0
    BY <1>3, <1>7, FS_EmptySet
<1>9. k - 1 \in 0..N /\ Cardinality(Low(k - 1)) < i
    <2>1. k - 1 \in 0..N /\ ~(k <= k - 1)
        BY <1>7, <1>8
    <2>2. k - 1 \notin T
        BY <1>6, <2>1
    <2>3. Cardinality(Low(k - 1)) \in Nat
        BY <1>2, <2>1
    <2> QED
        BY <1>1, <2>1, <2>2, <2>3 DEF T
<1>10. k \in S /\ Cardinality(Low(k)) = i
    <2>0. \A j \in S : j <= k <=> j <= k - 1 \/ j = k
        BY <1>0, <1>7, <1>8
    <2>a. ~(k <= k - 1)
        BY <1>7
    <2>1. k \notin S => Low(k) = Low(k - 1)
        BY <2>0, Zenon DEF Low
    <2>2. k \in S => Low(k) = Low(k - 1) \cup {k} /\ k \notin Low(k - 1)
        BY <2>0, <2>a DEF Low
    <2>3. k \in S
        BY <1>2, <1>7, <1>9, <2>1
    <2>4. Cardinality(Low(k)) = Cardinality(Low(k - 1)) + 1
        BY <1>2, <1>9, <2>2, <2>3, FS_AddElement
    <2> QED
        BY <1>2, <1>7, <1>9, <2>3, <2>4
<1>11. \E j \in S : Cardinality({m \in S : m <= j}) = i
    BY <1>10 DEF Low
<1> QED
    BY <1>11 DEF Nth

\* What remove_mount leaves is a list of mounts, and the counter is a number.
LEMMA UnmountTyped ==
    ASSUME MountTypeOK, NEW c, NEW dirs, remove_mount(c, dirs)
    PROVE  mount_list' \in Seq([host : Hosts, dir : Dirs]) /\ mount_cnt' \in Nat
<1> DEFINE M == [host : Hosts, dir : Dirs]
           N == Len(mount_list)
           S == Stay(c, dirs)
           n == Cardinality(S)
<1>1. mount_list \in Seq(M) /\ N \in Nat /\ DOMAIN mount_list = 1..N /\ mount_cnt \in Nat
    BY LenProperties DEF MountTypeOK
<1>2. S \subseteq 1..N
    BY <1>1 DEF Stay
<1>3. mount_list' = [i \in 1..n |-> mount_list[Nth(S, i)]]
    BY DEF remove_mount, Rest
<1>4. mount_cnt' = IF mount_cnt > N - Len(mount_list') THEN mount_cnt - (N - Len(mount_list')) ELSE 0
    BY DEF remove_mount
<1> HIDE DEF M, N, S
<1>5. n \in Nat
    <2>1. IsFiniteSet(1..N)
        BY <1>1, FS_Interval
    <2> QED
        BY <1>2, <2>1, FS_Subset, FS_CardinalityType
<1>6. \A i \in 1..n : Nth(S, i) \in 1..N
    BY <1>1, <1>2, NthIn
<1>7. \A k \in 1..N : mount_list[k] \in M
    BY <1>1 DEF N
<1>8. \A i \in 1..n : mount_list[Nth(S, i)] \in M
    BY <1>6, <1>7
<1> HIDE DEF n
<1>9. mount_list' \in [1..n -> M]
    BY <1>3, <1>8
<1>10. mount_list' \in Seq(M)
    BY <1>5, <1>9
<1>11. Len(mount_list') \in Nat
    BY <1>10, LenProperties
<1>12. mount_cnt' \in Nat
    BY <1>1, <1>4, <1>11
<1> QED
    BY <1>10, <1>12 DEF M

\* What the last part of MNT answers and adds to the list.
LEMMA AdmitTyped ==
    ASSUME MountTypeOK, NEW c \in Hosts, NEW d \in Dirs, NEW b,
           NEW opts \in {"all", "removable", "fixed"}, Admit(c, d, opts, b)
    PROVE  /\ mount_list' \in Seq([host : Hosts, dir : Dirs]) /\ mount_cnt' \in Nat
           /\ exports_opts' \in {"all", "removable", "fixed"}
           /\ reply' \in [host : Hosts \cup {"none"}, dir : Dirs \cup {"none"},
                          status : {"none", "OK", "ACCES", "NOENT"}]
<1> DEFINE M == [host : Hosts, dir : Dirs]
<1>1. mount_list \in Seq(M) /\ mount_cnt \in Nat
    BY DEF MountTypeOK
<1>2. exports_options(c, d) \in {"all", "removable", "fixed"}
    BY DEF exports_options
<1>3. exports_opts' \in {opts, exports_options(c, d)}
    BY DEF Admit
<1>4. \E s \in {"OK", "ACCES", "NOENT"} : reply' = [host |-> c, dir |-> d, status |-> s]
    BY DEF Admit
<1>5. UNCHANGED <<mount_list, mount_cnt>> \/ add_mount(c, d)
    BY DEF Admit
<1>6. mount_list' \in Seq(M) /\ mount_cnt' \in Nat
    <2>1. CASE UNCHANGED <<mount_list, mount_cnt>>
        BY <1>1, <2>1
    <2>2. CASE add_mount(c, d)
        <3>1. [host |-> c, dir |-> d] \in M
            OBVIOUS
        <3> HIDE DEF M
        <3> QED
            BY <1>1, <2>2, <3>1, AppendProperties DEF add_mount
    <2> QED
        BY <1>5, <2>1, <2>2
<1> QED
    BY <1>2, <1>3, <1>4, <1>6

\* The parts of the types that a request with no one-time password leaves alone.
LEMMA SameTyped ==
    ASSUME MountTypeOK, UNCHANGED <<otpVars, present>>,
           mount_list' \in Seq([host : Hosts, dir : Dirs]), mount_cnt' \in Nat,
           exports_opts' \in {"all", "removable", "fixed"},
           reply' \in [host : Hosts \cup {"none"}, dir : Dirs \cup {"none"},
                       status : {"none", "OK", "ACCES", "NOENT"}]
    PROVE  MountTypeOK'
BY DEF MountTypeOK, otpVars

\* One case for each action.
LEMMA MountTyped == MountTypeOK /\ [MountNext]_mountVars => MountTypeOK'
<1> SUFFICES ASSUME MountTypeOK, [MountNext]_mountVars PROVE MountTypeOK'
    OBVIOUS
<1> DEFINE R == [host : Hosts \cup {"none"}, dir : Dirs \cup {"none"},
                 status : {"none", "OK", "ACCES", "NOENT"}]
           M == [host : Hosts, dir : Dirs]
<1>0. NoReply \in R
    BY DEF NoReply
<1>a. \A c, d : exports_options(c, d) \in {"all", "removable", "fixed"}
    BY DEF exports_options
<1>b. /\ mount_list \in Seq(M) /\ mount_cnt \in Nat
      /\ exports_opts \in {"all", "removable", "fixed"}
    BY DEF MountTypeOK
<1>1. ASSUME NEW c \in Hosts, NEW d \in Dirs, MntPlain(c, d) PROVE MountTypeOK'
    BY <1>1, <1>b, AdmitTyped, SameTyped DEF MntPlain
<1>2. ASSUME NEW c \in Hosts, NEW d \in Dirs, NEW right, MntPassword(c, d, right) PROVE MountTypeOK'
    BY <1>2, <1>a, AdmitTyped, SameTyped DEF MntPassword
<1>3. ASSUME NEW c \in Hosts, NEW d \in Dirs, SendOtp(c, d) PROVE MountTypeOK'
    <2>1. held[c] \in Nonces /\ held' = [held EXCEPT ![c] = NoNonce]
          /\ sent' = sent \cup {[host |-> c, dir |-> d, otp |-> held[c]]} /\ reply' = NoReply
          /\ UNCHANGED <<mount_list, mount_cnt, nonce, spent, used, exports_opts, present>>
        BY <1>3 DEF SendOtp, MountTypeOK
    <2>2. sent' \in SUBSET [host : Hosts, dir : Dirs, otp : Nonces]
        BY <2>1 DEF MountTypeOK
    <2>3. held' \in [Hosts -> Nonces \cup {NoNonce}]
        BY <2>1 DEF MountTypeOK
    <2> QED
        BY <1>0, <2>1, <2>2, <2>3 DEF MountTypeOK
<1>4. ASSUME NEW c, NEW dirs, remove_mount(c, dirs), reply' = NoReply,
             UNCHANGED <<otpVars, exports_opts, present>>
      PROVE  MountTypeOK'
    <2>1. mount_list' \in Seq(M) /\ mount_cnt' \in Nat
        BY <1>4, UnmountTyped
    <2> QED
        BY <1>0, <1>4, <1>b, <2>1, SameTyped
<1>5. ASSUME NEW c, NEW d, NfsRequest(c, d) PROVE MountTypeOK'
    BY <1>0, <1>5, <1>a, <1>b, SameTyped DEF NfsRequest
<1>6. ASSUME NEW c \in Hosts, MntGetNonce(c) PROVE MountTypeOK'
    <2>1. nonce' \in Nonces /\ spent' = spent \cup {nonce'} /\ held' = [held EXCEPT ![c] = nonce']
          /\ reply' = NoReply /\ UNCHANGED <<mount_list, mount_cnt, used, exports_opts, present, sent>>
        BY <1>6 DEF MntGetNonce, gen_nonce
    <2>2. held' \in [Hosts -> Nonces \cup {NoNonce}]
        BY <2>1 DEF MountTypeOK
    <2> QED
        BY <1>0, <2>1, <2>2 DEF MountTypeOK
<1>7. ASSUME NEW m \in sent, MntOtp(m) PROVE MountTypeOK'
    <2>1. m \in [host : Hosts, dir : Dirs, otp : Nonces]
        BY DEF MountTypeOK
    <2>2. m.host \in Hosts /\ m.dir \in Dirs /\ m.otp \in Nonces
        BY <2>1
    <2>3. nonce' \in Nonces \cup {NoNonce} /\ spent' \in SUBSET Nonces /\ used' \in SUBSET Nonces
        <3>1. UNCHANGED <<nonce, spent, used>> \/ OtpCheck(m)
            BY <1>7 DEF MntOtp
        <3>2. CASE UNCHANGED <<nonce, spent, used>>
            BY <3>2 DEF MountTypeOK
        <3>3. CASE OtpCheck(m)
            BY <2>2, <3>3 DEF MountTypeOK, OtpCheck, gen_nonce
        <3> QED
            BY <3>1, <3>2, <3>3
    <2>4. /\ mount_list' \in Seq(M) /\ mount_cnt' \in Nat
          /\ exports_opts' \in {"all", "removable", "fixed"} /\ reply' \in R
        BY <1>7, <1>a, <2>2, AdmitTyped DEF MntOtp
    <2>5. UNCHANGED <<present, held, sent>>
        BY <1>7 DEF MntOtp
    <2> QED
        BY <2>3, <2>4, <2>5 DEF MountTypeOK
<1>8. ASSUME NEW d \in Dirs, Media(d) PROVE MountTypeOK'
    <2>1. present' \in SUBSET Dirs
        BY <1>8 DEF Media, MountTypeOK
    <2> QED
        BY <1>0, <1>8, <2>1 DEF Media, MountTypeOK, otpVars
<1>9. CASE UNCHANGED mountVars
    BY <1>9 DEF MountTypeOK, mountVars
<1> HIDE DEF R, M
<1>10. ASSUME NEW c \in Hosts, NEW d \in Dirs, Umnt(c, d) PROVE MountTypeOK'
    BY <1>4, <1>10 DEF Umnt
<1>11. ASSUME NEW c \in Hosts, UmntAll(c) PROVE MountTypeOK'
    BY <1>4, <1>11 DEF UmntAll
<1> QED
    BY <1>1, <1>2, <1>3, <1>5, <1>6, <1>7, <1>8, <1>9, <1>10, <1>11 DEF MountNext

\* The mount service (mount.c, password.c) keeps its types: whatever UMNT takes out of
\* the list, remove_mount leaves a list of mounts, and every request under way carries a
\* one-time password of a nonce that was generated.
THEOREM MountTypeCorrect == MountSpec => []MountTypeOK
<1>1. MountInit => MountTypeOK
    <2> SUFFICES ASSUME MountInit PROVE MountTypeOK
        OBVIOUS
    <2>1. mount_list \in Seq([host : Hosts, dir : Dirs]) /\ reply = NoReply /\ present \in SUBSET Dirs
        BY ExportAssumption DEF MountInit
    <2> QED
        BY <2>1 DEF MountInit, MountTypeOK, NoReply
<1> QED
    BY <1>1, MountTyped, PTL DEF MountSpec

----------------------------------------------------------------------------

(***************************************************************************)
(* The inductive invariant.  Advertised speaks of a server that is up or   *)
(* has ended; what makes it true is collected on the way through main.     *)
(***************************************************************************)

(* The lock on the pid file is held between its opening and its writing.   *)
LockHeld == \A i \in Instances : locker = i => pc[i] = "pid_open"

(* While an instance is alone, no other runs.                              *)
OthersOff == \A i, j \in Instances : alone[i] /\ i # j => pc[j] = "off"

\* The places of main at which the NFS and the mount service are registered.
NfsDone   == {"nfs", "mount_bound", "mount_unset", "mount"} \cup Handled
MountDone == {"mount"} \cup Handled

(* What an instance that is alone has registered so far, and that nobody   *)
(* has taken the pid file it has opened from it.                           *)
OnTheWay ==
  \A i \in Instances : alone[i] =>
    /\ opt_portmapper /\ pc[i] \in NfsDone => pmap["nfs3"] = NfsPort[i]
    /\ opt_portmapper /\ pc[i] \in MountDone => /\ pmap["mount1"] = MountPort[i]
                                                /\ pmap["mount3"] = MountPort[i]
    /\ pc[i] = "pid_open" => locker = i

\* The inductive invariant.
IInv == TypeOK /\ LockHeld /\ OthersOff /\ OnTheWay /\ Advertised

USE DEF None, Services

(* Before the first start nothing runs and nobody is alone.                *)
LEMMA InitHolds == Init => IInv
BY DaemonAssumption DEF Init, IInv, TypeOK, LockHeld, OthersOff, OnTheWay, Advertised, Ports,
   NfsDone, MountDone, Handled

(* The end of an instance through exit keeps the invariant: nothing that   *)
(* others see changes, and the instance is not up, nor ended cleanly.      *)
LEMMA ExitKeeps ==
  ASSUME IInv, NEW i \in Instances, NEW why \in {"failed", "stopped"}, exit(i, why)
  PROVE  IInv'
<1>1. TypeOK'
  BY DaemonAssumption DEF IInv, TypeOK, exit
<1>2. LockHeld' /\ OthersOff'
  BY DaemonAssumption DEF IInv, TypeOK, LockHeld, OthersOff, exit
<1>3. OnTheWay'
  BY DaemonAssumption DEF IInv, TypeOK, OnTheWay, exit, NfsDone, MountDone, Handled
<1>4. Advertised'
  BY DaemonAssumption DEF IInv, TypeOK, Advertised, exit
<1> QED
  BY <1>1, <1>2, <1>3, <1>4 DEF IInv

(* daemon_exit withdraws everything.  If another instance was alone, this  *)
(* one was not running.                                                    *)
LEMMA DaemonExitKeeps ==
  ASSUME IInv, NEW i \in Instances, NEW why \in {"failed", "stopped"},
         pc[i] # "off", daemon_exit(i, why)
  PROVE  IInv'
<1>0. \A j \in Instances \ {i} : ~alone[j]
  BY DEF IInv, OthersOff
<1>a. /\ pidfile' \in {Absent, pidfile}
      /\ locker' \in {None, locker} /\ locker' # i
      /\ warned' \in [Instances -> BOOLEAN]
      /\ pidfile' = Absent \/ warned'[i]
  BY DaemonAssumption DEF IInv, TypeOK, daemon_exit, remove_pid_file
<1>1. TypeOK'
  BY <1>a, DaemonAssumption DEF IInv, TypeOK, daemon_exit, svc_unregister
<1>2. LockHeld' /\ OthersOff'
  BY <1>a, DaemonAssumption DEF IInv, TypeOK, LockHeld, OthersOff, daemon_exit
<1>3. OnTheWay'
  BY <1>0 DEF IInv, TypeOK, OnTheWay, daemon_exit, NfsDone, MountDone, Handled
<1>4. Advertised'
  BY <1>0, <1>a DEF IInv, TypeOK, Advertised, daemon_exit, svc_unregister
<1> QED
  BY <1>1, <1>2, <1>3, <1>4 DEF IInv

\* The places of main.
Places == {"off", "config", "nfs_bound", "nfs_unset", "nfs", "mount_bound",
           "mount_unset", "mount", "child", "pid_open", "up"}

(* A step of main moves one instance.                                      *)
LEMMA GoesOn ==
  ASSUME TypeOK, NEW i \in Instances, NEW from, NEW to \in Places, Goes(i, from, to)
  PROVE  /\ pc' \in [Instances -> Places]
         /\ pc[i] = from /\ pc'[i] = to
         /\ \A j \in Instances \ {i} : pc'[j] = pc[j]
BY DEF TypeOK, Goes, Places

(* A started instance is alone if nothing ran, and then has done nothing.  *)
LEMMA StartKeeps ==
  ASSUME IInv, NEW i \in Instances, Start(i)
  PROVE  IInv'
<1>0. alone' \in [Instances -> BOOLEAN]
  BY Zenon DEF Start
<1>1. TypeOK'
  <2>1. pc' \in [Instances -> Places]
    BY GoesOn DEF IInv, Start, Places
  <2>2. starts' \in 0 .. MaxStarts
    <3>1. starts < MaxStarts /\ starts' = starts + 1
      BY DEF Start
    <3>2. starts \in 0 .. MaxStarts /\ MaxStarts \in Nat
      BY DaemonAssumption DEF IInv, TypeOK
    <3> QED
      BY <3>1, <3>2
  <2> QED
    BY <1>0, <2>1, <2>2 DEF IInv, TypeOK, Start, Places
<1>2. LockHeld' /\ OthersOff'
  BY DaemonAssumption DEF IInv, TypeOK, LockHeld, OthersOff, Start, Goes, Running
<1>3. OnTheWay' /\ Advertised'
  BY DaemonAssumption DEF IInv, TypeOK, OnTheWay, Advertised, Start, Goes, NfsDone, MountDone, Handled
<1> QED
  BY <1>1, <1>2, <1>3 DEF IInv

(* A port is bound, or the start ends.                                     *)
LEMMA BindKeeps ==
  ASSUME IInv, NEW i \in Instances, BindNfs(i) \/ BindMount(i)
  PROVE  IInv'
<1>1. PICK from, to \in {"config", "nfs_bound", "nfs", "mount_bound"}, port \in Ports :
        /\ create_transport(i, from, to, port) \/ BindFails(i, from, port)
        /\ \/ from = "config" /\ to = "nfs_bound"
           \/ from = "nfs" /\ to = "mount_bound"
  BY DEF BindNfs, BindMount, Ports
<1>2. CASE BindFails(i, from, port)
  BY <1>2, ExitKeeps DEF BindFails
<1>3. CASE create_transport(i, from, to, port)
  <2>0. \A j \in Instances \ {i} : ~alone[j]
    BY <1>1, <1>3 DEF IInv, OthersOff, create_transport, Goes
  <2>1. TypeOK'
    <3>1. pc' \in [Instances -> Places]
      BY <1>1, <1>3, GoesOn DEF IInv, create_transport, Places
    <3>2. bound' \in [Instances -> SUBSET Ports]
      <4>1. bound' = [bound EXCEPT ![i] = @ \cup {port}]
        BY <1>1, <1>3 DEF create_transport
      <4>2. bound \in [Instances -> SUBSET Ports] /\ port \in Ports
        BY <1>1 DEF IInv, TypeOK
      <4> QED
        BY <4>1, <4>2
    <3> QED
      BY <1>1, <1>3, <3>1, <3>2 DEF IInv, TypeOK, create_transport, Places
  <2>2. LockHeld' /\ OthersOff'
    BY <1>1, <1>3, <2>0 DEF IInv, TypeOK, LockHeld, OthersOff, create_transport, Goes
  <2>3. OnTheWay' /\ Advertised'
    BY <1>1, <1>3, <2>0
       DEF IInv, TypeOK, OnTheWay, Advertised, create_transport, Goes, NfsDone, MountDone, Handled
  <2> QED
    BY <2>1, <2>2, <2>3 DEF IInv
<1> QED
  BY <1>1, <1>2, <1>3

(* Old registrations are withdrawn before the instance has its own.        *)
LEMMA UnsetKeeps ==
  ASSUME IInv, NEW i \in Instances, UnsetNfs(i) \/ UnsetMount(i)
  PROVE  IInv'
<1>0. \A j \in Instances \ {i} : ~alone[j]
  BY DEF IInv, OthersOff, UnsetNfs, UnsetMount, Goes
<1>1. TypeOK'
  <2>1. pc' \in [Instances -> Places]
    BY GoesOn DEF IInv, UnsetNfs, UnsetMount, Places
  <2>2. pmap' \in [Services -> Ports \cup {None}]
    BY DEF IInv, TypeOK, UnsetNfs, UnsetMount, pmap_unset
  <2> QED
    BY <2>1, <2>2 DEF IInv, TypeOK, UnsetNfs, UnsetMount, Places
<1>2. LockHeld' /\ OthersOff'
  BY <1>0 DEF IInv, TypeOK, LockHeld, OthersOff, UnsetNfs, UnsetMount, Goes
<1>3. CASE UnsetNfs(i)
  <2>1. pc'[i] = "nfs_unset"
    BY <1>3, GoesOn DEF IInv, UnsetNfs, Places
  <2>2. OnTheWay' /\ Advertised'
    BY <1>0, <1>3, <2>1 DEF OnTheWay, Advertised, UnsetNfs, NfsDone, MountDone, Handled
  <2> QED
    BY <1>1, <1>2, <2>2 DEF IInv
<1>4. CASE UnsetMount(i)
  <2>1. pc[i] = "mount_bound" /\ pc'[i] = "mount_unset"
    BY <1>4, GoesOn DEF IInv, UnsetMount, Places
  <2>2. pmap'["nfs3"] = pmap["nfs3"]
    BY <1>4 DEF UnsetMount, pmap_unset
  <2>3. OnTheWay' /\ Advertised'
    BY <1>0, <1>4, <2>1, <2>2
       DEF IInv, OnTheWay, Advertised, UnsetMount, NfsDone, MountDone, Handled
  <2> QED
    BY <1>1, <1>2, <2>3 DEF IInv
<1> QED
  BY <1>3, <1>4

(* The NFS service is registered, or daemon_exit is called.                *)
LEMMA RegisterNfsKeeps ==
  ASSUME IInv, NEW i \in Instances, register_nfs_service(i)
  PROVE  IInv'
<1>0. svc_register(i, "nfs_unset", "nfs", {"nfs3"}, NfsPort[i])
  BY DEF register_nfs_service
<1>1. CASE opt_portmapper /\ \E s \in {"nfs3"} : pmap[s] \notin {None, NfsPort[i]}
  BY <1>0, <1>1, DaemonExitKeeps DEF svc_register
<1>2. CASE ~(opt_portmapper /\ \E s \in {"nfs3"} : pmap[s] \notin {None, NfsPort[i]})
  <2>1. /\ Goes(i, "nfs_unset", "nfs")
        /\ pmap' = [s \in Services |->
                      IF opt_portmapper /\ s \in {"nfs3"} THEN NfsPort[i] ELSE pmap[s]]
        /\ UNCHANGED <<bound, pidfile, locker, warned, alone, ended, starts>>
    BY <1>0, <1>2, Zenon DEF svc_register
  <2>2. /\ pc' \in [Instances -> Places] /\ pc[i] = "nfs_unset" /\ pc'[i] = "nfs"
        /\ \A j \in Instances \ {i} : pc'[j] = pc[j]
    BY <2>1, GoesOn DEF IInv, Places
  <2>3. \A j \in Instances \ {i} : ~alone[j]
    BY <2>2 DEF IInv, OthersOff
  <2>4. TypeOK'
    <3>1. pmap' \in [Services -> Ports \cup {None}]
      <4>1. NfsPort[i] \in Ports
        BY DEF Ports
      <4>2. pmap \in [Services -> Ports \cup {None}]
        BY DEF IInv, TypeOK
      <4> QED
        BY <2>1, <4>1, <4>2
    <3> QED
      BY <2>1, <2>2, <3>1 DEF IInv, TypeOK, Places
  <2>5. LockHeld'
    BY <2>1, <2>2 DEF IInv, LockHeld
  <2>6. OthersOff'
    BY <2>1, <2>2, <2>3 DEF IInv, OthersOff
  <2>7. opt_portmapper => pmap'["nfs3"] = NfsPort[i]
    BY <2>1
  <2>8. OnTheWay'
    BY <2>1, <2>2, <2>3, <2>7 DEF IInv, OnTheWay, NfsDone, MountDone, Handled
  <2>9. Advertised'
    BY <2>1, <2>2, <2>3 DEF Advertised
  <2> QED
    BY <2>4, <2>5, <2>6, <2>8, <2>9 DEF IInv
<1> QED
  BY <1>1, <1>2

(* Likewise for both versions of the mount service.                        *)
LEMMA RegisterMountKeeps ==
  ASSUME IInv, NEW i \in Instances, register_mount_service(i)
  PROVE  IInv'
<1>0. svc_register(i, "mount_unset", "mount", {"mount1", "mount3"}, MountPort[i])
  BY DEF register_mount_service
<1>1. CASE opt_portmapper /\ \E s \in {"mount1", "mount3"} : pmap[s] \notin {None, MountPort[i]}
  BY <1>0, <1>1, DaemonExitKeeps DEF svc_register
<1>2. CASE ~(opt_portmapper /\ \E s \in {"mount1", "mount3"} : pmap[s] \notin {None, MountPort[i]})
  <2>1. /\ Goes(i, "mount_unset", "mount")
        /\ pmap' = [s \in Services |->
                      IF opt_portmapper /\ s \in {"mount1", "mount3"} THEN MountPort[i] ELSE pmap[s]]
        /\ UNCHANGED <<bound, pidfile, locker, warned, alone, ended, starts>>
    BY <1>0, <1>2, Zenon DEF svc_register
  <2>2. /\ pc' \in [Instances -> Places] /\ pc[i] = "mount_unset" /\ pc'[i] = "mount"
        /\ \A j \in Instances \ {i} : pc'[j] = pc[j]
    BY <2>1, GoesOn DEF IInv, Places
  <2>3. \A j \in Instances \ {i} : ~alone[j]
    BY <2>2 DEF IInv, OthersOff
  <2>4. TypeOK'
    <3>1. pmap' \in [Services -> Ports \cup {None}]
      <4>1. MountPort[i] \in Ports
        BY DEF Ports
      <4>2. pmap \in [Services -> Ports \cup {None}]
        BY DEF IInv, TypeOK
      <4> QED
        BY <2>1, <4>1, <4>2
    <3> QED
      BY <2>1, <2>2, <3>1 DEF IInv, TypeOK, Places
  <2>5. LockHeld'
    BY <2>1, <2>2 DEF IInv, LockHeld
  <2>6. OthersOff'
    BY <2>1, <2>2, <2>3 DEF IInv, OthersOff
  <2>7. /\ pmap'["nfs3"] = pmap["nfs3"]
        /\ opt_portmapper => pmap'["mount1"] = MountPort[i] /\ pmap'["mount3"] = MountPort[i]
    BY <2>1
  <2>8. OnTheWay'
    BY <2>1, <2>2, <2>3, <2>7 DEF IInv, OnTheWay, NfsDone, MountDone, Handled
  <2>9. Advertised'
    BY <2>1, <2>2, <2>3 DEF Advertised
  <2> QED
    BY <2>4, <2>5, <2>6, <2>8, <2>9 DEF IInv
<1> QED
  BY <1>1, <1>2

(* The pid file.  An instance that is alone finds the lock free and keeps  *)
(* it until the pid is written.                                            *)
LEMMA PidFileKeeps ==
  ASSUME IInv, NEW i \in Instances, Fork(i) \/ create_pid_file(i)
  PROVE  IInv'
<1> USE DEF create_pid_file
<1>0. \A j \in Instances \ {i} : ~alone[j]
  BY DEF IInv, OthersOff, Fork, OpenPidFile, PidFileFails, WritePidFile, Goes
<1>1. TypeOK'
  BY DEF IInv, TypeOK, Fork, OpenPidFile, PidFileFails, WritePidFile, Goes
<1>2. OthersOff'
  <2>1. \A j \in Instances \ {i} : pc'[j] = pc[j]
    BY GoesOn DEF IInv, Fork, OpenPidFile, PidFileFails, WritePidFile, Places
  <2> QED
    BY <1>0, <2>1 DEF IInv, OthersOff, Fork, OpenPidFile, PidFileFails, WritePidFile
<1>3. CASE Fork(i)
  <2>1. pc[i] = "mount" /\ pc'[i] = "child" /\ \A j \in Instances \ {i} : pc'[j] = pc[j]
    BY <1>3, GoesOn DEF IInv, Fork, Places
  <2>2. LockHeld' /\ OnTheWay' /\ Advertised'
    BY <1>0, <1>3, <2>1
       DEF IInv, LockHeld, OnTheWay, Advertised, Fork, NfsDone, MountDone, Handled
  <2> QED
    BY <1>1, <1>2, <2>2 DEF IInv
<1>4. CASE OpenPidFile(i)
  <2>1. /\ pc[i] = "child" /\ pc'[i] = "pid_open"
        /\ \A j \in Instances \ {i} : pc'[j] = pc[j]
    BY <1>4, GoesOn DEF IInv, OpenPidFile, Places
  <2>2. LockHeld'
    BY <1>4, <2>1, DaemonAssumption DEF LockHeld, OpenPidFile
  <2>3. OnTheWay' /\ Advertised'
    BY <1>0, <1>4, <2>1
       DEF IInv, OnTheWay, Advertised, OpenPidFile, NfsDone, MountDone, Handled
  <2> QED
    BY <1>1, <1>2, <2>2, <2>3 DEF IInv
<1>5. CASE PidFileFails(i)
  <2>1. /\ pc[i] = "child" /\ pc'[i] = "up" /\ warned'[i]
        /\ \A j \in Instances \ {i} : pc'[j] = pc[j]
    BY <1>5, GoesOn DEF IInv, TypeOK, PidFileFails, Places
  <2>2. LockHeld' /\ OnTheWay' /\ Advertised'
    BY <1>0, <1>5, <2>1
       DEF IInv, LockHeld, OnTheWay, Advertised, PidFileFails, NfsDone, MountDone, Handled
  <2> QED
    BY <1>1, <1>2, <2>2 DEF IInv
<1>6. CASE WritePidFile(i)
  <2>1. /\ pc[i] = "pid_open" /\ pc'[i] = "up"
        /\ \A j \in Instances \ {i} : pc'[j] = pc[j]
    BY <1>6, GoesOn DEF IInv, WritePidFile, Places
  <2>2. LockHeld'
    BY <1>6, <2>1, DaemonAssumption DEF IInv, LockHeld, WritePidFile
  <2>3. alone[i] => pidfile' = i \/ warned'[i]
    BY <1>6, <2>1 DEF IInv, TypeOK, OnTheWay, WritePidFile
  <2>4. OnTheWay' /\ Advertised'
    BY <1>0, <1>6, <2>1, <2>3
       DEF IInv, OnTheWay, Advertised, WritePidFile, NfsDone, MountDone, Handled
  <2> QED
    BY <1>1, <1>2, <2>2, <2>4 DEF IInv
<1> QED
  BY <1>3, <1>4, <1>5, <1>6

(* Every way to end is exit or daemon_exit.                                *)
LEMMA DisturbedKeeps ==
  ASSUME IInv, NEW i \in Instances, Disturbed(i)
  PROVE  IInv'
BY ExitKeeps, DaemonExitKeeps DEF Disturbed, Refuse, TransportFails, ForkFails, SelectFails, Terminate, Crash

(* Every step of every instance keeps the invariant.                       *)
LEMMA StepKeeps == IInv /\ [Next]_vars => IInv'
<1> SUFFICES ASSUME IInv, [Next]_vars PROVE IInv'
  OBVIOUS
<1>1. CASE UNCHANGED vars
  BY <1>1 DEF vars, IInv, TypeOK, LockHeld, OthersOff, OnTheWay, Advertised
<1>2. ASSUME NEW i \in Instances, main(i) PROVE IInv'
  BY <1>2, BindKeeps, UnsetKeeps, RegisterNfsKeeps, RegisterMountKeeps, PidFileKeeps DEF main
<1> QED
  BY <1>1, <1>2, StartKeeps, DisturbedKeeps DEF Next

(* The invariant holds whatever is started, stopped and killed in          *)
(* whatever order.                                                         *)
THEOREM DaemonSafe == Spec => []IInv
BY InitHolds, StepKeeps, PTL DEF Spec

(* main and daemon_exit keep the types: the portmapper is told of no port  *)
(* but the configured ones, and the pid file names an instance.            *)
THEOREM TypeCorrect == Spec => []TypeOK
<1>1. IInv => TypeOK
  BY DEF IInv
<1> QED
  BY <1>1, DaemonSafe, PTL

(* A server that runs alone is what the portmapper says and, unless        *)
(* create_pid_file logged a failure, the pid file, whatever earlier        *)
(* instances left behind; one that ended through daemon_exit leaves        *)
(* nothing but a pid file it logged that it could not remove.              *)
THEOREM ServerIsAdvertised == Spec => []Advertised
<1>1. IInv => Advertised
  BY DEF IInv
<1> QED
  BY <1>1, DaemonSafe, PTL
=============================================================================
