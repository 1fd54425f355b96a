--------------------------- MODULE ReadDirProofs ---------------------------
(***************************************************************************)
(* Proofs about ReadDir, for any names, sizes of names, replies and pages, *)
(* and any number of changes.                                              *)
(***************************************************************************)
EXTENDS ReadDir, FiniteSetTheorems, SequenceTheorems, WellFoundedInduction, TLAPS

----------------------------------------------------------------------------
(* Pages *)

(* A set of numbers that has a bound has a greatest one.  (The difference to *)
(* the bound is a natural number, and those are well-founded.)               *)
LEMMA HasMax ==
  ASSUME NEW L \in Nat, NEW S \in SUBSET (0..L), S # {}
  PROVE  \E m \in S : \A n \in S : n <= m
<1> DEFINE T == {k \in Nat : \E n \in S : k = L - n}
<1>0. \A n \in S : n \in Nat /\ n <= L /\ L - n \in Nat
  OBVIOUS
<1>1. T \subseteq Nat /\ T # {}
  BY <1>0
<1>2. PICK x \in T : \A y \in T : ~(<<y, x>> \in OpToRel(<, Nat))
  <2> HIDE DEF T
  <2> QED
    BY <1>1, WFMin, NatLessThanWellFounded
<1>3. \A y \in T : ~(y < x)
  BY <1>1, <1>2 DEF OpToRel
<1>4. PICK m \in S : x = L - m
  OBVIOUS
<1>5. \A n \in S : n <= m
  <2> SUFFICES ASSUME NEW n \in S PROVE n <= m
    OBVIOUS
  <2>1. L - n \in T
    BY <1>0
  <2>2. ~(L - n < L - m)
    BY <1>3, <1>4, <2>1
  <2> QED
    BY <1>0, <2>2
<1> QED
  BY <1>5

(* A piece of a sequence of names: its type and its length.                  *)
LEMMA Piece ==
  ASSUME NEW s \in Seq(Names), NEW m \in Nat, NEW n \in Nat, 1 <= m, n <= Len(s)
  PROVE  /\ SubSeq(s, m, n) \in Seq(Names)
         /\ m <= n + 1 => Len(SubSeq(s, m, n)) = n + 1 - m
<1>1. Len(s) \in Nat
  BY LenProperties
<1>2. \A i \in m..n : s[i] \in Names
  BY <1>1, ElementOfSeq
<1>3. /\ SubSeq(s, m, n) \in Seq(Names)
      /\ Len(SubSeq(s, m, n)) = IF m <= n THEN n - m + 1 ELSE 0
  BY <1>2, SubSeqProperties
<1> QED
  BY <1>3

(* The pieces before and after a position.                                   *)
LEMMA Pieces ==
  ASSUME NEW s \in Seq(Names), NEW p \in Nat, p <= Len(s)
  PROVE  /\ SubSeq(s, 1, p) \in Seq(Names) /\ Len(SubSeq(s, 1, p)) = p
         /\ SubSeq(s, p + 1, Len(s)) \in Seq(Names) /\ Len(SubSeq(s, p + 1, Len(s))) = Len(s) - p
<1>1. Len(s) \in Nat
  BY LenProperties
<1>2. SubSeq(s, 1, p) \in Seq(Names) /\ Len(SubSeq(s, 1, p)) = p + 1 - 1
  BY Piece
<1> DEFINE m == p + 1
<1>3. m \in Nat /\ 1 <= m /\ m <= Len(s) + 1
  BY <1>1
<1>4. SubSeq(s, m, Len(s)) \in Seq(Names) /\ Len(SubSeq(s, m, Len(s))) = Len(s) + 1 - m
  <2> HIDE DEF m
  <2> QED
    BY <1>1, <1>3, Piece
<1> QED
  BY <1>1, <1>2, <1>4

(* The beginning of a piece is a piece.                                      *)
LEMMA PieceOfPiece ==
  ASSUME NEW s \in Seq(Names), NEW m \in Nat, NEW n \in Nat, 1 <= m, m + n <= Len(s) + 1
  PROVE  SubSeq(SubSeq(s, m, Len(s)), 1, n) = SubSeq(s, m, m + n - 1)
<1>0. Len(s) \in Nat /\ m <= Len(s) + 1
  BY LenProperties
<1> DEFINE t == SubSeq(s, m, Len(s))
           k == m + n - 1
           u == SubSeq(t, 1, n)
           v == SubSeq(s, m, k)
<1>1. k \in Nat /\ k <= Len(s) /\ k + 1 - m = n /\ m <= k + 1 /\ n <= Len(s) + 1 - m
  BY <1>0
<1>2. t \in Seq(Names) /\ Len(t) = Len(s) + 1 - m
  BY <1>0, Piece
<1>3. \A i \in 1..(Len(s) - m + 1) : t[i] = s[m + i - 1]
  BY <1>0
<1>4. \A i \in 1..(k - m + 1) : v[i] = s[m + i - 1]
  BY <1>1
<1>5. v \in Seq(Names) /\ Len(v) = n
  <2>1. v \in Seq(Names) /\ Len(v) = k + 1 - m
    <3> HIDE DEF k
    <3> QED
      BY <1>1, Piece
  <2> QED
    BY <1>1, <2>1, Zenon
<1> HIDE DEF k, t, v
<1>6. n \in Nat /\ n <= Len(t)
  BY <1>1, <1>2
<1>7. u \in Seq(Names) /\ Len(u) = n /\ \A i \in 1..n : u[i] = t[i]
  <2>1. u \in Seq(Names) /\ Len(u) = n
    BY <1>2, <1>6, Pieces
  <2>2. \A i \in 1..n : u[i] = t[i]
    BY <1>6
  <2> QED
    BY <2>1, <2>2
<1> HIDE DEF u
<1>8. \A i \in 1..n : u[i] = v[i]
  <2> SUFFICES ASSUME NEW i \in 1..n PROVE u[i] = v[i]
    OBVIOUS
  <2>1. i \in 1..(Len(s) - m + 1) /\ i \in 1..(k - m + 1)
    BY <1>0, <1>1
  <2>2. t[i] = s[m + i - 1] /\ v[i] = s[m + i - 1]
    BY <1>3, <1>4, <2>1
  <2> QED
    BY <1>7, <2>2
<1>9. u = v
  BY <1>5, <1>7, <1>8, SeqEqual
<1> QED
  BY <1>9 DEF u, v, t, k

(* Names put into and taken out of a sequence.                               *)
LEMMA Joined ==
  ASSUME NEW s \in Seq(Names), NEW t \in Seq(Names)
  PROVE  /\ s \o t \in Seq(Names)
         /\ Len(s \o t) = Len(s) + Len(t)
         /\ Elements(s) \subseteq Elements(s \o t)
         /\ Elements(t) \subseteq Elements(s \o t)
<1> DEFINE u == s \o t
<1>1. u \in Seq(Names) /\ Len(u) = Len(s) + Len(t)
  BY ConcatProperties
<1>2. \A i \in 1..(Len(s) + Len(t)) : u[i] = IF i <= Len(s) THEN s[i] ELSE t[i - Len(s)]
  BY ConcatProperties
<1>3. /\ Len(s) \in Nat /\ Len(t) \in Nat
      /\ DOMAIN s = 1..Len(s) /\ DOMAIN t = 1..Len(t) /\ DOMAIN u = 1..Len(u)
  BY <1>1, LenProperties
<1> HIDE DEF u
<1>4. \A i \in 1..Len(s) : i \in DOMAIN u /\ u[i] = s[i]
  BY <1>1, <1>2, <1>3
<1>5. \A i \in 1..Len(t) : Len(s) + i \in DOMAIN u /\ u[Len(s) + i] = t[i]
  <2> SUFFICES ASSUME NEW i \in 1..Len(t)
               PROVE  Len(s) + i \in DOMAIN u /\ u[Len(s) + i] = t[i]
    OBVIOUS
  <2>1. Len(s) + i \in 1..(Len(s) + Len(t)) /\ ~(Len(s) + i <= Len(s)) /\ (Len(s) + i) - Len(s) = i
    BY <1>3
  <2> QED
    BY <1>1, <1>2, <1>3, <2>1
<1>6. Elements(s) \subseteq Elements(u)
  BY <1>3, <1>4, Zenon DEF Elements
<1>7. Elements(t) \subseteq Elements(u)
  BY <1>3, <1>5, Zenon DEF Elements
<1> QED
  BY <1>1, <1>6, <1>7 DEF u

LEMMA Inserted ==
  ASSUME NEW s \in Seq(Names), NEW i \in 1..(Len(s) + 1), NEW x \in Names
  PROVE  /\ InsertAt(s, i, x) \in Seq(Names)
         /\ Len(InsertAt(s, i, x)) = Len(s) + 1
         /\ \A j \in 1..(Len(s) + 1) :
              InsertAt(s, i, x)[j] = IF j < i THEN s[j] ELSE IF j = i THEN x ELSE s[j - 1]
<1>0. Len(s) \in Nat /\ i - 1 \in Nat /\ i \in Nat /\ 1 <= i /\ i - 1 <= Len(s)
  BY LenProperties
<1> DEFINE front == SubSeq(s, 1, i - 1)
           middle == front \o <<x>>
           back == SubSeq(s, i, Len(s))
<1>1. front \in Seq(Names) /\ Len(front) = i - 1
  BY <1>0, Pieces
<1>2. back \in Seq(Names) /\ Len(back) = Len(s) - (i - 1)
  <2>1. /\ SubSeq(s, (i - 1) + 1, Len(s)) \in Seq(Names)
        /\ Len(SubSeq(s, (i - 1) + 1, Len(s))) = Len(s) - (i - 1)
    BY <1>0, Pieces
  <2>2. (i - 1) + 1 = i
    BY <1>0
  <2> QED
    BY <2>1, <2>2
<1>3. \A j \in 1..(i - 1) : front[j] = s[j]
  BY <1>0
<1>4. \A j \in 1..(Len(s) - (i - 1)) : back[j] = s[j + (i - 1)]
  BY <1>0
<1>5. <<x>> \in Seq(Names) /\ Len(<<x>>) = 1 /\ <<x>>[1] = x
  OBVIOUS
<1>6. /\ middle \in Seq(Names) /\ Len(middle) = Len(front) + 1
      /\ \A j \in 1..(Len(front) + 1) : middle[j] = IF j <= Len(front) THEN front[j] ELSE <<x>>[j - Len(front)]
  <2> HIDE DEF front
  <2> QED
    BY <1>1, <1>5, ConcatProperties
<1>7. /\ middle \o back \in Seq(Names) /\ Len(middle \o back) = Len(middle) + Len(back)
      /\ \A j \in 1..(Len(middle) + Len(back)) :
           (middle \o back)[j] = IF j <= Len(middle) THEN middle[j] ELSE back[j - Len(middle)]
  <2> HIDE DEF middle, back
  <2> QED
    BY <1>2, <1>6, ConcatProperties
<1>8. InsertAt(s, i, x) = middle \o back
  BY DEF InsertAt
<1> HIDE DEF front, middle, back
<1> DEFINE whole == middle \o back
<1>9. Len(middle) = i /\ Len(front) = i - 1 /\ Len(middle) + Len(back) = Len(s) + 1
  BY <1>0, <1>1, <1>2, <1>6
<1> HIDE DEF whole
<1>10. \A j \in 1..(Len(s) + 1) :
         whole[j] = IF j < i THEN s[j] ELSE IF j = i THEN x ELSE s[j - 1]
  <2> SUFFICES ASSUME NEW j \in 1..(Len(s) + 1)
               PROVE  whole[j] = IF j < i THEN s[j] ELSE IF j = i THEN x ELSE s[j - 1]
    OBVIOUS
  <2>1. whole[j] = IF j <= i THEN middle[j] ELSE back[j - i]
    BY <1>7, <1>9, Zenon DEF whole
  <2>2. CASE j < i
    <3>1. j \in 1..(i - 1) /\ j \in 1..((i - 1) + 1) /\ j <= i
      BY <2>2, <1>0
    <3>2. middle[j] = front[j]
      BY <1>6, <1>9, <3>1
    <3> QED
      BY <2>1, <2>2, <3>1, <3>2, <1>3
  <2>3. CASE j = i
    <3>1. i \in 1..((i - 1) + 1) /\ ~(i <= i - 1) /\ i - (i - 1) = 1
      BY <1>0
    <3>2. middle[i] = <<x>>[i - (i - 1)]
      BY <1>6, <1>9, <3>1
    <3>3. middle[i] = x
      BY <1>5, <3>1, <3>2
    <3> QED
      BY <2>1, <2>3, <3>3, <1>0
  <2>4. CASE j > i
    <3>1. j - i \in 1..(Len(s) - (i - 1)) /\ (j - i) + (i - 1) = j - 1 /\ ~(j <= i) /\ ~(j < i) /\ j # i
      BY <2>4, <1>0
    <3>2. back[j - i] = s[j - 1]
      BY <1>4, <3>1
    <3> QED
      BY <2>1, <3>1, <3>2
  <2>5. j < i \/ j = i \/ j > i
    BY <1>0
  <2> QED
    BY <2>2, <2>3, <2>4, <2>5
<1> QED
  BY <1>7, <1>8, <1>9, <1>10 DEF whole

LEMMA InsertKeeps ==
  ASSUME NEW s \in Seq(Names), NEW i \in 1..(Len(s) + 1), NEW x \in Names
  PROVE  Elements(s) \subseteq Elements(InsertAt(s, i, x))
<1> DEFINE t == InsertAt(s, i, x)
<1>1. /\ t \in Seq(Names) /\ Len(t) = Len(s) + 1
      /\ \A j \in 1..(Len(s) + 1) : t[j] = IF j < i THEN s[j] ELSE IF j = i THEN x ELSE s[j - 1]
  BY Inserted
<1> HIDE DEF t
<1>2. DOMAIN t = 1..(Len(s) + 1) /\ DOMAIN s = 1..Len(s) /\ Len(s) \in Nat
  BY <1>1, LenProperties
<1>3. ASSUME NEW k \in 1..Len(s)
      PROVE  s[k] \in Elements(t)
  <2>1. CASE k < i
    <3>1. k \in 1..(Len(s) + 1) /\ t[k] = s[k]
      BY <1>1, <1>2, <2>1
    <3> QED
      BY <1>2, <3>1 DEF Elements
  <2>2. CASE ~(k < i)
    <3>1. k + 1 \in 1..(Len(s) + 1) /\ ~(k + 1 < i) /\ k + 1 # i /\ (k + 1) - 1 = k
      BY <1>2, <2>2
    <3>2. t[k + 1] = s[k]
      BY <1>1, <3>1
    <3> QED
      BY <1>2, <3>1, <3>2 DEF Elements
  <2> QED
    BY <2>1, <2>2
<1>4. Elements(s) \subseteq Elements(t)
  BY <1>2, <1>3 DEF Elements
<1> QED
  BY <1>4 DEF t

LEMMA Removed ==
  ASSUME NEW s \in Seq(Names), NEW i \in 1..Len(s)
  PROVE  /\ RemoveAt(s, i) \in Seq(Names)
         /\ Len(RemoveAt(s, i)) = Len(s) - 1
         /\ Elements(s) \ {s[i]} \subseteq Elements(RemoveAt(s, i))
<1>0. Len(s) \in Nat /\ i - 1 \in Nat /\ i - 1 <= Len(s) /\ i \in Nat /\ i <= Len(s)
  BY LenProperties
<1> DEFINE front == SubSeq(s, 1, i - 1)
           back == SubSeq(s, i + 1, Len(s))
<1>1. front \in Seq(Names) /\ Len(front) = i - 1 /\ back \in Seq(Names) /\ Len(back) = Len(s) - i
  BY <1>0, Pieces
<1>2. \A j \in 1..(i - 1) : front[j] = s[j]
  BY <1>0
<1>3. \A j \in 1..(Len(s) - i) : back[j] = s[j + i]
  BY <1>0
<1>4. RemoveAt(s, i) = front \o back
  BY DEF RemoveAt
<1> HIDE DEF front, back
<1> DEFINE whole == front \o back
<1>5. /\ whole \in Seq(Names) /\ Len(whole) = Len(front) + Len(back)
      /\ Elements(front) \subseteq Elements(whole) /\ Elements(back) \subseteq Elements(whole)
  BY <1>1, Joined
<1> HIDE DEF whole
<1>6. DOMAIN s = 1..Len(s) /\ DOMAIN front = 1..(i - 1) /\ DOMAIN back = 1..(Len(s) - i)
  BY <1>1, LenProperties
<1>7. ASSUME NEW j \in 1..Len(s), s[j] # s[i]
      PROVE  s[j] \in Elements(whole)
  <2>1. CASE j < i
    <3>1. j \in 1..(i - 1)
      BY <2>1, <1>0
    <3>2. s[j] \in Elements(front)
      BY <1>2, <1>6, <3>1 DEF Elements
    <3> QED
      BY <1>5, <3>2
  <2>2. CASE j > i
    <3>1. j - i \in 1..(Len(s) - i) /\ (j - i) + i = j
      BY <2>2, <1>0
    <3>2. s[j] \in Elements(back)
      BY <1>3, <1>6, <3>1 DEF Elements
    <3> QED
      BY <1>5, <3>2
  <2>3. j < i \/ j > i
    BY <1>0, <1>7
  <2> QED
    BY <2>1, <2>2, <2>3
<1>8. Elements(s) \ {s[i]} \subseteq Elements(whole)
  BY <1>6, <1>7 DEF Elements
<1>9. Len(whole) = Len(s) - 1
  BY <1>0, <1>1, <1>5
<1> QED
  BY <1>4, <1>5, <1>8, <1>9 DEF whole

(* The entries a page is taken from, and a reply with size of them.          *)
Rest(listing, cookie) == SubSeq(listing, first_entry(cookie) + 1, Len(listing))
Reply(listing, cookie, size) ==
  [entries |-> SubSeq(Rest(listing, cookie), 1, size),
   cookie |-> IF size = 0 THEN cookie
              ELSE [upper |-> rcookie, pos |-> entry_cookie(first_entry(cookie), size)],
   eof |-> size = Len(Rest(listing, cookie))]

(* What read_dir answers: some of the rest of the listing, and the end is    *)
(* reported if and only if that is all of it.                                *)
LEMMA PageShape ==
  ASSUME NEW listing \in Seq(Names), NEW cookie, NEW asked,
         first_entry(cookie) \in Nat
  PROVE  /\ Rest(listing, cookie) \in Seq(Names)
         /\ \E size \in 0..Len(Rest(listing, cookie)) :
              read_dir(listing, cookie, asked) = Reply(listing, cookie, size)
<1> DEFINE count == IF asked > MaxCount THEN MaxCount ELSE asked
           rest == Rest(listing, cookie)
           sizes == {n \in 0..Len(rest) : Takes(rest, n, count)}
           size == CHOOSE n \in sizes : \A m \in sizes : m <= n
<1>1. rest \in Seq(Names)
  BY SubSeqProperties, LenProperties DEF Rest
<1>2. size \in sizes
  <2>1. 0 \in sizes
    BY <1>1, LenProperties DEF Takes
  <2>2. \E n \in sizes : \A m \in sizes : m <= n
    <3>1. Len(rest) \in Nat /\ sizes \in SUBSET (0..Len(rest)) /\ sizes # {}
      BY <1>1, <2>1, LenProperties
    <3> HIDE DEF sizes, rest
    <3> QED
      BY <3>1, HasMax
  <2> HIDE DEF sizes
  <2> QED
    BY <2>2
<1>3. size \in 0..Len(rest)
  BY <1>2
<1>4. read_dir(listing, cookie, asked) = Reply(listing, cookie, size)
  BY Zenon DEF read_dir, Reply, Rest
<1> HIDE DEF size
<1> QED
  BY <1>1, <1>3, <1>4

----------------------------------------------------------------------------
(* The invariant *)

Types ==
  /\ coll \in Seq(Names)
  /\ rcookie \in Nat
  /\ client \in [cookie : [upper : Nat, pos : Nat], count : Counts, got : Seq(Names), eof : BOOLEAN]

(* As long as nothing changes, the client's cookie stands where the entries  *)
(* it has got end.                                                           *)
InStep ==
  quiet =>
    /\ Len(client.got) <= Len(coll)
    /\ client.got = SubSeq(coll, 1, Len(client.got))
    /\ \/ client.cookie = NoCookie /\ Len(client.got) = 0
       \/ client.cookie.upper = rcookie /\ client.cookie.pos = Len(client.got)
    /\ client.eof => client.got = coll

IInv == Types /\ InStep

(* The position a page starts from is a number, and the client's as long as  *)
(* nothing changes.                                                          *)
LEMMA FirstEntry ==
  ASSUME IInv
  PROVE  /\ first_entry(client.cookie) \in Nat
         /\ quiet => first_entry(client.cookie) = Len(client.got)
<1>1. client.cookie \in [upper : Nat, pos : Nat]
  BY DEF IInv, Types
<1>2. client.cookie = NoCookie => client.cookie.pos = 0
  BY DEF NoCookie
<1> QED
  BY <1>1, <1>2 DEF IInv, InStep, first_entry

(* A page is a piece of the listing that follows what the client has.        *)
LEMMA PageKeeps ==
  ASSUME IInv, NEW listing \in Seq(Names), PageOf(listing)
  PROVE  IInv'
<1> DEFINE cookie == client.cookie
           pos == first_entry(cookie)
           rest == Rest(listing, cookie)
           reply == read_dir(listing, cookie, client.count)
<1>1. pos \in Nat /\ (quiet => pos = Len(client.got))
  BY FirstEntry
<1>2. rest \in Seq(Names)
  BY <1>1, PageShape
<1>3. PICK size \in 0..Len(rest) : reply = Reply(listing, cookie, size)
  BY <1>1, PageShape
<1>4. /\ client' = [client EXCEPT !.cookie = reply.cookie, !.eof = reply.eof,
                                  !.got = @ \o reply.entries]
      /\ quiet' = (quiet /\ listing = coll)
      /\ UNCHANGED <<coll, rcookie>>
  BY Zenon DEF PageOf
<1>a. rest = SubSeq(listing, pos + 1, Len(listing))
  BY DEF Rest
<1>b. /\ reply.entries = SubSeq(rest, 1, size)
      /\ reply.cookie = IF size = 0 THEN cookie
                        ELSE [upper |-> rcookie, pos |-> entry_cookie(pos, size)]
      /\ reply.eof = (size = Len(rest))
  BY <1>3 DEF Reply
<1> HIDE DEF rest, reply, pos
<1>5. SubSeq(rest, 1, size) \in Seq(Names) /\ Len(SubSeq(rest, 1, size)) = size
  <2>0. Len(rest) \in Nat
    BY <1>2, LenProperties
  <2>1. size \in Nat /\ size <= Len(rest)
    BY <1>3, <2>0
  <2> QED
    BY <1>2, <2>1, Piece
<1>6. client \in [cookie : [upper : Nat, pos : Nat], count : Counts, got : Seq(Names), eof : BOOLEAN]
  BY DEF IInv, Types
<1>7. /\ client'.cookie = IF size = 0 THEN cookie
                          ELSE [upper |-> rcookie, pos |-> entry_cookie(pos, size)]
      /\ client'.eof = (size = Len(rest))
      /\ client'.got = client.got \o SubSeq(rest, 1, size)
      /\ client'.count = client.count
      /\ DOMAIN client' = DOMAIN client
  BY <1>4, <1>6, <1>b
<1>8. Types'
  <2>1. client'.got \in Seq(Names)
    BY <1>5, <1>6, <1>7, ConcatProperties
  <2>2. client'.cookie \in [upper : Nat, pos : Nat]
    BY <1>1, <1>3, <1>6, <1>7 DEF IInv, Types, entry_cookie
  <2>3. client' \in [cookie : [upper : Nat, pos : Nat], count : Counts, got : Seq(Names), eof : BOOLEAN]
    BY <1>3, <1>4, <1>6, <2>1, <2>2, <1>7
  <2> QED
    BY <1>4, <2>3 DEF IInv, Types
<1>9. InStep'
  <2> SUFFICES ASSUME quiet, listing = coll
               PROVE  /\ Len(client'.got) <= Len(coll)
                      /\ client'.got = SubSeq(coll, 1, Len(client'.got))
                      /\ \/ client'.cookie = NoCookie /\ Len(client'.got) = 0
                         \/ client'.cookie.upper = rcookie /\ client'.cookie.pos = Len(client'.got)
                      /\ client'.eof => client'.got = coll
    BY <1>4 DEF InStep, NoCookie
  <2>1. /\ pos = Len(client.got) /\ pos \in Nat
        /\ Len(coll) \in Nat /\ pos <= Len(coll)
        /\ client.got = SubSeq(coll, 1, pos)
    BY <1>1, LenProperties DEF IInv, Types, InStep
  <2>2. Len(rest) = Len(coll) - pos
    BY <1>a, <2>1, Pieces DEF IInv, Types
  <2>3. size \in Nat /\ pos + size \in Nat /\ pos + size <= Len(coll)
    BY <1>3, <2>1, <2>2
  <2>4. SubSeq(rest, 1, size) = SubSeq(coll, pos + 1, pos + size)
    <3>1. /\ coll \in Seq(Names) /\ pos + 1 \in Nat /\ 1 <= pos + 1
          /\ (pos + 1) + size <= Len(coll) + 1 /\ (pos + 1) + size - 1 = pos + size
      BY <2>1, <2>3 DEF IInv, Types
    <3>2. SubSeq(SubSeq(coll, pos + 1, Len(coll)), 1, size) = SubSeq(coll, pos + 1, (pos + 1) + size - 1)
      BY <2>3, <3>1, PieceOfPiece
    <3> QED
      BY <1>a, <3>1, <3>2, Zenon
  <2>5. client'.got = SubSeq(coll, 1, pos + size)
    <3>1. 1 \in 1..(Len(coll) + 1) /\ pos \in (1 - 1)..Len(coll) /\ pos + size \in pos..Len(coll)
      BY <2>1, <2>3
    <3>2. SubSeq(coll, 1, pos) \o SubSeq(coll, pos + 1, pos + size) = SubSeq(coll, 1, pos + size)
      BY <3>1, ConcatAdjacentSubSeq DEF IInv, Types
    <3> QED
      BY <1>7, <2>1, <2>4, <3>2
  <2>6. Len(client'.got) = pos + size
    BY <2>3, <2>5, Pieces DEF IInv, Types
  <2>7. \/ client'.cookie = NoCookie /\ Len(client'.got) = 0
        \/ client'.cookie.upper = rcookie /\ client'.cookie.pos = Len(client'.got)
    <3>1. CASE size = 0
      <4>1. client'.cookie = client.cookie /\ Len(client'.got) = Len(client.got)
        BY <3>1, <1>7, <2>1, <2>6
      <4>2. \/ client.cookie = NoCookie /\ Len(client.got) = 0
            \/ client.cookie.upper = rcookie /\ client.cookie.pos = Len(client.got)
        BY DEF IInv, InStep
      <4> QED
        BY <4>1, <4>2
    <3>2. CASE size # 0
      <4>1. client'.cookie = [upper |-> rcookie, pos |-> entry_cookie(pos, size)]
        BY <3>2, <1>7, Zenon
      <4>2. client'.cookie.upper = rcookie /\ client'.cookie.pos = pos + size
        BY <4>1 DEF entry_cookie
      <4> QED
        BY <2>6, <4>2, Zenon
    <3> QED
      BY <3>1, <3>2
  <2>8. client'.eof => client'.got = coll
    <3> SUFFICES ASSUME client'.eof PROVE client'.got = coll
      OBVIOUS
    <3>1. pos + size = Len(coll)
      <4>1. size = Len(rest)
        BY <1>7, Zenon
      <4> QED
        BY <2>1, <2>2, <4>1
    <3> QED
      BY <2>5, <3>1, SubSeqFull DEF IInv, Types
  <2> QED
    BY <2>3, <2>5, <2>6, <2>7, <2>8
<1> QED
  BY <1>8, <1>9 DEF IInv

(* A listing that breaks off, too, is a sequence of names.                   *)
LEMMA ListingTyped ==
  ASSUME IInv, NEW listing \in Listings
  PROVE  listing \in Seq(Names)
<1>1. coll \in Seq(Names) /\ Len(coll) \in Nat
  BY LenProperties DEF IInv, Types
<1>2. \A n \in 0..Len(coll) : SubSeq(coll, 1, n) \in Seq(Names)
  BY <1>1, Piece
<1> QED
  BY <1>1, <1>2 DEF Listings

LEMMA ReaddirKeeps ==
  ASSUME IInv, READDIR
  PROVE  IInv'
BY ListingTyped, PageKeeps DEF READDIR

(* A listing begins with no entries and the cookie that stands for the start.*)
LEMMA StartTyped ==
  ASSUME NEW count \in Counts
  PROVE  /\ Start(count) \in [cookie : [upper : Nat, pos : Nat], count : Counts, got : Seq(Names),
                              eof : BOOLEAN]
         /\ Start(count).cookie = NoCookie /\ Start(count).got = <<>> /\ Start(count).eof = FALSE
BY EmptySeq DEF Start, NoCookie

LEMMA NewListingKeeps ==
  ASSUME IInv, NewListing
  PROVE  IInv'
<1>1. PICK count \in Counts : client' = Start(count)
  BY DEF NewListing
<1>2. UNCHANGED <<coll, rcookie>>
  BY DEF NewListing
<1>3. Types'
  BY <1>1, <1>2, StartTyped DEF IInv, Types
<1>4. <<>> = SubSeq(coll, 1, 0) /\ Len(<<>>) = 0 /\ Len(coll) \in Nat
  BY SubSeqEmpty, LenProperties, EmptySeq DEF IInv, Types
<1>5. client'.got = <<>> /\ client'.cookie = NoCookie /\ client'.eof = FALSE
  BY <1>1, StartTyped
<1>6. Len(client'.got) = 0
  BY <1>4, <1>5
<1>7. InStep'
  BY <1>2, <1>4, <1>5, <1>6 DEF InStep, NoCookie
<1> QED
  BY <1>3, <1>7 DEF IInv

(* Changes of the collection end what is claimed of a listing under way.     *)
LEMMA ChangeKeeps ==
  ASSUME IInv, Add \/ Remove \/ Rename \/ RemoveUnseen
  PROVE  IInv'
<1>1. quiet' = FALSE /\ UNCHANGED client
  BY DEF Add, Remove, Rename, RemoveUnseen, Change
<1>2. rcookie' \in Nat
  BY ReadDirAssumption DEF IInv, Types, Add, Remove, Rename, RemoveUnseen, change_readdir_cookie
<1>5. coll \in Seq(Names) /\ DOMAIN coll = 1..Len(coll) /\ Len(coll) \in Nat
  BY LenProperties DEF IInv, Types
<1>6. coll' \in Seq(Names)
  <2>1. CASE Add
    BY <1>5, <2>1, Inserted DEF Add
  <2>2. CASE Remove \/ RemoveUnseen
    BY <1>5, <2>2, Removed DEF Remove, RemoveUnseen
  <2>3. CASE Rename
    <3>1. PICK i \in DOMAIN coll, n \in Names, k \in DOMAIN coll :
            coll' = InsertAt(RemoveAt(coll, i), k, n)
      BY <2>3 DEF Rename
    <3>2. RemoveAt(coll, i) \in Seq(Names) /\ k \in 1..(Len(RemoveAt(coll, i)) + 1)
      BY <1>5, <3>1, Removed
    <3> QED
      BY <3>1, <3>2, Inserted
  <2> QED
    BY <2>1, <2>2, <2>3
<1> QED
  BY <1>1, <1>2, <1>6 DEF IInv, Types, InStep

(* A collection holds some of the names, each once.                          *)
LEMMA InitHolds == Init => IInv
<1> SUFFICES ASSUME Init PROVE IInv
  OBVIOUS
<1>1. PICK n \in 0..Cardinality(Names) : coll \in [1..n -> Names]
  BY DEF Init
<1>2. n \in Nat
  BY <1>1, FS_CardinalityType, ReadDirAssumption
<1>3. coll \in Seq(Names)
  BY <1>1, <1>2, IsASeq
<1>4. PICK count \in Counts : client = Start(count)
  BY DEF Init
<1>5. Types
  BY <1>3, <1>4, StartTyped DEF Init, Types
<1>6. <<>> = SubSeq(coll, 1, 0) /\ Len(<<>>) = 0 /\ Len(coll) \in Nat
  BY <1>3, SubSeqEmpty, LenProperties, EmptySeq
<1>7. client.got = <<>> /\ client.cookie = NoCookie /\ client.eof = FALSE
  BY <1>4, StartTyped
<1>8. Len(client.got) = 0
  BY <1>6, <1>7
<1>9. InStep
  BY <1>6, <1>7, <1>8 DEF InStep
<1> QED
  BY <1>5, <1>9 DEF IInv

(* Every step keeps the invariant.                                           *)
LEMMA StepKeeps == IInv /\ [Next]_vars => IInv'
<1> SUFFICES ASSUME IInv, [Next]_vars PROVE IInv'
  OBVIOUS
<1>1. CASE UNCHANGED vars \/ LOOKUP
  <2>1. UNCHANGED <<coll, rcookie, client, page, present, unseen, quiet, changes>>
    BY <1>1 DEF vars, LOOKUP
  <2> QED
    BY <2>1 DEF IInv, Types, InStep
<1> QED
  BY <1>1, ReaddirKeeps, NewListingKeeps, ChangeKeeps DEF Next

(* The client and the server are in step, whatever the pages hold and        *)
(* whoever changes the collection in between.                                *)
THEOREM ListingInStep == Spec => []IInv
BY InitHolds, StepKeeps, PTL DEF Spec

(* READDIR in pages of any size returns every entry of a directory that      *)
(* does not change, once and in order.                                       *)
THEOREM PagesAreJoined == Spec => []PagesJoin
<1>1. IInv => PagesJoin
  BY DEF IInv, InStep, PagesJoin
<1> QED
  BY <1>1, ListingInStep, PTL

----------------------------------------------------------------------------
(* Completeness *)

(* What the client does not have yet of the names that were there all the    *)
(* time lies behind its cookie, or its cookie is of an earlier epoch.        *)
Behind ==
  ~unseen => \A i \in DOMAIN coll :
               i <= first_entry(client.cookie) /\ coll[i] \in present
                 => coll[i] \in Elements(client.got)

(* Epochs do not repeat: no cookie is ahead, and no change makes them wrap.  *)
Epochs ==
  /\ changes \in Nat /\ changes <= MaxChanges
  /\ rcookie <= changes
  /\ client.cookie.upper <= rcookie

CInv == IInv /\ Epochs /\ present \subseteq Elements(coll) /\ Behind /\ Complete

(* A change of the epoch makes a listing under way start over.               *)
LEMMA StartsOver ==
  ASSUME IInv, Epochs, changes < MaxChanges, changes' = changes + 1, UNCHANGED client,
         change_readdir_cookie
  PROVE  Epochs' /\ first_entry(client.cookie)' = 0
<1>1. /\ client.cookie \in [upper : Nat, pos : Nat] /\ rcookie \in Nat
      /\ MaxChanges \in Nat /\ CookieEpochs \in Nat /\ CookieEpochs > MaxChanges
  BY ReadDirAssumption DEF IInv, Types
<1>2. rcookie' = rcookie + 1
  BY <1>1 DEF change_readdir_cookie, Epochs
<1>3. client.cookie.upper # rcookie'
  BY <1>1, <1>2 DEF Epochs
<1>4. first_entry(client.cookie)' = 0
  BY <1>3 DEF first_entry, NoCookie
<1> QED
  BY <1>1, <1>2, <1>4 DEF Epochs

(* A page of the whole listing brings what lies between the old cookie and   *)
(* the new one; a listing that broke off is remembered as such.              *)
LEMMA PageComplete ==
  ASSUME CInv, NEW listing \in Seq(Names), PageOf(listing)
  PROVE  CInv'
<1> DEFINE cookie == client.cookie
           pos == first_entry(cookie)
           rest == Rest(listing, cookie)
           reply == read_dir(listing, cookie, client.count)
<1>0. IInv'
  BY PageKeeps DEF CInv
<1>1. pos \in Nat
  BY FirstEntry DEF CInv
<1>2. rest \in Seq(Names)
  BY <1>1, PageShape
<1>3. PICK size \in 0..Len(rest) : reply = Reply(listing, cookie, size)
  BY <1>1, PageShape
<1>4. /\ client' = [client EXCEPT !.cookie = reply.cookie, !.eof = reply.eof,
                                  !.got = @ \o reply.entries]
      /\ unseen' = (unseen \/ listing # coll)
      /\ UNCHANGED <<coll, rcookie, present, changes>>
  BY Zenon DEF PageOf
<1>5. rest = SubSeq(listing, pos + 1, Len(listing))
  BY DEF Rest
<1>6. /\ reply.entries = SubSeq(rest, 1, size)
      /\ reply.cookie = IF size = 0 THEN cookie
                        ELSE [upper |-> rcookie, pos |-> entry_cookie(pos, size)]
      /\ reply.eof = (size = Len(rest))
  BY <1>3 DEF Reply
<1>7. /\ client \in [cookie : [upper : Nat, pos : Nat], count : Counts, got : Seq(Names),
                      eof : BOOLEAN]
      /\ coll \in Seq(Names) /\ rcookie \in Nat
  BY DEF CInv, IInv, Types
<1> HIDE DEF rest, reply, pos
<1> DEFINE entries == SubSeq(rest, 1, size)
<1>8. /\ client'.cookie = IF size = 0 THEN cookie
                          ELSE [upper |-> rcookie, pos |-> entry_cookie(pos, size)]
      /\ client'.eof = (size = Len(rest))
      /\ client'.got = client.got \o entries
  BY <1>4, <1>6, <1>7
<1>9. Len(rest) \in Nat /\ size \in Nat /\ size <= Len(rest)
  <2>1. Len(rest) \in Nat
    BY <1>2, LenProperties
  <2> QED
    BY <1>3, <2>1
<1>10. entries \in Seq(Names) /\ Len(entries) = size /\ \A i \in 1..size : entries[i] = rest[i]
  <2>1. entries \in Seq(Names) /\ Len(entries) = size
    BY <1>2, <1>9, Pieces
  <2> QED
    BY <1>9, <2>1
<1> HIDE DEF entries
<1>11. /\ Elements(client.got) \subseteq Elements(client'.got)
       /\ Elements(entries) \subseteq Elements(client'.got)
  BY <1>7, <1>8, <1>10, Joined
<1>12. first_entry(client.cookie)' = pos + size
  <2>1. CASE size = 0
    <3>1. client'.cookie = client.cookie /\ rcookie' = rcookie
      BY <1>4, <1>8, <2>1
    <3>2. first_entry(client.cookie)' = pos
      BY <3>1 DEF first_entry, NoCookie, pos
    <3> QED
      BY <1>1, <2>1, <3>2
  <2>2. CASE size # 0
    <3>1. client'.cookie = [upper |-> rcookie, pos |-> entry_cookie(pos, size)]
      BY <1>8, <2>2, Zenon
    <3>2. client'.cookie.upper = rcookie' /\ client'.cookie.pos = pos + size
      BY <1>4, <3>1 DEF entry_cookie
    <3> QED
      BY <3>2 DEF first_entry
  <2> QED
    BY <2>1, <2>2
<1>13. Epochs'
  <2>1. client'.cookie.upper <= rcookie
    BY <1>7, <1>8 DEF CInv, Epochs
  <2> QED
    BY <1>4, <2>1 DEF CInv, Epochs
<1>14. ASSUME ~unseen', NEW i \in DOMAIN coll, i <= pos + size, coll[i] \in present
       PROVE  coll[i] \in Elements(client'.got)
  <2>1. listing = coll /\ ~unseen
    BY <1>4, <1>14
  <2>2. DOMAIN coll = 1..Len(coll) /\ Len(coll) \in Nat
    BY <1>7, LenProperties
  <2>3. CASE i <= pos
    <3>1. coll[i] \in Elements(client.got)
      BY <1>14, <2>1, <2>3 DEF CInv, Behind, pos
    <3> QED
      BY <1>11, <3>1
  <2>4. CASE ~(i <= pos)
    <3>1. i - pos \in 1..size /\ pos + 1 \in Nat /\ (pos + 1) + (i - pos) - 1 = i
      BY <1>1, <1>9, <1>14, <2>2, <2>4
    <3>2. rest[i - pos] = coll[i]
      <4>1. i - pos \in 1..(Len(coll) - (pos + 1) + 1)
        BY <1>1, <2>2, <2>4
      <4>2. SubSeq(coll, pos + 1, Len(coll))[i - pos] = coll[(pos + 1) + (i - pos) - 1]
        BY <4>1, <3>1, <2>2
      <4> QED
        BY <1>5, <2>1, <3>1, <4>2
    <3>3. DOMAIN entries = 1..size
      BY <1>10, LenProperties
    <3>4. entries[i - pos] = coll[i]
      BY <1>10, <3>1, <3>2
    <3>5. coll[i] \in Elements(entries)
      BY <3>1, <3>3, <3>4 DEF Elements
    <3> QED
      BY <1>11, <3>5
  <2> QED
    BY <2>3, <2>4
<1>15. Behind'
  BY <1>4, <1>12, <1>14 DEF Behind
<1>16. Complete'
  <2> SUFFICES ASSUME client'.eof, ~unseen', NEW x \in present
               PROVE  x \in Elements(client'.got)
    BY <1>4 DEF Complete
  <2>1. PICK i \in DOMAIN coll : x = coll[i]
    BY DEF CInv, Elements
  <2>2. listing = coll /\ size = Len(rest)
    BY <1>4, <1>8
  <2>3. i <= pos + size
    <3>1. DOMAIN coll = 1..Len(coll) /\ Len(coll) \in Nat
      BY <1>7, LenProperties
    <3>2. CASE pos <= Len(coll)
      <4>1. Len(rest) = Len(coll) - pos
        BY <1>1, <1>5, <1>7, <2>2, <3>2, Pieces
      <4> QED
        BY <1>1, <2>2, <3>1, <4>1
    <3>3. CASE ~(pos <= Len(coll))
      BY <1>1, <1>9, <3>1, <3>3
    <3> QED
      BY <3>2, <3>3
  <2> QED
    BY <1>14, <2>1, <2>3
<1> QED
  BY <1>0, <1>4, <1>13, <1>15, <1>16 DEF CInv

LEMMA NewListingComplete ==
  ASSUME CInv, NewListing
  PROVE  CInv'
<1>1. PICK count \in Counts : client' = Start(count)
  BY DEF NewListing
<1>2. UNCHANGED <<coll, rcookie, changes>> /\ present' = Elements(coll)
  BY DEF NewListing
<1>3. client'.cookie = NoCookie /\ client'.eof = FALSE
  BY <1>1, StartTyped
<1>4. client'.cookie.upper = 0 /\ client'.cookie.pos = 0
  BY <1>3 DEF NoCookie
<1>5. coll \in Seq(Names) /\ rcookie \in Nat /\ DOMAIN coll = 1..Len(coll) /\ Len(coll) \in Nat
  BY LenProperties DEF CInv, IInv, Types
<1>6. first_entry(client.cookie)' = 0
  BY <1>3, <1>4 DEF first_entry, NoCookie
<1>7. Behind'
  BY <1>2, <1>5, <1>6 DEF Behind
<1>8. Epochs'
  BY <1>2, <1>4, <1>5 DEF CInv, Epochs
<1>9. Complete'
  BY <1>3 DEF Complete
<1>10. (present \subseteq Elements(coll))'
  BY <1>2 DEF Elements
<1> QED
  BY <1>7, <1>8, <1>9, <1>10, NewListingKeeps DEF CInv

(* A name that is added moves no name back over the cookie.                  *)
LEMMA AddComplete ==
  ASSUME CInv, Add
  PROVE  CInv'
<1>1. PICK n \in Names \ Elements(coll), i \in 1..(Len(coll) + 1) : coll' = InsertAt(coll, i, n)
  BY DEF Add
<1>2. /\ UNCHANGED <<client, rcookie, present, unseen>>
      /\ changes' = changes + 1 /\ changes < MaxChanges
  BY DEF Add, Change
<1>3. coll \in Seq(Names) /\ DOMAIN coll = 1..Len(coll) /\ Len(coll) \in Nat
  BY LenProperties DEF CInv, IInv, Types
<1>4. /\ coll' \in Seq(Names) /\ Len(coll') = Len(coll) + 1
      /\ \A j \in 1..(Len(coll) + 1) :
           coll'[j] = IF j < i THEN coll[j] ELSE IF j = i THEN n ELSE coll[j - 1]
  <2> DEFINE t == InsertAt(coll, i, n)
  <2>1. /\ t \in Seq(Names) /\ Len(t) = Len(coll) + 1
        /\ \A j \in 1..(Len(coll) + 1) :
             t[j] = IF j < i THEN coll[j] ELSE IF j = i THEN n ELSE coll[j - 1]
    BY <1>3, Inserted
  <2>2. coll' = t
    BY <1>1
  <2> HIDE DEF t
  <2> QED
    BY <2>1, <2>2, Zenon
<1>5. DOMAIN coll' = 1..(Len(coll) + 1)
  BY <1>4, LenProperties
<1>6. Epochs'
  BY <1>2, ReadDirAssumption DEF CInv, IInv, Types, Epochs
<1>7. n \notin present
  BY DEF CInv
<1>8. first_entry(client.cookie)' = first_entry(client.cookie) /\ first_entry(client.cookie) \in Nat
  BY <1>2, FirstEntry DEF CInv, first_entry, NoCookie
<1>9. Behind'
  <2> SUFFICES ASSUME ~unseen, NEW j \in 1..(Len(coll) + 1), j <= first_entry(client.cookie),
                      coll'[j] \in present
               PROVE  coll'[j] \in Elements(client.got)
    BY <1>2, <1>5, <1>8 DEF Behind, Elements
  <2>1. CASE j < i
    <3>1. j \in 1..Len(coll) /\ coll'[j] = coll[j]
      BY <1>3, <1>4, <2>1
    <3> QED
      BY <1>3, <3>1 DEF CInv, Behind
  <2>2. CASE j = i
    BY <1>4, <1>7, <2>2
  <2>3. CASE j > i
    <3>1. j - 1 \in 1..Len(coll) /\ coll'[j] = coll[j - 1]
      BY <1>3, <1>4, <2>3
    <3>2. j - 1 <= first_entry(client.cookie)
      BY <1>8
    <3> QED
      BY <1>3, <3>1, <3>2 DEF CInv, Behind
  <2>4. j < i \/ j = i \/ j > i
    BY <1>3
  <2> QED
    BY <2>1, <2>2, <2>3, <2>4
<1>10. Elements(coll) \subseteq Elements(coll')
  BY <1>1, <1>3, InsertKeeps
<1>11. (present \subseteq Elements(coll))'
  <2>1. Elements(coll)' = Elements(coll')
    BY DEF Elements
  <2> QED
    BY <1>2, <1>10, <2>1 DEF CInv
<1>12. Complete'
  BY <1>2 DEF CInv, Complete, Elements
<1> QED
  BY <1>6, <1>9, <1>11, <1>12, ChangeKeeps DEF CInv

(* Removals and renames make the client start over; a removal the server     *)
(* does not know of is remembered as such.                                   *)
LEMMA RemoveComplete ==
  ASSUME CInv, Remove \/ Rename \/ RemoveUnseen
  PROVE  CInv'
<1>1. IInv'
  BY ChangeKeeps DEF CInv
<1>2. UNCHANGED client /\ changes' = changes + 1 /\ changes < MaxChanges
  BY DEF Remove, Rename, RemoveUnseen, Change
<1>3. coll \in Seq(Names) /\ DOMAIN coll = 1..Len(coll) /\ Len(coll) \in Nat
  BY LenProperties DEF CInv, IInv, Types
<1>4. present' \subseteq present /\ present' \subseteq Elements(coll')
  <2>1. CASE Remove \/ RemoveUnseen
    <3>1. CASE UNCHANGED <<coll, present>>
      BY <3>1 DEF CInv
    <3>2. CASE \E i \in DOMAIN coll : coll' = RemoveAt(coll, i) /\ present' = present \ {coll[i]}
      BY <1>3, <3>2, Removed DEF CInv
    <3> QED
      BY <2>1, <3>1, <3>2 DEF Remove, RemoveUnseen
  <2>2. CASE Rename
    <3>1. PICK i \in DOMAIN coll, n \in Names, k \in DOMAIN coll :
            coll' = InsertAt(RemoveAt(coll, i), k, n) /\ present' = present \ {coll[i]}
      BY <2>2 DEF Rename
    <3> DEFINE t == RemoveAt(coll, i)
    <3>2. t \in Seq(Names) /\ Len(t) = Len(coll) - 1 /\ Elements(coll) \ {coll[i]} \subseteq Elements(t)
      BY <1>3, Removed
    <3>3. coll' = InsertAt(t, k, n)
      BY <3>1
    <3> HIDE DEF t
    <3>4. k \in 1..(Len(t) + 1)
      BY <1>3, <3>2
    <3>5. Elements(t) \subseteq Elements(coll')
      BY <3>2, <3>3, <3>4, InsertKeeps
    <3> QED
      BY <3>1, <3>2, <3>5 DEF CInv
  <2> QED
    BY <2>1, <2>2
<1>5. (present \subseteq Elements(coll))'
  <2>1. Elements(coll)' = Elements(coll')
    BY DEF Elements
  <2> QED
    BY <1>4, <2>1
<1>6. Complete'
  <2>1. unseen => unseen'
    BY DEF Remove, Rename, RemoveUnseen
  <2>2. Elements(client.got)' = Elements(client.got)
    BY <1>2 DEF Elements
  <2> QED
    BY <1>2, <1>4, <2>1, <2>2 DEF CInv, Complete
<1>7. CASE Remove \/ Rename
  <2>1. change_readdir_cookie
    BY <1>7 DEF Remove, Rename
  <2>2. Epochs' /\ first_entry(client.cookie)' = 0
    BY <1>2, <2>1, StartsOver DEF CInv
  <2>3. DOMAIN coll' = 1..Len(coll') /\ Len(coll') \in Nat
    BY <1>1, LenProperties DEF IInv, Types
  <2>4. Behind'
    BY <2>2, <2>3 DEF Behind
  <2> QED
    BY <1>1, <1>5, <1>6, <2>2, <2>4 DEF CInv
<1>8. CASE RemoveUnseen
  <2>1. unseen' /\ rcookie' = rcookie
    BY <1>8 DEF RemoveUnseen
  <2>2. Epochs'
    BY <1>2, <2>1, ReadDirAssumption DEF CInv, IInv, Types, Epochs
  <2>3. Behind'
    BY <2>1 DEF Behind
  <2> QED
    BY <1>1, <1>5, <1>6, <2>2, <2>3 DEF CInv
<1> QED
  BY <1>7, <1>8

LEMMA InitComplete == Init => CInv
<1> SUFFICES ASSUME Init PROVE CInv
  OBVIOUS
<1>1. IInv
  BY InitHolds
<1>2. PICK count \in Counts : client = Start(count)
  BY DEF Init
<1>3. client.cookie = NoCookie /\ client.eof = FALSE
  BY <1>2, StartTyped
<1>4. client.cookie.upper = 0 /\ client.cookie.pos = 0
  BY <1>3 DEF NoCookie
<1>5. coll \in Seq(Names) /\ DOMAIN coll = 1..Len(coll) /\ Len(coll) \in Nat
  BY <1>1, LenProperties DEF IInv, Types
<1>6. first_entry(client.cookie) = 0
  BY <1>3, <1>4 DEF first_entry
<1>7. Behind
  BY <1>5, <1>6 DEF Behind
<1>8. Epochs
  BY <1>4, ReadDirAssumption DEF Init, Epochs
<1> QED
  BY <1>1, <1>3, <1>7, <1>8 DEF CInv, Complete, Init

LEMMA StepComplete == CInv /\ [Next]_vars => CInv'
<1> SUFFICES ASSUME CInv, [Next]_vars PROVE CInv'
  OBVIOUS
<1>1. CASE UNCHANGED vars \/ LOOKUP
  <2>1. UNCHANGED <<coll, rcookie, client, page, present, unseen, quiet, changes>>
    BY <1>1 DEF vars, LOOKUP
  <2> QED
    BY <2>1 DEF CInv, IInv, Types, InStep, Epochs, Behind, Complete, first_entry, NoCookie, Elements
<1>2. CASE READDIR
  <2>1. PICK listing \in Listings : PageOf(listing)
    BY <1>2 DEF READDIR
  <2>2. listing \in Seq(Names)
    BY <2>1, ListingTyped DEF CInv
  <2> QED
    BY <2>1, <2>2, PageComplete
<1> QED
  BY <1>1, <1>2, NewListingComplete, AddComplete, RemoveComplete DEF Next

(* However long the directory is and however pages and changes fall, a       *)
(* client that reads to the end has got every name that was there all the    *)
(* time, unless names vanished without the server's doing.                   *)
THEOREM ListingsComplete == Spec => []Complete
<1>1. CInv => Complete
  BY DEF CInv
<1> QED
  BY <1>1, InitComplete, StepComplete, PTL DEF Spec

----------------------------------------------------------------------------
(* Types: a directory lists no name twice, so it has at most as many entries *)
(* as there are names, and no cookie points behind them.                     *)

(* No name is listed twice.                                                  *)
Injective(s) == \A i, j \in 1..Len(s) : s[i] = s[j] => i = j

(* What is left when an entry is removed, place by place.                    *)
LEMMA RemovedPlaces ==
  ASSUME NEW s \in Seq(Names), NEW i \in 1..Len(s)
  PROVE  \A j \in 1..(Len(s) - 1) : RemoveAt(s, i)[j] = IF j < i THEN s[j] ELSE s[j + 1]
<1>0. Len(s) \in Nat /\ i - 1 \in Nat /\ i - 1 <= Len(s) /\ i \in Nat /\ i <= Len(s)
  BY LenProperties
<1> DEFINE front == SubSeq(s, 1, i - 1)
           back == SubSeq(s, i + 1, Len(s))
<1>1. front \in Seq(Names) /\ Len(front) = i - 1 /\ back \in Seq(Names) /\ Len(back) = Len(s) - i
  BY <1>0, Pieces
<1>2. \A j \in 1..(i - 1) : front[j] = s[j]
  BY <1>0
<1>3. \A j \in 1..(Len(s) - i) : back[j] = s[j + i]
  BY <1>0
<1>4. RemoveAt(s, i) = front \o back
  BY DEF RemoveAt
<1> HIDE DEF front, back
<1>5. \A j \in 1..(Len(front) + Len(back)) :
        (front \o back)[j] = IF j <= Len(front) THEN front[j] ELSE back[j - Len(front)]
  BY <1>1, ConcatProperties
<1> DEFINE whole == front \o back
<1>6. \A j \in 1..(Len(s) - 1) : whole[j] = IF j <= i - 1 THEN front[j] ELSE back[j - (i - 1)]
  <2>1. Len(front) + Len(back) = Len(s) - 1
    BY <1>0, <1>1
  <2> QED
    BY <1>1, <1>5, <2>1, Zenon
<1> HIDE DEF whole
<1>7. ASSUME NEW j \in 1..(Len(s) - 1)
      PROVE  whole[j] = IF j < i THEN s[j] ELSE s[j + 1]
  <2>1. CASE j < i
    <3>1. j \in 1..(i - 1) /\ j <= i - 1
      BY <2>1, <1>0
    <3> QED
      BY <1>2, <1>6, <2>1, <3>1
  <2>2. CASE ~(j < i)
    <3>1. ~(j <= i - 1) /\ j - (i - 1) \in 1..(Len(s) - i) /\ (j - (i - 1)) + i = j + 1
      BY <2>2, <1>0
    <3>2. back[j - (i - 1)] = s[j + 1]
      BY <1>3, <3>1
    <3> QED
      BY <1>6, <2>2, <3>1, <3>2
  <2> QED
    BY <2>1, <2>2
<1> QED
  BY <1>4, <1>7 DEF whole

(* Removing an entry leaves no name twice and brings none.                   *)
LEMMA RemoveInjective ==
  ASSUME NEW s \in Seq(Names), NEW i \in 1..Len(s), Injective(s)
  PROVE  Injective(RemoveAt(s, i)) /\ Elements(RemoveAt(s, i)) \subseteq Elements(s)
<1> DEFINE t == RemoveAt(s, i)
<1>0. Len(s) \in Nat /\ DOMAIN s = 1..Len(s) /\ i \in Nat
  BY LenProperties
<1>1. t \in Seq(Names) /\ Len(t) = Len(s) - 1
  BY Removed
<1>2. \A j \in 1..(Len(s) - 1) : t[j] = IF j < i THEN s[j] ELSE s[j + 1]
  BY RemovedPlaces
<1>3. DOMAIN t = 1..(Len(s) - 1)
  BY <1>1, LenProperties
<1> HIDE DEF t
<1>4. \A j \in 1..(Len(s) - 1) : j \in 1..Len(s) /\ j + 1 \in 1..Len(s)
  BY <1>0
<1>5. ASSUME NEW j \in 1..(Len(s) - 1), NEW k \in 1..(Len(s) - 1), t[j] = t[k]
      PROVE  j = k
  <2> DEFINE p == IF j < i THEN j ELSE j + 1
             q == IF k < i THEN k ELSE k + 1
  <2>1. t[j] = s[p] /\ t[k] = s[q]
    BY <1>2
  <2>2. p \in 1..Len(s) /\ q \in 1..Len(s)
    BY <1>4
  <2>3. p = q
    <3> HIDE DEF p, q
    <3> QED
      BY <1>5, <2>1, <2>2 DEF Injective
  <2> QED
    BY <1>0, <2>3
<1>6. Elements(t) \subseteq Elements(s)
  BY <1>0, <1>2, <1>3, <1>4 DEF Elements
<1> QED
  BY <1>1, <1>5, <1>6 DEF Injective, t

(* Inserting a new name leaves no name twice.                                *)
LEMMA InsertInjective ==
  ASSUME NEW s \in Seq(Names), NEW i \in 1..(Len(s) + 1), NEW x \in Names \ Elements(s), Injective(s)
  PROVE  Injective(InsertAt(s, i, x))
<1> DEFINE t == InsertAt(s, i, x)
<1>0. Len(s) \in Nat /\ DOMAIN s = 1..Len(s) /\ i \in Nat
  BY LenProperties
<1>1. Len(t) = Len(s) + 1
  BY Inserted
<1>2. \A j \in 1..(Len(s) + 1) : t[j] = IF j < i THEN s[j] ELSE IF j = i THEN x ELSE s[j - 1]
  BY Inserted
<1> HIDE DEF t
<1>3. \A j \in 1..Len(s) : s[j] # x
  BY <1>0 DEF Elements
<1> DEFINE from(j) == IF j < i THEN j ELSE j - 1
<1>4. \A j \in 1..(Len(s) + 1) : j # i => from(j) \in 1..Len(s) /\ t[j] = s[from(j)]
  <2> SUFFICES ASSUME NEW j \in 1..(Len(s) + 1), j # i
               PROVE  from(j) \in 1..Len(s) /\ t[j] = s[from(j)]
    OBVIOUS
  <2>1. from(j) \in 1..Len(s)
    BY <1>0
  <2>2. t[j] = s[from(j)]
    BY <1>2
  <2> QED
    BY <2>1, <2>2
<1>5. \A j, k \in 1..(Len(s) + 1) : j # i /\ k # i /\ from(j) = from(k) => j = k
  BY <1>0
<1>6. t[i] = x
  BY <1>0, <1>2
<1> HIDE DEF from
<1>7. \A j \in 1..(Len(s) + 1) : t[j] = x => j = i
  BY <1>3, <1>4
<1>8. ASSUME NEW j \in 1..(Len(s) + 1), NEW k \in 1..(Len(s) + 1), t[j] = t[k]
      PROVE  j = k
  <2>1. CASE j = i \/ k = i
    BY <1>6, <1>7, <1>8, <2>1
  <2>2. CASE j # i /\ k # i
    <3>1. /\ from(j) \in 1..Len(s) /\ from(k) \in 1..Len(s)
          /\ s[from(j)] = s[from(k)]
      BY <1>4, <1>8, <2>2
    <3>2. from(j) = from(k)
      BY <3>1 DEF Injective
    <3> QED
      BY <1>5, <2>2, <3>2
  <2> QED
    BY <2>1, <2>2
<1> QED
  BY <1>1, <1>8 DEF Injective, t

(* A list has as many names as entries exactly if it names none twice; then  *)
(* it is no longer than there are names.                                     *)
LEMMA Counted ==
  ASSUME NEW s \in Seq(Names)
  PROVE  /\ Cardinality(Elements(s)) = Len(s) <=> Injective(s)
         /\ Elements(s) \subseteq Names
         /\ Injective(s) => Len(s) <= Cardinality(Names)
<1>0. Len(s) \in Nat /\ DOMAIN s = 1..Len(s) /\ s \in [1..Len(s) -> Names]
  BY LenProperties
<1> DEFINE N == Len(s)
           D == 1..N
           E == Elements(s)
<1>1. IsFiniteSet(D) /\ Cardinality(D) = N
  <2>1. IsFiniteSet(D) /\ Cardinality(D) = IF 1 > N THEN 0 ELSE N - 1 + 1
    BY <1>0, FS_Interval
  <2> QED
    BY <1>0, <2>1
<1>2. s \in Surjection(D, E)
  BY <1>0 DEF Elements, Surjection
<1>3. Cardinality(E) = N <=> s \in Injection(D, E)
  <2> HIDE DEF D, E, N
  <2> QED
    BY <1>1, <1>2, FS_Surjection
<1>4. s \in Injection(D, E) <=> Injective(s)
  <2>1. s \in [D -> E]
    BY <1>0 DEF Elements
  <2> QED
    BY <2>1 DEF Injection, IsInjective, Injective
<1>5. E \subseteq Names
  BY <1>0 DEF Elements
<1>6. Cardinality(E) <= Cardinality(Names)
  <2> HIDE DEF E
  <2> QED
    BY <1>5, ReadDirAssumption, FS_Subset
<1> QED
  BY <1>3, <1>4, <1>5, <1>6

(* The inductive invariant behind the types.                                 *)
TInv ==
  /\ IInv
  /\ Injective(coll)
  /\ rcookie \in 0..(CookieEpochs - 1)
  /\ client.cookie.upper \in 0..(CookieEpochs - 1)
  /\ client.cookie.pos <= Cardinality(Names)
  /\ page \in Seq(Names)

(* A page ends where the listing ends at the latest, and a cookie from behind that end *)
(* gives an empty page, which leaves the cookie as it is.                    *)
LEMMA PageTyped ==
  ASSUME TInv, NEW listing \in Listings, PageOf(listing)
  PROVE  TInv'
<1> DEFINE cookie == client.cookie
           pos == first_entry(cookie)
           rest == Rest(listing, cookie)
<1>1. IInv /\ cookie \in [upper : Nat, pos : Nat] /\ coll \in Seq(Names) /\ Len(coll) \in Nat
  BY LenProperties DEF TInv, IInv, Types
<1>2. listing \in Seq(Names) /\ Len(listing) \in Nat /\ Len(listing) <= Len(coll)
  <2>1. listing \in Seq(Names)
    BY <1>1, ListingTyped
  <2>2. \A n \in 0..Len(coll) : Len(SubSeq(coll, 1, n)) <= Len(coll)
    <3> SUFFICES ASSUME NEW n \in 0..Len(coll) PROVE Len(SubSeq(coll, 1, n)) <= Len(coll)
      OBVIOUS
    <3>1. n \in Nat /\ n <= Len(coll)
      BY <1>1
    <3>2. Len(SubSeq(coll, 1, n)) = n
      BY <1>1, <3>1, Pieces
    <3> QED
      BY <3>1, <3>2
  <2>3. Len(listing) <= Len(coll)
    BY <1>1, <2>2 DEF Listings
  <2> QED
    BY <2>1, <2>3, LenProperties
<1>3. pos \in Nat
  BY <1>1, FirstEntry
<1>4. PICK size \in 0..Len(rest) : /\ rest \in Seq(Names)
                                   /\ read_dir(listing, cookie, client.count) = Reply(listing, cookie, size)
  BY <1>2, <1>3, PageShape
<1> DEFINE reply == read_dir(listing, cookie, client.count)
<1>5. /\ client' = [client EXCEPT !.cookie = reply.cookie, !.eof = reply.eof, !.got = @ \o reply.entries]
      /\ page' = reply.entries
      /\ UNCHANGED <<coll, rcookie>>
  BY DEF PageOf
<1>6. /\ reply.entries = SubSeq(rest, 1, size)
      /\ reply.cookie = IF size = 0 THEN cookie ELSE [upper |-> rcookie, pos |-> entry_cookie(pos, size)]
  BY <1>4 DEF Reply
<1>7. IInv'
  BY <1>1, <1>2, PageKeeps
<1> HIDE DEF reply
<1>8. client'.cookie = reply.cookie
  BY <1>1, <1>5 DEF IInv, Types
<1>9. Len(rest) \in Nat /\ size \in Nat /\ size <= Len(rest)
  BY <1>4, LenProperties
<1>10. page' \in Seq(Names)
  BY <1>4, <1>5, <1>6, <1>9, Pieces
<1>11. size # 0 => pos + size <= Cardinality(Names)
  <2> SUFFICES ASSUME size # 0 PROVE pos + size <= Cardinality(Names)
    OBVIOUS
  <2>1. pos <= Len(listing)
    <3> SUFFICES ASSUME ~(pos <= Len(listing)) PROVE FALSE
      OBVIOUS
    <3>1. rest = SubSeq(listing, pos + 1, Len(listing)) /\ pos + 1 > Len(listing)
      BY <1>2, <1>3 DEF Rest
    <3>2. rest = <<>>
      BY <1>2, <1>3, <3>1
    <3> QED
      BY <1>9, <3>2
  <2>2. Len(rest) = Len(listing) - pos
    BY <1>2, <1>3, <2>1, Pieces DEF Rest
  <2>3. Len(coll) <= Cardinality(Names) /\ Cardinality(Names) \in Nat
    BY <1>1, Counted, ReadDirAssumption, FS_CardinalityType DEF TInv
  <2> QED
    BY <1>1, <1>2, <1>3, <1>9, <2>1, <2>2, <2>3
<1>12. /\ client'.cookie.upper \in 0..(CookieEpochs - 1)
       /\ client'.cookie.pos <= Cardinality(Names)
  <2>1. CASE size = 0
    BY <1>6, <1>8, <2>1 DEF TInv
  <2>2. CASE size # 0
    BY <1>6, <1>8, <1>11, <2>2 DEF TInv, entry_cookie
  <2> QED
    BY <2>1, <2>2
<1> QED
  BY <1>5, <1>7, <1>10, <1>12 DEF TInv, Injective

(* Additions bring new names only, and epochs are counted modulo CookieEpochs. *)
LEMMA ChangeTyped ==
  ASSUME TInv, Add \/ Remove \/ Rename \/ RemoveUnseen
  PROVE  TInv'
<1>1. IInv'
  BY ChangeKeeps DEF TInv
<1>2. UNCHANGED <<client, page>>
  BY DEF Add, Remove, Rename, RemoveUnseen, Change
<1>3. rcookie' \in 0..(CookieEpochs - 1)
  <2>1. UNCHANGED rcookie \/ rcookie' = (rcookie + 1) % CookieEpochs
    BY DEF Add, Remove, Rename, RemoveUnseen, change_readdir_cookie
  <2>2. CookieEpochs \in Nat /\ CookieEpochs > 0 /\ rcookie \in Nat
    BY ReadDirAssumption DEF TInv
  <2>3. (rcookie + 1) % CookieEpochs \in 0..(CookieEpochs - 1)
    BY <2>2
  <2> QED
    BY <2>1, <2>3 DEF TInv
<1>4. coll \in Seq(Names) /\ Injective(coll) /\ Len(coll) \in Nat /\ DOMAIN coll = 1..Len(coll)
  BY LenProperties DEF TInv, IInv, Types
<1>5. Injective(coll)'
  <2>1. CASE Add
    <3>1. PICK n \in Names \ Elements(coll), i \in 1..(Len(coll) + 1) : coll' = InsertAt(coll, i, n)
      BY <2>1 DEF Add
    <3>2. Injective(InsertAt(coll, i, n))
      BY <1>4, InsertInjective
    <3> QED
      BY <3>1, <3>2 DEF Injective
  <2>2. CASE Remove \/ RemoveUnseen
    <3>1. coll' = coll \/ \E i \in DOMAIN coll : coll' = RemoveAt(coll, i)
      BY <2>2 DEF Remove, RemoveUnseen
    <3>2. CASE coll' = coll
      BY <1>4, <3>2 DEF Injective
    <3>3. CASE \E i \in DOMAIN coll : coll' = RemoveAt(coll, i)
      <4>1. PICK i \in 1..Len(coll) : coll' = RemoveAt(coll, i)
        BY <1>4, <3>3
      <4>2. Injective(RemoveAt(coll, i))
        BY <1>4, RemoveInjective
      <4> QED
        BY <4>1, <4>2 DEF Injective
    <3> QED
      BY <3>1, <3>2, <3>3
  <2>3. CASE Rename
    <3>1. PICK i \in 1..Len(coll), n \in Names \ Elements(coll), k \in 1..Len(coll) :
            coll' = InsertAt(RemoveAt(coll, i), k, n)
      BY <1>4, <2>3 DEF Rename
    <3> DEFINE t == RemoveAt(coll, i)
    <3>2. t \in Seq(Names) /\ Len(t) = Len(coll) - 1 /\ Injective(t) /\ Elements(t) \subseteq Elements(coll)
      BY <1>4, Removed, RemoveInjective
    <3> HIDE DEF t
    <3>3. k \in 1..(Len(t) + 1) /\ n \in Names \ Elements(t)
      BY <1>4, <3>2
    <3>4. Injective(InsertAt(t, k, n))
      BY <3>2, <3>3, InsertInjective
    <3> QED
      BY <3>1, <3>4 DEF Injective, t
  <2> QED
    BY <2>1, <2>2, <2>3
<1> QED
  BY <1>1, <1>2, <1>3, <1>5 DEF TInv

(* Initially the directory lists no name twice and the cookie is that of the start. *)
LEMMA InitTyped == Init => TInv
<1> SUFFICES ASSUME Init PROVE TInv
  OBVIOUS
<1>1. IInv
  BY InitHolds
<1>2. coll \in Seq(Names) /\ Cardinality(Elements(coll)) = Len(coll)
  BY <1>1 DEF Init, IInv, Types
<1>3. Injective(coll)
  BY <1>2, Counted
<1>4. CookieEpochs \in Nat /\ CookieEpochs > 0 /\ Cardinality(Names) \in Nat
  BY ReadDirAssumption, FS_CardinalityType
<1>5. client.cookie = NoCookie /\ rcookie = 0 /\ page = <<>>
  BY DEF Init, Start
<1> QED
  BY <1>1, <1>3, <1>4, <1>5, EmptySeq DEF TInv, NoCookie

(* A new listing begins with the cookie of the start.                        *)
LEMMA NewListingTyped ==
  ASSUME TInv, NewListing
  PROVE  TInv'
<1>1. IInv'
  BY NewListingKeeps DEF TInv
<1>2. UNCHANGED <<coll, rcookie>> /\ page' = <<>> /\ client'.cookie = NoCookie
  BY DEF NewListing, Start
<1>3. CookieEpochs \in Nat /\ CookieEpochs > 0 /\ Cardinality(Names) \in Nat
  BY ReadDirAssumption, FS_CardinalityType
<1> QED
  BY <1>1, <1>2, <1>3, EmptySeq DEF TInv, NoCookie, Injective

(* One case for each action.                                                 *)
LEMMA StepTyped == TInv /\ [Next]_vars => TInv'
<1> SUFFICES ASSUME TInv, [Next]_vars PROVE TInv'
  OBVIOUS
<1>1. CASE UNCHANGED vars \/ LOOKUP
  <2>1. IInv'
    BY StepKeeps DEF TInv
  <2>2. UNCHANGED <<coll, rcookie, client, page, present, unseen, quiet, changes>>
    BY <1>1 DEF vars, LOOKUP
  <2> QED
    BY <2>1, <2>2 DEF TInv, Injective
<1>2. CASE READDIR
  BY <1>2, PageTyped DEF READDIR
<1> QED
  BY <1>1, <1>2, NewListingTyped, ChangeTyped DEF Next

(* A directory lists no name twice, whatever is added, removed and renamed,  *)
(* and the cookie read_dir gives out (readdir.c) never points behind the end *)
(* of what the directory can hold; its upper half is an epoch that fits.     *)
THEOREM TypeCorrect == Spec => []TypeOK
<1>1. TInv /\ stale \in BOOLEAN => TypeOK
  <2> SUFFICES ASSUME TInv, stale \in BOOLEAN PROVE TypeOK
    OBVIOUS
  <2>1. /\ coll \in Seq(Names) /\ page \in Seq(Names) /\ Injective(coll)
        /\ client.cookie \in [upper : Nat, pos : Nat]
    BY DEF TInv, IInv, Types
  <2>2. Elements(coll) \subseteq Names /\ Cardinality(Elements(coll)) = Len(coll) /\ Elements(page) \subseteq Names
    BY <2>1, Counted
  <2>3. client.cookie.pos \in 0..Cardinality(Names)
    BY <2>1, ReadDirAssumption, FS_CardinalityType DEF TInv
  <2> QED
    BY <2>1, <2>2, <2>3 DEF TypeOK, TInv
<1>2. Init => stale \in BOOLEAN
  BY DEF Init
<1>3. stale \in BOOLEAN /\ [Next]_vars => (stale \in BOOLEAN)'
  BY DEF Next, vars, READDIR, PageOf, LOOKUP, NewListing, Add, Remove, Rename, RemoveUnseen, Change
<1> QED
  BY <1>1, <1>2, <1>3, InitTyped, StepTyped, PTL DEF Spec
=============================================================================
