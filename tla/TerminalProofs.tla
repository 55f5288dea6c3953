--------------------------- MODULE TerminalProofs ---------------------------
(* Theorems about Terminal, for every set of rooms, every scene and every   *)
(* bound.                                                                   *)
EXTENDS Terminal, SequenceTheorems, FunctionTheorems, FiniteSetTheorems, WellFoundedInduction,
        TLAPS

(***************************************************************************)
(* Sequences, element by element.                                          *)
(***************************************************************************)

LEMMA SeqElements ==
    ASSUME NEW S, NEW s \in Seq(S)
    PROVE  /\ Len(s) \in Nat /\ DOMAIN s = 1..Len(s)
           /\ \A k \in 1..Len(s) : s[k] \in S
OBVIOUS

LEMMA SeqAppend ==
    ASSUME NEW S, NEW s \in Seq(S), NEW e \in S
    PROVE  /\ Append(s, e) \in Seq(S) /\ Len(Append(s, e)) = Len(s) + 1
           /\ DOMAIN Append(s, e) = 1..(Len(s) + 1)
           /\ \A k \in 1..Len(s) : Append(s, e)[k] = s[k]
           /\ Append(s, e)[Len(s) + 1] = e
OBVIOUS

LEMMA SeqTail ==
    ASSUME NEW S, NEW s \in Seq(S), s # <<>>
    PROVE  /\ Tail(s) \in Seq(S) /\ Len(Tail(s)) = Len(s) - 1 /\ Len(s) \in Nat \ {0}
           /\ DOMAIN Tail(s) = 1..(Len(s) - 1) /\ Head(s) = s[1] /\ Head(s) \in S
           /\ \A k \in 1..(Len(s) - 1) : Tail(s)[k] = s[k + 1]
OBVIOUS

LEMMA SeqUpdate ==
    ASSUME NEW S, NEW s \in Seq(S), NEW k \in DOMAIN s, NEW e \in S
    PROVE  /\ [s EXCEPT ![k] = e] \in Seq(S) /\ Len([s EXCEPT ![k] = e]) = Len(s)
           /\ DOMAIN [s EXCEPT ![k] = e] = DOMAIN s
           /\ \A j \in DOMAIN s : [s EXCEPT ![k] = e][j] = IF j = k THEN e ELSE s[j]
OBVIOUS

LEMMA SeqRemove ==
    ASSUME NEW S, NEW s \in Seq(S), NEW k \in DOMAIN s
    PROVE  /\ RemoveAt(s, k) \in Seq(S) /\ Len(RemoveAt(s, k)) = Len(s) - 1
           /\ Len(s) \in Nat \ {0} /\ k \in 1..Len(s)
           /\ DOMAIN RemoveAt(s, k) = 1..(Len(s) - 1)
           /\ \A j \in 1..(Len(s) - 1) : RemoveAt(s, k)[j] = IF j < k THEN s[j] ELSE s[j + 1]
<1>. DEFINE a == SubSeq(s, 1, k - 1)
            b == SubSeq(s, k + 1, Len(s))
<1>1. Len(s) \in Nat /\ DOMAIN s = 1..Len(s) /\ k \in 1..Len(s)
  OBVIOUS
<1>2. a \in Seq(S) /\ Len(a) = k - 1 /\ \A j \in 1..(k - 1) : a[j] = s[j]
  BY <1>1
<1>3. b \in Seq(S) /\ Len(b) = Len(s) - k /\ \A j \in 1..(Len(s) - k) : b[j] = s[k + j]
  BY <1>1
<1>4. RemoveAt(s, k) = a \o b
  BY DEF RemoveAt
<1>. HIDE DEF a, b
<1>5. /\ a \o b \in Seq(S) /\ Len(a \o b) = Len(a) + Len(b)
      /\ \A j \in 1..(Len(a) + Len(b)) :
            (a \o b)[j] = IF j <= Len(a) THEN a[j] ELSE b[j - Len(a)]
  BY <1>2, <1>3, ConcatProperties
<1>6. Len(a) + Len(b) = Len(s) - 1 /\ Len(s) - 1 \in Nat
  BY <1>1, <1>2, <1>3
<1>7. ASSUME NEW j \in 1..(Len(s) - 1) PROVE (a \o b)[j] = IF j < k THEN s[j] ELSE s[j + 1]
  <2>1. CASE j < k
    <3>1. j \in 1..(k - 1) /\ j <= Len(a)
      BY <1>1, <1>2, <2>1
    <3>. QED
      BY <1>2, <1>5, <1>6, <2>1, <3>1
  <2>2. CASE ~(j < k)
    <3>1. /\ j - Len(a) \in 1..(Len(s) - k) /\ k + (j - Len(a)) = j + 1 /\ ~(j <= Len(a))
      BY <1>1, <1>2, <2>2
    <3>. QED
      BY <1>3, <1>5, <1>6, <2>2, <3>1
  <2>. QED
    BY <2>1, <2>2
<1>8. DOMAIN (a \o b) = 1..(Len(s) - 1)
  BY <1>5, <1>6
<1>9. \A j \in 1..(Len(s) - 1) : RemoveAt(s, k)[j] = IF j < k THEN s[j] ELSE s[j + 1]
  BY <1>4, <1>7
<1>10. RemoveAt(s, k) \in Seq(S) /\ Len(RemoveAt(s, k)) = Len(s) - 1 /\ DOMAIN RemoveAt(s, k) = 1..(Len(s) - 1)
  BY <1>4, <1>5, <1>6, <1>8
<1>. QED
  BY <1>1, <1>6, <1>9, <1>10

(***************************************************************************)
(* Counting.                                                               *)
(***************************************************************************)

(* Numbers of a finite set are counted off in their order.                  *)
UpTo(K, j) == {l \in K : l <= j}
Rank(K, j) == Cardinality(UpTo(K, j))

LEMMA Least ==
    ASSUME NEW T \in SUBSET Nat, T # {}
    PROVE  \E t \in T : \A u \in T : t <= u
<1>. DEFINE R == OpToRel(<, Nat)
<1>1. IsWellFoundedOn(R, Nat)
  BY NatLessThanWellFounded
<1>2. PICK t \in T : \A u \in T : ~(<<u, t>> \in R)
  <2>. HIDE DEF R
  <2>. QED
    BY <1>1, WFMin
<1>3. ASSUME NEW u \in T PROVE t <= u
  <2>1. u \in Nat /\ t \in Nat /\ <<u, t>> \in Nat \X Nat
    OBVIOUS
  <2>2. ~(<<u, t>> \in R)
    BY <1>2
  <2>3. ~(u < t)
    BY <2>1, <2>2 DEF OpToRel
  <2>. QED
    BY <2>1, <2>3
<1>. QED
  BY <1>3

LEMMA RankStep ==
    ASSUME NEW n \in Nat, NEW K \in SUBSET (1..n)
    PROVE  /\ IsFiniteSet(K) /\ Cardinality(K) \in Nat
           /\ \A j \in 0..n : IsFiniteSet(UpTo(K, j)) /\ Rank(K, j) \in 0..Cardinality(K)
           /\ Rank(K, 0) = 0 /\ Rank(K, n) = Cardinality(K)
           /\ \A j \in 1..n : Rank(K, j) = IF j \in K THEN Rank(K, j - 1) + 1 ELSE Rank(K, j - 1)
<1>0. \A l \in K : l \in Nat /\ 1 <= l /\ l <= n
  OBVIOUS
<1>1. IsFiniteSet(K)
  <2>1. IsFiniteSet(1..n)
    BY FS_Interval
  <2>. QED
    BY <2>1, FS_Subset
<1>2. Cardinality(K) \in Nat
  BY <1>1, FS_CardinalityType
<1>3. ASSUME NEW j \in 0..n PROVE IsFiniteSet(UpTo(K, j)) /\ Rank(K, j) \in 0..Cardinality(K)
  <2>1. UpTo(K, j) \in SUBSET K
    BY DEF UpTo
  <2>2. IsFiniteSet(UpTo(K, j)) /\ Cardinality(UpTo(K, j)) <= Cardinality(K)
    BY <1>1, <2>1, FS_Subset
  <2>3. Cardinality(UpTo(K, j)) \in Nat
    BY <2>2, FS_CardinalityType
  <2>. QED
    BY <1>2, <2>2, <2>3 DEF Rank
<1>4. Rank(K, 0) = 0 /\ Rank(K, n) = Cardinality(K)
  <2>1. UpTo(K, 0) = {} /\ UpTo(K, n) = K
    <3>1. \A l \in K : ~(l <= 0) /\ l <= n
      BY <1>0
    <3>. QED
      BY Zenon, <3>1 DEF UpTo
  <2>. QED
    BY <2>1, FS_EmptySet DEF Rank
<1>5. ASSUME NEW j \in 1..n
      PROVE  Rank(K, j) = IF j \in K THEN Rank(K, j - 1) + 1 ELSE Rank(K, j - 1)
  <2>0. j - 1 \in 0..n /\ IsFiniteSet(UpTo(K, j - 1))
    BY <1>3
  <2>1. CASE j \in K
    <3>1. UpTo(K, j) = UpTo(K, j - 1) \cup {j} /\ j \notin UpTo(K, j - 1)
      <4>1. (\A l \in K : (l <= j) <=> (l <= j - 1 \/ l = j)) /\ ~(j <= j - 1)
        BY <1>0
      <4>. QED
        BY Zenon, <2>1, <4>1 DEF UpTo
    <3>. QED
      BY <2>0, <2>1, <3>1, FS_AddElement DEF Rank
  <2>2. CASE j \notin K
    <3>1. UpTo(K, j) = UpTo(K, j - 1)
      <4>1. \A l \in K : (l <= j) <=> (l <= j - 1)
        BY <1>0, <2>2
      <4>. QED
        BY Zenon, <4>1 DEF UpTo
    <3>. QED
      BY <2>2, <3>1 DEF Rank
  <2>. QED
    BY <2>1, <2>2
<1>. QED
  BY <1>1, <1>2, <1>3, <1>4, <1>5

LEMMA RankRises ==
    ASSUME NEW n \in Nat, NEW K \in SUBSET (1..n), NEW i \in K, NEW j \in K, i < j
    PROVE  Rank(K, i) < Rank(K, j)
<1>1. /\ i \in 0..n /\ j \in 1..n /\ j - 1 \in 0..n
      /\ IsFiniteSet(UpTo(K, i)) /\ IsFiniteSet(UpTo(K, j - 1))
      /\ Rank(K, j) = Rank(K, j - 1) + 1
      /\ Rank(K, i) \in 0..Cardinality(K) /\ Rank(K, j - 1) \in 0..Cardinality(K)
      /\ Cardinality(K) \in Nat
  BY RankStep
<1>2. UpTo(K, i) \in SUBSET UpTo(K, j - 1)
  <2>1. \A l \in K : l <= i => l <= j - 1
    <3>1. \A l \in K : l \in Nat
      OBVIOUS
    <3>. QED
      BY <3>1
  <2>. QED
    BY Zenon, <2>1 DEF UpTo
<1>3. Rank(K, i) <= Rank(K, j - 1)
  BY <1>1, <1>2, FS_Subset DEF Rank
<1>. QED
  BY <1>1, <1>3

LEMMA RankTaken ==
    ASSUME NEW n \in Nat, NEW K \in SUBSET (1..n), NEW k \in 1..Cardinality(K)
    PROVE  \E j \in K : Rank(K, j) = k
<1>0. /\ Cardinality(K) \in Nat /\ Rank(K, 0) = 0 /\ Rank(K, n) = Cardinality(K)
      /\ \A j \in 0..n : Rank(K, j) \in 0..Cardinality(K)
      /\ \A j \in 1..n : Rank(K, j) = IF j \in K THEN Rank(K, j - 1) + 1 ELSE Rank(K, j - 1)
  BY RankStep
<1>. DEFINE T == {j \in 0..n : Rank(K, j) >= k}
<1>1. n \in T /\ T \in SUBSET Nat
  BY <1>0
<1>2. PICK j \in T : \A u \in T : j <= u
  <2>. HIDE DEF T
  <2>. QED
    BY <1>1, Least
<1>3. j \in 1..n /\ j - 1 \in 0..n
  BY <1>0, <1>2
<1>4. j - 1 \notin T
  BY <1>2, <1>3
<1>5. Rank(K, j - 1) < k /\ Rank(K, j) >= k
  BY <1>0, <1>2, <1>3, <1>4
<1>6. j \in K
  BY <1>0, <1>3, <1>5
<1>7. Rank(K, j) = Rank(K, j - 1) + 1 /\ Rank(K, j - 1) \in Nat
  BY <1>0, <1>3, <1>6
<1>. QED
  BY <1>0, <1>5, <1>6, <1>7

(***************************************************************************)
(* Types.                                                                  *)
(***************************************************************************)

LEMMA NamesKnown ==
    /\ \A r \in Rooms : \A k \in DOMAIN Life[r] :
          Life[r][k].what \in Whats /\ Life[r][k].turn \in Turns
    /\ Nothing \in Turns
<1>. DEFINE W(r) == {Life[r][k].what : k \in DOMAIN Life[r]}
            T(r) == {Life[r][k].turn : k \in DOMAIN Life[r]}
<1>1. \A r \in Rooms : \A k \in DOMAIN Life[r] : Life[r][k].what \in W(r) /\ Life[r][k].turn \in T(r)
  OBVIOUS
<1>2. Whats = UNION {W(r) : r \in Rooms} /\ Turns = {Nothing} \cup UNION {T(r) : r \in Rooms}
  BY DEF Whats, Turns
<1>. HIDE DEF W, T
<1>3. \A r \in Rooms : W(r) \subseteq Whats /\ T(r) \subseteq Turns
  BY <1>2
<1>4. Nothing \in Turns
  BY <1>2
<1>5. ASSUME NEW r \in Rooms, NEW k \in DOMAIN Life[r]
      PROVE  Life[r][k].what \in Whats /\ Life[r][k].turn \in Turns
  BY <1>1, <1>3
<1>. QED
  BY <1>4, <1>5

(* A room's life is a sequence of entries, whose names are names of things. *)
LEMMA LifeTypes ==
    ASSUME RoomTypes, NEW r \in Rooms
    PROVE  /\ IsLife(Life[r]) /\ Life[r] \in Seq(ToSet(Life[r]))
           /\ Len(Life[r]) \in Nat /\ DOMAIN Life[r] = 1..Len(Life[r])
           /\ \A k \in DOMAIN Life[r] : /\ Life[r][k] \in Entries(r) /\ Life[r][k].kind \in Kinds
                                        /\ Life[r][k].what \in Whats /\ Life[r][k].turn \in Turns
<1>1. IsLife(Life[r])
  BY TerminalAssumption DEF RoomTypes, Life
<1>2. Life[r] \in Seq(ToSet(Life[r])) /\ \A k \in DOMAIN Life[r] : Life[r][k].kind \in Kinds
  BY <1>1 DEF IsLife
<1>3. Len(Life[r]) \in Nat /\ DOMAIN Life[r] = 1..Len(Life[r])
  BY <1>2, SeqElements
<1>4. ASSUME NEW k \in DOMAIN Life[r]
      PROVE  Life[r][k] \in Entries(r) /\ Life[r][k].what \in Whats /\ Life[r][k].turn \in Turns
  <2>1. Life[r][k] \in ToSet(Life[r])
    BY <1>2, <1>3, SeqElements
  <2>. QED
    BY <2>1, NamesKnown DEF Entries
<1>. QED
  BY <1>1, <1>2, <1>3, <1>4

LEMMA EntryTypes ==
    ASSUME RoomTypes, NEW r \in Rooms, NEW e \in Entries(r)
    PROVE  e.what \in Whats /\ e.turn \in Turns
<1>1. CASE e \in ToSet(Life[r])
  <2>1. PICK k \in DOMAIN Life[r] : e = Life[r][k]
    BY <1>1 DEF ToSet
  <2>. QED
    BY <2>1, LifeTypes
<1>2. CASE \E i \in Whats : e = Answer(i)
  BY <1>2, NamesKnown DEF Answer
<1>. QED
  BY <1>1, <1>2 DEF Entries

LEMMA LogTypes ==
    ASSUME RoomTypes, NEW r \in Rooms
    PROVE  /\ Len(log[r]) \in Nat /\ DOMAIN log[r] = 1..Len(log[r])
           /\ \A k \in DOMAIN log[r] : log[r][k] \in Entries(r)
BY SeqElements DEF RoomTypes

(* The scene stays, and all that is defined by it.                          *)
LEMMA SameScene ==
    ASSUME scene' = scene
    PROVE  /\ Life' = Life /\ Whats' = Whats /\ Turns' = Turns
           /\ \A r \in Rooms : Entries(r)' = Entries(r)
           /\ Tasks' = Tasks /\ Messages' = Messages /\ Calls' = Calls /\ Blocks' = Blocks
           /\ Screens' = Screens
<1>1. Life' = Life
  BY DEF Life
<1>2. Whats' = Whats /\ Turns' = Turns
  BY <1>1 DEF Whats, Turns
<1>. QED
  BY <1>1, <1>2 DEF Entries, Tasks, Messages, Calls, Blocks, Screens

(* What the broker lists of a room are the requests that wait there.        *)
LEMMA ListedTypes ==
    ASSUME RoomTypes, NEW r \in Rooms
    PROVE  /\ Listed(r) \in Seq(Whats)
           /\ \A k \in DOMAIN Life[r] : Waits(r, k) => Life[r][k].what \in ToSet(Listed(r))
<1>. DEFINE K == {k \in DOMAIN Life[r] : Waits(r, k)}
            nth(n) == CHOOSE k \in K : Cardinality({j \in K : j <= k}) = n
            N == Cardinality(K)
            n == Len(Life[r])
            F(m) == Life[r][nth(m)].what
<1>0. n \in Nat /\ K \in SUBSET (1..n)
  BY LifeTypes
<1>1. \A m : nth(m) = CHOOSE k \in K : Rank(K, k) = m
  BY DEF Rank, UpTo
<1>2. Listed(r) = [m \in 1..N |-> F(m)]
  BY DEF Listed
<1>3. \A k \in K : k \in DOMAIN Life[r]
  OBVIOUS
<1>. HIDE DEF K, nth, N, n
<1>4. N \in Nat
  BY <1>0, RankStep DEF N
<1>5. ASSUME NEW m \in 1..N PROVE nth(m) \in K /\ Rank(K, nth(m)) = m
  <2>1. \E k \in K : Rank(K, k) = m
    BY <1>0, RankTaken DEF N
  <2>. QED
    BY <1>1, <2>1
<1>6. \A m \in 1..N : F(m) \in Whats
  BY <1>3, <1>5, LifeTypes
<1>7. ASSUME NEW k \in K PROVE Life[r][k].what \in ToSet(Listed(r))
  <2>0. /\ k \in 0..n /\ k \in 1..n /\ k \in Nat /\ k - 1 \in 0..n
    BY <1>0
  <2>1. Rank(K, k) = Rank(K, k - 1) + 1 /\ Rank(K, k) \in 0..N /\ Rank(K, k - 1) \in 0..N
    <3>1. /\ \A j \in 0..n : Rank(K, j) \in 0..N
          /\ \A j \in 1..n : Rank(K, j) = IF j \in K THEN Rank(K, j - 1) + 1 ELSE Rank(K, j - 1)
      BY <1>0, RankStep DEF N
    <3>. QED
      BY <2>0, <3>1
  <2>2. Rank(K, k) \in 1..N
    BY <1>4, <2>1
  <2>. DEFINE l == nth(Rank(K, k))
  <2>3. l \in K /\ Rank(K, l) = Rank(K, k)
    BY <1>5, <2>2
  <2>. HIDE DEF l
  <2>4. ~(l < k) /\ ~(k < l) /\ l \in Nat
    <3>1. l < k => Rank(K, l) < Rank(K, k)
      BY <1>0, <2>3, RankRises
    <3>2. k < l => Rank(K, k) < Rank(K, l)
      BY <1>0, <2>3, RankRises
    <3>3. l \in Nat
      BY <1>0, <2>3
    <3>. QED
      BY <1>4, <2>1, <2>3, <3>1, <3>2, <3>3
  <2>5. l = k
    BY <2>0, <2>4
  <2>6. Listed(r)[Rank(K, k)] = Life[r][k].what /\ Rank(K, k) \in DOMAIN Listed(r)
    BY <1>2, <2>2, <2>5 DEF l
  <2>. QED
    BY <2>6 DEF ToSet
<1>8. Listed(r) \in Seq(Whats)
  <2>. HIDE DEF F
  <2>. QED
    BY <1>2, <1>4, <1>6
<1>. QED
  BY <1>7, <1>8 DEF K

(* An event is put at the end of a room's log: the rest stays.              *)
Grows ==
    \A r \in Rooms : \A j \in DOMAIN log[r] : j \in DOMAIN log'[r] /\ log'[r][j] = log[r][j]

LEMMA LogGrows ==
    ASSUME RoomTypes, NEW r \in Rooms, NEW e \in Entries(r),
           log' = [log EXCEPT ![r] = Append(@, e)]
    PROVE  /\ DOMAIN log' = Rooms /\ \A q \in Rooms : log'[q] \in Seq(Entries(q))
           /\ Grows
           /\ Len(log'[r]) = Len(log[r]) + 1 /\ log'[r][Len(log[r]) + 1] = e
           /\ \A q \in Rooms : q # r => log'[q] = log[q]
<1>1. log'[r] = Append(log[r], e) /\ \A q \in Rooms : q # r => log'[q] = log[q]
  BY DEF RoomTypes
<1>2. DOMAIN log' = Rooms
  BY DEF RoomTypes
<1>3. /\ log'[r] \in Seq(Entries(r)) /\ Len(log'[r]) = Len(log[r]) + 1
      /\ log'[r][Len(log[r]) + 1] = e
      /\ \A j \in DOMAIN log[r] : j \in DOMAIN log'[r] /\ log'[r][j] = log[r][j]
  <2>1. log[r] \in Seq(Entries(r))
    BY DEF RoomTypes
  <2>2. /\ Len(log[r]) \in Nat /\ DOMAIN log[r] = 1..Len(log[r])
        /\ DOMAIN log'[r] = 1..(Len(log[r]) + 1)
        /\ log'[r] \in Seq(Entries(r)) /\ Len(log'[r]) = Len(log[r]) + 1
        /\ \A j \in 1..Len(log[r]) : log'[r][j] = log[r][j]
        /\ log'[r][Len(log[r]) + 1] = e
    BY <1>1, <2>1, SeqElements, SeqAppend
  <2>. QED
    BY <2>2
<1>4. \A q \in Rooms : log'[q] \in Seq(Entries(q))
  BY <1>1, <1>3 DEF RoomTypes
<1>. QED
  BY <1>1, <1>2, <1>3, <1>4 DEF Grows

LEMMA GrowsMore ==
    ASSUME RoomTypes, RoomTypes', Grows
    PROVE  \A r \in Rooms : /\ Len(log[r]) \in Nat /\ Len(log'[r]) \in Nat
                            /\ Len(log[r]) <= Len(log'[r])
<1>. TAKE r \in Rooms
<1>1. /\ Len(log[r]) \in Nat /\ DOMAIN log[r] = 1..Len(log[r])
      /\ Len(log'[r]) \in Nat /\ DOMAIN log'[r] = 1..Len(log'[r])
  BY SeqElements DEF RoomTypes
<1>2. CASE Len(log[r]) = 0
  BY <1>1, <1>2
<1>3. CASE Len(log[r]) # 0
  <2>1. Len(log[r]) \in DOMAIN log[r]
    BY <1>1, <1>3
  <2>2. Len(log[r]) \in DOMAIN log'[r]
    BY <2>1 DEF Grows
  <2>. QED
    BY <1>1, <2>2
<1>. QED
  BY <1>1, <1>2, <1>3

(* What comes next to a log is an entry of the room's life.                 *)
LEMMA NextEntry ==
    ASSUME RoomTypes, NEW r \in Rooms, Lived(r) < Len(Life[r])
    PROVE  /\ Lived(r) \in Nat /\ Lived(r) + 1 \in DOMAIN Life[r]
           /\ Next1(r) \in Entries(r) /\ Next1(r).kind \in Kinds
           /\ Next1(r).what \in Whats /\ Next1(r).turn \in Turns
<1>1. Lived(r) \in Nat
  <2>1. Len(log[r]) \in Nat /\ {k \in DOMAIN log[r] : log[r][k].kind # "resolved"} \in SUBSET (1..Len(log[r]))
    BY LogTypes
  <2>. QED
    BY <2>1, RankStep DEF Lived
<1>2. Lived(r) + 1 \in DOMAIN Life[r]
  BY <1>1, LifeTypes
<1>. QED
  BY <1>1, <1>2, LifeTypes DEF Next1

LEMMA RoomInit == Init => RoomTypes
<1>. SUFFICES ASSUME Init PROVE RoomTypes
  OBVIOUS
<1>1. scene \in Scenes /\ scene.first \subseteq Rooms /\ scene.before \in Nat
  BY TerminalAssumption DEF Init
<1>2. ASSUME NEW r \in Rooms PROVE SubSeq(Life[r], 1, Already(r)) \in Seq(Entries(r))
  <2>1. IsLife(Life[r])
    BY <1>1, TerminalAssumption DEF Life
  <2>2. Life[r] \in Seq(ToSet(Life[r])) /\ ToSet(Life[r]) \subseteq Entries(r)
    BY <2>1 DEF IsLife, Entries
  <2>3. Life[r] \in Seq(Entries(r))
    BY <2>2
  <2>4. Already(r) \in Nat /\ Already(r) <= Len(Life[r])
    BY <1>1, <2>3 DEF Already
  <2>. QED
    BY <2>3, <2>4
<1>. QED
  BY <1>1, <1>2 DEF Init, RoomTypes

LEMMA RoomNext ==
    ASSUME TypeOK, [Next]_vars
    PROVE  RoomTypes' /\ scene' = scene /\ Grows
<1>. USE DEF TypeOK
<1>0. RoomTypes
  OBVIOUS
<1>1. ASSUME scene' = scene, DOMAIN log' = Rooms, \A r \in Rooms : log'[r] \in Seq(Entries(r)), Grows,
             waiting' \in [Rooms -> SUBSET Whats], made' \subseteq Rooms,
             answered' \subseteq [what : Whats, room : Rooms]
      PROVE  RoomTypes' /\ scene' = scene /\ Grows
  BY <1>0, <1>1, SameScene DEF RoomTypes
<1>2. ASSUME log' = log
      PROVE  DOMAIN log' = Rooms /\ (\A r \in Rooms : log'[r] \in Seq(Entries(r))) /\ Grows
  BY <1>0, <1>2 DEF RoomTypes, Grows
<1>3. ASSUME UNCHANGED <<log, waiting, answered, scene>>, made' \subseteq Rooms
      PROVE  RoomTypes' /\ scene' = scene /\ Grows
  BY <1>0, <1>1, <1>2, <1>3 DEF RoomTypes
<1>4. ASSUME NEW r \in Rooms, Asks(r) PROVE RoomTypes' /\ scene' = scene /\ Grows
  <2>1. waiting' = [waiting EXCEPT ![r] = @ \cup {Next1(r).what}] /\ Next1(r).what \in Whats
    BY <1>0, <1>4, NextEntry DEF Asks
  <2>2. waiting' \in [Rooms -> SUBSET Whats]
    BY <1>0, <2>1 DEF RoomTypes
  <2>. QED
    BY <1>0, <1>1, <1>2, <1>4, <2>2 DEF Asks, RoomTypes
<1>5. ASSUME NEW r \in Rooms, Happens(r) PROVE RoomTypes' /\ scene' = scene /\ Grows
  <2>1. /\ log' = [log EXCEPT ![r] = Append(@, Next1(r))] /\ Next1(r) \in Entries(r)
        /\ UNCHANGED <<made, answered, scene>>
    BY <1>0, <1>5, NextEntry DEF Happens
  <2>2. waiting' \in [Rooms -> SUBSET Whats]
    BY <1>0, <1>5 DEF Happens, RoomTypes
  <2>. QED
    BY <1>0, <1>1, <2>1, <2>2, LogGrows DEF RoomTypes
<1>6. ASSUME NEW c \in calls, Resolves(c) PROVE RoomTypes' /\ scene' = scene /\ Grows
  <2>1. c.room \in Rooms /\ c.what \in Whats
    BY DEF CallTypes, Calls
  <2>2. waiting' \in [Rooms -> SUBSET Whats]
    BY <1>0, <1>6, <2>1 DEF Resolves, RoomTypes
  <2>3. answered' \subseteq [what : Whats, room : Rooms]
    BY <1>0, <1>6, <2>1 DEF Resolves, RoomTypes
  <2>. QED
    BY <1>0, <1>1, <1>2, <1>6, <2>2, <2>3 DEF Resolves, RoomTypes
<1>7. ASSUME NEW c \in calls, Records(c) PROVE RoomTypes' /\ scene' = scene /\ Grows
  <2>1. c.room \in Rooms /\ Answer(c.what) \in Entries(c.room)
    BY DEF CallTypes, Calls, Entries
  <2>2. log' = [log EXCEPT ![c.room] = Append(@, Answer(c.what))] /\ UNCHANGED <<waiting, made, answered, scene>>
    BY <1>7 DEF Records
  <2>. QED
    BY <1>0, <1>1, <2>1, <2>2, LogGrows DEF RoomTypes
<1>8. ASSUME NEW k \in DOMAIN tasks, Reads(k) PROVE RoomTypes' /\ scene' = scene /\ Grows
  BY <1>0, <1>3, <1>8 DEF Reads, RoomTypes
<1>9. ASSUME UNCHANGED server PROVE RoomTypes' /\ scene' = scene /\ Grows
  BY <1>0, <1>3, <1>9 DEF server, RoomTypes
<1>10. ASSUME NEW r \in Rooms, ApproveLooks(r) \/ Enter(r) PROVE UNCHANGED server
  BY <1>10 DEF ApproveLooks, Enter, Key
<1>11. ASSUME NEW s \in DOMAIN followers, FollowerStep(s) PROVE UNCHANGED server
  BY <1>11 DEF FollowerStep, Connects, Delivers, Breaks
<1>12. ASSUME NEW k \in DOMAIN tasks, Passes(k) \/ Fails(k) PROVE UNCHANGED server
  BY <1>12 DEF Passes, Fails
<1>13. ASSUME NEW c \in calls, Refused(c) \/ CallFails(c) PROVE UNCHANGED server
  BY <1>13 DEF Refused, CallFails
<1>14. ASSUME NewRoom \/ Open \/ Leave \/ Resolve \/ Dismiss \/ Approve \/ ApprovePosts PROVE UNCHANGED server
  BY <1>14 DEF NewRoom, Open, Leave, Resolve, Dismiss, Approve, ApprovePosts, Key
<1>15. ASSUME Handles PROVE UNCHANGED server
  BY <1>15 DEF Handles
<1>16. CASE UNCHANGED vars
  BY <1>9, <1>16 DEF vars
<1>. QED
  BY <1>4, <1>5, <1>6, <1>7, <1>8, <1>9, <1>10, <1>11, <1>12, <1>13, <1>14, <1>15, <1>16
     DEF Next, Keys, TaskStep, CallStep

(* A visit's follower keeps its room, and its number.                       *)
FollowersStay ==
    \A s \in DOMAIN followers : s \in DOMAIN followers' /\ followers'[s].room = followers[s].room

LEMMA VisitTypes ==
    ASSUME TypeOK
    PROVE  /\ Len(followers) \in Nat /\ DOMAIN followers = 1..Len(followers)
           /\ \A s \in DOMAIN followers :
                 /\ followers[s] \in Visits /\ followers[s].room \in Rooms /\ followers[s].since \in Nat
                 /\ followers[s].since <= Len(log[followers[s].room])
                 /\ Len(log[followers[s].room]) \in Nat
<1>1. followers \in Seq(Visits) /\ RoomTypes
  BY DEF TypeOK, FollowerTypes
<1>2. /\ Len(followers) \in Nat /\ DOMAIN followers = 1..Len(followers)
      /\ \A s \in DOMAIN followers : followers[s] \in Visits
  BY <1>1, SeqElements
<1>3. \A s \in DOMAIN followers : followers[s].room \in Rooms /\ followers[s].since \in Nat
  BY <1>2 DEF Visits
<1>. QED
  BY <1>1, <1>2, <1>3, LogTypes DEF TypeOK, FollowerTypes

LEMMA VisitSet ==
    ASSUME NEW f \in Visits, NEW n \in Nat, NEW at \in {"off", "on", "gone"}
    PROVE  /\ [f EXCEPT !.at = at] \in Visits /\ [f EXCEPT !.at = at].room = f.room
           /\ [f EXCEPT !.at = at].since = f.since
           /\ [f EXCEPT !.since = n] \in Visits /\ [f EXCEPT !.since = n].room = f.room
           /\ [f EXCEPT !.since = n].since = n
BY DEF Visits

(* One follower changes, or one is added.                                   *)
LEMMA FollowerSet ==
    ASSUME TypeOK, NEW x \in DOMAIN followers, NEW f \in Visits, f.room = followers[x].room,
           f.since <= Len(log[f.room]), UNCHANGED log,
           followers' = [followers EXCEPT ![x] = f]
    PROVE  FollowerTypes' /\ FollowersStay
<1>1. followers \in Seq(Visits)
  BY DEF TypeOK, FollowerTypes
<1>2. /\ followers' \in Seq(Visits) /\ DOMAIN followers' = DOMAIN followers
      /\ \A s \in DOMAIN followers : followers'[s] = IF s = x THEN f ELSE followers[s]
  BY <1>1, SeqUpdate
<1>3. \A s \in DOMAIN followers' : followers'[s].since <= Len(log[followers'[s].room])
  BY <1>2, VisitTypes
<1>4. Visits' = Visits
  BY DEF Visits
<1>. QED
  BY <1>2, <1>3, <1>4 DEF FollowerTypes, FollowersStay

LEMMA FollowerAdded ==
    ASSUME TypeOK, NEW r \in Rooms, UNCHANGED log,
           followers' = Append(followers, [room |-> r, since |-> 0, at |-> "off"])
    PROVE  FollowerTypes' /\ FollowersStay
<1>. DEFINE f == [room |-> r, since |-> 0, at |-> "off"]
<1>1. followers \in Seq(Visits) /\ f \in Visits /\ f.since = 0 /\ f.room \in Rooms
  BY DEF TypeOK, FollowerTypes, Visits
<1>. HIDE DEF f
<1>2. /\ Len(followers) \in Nat /\ DOMAIN followers = 1..Len(followers)
      /\ followers' \in Seq(Visits) /\ DOMAIN followers' = 1..(Len(followers) + 1)
      /\ \A s \in 1..Len(followers) : followers'[s] = followers[s]
      /\ followers'[Len(followers) + 1] = f
  BY <1>1, SeqElements, SeqAppend DEF f
<1>3. ASSUME NEW s \in DOMAIN followers' PROVE followers'[s].since <= Len(log[followers'[s].room])
  <2>1. CASE s \in 1..Len(followers)
    BY <1>2, <2>1, VisitTypes
  <2>2. CASE s = Len(followers) + 1
    <3>1. Len(log[f.room]) \in Nat
      BY <1>1, LogTypes DEF TypeOK
    <3>. QED
      BY <1>1, <1>2, <2>2, <3>1
  <2>. QED
    BY <1>2, <2>1, <2>2
<1>. QED
  BY <1>2, <1>3 DEF FollowerTypes, FollowersStay, Visits

LEMMA FollowersSame ==
    ASSUME TypeOK, RoomTypes', Grows, UNCHANGED followers
    PROVE  FollowerTypes' /\ FollowersStay
<1>1. \A s \in DOMAIN followers : followers[s].since <= Len(log'[followers[s].room])
  <2>1. \A r \in Rooms : Len(log[r]) \in Nat /\ Len(log'[r]) \in Nat /\ Len(log[r]) <= Len(log'[r])
    BY GrowsMore DEF TypeOK
  <2>. QED
    BY <2>1, VisitTypes
<1>. QED
  BY <1>1 DEF FollowerTypes, FollowersStay, TypeOK, Visits

LEMMA FollowerNext ==
    ASSUME TypeOK, [Next]_vars
    PROVE  FollowerTypes' /\ FollowersStay
<1>0. RoomTypes' /\ Grows
  BY RoomNext
<1>1. ASSUME NEW s \in DOMAIN followers, FollowerStep(s) PROVE FollowerTypes' /\ FollowersStay
  <2>0. followers[s] \in Visits /\ followers[s].since \in Nat /\ UNCHANGED log
        /\ followers[s].since <= Len(log[followers[s].room]) /\ Len(log[followers[s].room]) \in Nat
    BY <1>1, VisitTypes DEF FollowerStep, Connects, Delivers, Breaks, server
  <2>1. CASE Connects(s)
    <3>. DEFINE f == [followers[s] EXCEPT !.at = "on"]
    <3>1. followers' = [followers EXCEPT ![s] = f]
      BY <2>0, <2>1 DEF Connects
    <3>2. f \in Visits /\ f.room = followers[s].room /\ f.since = followers[s].since
      BY <2>0, VisitSet
    <3>. HIDE DEF f
    <3>. QED
      BY <2>0, <3>1, <3>2, FollowerSet
  <2>2. CASE Delivers(s)
    <3>. DEFINE f == [followers[s] EXCEPT !.since = followers[s].since + 1]
    <3>1. followers' = [followers EXCEPT ![s] = f] /\ followers[s].since + 1 <= Len(log[followers[s].room])
      BY <2>0, <2>2 DEF Delivers
    <3>2. f \in Visits /\ f.room = followers[s].room /\ f.since = followers[s].since + 1
      <4>1. followers[s].since + 1 \in Nat
        BY <2>0
      <4>. QED
        BY <2>0, <4>1, VisitSet
    <3>. HIDE DEF f
    <3>. QED
      BY <2>0, <3>1, <3>2, FollowerSet
  <2>3. CASE Breaks(s)
    <3>. DEFINE f == [followers[s] EXCEPT !.at = "off"]
    <3>1. followers' = [followers EXCEPT ![s] = f]
      BY <2>0, <2>3 DEF Breaks
    <3>2. f \in Visits /\ f.room = followers[s].room /\ f.since = followers[s].since
      BY <2>0, VisitSet
    <3>. HIDE DEF f
    <3>. QED
      BY <2>0, <3>1, <3>2, FollowerSet
  <2>. QED
    BY <1>1, <2>1, <2>2, <2>3 DEF FollowerStep
<1>2. ASSUME LeaveRoom, UNCHANGED log PROVE FollowerTypes' /\ FollowersStay
  <2>1. CASE screen.at = "room"
    <3>. DEFINE x == screen.stream
                g == [followers[x] EXCEPT !.at = "gone"]
                f == [g EXCEPT !.since = 0]
    <3>1. x \in DOMAIN followers /\ followers[x] \in Visits /\ Len(log[followers[x].room]) \in Nat
          /\ followers[x].room \in Rooms
      BY <2>1, VisitTypes DEF TypeOK, ScreenTypes, InRoom
    <3>2. followers' = [followers EXCEPT ![x] = f]
      BY <1>2, <2>1, <3>1 DEF LeaveRoom
    <3>3. g \in Visits /\ g.room = followers[x].room
      BY <3>1, VisitSet
    <3>4. f \in Visits /\ f.room = followers[x].room /\ f.since = 0
      <4>. HIDE DEF g
      <4>. QED
        BY <3>3, VisitSet
    <3>. HIDE DEF f, g
    <3>5. f.since <= Len(log[f.room])
      BY <3>1, <3>4
    <3>. QED
      BY <1>2, <3>1, <3>2, <3>4, <3>5, FollowerSet
  <2>2. CASE screen.at # "room"
    BY <1>0, <1>2, <2>2, FollowersSame DEF LeaveRoom
  <2>. QED
    BY <2>1, <2>2
<1>3. ASSUME NEW r \in Rooms, EnterRoom(r), UNCHANGED log PROVE FollowerTypes' /\ FollowersStay
  BY <1>3, FollowerAdded DEF EnterRoom
<1>4. ASSUME Handles PROVE FollowerTypes' /\ FollowersStay
  <2>1. Head(inbox) \in Messages /\ UNCHANGED log
    BY <1>4, SeqTail DEF Handles, server, TypeOK, InboxTypes
  <2>2. Head(inbox).room \in Rooms /\ Head(inbox).kind \in {"event", "load", "open"}
    BY <2>1 DEF Messages
  <2>3. UNCHANGED followers \/ EnterRoom(Head(inbox).room)
    BY <1>4, <2>2 DEF Handles
  <2>. QED
    BY <1>0, <1>3, <2>1, <2>2, <2>3, FollowersSame
<1>5. ASSUME NEW r \in Rooms, Enter(r) PROVE FollowerTypes' /\ FollowersStay
  BY <1>3, <1>5 DEF Enter, Key, server
<1>6. ASSUME Leave PROVE FollowerTypes' /\ FollowersStay
  BY <1>2, <1>6 DEF Leave, Key, server
<1>7. ASSUME UNCHANGED followers PROVE FollowerTypes' /\ FollowersStay
  BY <1>0, <1>7, FollowersSame
<1>8. ASSUME NEW r \in Rooms, Asks(r) \/ Happens(r) \/ ApproveLooks(r) PROVE UNCHANGED followers
  BY <1>8 DEF Asks, Happens, ApproveLooks
<1>9. ASSUME NEW k \in DOMAIN tasks, TaskStep(k) PROVE UNCHANGED followers
  BY <1>9 DEF TaskStep, Reads, Passes, Fails
<1>10. ASSUME NEW c \in calls, CallStep(c) PROVE UNCHANGED followers
  BY <1>10 DEF CallStep, Resolves, Refused, Records, CallFails
<1>11. ASSUME NewRoom \/ Open \/ Resolve \/ Dismiss \/ Approve \/ ApprovePosts \/ UNCHANGED vars
       PROVE  UNCHANGED followers
  BY <1>11 DEF NewRoom, Open, Resolve, Dismiss, Approve, ApprovePosts, Key, vars
<1>. QED
  BY <1>1, <1>4, <1>5, <1>6, <1>7, <1>8, <1>9, <1>10, <1>11 DEF Next, Keys

LEMMA SeqWithin ==
    ASSUME NEW S, NEW T, NEW s \in Seq(S), \A k \in DOMAIN s : s[k] \in T
    PROVE  s \in Seq(T)
OBVIOUS

(* The tasks there can be: what asks, and what it asks for.                 *)
GoodTasks == {t \in Tasks : t.kind = "load" \/ t.at = "told" => t.room \in Rooms}

LEMMA TasksGood == TaskTypes <=> tasks \in Seq(GoodTasks)
<1>1. ASSUME TaskTypes PROVE tasks \in Seq(GoodTasks)
  <2>1. tasks \in Seq(Tasks) /\ \A k \in DOMAIN tasks : tasks[k] \in Tasks
    BY <1>1, SeqElements DEF TaskTypes
  <2>2. \A k \in DOMAIN tasks : tasks[k] \in GoodTasks
    BY <1>1, <2>1 DEF TaskTypes, GoodTasks
  <2>. QED
    BY <2>1, <2>2, SeqWithin
<1>2. ASSUME tasks \in Seq(GoodTasks) PROVE TaskTypes
  <2>1. \A k \in DOMAIN tasks : tasks[k] \in GoodTasks
    BY <1>2, SeqElements
  <2>2. tasks \in Seq(Tasks)
    BY <1>2, <2>1, SeqWithin DEF GoodTasks
  <2>. QED
    BY <2>1, <2>2 DEF TaskTypes, GoodTasks
<1>. QED
  BY <1>1, <1>2

LEMMA TaskIsGood ==
    ASSUME NEW kind \in {"load", "open"}, NEW r \in Rooms \cup {Nothing}, kind = "load" => r \in Rooms
    PROVE  Task(kind, r) \in GoodTasks
<1>1. <<>> \in Seq(Whats)
  OBVIOUS
<1>. QED
  BY <1>1 DEF Task, GoodTasks, Tasks

LEMMA SpawnTypes ==
    ASSUME tasks \in Seq(GoodTasks), NEW kind \in {"load", "open"}, NEW r \in Rooms \cup {Nothing},
           kind = "load" => r \in Rooms, Spawn(kind, r)
    PROVE  tasks' \in Seq(GoodTasks)
BY TaskIsGood, SeqAppend DEF Spawn

(* What a task becomes when it is answered, and when it is late.            *)
LEMMA TaskMoves ==
    ASSUME NEW t \in GoodTasks, NEW r \in Rooms, NEW l \in Seq(Whats)
    PROVE  /\ [[t EXCEPT !.at = "told"] EXCEPT !.room = r] \in GoodTasks
           /\ t.kind = "load" => [[t EXCEPT !.at = "told"] EXCEPT !.list = l] \in GoodTasks
           /\ [t EXCEPT !.late = TRUE] \in GoodTasks
BY DEF GoodTasks, Tasks

LEMMA LatesGood ==
    ASSUME tasks \in Seq(GoodTasks), NEW k \in DOMAIN tasks
    PROVE  [j \in DOMAIN tasks |->
               IF j < k /\ tasks[k].kind = "load" THEN [tasks[j] EXCEPT !.late = TRUE]
               ELSE tasks[j]] \in Seq(GoodTasks)
<1>. DEFINE F(j) == IF j < k /\ tasks[k].kind = "load" THEN [tasks[j] EXCEPT !.late = TRUE] ELSE tasks[j]
<1>1. Len(tasks) \in Nat /\ DOMAIN tasks = 1..Len(tasks) /\ \A j \in 1..Len(tasks) : tasks[j] \in GoodTasks
  BY SeqElements
<1>2. \A j \in 1..Len(tasks) : F(j) \in GoodTasks
  <2>1. \A j \in 1..Len(tasks) : [tasks[j] EXCEPT !.late = TRUE] \in GoodTasks
    <3>1. ASSUME NEW t \in GoodTasks PROVE [t EXCEPT !.late = TRUE] \in GoodTasks
      BY DEF GoodTasks, Tasks
    <3>. QED
      BY <1>1, <3>1
  <2>. QED
    BY <1>1, <2>1
<1>. HIDE DEF F
<1>3. [j \in 1..Len(tasks) |-> F(j)] \in Seq(GoodTasks)
  BY <1>1, <1>2
<1>. QED
  BY <1>1, <1>3 DEF F

LEMMA TaskNext ==
    ASSUME TypeOK, [Next]_vars
    PROVE  TaskTypes'
<1>0. tasks \in Seq(GoodTasks) /\ RoomTypes
  BY TasksGood DEF TypeOK
<1>1. scene' = scene
  BY RoomNext
<1>2. ASSUME tasks' \in Seq(GoodTasks) PROVE TaskTypes'
  <2>1. (Seq(GoodTasks))' = Seq(GoodTasks)
    BY <1>1, SameScene DEF GoodTasks
  <2>2. TaskTypes' <=> (tasks \in Seq(GoodTasks))'
    BY TasksGood, PTL
  <2>. QED
    BY <1>2, <2>1, <2>2
<1>3. ASSUME NEW k \in DOMAIN tasks, Reads(k) PROVE tasks' \in Seq(GoodTasks)
  <2>0. tasks[k] \in GoodTasks /\ tasks[k].kind \in {"load", "open"}
    BY <1>0, SeqElements DEF GoodTasks, Tasks
  <2>1. CASE tasks[k].kind = "open"
    <3>1. PICK r \in Rooms \ made : tasks' = [tasks EXCEPT ![k].at = "told", ![k].room = r]
      BY <1>3, <2>1 DEF Reads
    <3>. DEFINE t == [[tasks[k] EXCEPT !.at = "told"] EXCEPT !.room = r]
    <3>2. tasks' = [tasks EXCEPT ![k] = t]
      BY <3>1
    <3>3. t \in GoodTasks
      <4>1. <<>> \in Seq(Whats)
        OBVIOUS
      <4>. QED
        BY <2>0, <4>1, TaskMoves
    <3>. HIDE DEF t
    <3>. QED
      BY <1>0, <3>2, <3>3, SeqUpdate
  <2>2. CASE tasks[k].kind = "load"
    <3>1. tasks[k].room \in Rooms /\ Listed(tasks[k].room) \in Seq(Whats)
      BY <1>0, <2>0, <2>2, ListedTypes DEF GoodTasks
    <3>. DEFINE t == [[tasks[k] EXCEPT !.at = "told"] EXCEPT !.list = Listed(tasks[k].room)]
    <3>2. tasks' = [tasks EXCEPT ![k] = t]
      BY <1>3, <2>2 DEF Reads
    <3>3. t \in GoodTasks
      BY <2>0, <2>2, <3>1, TaskMoves
    <3>. HIDE DEF t
    <3>. QED
      BY <1>0, <3>2, <3>3, SeqUpdate
  <2>. QED
    BY <2>0, <2>1, <2>2
<1>4. ASSUME NEW k \in DOMAIN tasks, Passes(k) PROVE tasks' \in Seq(GoodTasks)
  <2>. DEFINE F == [j \in DOMAIN tasks |->
               IF j < k /\ tasks[k].kind = "load" THEN [tasks[j] EXCEPT !.late = TRUE]
               ELSE tasks[j]]
  <2>1. F \in Seq(GoodTasks) /\ k \in DOMAIN F
    BY <1>0, LatesGood
  <2>2. tasks' = RemoveAt(F, k)
    BY <1>4 DEF Passes
  <2>. HIDE DEF F
  <2>. QED
    BY <2>1, <2>2, SeqRemove
<1>5. ASSUME NEW k \in DOMAIN tasks, Fails(k) PROVE tasks' \in Seq(GoodTasks)
  BY <1>0, <1>5, SeqRemove DEF Fails
<1>6. ASSUME NEW r \in Rooms, EnterRoom(r) PROVE tasks' \in Seq(GoodTasks)
  BY <1>0, <1>6, SpawnTypes DEF EnterRoom
<1>7. ASSUME Handles PROVE tasks' \in Seq(GoodTasks)
  <2>0. Head(inbox) \in Messages
    BY <1>7, SeqTail DEF Handles, TypeOK, InboxTypes
  <2>1. Head(inbox).room \in Rooms /\ Head(inbox).kind \in {"event", "load", "open"}
    BY <2>0 DEF Messages
  <2>2. \/ UNCHANGED tasks
        \/ EnterRoom(Head(inbox).room)
        \/ screen.room = Head(inbox).room /\ Spawn("load", screen.room)
    BY <1>7, <2>1 DEF Handles, OnEvent
  <2>. QED
    BY <1>0, <1>6, <2>1, <2>2, SpawnTypes
<1>8. ASSUME Open PROVE tasks' \in Seq(GoodTasks)
  BY <1>0, <1>8, SpawnTypes DEF Open
<1>9. ASSUME NEW r \in Rooms, Asks(r) \/ Happens(r) \/ ApproveLooks(r) PROVE UNCHANGED tasks
  BY <1>9 DEF Asks, Happens, ApproveLooks
<1>10. ASSUME NEW s \in DOMAIN followers, FollowerStep(s) PROVE UNCHANGED tasks
  BY <1>10 DEF FollowerStep, Connects, Delivers, Breaks
<1>11. ASSUME NEW c \in calls, CallStep(c) PROVE UNCHANGED tasks
  BY <1>11 DEF CallStep, Resolves, Refused, Records, CallFails
<1>12. ASSUME NewRoom \/ Leave \/ Resolve \/ Dismiss \/ Approve \/ ApprovePosts \/ UNCHANGED vars
       PROVE  UNCHANGED tasks
  BY <1>12 DEF NewRoom, Leave, Resolve, Dismiss, Approve, ApprovePosts, Key, vars
<1>13. ASSUME UNCHANGED tasks PROVE tasks' \in Seq(GoodTasks)
  BY <1>0, <1>13
<1>14. ASSUME NEW r \in Rooms, Enter(r) PROVE tasks' \in Seq(GoodTasks)
  BY <1>6, <1>14 DEF Enter
<1>. QED
  BY <1>2, <1>3, <1>4, <1>5, <1>7, <1>8, <1>9, <1>10, <1>11, <1>12, <1>13, <1>14 DEF Next, Keys, TaskStep

(* A message stays what it is while logs grow and followers come.           *)
GoodMessages == {m \in Messages : IsMessage(m)}

LEMMA MessageTypes ==
    ASSUME TypeOK
    PROVE  inbox \in Seq(GoodMessages)
<1>1. inbox \in Seq(Messages) /\ \A p \in DOMAIN inbox : inbox[p] \in Messages
  BY SeqElements DEF TypeOK, InboxTypes
<1>2. \A p \in DOMAIN inbox : inbox[p] \in GoodMessages
  BY <1>1 DEF TypeOK, InboxTypes, GoodMessages
<1>. QED
  BY <1>1, <1>2, SeqWithin

LEMMA MessagesStay ==
    ASSUME TypeOK, scene' = scene, Grows, FollowersStay, inbox' \in Seq(GoodMessages)
    PROVE  InboxTypes'
<1>1. \A p \in DOMAIN inbox' : inbox'[p] \in GoodMessages
  BY SeqElements
<1>2. inbox' \in Seq(Messages)
  BY <1>1, SeqWithin DEF GoodMessages
<1>3. Messages' = Messages
  BY SameScene
<1>4. ASSUME NEW p \in DOMAIN inbox' PROVE IsMessage(inbox[p])'
  <2>1. inbox'[p] \in Messages /\ IsMessage(inbox'[p]) /\ inbox'[p].room \in Rooms
    BY <1>1 DEF GoodMessages, Messages
  <2>. QED
    BY <2>1 DEF IsMessage, Grows, FollowersStay
<1>. QED
  BY <1>2, <1>3, <1>4 DEF InboxTypes

LEMMA InboxNext ==
    ASSUME TypeOK, [Next]_vars
    PROVE  InboxTypes'
<1>0. inbox \in Seq(GoodMessages) /\ tasks \in Seq(GoodTasks)
  BY MessageTypes, TasksGood DEF TypeOK
<1>1. scene' = scene /\ Grows /\ FollowersStay
  BY RoomNext, FollowerNext
<1>2. ASSUME inbox' \in Seq(GoodMessages) PROVE InboxTypes'
  BY <1>1, <1>2, MessagesStay
<1>3. ASSUME NEW s \in DOMAIN followers, Delivers(s) PROVE inbox' \in Seq(GoodMessages)
  <2>. DEFINE r == followers[s].room
              n == followers[s].since
              m == [kind |-> "event", room |-> r, seq |-> n + 1, from |-> s, list |-> <<>>,
                    late |-> FALSE]
  <2>1. inbox' = Append(inbox, m) /\ n < Len(log[r])
    BY <1>3 DEF Delivers, Says
  <2>2. r \in Rooms /\ n \in Nat /\ s \in Nat /\ Len(log[r]) \in Nat /\ DOMAIN log[r] = 1..Len(log[r])
    BY VisitTypes, LogTypes DEF TypeOK
  <2>3. n + 1 \in DOMAIN log[r] /\ n + 1 \in Nat
    BY <2>1, <2>2
  <2>4. <<>> \in Seq(Whats)
    OBVIOUS
  <2>5. m \in Messages
    <3>. HIDE DEF r, n
    <3>. QED
      BY <2>2, <2>3, <2>4 DEF Messages
  <2>6. IsMessage(m)
    BY <2>3 DEF IsMessage
  <2>7. m \in GoodMessages
    BY <2>5, <2>6 DEF GoodMessages
  <2>. HIDE DEF m
  <2>. QED
    BY <1>0, <2>1, <2>7, SeqAppend
<1>4. ASSUME NEW k \in DOMAIN tasks, Passes(k) PROVE inbox' \in Seq(GoodMessages)
  <2>. DEFINE m == [kind |-> tasks[k].kind, room |-> tasks[k].room, seq |-> 0, from |-> 0,
                    list |-> tasks[k].list, late |-> tasks[k].late]
  <2>1. inbox' = Append(inbox, m) /\ tasks[k].at = "told"
    BY <1>4 DEF Passes, Says
  <2>2. tasks[k] \in GoodTasks
    BY <1>0, SeqElements
  <2>3. m \in GoodMessages
    BY <2>1, <2>2 DEF GoodTasks, Tasks, GoodMessages, Messages, IsMessage
  <2>. HIDE DEF m
  <2>. QED
    BY <1>0, <2>1, <2>3, SeqAppend
<1>5. ASSUME Handles PROVE inbox' \in Seq(GoodMessages)
  BY <1>0, <1>5, SeqTail DEF Handles
<1>6. ASSUME UNCHANGED inbox PROVE inbox' \in Seq(GoodMessages)
  BY <1>0, <1>6
<1>7. ASSUME NEW r \in Rooms, Asks(r) \/ Happens(r) \/ ApproveLooks(r) \/ Enter(r) PROVE UNCHANGED inbox
  BY <1>7 DEF Asks, Happens, ApproveLooks, Enter, Key
<1>8. ASSUME NEW s \in DOMAIN followers, Connects(s) \/ Breaks(s) PROVE UNCHANGED inbox
  BY <1>8 DEF Connects, Breaks
<1>9. ASSUME NEW k \in DOMAIN tasks, Reads(k) \/ Fails(k) PROVE UNCHANGED inbox
  BY <1>9 DEF Reads, Fails
<1>10. ASSUME NEW c \in calls, CallStep(c) PROVE UNCHANGED inbox
  BY <1>10 DEF CallStep, Resolves, Refused, Records, CallFails
<1>11. ASSUME NewRoom \/ Open \/ Leave \/ Resolve \/ Dismiss \/ Approve \/ ApprovePosts \/ UNCHANGED vars
       PROVE  UNCHANGED inbox
  BY <1>11 DEF NewRoom, Open, Leave, Resolve, Dismiss, Approve, ApprovePosts, Key, vars
<1>. QED
  BY <1>2, <1>3, <1>4, <1>5, <1>6, <1>7, <1>8, <1>9, <1>10, <1>11 DEF Next, Keys, FollowerStep, TaskStep

(* What the view calls for, of the room on its screen.                      *)
LEMMA ScreenKnows ==
    ASSUME TypeOK
    PROVE  /\ screen.pending \in Seq(Whats) /\ screen.stream \in Nat
           /\ InRoom => screen.room \in Rooms
<1>1. screen.pending \in Seq(Whats) /\ screen.stream \in Nat
  BY DEF TypeOK, ScreenTypes, Screens
<1>2. ASSUME InRoom PROVE screen.room \in Rooms
  BY <1>2, VisitTypes DEF TypeOK, ScreenTypes
<1>. QED
  BY <1>1, <1>2

LEMMA CallNext ==
    ASSUME TypeOK, [Next]_vars
    PROVE  CallTypes'
<1>0. CallTypes /\ RoomTypes
  BY DEF TypeOK
<1>1. Calls' = Calls /\ Whats' = Whats
  BY RoomNext, SameScene
<1>2. ASSUME calls' \subseteq Calls, UNCHANGED approver, called' = called \/ called' = called + 1,
             faults' = faults \/ faults' = faults + 1, lost' \in BOOLEAN
      PROVE  CallTypes'
  BY <1>0, <1>1, <1>2 DEF CallTypes
<1>3. ASSUME NEW c \in calls, CallStep(c) PROVE CallTypes'
  <2>1. c \in Calls /\ [c EXCEPT !.at = "resolved"] \in Calls
    BY <1>0 DEF CallTypes, Calls
  <2>2. UNCHANGED <<approver, called>>
    BY <1>3 DEF CallStep, Resolves, Refused, Records, CallFails
  <2>3. calls' = calls \ {c} \/ calls' = (calls \ {c}) \cup {[c EXCEPT !.at = "resolved"]}
    BY <1>3 DEF CallStep, Resolves, Refused, Records, CallFails
  <2>4. UNCHANGED <<lost, faults>> \/ (lost' = TRUE /\ faults' = faults + 1)
    BY <1>3 DEF CallStep, Resolves, Refused, Records, CallFails
  <2>5. calls' \subseteq Calls
    BY <1>0, <2>1, <2>3 DEF CallTypes
  <2>. QED
    BY <1>0, <1>2, <2>2, <2>4, <2>5 DEF CallTypes
<1>4. ASSUME NEW r \in Rooms, ApproveLooks(r) PROVE CallTypes'
  <2>1. PICK i \in waiting[r] : approver' = [at |-> "looked", room |-> r, what |-> i]
    BY <1>4 DEF ApproveLooks
  <2>2. i \in Whats
    BY <1>0 DEF RoomTypes
  <2>. QED
    BY <1>0, <1>1, <1>4, <2>1, <2>2 DEF CallTypes, ApproveLooks
<1>5. ASSUME ApprovePosts PROVE CallTypes'
  <2>1. Call("approve", approver.room, approver.what) \in Calls
    BY <1>0, <1>5 DEF ApprovePosts, CallTypes, Call, Calls
  <2>2. calls' \subseteq Calls
    BY <1>0, <1>5, <2>1 DEF ApprovePosts, CallTypes
  <2>. QED
    BY <1>0, <1>1, <1>5, <2>2 DEF CallTypes, ApprovePosts
<1>6. ASSUME Resolve PROVE CallTypes'
  <2>1. screen.room \in Rooms /\ screen.pending[1] \in Whats
    <3>1. Len(screen.pending) \in Nat \ {0}
      BY <1>6, ScreenKnows, SeqTail DEF Resolve
    <3>. QED
      BY <1>6, <3>1, ScreenKnows, SeqElements DEF Resolve, InRoom
  <2>2. Call("view", screen.room, screen.pending[1]) \in Calls
    BY <2>1 DEF Call, Calls
  <2>3. calls' \subseteq Calls
    BY <1>0, <1>6, <2>2 DEF Resolve, CallTypes
  <2>. QED
    BY <1>0, <1>2, <1>6, <2>3 DEF Resolve, CallTypes
<1>7. ASSUME NEW s \in DOMAIN followers, FollowerStep(s) PROVE CallTypes'
  BY <1>0, <1>2, <1>7 DEF FollowerStep, Connects, Delivers, Breaks, CallTypes
<1>8. ASSUME NEW k \in DOMAIN tasks, TaskStep(k) PROVE CallTypes'
  BY <1>0, <1>2, <1>8 DEF TaskStep, Reads, Passes, Fails, CallTypes
<1>9. ASSUME UNCHANGED <<calls, approver, called, lost, faults>> PROVE CallTypes'
  BY <1>0, <1>2, <1>9 DEF CallTypes
<1>10. ASSUME NEW r \in Rooms, Asks(r) \/ Happens(r) \/ Enter(r)
       PROVE  UNCHANGED <<calls, approver, called, lost, faults>>
  BY <1>10 DEF Asks, Happens, Enter, Key
<1>11. ASSUME NewRoom \/ Open \/ Leave \/ Dismiss \/ Approve \/ Handles \/ UNCHANGED vars
       PROVE  UNCHANGED <<calls, approver, called, lost, faults>>
  BY <1>11 DEF NewRoom, Open, Leave, Dismiss, Approve, Handles, Key, vars
<1>. QED
  BY <1>3, <1>4, <1>5, <1>6, <1>7, <1>8, <1>9, <1>10, <1>11 DEF Next, Keys

(* One event, one step of what is shown; the rest of the screen stays.      *)
SameButShown(w, v) ==
    /\ w.at = v.at /\ w.room = v.room /\ w.stream = v.stream /\ w.pending = v.pending
    /\ w.prompt = v.prompt /\ w.mixed = v.mixed /\ w.stale = v.stale

LEMMA BelowIs ==
    ASSUME NEW v \in Screens, NEW voice \in {"agent", "person", "note"}, NEW turn \in Turns,
           NEW seq \in Nat
    PROVE  /\ Below(v, voice, turn, seq) \in Screens /\ SameButShown(Below(v, voice, turn, seq), v)
           /\ Below(v, voice, turn, seq).said = Append(v.said, Block(voice, turn, seq))
           /\ Below(v, voice, turn, seq).groups = v.groups
           /\ Below(v, voice, turn, seq).running = v.running
<1>1. v.said \in Seq(Blocks)
  BY DEF Screens
<1>2. Block(voice, turn, seq) \in Blocks
  <2>1. <<seq>> \in Seq(Nat)
    OBVIOUS
  <2>. QED
    BY <2>1 DEF Block, Blocks
<1>. DEFINE said == Append(v.said, Block(voice, turn, seq))
<1>3. said \in Seq(Blocks)
  BY <1>1, <1>2, SeqAppend
<1>4. Below(v, voice, turn, seq) = [v EXCEPT !.said = said]
  BY DEF Below
<1>. HIDE DEF said
<1>5. /\ [v EXCEPT !.said = said] \in Screens /\ SameButShown([v EXCEPT !.said = said], v)
      /\ [v EXCEPT !.said = said].said = said /\ [v EXCEPT !.said = said].groups = v.groups
      /\ [v EXCEPT !.said = said].running = v.running
  BY <1>3 DEF Screens, SameButShown
<1>. QED
  BY <1>4, <1>5 DEF said

(* A line goes to the last block, or to one of its own below.               *)
Joins(v, e) ==
    /\ e.kind = "part" /\ v.said # <<>>
    /\ v.said[Len(v.said)].voice = "agent" /\ v.said[Len(v.said)].turn = e.turn
NewBlock(v, e) ==
    \/ e.kind = "part" /\ ~Joins(v, e)
    \/ e.kind = "failed"
    \/ e.kind = "said" /\ e.what \notin v.groups
VoiceOf(e) == CASE e.kind = "part" -> "agent" [] e.kind = "said" -> "person" [] OTHER -> "note"
TurnOf(e) == IF e.kind = "failed" THEN Nothing ELSE e.turn
Longer(b, seq) == [b EXCEPT !.lines = Append(b.lines, seq)]
Lengthened(said, seq) == [said EXCEPT ![Len(said)] = Longer(said[Len(said)], seq)]

LEMMA ShownIs ==
    ASSUME NEW v \in Screens, NEW e, e.what \in Whats, e.turn \in Turns, NEW seq \in Nat
    PROVE  LET w == Shown(v, e, seq) IN
           /\ w \in Screens /\ SameButShown(w, v)
           /\ Joins(v, e) =>
                 /\ Len(v.said) \in DOMAIN v.said
                 /\ w.said = Lengthened(v.said, seq)
           /\ NewBlock(v, e) => w.said = Append(v.said, Block(VoiceOf(e), TurnOf(e), seq))
           /\ ~Joins(v, e) /\ ~NewBlock(v, e) => w.said = v.said
           /\ w.groups = IF e.kind = "said" THEN v.groups \cup {e.what} ELSE v.groups
           /\ w.running = IF e.kind = "started" THEN v.running \cup {e.turn}
                          ELSE IF e.kind \in Ends THEN v.running \ {e.turn} ELSE v.running
<1>. DEFINE w == Shown(v, e, seq)
            n == Len(v.said)
<1>0. /\ v.said \in Seq(Blocks) /\ n \in Nat /\ DOMAIN v.said = 1..n /\ (v.said # <<>> <=> n > 0)
      /\ \A b \in 1..n : v.said[b] \in Blocks
  <2>1. v.said \in Seq(Blocks)
    BY DEF Screens
  <2>. QED
    BY <2>1, SeqElements
<1>1. CASE Joins(v, e)
  <2>1. n \in DOMAIN v.said /\ v.said[n] \in Blocks
    BY <1>0, <1>1 DEF Joins
  <2>. DEFINE lines == Append(v.said[n].lines, seq)
              b == [v.said[n] EXCEPT !.lines = lines]
              said == [v.said EXCEPT ![n] = b]
  <2>2. w = [v EXCEPT !.said = said]
    BY <1>0, <1>1, <2>1 DEF Joins, Shown
  <2>3. lines \in Seq(Nat)
    BY <2>1, SeqAppend DEF Blocks
  <2>4. b \in Blocks
    <3>. HIDE DEF lines
    <3>. QED
      BY <2>1, <2>3 DEF Blocks
  <2>5. said \in Seq(Blocks)
    <3>. HIDE DEF b
    <3>. QED
      BY <1>0, <2>1, <2>4, SeqUpdate
  <2>6. w \in Screens /\ SameButShown(w, v) /\ w.said = said /\ w.groups = v.groups /\ w.running = v.running
    <3>. HIDE DEF said
    <3>1. /\ [v EXCEPT !.said = said] \in Screens /\ SameButShown([v EXCEPT !.said = said], v)
          /\ [v EXCEPT !.said = said].said = said /\ [v EXCEPT !.said = said].groups = v.groups
          /\ [v EXCEPT !.said = said].running = v.running
      BY <2>5 DEF Screens, SameButShown
    <3>. QED
      BY <2>2, <3>1
  <2>7. e.kind = "part" /\ ~NewBlock(v, e)
    BY <1>1 DEF Joins, NewBlock
  <2>8. w.said = Lengthened(v.said, seq)
    BY <2>6 DEF Longer, Lengthened
  <2>9. Len(v.said) \in DOMAIN v.said
    BY <2>1
  <2>. HIDE DEF w, said, b, lines, n
  <2>. QED
    BY <1>1, <2>6, <2>7, <2>8, <2>9 DEF Ends, w
<1>2. CASE e.kind = "part" /\ ~Joins(v, e)
  <2>1. w = Below(v, "agent", e.turn, seq)
    BY <1>0, <1>2 DEF Joins, Shown
  <2>2. NewBlock(v, e) /\ VoiceOf(e) = "agent" /\ TurnOf(e) = e.turn
    BY <1>2 DEF NewBlock, VoiceOf, TurnOf
  <2>3. /\ w \in Screens /\ SameButShown(w, v) /\ w.said = Append(v.said, Block("agent", e.turn, seq))
        /\ w.groups = v.groups /\ w.running = v.running
    <3>. HIDE DEF w
    <3>. QED
      BY <2>1, BelowIs
  <2>4. ~Joins(v, e)
    BY <1>2
  <2>. HIDE DEF w
  <2>. QED
    BY <1>2, <2>2, <2>3, <2>4 DEF Ends, w
<1>3. CASE e.kind = "said" /\ e.what \in v.groups
  <2>1. w = v /\ v.groups \cup {e.what} = v.groups
    BY <1>3 DEF Shown
  <2>2. ~NewBlock(v, e) /\ ~Joins(v, e)
    BY <1>3 DEF NewBlock, Joins
  <2>. HIDE DEF w
  <2>. QED
    BY <1>3, <2>1, <2>2 DEF Ends, SameButShown, w
<1>4. CASE e.kind = "said" /\ e.what \notin v.groups
  <2>. DEFINE u == Below(v, "person", e.turn, seq)
              g == u.groups \cup {e.what}
  <2>1. w = [u EXCEPT !.groups = g]
    BY <1>4 DEF Shown
  <2>2. /\ u \in Screens /\ SameButShown(u, v) /\ u.said = Append(v.said, Block("person", e.turn, seq))
        /\ u.groups = v.groups /\ u.running = v.running
    BY BelowIs
  <2>3. g \subseteq Whats /\ g = v.groups \cup {e.what}
    BY <2>2 DEF Screens
  <2>. HIDE DEF u, g
  <2>4. /\ w \in Screens /\ SameButShown(w, u) /\ w.said = u.said /\ w.groups = g /\ w.running = u.running
    <3>1. /\ [u EXCEPT !.groups = g] \in Screens /\ SameButShown([u EXCEPT !.groups = g], u)
          /\ [u EXCEPT !.groups = g].said = u.said /\ [u EXCEPT !.groups = g].groups = g
          /\ [u EXCEPT !.groups = g].running = u.running
      BY <2>2, <2>3 DEF Screens, SameButShown
    <3>. QED
      BY <2>1, <3>1
  <2>5. NewBlock(v, e) /\ VoiceOf(e) = "person" /\ TurnOf(e) = e.turn /\ ~Joins(v, e)
    BY <1>4 DEF NewBlock, VoiceOf, TurnOf, Joins
  <2>. HIDE DEF w
  <2>. QED
    BY <1>4, <2>2, <2>3, <2>4, <2>5 DEF Ends, SameButShown, w
<1>5. CASE e.kind = "started" \/ e.kind = "finished"
  <2>. DEFINE g == IF e.kind = "started" THEN v.running \cup {e.turn} ELSE v.running \ {e.turn}
  <2>1. w = [v EXCEPT !.running = g]
    BY <1>5 DEF Shown
  <2>2. g \subseteq Turns
    BY DEF Screens
  <2>3. ~NewBlock(v, e) /\ ~Joins(v, e)
    BY <1>5 DEF NewBlock, Joins
  <2>4. g = IF e.kind = "started" THEN v.running \cup {e.turn}
            ELSE IF e.kind \in Ends THEN v.running \ {e.turn} ELSE v.running
    BY <1>5 DEF Ends
  <2>. HIDE DEF g
  <2>5. /\ [v EXCEPT !.running = g] \in Screens /\ SameButShown([v EXCEPT !.running = g], v)
        /\ [v EXCEPT !.running = g].said = v.said /\ [v EXCEPT !.running = g].groups = v.groups
        /\ [v EXCEPT !.running = g].running = g
    BY <2>2 DEF Screens, SameButShown
  <2>. HIDE DEF w
  <2>. QED
    BY <1>5, <2>1, <2>3, <2>4, <2>5 DEF w
<1>6. CASE e.kind = "failed"
  <2>. DEFINE u == Below(v, "note", Nothing, seq)
              g == u.running \ {e.turn}
  <2>1. w = [u EXCEPT !.running = g]
    BY <1>6 DEF Shown
  <2>2. /\ u \in Screens /\ SameButShown(u, v) /\ u.said = Append(v.said, Block("note", Nothing, seq))
        /\ u.groups = v.groups /\ u.running = v.running
    BY BelowIs, NamesKnown
  <2>3. g \subseteq Turns /\ g = v.running \ {e.turn}
    BY <2>2 DEF Screens
  <2>. HIDE DEF u, g
  <2>4. /\ w \in Screens /\ SameButShown(w, u) /\ w.said = u.said /\ w.groups = u.groups /\ w.running = g
    <3>1. /\ [u EXCEPT !.running = g] \in Screens /\ SameButShown([u EXCEPT !.running = g], u)
          /\ [u EXCEPT !.running = g].said = u.said /\ [u EXCEPT !.running = g].groups = u.groups
          /\ [u EXCEPT !.running = g].running = g
      BY <2>2, <2>3 DEF Screens, SameButShown
    <3>. QED
      BY <2>1, <3>1
  <2>5. NewBlock(v, e) /\ VoiceOf(e) = "note" /\ TurnOf(e) = Nothing /\ ~Joins(v, e)
    BY <1>6 DEF NewBlock, VoiceOf, TurnOf, Joins
  <2>. HIDE DEF w
  <2>. QED
    BY <1>6, <2>2, <2>3, <2>4, <2>5 DEF Ends, SameButShown, w
<1>7. CASE e.kind \notin {"part", "said", "started", "finished", "failed"}
  <2>1. w = v
    BY <1>7 DEF Shown
  <2>2. ~NewBlock(v, e) /\ ~Joins(v, e)
    BY <1>7 DEF NewBlock, Joins
  <2>. HIDE DEF w
  <2>. QED
    BY <1>7, <2>1, <2>2 DEF Ends, SameButShown, w
<1>. QED
  BY <1>1, <1>2, <1>3, <1>4, <1>5, <1>6, <1>7

(* What the view takes from the channel first.                              *)
LEMMA FirstMessage ==
    ASSUME TypeOK, inbox # <<>>
    PROVE  /\ Head(inbox) \in Messages /\ IsMessage(Head(inbox)) /\ Head(inbox).room \in Rooms
           /\ Head(inbox).kind \in {"event", "load", "open"}
           /\ Head(inbox).list \in Seq(Whats) /\ Head(inbox).late \in BOOLEAN
           /\ Head(inbox).kind = "event" =>
                 LET e == log[Head(inbox).room][Head(inbox).seq] IN
                 /\ e \in Entries(Head(inbox).room) /\ e.what \in Whats /\ e.turn \in Turns
                 /\ Head(inbox).seq \in Nat /\ Head(inbox).seq \in DOMAIN log[Head(inbox).room]
<1>1. Head(inbox) \in GoodMessages
  BY MessageTypes, SeqTail
<1>2. Head(inbox) \in Messages /\ IsMessage(Head(inbox))
  BY <1>1 DEF GoodMessages
<1>. DEFINE m == Head(inbox)
<1>3. /\ m.room \in Rooms /\ m.kind \in {"event", "load", "open"} /\ m.seq \in Nat
      /\ m.list \in Seq(Whats) /\ m.late \in BOOLEAN
  BY <1>2 DEF Messages
<1>4. ASSUME m.kind = "event"
      PROVE  /\ log[m.room][m.seq] \in Entries(m.room) /\ m.seq \in DOMAIN log[m.room]
             /\ log[m.room][m.seq].what \in Whats /\ log[m.room][m.seq].turn \in Turns
  <2>1. m.seq \in DOMAIN log[m.room]
    BY <1>2, <1>4 DEF IsMessage
  <2>2. log[m.room][m.seq] \in Entries(m.room)
    BY <1>3, <2>1, LogTypes DEF TypeOK
  <2>. QED
    BY <1>3, <2>1, <2>2, EntryTypes DEF TypeOK
<1>. QED
  BY <1>2, <1>3, <1>4

(* The event of a message is shown.                                         *)
Told(m) == Shown(screen, log[m.room][m.seq], m.seq)

LEMMA OnEventIs ==
    ASSUME TypeOK, inbox # <<>>, Head(inbox).kind = "event", OnEvent(Head(inbox)),
           InRoom, Head(inbox).room = screen.room
    PROVE  /\ screen' \in Screens
           /\ screen'.at = screen.at /\ screen'.room = screen.room /\ screen'.stream = screen.stream
           /\ screen'.pending = screen.pending /\ screen'.prompt = screen.prompt
           /\ screen'.stale = screen.stale
           /\ screen'.mixed <=> screen.mixed \/ Head(inbox).from # screen.stream
           /\ screen'.said = Told(Head(inbox)).said /\ screen'.groups = Told(Head(inbox)).groups
           /\ screen'.running = Told(Head(inbox)).running
<1>. DEFINE m == Head(inbox)
            e == log[m.room][m.seq]
            w == Told(m)
            x == screen.mixed \/ m.from # screen.stream
<1>1. e.what \in Whats /\ e.turn \in Turns /\ m.seq \in Nat
  BY FirstMessage
<1>2. screen \in Screens
  BY DEF TypeOK, ScreenTypes
<1>3. w \in Screens /\ SameButShown(w, screen)
  <2>. HIDE DEF m
  <2>. QED
    BY <1>1, <1>2, ShownIs DEF Told
<1>4. screen' = [w EXCEPT !.mixed = w.mixed \/ m.from # screen.stream]
  BY DEF OnEvent, InRoom, Told
<1>5. x \in BOOLEAN /\ (w.mixed \/ m.from # screen.stream <=> x)
  BY <1>3 DEF SameButShown
<1>. HIDE DEF w, m
<1>6. screen' = [w EXCEPT !.mixed = x]
  BY <1>3, <1>4 DEF SameButShown
<1>. HIDE DEF x
<1>7. /\ screen' \in Screens /\ screen'.at = w.at /\ screen'.room = w.room /\ screen'.stream = w.stream
      /\ screen'.pending = w.pending /\ screen'.prompt = w.prompt /\ screen'.stale = w.stale
      /\ screen'.mixed = x /\ screen'.said = w.said /\ screen'.groups = w.groups
      /\ screen'.running = w.running
  BY <1>3, <1>5, <1>6 DEF Screens
<1>8. screen'.mixed <=> screen.mixed \/ m.from # screen.stream
  BY <1>7 DEF x
<1>. QED
  BY <1>3, <1>7, <1>8 DEF SameButShown, w, m

LEMMA BlankTypes == Blank \in Screens /\ Blank.at = "rooms"
<1>1. <<>> \in Seq(Blocks) /\ <<>> \in Seq(Whats)
  OBVIOUS
<1>. QED
  BY <1>1 DEF Blank, Screens

LEMMA EnteredIs ==
    ASSUME TypeOK, NEW r \in Rooms, EnterRoom(r)
    PROVE  /\ screen' \in Screens /\ screen'.at = "room" /\ screen'.room = r
           /\ screen'.stream = Len(followers) + 1 /\ screen'.said = <<>> /\ screen'.groups = {}
           /\ screen'.running = {} /\ screen'.pending = <<>> /\ ~screen'.mixed /\ ~screen'.stale
           /\ ~screen'.prompt
           /\ followers' \in Seq(Visits) /\ DOMAIN followers' = 1..(Len(followers) + 1)
           /\ \A s \in 1..Len(followers) : followers'[s] = followers[s]
           /\ followers'[Len(followers) + 1] = [room |-> r, since |-> 0, at |-> "off"]
<1>1. <<>> \in Seq(Blocks) /\ <<>> \in Seq(Whats) /\ Len(followers) + 1 \in Nat
  BY VisitTypes
<1>2. followers \in Seq(Visits) /\ [room |-> r, since |-> 0, at |-> "off"] \in Visits
  BY DEF TypeOK, FollowerTypes, Visits
<1>3. screen' = [Blank EXCEPT !.at = "room", !.room = r, !.stream = Len(followers) + 1]
  BY DEF EnterRoom
<1>4. followers' = Append(followers, [room |-> r, since |-> 0, at |-> "off"])
  BY DEF EnterRoom
<1>5. /\ screen' \in Screens /\ screen'.at = "room" /\ screen'.room = r
      /\ screen'.stream = Len(followers) + 1 /\ screen'.said = <<>> /\ screen'.groups = {}
      /\ screen'.running = {} /\ screen'.pending = <<>> /\ ~screen'.mixed /\ ~screen'.stale
      /\ ~screen'.prompt
  BY <1>1, <1>3 DEF Blank, Screens
<1>6. /\ followers' \in Seq(Visits) /\ DOMAIN followers' = 1..(Len(followers) + 1)
      /\ \A s \in 1..Len(followers) : followers'[s] = followers[s]
      /\ followers'[Len(followers) + 1] = [room |-> r, since |-> 0, at |-> "off"]
  BY <1>2, <1>4, SeqAppend
<1>. QED
  BY <1>5, <1>6

(* A key that changes the screen of a room keeps it there.                  *)
Keeps ==
    /\ screen' \in Screens
    /\ screen'.at = "room" =>
          screen.at = "room" /\ screen'.stream = screen.stream /\ screen'.room = screen.room

LEMMA KeysKeep ==
    ASSUME TypeOK, NewRoom \/ LeaveRoom \/ Resolve \/ Dismiss \/ Approve
    PROVE  Keeps
<1>0. screen \in Screens
  BY DEF TypeOK, ScreenTypes
<1>1. CASE NewRoom
  BY <1>1, BlankTypes DEF NewRoom, Keeps, Screens
<1>2. CASE LeaveRoom
  BY <1>2, BlankTypes DEF LeaveRoom, Keeps
<1>3. CASE Resolve
  <2>. DEFINE p == Tail(screen.pending)
              q == Len(screen.pending) > 1
  <2>1. p \in Seq(Whats) /\ q \in BOOLEAN
    BY <1>3, ScreenKnows, SeqTail DEF Resolve
  <2>2. screen' = [screen EXCEPT !.pending = p, !.prompt = q]
    BY <1>3 DEF Resolve
  <2>. HIDE DEF p, q
  <2>. QED
    BY <1>0, <2>1, <2>2 DEF Keeps, Screens
<1>4. CASE Dismiss \/ Approve
  BY <1>0, <1>4 DEF Dismiss, Approve, Keeps, Screens
<1>. QED
  BY <1>1, <1>2, <1>3, <1>4

(* An answer to "which requests wait" is shown as it comes.                 *)
LEMMA LoadIs ==
    ASSUME TypeOK, Handles, Head(inbox).kind = "load", InRoom
    PROVE  /\ screen' \in Screens /\ screen'.at = screen.at /\ screen'.stream = screen.stream
           /\ screen'.room = screen.room /\ screen'.said = screen.said
           /\ screen'.groups = screen.groups /\ screen'.running = screen.running
           /\ (screen'.mixed <=> screen.mixed)
           /\ screen'.pending = Head(inbox).list /\ (screen'.stale <=> Head(inbox).late)
           /\ UNCHANGED <<tasks, followers>>
<1>. DEFINE m == Head(inbox)
            q == m.list # <<>>
<1>1. screen \in Screens /\ m.list \in Seq(Whats) /\ m.late \in BOOLEAN /\ q \in BOOLEAN
  BY FirstMessage DEF TypeOK, ScreenTypes, Handles
<1>2. screen' = [screen EXCEPT !.prompt = q, !.pending = m.list, !.stale = m.late]
      /\ UNCHANGED <<tasks, followers>>
  BY DEF Handles, InRoom
<1>. HIDE DEF q
<1>3. /\ screen' \in Screens /\ screen'.at = screen.at /\ screen'.stream = screen.stream
      /\ screen'.room = screen.room /\ screen'.said = screen.said
      /\ screen'.groups = screen.groups /\ screen'.running = screen.running
      /\ screen'.mixed = screen.mixed
      /\ screen'.pending = m.list /\ screen'.stale = m.late
  BY <1>1, <1>2 DEF Screens
<1>. QED
  BY <1>2, <1>3

LEMMA ScreenNext ==
    ASSUME TypeOK, [Next]_vars
    PROVE  ScreenTypes'
<1>0. scene' = scene /\ FollowersStay
  BY RoomNext, FollowerNext
<1>1. Screens' = Screens
  BY <1>0, SameScene
<1>2. ASSUME Keeps PROVE ScreenTypes'
  <2>1. screen'.at = "room" => screen.stream \in DOMAIN followers /\ screen.room = followers[screen.stream].room
    BY <1>2 DEF Keeps, TypeOK, ScreenTypes, InRoom
  <2>. QED
    BY <1>0, <1>1, <1>2, <2>1 DEF Keeps, ScreenTypes, InRoom, FollowersStay
<1>3. ASSUME NEW r \in Rooms, EnterRoom(r) PROVE ScreenTypes'
  <2>1. Len(followers) + 1 \in 1..(Len(followers) + 1)
    BY VisitTypes
  <2>2. /\ screen' \in Screens /\ screen'.room = r /\ screen'.stream = Len(followers) + 1
        /\ DOMAIN followers' = 1..(Len(followers) + 1)
        /\ followers'[Len(followers) + 1] = [room |-> r, since |-> 0, at |-> "off"]
    BY <1>3, EnteredIs
  <2>3. screen'.stream \in DOMAIN followers' /\ followers'[screen'.stream].room = r
    BY <2>1, <2>2
  <2>. QED
    BY <1>1, <2>2, <2>3 DEF ScreenTypes, InRoom
<1>4. ASSUME UNCHANGED screen PROVE Keeps
  BY <1>4 DEF Keeps, TypeOK, ScreenTypes
<1>5. ASSUME Handles PROVE ScreenTypes'
  <2>0. inbox # <<>> /\ Head(inbox).kind \in {"event", "load", "open"} /\ Head(inbox).room \in Rooms
    BY <1>5, FirstMessage DEF Handles
  <2>1. CASE Head(inbox).kind = "event"
    <3>1. OnEvent(Head(inbox))
      BY <1>5, <2>1 DEF Handles
    <3>2. CASE InRoom /\ Head(inbox).room = screen.room
      <4>1. Keeps
        BY <2>0, <2>1, <3>1, <3>2, OnEventIs DEF Keeps, InRoom
      <4>. QED
        BY <1>2, <4>1
    <3>3. CASE ~(InRoom /\ Head(inbox).room = screen.room)
      <4>1. UNCHANGED screen
        BY <3>1, <3>3 DEF OnEvent, InRoom
      <4>. QED
        BY <1>2, <1>4, <4>1
    <3>. QED
      BY <3>2, <3>3
  <2>2. CASE Head(inbox).kind = "load"
    <3>1. CASE InRoom
      <4>1. Keeps
        BY <1>5, <2>2, <3>1, LoadIs DEF Keeps, InRoom
      <4>. QED
        BY <1>2, <4>1
    <3>2. CASE ~InRoom
      BY <1>2, <1>4, <1>5, <2>2, <3>2 DEF Handles, InRoom
    <3>. QED
      BY <3>1, <3>2
  <2>3. CASE Head(inbox).kind = "open"
    BY <1>3, <1>5, <2>0, <2>3 DEF Handles
  <2>. QED
    BY <2>0, <2>1, <2>2, <2>3
<1>6. ASSUME NewRoom \/ Leave \/ Resolve \/ Dismiss \/ Approve PROVE ScreenTypes'
  <2>1. Keeps
    BY <1>6, KeysKeep DEF Leave
  <2>. QED
    BY <1>2, <2>1
<1>7. ASSUME NEW r \in Rooms, Enter(r) PROVE ScreenTypes'
  BY <1>3, <1>7 DEF Enter
<1>8. ASSUME NEW r \in Rooms, Asks(r) \/ Happens(r) \/ ApproveLooks(r) PROVE UNCHANGED screen
  BY <1>8 DEF Asks, Happens, ApproveLooks
<1>9. ASSUME NEW s \in DOMAIN followers, FollowerStep(s) PROVE UNCHANGED screen
  BY <1>9 DEF FollowerStep, Connects, Delivers, Breaks
<1>10. ASSUME NEW k \in DOMAIN tasks, TaskStep(k) PROVE UNCHANGED screen
  BY <1>10 DEF TaskStep, Reads, Passes, Fails
<1>11. ASSUME NEW c \in calls, CallStep(c) PROVE UNCHANGED screen
  BY <1>11 DEF CallStep, Resolves, Refused, Records, CallFails
<1>12. ASSUME Open \/ ApprovePosts \/ UNCHANGED vars PROVE UNCHANGED screen
  BY <1>12 DEF Open, ApprovePosts, vars
<1>13. ASSUME UNCHANGED screen PROVE ScreenTypes'
  BY <1>2, <1>4, <1>13
<1>. QED
  BY <1>5, <1>6, <1>7, <1>8, <1>9, <1>10, <1>11, <1>12, <1>13 DEF Next, Keys

LEMMA TypeInit == Init => TypeOK
<1>. SUFFICES ASSUME Init PROVE TypeOK
  OBVIOUS
<1>1. RoomTypes
  BY RoomInit
<1>2. followers = <<>> /\ tasks = <<>> /\ inbox = <<>> /\ calls = {}
  BY DEF Init
<1>3. FollowerTypes /\ TaskTypes /\ InboxTypes
  BY <1>2 DEF FollowerTypes, TaskTypes, InboxTypes
<1>4. ScreenTypes
  BY BlankTypes DEF Init, ScreenTypes, InRoom
<1>5. CallTypes
  BY DEF Init, CallTypes
<1>. QED
  BY <1>1, <1>3, <1>4, <1>5 DEF TypeOK

LEMMA TypeNext == TypeOK /\ [Next]_vars => TypeOK'
BY RoomNext, FollowerNext, TaskNext, InboxNext, ScreenNext, CallNext DEF TypeOK

(* The view of the terminal keeps its types: no follower is ahead of its    *)
(* room's log, no message carries an event that is not in one, and the room *)
(* on the screen is the one its stream follows (app.rs, tui/mod.rs).        *)
THEOREM ViewTypeCorrect == Spec => []TypeOK
BY TypeInit, TypeNext, PTL DEF Spec

(***************************************************************************)
(* Answers.                                                                *)
(***************************************************************************)

(* A room's requests.                                                       *)
IsRequest(r, i) == \E k \in DOMAIN Life[r] : Life[r][k].kind = "requested" /\ Life[r][k].what = i
RequestsKnown == \A r \in Rooms : \A i \in waiting[r] : IsRequest(r, i)

LEMMA AnswersInit == Init => RequestsKnown /\ AnsweredAtHome
BY DEF Init, RequestsKnown, AnsweredAtHome

LEMMA AnswersNext ==
    ASSUME TypeOK, RequestsKnown, AnsweredAtHome, [Next]_vars
    PROVE  RequestsKnown' /\ AnsweredAtHome'
<1>0. RoomTypes /\ waiting \in [Rooms -> SUBSET Whats]
  BY DEF TypeOK, RoomTypes
<1>1. Life' = Life /\ \A r, i : IsRequest(r, i)' <=> IsRequest(r, i)
  BY RoomNext, SameScene DEF IsRequest
<1>2. ASSUME \A r \in Rooms : \A i \in waiting'[r] : IsRequest(r, i) PROVE RequestsKnown'
  BY <1>1, <1>2 DEF RequestsKnown
<1>3. AnsweredAtHome <=> \A a \in answered : IsRequest(a.room, a.what)
  BY DEF AnsweredAtHome, IsRequest
<1>4. ASSUME \A a \in answered' : IsRequest(a.room, a.what) PROVE AnsweredAtHome'
  BY <1>1, <1>4 DEF AnsweredAtHome, IsRequest
<1>5. ASSUME UNCHANGED answered PROVE AnsweredAtHome'
  BY <1>3, <1>4, <1>5
<1>6. ASSUME \A r \in Rooms : waiting'[r] \subseteq waiting[r] PROVE RequestsKnown'
  BY <1>2, <1>6 DEF RequestsKnown
<1>7. ASSUME UNCHANGED waiting PROVE RequestsKnown'
  BY <1>6, <1>7
<1>8. ASSUME NEW r \in Rooms, Asks(r) PROVE RequestsKnown' /\ AnsweredAtHome'
  <2>1. IsRequest(r, Next1(r).what)
    BY <1>0, <1>8, NextEntry DEF Asks, IsRequest, Next1
  <2>2. waiting' = [waiting EXCEPT ![r] = @ \cup {Next1(r).what}] /\ UNCHANGED answered
    BY <1>8 DEF Asks
  <2>3. \A q \in Rooms : \A i \in waiting'[q] : IsRequest(q, i)
    BY <1>0, <2>1, <2>2 DEF RequestsKnown
  <2>. QED
    BY <1>2, <1>5, <2>2, <2>3
<1>9. ASSUME NEW r \in Rooms, Happens(r) PROVE RequestsKnown' /\ AnsweredAtHome'
  <2>1. UNCHANGED answered /\ \A q \in Rooms : waiting'[q] \subseteq waiting[q]
    BY <1>0, <1>9 DEF Happens
  <2>. QED
    BY <1>5, <1>6, <2>1
<1>10. ASSUME NEW c \in calls, Resolves(c) PROVE RequestsKnown' /\ AnsweredAtHome'
  <2>1. c.room \in Rooms /\ IsRequest(c.room, c.what)
    BY <1>10 DEF Resolves, RequestsKnown, TypeOK, CallTypes, Calls
  <2>2. \A q \in Rooms : waiting'[q] \subseteq waiting[q]
    BY <1>0, <1>10 DEF Resolves
  <2>3. answered' = answered \cup {[what |-> c.what, room |-> c.room]}
    BY <1>10 DEF Resolves
  <2>4. \A a \in answered' : IsRequest(a.room, a.what)
    BY <1>3, <2>1, <2>3
  <2>. QED
    BY <1>4, <1>6, <2>2, <2>4
<1>11. ASSUME UNCHANGED <<waiting, answered>> PROVE RequestsKnown' /\ AnsweredAtHome'
  BY <1>5, <1>7, <1>11
<1>12. ASSUME NEW r \in Rooms, ApproveLooks(r) \/ Enter(r) PROVE UNCHANGED <<waiting, answered>>
  BY <1>12 DEF ApproveLooks, Enter, Key, server
<1>13. ASSUME NEW s \in DOMAIN followers, FollowerStep(s) PROVE UNCHANGED <<waiting, answered>>
  BY <1>13 DEF FollowerStep, Connects, Delivers, Breaks, server
<1>14. ASSUME NEW k \in DOMAIN tasks, TaskStep(k) PROVE UNCHANGED <<waiting, answered>>
  BY <1>14 DEF TaskStep, Reads, Passes, Fails, server
<1>15. ASSUME NEW c \in calls, Refused(c) \/ Records(c) \/ CallFails(c) PROVE UNCHANGED <<waiting, answered>>
  BY <1>15 DEF Refused, Records, CallFails, server
<1>16. ASSUME NewRoom \/ Open \/ Leave \/ Resolve \/ Dismiss \/ Approve \/ ApprovePosts \/ Handles \/ UNCHANGED vars
       PROVE  UNCHANGED <<waiting, answered>>
  BY <1>16 DEF NewRoom, Open, Leave, Resolve, Dismiss, Approve, ApprovePosts, Handles, Key, server, vars
<1>. QED
  BY <1>8, <1>9, <1>10, <1>11, <1>12, <1>13, <1>14, <1>15, <1>16 DEF Next, Keys, CallStep

(* A request is answered in its own room only, although the view may show,  *)
(* and answer, one of a room it has since left.                             *)
THEOREM RequestsAreAnsweredAtHome == Spec => []AnsweredAtHome
<1>. DEFINE Inv == TypeOK /\ RequestsKnown /\ AnsweredAtHome
<1>1. Init => Inv
  BY TypeInit, AnswersInit
<1>2. Inv /\ [Next]_vars => Inv'
  BY TypeNext, AnswersNext
<1>3. Inv => AnsweredAtHome
  OBVIOUS
<1>. HIDE DEF Inv
<1>. QED
  BY <1>1, <1>2, <1>3, PTL DEF Spec

(***************************************************************************)
(* The past of a room.                                                     *)
(***************************************************************************)

(* All that a log holds, but for answers, is of the part of the room's life *)
(* that is over, and no turn in it starts after its end.                    *)
WasLife(r, e) == \E k \in DOMAIN Life[r] : k <= Lived(r) /\ Life[r][k] = e
HasEnded(r, turn) == \E j \in DOMAIN log[r] : log[r][j].kind \in Ends /\ log[r][j].turn = turn
History == \A r \in Rooms :
    /\ \A j \in DOMAIN log[r] : log[r][j].kind # "resolved" => WasLife(r, log[r][j])
    /\ \A j, k \in DOMAIN log[r] : j < k =>
          ~(log[r][j].kind \in Ends /\ log[r][k].kind = "started" /\ log[r][j].turn = log[r][k].turn)

LEMMA NextIsNew ==
    ASSUME RoomTypes, History, NEW r \in Rooms, Lived(r) < Len(Life[r]), NEW j \in DOMAIN log[r]
    PROVE  /\ ~(log[r][j].kind = "requested" /\ Next1(r).kind = "requested"
                /\ log[r][j].what = Next1(r).what)
           /\ ~(log[r][j].kind \in Ends /\ Next1(r).kind = "started"
                /\ log[r][j].turn = Next1(r).turn)
<1>1. CASE log[r][j].kind = "resolved"
  BY <1>1 DEF Ends
<1>2. CASE log[r][j].kind # "resolved"
  <2>1. PICK k \in DOMAIN Life[r] : k <= Lived(r) /\ Life[r][k] = log[r][j]
    BY <1>2 DEF History, WasLife
  <2>2. Lived(r) + 1 \in DOMAIN Life[r] /\ Lived(r) \in Nat /\ k \in Nat
    BY NextEntry, LifeTypes
  <2>3. k < Lived(r) + 1 /\ IsLife(Life[r])
    BY <2>1, <2>2, LifeTypes
  <2>. QED
    BY <2>1, <2>2, <2>3 DEF IsLife, Next1
<1>. QED
  BY <1>1, <1>2

LEMMA HistoryInit == Init => History
<1>. SUFFICES ASSUME Init, NEW r \in Rooms
              PROVE  /\ \A j \in DOMAIN log[r] : log[r][j].kind # "resolved" => WasLife(r, log[r][j])
                     /\ \A j, k \in DOMAIN log[r] : j < k =>
                           ~(log[r][j].kind \in Ends /\ log[r][k].kind = "started"
                             /\ log[r][j].turn = log[r][k].turn)
  BY DEF History
<1>1. RoomTypes /\ log[r] = SubSeq(Life[r], 1, Already(r))
  BY RoomInit DEF Init
<1>. DEFINE n == Already(r)
            K == {k \in DOMAIN log[r] : log[r][k].kind # "resolved"}
<1>2. /\ IsLife(Life[r]) /\ Len(Life[r]) \in Nat /\ DOMAIN Life[r] = 1..Len(Life[r])
      /\ Life[r] \in Seq(ToSet(Life[r]))
      /\ \A k \in DOMAIN Life[r] : Life[r][k].kind \in Kinds
  BY <1>1, LifeTypes
<1>3. n \in Nat /\ n <= Len(Life[r])
  <2>1. scene.before \in Nat
    BY TerminalAssumption DEF Init
  <2>. QED
    BY <1>2, <2>1 DEF Already
<1>. HIDE DEF n
<1>4. DOMAIN log[r] = 1..n /\ \A j \in 1..n : log[r][j] = Life[r][j] /\ j \in DOMAIN Life[r]
  BY <1>1, <1>2, <1>3 DEF n
<1>5. Lived(r) = n
  <2>1. K = 1..n
    <3>1. \A j \in 1..n : log[r][j].kind # "resolved"
      BY <1>2, <1>4 DEF Kinds
    <3>. QED
      BY <1>4, <3>1
  <2>2. Cardinality(1..n) = n
    <3>1. CASE n = 0
      BY <3>1, FS_Interval
    <3>2. CASE n # 0
      BY <1>3, <3>2, FS_Interval
    <3>. QED
      BY <3>1, <3>2
  <2>. QED
    BY <2>1, <2>2 DEF Lived
<1>6. ASSUME NEW j \in DOMAIN log[r] PROVE WasLife(r, log[r][j])
  BY <1>4, <1>5 DEF WasLife
<1>7. ASSUME NEW j \in DOMAIN log[r], NEW k \in DOMAIN log[r], j < k
      PROVE  ~(log[r][j].kind \in Ends /\ log[r][k].kind = "started" /\ log[r][j].turn = log[r][k].turn)
  BY <1>2, <1>4, <1>7 DEF IsLife
<1>. QED
  BY <1>6, <1>7

(* An event more: as many as before have been lived, and it if it was one.  *)
LEMMA LivesOn ==
    ASSUME RoomTypes, NEW r \in Rooms, NEW e \in Entries(r), log' = [log EXCEPT ![r] = Append(@, e)]
    PROVE  /\ \A q \in Rooms : q # r => Lived(q)' = Lived(q)
           /\ Lived(r)' = IF e.kind = "resolved" THEN Lived(r) ELSE Lived(r) + 1
           /\ \A q \in Rooms : Lived(q) \in Nat /\ Lived(q)' \in Nat /\ Lived(q) <= Lived(q)'
<1>. DEFINE n == Len(log[r])
            K == {k \in DOMAIN log[r] : log[r][k].kind # "resolved"}
            L == {k \in DOMAIN log'[r] : log'[r][k].kind # "resolved"}
<1>1. /\ n \in Nat /\ DOMAIN log[r] = 1..n /\ DOMAIN log'[r] = 1..(n + 1)
      /\ log'[r][n + 1] = e /\ \A j \in 1..n : log'[r][j] = log[r][j]
      /\ \A q \in Rooms : q # r => log'[q] = log[q]
  <2>1. log'[r] \in Seq(Entries(r)) /\ Len(log'[r]) = n + 1
    BY LogGrows
  <2>. QED
    BY <2>1, LogTypes, LogGrows, SeqElements DEF Grows
<1>2. IsFiniteSet(K) /\ Cardinality(K) \in Nat /\ n + 1 \notin K
  BY <1>1, RankStep
<1>3. L = IF e.kind = "resolved" THEN K ELSE K \cup {n + 1}
  BY <1>1
<1>4. Cardinality(L) = IF e.kind = "resolved" THEN Cardinality(K) ELSE Cardinality(K) + 1
  <2>. HIDE DEF K, L
  <2>. QED
    BY <1>2, <1>3, FS_AddElement
<1>5. Lived(r) = Cardinality(K) /\ Lived(r)' = Cardinality(L)
  BY DEF Lived
<1>6. \A q \in Rooms : q # r => Lived(q)' = Lived(q)
  BY <1>1 DEF Lived
<1>7. ASSUME NEW q \in Rooms PROVE Lived(q) \in Nat
  <2>1. Len(log[q]) \in Nat /\ {k \in DOMAIN log[q] : log[q][k].kind # "resolved"} \in SUBSET (1..Len(log[q]))
    BY LogTypes
  <2>. QED
    BY <2>1, RankStep DEF Lived
<1>8. Lived(r)' = IF e.kind = "resolved" THEN Lived(r) ELSE Lived(r) + 1
  BY <1>4, <1>5
<1>9. ASSUME NEW q \in Rooms PROVE Lived(q)' \in Nat /\ Lived(q) <= Lived(q)'
  BY <1>6, <1>7, <1>8
<1>. QED
  BY <1>6, <1>7, <1>8, <1>9

LEMMA HistoryGrows ==
    ASSUME RoomTypes, History, NEW r \in Rooms, NEW e \in Entries(r), scene' = scene,
           log' = [log EXCEPT ![r] = Append(@, e)],
           e.kind = "resolved" \/ (Lived(r) < Len(Life[r]) /\ e = Next1(r))
    PROVE  History'
<1>. DEFINE n == Len(log[r])
            Past(q, x) == \E k \in DOMAIN Life[q] : k <= Lived(q)' /\ Life[q][k] = x
<1>0. /\ n \in Nat /\ DOMAIN log[r] = 1..n /\ DOMAIN log'[r] = 1..(n + 1)
      /\ log'[r][n + 1] = e /\ \A j \in 1..n : log'[r][j] = log[r][j]
      /\ \A q \in Rooms : q # r => log'[q] = log[q]
  <2>1. log'[r] \in Seq(Entries(r)) /\ Len(log'[r]) = n + 1
    BY LogGrows
  <2>. QED
    BY <2>1, LogTypes, LogGrows, SeqElements DEF Grows
<1>1. Life' = Life
  BY SameScene
<1>2. ASSUME NEW q \in Rooms, NEW x, WasLife(q, x) PROVE Past(q, x)
  <2>1. PICK k \in DOMAIN Life[q] : k <= Lived(q) /\ Life[q][k] = x
    BY <1>2 DEF WasLife
  <2>2. Lived(q) \in Nat /\ Lived(q) <= Lived(q)' /\ Lived(q)' \in Nat /\ k \in Nat
    <3>1. k \in Nat
      BY LifeTypes
    <3>2. \A p \in Rooms : Lived(p) \in Nat /\ Lived(p)' \in Nat /\ Lived(p) <= Lived(p)'
      BY LivesOn
    <3>. QED
      BY <3>1, <3>2
  <2>3. k <= Lived(q)'
    BY <2>1, <2>2
  <2>. QED
    BY <2>1, <2>3
<1>3. e.kind # "resolved" => Past(r, e)
  <2>. SUFFICES ASSUME e.kind # "resolved" PROVE Past(r, e)
    OBVIOUS
  <2>1. Lived(r) + 1 \in DOMAIN Life[r] /\ Life[r][Lived(r) + 1] = e
    BY NextEntry DEF Next1
  <2>2. Lived(r)' = Lived(r) + 1 /\ Lived(r) \in Nat
    BY LivesOn
  <2>3. Lived(r) + 1 <= Lived(r)'
    BY <2>2
  <2>. QED
    BY <2>1, <2>3
<1>. HIDE DEF Past
<1>4. ASSUME NEW q \in Rooms, NEW j \in DOMAIN log'[q], log'[q][j].kind # "resolved"
      PROVE  Past(q, log'[q][j])
  <2>1. CASE j \in DOMAIN log[q]
    <3>1. log'[q][j] = log[q][j]
      BY <1>0, <2>1
    <3>. QED
      BY <1>2, <1>4, <2>1, <3>1 DEF History
  <2>2. CASE j \notin DOMAIN log[q]
    <3>1. q = r /\ j = n + 1
      BY <1>0, <2>2
    <3>. QED
      BY <1>0, <1>3, <1>4, <3>1
  <2>. QED
    BY <2>1, <2>2
<1>5. ASSUME NEW q \in Rooms, NEW j \in DOMAIN log'[q], NEW k \in DOMAIN log'[q], j < k
      PROVE  ~(log'[q][j].kind \in Ends /\ log'[q][k].kind = "started" /\ log'[q][j].turn = log'[q][k].turn)
  <2>1. CASE k \in DOMAIN log[q]
    <3>1. j \in DOMAIN log[q] /\ log'[q][j] = log[q][j] /\ log'[q][k] = log[q][k]
      BY <1>0, <1>5, <2>1
    <3>. QED
      BY <1>5, <2>1, <3>1 DEF History
  <2>2. CASE k \notin DOMAIN log[q]
    <3>1. q = r /\ k = n + 1 /\ j \in DOMAIN log[r] /\ log'[r][j] = log[r][j] /\ log'[r][k] = e
      BY <1>0, <1>5, <2>2
    <3>2. CASE e.kind = "resolved"
      BY <3>1, <3>2
    <3>3. CASE Lived(r) < Len(Life[r]) /\ e = Next1(r)
      BY <3>1, <3>3, NextIsNew
    <3>. QED
      BY <3>2, <3>3
  <2>. QED
    BY <2>1, <2>2
<1>6. \A q \in Rooms : \A j \in DOMAIN log'[q] :
         log'[q][j].kind # "resolved" => WasLife(q, log[q][j])'
  BY <1>1, <1>4 DEF WasLife, Past
<1>. QED
  BY <1>5, <1>6 DEF History

LEMMA HistoryNext ==
    ASSUME TypeOK, History, [Next]_vars
    PROVE  History'
<1>0. RoomTypes /\ scene' = scene
  BY RoomNext DEF TypeOK
<1>1. ASSUME NEW r \in Rooms, Happens(r) PROVE History'
  <2>1. /\ log' = [log EXCEPT ![r] = Append(@, Next1(r))] /\ Lived(r) < Len(Life[r])
        /\ Next1(r) \in Entries(r)
    BY <1>0, <1>1, NextEntry DEF Happens
  <2>. QED
    BY <1>0, <2>1, HistoryGrows
<1>2. ASSUME NEW c \in calls, Records(c) PROVE History'
  <2>1. c.room \in Rooms /\ Answer(c.what) \in Entries(c.room) /\ Answer(c.what).kind = "resolved"
    BY DEF TypeOK, CallTypes, Calls, Entries, Answer
  <2>2. log' = [log EXCEPT ![c.room] = Append(@, Answer(c.what))]
    BY <1>2 DEF Records
  <2>. QED
    BY <1>0, <2>1, <2>2, HistoryGrows
<1>3. ASSUME UNCHANGED log PROVE History'
  <2>1. Life' = Life /\ \A r \in Rooms : Lived(r)' = Lived(r)
    BY <1>0, <1>3, SameScene DEF Lived
  <2>2. \A r \in Rooms : \A j \in DOMAIN log[r] : WasLife(r, log[r][j]) => WasLife(r, log[r][j])'
    BY <1>3, <2>1 DEF WasLife
  <2>. QED
    BY <1>3, <2>2 DEF History
<1>4. ASSUME NEW r \in Rooms, Asks(r) \/ ApproveLooks(r) \/ Enter(r) PROVE UNCHANGED log
  BY <1>4 DEF Asks, ApproveLooks, Enter, Key, server
<1>5. ASSUME NEW s \in DOMAIN followers, FollowerStep(s) PROVE UNCHANGED log
  BY <1>5 DEF FollowerStep, Connects, Delivers, Breaks, server
<1>6. ASSUME NEW k \in DOMAIN tasks, TaskStep(k) PROVE UNCHANGED log
  BY <1>6 DEF TaskStep, Reads, Passes, Fails, server
<1>7. ASSUME NEW c \in calls, Resolves(c) \/ Refused(c) \/ CallFails(c) PROVE UNCHANGED log
  BY <1>7 DEF Resolves, Refused, CallFails, server
<1>8. ASSUME NewRoom \/ Open \/ Leave \/ Resolve \/ Dismiss \/ Approve \/ ApprovePosts \/ Handles \/ UNCHANGED vars
      PROVE  UNCHANGED log
  BY <1>8 DEF NewRoom, Open, Leave, Resolve, Dismiss, Approve, ApprovePosts, Handles, Key, server, vars
<1>. QED
  BY <1>1, <1>2, <1>3, <1>4, <1>5, <1>6, <1>7, <1>8 DEF Next, Keys, CallStep

(***************************************************************************)
(* Requests are not buried.                                                *)
(***************************************************************************)

(* An answer to "which requests wait" that no later one has overtaken.      *)
Fresh(m) == m.kind = "load" /\ ~m.late
NoneFresh(s) == \A k \in DOMAIN s : ~Fresh(s[k])

(* The last question is still on its way to a room where i waits, or has    *)
(* heard of it, ...                                                         *)
Bears(t, r, i) ==
    /\ Fresh(t)
    /\ (t.at = "asked" /\ t.room = r) \/ (t.at = "told" /\ i \in ToSet(t.list))
LastAsks(s, k, r, i) ==
    k \in DOMAIN s /\ Bears(s[k], r, i) /\ \A j \in DOMAIN s : j > k => s[j].kind # "load"
Asking(s, r, i) == \E k \in DOMAIN s : LastAsks(s, k, r, i)

(* ... or its answer is the last to come, ...                               *)
LastSays(s, p, i) ==
    /\ p \in DOMAIN s /\ Fresh(s[p]) /\ i \in ToSet(s[p].list)
    /\ \A q \in DOMAIN s : q > p => ~Fresh(s[q])
Saying(s, i) == \E p \in DOMAIN s : LastSays(s, p, i)

(* ... or has come, unless a late one has come since.                       *)
Comes(i) ==
    \/ Asking(tasks, screen.room, i)
    \/ /\ NoneFresh(tasks)
       /\ \/ Saying(inbox, i)
          \/ NoneFresh(inbox) /\ (screen.stale \/ i \in ToSet(screen.pending))

(* The view has been shown the event of a request, or has answered it.      *)
IsAsked(e, i) == e.kind = "requested" /\ e.what = i
Underway(j) == \E p \in DOMAIN inbox :
    inbox[p].kind = "event" /\ inbox[p].from = screen.stream /\ inbox[p].seq = j
WasShown(i) == \E j \in 1..followers[screen.stream].since :
    IsAsked(log[screen.room][j], i) /\ ~Underway(j)
IsCalled(i) == \E c \in calls : c.at = "posted" /\ c.room = screen.room /\ c.what = i

NoneLost == InRoom /\ ~lost =>
    \A i \in waiting[screen.room] : WasShown(i) => IsCalled(i) \/ Comes(i)

LEMMA NoneLostShows == NoneLost => NothingBuried
<1>. SUFFICES ASSUME NoneLost, InRoom, Quiet, ~screen.stale, ~lost, NEW i \in waiting[screen.room]
              PROVE  i \in ToSet(screen.pending)
  BY DEF NothingBuried
<1>1. PICK j \in DOMAIN log[screen.room] : IsAsked(log[screen.room][j], i)
  BY DEF Quiet, IsAsked
<1>2. inbox = <<>> /\ calls = {} /\ NoneFresh(tasks)
  BY DEF Quiet, NoneFresh, Fresh
<1>3. ~Underway(j) /\ ~Saying(inbox, i) /\ ~IsCalled(i)
  BY <1>2 DEF Underway, Saying, IsCalled
<1>4. ~Asking(tasks, screen.room, i)
  BY <1>2 DEF NoneFresh, Asking, LastAsks, Bears
<1>5. followers[screen.stream].since = Len(log[screen.room])
  BY DEF Quiet
<1>6. WasShown(i) => i \in ToSet(screen.pending)
  BY <1>3, <1>4 DEF NoneLost, Comes
<1>. HIDE DEF Quiet
<1>7. CASE j \in 1..Len(log[screen.room])
  BY <1>1, <1>3, <1>5, <1>6, <1>7 DEF WasShown
<1>8. CASE j \notin 1..Len(log[screen.room])
  BY <1>1, <1>8
<1>. QED
  BY <1>7, <1>8

(* A message or a task more changes nothing, unless it is an answer.        *)
LEMMA AppendedAsk ==
    ASSUME NEW S, NEW s \in Seq(S), NEW e \in S, e.kind # "load", NEW r, NEW i
    PROVE  /\ Asking(s, r, i) => Asking(Append(s, e), r, i)
           /\ NoneFresh(s) => NoneFresh(Append(s, e))
<1>1. /\ Len(s) \in Nat /\ DOMAIN s = 1..Len(s) /\ DOMAIN Append(s, e) = 1..(Len(s) + 1)
      /\ \A k \in 1..Len(s) : Append(s, e)[k] = s[k]
      /\ Append(s, e)[Len(s) + 1] = e
  BY SeqElements, SeqAppend
<1>. DEFINE t == Append(s, e)
<1>. HIDE DEF t
<1>2. ASSUME NEW k \in DOMAIN s, LastAsks(s, k, r, i) PROVE LastAsks(t, k, r, i)
  <2>1. k \in DOMAIN t /\ t[k] = s[k]
    BY <1>1 DEF t
  <2>2. ASSUME NEW j \in DOMAIN t, j > k PROVE t[j].kind # "load"
    <3>1. CASE j \in DOMAIN s
      BY <1>1, <1>2, <2>2, <3>1 DEF t, LastAsks
    <3>2. CASE j \notin DOMAIN s
      <4>1. j = Len(s) + 1
        BY <1>1, <3>2 DEF t
      <4>. QED
        BY <1>1, <4>1 DEF t
    <3>. QED
      BY <3>1, <3>2
  <2>. QED
    BY <1>2, <2>1, <2>2 DEF LastAsks
<1>3. Asking(s, r, i) => Asking(t, r, i)
  BY <1>2 DEF Asking, LastAsks
<1>4. ASSUME NoneFresh(s), NEW j \in DOMAIN t PROVE ~Fresh(t[j])
  <2>1. CASE j \in DOMAIN s
    BY <1>1, <1>4, <2>1 DEF t, NoneFresh
  <2>2. CASE j \notin DOMAIN s
    <3>1. j = Len(s) + 1
      BY <1>1, <2>2 DEF t
    <3>. QED
      BY <1>1, <3>1 DEF t, Fresh
  <2>. QED
    BY <2>1, <2>2
<1>. QED
  BY <1>3, <1>4 DEF t, NoneFresh

LEMMA AppendedSay ==
    ASSUME NEW S, NEW s \in Seq(S), NEW e \in S, NEW i
    PROVE  /\ Fresh(e) /\ i \in ToSet(e.list) => Saying(Append(s, e), i)
           /\ ~Fresh(e) /\ Saying(s, i) => Saying(Append(s, e), i)
           /\ ~Fresh(e) /\ NoneFresh(s) => NoneFresh(Append(s, e))
<1>. DEFINE t == Append(s, e)
<1>1. /\ Len(s) \in Nat /\ DOMAIN s = 1..Len(s) /\ DOMAIN t = 1..(Len(s) + 1)
      /\ \A k \in 1..Len(s) : t[k] = s[k]
      /\ t[Len(s) + 1] = e
  BY SeqElements, SeqAppend
<1>. HIDE DEF t
<1>2. ASSUME Fresh(e), i \in ToSet(e.list) PROVE Saying(t, i)
  <2>1. Len(s) + 1 \in DOMAIN t /\ \A q \in DOMAIN t : ~(q > Len(s) + 1)
    BY <1>1
  <2>2. LastSays(t, Len(s) + 1, i)
    BY <1>1, <1>2, <2>1 DEF LastSays
  <2>. QED
    BY <2>1, <2>2 DEF Saying
<1>3. ASSUME ~Fresh(e), NEW j \in DOMAIN t, j \notin DOMAIN s PROVE ~Fresh(t[j])
  <2>1. j = Len(s) + 1
    BY <1>1, <1>3
  <2>. QED
    BY <1>1, <1>3, <2>1
<1>4. ASSUME ~Fresh(e), NEW p \in DOMAIN s, LastSays(s, p, i) PROVE LastSays(t, p, i)
  <2>1. p \in DOMAIN t /\ t[p] = s[p]
    BY <1>1
  <2>2. ASSUME NEW q \in DOMAIN t, q > p PROVE ~Fresh(t[q])
    <3>1. CASE q \in DOMAIN s
      BY <1>1, <1>4, <2>2, <3>1 DEF LastSays
    <3>. QED
      BY <1>3, <1>4, <3>1
  <2>. QED
    BY <1>4, <2>1, <2>2 DEF LastSays
<1>5. ~Fresh(e) /\ Saying(s, i) => Saying(t, i)
  BY <1>4 DEF Saying, LastSays
<1>6. ASSUME ~Fresh(e), NoneFresh(s), NEW j \in DOMAIN t PROVE ~Fresh(t[j])
  <2>1. CASE j \in DOMAIN s
    BY <1>1, <1>6, <2>1 DEF NoneFresh
  <2>. QED
    BY <1>3, <1>6, <2>1
<1>. QED
  BY <1>2, <1>5, <1>6 DEF t, NoneFresh

(* A question the view asks now is the last one.                            *)
LEMMA SpawnedAsk ==
    ASSUME TypeOK, NEW r, Spawn("load", r), NEW i
    PROVE  Asking(tasks', r, i)
<1>. DEFINE n == Len(tasks) + 1
            t == Task("load", r)
<1>1. n \in DOMAIN tasks' /\ tasks'[n] = t /\ \A j \in DOMAIN tasks' : ~(j > n)
  BY DEF Spawn, TypeOK, TaskTypes
<1>2. Bears(t, r, i)
  BY DEF Task, Bears, Fresh
<1>3. LastAsks(tasks', n, r, i)
  <2>. HIDE DEF n, t
  <2>. QED
    BY <1>1, <1>2 DEF LastAsks
<1>. QED
  BY <1>1, <1>3 DEF Asking

(* A question that is heard is told of every request that waits.            *)
LEMMA ReadAsk ==
    ASSUME TypeOK, RequestsKnown, NEW k \in DOMAIN tasks, Reads(k), InRoom,
           NEW i \in waiting[screen.room]
    PROVE  /\ Asking(tasks, screen.room, i) => Asking(tasks', screen.room, i)
           /\ NoneFresh(tasks) => NoneFresh(tasks')
<1>. DEFINE r == screen.room
<1>0. /\ tasks \in Seq(GoodTasks) /\ tasks[k] \in GoodTasks /\ r \in Rooms
      /\ tasks[k].kind \in {"load", "open"} /\ tasks[k].at = "asked"
  <2>1. tasks \in Seq(GoodTasks) /\ r \in Rooms
    BY TasksGood, ScreenKnows DEF TypeOK
  <2>2. tasks[k] \in GoodTasks
    BY <2>1, SeqElements
  <2>3. tasks[k].kind \in {"load", "open"}
    BY <2>2 DEF GoodTasks, Tasks
  <2>. QED
    BY <2>1, <2>2, <2>3 DEF Reads
<1>1. DOMAIN tasks' = DOMAIN tasks /\ \A j \in DOMAIN tasks : j # k => tasks'[j] = tasks[j]
  BY <1>0 DEF Reads
<1>2. /\ tasks'[k].kind = tasks[k].kind /\ tasks'[k].late = tasks[k].late
      /\ tasks[k].kind = "load" =>
            tasks'[k].at = "told" /\ tasks'[k].list = Listed(tasks[k].room)
  <2>1. CASE tasks[k].kind = "open"
    <3>1. PICK q \in Rooms : tasks' = [tasks EXCEPT ![k].at = "told", ![k].room = q]
      BY <2>1 DEF Reads
    <3>. DEFINE t == [[tasks[k] EXCEPT !.at = "told"] EXCEPT !.room = q]
    <3>2. tasks' = [tasks EXCEPT ![k] = t]
      BY <3>1
    <3>3. t.kind = tasks[k].kind /\ t.late = tasks[k].late
      BY <1>0 DEF GoodTasks, Tasks
    <3>. HIDE DEF t
    <3>4. tasks'[k] = t
      BY <1>0, <3>2
    <3>. QED
      BY <2>1, <3>3, <3>4
  <2>2. CASE tasks[k].kind = "load"
    <3>. DEFINE l == Listed(tasks[k].room)
                t == [[tasks[k] EXCEPT !.at = "told"] EXCEPT !.list = l]
    <3>1. tasks' = [tasks EXCEPT ![k] = t]
      BY <2>2 DEF Reads
    <3>. HIDE DEF l
    <3>2. t.kind = tasks[k].kind /\ t.late = tasks[k].late /\ t.at = "told" /\ t.list = l
      BY <1>0 DEF GoodTasks, Tasks
    <3>. HIDE DEF t
    <3>3. tasks'[k] = t
      BY <1>0, <3>1
    <3>. QED
      BY <3>2, <3>3 DEF l
  <2>. QED
    BY <1>0, <2>1, <2>2
<1>3. ASSUME Bears(tasks[k], r, i) PROVE Bears(tasks'[k], r, i)
  <2>1. tasks[k].kind = "load" /\ tasks[k].room = r
    BY <1>0, <1>3 DEF Bears, Fresh
  <2>2. PICK l \in DOMAIN Life[r] : Life[r][l].kind = "requested" /\ Life[r][l].what = i
    BY <1>0 DEF RequestsKnown, IsRequest
  <2>3. Waits(r, l)
    BY <2>2 DEF Waits
  <2>4. i \in ToSet(Listed(r))
    BY <1>0, <2>2, <2>3, ListedTypes DEF TypeOK
  <2>. QED
    BY <1>2, <1>3, <2>1, <2>4 DEF Bears, Fresh
<1>4. ASSUME NEW w \in DOMAIN tasks, LastAsks(tasks, w, r, i) PROVE LastAsks(tasks', w, r, i)
  <2>1. Bears(tasks'[w], r, i)
    BY <1>1, <1>3, <1>4 DEF LastAsks
  <2>2. \A j \in DOMAIN tasks' : j > w => tasks'[j].kind # "load"
    BY <1>1, <1>2, <1>4 DEF LastAsks
  <2>. QED
    BY <1>1, <2>1, <2>2 DEF LastAsks
<1>5. NoneFresh(tasks) => NoneFresh(tasks')
  BY <1>1, <1>2 DEF NoneFresh, Fresh
<1>. QED
  BY <1>4, <1>5 DEF Asking, LastAsks

(* A task is over: the others move up.                                      *)
Moved(k, j) == IF j < k THEN j ELSE j + 1

LEMMA MovedUp ==
    ASSUME NEW n \in Nat \ {0}, NEW k \in 1..n
    PROVE  /\ \A j \in 1..(n - 1) : Moved(k, j) \in 1..n /\ Moved(k, j) # k
           /\ \A o \in 1..n : o # k => \E j \in 1..(n - 1) : Moved(k, j) = o
           /\ \A a, b \in 1..(n - 1) : a > b => Moved(k, a) > Moved(k, b)
<1>1. \A j \in 1..(n - 1) : Moved(k, j) \in 1..n /\ Moved(k, j) # k
  BY DEF Moved
<1>2. ASSUME NEW o \in 1..n, o # k PROVE \E j \in 1..(n - 1) : Moved(k, j) = o
  <2>1. CASE o < k
    BY <2>1 DEF Moved
  <2>2. CASE o > k
    <3>1. o - 1 \in 1..(n - 1) /\ Moved(k, o - 1) = o
      BY <2>2 DEF Moved
    <3>. QED
      BY <3>1
  <2>. QED
    BY <1>2, <2>1, <2>2
<1>3. \A a, b \in 1..(n - 1) : a > b => Moved(k, a) > Moved(k, b)
  BY DEF Moved
<1>. QED
  BY <1>1, <1>2, <1>3

LEMMA OverAsk ==
    ASSUME TypeOK, NEW k \in DOMAIN tasks, NEW r, NEW i,
           DOMAIN tasks' = 1..(Len(tasks) - 1),
           \A j \in DOMAIN tasks' : /\ tasks'[j].kind = tasks[Moved(k, j)].kind
                                    /\ Fresh(tasks'[j]) => Fresh(tasks[Moved(k, j)])
                                    /\ k < Moved(k, j) \/ tasks[k].kind # "load" =>
                                          tasks'[j] = tasks[Moved(k, j)]
    PROVE  /\ \A w \in DOMAIN tasks : w # k /\ LastAsks(tasks, w, r, i) => Asking(tasks', r, i)
           /\ NoneFresh(tasks) => NoneFresh(tasks')
<1>. DEFINE n == Len(tasks)
<1>0. n \in Nat \ {0} /\ k \in 1..n /\ DOMAIN tasks = 1..n /\ DOMAIN tasks' = 1..(n - 1)
  BY DEF TypeOK, TaskTypes
<1>. HIDE DEF n
<1>1. /\ \A j \in 1..(n - 1) : Moved(k, j) \in 1..n /\ Moved(k, j) # k
      /\ \A o \in 1..n : o # k => \E j \in 1..(n - 1) : Moved(k, j) = o
      /\ \A a, b \in 1..(n - 1) : a > b => Moved(k, a) > Moved(k, b)
  BY <1>0, MovedUp
<1>2. ASSUME NEW w \in DOMAIN tasks, w # k, LastAsks(tasks, w, r, i) PROVE Asking(tasks', r, i)
  <2>1. PICK v \in 1..(n - 1) : Moved(k, v) = w
    BY <1>0, <1>1, <1>2
  <2>2. k < w \/ tasks[k].kind # "load"
    BY <1>0, <1>2 DEF LastAsks
  <2>3. tasks'[v] = tasks[w]
    BY <1>0, <2>1, <2>2
  <2>4. ASSUME NEW j \in DOMAIN tasks', j > v PROVE tasks'[j].kind # "load"
    <3>1. Moved(k, j) > w /\ Moved(k, j) \in DOMAIN tasks
      BY <1>0, <1>1, <2>1, <2>4
    <3>. QED
      BY <1>2, <3>1 DEF LastAsks
  <2>5. LastAsks(tasks', v, r, i)
    BY <1>0, <1>2, <2>3, <2>4 DEF LastAsks
  <2>. QED
    BY <1>0, <2>5 DEF Asking
<1>3. ASSUME NoneFresh(tasks), NEW j \in DOMAIN tasks' PROVE ~Fresh(tasks'[j])
  BY <1>0, <1>1, <1>3 DEF NoneFresh
<1>. QED
  BY <1>2, <1>3 DEF NoneFresh

LEMMA FailAsk ==
    ASSUME TypeOK, NEW k \in DOMAIN tasks, Fails(k), tasks[k].kind # "load", NEW r, NEW i
    PROVE  /\ Asking(tasks, r, i) => Asking(tasks', r, i)
           /\ NoneFresh(tasks) => NoneFresh(tasks')
<1>1. /\ DOMAIN tasks' = 1..(Len(tasks) - 1)
      /\ \A j \in DOMAIN tasks' : tasks'[j] = tasks[Moved(k, j)]
  <2>1. tasks \in Seq(Tasks) /\ tasks' = RemoveAt(tasks, k)
    BY DEF TypeOK, TaskTypes, Fails
  <2>. QED
    BY <2>1, SeqRemove DEF Moved
<1>2. /\ \A w \in DOMAIN tasks : w # k /\ LastAsks(tasks, w, r, i) => Asking(tasks', r, i)
      /\ NoneFresh(tasks) => NoneFresh(tasks')
  BY <1>1, OverAsk
<1>3. ~LastAsks(tasks, k, r, i)
  BY DEF LastAsks, Bears, Fresh
<1>. QED
  BY <1>2, <1>3 DEF Asking, LastAsks

(* The answer to the last question overtakes all others and none overtakes  *)
(* it.                                                                      *)
LEMMA PassAsk ==
    ASSUME TypeOK, NEW k \in DOMAIN tasks, Passes(k), UNCHANGED screen, NEW i, Comes(i)
    PROVE  Comes(i)'
<1>. DEFINE t == tasks[k]
            r == screen.room
            m == [kind |-> t.kind, room |-> t.room, seq |-> 0, from |-> 0, list |-> t.list,
                  late |-> t.late]
            F(j) == IF j < k /\ t.kind = "load" THEN [tasks[j] EXCEPT !.late = TRUE] ELSE tasks[j]
            G == [j \in DOMAIN tasks |-> F(j)]
<1>1. tasks \in Seq(GoodTasks) /\ t \in GoodTasks /\ t.at = "told" /\ Len(tasks) \in Nat
      /\ DOMAIN tasks = 1..Len(tasks) /\ \A j \in DOMAIN tasks : tasks[j] \in GoodTasks
  BY TasksGood, SeqElements DEF TypeOK, Passes
<1>2. tasks' = RemoveAt(G, k) /\ inbox' = Append(inbox, m)
  BY DEF Passes, Says
<1>3. G \in Seq(GoodTasks) /\ k \in DOMAIN G /\ Len(G) = Len(tasks) /\ \A j \in DOMAIN tasks : G[j] = F(j)
  <2>1. G \in Seq(GoodTasks)
    BY <1>1, LatesGood
  <2>2. DOMAIN G = 1..Len(tasks) /\ \A j \in DOMAIN tasks : G[j] = F(j)
    BY <1>1
  <2>. HIDE DEF G
  <2>. QED
    BY <1>1, <2>1, <2>2, SeqElements
<1>4. ASSUME NEW j \in DOMAIN tasks
      PROVE  /\ F(j).kind = tasks[j].kind /\ (Fresh(F(j)) => Fresh(tasks[j]))
             /\ k < j \/ t.kind # "load" => F(j) = tasks[j]
             /\ j < k /\ t.kind = "load" => ~Fresh(F(j))
  <2>1. tasks[j] \in GoodTasks /\ j \in Nat /\ k \in Nat
    BY <1>1
  <2>2. CASE j < k /\ t.kind = "load"
    <3>1. F(j) = [tasks[j] EXCEPT !.late = TRUE]
      BY <2>2
    <3>2. F(j).kind = tasks[j].kind /\ F(j).late = TRUE
      BY <2>1, <3>1 DEF GoodTasks, Tasks
    <3>. HIDE DEF F
    <3>. QED
      BY <2>1, <2>2, <3>2 DEF Fresh
  <2>3. CASE ~(j < k /\ t.kind = "load")
    <3>1. F(j) = tasks[j]
      BY <2>3
    <3>. HIDE DEF F
    <3>. QED
      BY <2>3, <3>1
  <2>. QED
    BY <2>2, <2>3
<1>. HIDE DEF F, G
<1>5. DOMAIN tasks' = 1..(Len(tasks) - 1) /\ \A j \in DOMAIN tasks' : tasks'[j] = G[Moved(k, j)]
  BY <1>2, <1>3, SeqRemove DEF Moved
<1>6. \A j \in DOMAIN tasks' : Moved(k, j) \in DOMAIN tasks /\ Moved(k, j) # k
  <2>1. Len(tasks) \in Nat \ {0} /\ k \in 1..Len(tasks)
    BY <1>1
  <2>. QED
    BY <1>1, <1>5, <2>1, MovedUp
<1>7. \A j \in DOMAIN tasks' : tasks'[j] = F(Moved(k, j))
  BY <1>3, <1>5, <1>6
<1>8. \A j \in DOMAIN tasks' : /\ tasks'[j].kind = tasks[Moved(k, j)].kind
                               /\ Fresh(tasks'[j]) => Fresh(tasks[Moved(k, j)])
                               /\ k < Moved(k, j) \/ tasks[k].kind # "load" =>
                                     tasks'[j] = tasks[Moved(k, j)]
  BY <1>4, <1>6, <1>7
<1>9. /\ \A w \in DOMAIN tasks : w # k /\ LastAsks(tasks, w, r, i) => Asking(tasks', r, i)
      /\ NoneFresh(tasks) => NoneFresh(tasks')
  BY <1>5, <1>8, OverAsk
<1>10. /\ Fresh(m) /\ i \in ToSet(m.list) => Saying(inbox', i)
       /\ ~Fresh(m) /\ Saying(inbox, i) => Saying(inbox', i)
       /\ ~Fresh(m) /\ NoneFresh(inbox) => NoneFresh(inbox')
  <2>1. inbox \in Seq(Messages) /\ m \in Messages
    BY <1>1 DEF TypeOK, InboxTypes, GoodTasks, Tasks, Messages
  <2>. HIDE DEF m
  <2>. QED
    BY <1>2, <2>1, AppendedSay
<1>11. (Fresh(m) <=> Fresh(t)) /\ m.list = t.list
  BY DEF Fresh
<1>. HIDE DEF m
<1>12. CASE LastAsks(tasks, k, r, i)
  <2>1. Fresh(t) /\ t.kind = "load" /\ i \in ToSet(t.list)
    BY <1>1, <1>12 DEF LastAsks, Bears, Fresh
  <2>2. Saying(inbox', i)
    BY <1>10, <1>11, <2>1
  <2>3. ASSUME NEW j \in DOMAIN tasks' PROVE ~Fresh(tasks'[j])
    <3>1. CASE Moved(k, j) < k
      BY <1>4, <1>6, <1>7, <2>1, <3>1
    <3>2. CASE Moved(k, j) > k
      <4>1. tasks[Moved(k, j)].kind # "load"
        BY <1>6, <1>12, <3>2 DEF LastAsks
      <4>. QED
        BY <1>8, <4>1 DEF Fresh
    <3>3. Moved(k, j) < k \/ Moved(k, j) > k
      BY <1>1, <1>6
    <3>. QED
      BY <3>1, <3>2, <3>3
  <2>. QED
    BY <2>2, <2>3 DEF Comes, NoneFresh
<1>13. CASE \E w \in DOMAIN tasks : w # k /\ LastAsks(tasks, w, r, i)
  BY <1>9, <1>13 DEF Comes
<1>14. CASE NoneFresh(tasks)
  <2>1. ~Fresh(t) /\ NoneFresh(tasks')
    BY <1>9, <1>14 DEF NoneFresh
  <2>2. CASE Asking(tasks, r, i)
    BY <1>9, <1>12, <2>2 DEF Asking, LastAsks, Comes
  <2>3. CASE Saying(inbox, i) \/ (NoneFresh(inbox) /\ (screen.stale \/ i \in ToSet(screen.pending)))
    BY <1>10, <1>11, <2>1, <2>3 DEF Comes
  <2>. QED
    BY <2>2, <2>3 DEF Comes
<1>. QED
  BY <1>12, <1>13, <1>14 DEF Comes, Asking, LastAsks

(* What was shown stays so, and nothing else was while the channel keeps    *)
(* its messages.                                                            *)
LEMMA WasShownBefore ==
    ASSUME TypeOK, Grows, InRoom, UNCHANGED <<screen.stream, screen.room>>,
           followers'[screen.stream].since = followers[screen.stream].since,
           \A p \in DOMAIN inbox : \E q \in DOMAIN inbox' : inbox'[q] = inbox[p],
           NEW i, WasShown(i)'
    PROVE  WasShown(i)
<1>. DEFINE s == screen.stream
            r == screen.room
<1>1. s \in DOMAIN followers /\ r = followers[s].room /\ r \in Rooms
  BY ScreenKnows DEF TypeOK, ScreenTypes
<1>2. PICK j \in 1..followers[s].since : IsAsked(log'[r][j], i) /\ ~Underway(j)'
  BY DEF WasShown
<1>3. j \in DOMAIN log[r]
  <2>1. followers[s].since \in Nat /\ followers[s].since <= Len(log[r]) /\ DOMAIN log[r] = 1..Len(log[r])
        /\ Len(log[r]) \in Nat
    BY <1>1, VisitTypes, LogTypes DEF TypeOK
  <2>. QED
    BY <2>1
<1>4. IsAsked(log[r][j], i)
  BY <1>1, <1>2, <1>3 DEF Grows
<1>5. ~Underway(j)
  BY <1>2 DEF Underway
<1>. QED
  BY <1>2, <1>4, <1>5 DEF WasShown

(* The view asks again when it is shown that something was requested.       *)
LEMMA ShownIsAskedFor ==
    ASSUME TypeOK, Handles, Head(inbox).kind = "event", InRoom,
           NEW i, WasShown(i)'
    PROVE  /\ ~WasShown(i) => Asking(tasks', screen.room, i)
           /\ UNCHANGED tasks \/ Asking(tasks', screen.room, i)
           /\ screen'.pending = screen.pending /\ (screen'.stale <=> screen.stale)
           /\ screen'.room = screen.room /\ UNCHANGED followers
           /\ inbox' = Tail(inbox)
<1>. DEFINE m == Head(inbox)
            s == screen.stream
            r == screen.room
<1>0. /\ inbox # <<>> /\ inbox' = Tail(inbox) /\ OnEvent(m) /\ UNCHANGED <<server, followers>>
  BY DEF Handles
<1>1. /\ m \in Messages /\ IsMessage(m)
      /\ s \in DOMAIN followers /\ r = followers[s].room
  BY <1>0, FirstMessage DEF TypeOK, ScreenTypes
<1>2. /\ screen'.pending = screen.pending /\ (screen'.stale <=> screen.stale)
      /\ screen'.room = screen.room /\ screen'.stream = screen.stream
  <2>1. CASE m.room = r
    BY <1>0, <2>1, OnEventIs
  <2>2. CASE m.room # r
    BY <1>0, <2>2 DEF OnEvent
  <2>. QED
    BY <2>1, <2>2
<1>3. UNCHANGED tasks \/ Asking(tasks', r, i)
  BY <1>0, SpawnedAsk DEF OnEvent
<1>4. ASSUME ~WasShown(i) PROVE Asking(tasks', r, i)
  <2>1. PICK j \in 1..followers[s].since : IsAsked(log[r][j], i) /\ ~Underway(j)'
    BY <1>0, <1>2 DEF WasShown, server
  <2>2. Underway(j)
    BY <1>4, <2>1 DEF WasShown
  <2>3. PICK p \in DOMAIN inbox : inbox[p].kind = "event" /\ inbox[p].from = s /\ inbox[p].seq = j
    BY <2>2 DEF Underway
  <2>4. p = 1
    <3>1. SUFFICES ASSUME p # 1 PROVE FALSE
      OBVIOUS
    <3>2. inbox \in Seq(Messages)
      BY DEF TypeOK, InboxTypes
    <3>3. p - 1 \in DOMAIN inbox' /\ inbox'[p - 1] = inbox[p]
      BY <1>0, <3>1, <3>2, SeqTail, SeqElements
    <3>4. Underway(j)'
      BY <1>2, <2>3, <3>3 DEF Underway
    <3>. QED
      BY <2>1, <3>4
  <2>5. m.from = s /\ m.seq = j
    BY <1>0, <2>3, <2>4, SeqTail DEF TypeOK, InboxTypes
  <2>6. m.room = r
    BY <1>1, <2>5 DEF IsMessage
  <2>7. LoadsOn(log[m.room][m.seq])
    BY <2>1, <2>5, <2>6 DEF LoadsOn, IsAsked
  <2>8. Spawn("load", r)
    BY <1>0, <2>6, <2>7 DEF OnEvent, InRoom
  <2>. QED
    BY <2>8, SpawnedAsk
<1>. QED
  BY <1>0, <1>2, <1>3, <1>4

(* An event that is taken from the channel is no answer.                    *)
LEMMA TailSays ==
    ASSUME NEW S, NEW s \in Seq(S), s # <<>>, NEW i
    PROVE  /\ ~Fresh(Head(s)) /\ Saying(s, i) => Saying(Tail(s), i)
           /\ Fresh(Head(s)) /\ Saying(s, i) =>
                 Saying(Tail(s), i) \/ (NoneFresh(Tail(s)) /\ i \in ToSet(Head(s).list))
           /\ NoneFresh(s) => NoneFresh(Tail(s)) /\ ~Fresh(Head(s))
<1>. DEFINE t == Tail(s)
            n == Len(s)
<1>1. /\ n \in Nat \ {0} /\ DOMAIN s = 1..n /\ DOMAIN t = 1..(n - 1) /\ Head(s) = s[1]
      /\ \A k \in 1..(n - 1) : t[k] = s[k + 1]
  BY SeqTail, SeqElements
<1>. HIDE DEF t, n
<1>2. ASSUME NEW p \in DOMAIN s, LastSays(s, p, i), p # 1 PROVE Saying(t, i)
  <2>1. p - 1 \in DOMAIN t /\ t[p - 1] = s[p]
    BY <1>1, <1>2
  <2>2. ASSUME NEW q \in DOMAIN t, q > p - 1 PROVE ~Fresh(t[q])
    <3>1. q + 1 \in DOMAIN s /\ q + 1 > p /\ t[q] = s[q + 1]
      BY <1>1, <2>2
    <3>. QED
      BY <1>2, <3>1 DEF LastSays
  <2>3. LastSays(t, p - 1, i)
    BY <1>2, <2>1, <2>2 DEF LastSays
  <2>. QED
    BY <2>1, <2>3 DEF Saying
<1>3. ASSUME LastSays(s, 1, i) PROVE NoneFresh(t) /\ i \in ToSet(Head(s).list) /\ Fresh(Head(s))
  <2>1. ASSUME NEW q \in DOMAIN t PROVE ~Fresh(t[q])
    <3>1. q + 1 \in DOMAIN s /\ q + 1 > 1 /\ t[q] = s[q + 1]
      BY <1>1
    <3>. QED
      BY <1>3, <3>1 DEF LastSays
  <2>. QED
    BY <1>1, <1>3, <2>1 DEF LastSays, NoneFresh
<1>4. ASSUME NoneFresh(s) PROVE NoneFresh(t) /\ ~Fresh(Head(s))
  <2>1. \A q \in DOMAIN t : q + 1 \in DOMAIN s /\ t[q] = s[q + 1]
    BY <1>1
  <2>2. 1 \in DOMAIN s
    BY <1>1
  <2>. QED
    BY <1>1, <1>4, <2>1, <2>2 DEF NoneFresh
<1>5. Saying(s, i) => Saying(t, i) \/ LastSays(s, 1, i)
  BY <1>2 DEF Saying, LastSays
<1>. QED
  BY <1>3, <1>4, <1>5 DEF t

LEMMA BuriedNext ==
    ASSUME TypeOK, RequestsKnown, History, NoneLost, [Next]_vars
    PROVE  NoneLost'
<1>0. TypeOK' /\ Grows /\ scene' = scene
  BY TypeNext, RoomNext
<1>. SUFFICES ASSUME InRoom', ~lost', NEW i \in waiting'[screen'.room], WasShown(i)',
                     ~IsCalled(i)'
              PROVE  Comes(i)'
  BY DEF NoneLost
<1>. DEFINE r == screen.room
            s == screen.stream
            Same == InRoom /\ ~lost /\ UNCHANGED <<screen.stream, screen.room>>
                    /\ followers'[s].since = followers[s].since
            Holds == \A p \in DOMAIN inbox : \E q \in DOMAIN inbox' : inbox'[q] = inbox[p]
<1>1. ASSUME Same, Holds, i \in waiting[r], ~IsCalled(i) PROVE Comes(i)
  <2>1. WasShown(i)
    BY <1>0, <1>1, WasShownBefore
  <2>. QED
    BY <1>1, <2>1 DEF NoneLost
<1>2. ASSUME Same, UNCHANGED <<inbox, calls>>, i \in waiting[r] PROVE Comes(i)
  <2>1. Holds
    BY <1>2
  <2>2. ~IsCalled(i)
    BY <1>2 DEF IsCalled
  <2>. QED
    BY <1>1, <1>2, <2>1, <2>2
<1>3. ASSUME Same, UNCHANGED <<inbox, calls, tasks, screen>>, i \in waiting[r] PROVE Comes(i)'
  <2>1. Comes(i)
    BY <1>2, <1>3
  <2>. QED
    BY <1>3, <2>1 DEF Comes
<1>4. ASSUME UNCHANGED <<screen, lost, followers>> PROVE Same
  BY <1>4 DEF InRoom
<1>5. ASSUME InRoom PROVE r \in Rooms /\ s \in DOMAIN followers /\ r = followers[s].room
  BY <1>5, ScreenKnows DEF TypeOK, ScreenTypes
<1>6. ASSUME NEW q \in Rooms, Asks(q) PROVE Comes(i)'
  <2>1. Same /\ UNCHANGED <<inbox, calls, tasks, screen, followers, log>>
    BY <1>4, <1>6 DEF Asks
  <2>2. /\ waiting' = [waiting EXCEPT ![q] = @ \cup {Next1(q).what}] /\ Next1(q).kind = "requested"
        /\ Lived(q) < Len(Life[q])
    BY <1>6 DEF Asks
  <2>3. CASE i \in waiting[r]
    BY <1>3, <2>1, <2>3
  <2>4. CASE i \notin waiting[r]
    <3>1. r = q /\ i = Next1(q).what
      BY <1>5, <2>1, <2>2, <2>4 DEF TypeOK, RoomTypes
    <3>2. PICK j \in 1..followers[s].since : IsAsked(log[r][j], i)
      BY <2>1 DEF WasShown
    <3>3. j \in DOMAIN log[r]
      <4>1. followers[s].since \in Nat /\ followers[s].since <= Len(log[r]) /\ DOMAIN log[r] = 1..Len(log[r])
            /\ Len(log[r]) \in Nat
        BY <1>5, <2>1, VisitTypes, LogTypes DEF TypeOK
      <4>. QED
        BY <4>1
    <3>. QED
      BY <2>2, <3>1, <3>2, <3>3, NextIsNew DEF TypeOK, IsAsked
  <2>. QED
    BY <2>3, <2>4
<1>7. ASSUME NEW q \in Rooms, Happens(q) PROVE Comes(i)'
  <2>1. Same /\ UNCHANGED <<inbox, calls, tasks, screen>>
    BY <1>4, <1>7 DEF Happens
  <2>2. \A p \in Rooms : waiting'[p] \subseteq waiting[p]
    BY <1>7 DEF Happens, TypeOK, RoomTypes
  <2>. QED
    BY <1>3, <1>5, <2>1, <2>2
<1>8. ASSUME NEW q \in Rooms, ApproveLooks(q) PROVE Comes(i)'
  BY <1>3, <1>4, <1>8 DEF ApproveLooks, server
<1>9. ASSUME NEW x \in DOMAIN followers, Connects(x) \/ Breaks(x) PROVE Comes(i)'
  <2>1. UNCHANGED <<inbox, calls, tasks, screen, lost, waiting>> /\ InRoom
    BY <1>9 DEF Connects, Breaks, server, InRoom
  <2>2. followers'[s].since = followers[s].since
    <3>1. followers \in Seq(Visits) /\ s \in DOMAIN followers
      BY <1>5, <2>1 DEF TypeOK, FollowerTypes
    <3>2. PICK at \in {"on", "off"} : followers' = [followers EXCEPT ![x].at = at]
      BY <1>9 DEF Connects, Breaks
    <3>3. followers' = [followers EXCEPT ![x] = [followers[x] EXCEPT !.at = at]]
      BY <3>2
    <3>4. [followers[x] EXCEPT !.at = at].since = followers[x].since
      BY <3>1, VisitSet, SeqElements
    <3>. QED
      BY <3>1, <3>3, <3>4
  <2>. QED
    BY <1>3, <2>1, <2>2
<1>10. ASSUME NEW x \in DOMAIN followers, Delivers(x) PROVE Comes(i)'
  <2>. DEFINE m == [kind |-> "event", room |-> followers[x].room, seq |-> followers[x].since + 1,
                    from |-> x, list |-> <<>>, late |-> FALSE]
  <2>1. /\ UNCHANGED <<calls, tasks, screen, lost, waiting, log>> /\ InRoom
        /\ inbox' = Append(inbox, m)
    BY <1>10 DEF Delivers, Says, server, InRoom
  <2>2. inbox \in Seq(Messages) /\ ~Fresh(m)
    BY DEF TypeOK, InboxTypes, Fresh
  <2>3. /\ Len(inbox) \in Nat /\ DOMAIN inbox = 1..Len(inbox) /\ DOMAIN inbox' = 1..(Len(inbox) + 1)
        /\ \A p \in 1..Len(inbox) : inbox'[p] = inbox[p]
        /\ inbox'[Len(inbox) + 1] = m
    <3>. HIDE DEF m
    <3>. QED
      BY <2>1, <2>2
  <2>4. Holds
    BY <2>3
  <2>5. WasShown(i)
    <3>1. CASE x # s
      <4>1. followers'[s].since = followers[s].since
        BY <1>5, <1>10, <2>1, <3>1 DEF Delivers, TypeOK, FollowerTypes
      <4>. QED
        BY <1>0, <2>1, <2>4, <4>1, WasShownBefore
    <3>2. CASE x = s
      <4>1. followers'[s].since = followers[s].since + 1 /\ followers[s].since \in Nat
        <5>1. followers[s] \in Visits /\ followers[s].since \in Nat /\ followers[s].since + 1 \in Nat
          BY <1>5, <2>1, VisitTypes
        <5>. DEFINE f == [followers[s] EXCEPT !.since = followers[s].since + 1]
        <5>2. followers' = [followers EXCEPT ![s] = f]
          BY <1>10, <3>2 DEF Delivers
        <5>3. f.since = followers[s].since + 1
          BY <5>1, VisitSet
        <5>. HIDE DEF f
        <5>. QED
          BY <1>5, <2>1, <5>1, <5>2, <5>3 DEF TypeOK, FollowerTypes
      <4>2. PICK j \in 1..(followers[s].since + 1) : IsAsked(log[r][j], i) /\ ~Underway(j)'
        BY <2>1, <4>1 DEF WasShown
      <4>3. j # followers[s].since + 1
        <5>1. SUFFICES ASSUME j = followers[s].since + 1 PROVE FALSE
          OBVIOUS
        <5>2. m.kind = "event" /\ m.from = screen'.stream /\ m.seq = j
          BY <2>1, <3>2, <5>1
        <5>3. Len(inbox) + 1 \in DOMAIN inbox' /\ inbox'[Len(inbox) + 1] = m
          BY <2>3
        <5>4. Underway(j)'
          <6>. HIDE DEF m
          <6>. QED
            BY <5>2, <5>3 DEF Underway
        <5>. QED
          BY <4>2, <5>4
      <4>4. j \in 1..followers[s].since
        BY <4>1, <4>2, <4>3
      <4>5. ~Underway(j)
        BY <2>1, <2>4, <4>2 DEF Underway
      <4>. QED
        BY <4>2, <4>4, <4>5 DEF WasShown
    <3>. QED
      BY <3>1, <3>2
  <2>6. ~IsCalled(i)
    BY <2>1 DEF IsCalled
  <2>7. Comes(i)
    BY <2>1, <2>5, <2>6 DEF NoneLost
  <2>8. m \in Messages
    <3>1. followers[x].room \in Rooms /\ followers[x].since \in Nat /\ x \in Nat
      BY VisitTypes
    <3>2. <<>> \in Seq(Whats) /\ followers[x].since + 1 \in Nat
      BY <3>1
    <3>. QED
      BY <3>1, <3>2 DEF Messages
  <2>9. (Saying(inbox, i) => Saying(inbox', i)) /\ (NoneFresh(inbox) => NoneFresh(inbox'))
    <3>. HIDE DEF m
    <3>. QED
      BY <2>1, <2>2, <2>8, AppendedSay
  <2>. QED
    BY <2>1, <2>7, <2>9 DEF Comes
<1>11. ASSUME NEW k \in DOMAIN tasks, Reads(k) PROVE Comes(i)'
  <2>1. UNCHANGED <<inbox, calls, screen, lost, waiting, followers>>
    BY <1>11 DEF Reads
  <2>2. Comes(i) /\ i \in waiting[r] /\ InRoom
    BY <1>2, <1>4, <2>1 DEF InRoom
  <2>3. /\ Asking(tasks, r, i) => Asking(tasks', r, i)
        /\ NoneFresh(tasks) => NoneFresh(tasks')
    BY <1>11, <2>2, ReadAsk
  <2>. QED
    BY <2>1, <2>2, <2>3 DEF Comes
<1>12. ASSUME NEW k \in DOMAIN tasks, Passes(k) PROVE Comes(i)'
  <2>1. UNCHANGED <<calls, screen, lost, waiting, followers>>
    BY <1>12 DEF Passes, server
  <2>2. Holds
    <3>1. PICK m : inbox' = Append(inbox, m)
      BY <1>12 DEF Passes, Says
    <3>2. inbox \in Seq(Messages)
      BY DEF TypeOK, InboxTypes
    <3>3. \A p \in DOMAIN inbox : p \in DOMAIN inbox' /\ inbox'[p] = inbox[p]
      BY <3>1, <3>2
    <3>. QED
      BY <3>3
  <2>3. ~IsCalled(i)
    BY <2>1 DEF IsCalled
  <2>4. Comes(i)
    BY <1>1, <1>4, <2>1, <2>2, <2>3
  <2>. QED
    BY <1>12, <2>1, <2>4, PassAsk
<1>13. ASSUME NEW k \in DOMAIN tasks, Fails(k) PROVE Comes(i)'
  <2>1. /\ UNCHANGED <<inbox, calls, screen, waiting, followers>>
        /\ lost' = (lost \/ tasks[k].kind = "load")
    BY <1>13 DEF Fails, server
  <2>2. ~lost /\ tasks[k].kind # "load"
    BY <2>1
  <2>3. Comes(i)
    BY <1>2, <2>1, <2>2 DEF InRoom
  <2>4. /\ Asking(tasks, r, i) => Asking(tasks', r, i)
        /\ NoneFresh(tasks) => NoneFresh(tasks')
    BY <1>13, <2>2, FailAsk
  <2>. QED
    BY <2>1, <2>3, <2>4 DEF Comes
<1>14. ASSUME NEW c \in calls, CallStep(c) PROVE Comes(i)'
  <2>1. UNCHANGED <<inbox, tasks, screen, followers>> /\ (lost => lost')
    BY <1>14 DEF CallStep, Resolves, Refused, Records, CallFails, server
  <2>2. Same /\ Holds
    BY <2>1 DEF InRoom
  <2>3. i \in waiting[r]
    <3>1. CASE Resolves(c)
      BY <1>5, <2>1, <3>1 DEF Resolves, TypeOK, RoomTypes, InRoom
    <3>2. CASE ~Resolves(c)
      BY <1>14, <2>1, <3>2 DEF CallStep, Refused, Records, CallFails, server
    <3>. QED
      BY <3>1, <3>2
  <2>4. ~IsCalled(i)
    <3>1. SUFFICES ASSUME NEW d \in calls, d.at = "posted", d.room = r, d.what = i PROVE FALSE
      BY DEF IsCalled
    <3>2. d \notin calls'
      BY <2>1, <3>1 DEF IsCalled
    <3>3. d = c
      BY <1>14, <3>2 DEF CallStep, Resolves, Refused, Records, CallFails
    <3>4. CASE Resolves(c)
      <4>1. i \notin waiting'[r]
        BY <1>5, <2>1, <3>1, <3>3, <3>4 DEF Resolves, TypeOK, RoomTypes, InRoom
      <4>. QED
        BY <2>1, <4>1
    <3>5. CASE Refused(c)
      BY <2>3, <3>1, <3>3, <3>5 DEF Refused
    <3>6. CASE Records(c)
      BY <3>1, <3>3, <3>6 DEF Records
    <3>7. CASE CallFails(c)
      BY <3>7 DEF CallFails
    <3>. QED
      BY <1>14, <3>4, <3>5, <3>6, <3>7 DEF CallStep
  <2>5. Comes(i)
    BY <1>1, <2>2, <2>3, <2>4
  <2>. QED
    BY <2>1, <2>5 DEF Comes
<1>15. ASSUME ApprovePosts PROVE Comes(i)'
  <2>1. UNCHANGED <<inbox, tasks, screen, followers, lost, waiting>> /\ calls \subseteq calls'
    BY <1>15 DEF ApprovePosts, server
  <2>2. ~IsCalled(i)
    BY <2>1 DEF IsCalled
  <2>3. Comes(i)
    <3>1. Holds
      BY <2>1
    <3>. QED
      BY <1>1, <1>4, <2>1, <2>2, <3>1
  <2>. QED
    BY <2>1, <2>3 DEF Comes
<1>16. ASSUME NEW q \in Rooms, EnterRoom(q) PROVE FALSE
  <2>1. /\ screen'.stream = Len(followers) + 1
        /\ followers'[Len(followers) + 1] = [room |-> q, since |-> 0, at |-> "off"]
    BY <1>16, EnteredIs
  <2>2. followers'[screen'.stream].since = 0
    BY <2>1
  <2>3. \E j \in 1..followers'[screen'.stream].since : TRUE
    BY DEF WasShown
  <2>. QED
    BY <2>2, <2>3
<1>17. ASSUME Handles PROVE Comes(i)'
  <2>0. /\ inbox # <<>> /\ inbox' = Tail(inbox) /\ inbox \in Seq(Messages)
        /\ UNCHANGED <<calls, lost, waiting, log>>
        /\ Head(inbox).kind \in {"event", "load", "open"} /\ Head(inbox).room \in Rooms
    BY <1>17, FirstMessage DEF Handles, server, TypeOK, InboxTypes
  <2>1. /\ ~Fresh(Head(inbox)) /\ Saying(inbox, i) => Saying(inbox', i)
        /\ Fresh(Head(inbox)) /\ Saying(inbox, i) =>
              Saying(inbox', i) \/ (NoneFresh(inbox') /\ i \in ToSet(Head(inbox).list))
        /\ NoneFresh(inbox) => NoneFresh(inbox') /\ ~Fresh(Head(inbox))
    BY <2>0, TailSays
  <2>2. CASE Head(inbox).kind = "event"
    <3>1. InRoom
      <4>1. CASE screen.at # "room"
        BY <1>17, <2>2, <4>1 DEF Handles, OnEvent, InRoom
      <4>. QED
        BY <4>1 DEF InRoom
    <3>2. /\ ~WasShown(i) => Asking(tasks', r, i)
          /\ UNCHANGED tasks \/ Asking(tasks', r, i)
          /\ screen'.pending = screen.pending /\ (screen'.stale <=> screen.stale)
          /\ screen'.room = screen.room
      BY <1>17, <2>2, <3>1, ShownIsAskedFor
    <3>3. CASE Asking(tasks', r, i)
      BY <3>2, <3>3 DEF Comes
    <3>4. CASE ~Asking(tasks', r, i)
      <4>1. WasShown(i) /\ UNCHANGED tasks /\ i \in waiting[r] /\ ~IsCalled(i)
        BY <2>0, <3>2, <3>4 DEF IsCalled
      <4>2. Comes(i)
        BY <2>0, <3>1, <4>1 DEF NoneLost
      <4>3. ~Fresh(Head(inbox))
        BY <2>2 DEF Fresh
      <4>. QED
        BY <2>1, <3>2, <4>1, <4>2, <4>3 DEF Comes
    <3>. QED
      BY <3>3, <3>4
  <2>3. CASE Head(inbox).kind = "load"
    <3>1. InRoom
      BY <1>17, <2>3 DEF Handles, InRoom
    <3>2. /\ screen'.stream = screen.stream /\ screen'.room = screen.room
          /\ screen'.pending = Head(inbox).list /\ (screen'.stale <=> Head(inbox).late)
          /\ UNCHANGED <<tasks, followers>>
      BY <1>17, <2>3, <3>1, LoadIs
    <3>3. WasShown(i)
      <4>1. PICK j \in 1..followers[s].since : IsAsked(log[r][j], i) /\ ~Underway(j)'
        BY <2>0, <3>2 DEF WasShown
      <4>2. ~Underway(j)
        <5>1. SUFFICES ASSUME NEW p \in DOMAIN inbox, inbox[p].kind = "event", inbox[p].from = s,
                              inbox[p].seq = j
                       PROVE  FALSE
          BY DEF Underway
        <5>2. p # 1
          BY <2>0, <2>3, <5>1, SeqTail
        <5>3. p - 1 \in DOMAIN inbox' /\ inbox'[p - 1] = inbox[p]
          BY <2>0, <5>2, SeqTail, SeqElements
        <5>. QED
          BY <3>2, <4>1, <5>1, <5>3 DEF Underway
      <4>. QED
        BY <4>1, <4>2 DEF WasShown
    <3>4. ~IsCalled(i) /\ i \in waiting[r]
      BY <2>0, <3>2 DEF IsCalled
    <3>5. Comes(i)
      BY <2>0, <3>1, <3>3, <3>4 DEF NoneLost
    <3>6. Fresh(Head(inbox)) <=> ~Head(inbox).late
      BY <2>3 DEF Fresh
    <3>. QED
      BY <2>1, <3>2, <3>5, <3>6 DEF Comes
  <2>4. CASE Head(inbox).kind = "open"
    BY <1>16, <1>17, <2>0, <2>4 DEF Handles
  <2>. QED
    BY <2>0, <2>2, <2>3, <2>4
<1>18. ASSUME NewRoom \/ Leave PROVE FALSE
  BY <1>18, BlankTypes DEF NewRoom, Leave, LeaveRoom, InRoom, Blank
<1>19. ASSUME Open PROVE Comes(i)'
  <2>1. /\ UNCHANGED <<inbox, calls, screen, waiting, followers, lost>>
        /\ tasks' = Append(tasks, Task("open", Nothing))
    BY <1>19 DEF Open, Key, server, Spawn
  <2>2. Comes(i)
    BY <1>2, <1>4, <2>1
  <2>3. /\ tasks \in Seq(GoodTasks) /\ Task("open", Nothing) \in GoodTasks
        /\ Task("open", Nothing).kind # "load"
    BY TasksGood, TaskIsGood DEF TypeOK, Task
  <2>4. /\ Asking(tasks, r, i) => Asking(tasks', r, i)
        /\ NoneFresh(tasks) => NoneFresh(tasks')
    BY <2>1, <2>3, AppendedAsk
  <2>. QED
    BY <2>1, <2>2, <2>4 DEF Comes
<1>20. ASSUME Dismiss \/ Approve PROVE Comes(i)'
  <2>1. /\ UNCHANGED <<inbox, calls, waiting, followers, lost, tasks>>
        /\ screen'.at = screen.at /\ screen'.stream = s /\ screen'.room = r
        /\ screen'.pending = screen.pending /\ screen'.stale = screen.stale
    BY <1>20 DEF Dismiss, Approve, Key, server, TypeOK, ScreenTypes, Screens
  <2>2. Comes(i)
    BY <1>2, <2>1 DEF InRoom
  <2>. QED
    BY <2>1, <2>2 DEF Comes
<1>21. ASSUME Resolve PROVE Comes(i)'
  <2>. DEFINE p == screen.pending
  <2>1. /\ UNCHANGED <<inbox, waiting, followers, lost, tasks>> /\ p # <<>> /\ p \in Seq(Whats)
        /\ calls' = calls \cup {Call("view", r, p[1])} /\ InRoom
    BY <1>21, ScreenKnows DEF Resolve, server, InRoom
  <2>2. /\ screen'.stream = s /\ screen'.room = r /\ screen'.pending = Tail(p)
        /\ screen'.stale = screen.stale
    <3>. DEFINE t == Tail(p)
                q == Len(p) > 1
    <3>1. screen' = [screen EXCEPT !.pending = t, !.prompt = q] /\ screen \in Screens
      BY <1>21 DEF Resolve, TypeOK, ScreenTypes
    <3>. HIDE DEF t, q
    <3>2. screen'.stream = s /\ screen'.room = r /\ screen'.pending = t /\ screen'.stale = screen.stale
      BY <3>1 DEF Screens
    <3>. QED
      BY <3>2 DEF t
  <2>3. ~IsCalled(i) /\ i # p[1]
    <3>. DEFINE c == Call("view", r, p[1])
    <3>1. c \in calls' /\ c.at = "posted" /\ c.room = r /\ c.what = p[1]
      BY <2>1 DEF Call
    <3>2. calls \subseteq calls'
      BY <2>1
    <3>. HIDE DEF c
    <3>3. \A d \in calls' : ~(d.at = "posted" /\ d.room = r /\ d.what = i)
      BY <2>2 DEF IsCalled
    <3>. QED
      BY <3>1, <3>2, <3>3 DEF IsCalled
  <2>4. Comes(i)
    <3>1. Same
      BY <2>1, <2>2
    <3>2. Holds
      BY <2>1
    <3>. QED
      BY <1>1, <2>1, <2>2, <2>3, <3>1, <3>2
  <2>5. i \in ToSet(p) => i \in ToSet(Tail(p))
    <3>1. SUFFICES ASSUME i \in ToSet(p) PROVE i \in ToSet(Tail(p))
      OBVIOUS
    <3>2. PICK k \in DOMAIN p : p[k] = i
      BY <3>1 DEF ToSet
    <3>3. k - 1 \in DOMAIN Tail(p) /\ Tail(p)[k - 1] = i
      BY <2>1, <2>3, <3>2, SeqTail, SeqElements, SMTT(30)
    <3>. QED
      BY <3>3 DEF ToSet
  <2>. QED
    BY <2>1, <2>2, <2>4, <2>5 DEF Comes
<1>22. ASSUME NEW q \in Rooms, Enter(q) PROVE Comes(i)'
  BY <1>16, <1>22 DEF Enter
<1>23. CASE UNCHANGED vars
  BY <1>3, <1>4, <1>23 DEF vars, server
<1>. QED
  BY <1>6, <1>7, <1>8, <1>9, <1>10, <1>11, <1>12, <1>13, <1>14, <1>15, <1>17, <1>18, <1>19, <1>20,
     <1>21, <1>22, <1>23 DEF Next, Keys, FollowerStep, TaskStep

LEMMA BuriedInit == Init => NoneLost
BY BlankTypes DEF Init, NoneLost, InRoom

(* A view that rests shows every request of its room that waits: what it    *)
(* was shown of it is asked for, on its way, or on the screen, whatever was *)
(* answered, cancelled, dismissed, left and entered.  It is not so once a   *)
(* call has failed, nor while the list it was given last answers an earlier *)
(* question than the one before it (on_message, load_interactions, app.rs). *)
THEOREM NoRequestIsBuried == Spec => []NothingBuried
<1>. DEFINE Inv == TypeOK /\ RequestsKnown /\ AnsweredAtHome /\ History /\ NoneLost
<1>1. Init => Inv
  BY TypeInit, AnswersInit, HistoryInit, BuriedInit
<1>2. Inv /\ [Next]_vars => Inv'
  BY TypeNext, AnswersNext, HistoryNext, BuriedNext
<1>3. Inv => NothingBuried
  BY NoneLostShows
<1>. HIDE DEF Inv
<1>. QED
  BY <1>1, <1>2, <1>3, PTL DEF Spec

(***************************************************************************)
(* A pane is the log.                                                      *)
(***************************************************************************)

(* One block: lines of the log in order, and of one turn if of an agent.    *)
OneBlock(b, es, n) ==
    /\ Len(b.lines) > 0
    /\ \A x \in 1..Len(b.lines) : b.lines[x] \in 1..n /\ IsLine(es, b.lines[x])
    /\ \A x \in 2..Len(b.lines) : b.lines[x - 1] < b.lines[x] /\ Joined(es, b.lines[x - 1], b.lines[x])
    /\ LET e == es[b.lines[Len(b.lines)]] IN
       /\ b.voice = "agent" <=> e.kind = "part"
       /\ b.voice = "agent" => b.turn = e.turn

(* The next block begins later, and could not have been joined.             *)
Splits(b, c, es) ==
    b.lines[Len(b.lines)] < c.lines[1] /\ ~Joined(es, b.lines[Len(b.lines)], c.lines[1])

InBlock(b, k) == \E x \in 1..Len(b.lines) : b.lines[x] = k
SaidIn(es, n, i) == \E k \in 1..n : es[k].kind = "said" /\ es[k].what = i
StartedIn(es, n, t) == \E k \in 1..n : es[k].kind = "started" /\ es[k].turn = t
EndedIn(es, n, t) == \E k \in 1..n : es[k].kind \in Ends /\ es[k].turn = t

(* What is shown is the log up to its n-th event.                           *)
BlocksShow(said, es, n) ==
    /\ \A b \in DOMAIN said : OneBlock(said[b], es, n)
    /\ \A b \in 2..Len(said) : Splits(said[b - 1], said[b], es)
    /\ \A k \in 1..n : IsLine(es, k) => \E b \in DOMAIN said : InBlock(said[b], k)
Shows(v, es, n) ==
    /\ BlocksShow(v.said, es, n)
    /\ \A i : i \in v.groups <=> SaidIn(es, n, i)
    /\ \A t : t \in v.running <=> StartedIn(es, n, t) /\ ~EndedIn(es, n, t)

(* A line is one by what comes before it.                                   *)
LEMMA SamePast ==
    ASSUME NEW es, NEW fs, NEW n \in Nat, \A k \in 1..n : fs[k] = es[k]
    PROVE  /\ \A k \in 1..n : IsLine(fs, k) <=> IsLine(es, k)
           /\ \A j, k \in 1..n : Joined(fs, j, k) <=> Joined(es, j, k)
           /\ \A i : SaidIn(fs, n, i) <=> SaidIn(es, n, i)
           /\ \A t : (StartedIn(fs, n, t) <=> StartedIn(es, n, t)) /\ (EndedIn(fs, n, t) <=> EndedIn(es, n, t))
<1>1. ASSUME NEW k \in 1..n PROVE IsLine(fs, k) <=> IsLine(es, k)
  <2>1. fs[k] = es[k] /\ \A j \in 1..k - 1 : j \in 1..n /\ fs[j] = es[j]
    OBVIOUS
  <2>. QED
    BY <2>1 DEF IsLine
<1>2. \A j, k \in 1..n : Joined(fs, j, k) <=> Joined(es, j, k)
  BY DEF Joined
<1>3. \A i : SaidIn(fs, n, i) <=> SaidIn(es, n, i)
  BY DEF SaidIn
<1>4. \A t : (StartedIn(fs, n, t) <=> StartedIn(es, n, t)) /\ (EndedIn(fs, n, t) <=> EndedIn(es, n, t))
  BY DEF StartedIn, EndedIn
<1>. QED
  BY <1>1, <1>2, <1>3, <1>4

LEMMA BlockLines ==
    ASSUME NEW b \in Blocks, NEW es, NEW n \in Nat, OneBlock(b, es, n)
    PROVE  /\ b.lines \in Seq(Nat) /\ Len(b.lines) \in Nat /\ Len(b.lines) >= 1
           /\ DOMAIN b.lines = 1..Len(b.lines) /\ 1 \in 1..Len(b.lines)
           /\ Len(b.lines) \in 1..Len(b.lines)
           /\ b.lines[1] \in 1..n /\ b.lines[Len(b.lines)] \in 1..n
           /\ \A x \in 2..Len(b.lines) : x - 1 \in 1..Len(b.lines) /\ x \in 1..Len(b.lines)
<1>1. b.lines \in Seq(Nat)
  BY DEF Blocks
<1>2. Len(b.lines) \in Nat /\ DOMAIN b.lines = 1..Len(b.lines) /\ Len(b.lines) >= 1
  BY <1>1, SeqElements DEF OneBlock
<1>3. 1 \in 1..Len(b.lines) /\ Len(b.lines) \in 1..Len(b.lines)
  BY <1>2
<1>. QED
  BY <1>1, <1>2, <1>3 DEF OneBlock

LEMMA ShowsSame ==
    ASSUME NEW v, v.said \in Seq(Blocks), NEW es, NEW fs, NEW n \in Nat,
           \A k \in 1..n : fs[k] = es[k], Shows(v, es, n)
    PROVE  Shows(v, fs, n)
<1>0. /\ \A k \in 1..n : IsLine(fs, k) <=> IsLine(es, k)
      /\ \A j, k \in 1..n : Joined(fs, j, k) <=> Joined(es, j, k)
      /\ \A i : SaidIn(fs, n, i) <=> SaidIn(es, n, i)
      /\ \A t : (StartedIn(fs, n, t) <=> StartedIn(es, n, t)) /\ (EndedIn(fs, n, t) <=> EndedIn(es, n, t))
  BY SamePast
<1>1. Len(v.said) \in Nat /\ DOMAIN v.said = 1..Len(v.said) /\ \A b \in DOMAIN v.said : v.said[b] \in Blocks
  BY SeqElements
<1>2. ASSUME NEW b \in DOMAIN v.said PROVE OneBlock(v.said[b], fs, n)
  <2>1. v.said[b] \in Blocks /\ OneBlock(v.said[b], es, n)
    BY <1>1 DEF Shows, BlocksShow
  <2>. DEFINE l == v.said[b].lines
  <2>2. /\ Len(l) \in 1..Len(l) /\ l[Len(l)] \in 1..n
        /\ \A x \in 2..Len(l) : x - 1 \in 1..Len(l) /\ x \in 1..Len(l)
        /\ \A x \in 1..Len(l) : l[x] \in 1..n
    BY <2>1, BlockLines DEF OneBlock
  <2>3. fs[l[Len(l)]] = es[l[Len(l)]]
    BY <2>2
  <2>4. \A x \in 1..Len(l) : l[x] \in 1..n /\ IsLine(fs, l[x])
    BY <1>0, <2>1 DEF OneBlock
  <2>5. \A x \in 2..Len(l) : l[x - 1] < l[x] /\ Joined(fs, l[x - 1], l[x])
    BY <1>0, <2>1, <2>2 DEF OneBlock
  <2>. QED
    BY <2>1, <2>3, <2>4, <2>5 DEF OneBlock
<1>3. ASSUME NEW b \in 2..Len(v.said) PROVE Splits(v.said[b - 1], v.said[b], fs)
  <2>1. b - 1 \in DOMAIN v.said /\ b \in DOMAIN v.said
    BY <1>1
  <2>2. /\ v.said[b - 1] \in Blocks /\ v.said[b] \in Blocks
        /\ OneBlock(v.said[b - 1], es, n) /\ OneBlock(v.said[b], es, n)
    BY <1>1, <2>1 DEF Shows, BlocksShow
  <2>3. v.said[b - 1].lines[Len(v.said[b - 1].lines)] \in 1..n /\ v.said[b].lines[1] \in 1..n
    BY <2>2, BlockLines
  <2>4. Splits(v.said[b - 1], v.said[b], es)
    BY DEF Shows, BlocksShow
  <2>. QED
    BY <1>0, <2>3, <2>4 DEF Splits
<1>4. \A k \in 1..n : IsLine(fs, k) => \E b \in DOMAIN v.said : InBlock(v.said[b], k)
  BY <1>0 DEF Shows, BlocksShow
<1>5. BlocksShow(v.said, fs, n)
  BY <1>2, <1>3, <1>4 DEF BlocksShow
<1>. QED
  BY <1>0, <1>5 DEF Shows

(* Nothing is shown of a room that is entered, and nothing of its log.      *)
LEMMA ShowsNothing ==
    ASSUME NEW v, v.said = <<>>, v.groups = {}, v.running = {}, NEW es
    PROVE  Shows(v, es, 0)
<1>1. BlocksShow(<<>>, es, 0)
  BY DEF BlocksShow
<1>2. \A i : ~SaidIn(es, 0, i) /\ ~StartedIn(es, 0, i)
  BY DEF SaidIn, StartedIn
<1>. QED
  BY <1>1, <1>2 DEF Shows

LEMMA OneMore ==
    ASSUME NEW es, NEW n \in Nat
    PROVE  /\ \A b : OneBlock(b, es, n) => OneBlock(b, es, n + 1)
           /\ \A i : SaidIn(es, n + 1, i) <=>
                 SaidIn(es, n, i) \/ (es[n + 1].kind = "said" /\ es[n + 1].what = i)
           /\ \A t : StartedIn(es, n + 1, t) <=>
                 StartedIn(es, n, t) \/ (es[n + 1].kind = "started" /\ es[n + 1].turn = t)
           /\ \A t : EndedIn(es, n + 1, t) <=>
                 EndedIn(es, n, t) \/ (es[n + 1].kind \in Ends /\ es[n + 1].turn = t)
<1>1. 1..(n + 1) = (1..n) \cup {n + 1}
  OBVIOUS
<1>2. \A b : OneBlock(b, es, n) => OneBlock(b, es, n + 1)
  BY <1>1, Zenon DEF OneBlock
<1>3. \A i : SaidIn(es, n + 1, i) <=>
         SaidIn(es, n, i) \/ (es[n + 1].kind = "said" /\ es[n + 1].what = i)
  BY <1>1, Zenon DEF SaidIn
<1>4. \A t : StartedIn(es, n + 1, t) <=>
         StartedIn(es, n, t) \/ (es[n + 1].kind = "started" /\ es[n + 1].turn = t)
  BY <1>1, Zenon DEF StartedIn
<1>5. \A t : EndedIn(es, n + 1, t) <=>
         EndedIn(es, n, t) \/ (es[n + 1].kind \in Ends /\ es[n + 1].turn = t)
  BY <1>1, Zenon DEF EndedIn
<1>. QED
  BY <1>2, <1>3, <1>4, <1>5

(* Which events are lines.                                                  *)
LEMMA LineOrNot ==
    ASSUME NEW v, NEW es, NEW n \in Nat, Shows(v, es, n)
    PROVE  IsLine(es, n + 1) <=> Joins(v, es[n + 1]) \/ NewBlock(v, es[n + 1])
<1>. DEFINE e == es[n + 1]
<1>1. (n + 1) - 1 = n
  OBVIOUS
<1>2. IsLine(es, n + 1) <=> \/ e.kind \in {"part", "failed"}
                            \/ e.kind = "said" /\ \A j \in 1..n : ~(es[j].kind = "said" /\ es[j].what = e.what)
  BY <1>1 DEF IsLine
<1>3. e.what \in v.groups <=> SaidIn(es, n, e.what)
  BY DEF Shows
<1>4. IsLine(es, n + 1) <=> \/ e.kind \in {"part", "failed"}
                            \/ e.kind = "said" /\ e.what \notin v.groups
  BY <1>2, <1>3 DEF SaidIn
<1>. QED
  BY <1>4 DEF Joins, NewBlock

LEMMA JoinShows ==
    ASSUME NEW v, v.said \in Seq(Blocks), NEW es, NEW n \in Nat, Shows(v, es, n), Joins(v, es[n + 1])
    PROVE  BlocksShow([v.said EXCEPT ![Len(v.said)] = Longer(v.said[Len(v.said)], n + 1)], es, n + 1)
<1>. DEFINE N == Len(v.said)
            b == v.said[N]
            c == Longer(b, n + 1)
            said == [v.said EXCEPT ![N] = c]
            l == b.lines
            L == Len(l)
            e == es[n + 1]
<1>0. BlocksShow(v.said, es, n)
  BY DEF Shows
<1>1. /\ N \in Nat /\ N \in DOMAIN v.said /\ DOMAIN v.said = 1..N
      /\ \A x \in DOMAIN v.said : v.said[x] \in Blocks /\ OneBlock(v.said[x], es, n)
  BY <1>0, SeqElements DEF Joins, BlocksShow
<1>2. DOMAIN said = 1..N /\ Len(said) = N /\ \A x \in 1..N : said[x] = IF x = N THEN c ELSE v.said[x]
  BY <1>1
<1>3. b \in Blocks /\ OneBlock(b, es, n) /\ b.voice = "agent" /\ b.turn = e.turn /\ e.kind = "part"
  BY <1>1 DEF Joins
<1>4. /\ l \in Seq(Nat) /\ L \in Nat /\ L >= 1 /\ 1 \in 1..L /\ L \in 1..L /\ l[1] \in 1..n /\ l[L] \in 1..n
      /\ \A x \in 2..L : x - 1 \in 1..L /\ x \in 1..L
  BY <1>3, BlockLines
<1>5. es[l[L]].kind = "part" /\ es[l[L]].turn = e.turn /\ Joined(es, l[L], n + 1)
  BY <1>3 DEF OneBlock, Joined
<1>6. c.voice = b.voice /\ c.turn = b.turn /\ c.lines = Append(l, n + 1)
  BY <1>3 DEF Longer, Blocks
<1>7. Len(c.lines) = L + 1 /\ c.lines[L + 1] = n + 1 /\ \A x \in 1..L : c.lines[x] = l[x]
  <2>1. n + 1 \in Nat /\ l \in Seq(Nat) /\ c.lines = Append(l, n + 1)
    BY <1>4, <1>6
  <2>. HIDE DEF l, c
  <2>. QED
    BY <2>1, SeqAppend
<1>. HIDE DEF N, b, c, said, l, L
<1>8. IsLine(es, n + 1)
  BY LineOrNot
<1>9. OneBlock(c, es, n + 1)
  <2>1. Len(c.lines) > 0
    BY <1>4, <1>7
  <2>2. ASSUME NEW x \in 1..(L + 1) PROVE c.lines[x] \in 1..(n + 1) /\ IsLine(es, c.lines[x])
    <3>1. CASE x \in 1..L
      <4>1. c.lines[x] = l[x] /\ l[x] \in 1..n /\ IsLine(es, l[x])
        BY <1>3, <1>7, <3>1 DEF OneBlock, l, L
      <4>. QED
        BY <4>1
    <3>2. CASE x = L + 1
      BY <1>7, <1>8, <3>2
    <3>. QED
      BY <1>4, <3>1, <3>2
  <2>3. ASSUME NEW x \in 2..(L + 1)
        PROVE  c.lines[x - 1] < c.lines[x] /\ Joined(es, c.lines[x - 1], c.lines[x])
    <3>1. CASE x \in 2..L
      <4>1. c.lines[x - 1] = l[x - 1] /\ c.lines[x] = l[x]
        BY <1>4, <1>7, <3>1
      <4>2. l[x - 1] < l[x] /\ Joined(es, l[x - 1], l[x])
        BY <1>3, <3>1 DEF OneBlock, l, L
      <4>. QED
        BY <4>1, <4>2
    <3>2. CASE x = L + 1
      <4>1. x - 1 = L /\ c.lines[x - 1] = l[L] /\ c.lines[x] = n + 1 /\ l[L] < n + 1
        BY <1>4, <1>7, <3>2
      <4>. QED
        BY <1>5, <4>1
    <3>. QED
      BY <1>4, <3>1, <3>2
  <2>. QED
    BY <1>3, <1>6, <1>7, <2>1, <2>2, <2>3 DEF OneBlock
<1>10. \A x \in DOMAIN said : OneBlock(said[x], es, n + 1)
  BY <1>1, <1>2, <1>9, OneMore
<1>11. ASSUME NEW x \in 2..N PROVE Splits(said[x - 1], said[x], es)
  <2>1. x - 1 \in 1..N /\ x \in 1..N /\ x - 1 # N /\ said[x - 1] = v.said[x - 1]
    BY <1>1, <1>2
  <2>2. Splits(v.said[x - 1], v.said[x], es)
    BY <1>0 DEF BlocksShow, N
  <2>3. CASE x = N
    <3>1. said[x].lines[1] = v.said[x].lines[1]
      BY <1>2, <1>4, <1>7, <2>1, <2>3 DEF l, b
    <3>. QED
      BY <2>1, <2>2, <3>1 DEF Splits
  <2>4. CASE x # N
    BY <1>2, <2>1, <2>2, <2>4
  <2>. QED
    BY <2>3, <2>4
<1>12. ASSUME NEW k \in 1..(n + 1), IsLine(es, k) PROVE \E x \in DOMAIN said : InBlock(said[x], k)
  <2>1. CASE k \in 1..n
    <3>1. PICK x \in DOMAIN v.said : InBlock(v.said[x], k)
      BY <1>0, <1>12, <2>1 DEF BlocksShow
    <3>2. CASE x = N
      <4>1. PICK y \in 1..L : l[y] = k
        BY <3>1, <3>2 DEF InBlock, l, L, b
      <4>2. y \in 1..(L + 1) /\ c.lines[y] = k
        BY <1>4, <1>7, <4>1, SMTT(30)
      <4>3. InBlock(c, k)
        BY <1>7, <4>2 DEF InBlock
      <4>. QED
        BY <1>1, <1>2, <3>2, <4>3
    <3>3. CASE x # N
      BY <1>1, <1>2, <3>1, <3>3
    <3>. QED
      BY <3>2, <3>3
  <2>2. CASE k = n + 1
    <3>1. L + 1 \in 1..(L + 1)
      BY <1>4
    <3>2. InBlock(c, k)
      BY <1>7, <2>2, <3>1 DEF InBlock
    <3>. QED
      BY <1>1, <1>2, <3>2
  <2>. QED
    BY <2>1, <2>2
<1>13. BlocksShow(said, es, n + 1)
  BY <1>2, <1>10, <1>11, <1>12 DEF BlocksShow
<1>. QED
  BY <1>13 DEF said, N, c, b

LEMMA NewShows ==
    ASSUME NEW v, v.said \in Seq(Blocks), NEW es, NEW n \in Nat, Shows(v, es, n),
           NewBlock(v, es[n + 1]), Block(VoiceOf(es[n + 1]), TurnOf(es[n + 1]), n + 1) \in Blocks
    PROVE  BlocksShow(Append(v.said, Block(VoiceOf(es[n + 1]), TurnOf(es[n + 1]), n + 1)), es, n + 1)
<1>. DEFINE N == Len(v.said)
            e == es[n + 1]
            c == Block(VoiceOf(e), TurnOf(e), n + 1)
            said == Append(v.said, c)
<1>0. BlocksShow(v.said, es, n)
  BY DEF Shows
<1>1. /\ N \in Nat /\ DOMAIN v.said = 1..N
      /\ \A x \in DOMAIN v.said : v.said[x] \in Blocks /\ OneBlock(v.said[x], es, n)
  BY <1>0, SeqElements DEF BlocksShow
<1>2. DOMAIN said = 1..(N + 1) /\ Len(said) = N + 1 /\ said[N + 1] = c /\ \A x \in 1..N : said[x] = v.said[x]
  <2>. HIDE DEF c
  <2>. QED
    BY SeqAppend
<1>3. c.lines = <<n + 1>> /\ Len(c.lines) = 1 /\ c.lines[1] = n + 1 /\ c.voice = VoiceOf(e) /\ c.turn = TurnOf(e)
  BY DEF Block
<1>4. (VoiceOf(e) = "agent" <=> e.kind = "part") /\ (e.kind = "part" => TurnOf(e) = e.turn)
  BY DEF VoiceOf, TurnOf
<1>5. IsLine(es, n + 1)
  BY LineOrNot
<1>. HIDE DEF N, c, said
<1>6. OneBlock(c, es, n + 1)
  <2>1. \A x \in 1..1 : x = 1
    OBVIOUS
  <2>2. \A x \in 2..1 : FALSE
    OBVIOUS
  <2>3. n + 1 \in 1..(n + 1) /\ 1 > 0
    OBVIOUS
  <2>4. \A x \in 1..Len(c.lines) : c.lines[x] \in 1..(n + 1) /\ IsLine(es, c.lines[x])
    BY <1>3, <1>5, <2>1, <2>3
  <2>5. \A x \in 2..Len(c.lines) : c.lines[x - 1] < c.lines[x] /\ Joined(es, c.lines[x - 1], c.lines[x])
    BY <1>3, <2>2
  <2>6. es[c.lines[Len(c.lines)]] = e
    BY <1>3
  <2>. QED
    BY <1>3, <1>4, <2>3, <2>4, <2>5, <2>6 DEF OneBlock
<1>7. \A x \in DOMAIN said : OneBlock(said[x], es, n + 1)
  <2>1. ASSUME NEW x \in 1..N PROVE OneBlock(said[x], es, n + 1)
    BY <1>1, <1>2, OneMore
  <2>2. DOMAIN said = (1..N) \cup {N + 1}
    BY <1>1, <1>2
  <2>. QED
    BY <1>2, <1>6, <2>1, <2>2
<1>8. ASSUME NEW x \in 2..(N + 1) PROVE Splits(said[x - 1], said[x], es)
  <2>1. CASE x \in 2..N
    <3>1. x - 1 \in 1..N /\ x \in 1..N
      BY <1>1, <2>1
    <3>2. Splits(v.said[x - 1], v.said[x], es)
      BY <1>0, <2>1 DEF BlocksShow, N
    <3>. QED
      BY <1>2, <3>1, <3>2
  <2>2. CASE x = N + 1
    <3>. DEFINE b == v.said[N]
                k == b.lines[Len(b.lines)]
    <3>1. x - 1 = N /\ N \in 1..N /\ said[x - 1] = b /\ said[x] = c
      BY <1>1, <1>2, <2>2
    <3>2. b \in Blocks /\ OneBlock(b, es, n) /\ v.said # <<>>
      BY <1>1, <3>1
    <3>3. k \in 1..n
      BY <3>2, BlockLines
    <3>4. b.voice = "agent" <=> es[k].kind = "part"
      BY <3>2 DEF OneBlock
    <3>5. b.voice = "agent" => b.turn = es[k].turn
      BY <3>2 DEF OneBlock
    <3>6. ~Joined(es, k, n + 1)
      BY <3>2, <3>4, <3>5 DEF Joined, NewBlock, Joins, N
    <3>. HIDE DEF b
    <3>. QED
      BY <1>3, <3>1, <3>3, <3>6 DEF Splits
  <2>. QED
    BY <1>1, <2>1, <2>2
<1>9. ASSUME NEW k \in 1..(n + 1), IsLine(es, k) PROVE \E x \in DOMAIN said : InBlock(said[x], k)
  <2>1. CASE k \in 1..n
    <3>1. PICK x \in DOMAIN v.said : InBlock(v.said[x], k)
      BY <1>0, <1>9, <2>1 DEF BlocksShow
    <3>2. x \in DOMAIN said /\ said[x] = v.said[x]
      BY <1>1, <1>2
    <3>. QED
      BY <3>1, <3>2
  <2>2. CASE k = n + 1
    <3>1. 1 \in 1..1 /\ N + 1 \in DOMAIN said
      BY <1>1, <1>2
    <3>2. InBlock(c, k)
      BY <1>3, <2>2, <3>1 DEF InBlock
    <3>. QED
      BY <1>2, <3>1, <3>2
  <2>. QED
    BY <2>1, <2>2
<1>10. BlocksShow(said, es, n + 1)
  BY <1>2, <1>7, <1>8, <1>9 DEF BlocksShow
<1>. QED
  BY <1>10 DEF said, c

LEMMA ShowsNext ==
    ASSUME NEW v \in Screens, NEW es, NEW n \in Nat, Shows(v, es, n),
           es[n + 1].what \in Whats, es[n + 1].turn \in Turns,
           \A j \in 1..n : ~(es[j].kind \in Ends /\ es[n + 1].kind = "started"
                             /\ es[j].turn = es[n + 1].turn)
    PROVE  Shows(Shown(v, es[n + 1], n + 1), es, n + 1)
<1>. DEFINE e == es[n + 1]
            w == Shown(v, e, n + 1)
            Joining == Lengthened(v.said, n + 1)
            Adding == Append(v.said, Block(VoiceOf(e), TurnOf(e), n + 1))
<1>1. v.said \in Seq(Blocks) /\ n + 1 \in Nat
  BY DEF Screens
<1>2. /\ Joins(v, e) => w.said = Joining
      /\ NewBlock(v, e) => w.said = Adding
      /\ ~Joins(v, e) /\ ~NewBlock(v, e) => w.said = v.said
      /\ w.groups = IF e.kind = "said" THEN v.groups \cup {e.what} ELSE v.groups
      /\ w.running = IF e.kind = "started" THEN v.running \cup {e.turn}
                     ELSE IF e.kind \in Ends THEN v.running \ {e.turn} ELSE v.running
  <2>1. e.what \in Whats /\ e.turn \in Turns
    OBVIOUS
  <2>. HIDE DEF e
  <2>. HIDE DEF w
  <2>2. n + 1 \in Nat /\ v \in Screens
    BY <1>1
  <2>3. Joins(v, e) => w.said = Joining
    BY <2>1, <2>2, ShownIs, ZenonT(60) DEF w
  <2>4. NewBlock(v, e) => w.said = Adding
    BY <2>1, <2>2, ShownIs, ZenonT(60) DEF w
  <2>5. ~Joins(v, e) /\ ~NewBlock(v, e) => w.said = v.said
    BY <2>1, <2>2, ShownIs DEF w
  <2>6. w.groups = IF e.kind = "said" THEN v.groups \cup {e.what} ELSE v.groups
    BY <2>1, <2>2, ShownIs DEF w
  <2>7. w.running = IF e.kind = "started" THEN v.running \cup {e.turn}
                    ELSE IF e.kind \in Ends THEN v.running \ {e.turn} ELSE v.running
    BY <2>1, <2>2, ShownIs DEF w
  <2>. QED
    BY <2>3, <2>4, <2>5, <2>6, <2>7
<1>. HIDE DEF w, Joining, Adding
<1>3. BlocksShow(w.said, es, n + 1)
  <2>1. CASE Joins(v, e)
    BY <1>1, <1>2, <2>1, JoinShows DEF Joining, Lengthened
  <2>2. CASE NewBlock(v, e)
    <3>1. VoiceOf(e) \in {"agent", "person", "note"} /\ TurnOf(e) \in Turns
      BY NamesKnown DEF VoiceOf, TurnOf
    <3>2. <<n + 1>> \in Seq(Nat)
      BY <1>1
    <3>3. Block(VoiceOf(e), TurnOf(e), n + 1) \in Blocks
      BY <3>1, <3>2 DEF Block, Blocks
    <3>. QED
      BY <1>1, <1>2, <2>2, <3>3, NewShows DEF Adding
  <2>3. CASE ~Joins(v, e) /\ ~NewBlock(v, e)
    <3>1. ~IsLine(es, n + 1)
      BY <2>3, LineOrNot
    <3>2. BlocksShow(v.said, es, n)
      BY DEF Shows
    <3>3. 1..(n + 1) = (1..n) \cup {n + 1}
      OBVIOUS
    <3>4. BlocksShow(v.said, es, n + 1)
      BY <3>1, <3>2, <3>3, OneMore DEF BlocksShow
    <3>. QED
      BY <1>2, <2>3, <3>4
  <2>. QED
    BY <2>1, <2>2, <2>3
<1>4. \A i : i \in w.groups <=> SaidIn(es, n + 1, i)
  BY <1>2, OneMore DEF Shows
<1>5. ASSUME NEW t PROVE t \in w.running <=> StartedIn(es, n + 1, t) /\ ~EndedIn(es, n + 1, t)
  <2>1. t \in v.running <=> StartedIn(es, n, t) /\ ~EndedIn(es, n, t)
    BY DEF Shows
  <2>2. /\ StartedIn(es, n + 1, t) <=> StartedIn(es, n, t) \/ (e.kind = "started" /\ e.turn = t)
        /\ EndedIn(es, n + 1, t) <=> EndedIn(es, n, t) \/ (e.kind \in Ends /\ e.turn = t)
    BY OneMore
  <2>3. e.kind = "started" => e.kind \notin Ends /\ ~EndedIn(es, n, e.turn)
    BY DEF Ends, EndedIn
  <2>. HIDE DEF e
  <2>. QED
    BY <1>2, <2>1, <2>2, <2>3
<1>. QED
  BY <1>3, <1>4, <1>5 DEF Shows, w

(* How many of the messages from the p-th on one follower sent.             *)
Behind(s, x, p) == {q \in DOMAIN s : p <= q /\ s[q].from = x}
Owed(s, x, p) == Cardinality(Behind(s, x, p))

LEMMA OwedTypes ==
    ASSUME NEW S, NEW s \in Seq(S), NEW x, NEW p \in Nat
    PROVE  /\ IsFiniteSet(Behind(s, x, p)) /\ Owed(s, x, p) \in Nat
           /\ Behind(s, x, 1) = {q \in DOMAIN s : s[q].from = x}
           /\ \A q \in DOMAIN s : p <= q /\ s[q].from = x => Owed(s, x, p) > 0
<1>1. Len(s) \in Nat /\ DOMAIN s = 1..Len(s) /\ Behind(s, x, p) \in SUBSET (1..Len(s))
  BY SeqElements DEF Behind
<1>2. IsFiniteSet(Behind(s, x, p)) /\ Owed(s, x, p) \in Nat
  BY <1>1, RankStep DEF Owed
<1>3. Behind(s, x, 1) = {q \in DOMAIN s : s[q].from = x}
  BY <1>1 DEF Behind
<1>4. ASSUME NEW q \in DOMAIN s, p <= q, s[q].from = x PROVE Owed(s, x, p) # 0
  <2>1. Behind(s, x, p) # {}
    BY <1>4 DEF Behind
  <2>. QED
    BY <1>2, <2>1, FS_EmptySet DEF Owed
<1>. QED
  BY <1>2, <1>3, <1>4

LEMMA OwedAppend ==
    ASSUME NEW S, NEW s \in Seq(S), NEW e \in S, NEW x, NEW p \in 1..(Len(s) + 1)
    PROVE  Owed(Append(s, e), x, p) = IF e.from = x THEN Owed(s, x, p) + 1 ELSE Owed(s, x, p)
<1>. DEFINE t == Append(s, e)
            n == Len(s)
<1>1. /\ n \in Nat /\ DOMAIN s = 1..n /\ DOMAIN t = 1..(n + 1) /\ t[n + 1] = e /\ p \in Nat
      /\ p <= n + 1 /\ \A k \in 1..n : t[k] = s[k]
  BY SeqElements, SeqAppend
<1>2. IsFiniteSet(Behind(s, x, p)) /\ Owed(s, x, p) \in Nat /\ n + 1 \notin Behind(s, x, p)
  <2>1. n + 1 \notin DOMAIN s
    BY <1>1
  <2>2. IsFiniteSet(Behind(s, x, p)) /\ Owed(s, x, p) \in Nat
    BY <1>1, OwedTypes
  <2>3. n + 1 \notin Behind(s, x, p)
    BY <2>1 DEF Behind
  <2>. QED
    BY <2>2, <2>3
<1>. HIDE DEF t, n
<1>3. Behind(t, x, p) = IF e.from = x THEN Behind(s, x, p) \cup {n + 1} ELSE Behind(s, x, p)
  <2>1. DOMAIN t = DOMAIN s \cup {n + 1}
    BY <1>1
  <2>2. \A q \in DOMAIN s : t[q] = s[q]
    BY <1>1
  <2>. QED
    BY <1>1, <2>1, <2>2, Zenon DEF Behind
<1>. QED
  BY <1>2, <1>3, FS_AddElement DEF Owed, t

LEMMA OwedTail ==
    ASSUME NEW S, NEW s \in Seq(S), s # <<>>, NEW x, NEW p \in Nat \ {0}
    PROVE  /\ Owed(Tail(s), x, p) = Owed(s, x, p + 1)
           /\ Owed(s, x, 1) = IF Head(s).from = x THEN Owed(s, x, 2) + 1 ELSE Owed(s, x, 2)
<1>. DEFINE t == Tail(s)
            n == Len(s)
            A == Behind(t, x, p)
            B == Behind(s, x, p + 1)
            f == [k \in A |-> k + 1]
<1>1. /\ n \in Nat \ {0} /\ DOMAIN s = 1..n /\ DOMAIN t = 1..(n - 1) /\ Head(s) = s[1] /\ t \in Seq(S)
      /\ \A k \in 1..(n - 1) : t[k] = s[k + 1]
  BY SeqTail, SeqElements
<1>. HIDE DEF t, n
<1>2. /\ \A k \in A : k \in Nat /\ k + 1 \in B
      /\ \A k \in B : k \in Nat /\ k - 1 \in A /\ (k - 1) + 1 = k
  BY <1>1 DEF Behind
<1>3. f \in Bijection(A, B)
  <2>. HIDE DEF A, B
  <2>1. f \in [A -> B] /\ \A a, b \in A : f[a] = f[b] => a = b
    BY <1>2
  <2>2. \A b \in B : \E a \in A : f[a] = b
    BY <1>2
  <2>. QED
    BY <2>1, <2>2, Fun_IsBij
<1>4. ExistsBijection(A, B) /\ IsFiniteSet(A)
  <2>1. IsFiniteSet(A)
    BY <1>1, OwedTypes
  <2>. QED
    BY <1>3, <2>1 DEF ExistsBijection
<1>5. Owed(t, x, p) = Owed(s, x, p + 1)
  <2>. HIDE DEF A, B
  <2>1. Cardinality(A) = Cardinality(B)
    BY <1>4, FS_Bijection
  <2>. QED
    BY <2>1 DEF A, B, Owed
<1>6. Owed(s, x, 1) = IF Head(s).from = x THEN Owed(s, x, 2) + 1 ELSE Owed(s, x, 2)
  <2>1. Behind(s, x, 1) = IF Head(s).from = x THEN Behind(s, x, 2) \cup {1} ELSE Behind(s, x, 2)
    <3>1. \A q \in DOMAIN s : (1 <= q) /\ (2 <= q <=> q # 1)
      BY <1>1
    <3>2. 1 \in DOMAIN s
      BY <1>1
    <3>. QED
      BY <1>1, <3>1, <3>2, Zenon DEF Behind
  <2>2. IsFiniteSet(Behind(s, x, 2)) /\ 1 \notin Behind(s, x, 2)
    <3>1. ~(2 <= 1)
      OBVIOUS
    <3>2. IsFiniteSet(Behind(s, x, 2))
      BY OwedTypes
    <3>3. 1 \notin Behind(s, x, 2)
      BY <3>1, Zenon DEF Behind
    <3>. QED
      BY <3>2, <3>3
  <2>. QED
    BY <2>1, <2>2, FS_AddElement DEF Owed
<1>. QED
  BY <1>5, <1>6 DEF t

(* A visit's messages carry the events that follow the ones it has shown,   *)
(* each once and in their order, and unless another visit's were mixed with *)
(* them what it shows is the log up to there.                               *)
Pane(v, s, box, es, since) ==
    /\ Owed(box, s, 1) <= since
    /\ \A p \in DOMAIN box : box[p].from = s => box[p].seq + Owed(box, s, p) = since + 1
    /\ ~v.mixed => Shows(v, es, since - Owed(box, s, 1))
PaneInv == InRoom =>
    Pane(screen, screen.stream, inbox, log[screen.room], followers[screen.stream].since)

LEMMA PaneSame ==
    ASSUME NEW v, NEW w, v.said \in Seq(Blocks), w.said = v.said, w.groups = v.groups,
           w.running = v.running, v.mixed => w.mixed, NEW s, NEW box \in Seq(Messages),
           NEW es, NEW fs, NEW since \in Nat, \A k \in 1..since : fs[k] = es[k],
           Pane(v, s, box, es, since)
    PROVE  Pane(w, s, box, fs, since)
<1>. DEFINE n == since - Owed(box, s, 1)
<1>1. Owed(box, s, 1) \in Nat /\ Owed(box, s, 1) <= since
  BY OwedTypes DEF Pane
<1>2. n \in Nat /\ \A k \in 1..n : fs[k] = es[k]
  BY <1>1
<1>3. ~v.mixed => Shows(v, es, n)
  BY DEF Pane
<1>. HIDE DEF n
<1>4. ~v.mixed => Shows(v, fs, n)
  BY <1>2, <1>3, ShowsSame
<1>5. ~w.mixed => Shows(w, fs, n)
  BY <1>4 DEF Shows
<1>. QED
  BY <1>5 DEF Pane, n

LEMMA PaneAppend ==
    ASSUME NEW v, NEW s, NEW box \in Seq(Messages), NEW e \in Messages, NEW es, NEW since \in Nat,
           Pane(v, s, box, es, since)
    PROVE  /\ e.from # s => Pane(v, s, Append(box, e), es, since)
           /\ e.from = s /\ e.seq = since + 1 => Pane(v, s, Append(box, e), es, since + 1)
<1>. DEFINE b == Append(box, e)
            n == Len(box)
<1>1. /\ n \in Nat /\ DOMAIN box = 1..n /\ DOMAIN b = 1..(n + 1) /\ b[n + 1] = e
      /\ (\A k \in 1..n : b[k] = box[k]) /\ b \in Seq(Messages)
  BY SeqElements, SeqAppend
<1>2. \A p \in 1..(n + 1) : Owed(b, s, p) = IF e.from = s THEN Owed(box, s, p) + 1 ELSE Owed(box, s, p)
  BY OwedAppend
<1>3. \A p \in 1..(n + 1) : Owed(box, s, p) \in Nat
  BY OwedTypes
<1>. HIDE DEF b, n
<1>4. \A k \in DOMAIN box : box[k].seq \in Nat
  <2>1. \A k \in DOMAIN box : box[k] \in Messages
    BY SeqElements
  <2>. QED
    BY <2>1 DEF Messages
<1>5. 1 \in 1..(n + 1)
  BY <1>1
<1>6. ASSUME e.from # s PROVE Pane(v, s, b, es, since)
  <2>1. Owed(b, s, 1) = Owed(box, s, 1)
    BY <1>2, <1>5, <1>6
  <2>2. ASSUME NEW p \in DOMAIN b, b[p].from = s PROVE b[p].seq + Owed(b, s, p) = since + 1
    <3>1. p \in 1..n /\ p \in 1..(n + 1) /\ b[p] = box[p]
      BY <1>1, <1>6, <2>2
    <3>2. box[p].seq + Owed(box, s, p) = since + 1
      BY <1>1, <2>2, <3>1 DEF Pane
    <3>. QED
      BY <1>2, <1>6, <3>1, <3>2
  <2>. QED
    BY <2>1, <2>2 DEF Pane
<1>7. ASSUME e.from = s, e.seq = since + 1 PROVE Pane(v, s, b, es, since + 1)
  <2>1. Owed(b, s, 1) = Owed(box, s, 1) + 1 /\ Owed(box, s, 1) \in Nat /\ Owed(box, s, 1) <= since
    BY <1>2, <1>3, <1>5, <1>7 DEF Pane
  <2>2. (since + 1) - Owed(b, s, 1) = since - Owed(box, s, 1) /\ Owed(b, s, 1) <= since + 1
    BY <2>1
  <2>3. ASSUME NEW p \in DOMAIN b, b[p].from = s PROVE b[p].seq + Owed(b, s, p) = (since + 1) + 1
    <3>1. CASE p \in 1..n
      <4>1. p \in 1..(n + 1) /\ b[p] = box[p] /\ p \in DOMAIN box
        BY <1>1, <3>1
      <4>2. box[p].seq + Owed(box, s, p) = since + 1
        BY <2>3, <4>1 DEF Pane
      <4>3. box[p].seq \in Nat /\ Owed(box, s, p) \in Nat /\ Owed(b, s, p) = Owed(box, s, p) + 1
        BY <1>2, <1>3, <1>4, <1>7, <4>1
      <4>. QED
        BY <4>1, <4>2, <4>3
    <3>2. CASE p = n + 1
      <4>1. Owed(box, s, n + 1) = 0
        <5>1. Behind(box, s, n + 1) = {}
          BY <1>1 DEF Behind
        <5>. QED
          BY <5>1, FS_EmptySet DEF Owed
      <4>2. n + 1 \in 1..(n + 1)
        BY <1>1
      <4>3. Owed(b, s, p) = 1 /\ b[p] = e
        BY <1>1, <1>2, <1>7, <3>2, <4>1, <4>2
      <4>. QED
        BY <1>7, <4>3
    <3>. QED
      BY <1>1, <3>1, <3>2
  <2>. QED
    BY <2>2, <2>3 DEF Pane
<1>. QED
  BY <1>6, <1>7 DEF b

LEMMA PaneTail ==
    ASSUME NEW v, NEW s, NEW box \in Seq(Messages), box # <<>>, NEW es, NEW since \in Nat,
           Pane(v, s, box, es, since)
    PROVE  /\ Head(box).from # s => Pane(v, s, Tail(box), es, since)
           /\ Head(box).from = s =>
                 /\ Head(box).seq = (since - Owed(box, s, 1)) + 1
                 /\ since - Owed(Tail(box), s, 1) = (since - Owed(box, s, 1)) + 1
                 /\ Owed(box, s, 1) <= since /\ Owed(box, s, 1) \in Nat \ {0}
                 /\ \A w : (~w.mixed => Shows(w, es, (since - Owed(box, s, 1)) + 1)) =>
                              Pane(w, s, Tail(box), es, since)
<1>. DEFINE b == Tail(box)
            n == Len(box)
<1>1. /\ n \in Nat \ {0} /\ DOMAIN box = 1..n /\ DOMAIN b = 1..(n - 1) /\ Head(box) = box[1]
      /\ b \in Seq(Messages) /\ \A k \in 1..(n - 1) : b[k] = box[k + 1]
  BY SeqTail, SeqElements
<1>2. /\ \A p \in Nat \ {0} : Owed(b, s, p) = Owed(box, s, p + 1)
      /\ Owed(box, s, 1) = IF Head(box).from = s THEN Owed(box, s, 2) + 1 ELSE Owed(box, s, 2)
  <2>1. ASSUME NEW p \in Nat \ {0} PROVE Owed(b, s, p) = Owed(box, s, p + 1)
    BY OwedTail
  <2>2. 1 \in Nat \ {0}
    OBVIOUS
  <2>3. Owed(box, s, 1) = IF Head(box).from = s THEN Owed(box, s, 2) + 1 ELSE Owed(box, s, 2)
    BY <2>2, OwedTail
  <2>. HIDE DEF b
  <2>. QED
    BY <2>1, <2>3
<1>3. Owed(box, s, 1) \in Nat /\ Owed(box, s, 2) \in Nat /\ Owed(b, s, 1) = Owed(box, s, 2)
  BY <1>2, OwedTypes
<1>4. Head(box).seq \in Nat
  <2>1. Head(box) \in Messages
    BY SeqTail
  <2>. QED
    BY <2>1 DEF Messages
<1>. HIDE DEF b, n
<1>5. ASSUME NEW p \in DOMAIN b, b[p].from = s PROVE b[p].seq + Owed(b, s, p) = since + 1
  <2>1. p \in Nat \ {0} /\ p + 1 \in DOMAIN box /\ b[p] = box[p + 1]
    BY <1>1
  <2>2. box[p + 1].seq + Owed(box, s, p + 1) = since + 1
    BY <1>5, <2>1 DEF Pane
  <2>. QED
    BY <1>2, <2>1, <2>2
<1>6. ASSUME Head(box).from # s PROVE Pane(v, s, b, es, since)
  <2>1. Owed(b, s, 1) = Owed(box, s, 1)
    BY <1>2, <1>3, <1>6
  <2>. QED
    BY <1>5, <2>1 DEF Pane
<1>7. ASSUME Head(box).from = s
      PROVE  /\ Head(box).seq = (since - Owed(box, s, 1)) + 1
             /\ since - Owed(b, s, 1) = (since - Owed(box, s, 1)) + 1
             /\ Owed(box, s, 1) <= since /\ Owed(box, s, 1) \in Nat \ {0}
             /\ \A w : (~w.mixed => Shows(w, es, (since - Owed(box, s, 1)) + 1)) => Pane(w, s, b, es, since)
  <2>1. Owed(box, s, 1) = Owed(b, s, 1) + 1 /\ Owed(box, s, 1) <= since
    BY <1>2, <1>3, <1>7 DEF Pane
  <2>2. Head(box).seq + Owed(box, s, 1) = since + 1
    <3>1. 1 \in DOMAIN box /\ box[1].from = s /\ box[1] = Head(box)
      BY <1>1, <1>7
    <3>2. box[1].seq + Owed(box, s, 1) = since + 1
      BY <3>1 DEF Pane
    <3>. QED
      BY <3>1, <3>2
  <2>3. /\ Head(box).seq = (since - Owed(box, s, 1)) + 1
        /\ since - Owed(b, s, 1) = (since - Owed(box, s, 1)) + 1
        /\ Owed(box, s, 1) \in Nat \ {0} /\ Owed(b, s, 1) <= since
    BY <1>3, <1>4, <2>1, <2>2, SMTT(30)
  <2>4. ASSUME NEW w, ~w.mixed => Shows(w, es, (since - Owed(box, s, 1)) + 1) PROVE Pane(w, s, b, es, since)
    BY <1>5, <2>3, <2>4 DEF Pane
  <2>. QED
    BY <2>1, <2>3, <2>4
<1>. QED
  BY <1>6, <1>7 DEF b

(* The room on the screen, and how far its log was sent.                    *)
LEMMA OnScreen ==
    ASSUME TypeOK, InRoom
    PROVE  /\ screen.stream \in DOMAIN followers /\ screen.stream \in Nat \ {0}
           /\ screen.room \in Rooms /\ screen.room = followers[screen.stream].room
           /\ followers[screen.stream].since \in Nat
           /\ \A k \in 1..followers[screen.stream].since : k \in DOMAIN log[screen.room]
           /\ screen \in Screens /\ screen.said \in Seq(Blocks)
           /\ inbox \in Seq(Messages) /\ followers \in Seq(Visits)
<1>1. /\ screen.stream \in DOMAIN followers /\ screen.room \in Rooms
      /\ screen.room = followers[screen.stream].room
  BY ScreenKnows DEF TypeOK, ScreenTypes
<1>2. /\ followers[screen.stream].since \in Nat
      /\ followers[screen.stream].since <= Len(log[screen.room]) /\ Len(log[screen.room]) \in Nat
      /\ DOMAIN log[screen.room] = 1..Len(log[screen.room])
      /\ screen.stream \in Nat \ {0}
  BY <1>1, VisitTypes, LogTypes DEF TypeOK
<1>3. \A k \in 1..followers[screen.stream].since : k \in DOMAIN log[screen.room]
  BY <1>2
<1>4. screen \in Screens /\ screen.said \in Seq(Blocks)
  BY DEF TypeOK, ScreenTypes, Screens
<1>. QED
  BY <1>1, <1>2, <1>3, <1>4 DEF TypeOK, InboxTypes, FollowerTypes

(* Logs grow behind what was sent, and what else changes is not shown here. *)
LEMMA PaneStays ==
    ASSUME TypeOK, PaneInv, InRoom, Grows, UNCHANGED <<inbox, screen.stream, screen.room>>,
           screen'.said = screen.said, screen'.groups = screen.groups,
           screen'.running = screen.running, screen.mixed => screen'.mixed,
           followers'[screen.stream].since = followers[screen.stream].since
    PROVE  Pane(screen', screen'.stream, inbox', log'[screen'.room], followers'[screen'.stream].since)
<1>1. PICK s, r, since, box : s = screen.stream /\ r = screen.room /\ since = followers[s].since /\ box = inbox
  OBVIOUS
<1>2. r \in Rooms /\ since \in Nat /\ (\A k \in 1..since : k \in DOMAIN log[r])
      /\ screen.said \in Seq(Blocks) /\ box \in Seq(Messages)
  BY <1>1, OnScreen
<1>3. \A k \in 1..since : log'[r][k] = log[r][k]
  BY <1>2 DEF Grows
<1>4. Pane(screen, s, box, log[r], since)
  BY <1>1 DEF PaneInv
<1>5. Pane(screen', s, box, log'[r], since)
  BY <1>2, <1>3, <1>4, PaneSame
<1>. QED
  BY <1>1, <1>5

(* No message is from a follower that has not started.                      *)
LEMMA PaneEntered ==
    ASSUME TypeOK, NEW r \in Rooms, EnterRoom(r),
           \A p \in DOMAIN inbox' : \E q \in DOMAIN inbox : inbox'[p] = inbox[q]
    PROVE  Pane(screen', screen'.stream, inbox', log'[screen'.room], followers'[screen'.stream].since)
<1>1. PICK s, box : s = Len(followers) + 1 /\ box = inbox'
  OBVIOUS
<1>2. /\ screen'.stream = s /\ screen'.said = <<>> /\ screen'.groups = {} /\ screen'.running = {}
      /\ followers'[s].since = 0
  <2>1. /\ screen'.stream = Len(followers) + 1 /\ screen'.said = <<>> /\ screen'.groups = {}
        /\ screen'.running = {}
        /\ followers'[Len(followers) + 1] = [room |-> r, since |-> 0, at |-> "off"]
    BY EnteredIs
  <2>2. followers'[s].since = 0
    BY <1>1, <2>1
  <2>. QED
    BY <1>1, <2>1, <2>2
<1>3. s \notin DOMAIN followers /\ s # 0
  BY <1>1, VisitTypes
<1>4. \A p \in DOMAIN box : box[p].from # s
  <2>1. \A q \in DOMAIN inbox : inbox[q].from = 0 \/ inbox[q].from \in DOMAIN followers
    BY DEF TypeOK, InboxTypes, IsMessage
  <2>. QED
    BY <1>1, <1>3, <2>1
<1>5. Owed(box, s, 1) = 0
  <2>1. Behind(box, s, 1) = {}
    BY <1>4 DEF Behind
  <2>. QED
    BY <2>1, FS_EmptySet DEF Owed
<1>6. Shows(screen', log'[screen'.room], 0)
  BY <1>2, ShowsNothing
<1>7. Pane(screen', s, box, log'[screen'.room], 0)
  BY <1>4, <1>5, <1>6 DEF Pane
<1>. QED
  BY <1>1, <1>2, <1>7

(* One more event of the room is sent.                                      *)
LEMMA PaneDelivered ==
    ASSUME TypeOK, PaneInv, InRoom, NEW x \in DOMAIN followers, Delivers(x)
    PROVE  Pane(screen', screen'.stream, inbox', log'[screen'.room], followers'[screen'.stream].since)
<1>1. PICK s, r, since, box : s = screen.stream /\ r = screen.room /\ since = followers[s].since /\ box = inbox
  OBVIOUS
<1>2. PICK m : m = [kind |-> "event", room |-> followers[x].room, seq |-> followers[x].since + 1,
                    from |-> x, list |-> <<>>, late |-> FALSE]
  OBVIOUS
<1>3. /\ UNCHANGED <<screen, log>> /\ inbox' = Append(box, m) /\ m.from = x
      /\ m.seq = followers[x].since + 1
  BY <1>1, <1>2 DEF Delivers, Says, server
<1>4. m \in Messages
  <2>1. followers[x].room \in Rooms /\ followers[x].since \in Nat /\ x \in Nat
    BY VisitTypes
  <2>2. <<>> \in Seq(Whats) /\ followers[x].since + 1 \in Nat
    BY <2>1
  <2>. QED
    BY <1>2, <2>1, <2>2 DEF Messages
<1>5. /\ s \in DOMAIN followers /\ since \in Nat /\ box \in Seq(Messages) /\ followers \in Seq(Visits)
      /\ Pane(screen, s, box, log[r], since)
  BY <1>1, OnScreen DEF PaneInv
<1>6. CASE x # s
  <2>1. followers'[s] = followers[s]
    BY <1>5, <1>6 DEF Delivers
  <2>2. Pane(screen, s, Append(box, m), log[r], since)
    BY <1>3, <1>4, <1>5, <1>6, PaneAppend
  <2>. QED
    BY <1>1, <1>3, <2>1, <2>2
<1>7. CASE x = s
  <2>1. followers'[s].since = since + 1
    <3>. DEFINE f == [followers[s] EXCEPT !.since = since + 1]
    <3>1. followers[s] \in Visits /\ since + 1 \in Nat
      BY <1>5, VisitTypes
    <3>2. f.since = since + 1
      BY <3>1, VisitSet
    <3>3. followers' = [followers EXCEPT ![s] = f]
      BY <1>1, <1>7 DEF Delivers
    <3>. HIDE DEF f
    <3>. QED
      BY <1>5, <3>2, <3>3
  <2>2. m.from = s /\ m.seq = since + 1
    BY <1>1, <1>3, <1>7
  <2>3. Pane(screen, s, Append(box, m), log[r], since + 1)
    BY <1>4, <1>5, <2>2, PaneAppend
  <2>. QED
    BY <1>1, <1>3, <2>1, <2>3
<1>. QED
  BY <1>6, <1>7

(* What a task passes on is not of a follower.                              *)
LEMMA PanePassed ==
    ASSUME TypeOK, PaneInv, InRoom, NEW k \in DOMAIN tasks, Passes(k)
    PROVE  Pane(screen', screen'.stream, inbox', log'[screen'.room], followers'[screen'.stream].since)
<1>1. PICK s, r, since, box : s = screen.stream /\ r = screen.room /\ since = followers[s].since /\ box = inbox
  OBVIOUS
<1>2. PICK m : m = [kind |-> tasks[k].kind, room |-> tasks[k].room, seq |-> 0, from |-> 0,
                    list |-> tasks[k].list, late |-> tasks[k].late]
  OBVIOUS
<1>3. /\ UNCHANGED <<screen, log, followers>> /\ inbox' = Append(box, m) /\ m.from = 0
      /\ tasks[k].at = "told"
  BY <1>1, <1>2 DEF Passes, Says, server
<1>4. m \in Messages
  <2>1. tasks[k] \in GoodTasks
    BY TasksGood, SeqElements DEF TypeOK
  <2>. QED
    BY <1>2, <1>3, <2>1 DEF GoodTasks, Tasks, Messages
<1>5. s # 0 /\ since \in Nat /\ box \in Seq(Messages) /\ Pane(screen, s, box, log[r], since)
  BY <1>1, OnScreen DEF PaneInv
<1>6. Pane(screen, s, Append(box, m), log[r], since)
  BY <1>3, <1>4, <1>5, PaneAppend
<1>. QED
  BY <1>1, <1>3, <1>6

(* What the view takes from the channel is shown after what came before it. *)
LEMMA PaneShown ==
    ASSUME TypeOK, History, PaneInv, InRoom, inbox # <<>>, Head(inbox).kind = "event",
           OnEvent(Head(inbox)), Head(inbox).room = screen.room
    PROVE  Pane(screen', screen.stream, Tail(inbox), log[screen.room], followers[screen.stream].since)
<1>1. PICK s, r, since, box, m : s = screen.stream /\ r = screen.room /\ since = followers[s].since
                                 /\ box = inbox /\ m = Head(inbox)
  OBVIOUS
<1>2. PICK es : es = log[r]
  OBVIOUS
<1>3. /\ box \in Seq(Messages) /\ box # <<>> /\ m = Head(box) /\ since \in Nat /\ r \in Rooms
      /\ (\A k \in 1..since : k \in DOMAIN es) /\ screen \in Screens /\ Pane(screen, s, box, es, since)
  BY <1>1, <1>2, OnScreen DEF PaneInv
<1>4. /\ screen'.mixed <=> screen.mixed \/ m.from # s
      /\ screen'.said = Told(m).said /\ screen'.groups = Told(m).groups
      /\ screen'.running = Told(m).running
  BY <1>1, OnEventIs
<1>5. CASE m.from # s
  <2>1. Pane(screen, s, Tail(box), es, since)
    BY <1>3, <1>5, PaneTail
  <2>2. Pane(screen', s, Tail(box), es, since)
    BY <1>4, <1>5, <2>1 DEF Pane
  <2>. QED
    BY <1>1, <1>2, <2>2
<1>6. CASE m.from = s
  <2>1. PICK n : n = since - Owed(box, s, 1)
    OBVIOUS
  <2>2. /\ m.seq = n + 1 /\ Owed(box, s, 1) <= since /\ Owed(box, s, 1) \in Nat \ {0}
        /\ \A w : (~w.mixed => Shows(w, es, n + 1)) => Pane(w, s, Tail(box), es, since)
    <3>1. Head(box).from = s
      BY <1>3, <1>6
    <3>2. /\ Head(box).seq = (since - Owed(box, s, 1)) + 1
          /\ Owed(box, s, 1) <= since /\ Owed(box, s, 1) \in Nat \ {0}
      <4>1. Owed(box, s, 1) <= since
        BY <1>3 DEF Pane
      <4>2. Owed(box, s, 1) \in Nat \ {0}
        BY <1>3, <3>1, PaneTail
      <4>3. 1 \in DOMAIN box /\ box[1] = Head(box) /\ Head(box) \in Messages
        BY <1>3, SeqTail, SeqElements
      <4>4. Head(box).seq + Owed(box, s, 1) = since + 1
        BY <1>3, <3>1, <4>3 DEF Pane
      <4>5. Head(box).seq \in Nat
        BY <4>3 DEF Messages
      <4>. QED
        BY <1>3, <4>1, <4>2, <4>4, <4>5
    <3>3. ASSUME NEW w, ~w.mixed => Shows(w, es, (since - Owed(box, s, 1)) + 1)
          PROVE  Pane(w, s, Tail(box), es, since)
      BY <1>3, <3>1, <3>3, PaneTail
    <3>. QED
      BY <1>3, <2>1, <3>2, <3>3
  <2>3. n \in Nat /\ n + 1 \in DOMAIN es /\ \A j \in 1..n : j \in DOMAIN es /\ j < n + 1
    BY <1>3, <2>1, <2>2
  <2>4. Told(m) = Shown(screen, es[n + 1], n + 1)
    BY <1>1, <1>2, <2>2 DEF Told
  <2>5. es[n + 1].what \in Whats /\ es[n + 1].turn \in Turns
    BY <1>1, <1>2, <2>2, FirstMessage
  <2>6. \A j \in 1..n : ~(es[j].kind \in Ends /\ es[n + 1].kind = "started" /\ es[j].turn = es[n + 1].turn)
    BY <1>2, <1>3, <2>3 DEF History
  <2>7. ASSUME ~screen'.mixed PROVE Shows(screen', es, n + 1)
    <3>1. Shows(screen, es, n)
      BY <1>3, <1>4, <2>1, <2>7 DEF Pane
    <3>2. Shows(Told(m), es, n + 1)
      BY <1>3, <2>3, <2>4, <2>5, <2>6, <3>1, ShowsNext
    <3>. QED
      BY <1>4, <3>2 DEF Shows
  <2>8. Pane(screen', s, Tail(box), es, since)
    BY <2>2, <2>7
  <2>. QED
    BY <1>1, <1>2, <2>8
<1>. QED
  BY <1>5, <1>6

LEMMA PaneHandled ==
    ASSUME TypeOK, History, PaneInv, Handles, InRoom'
    PROVE  Pane(screen', screen'.stream, inbox', log'[screen'.room], followers'[screen'.stream].since)
<1>0. /\ inbox # <<>> /\ inbox' = Tail(inbox) /\ inbox \in Seq(Messages) /\ UNCHANGED log
      /\ Head(inbox).kind \in {"event", "load", "open"} /\ Head(inbox).room \in Rooms
      /\ IsMessage(Head(inbox))
  BY FirstMessage DEF Handles, server, TypeOK, InboxTypes
<1>. DEFINE Keeping == InRoom /\ screen'.stream = screen.stream /\ screen'.room = screen.room
                       /\ UNCHANGED followers
<1>1. ASSUME Keeping, Head(inbox).from # screen.stream, screen'.said = screen.said,
             screen'.groups = screen.groups, screen'.running = screen.running,
             screen.mixed => screen'.mixed
      PROVE  Pane(screen', screen'.stream, inbox', log'[screen'.room], followers'[screen'.stream].since)
  <2>1. PICK s, r, since, box : s = screen.stream /\ r = screen.room /\ since = followers[s].since /\ box = inbox
    OBVIOUS
  <2>2. /\ box \in Seq(Messages) /\ box # <<>> /\ since \in Nat /\ screen.said \in Seq(Blocks)
        /\ Pane(screen, s, box, log[r], since)
    BY <1>0, <1>1, <2>1, OnScreen DEF PaneInv
  <2>3. Pane(screen, s, Tail(box), log[r], since)
    BY <1>1, <2>1, <2>2, PaneTail
  <2>4. Tail(box) \in Seq(Messages)
    BY <2>2, SeqTail
  <2>5. Pane(screen', s, Tail(box), log[r], since)
    BY <1>1, <2>2, <2>3, <2>4, PaneSame
  <2>. QED
    BY <1>0, <1>1, <2>1, <2>5
<1>2. CASE Head(inbox).kind = "event"
  <2>1. OnEvent(Head(inbox)) /\ UNCHANGED followers
    BY <1>2 DEF Handles
  <2>2. InRoom
    BY <2>1 DEF OnEvent, InRoom
  <2>3. CASE Head(inbox).room = screen.room
    <3>1. Pane(screen', screen.stream, Tail(inbox), log[screen.room], followers[screen.stream].since)
      BY <1>0, <1>2, <2>1, <2>2, <2>3, PaneShown
    <3>2. screen'.stream = screen.stream /\ screen'.room = screen.room
      BY <1>0, <1>2, <2>1, <2>2, <2>3, OnEventIs
    <3>. QED
      BY <1>0, <2>1, <3>1, <3>2
  <2>4. CASE Head(inbox).room # screen.room
    <3>1. UNCHANGED screen
      BY <2>1, <2>4 DEF OnEvent
    <3>2. Head(inbox).from # screen.stream
      BY <1>0, <1>2, <2>2, <2>4, OnScreen DEF IsMessage
    <3>. QED
      BY <1>1, <2>1, <2>2, <3>1, <3>2
  <2>. QED
    BY <2>3, <2>4
<1>3. CASE Head(inbox).kind = "load"
  <2>1. InRoom
    BY <1>3 DEF Handles, InRoom
  <2>2. /\ screen'.stream = screen.stream /\ screen'.room = screen.room /\ UNCHANGED followers
        /\ screen'.said = screen.said /\ screen'.groups = screen.groups
        /\ screen'.running = screen.running /\ (screen'.mixed <=> screen.mixed)
    BY <1>3, <2>1, LoadIs
  <2>3. Head(inbox).from # screen.stream
    BY <1>0, <1>3, <2>1, OnScreen DEF IsMessage
  <2>. QED
    BY <1>1, <2>1, <2>2, <2>3
<1>4. CASE Head(inbox).kind = "open"
  <2>1. EnterRoom(Head(inbox).room)
    BY <1>4 DEF Handles
  <2>2. \A p \in DOMAIN inbox' : \E q \in DOMAIN inbox : inbox'[p] = inbox[q]
    <3>1. \A p \in DOMAIN inbox' : p + 1 \in DOMAIN inbox /\ inbox'[p] = inbox[p + 1]
      BY <1>0, SeqTail, SeqElements
    <3>. QED
      BY <3>1
  <2>. QED
    BY <1>0, <2>1, <2>2, PaneEntered
<1>. QED
  BY <1>0, <1>2, <1>3, <1>4

LEMMA PaneNext ==
    ASSUME TypeOK, History, PaneInv, [Next]_vars
    PROVE  PaneInv'
<1>. DEFINE Goal == Pane(screen', screen'.stream, inbox', log'[screen'.room], followers'[screen'.stream].since)
<1>0. Grows
  BY RoomNext DEF TypeOK
<1>. SUFFICES ASSUME InRoom' PROVE Goal
  BY DEF PaneInv
<1>1. ASSUME UNCHANGED <<inbox, screen, followers>> PROVE Goal
  BY <1>0, <1>1, PaneStays DEF InRoom
<1>2. ASSUME NEW x \in DOMAIN followers, FollowerStep(x) PROVE Goal
  <2>1. InRoom
    BY <1>2 DEF FollowerStep, Connects, Delivers, Breaks, InRoom
  <2>2. CASE Delivers(x)
    BY <2>1, <2>2, PaneDelivered
  <2>3. CASE Connects(x) \/ Breaks(x)
    <3>1. UNCHANGED <<inbox, screen>>
      BY <2>3 DEF Connects, Breaks
    <3>2. PICK at \in {"on", "off"} : followers' = [followers EXCEPT ![x].at = at]
      BY <2>3 DEF Connects, Breaks
    <3>3. followers' = [followers EXCEPT ![x] = [followers[x] EXCEPT !.at = at]]
      BY <3>2
    <3>4. [followers[x] EXCEPT !.at = at].since = followers[x].since
      BY VisitTypes, VisitSet
    <3>5. followers'[screen.stream].since = followers[screen.stream].since
      BY <2>1, <3>3, <3>4, OnScreen
    <3>. QED
      BY <1>0, <2>1, <3>1, <3>5, PaneStays
  <2>. QED
    BY <1>2, <2>2, <2>3 DEF FollowerStep
<1>3. ASSUME NEW k \in DOMAIN tasks, TaskStep(k) PROVE Goal
  <2>1. CASE Passes(k)
    BY <2>1, PanePassed DEF Passes, InRoom
  <2>2. CASE Reads(k) \/ Fails(k)
    BY <1>1, <2>2 DEF Reads, Fails
  <2>. QED
    BY <1>3, <2>1, <2>2 DEF TaskStep
<1>4. ASSUME Handles PROVE Goal
  BY <1>4, PaneHandled
<1>5. ASSUME NEW r \in Rooms, Enter(r) PROVE Goal
  <2>1. UNCHANGED inbox /\ EnterRoom(r)
    BY <1>5 DEF Enter, Key
  <2>. QED
    BY <2>1, PaneEntered
<1>6. ASSUME NewRoom \/ Leave PROVE FALSE
  BY <1>6, BlankTypes DEF NewRoom, Leave, LeaveRoom, InRoom, Blank
<1>7. ASSUME Resolve \/ Dismiss \/ Approve PROVE Goal
  <2>1. InRoom /\ UNCHANGED <<inbox, followers>> /\ screen \in Screens
    BY <1>7 DEF Resolve, Dismiss, Approve, Key, InRoom, TypeOK, ScreenTypes
  <2>2. PICK p, q : screen' = [screen EXCEPT !.pending = p, !.prompt = q]
    <3>2. CASE Resolve
      BY <3>2 DEF Resolve
    <3>3. CASE Dismiss \/ Approve
      <4>1. PICK q : screen' = [screen EXCEPT !.prompt = q]
        BY <3>3 DEF Dismiss, Approve
      <4>2. screen' = [screen EXCEPT !.pending = screen.pending, !.prompt = q]
        BY <2>1, <4>1 DEF Screens
      <4>. QED
        BY <4>2
    <3>. QED
      BY <1>7, <3>2, <3>3
  <2>3. /\ screen'.stream = screen.stream /\ screen'.room = screen.room /\ screen'.said = screen.said
        /\ screen'.groups = screen.groups /\ screen'.running = screen.running
        /\ screen'.mixed = screen.mixed
    BY <2>1, <2>2 DEF Screens
  <2>. QED
    BY <1>0, <2>1, <2>3, PaneStays
<1>8. ASSUME NEW r \in Rooms, Asks(r) \/ Happens(r) \/ ApproveLooks(r) PROVE Goal
  BY <1>1, <1>8 DEF Asks, Happens, ApproveLooks
<1>9. ASSUME NEW c \in calls, CallStep(c) PROVE Goal
  BY <1>1, <1>9 DEF CallStep, Resolves, Refused, Records, CallFails
<1>10. ASSUME Open \/ ApprovePosts \/ UNCHANGED vars PROVE Goal
  BY <1>1, <1>10 DEF Open, ApprovePosts, Key, vars
<1>. QED
  BY <1>2, <1>3, <1>4, <1>5, <1>6, <1>7, <1>8, <1>9, <1>10 DEF Next, Keys

LEMMA PaneShows == TypeOK /\ PaneInv => PaneIsTheLog
<1>. SUFFICES ASSUME TypeOK, PaneInv, InRoom, ~screen.mixed
              PROVE  /\ UNION {ToSet(screen.said[b].lines) : b \in DOMAIN screen.said}
                           = {k \in DOMAIN Known(Seen) : IsLine(Known(Seen), k)}
                     /\ \A b \in DOMAIN screen.said :
                           /\ \A k \in 2..Len(screen.said[b].lines) :
                                 /\ screen.said[b].lines[k - 1] < screen.said[b].lines[k]
                                 /\ Joined(Known(Seen), screen.said[b].lines[k - 1], screen.said[b].lines[k])
                           /\ b > 1 =>
                                 /\ Last(screen.said[b - 1].lines) < screen.said[b].lines[1]
                                 /\ ~Joined(Known(Seen), Last(screen.said[b - 1].lines), screen.said[b].lines[1])
                     /\ screen.running =
                           {Known(Seen)[k].turn : k \in {j \in DOMAIN Known(Seen) : Known(Seen)[j].kind = "started"}}
                           \ {Known(Seen)[k].turn : k \in {j \in DOMAIN Known(Seen) : Known(Seen)[j].kind \in Ends}}
  BY DEF PaneIsTheLog
<1>1. PICK n, es, said : n = Seen /\ es = Known(n) /\ said = screen.said
  OBVIOUS
<1>2. n \in Nat /\ Shows(screen, log[screen.room], n)
  <2>1. PICK s, since, box : s = screen.stream /\ since = followers[s].since /\ box = inbox
    OBVIOUS
  <2>2. box \in Seq(Messages) /\ since \in Nat /\ Pane(screen, s, box, log[screen.room], since)
    BY <2>1, OnScreen DEF PaneInv
  <2>3. Owed(box, s, 1) \in Nat /\ Behind(box, s, 1) = {q \in DOMAIN box : box[q].from = s}
    BY <2>2, OwedTypes
  <2>4. n = since - Owed(box, s, 1)
    BY <1>1, <2>1, <2>3 DEF Seen, Owed
  <2>. QED
    BY <2>2, <2>3, <2>4 DEF Pane
<1>3. DOMAIN es = 1..n /\ \A k \in 1..n : es[k] = log[screen.room][k]
  BY <1>1 DEF Known
<1>4. Shows(screen, es, n)
  <2>1. screen.said \in Seq(Blocks)
    BY OnScreen
  <2>. QED
    BY <1>2, <1>3, <2>1, ShowsSame
<1>5. said \in Seq(Blocks) /\ Len(said) \in Nat /\ DOMAIN said = 1..Len(said)
      /\ \A b \in DOMAIN said : said[b] \in Blocks
  BY <1>1, OnScreen, SeqElements
<1>6. BlocksShow(said, es, n)
  BY <1>1, <1>4 DEF Shows
<1>7. ASSUME NEW b \in DOMAIN said
      PROVE  /\ OneBlock(said[b], es, n) /\ said[b].lines \in Seq(Nat)
             /\ DOMAIN said[b].lines = 1..Len(said[b].lines)
  <2>1. said[b] \in Blocks /\ OneBlock(said[b], es, n)
    BY <1>5, <1>6 DEF BlocksShow
  <2>. QED
    BY <1>2, <2>1, BlockLines
<1>8. UNION {ToSet(said[b].lines) : b \in DOMAIN said} = {k \in DOMAIN es : IsLine(es, k)}
  <2>1. ASSUME NEW b \in DOMAIN said, NEW k \in ToSet(said[b].lines) PROVE k \in DOMAIN es /\ IsLine(es, k)
    <3>1. PICK x \in DOMAIN said[b].lines : said[b].lines[x] = k
      BY <2>1 DEF ToSet
    <3>. QED
      BY <1>3, <1>7, <3>1 DEF OneBlock
  <2>2. ASSUME NEW k \in DOMAIN es, IsLine(es, k) PROVE \E b \in DOMAIN said : k \in ToSet(said[b].lines)
    <3>1. PICK b \in DOMAIN said : InBlock(said[b], k)
      BY <1>3, <1>6, <2>2 DEF BlocksShow
    <3>2. PICK x \in DOMAIN said[b].lines : said[b].lines[x] = k
      BY <1>7, <3>1 DEF InBlock
    <3>. QED
      BY <3>2 DEF ToSet
  <2>. QED
    BY <2>1, <2>2
<1>9. ASSUME NEW b \in DOMAIN said
      PROVE  /\ \A k \in 2..Len(said[b].lines) :
                   said[b].lines[k - 1] < said[b].lines[k] /\ Joined(es, said[b].lines[k - 1], said[b].lines[k])
             /\ b > 1 => /\ Last(said[b - 1].lines) < said[b].lines[1]
                         /\ ~Joined(es, Last(said[b - 1].lines), said[b].lines[1])
  <2>1. \A k \in 2..Len(said[b].lines) :
           said[b].lines[k - 1] < said[b].lines[k] /\ Joined(es, said[b].lines[k - 1], said[b].lines[k])
    BY <1>7 DEF OneBlock
  <2>2. ASSUME b > 1
        PROVE  Last(said[b - 1].lines) < said[b].lines[1] /\ ~Joined(es, Last(said[b - 1].lines), said[b].lines[1])
    <3>1. b \in 2..Len(said)
      BY <1>5, <2>2
    <3>2. Splits(said[b - 1], said[b], es)
      BY <1>6, <3>1 DEF BlocksShow
    <3>. QED
      BY <3>2 DEF Splits, Last
  <2>. QED
    BY <2>1, <2>2
<1>10. screen.running = {es[k].turn : k \in {j \in DOMAIN es : es[j].kind = "started"}}
          \ {es[k].turn : k \in {j \in DOMAIN es : es[j].kind \in Ends}}
  <2>1. \A t : t \in screen.running <=> StartedIn(es, n, t) /\ ~EndedIn(es, n, t)
    BY <1>4 DEF Shows
  <2>2. \A t : StartedIn(es, n, t) <=> t \in {es[k].turn : k \in {j \in DOMAIN es : es[j].kind = "started"}}
    BY <1>3 DEF StartedIn
  <2>3. \A t : EndedIn(es, n, t) <=> t \in {es[k].turn : k \in {j \in DOMAIN es : es[j].kind \in Ends}}
    BY <1>3 DEF EndedIn
  <2>. QED
    BY <2>1, <2>2, <2>3
<1>. QED
  BY <1>1, <1>8, <1>9, <1>10

LEMMA PaneInit == Init => PaneInv
BY BlankTypes DEF Init, PaneInv, InRoom

(* The pane of a room is its log up to some event: whatever connections     *)
(* break and rooms are left and entered, each line is there once and in     *)
(* order, what an agent says without being interrupted is one block, and    *)
(* the turns it shows as running are those that started and did not end.    *)
THEOREM PaneShowsTheLog == Spec => []PaneIsTheLog
<1>. DEFINE Inv == TypeOK /\ History /\ PaneInv
<1>1. Init => Inv
  BY TypeInit, HistoryInit, PaneInit
<1>2. Inv /\ [Next]_vars => Inv'
  BY TypeNext, HistoryNext, PaneNext
<1>3. Inv => PaneIsTheLog
  BY PaneShows
<1>. HIDE DEF Inv
<1>. QED
  BY <1>1, <1>2, <1>3, PTL DEF Spec
=============================================================================
