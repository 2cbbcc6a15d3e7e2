--------------------------- MODULE Triangle_proof ---------------------------
(***************************************************************************)
(* Lemmas about the walk through the triangle, for every number of tiles   *)
(* and ranks.  Number the tiles columns first: position (m, k) has number  *)
(* k*NT - k(k+1)/2 + m, also when m has run past the last row and the      *)
(* carry into the next column is pending, because a carry keeps the        *)
(* number.  Rank r stands at numbers r + j*SIZE only, so no position has   *)
(* two ranks, every tile has one, and a number says which tile it is.      *)
(***************************************************************************)
EXTENDS Triangle, WellFoundedInduction, TLAPS

\* Twice the number of position <<m, k>> of the walk.
Number2(m, k) == 2 * (k * NT) - k * (k + 1) + 2 * m

\* The positions of rank r.
Own(r, m, k) == \E j \in Nat : Number2(m, k) = 2 * r + 2 * (SIZE * j)

-----------------------------------------------------------------------------
\* A carry keeps the number of the position (m -> m - nt + k, k -> k + 1).
LEMMA CarryKeeps ==
  ASSUME NEW m \in Nat, NEW k \in Nat
  PROVE  Number2(m - NT + k + 1, k + 1) = Number2(m, k)
<1>1. (k + 1) * NT = k * NT + NT
  BY NTAssumption
<1>2. (k + 1) * (k + 1 + 1) = k * (k + 1) + 2 * (k + 1)
  OBVIOUS
<1>3. k * NT \in Int /\ k * (k + 1) \in Int /\ (k + 1) * NT \in Int
      /\ (k + 1) * (k + 1 + 1) \in Int
  BY NTAssumption
<1>4. QED
  BY <1>1, <1>2, <1>3, NTAssumption DEF Number2

\* A number is an integer.
LEMMA NumberInt ==
  ASSUME NEW m \in Nat, NEW k \in Nat
  PROVE  Number2(m, k) \in Int
BY NTAssumption DEF Number2

\* Rank r starts at its own number.
LEMMA StartOwn ==
  ASSUME NEW r \in Ranks
  PROVE  Own(r, r, 0)
<1>1. Number2(r, 0) = 2 * r + 2 * (SIZE * 0)
  BY NTAssumption, SizeAssumption DEF Number2, Ranks
<1>2. QED
  BY <1>1 DEF Own

\* SIZE places further on rank r is again at a number of its own.
LEMMA StrideOwn ==
  ASSUME NEW r \in Ranks, NEW m \in Nat, NEW k \in Nat, Own(r, m, k)
  PROVE  /\ Own(r, m + SIZE, k)
         /\ Number2(m + SIZE, k) = Number2(m, k) + 2 * SIZE
<1>1. Number2(m + SIZE, k) = Number2(m, k) + 2 * SIZE
  <2>1. k * NT \in Int /\ k * (k + 1) \in Int
    BY NTAssumption
  <2>2. QED
    BY <2>1, SizeAssumption DEF Number2
<1>2. PICK j \in Nat : Number2(m, k) = 2 * r + 2 * (SIZE * j)
  BY DEF Own
<1>3. SIZE * (j + 1) = SIZE * j + SIZE /\ SIZE * j \in Int
  BY SizeAssumption
<1>4. Number2(m + SIZE, k) = 2 * r + 2 * (SIZE * (j + 1))
  BY <1>1, <1>2, <1>3, SizeAssumption DEF Ranks
<1>5. j + 1 \in Nat
  OBVIOUS
<1>6. QED
  BY <1>1, <1>4, <1>5 DEF Own

\* No position belongs to two ranks.
LEMMA OwnUnique ==
  ASSUME NEW r \in Ranks, NEW s \in Ranks, NEW m, NEW k,
         Own(r, m, k), Own(s, m, k)
  PROVE  r = s
<1>1. PICK i \in Nat : Number2(m, k) = 2 * r + 2 * (SIZE * i)
  BY DEF Own
<1>2. PICK j \in Nat : Number2(m, k) = 2 * s + 2 * (SIZE * j)
  BY DEF Own
<1>3. SIZE * i \in Int /\ SIZE * j \in Int
  BY SizeAssumption
<1>4. r \in Int /\ s \in Int /\ r - s < SIZE /\ s - r < SIZE
  BY SizeAssumption DEF Ranks
<1>5. r + SIZE * i = s + SIZE * j
  <2> DEFINE x == SIZE * i
             y == SIZE * j
  <2>1. 2 * r + 2 * x = 2 * s + 2 * y
    BY <1>1, <1>2
  <2>2. x \in Int /\ y \in Int
    BY <1>3
  <2> HIDE DEF x, y
  <2>3. r + x = s + y
    BY <2>1, <2>2, <1>4
  <2>4. QED
    BY <2>3 DEF x, y
<1>6. ASSUME i > j PROVE FALSE
  <2>1. PICK d \in Nat : i = j + 1 + d
    <3>1. i - j - 1 \in Nat /\ i = j + 1 + (i - j - 1)
      BY <1>6
    <3>2. QED
      BY <3>1
  <2>2. SIZE * i = SIZE * j + SIZE + SIZE * d /\ SIZE * d >= 0 /\ SIZE * d \in Int
    BY <2>1, SizeAssumption
  <2>3. QED
    BY <1>3, <1>4, <1>5, <2>2, SizeAssumption
<1>7. ASSUME j > i PROVE FALSE
  <2>1. PICK d \in Nat : j = i + 1 + d
    <3>1. j - i - 1 \in Nat /\ j = i + 1 + (j - i - 1)
      BY <1>7
    <3>2. QED
      BY <3>1
  <2>2. SIZE * j = SIZE * i + SIZE + SIZE * d /\ SIZE * d >= 0 /\ SIZE * d \in Int
    BY <2>1, SizeAssumption
  <2>3. QED
    BY <1>3, <1>4, <1>5, <2>2, SizeAssumption
<1>8. i = j
  BY <1>6, <1>7
<1>9. QED
  BY <1>4, <1>5, <1>8, <1>3

LEMMA EvenProduct ==
  ASSUME NEW k \in Nat
  PROVE  \E h \in Nat : k * (k + 1) = 2 * h
<1>1. PICK q \in Nat : k = 2 * q \/ k = 2 * q + 1
  <2>1. k \div 2 \in Nat /\ (k = 2 * (k \div 2) \/ k = 2 * (k \div 2) + 1)
    OBVIOUS
  <2> QED
    BY <2>1
<1>2. CASE k = 2 * q
  <2>1. k * (k + 1) = 2 * (q * (2 * q + 1)) /\ q * (2 * q + 1) \in Nat
    BY <1>2
  <2> QED
    BY <2>1
<1>3. CASE k = 2 * q + 1
  <2>1. k * (k + 1) = 2 * ((2 * q + 1) * (q + 1)) /\ (2 * q + 1) * (q + 1) \in Nat
    BY <1>3
  <2> QED
    BY <2>1
<1> QED
  BY <1>1, <1>2, <1>3

\* Column k begins at a number that is not negative.
LEMMA ColumnStart ==
  ASSUME NEW k \in Index
  PROVE  /\ k \in Nat /\ k < NT
         /\ k * NT \in Nat /\ k * (k + 1) \in Nat /\ k * (k + 1) =< k * NT
<1>1. k \in Nat /\ NT \in Nat /\ NT - (k + 1) \in Nat
  BY NTAssumption DEF Index
<1>2. k * (NT - (k + 1)) >= 0 /\ k * (NT - (k + 1)) = k * NT - k * (k + 1)
  BY <1>1
<1> QED
  BY <1>1, <1>2

\* Dividing by SIZE.
LEMMA Divides ==
  ASSUME NEW n \in Nat
  PROVE  /\ n \div SIZE \in Nat
         /\ n % SIZE \in 0 .. SIZE - 1
         /\ n = SIZE * (n \div SIZE) + (n % SIZE)
<1>0. SIZE \in Nat /\ SIZE > 0
  BY SizeAssumption
<1>1. n % SIZE \in 0 .. SIZE - 1
  BY <1>0
<1>2. n = SIZE * (n \div SIZE) + (n % SIZE)
  BY <1>0
<1>3. n \div SIZE \in Int
  BY <1>0
<1>4. n \div SIZE \in Nat
  <2> SUFFICES ASSUME n \div SIZE < 0 PROVE FALSE
    BY <1>3
  <2>1. n \div SIZE + 1 =< 0
    BY <1>3
  <2>2. SIZE * (n \div SIZE + 1) =< 0
    BY <1>0, <1>3, <2>1
  <2>3. SIZE * (n \div SIZE) =< 0 - SIZE
    BY <1>0, <1>3, <2>2
  <2> QED
    BY <1>0, <1>1, <1>2, <1>3, <2>3
<1> QED
  BY <1>1, <1>2, <1>4

\* Every tile belongs to the share of some rank.
LEMMA Shared ==
  ASSUME NEW t \in Tiles
  PROVE  \E r \in Ranks : Own(r, t[1], t[2])
<1> DEFINE m == t[1]
           k == t[2]
<1>1. m \in Nat /\ k \in Index /\ k \in Nat
  BY NTAssumption DEF Tiles, Index
<1>2. PICK h \in Nat : k * (k + 1) = 2 * h
  BY <1>1, EvenProduct
<1> DEFINE N == k * NT - h + m
<1>3. N \in Nat /\ Number2(m, k) = 2 * N
  <2>1. k * NT \in Nat /\ 2 * h =< k * NT
    BY <1>1, <1>2, ColumnStart
  <2> QED
    BY <1>1, <1>2, <2>1 DEF Number2
<1> HIDE DEF N
<1>4. /\ N \div SIZE \in Nat
      /\ N % SIZE \in 0 .. SIZE - 1
      /\ N = SIZE * (N \div SIZE) + (N % SIZE)
  BY <1>3, Divides
<1>5. Number2(m, k) = 2 * (N % SIZE) + 2 * (SIZE * (N \div SIZE))
  BY <1>3, <1>4, SizeAssumption
<1> QED
  BY <1>4, <1>5 DEF Own, Ranks

\* Rank r does not stand between two of its numbers.
LEMMA StrideGap ==
  ASSUME NEW r \in Ranks, NEW m, NEW k, NEW m2, NEW k2,
         Own(r, m, k), Own(r, m2, k2), Number2(m2, k2) > Number2(m, k)
  PROVE  Number2(m2, k2) >= Number2(m, k) + 2 * SIZE
<1>1. PICK i \in Nat : Number2(m, k) = 2 * r + 2 * (SIZE * i)
  BY DEF Own
<1>2. PICK j \in Nat : Number2(m2, k2) = 2 * r + 2 * (SIZE * j)
  BY DEF Own
<1>3. SIZE * i \in Int /\ SIZE * j \in Int /\ r \in Int
  BY SizeAssumption DEF Ranks
<1>4. SIZE * j > SIZE * i
  BY <1>1, <1>2, <1>3
<1>5. j >= i + 1
  <2> SUFFICES ASSUME i - j \in Nat PROVE FALSE
    OBVIOUS
  <2>1. SIZE * (i - j) >= 0 /\ SIZE * (i - j) = SIZE * i - SIZE * j
    BY SizeAssumption
  <2> QED
    BY <1>3, <1>4, <2>1
<1>6. SIZE * j >= SIZE * i + SIZE
  <2>1. j - i - 1 \in Nat
    BY <1>5
  <2>2. SIZE * (j - i - 1) >= 0 /\ SIZE * (j - i - 1) = SIZE * j - SIZE * i - SIZE
    BY <2>1, SizeAssumption
  <2> QED
    BY <1>3, <2>2, SizeAssumption
<1> QED
  BY <1>1, <1>2, <1>3, <1>6, SizeAssumption

\* A later column has larger numbers.
LEMMA ColumnsApart ==
  ASSUME NEW m \in Nat, NEW k \in Nat, NEW m2 \in Nat, NEW k2 \in Nat,
         m < NT, k < k2, k2 =< m2, k2 =< NT
  PROVE  Number2(m, k) < Number2(m2, k2)
<1> DEFINE d == k2 - k - 1
           e == NT - k2
<1>1. NT \in Nat /\ d \in Nat /\ e \in Nat /\ k2 = k + 1 + d /\ NT = k2 + e
  BY NTAssumption
<1>2. k2 * NT - k * NT = NT + d * NT
  BY <1>1
<1>3. k2 * (k2 + 1) - k * (k + 1) = 2 * k + 2 + d * (k + k2 + 2)
  BY <1>1
<1>4. 2 * (d * NT) - d * (k + k2 + 2) + 2 * d >= 0
  <2>1. 2 * NT - (k + k2 + 2) + 2 \in Nat
    BY <1>1
  <2>2. d * (2 * NT - (k + k2 + 2) + 2) >= 0
    BY <1>1, <2>1
  <2> QED
    BY <1>1, <2>2
<1>5. /\ k * NT \in Int /\ k2 * NT \in Int /\ d * NT \in Int
      /\ k * (k + 1) \in Int /\ k2 * (k2 + 1) \in Int
      /\ d * (k + k2 + 2) \in Int
  BY <1>1
<1> HIDE DEF e
<1>6. Number2(m2, k2) - Number2(m, k)
        = 2 * NT + 2 * (d * NT) - (2 * k + 2) - d * (k + k2 + 2) + 2 * m2 - 2 * m
  BY <1>1, <1>2, <1>3, <1>5 DEF Number2
<1>7. 2 * NT - (2 * k + 2) - 2 * d + 2 * m2 - 2 * m > 0
  BY <1>1
<1>8. Number2(m2, k2) \in Int /\ Number2(m, k) \in Int
  BY NumberInt
<1> QED
  BY <1>1, <1>4, <1>5, <1>6, <1>7, <1>8

\* A number says which tile.
LEMMA NumberTile ==
  ASSUME NEW t \in Tiles, NEW u \in Tiles, Number2(t[1], t[2]) = Number2(u[1], u[2])
  PROVE  t = u
<1>1. /\ t = <<t[1], t[2]>> /\ t[1] \in Nat /\ t[2] \in Nat /\ t[1] < NT /\ t[2] =< t[1]
      /\ u = <<u[1], u[2]>> /\ u[1] \in Nat /\ u[2] \in Nat /\ u[1] < NT /\ u[2] =< u[1]
  BY NTAssumption DEF Tiles, Index
<1>2. Number2(t[1], t[2]) \in Int
  BY <1>1, NumberInt
<1>3. t[2] = u[2]
  BY <1>1, <1>2, ColumnsApart, NTAssumption
<1>4. t[1] = u[1]
  <2> DEFINE k == t[2]
             c == 2 * (k * NT) - k * (k + 1)
  <2>1. c \in Int
    BY <1>1, NTAssumption
  <2>2. Number2(t[1], k) = c + 2 * t[1] /\ Number2(u[1], k) = c + 2 * u[1]
    BY DEF Number2
  <2>3. c + 2 * t[1] = c + 2 * u[1]
    BY <1>3, <2>2
  <2> HIDE DEF c
  <2> QED
    BY <1>1, <2>1, <2>3
<1> QED
  BY <1>1, <1>3, <1>4

\* No tile is beyond the last column.
LEMMA NoneBeyond ==
  ASSUME NEW t \in Tiles, NEW m \in Nat, m >= NT
  PROVE  Number2(t[1], t[2]) < Number2(m, NT)
<1>1. t[1] \in Nat /\ t[2] \in Nat /\ t[1] < NT /\ t[2] < NT /\ NT \in Nat
  BY NTAssumption DEF Tiles, Index
<1> QED
  BY <1>1, ColumnsApart
-----------------------------------------------------------------------------
(* The carry loop                                                          *)

\* Every nonempty set of numbers has a least element: induction, for a property
\* given as a set.
LEMMA LeastNumber ==
  ASSUME NEW S \in SUBSET Nat, S # {}
  PROVE  \E x \in S : \A y \in S : x =< y
<1> DEFINE R == {ss \in Nat \X Nat : ss[1] < ss[2]}
<1>1. IsWellFoundedOn(R, Nat)
  BY NatLessThanWellFounded DEF OpToRel
<1>2. PICK x \in S : \A y \in S : ~(<<y, x>> \in R)
  <2> HIDE DEF R
  <2> QED
    BY <1>1, WFMin
<1>3. \A y \in S : ~(y < x)
  BY <1>2
<1> QED
  BY <1>3

Positions == [k : Nat, m : Nat, n : Nat]

\* One turn of the loop.
Turns(q)   == q.m >= NT /\ q.k < NT
Turned(q)  == [k |-> q.k + 1, m |-> q.m - NT + q.k + 1, n |-> q.n]

LEMMA TurnedIn ==
  ASSUME NEW q \in Positions, Turns(q)
  PROVE  Turned(q) \in Positions
BY NTAssumption DEF Positions, Turns, Turned

\* A function that does what the loop does exists for the last j columns, so it
\* exists for all of them.
LEMMA LoopOf ==
  ASSUME NEW j \in Nat
  PROVE  \E f : f = [q \in {p \in Positions : p.k + j >= NT} |->
                     IF Turns(q) THEN f[Turned(q)] ELSE q]
<1> DEFINE Last(i) == {p \in Positions : p.k + i >= NT}
           Is(f, i) == f = [q \in Last(i) |-> IF Turns(q) THEN f[Turned(q)] ELSE q]
           Not == {i \in Nat : ~ \E f : Is(f, i)}
<1>1. \E f : Is(f, 0)
  <2>1. \A q \in Last(0) : ~Turns(q)
    BY NTAssumption DEF Positions, Turns
  <2>2. Is([q \in Last(0) |-> q], 0)
    BY <2>1
  <2> QED
    BY <2>2
<1>2. ASSUME NEW i \in Nat, \E f : Is(f, i) PROVE \E f : Is(f, i + 1)
  <2>1. PICK f : Is(f, i)
    BY <1>2
  <2> DEFINE g == [q \in Last(i + 1) |-> IF Turns(q) THEN f[Turned(q)] ELSE q]
  <2>2. \A q \in Last(i + 1) : Turns(q) => Turned(q) \in Last(i)
    BY NTAssumption, TurnedIn DEF Positions, Turned
  <2>3. Last(i) \subseteq Last(i + 1)
    BY NTAssumption DEF Positions
  <2>4. ASSUME NEW q \in Last(i) PROVE g[q] = f[q]
    <3> HIDE DEF Last
    <3> QED
      BY <2>1, <2>3, <2>4
  <2>5. \A q \in Last(i + 1) : g[q] = IF Turns(q) THEN g[Turned(q)] ELSE q
    <3> HIDE DEF Last
    <3> QED
      BY <2>2, <2>4
  <2>6. Is(g, i + 1)
    <3>1. g = [q \in Last(i + 1) |-> g[q]]
      OBVIOUS
    <3> HIDE DEF Last, g
    <3> QED
      BY <2>5, <3>1
  <2> QED
    BY <2>6
<1>3. Not = {}
  <2> SUFFICES ASSUME Not # {} PROVE FALSE
    OBVIOUS
  <2>1. Not \in SUBSET Nat
    OBVIOUS
  <2> HIDE DEF Is
  <2>2. PICK i \in Not : \A o \in Not : i =< o
    <3> HIDE DEF Not
    <3> QED
      BY <2>1, LeastNumber
  <2>3. i # 0
    BY <1>1
  <2>4. i - 1 \in Nat /\ i - 1 \notin Not
    BY <2>2, <2>3
  <2>5. \E f : Is(f, i - 1 + 1)
    BY <1>2, <2>4
  <2> QED
    BY <2>2, <2>5
<1> QED
  BY <1>3

\* What the loop returns.
LEMMA CarriedIs ==
  ASSUME NEW q \in Positions
  PROVE  Carried(q) = IF Turns(q) THEN Carried(Turned(q)) ELSE q
<1> DEFINE Loop(f) == f = [p \in Positions |-> IF Turns(p) THEN f[Turned(p)] ELSE p]
           carry == CHOOSE f : Loop(f)
<1>1. \E f : Loop(f)
  <2>1. {p \in Positions : p.k + NT >= NT} = Positions
    <3>1. \A p \in Positions : p.k \in Nat
      BY DEF Positions
    <3> HIDE DEF Loop
    <3> QED
      BY <3>1, NTAssumption
  <2> QED
    BY <2>1, LoopOf, NTAssumption
<1>2. Loop(carry)
  <2> HIDE DEF Loop
  <2> QED
    BY <1>1
<1>3. \A p : Carried(p) = carry[p]
  BY DEF Carried, Turns, Turned, Positions
<1>4. carry[q] = IF Turns(q) THEN carry[Turned(q)] ELSE q
  <2> HIDE DEF carry
  <2> QED
    BY <1>2
<1> HIDE DEF carry
<1> QED
  BY <1>3, <1>4

\* The loop ends inside the triangle or right behind it, at the same number.
Standing(q) == q.k =< NT /\ q.k =< q.m

LEMMA CarriedFacts ==
  ASSUME NEW p \in Positions, Standing(p)
  PROVE  /\ Carried(p) \in Positions /\ Standing(Carried(p))
         /\ Carried(p).m < NT \/ Carried(p).k = NT
         /\ Carried(p).n = p.n
         /\ Number2(Carried(p).m, Carried(p).k) = Number2(p.m, p.k)
<1> DEFINE Good(q, c) == /\ c \in Positions /\ Standing(c)
                         /\ c.m < NT \/ c.k = NT
                         /\ c.n = q.n
                         /\ Number2(c.m, c.k) = Number2(q.m, q.k)
           Bad == {j \in Nat : \E q \in Positions :
                     Standing(q) /\ q.k + j = NT /\ ~Good(q, Carried(q))}
<1>1. Bad = {}
  <2> SUFFICES ASSUME Bad # {} PROVE FALSE
    OBVIOUS
  <2>1. Bad \in SUBSET Nat
    OBVIOUS
  <2>2. PICK j \in Bad : \A i \in Bad : j =< i
    <3> HIDE DEF Bad
    <3> QED
      BY <2>1, LeastNumber
  <2>3. PICK q \in Positions : Standing(q) /\ q.k + j = NT /\ ~Good(q, Carried(q))
    OBVIOUS
  <2>4. Carried(q) = IF Turns(q) THEN Carried(Turned(q)) ELSE q
    BY CarriedIs
  <2>5. Turns(q)
    <3> SUFFICES ASSUME ~Turns(q) PROVE FALSE
      OBVIOUS
    <3> QED
      BY <2>3, <2>4, NTAssumption DEF Turns, Positions, Standing
  <2>6. /\ Turned(q) \in Positions /\ Standing(Turned(q))
        /\ Turned(q).n = q.n /\ j - 1 \in Nat /\ Turned(q).k + (j - 1) = NT
    BY <2>3, <2>5, TurnedIn, NTAssumption DEF Turns, Turned, Positions, Standing
  <2>7. Number2(Turned(q).m, Turned(q).k) = Number2(q.m, q.k)
    BY CarryKeeps DEF Turned, Positions
  <2>8. Good(Turned(q), Carried(Turned(q)))
    <3>1. j - 1 \notin Bad
      BY <2>2, <2>6
    <3> HIDE DEF Good
    <3> QED
      BY <2>6, <3>1
  <2>9. Good(q, Carried(Turned(q)))
    BY <2>6, <2>7, <2>8
  <2> HIDE DEF Good
  <2> QED
    BY <2>3, <2>4, <2>5, <2>9
<1>2. NT - p.k \in Nat /\ p.k + (NT - p.k) = NT
  BY NTAssumption DEF Positions, Standing
<1>3. Good(p, Carried(p))
  <2> HIDE DEF Good
  <2> QED
    BY <1>1, <1>2
<1> QED
  BY <1>3
=============================================================================
