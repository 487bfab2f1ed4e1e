------------------------------ MODULE RingLemmas ------------------------------
(***************************************************************************)
(* What the proofs about circular buffers and queues have in common: the   *)
(* arithmetic of remainders, and a queue, q, behind what has left it, a.   *)
(***************************************************************************)
EXTENDS Integers, Sequences, SequenceTheorems, TLAPS

----------------------------------------------------------------------------
\* What \div and % are, for a positive divisor.
LEMMA DivMod ==
    ASSUME NEW a \in Int, NEW m \in Nat \ {0}
    PROVE  /\ a = m * (a \div m) + (a % m)
           /\ a % m \in 0 .. m - 1
           /\ a \div m \in Int
  OBVIOUS

\* Two quotients and remainders of one number by one divisor are the same.
LEMMA RemainderUnique ==
    ASSUME NEW m \in Nat \ {0}, NEW p \in Int, NEW q \in Int,
           NEW r \in 0 .. m - 1, NEW t \in 0 .. m - 1,
           m * p + r = m * q + t
    PROVE  r = t
<1>1. m * (p - q) = t - r
  OBVIOUS
<1>2. CASE p - q >= 1
  <2>1. m * (p - q) >= m
    BY <1>2
  <2> QED BY <1>1, <2>1
<1>3. CASE p - q <= -1
  <2>1. m * (p - q) <= -m
    BY <1>3
  <2> QED BY <1>1, <2>1
<1>4. CASE p = q
  BY <1>1, <1>4
<1> QED BY <1>2, <1>3, <1>4

\* A quotient and a remainder that fit are the quotient and the remainder.
LEMMA ModIs ==
    ASSUME NEW a \in Int, NEW m \in Nat \ {0}, NEW q \in Int,
           NEW r \in 0 .. m - 1, a = m * q + r
    PROVE  a % m = r
<1>1. a = m * (a \div m) + (a % m) /\ a % m \in 0 .. m - 1 /\ a \div m \in Int
  BY DivMod
<1>2. m * (a \div m) + (a % m) = m * q + r
  BY <1>1
<1> DEFINE aa == a % m
           dd == a \div m
<1>3. m * dd + aa = m * q + r /\ aa \in 0 .. m - 1 /\ dd \in Int
  BY <1>1, <1>2
<1>4. aa = r
  <2> HIDE DEF aa, dd
  <2> QED BY <1>3, RemainderUnique
<1> QED BY <1>4

\* A number less than the divisor is its own remainder.
LEMMA SmallMod ==
    ASSUME NEW m \in Nat \ {0}, NEW r \in 0 .. m - 1
    PROVE  r % m = r
<1>1. r = m * 0 + r
  OBVIOUS
<1> QED BY <1>1, ModIs

\* Numbers whole multiples of the divisor apart have the same remainder.
LEMMA ModMultiple ==
    ASSUME NEW a \in Int, NEW b \in Int, NEW q \in Int, NEW m \in Nat \ {0},
           b = m * q + a
    PROVE  b % m = a % m
<1> DEFINE r == a % m
           d == a \div m
<1>1. a = m * d + r /\ r \in 0 .. m - 1 /\ d \in Int
  BY DivMod
<1>2. b % m = r
  <2> HIDE DEF r, d
  <2>1. b = m * (q + d) + r
    BY <1>1
  <2>2. q + d \in Int
    BY <1>1
  <2> QED BY <1>1, <2>1, <2>2, ModIs
<1> QED BY <1>2

\* A remainder may be taken before an addition ...
LEMMA AddMod ==
    ASSUME NEW a \in Int, NEW b \in Int, NEW m \in Nat \ {0}
    PROVE  ((a % m) + b) % m = (a + b) % m
<1> DEFINE x == (a % m) + b
           y == a + b
           d == a \div m
<1>1. y = m * d + x /\ x \in Int /\ y \in Int /\ d \in Int
  BY DivMod
<1>2. y % m = x % m
  <2> HIDE DEF x, y, d
  <2> QED BY <1>1, ModMultiple
<1> QED BY <1>2

\* ... and before a subtraction.
LEMMA SubMod ==
    ASSUME NEW a \in Int, NEW b \in Int, NEW m \in Nat \ {0}
    PROVE  ((a % m) - (b % m)) % m = (a - b) % m
<1> DEFINE x == (a % m) - (b % m)
           y == a - b
           d == (a \div m) - (b \div m)
<1>1. y = m * d + x /\ x \in Int /\ y \in Int /\ d \in Int
  <2>1. /\ a = m * (a \div m) + (a % m) /\ a % m \in 0 .. m - 1
        /\ a \div m \in Int
        /\ b = m * (b \div m) + (b % m) /\ b % m \in 0 .. m - 1
        /\ b \div m \in Int
    BY DivMod
  <2>2. m * d = m * (a \div m) - m * (b \div m)
    BY <2>1
  <2> QED BY <2>1, <2>2
<1>2. y % m = x % m
  <2> HIDE DEF x, y, d
  <2> QED BY <1>1, ModMultiple
<1> QED BY <1>2

\* Numbers less than the divisor apart have different remainders.
LEMMA ModApart ==
    ASSUME NEW x \in Int, NEW y \in Int, NEW m \in Nat \ {0},
           x < y, y < x + m
    PROVE  x % m # y % m
<1>1. (y - x) % m = y - x
  BY SmallMod
<1>2. ((y % m) - (x % m)) % m = y - x
  BY <1>1, SubMod
<1>3. ASSUME x % m = y % m PROVE FALSE
  <2>1. x % m \in Int /\ y % m \in Int
    BY DivMod
  <2>2. (y % m) - (x % m) = 0
    BY <1>3, <2>1
  <2>3. 0 % m = 0
    BY SmallMod
  <2> QED BY <1>2, <2>2, <2>3
<1> QED BY <1>3

\* A remainder by a multiple of the divisor may be taken first.
LEMMA ModMod ==
    ASSUME NEW n \in Int, NEW m \in Nat \ {0}, NEW u \in Nat \ {0}, u % m = 0
    PROVE  (n % u) % m = n % m
<1> DEFINE q == u \div m
           r == n % u
           d == n \div u
<1>1. u = m * q /\ q \in Int
  <2>1. u = m * q + (u % m) /\ q \in Int
    BY DivMod
  <2> QED BY <2>1
<1>2. n = u * d + r /\ r \in Int /\ d \in Int
  BY DivMod
<1>3. n % m = r % m
  <2> DEFINE k == q * d
  <2> HIDE DEF q, r, d
  <2>1. u * d = m * (q * d)
    BY <1>1, <1>2
  <2>2. k \in Int /\ r \in Int
    BY <1>1, <1>2
  <2>3. n = m * k + r
    BY <1>2, <2>1
  <2> HIDE DEF k
  <2> QED BY <2>2, <2>3, ModMultiple
<1> QED BY <1>3

----------------------------------------------------------------------------
(* Sequences.                                                              *)

\* Sequence s without its element i (RemoveAt of the community modules).
Without(s, i) == SubSeq(s, 1, i - 1) \o SubSeq(s, i + 1, Len(s))

\* A packet more at the end of the queue is one more at the end.
LEMMA BothGrow ==
    ASSUME NEW S, NEW a \in Seq(S), NEW q \in Seq(S), NEW e \in S
    PROVE  a \o Append(q, e) = Append(a \o q, e)
<1>1. <<e>> \in Seq(S) /\ a \o q \in Seq(S)
  BY ConcatProperties
<1> QED BY <1>1, AppendIsConcat, ConcatAssociative

\* The packet that was copied goes from the queue to what is left of sent.
LEMMA HeadMoves ==
    ASSUME NEW S, NEW a \in Seq(S), NEW q \in Seq(S), q # <<>>
    PROVE  Append(a, Head(q)) \o Tail(q) = a \o q
<1>1. Head(q) \in S /\ Tail(q) \in Seq(S)
  BY HeadTailProperties
<1>2. <<Head(q)>> \in Seq(S)
  BY <1>1
<1>3. <<Head(q)>> \o Tail(q) = q
  OBVIOUS
<1>4. Append(a, Head(q)) = a \o <<Head(q)>>
  BY <1>1, AppendIsConcat
<1> QED BY <1>1, <1>2, <1>3, <1>4, ConcatAssociative

\* The first of both is the first of what is left of sent.
LEMMA FirstOfBoth ==
    ASSUME NEW S, NEW a \in Seq(S), NEW q \in Seq(S), a # <<>>
    PROVE  /\ a \o q # <<>>
           /\ Head(a \o q) = Head(a)
           /\ Tail(a \o q) = Tail(a) \o q
  OBVIOUS

\* To lose the first is to go on with the rest.
LEMMA LoseFirst ==
    ASSUME NEW S, NEW u \in Seq(S), u # <<>>
    PROVE  1 \in 1 .. Len(u) /\ Without(u, 1) = Tail(u)
<1>1. Tail(u) = SubSeq(u, 2, Len(u)) /\ Tail(u) \in Seq(S)
  BY TailIsSubSeq, HeadTailProperties
<1>2. SubSeq(u, 1, 0) = <<>>
  BY SubSeqEmpty
<1> QED BY <1>1, <1>2, ConcatEmptySeq DEF Without

\* To lose the first of the queue, after the frames of the ring, is to go on
\* with the rest of the queue.
LEMMA LoseQueued ==
    ASSUME NEW S, NEW a \in Seq(S), NEW q \in Seq(S), q # <<>>
    PROVE  /\ Len(a) + 1 \in 1 .. Len(a \o q)
           /\ Without(a \o q, Len(a) + 1) = a \o Tail(q)
<1>1. /\ Len(a) \in Nat /\ Len(q) \in Nat \ {0}
      /\ Len(a \o q) = Len(a) + Len(q) /\ a \o q \in Seq(S)
  BY ConcatProperties, LenProperties
<1>2. SubSeq(a \o q, 1, (Len(a) + 1) - 1) = a
  <2>1. CASE Len(a) = 0
    OBVIOUS
  <2>2. CASE Len(a) # 0
    BY <1>1, <2>2, SubSeqOfConcat1, SubSeqFull
  <2> QED BY <2>1, <2>2
<1>3. SubSeq(a \o q, (Len(a) + 1) + 1, Len(a \o q)) = Tail(q)
  <2>1. CASE Len(q) = 1
    OBVIOUS
  <2>2. CASE Len(q) # 1
    <3>1. PICK x, y, m, n : /\ x = Len(a) /\ y = Len(q)
                            /\ m = (x + 1) + 1 /\ n = Len(a \o q)
      OBVIOUS
    <3>2. x \in Nat /\ y \in Nat /\ y # 0 /\ y # 1 /\ n = x + y
      BY <1>1, <2>2, <3>1
    <3>3. /\ m \in x + 1 .. x + y /\ n \in x + 1 .. x + y
          /\ m - x = 2 /\ n - x = y
      BY <3>1, <3>2
    <3>4. SubSeq(a \o q, m, n) = SubSeq(q, m - x, n - x)
      BY <3>1, <3>3, SubSeqOfConcat2
    <3>5. SubSeq(a \o q, m, n) = Tail(q)
      BY <3>1, <3>3, <3>4, TailIsSubSeq
    <3> QED BY <3>1, <3>5
  <2> QED BY <2>1, <2>2
<1>4. Without(a \o q, Len(a) + 1)
        = SubSeq(a \o q, 1, (Len(a) + 1) - 1)
            \o SubSeq(a \o q, (Len(a) + 1) + 1, Len(a \o q))
  BY DEF Without
<1>5. Len(a) + 1 \in 1 .. Len(a \o q)
  BY <1>1
<1>6. Without(a \o q, Len(a) + 1) = a \o Tail(q)
  BY <1>2, <1>3, <1>4, Zenon
<1> QED BY <1>5, <1>6
=============================================================================
