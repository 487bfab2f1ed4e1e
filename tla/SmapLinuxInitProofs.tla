------------------------- MODULE SmapLinuxInitProofs -------------------------
(***************************************************************************)
(* Proofs about SmapLinuxInit, for any EEPROM, PHY, partner and cable, for *)
(* addresses and words of any length: that the driver reads its address    *)
(* bit for bit, that it comes up in the PHY's mode, and that it starts on  *)
(* clear rings with its handlers in place.                                 *)
(***************************************************************************)
EXTENDS SmapLinuxInit, RingLemmas, FiniteSetTheorems, WellFoundedInduction,
        TLAPS

----------------------------------------------------------------------------
(* Powers of two, and the bits of a number.                                *)

\* A set of natural numbers that is not empty has a least one.
LEMMA LeastOf ==
    ASSUME NEW T, T \subseteq Nat, T # {}
    PROVE  \E x \in T : \A y \in T : x <= y
<1> DEFINE R == {ss \in Nat \X Nat : ss[1] < ss[2]}
<1>1. IsWellFoundedOn(R, Nat)
  BY NatLessThanWellFounded DEF OpToRel
<1>2. \E x \in T : \A y \in T : ~ (<<y, x>> \in R)
  <2> HIDE DEF R
  <2> QED BY <1>1, WFMin
<1>3. PICK x \in T : \A y \in T : ~ (<<y, x>> \in R)
  BY <1>2
<1>4. ASSUME NEW y \in T PROVE x <= y
  <2>1. x \in Nat /\ y \in Nat
    OBVIOUS
  <2>2. CASE y < x
    <3>1. <<y, x>> \in R
      BY <2>1, <2>2
    <3> QED BY <3>1, <1>3
  <2> QED BY <2>1, <2>2
<1> QED BY <1>4

\* A set of n elements has 2^n subsets.
LEMMA Subsets ==
    ASSUME NEW n \in Nat
    PROVE  /\ IsFiniteSet(SUBSET (1 .. n))
           /\ Cardinality(SUBSET (1 .. n)) = 2^n
<1>1. IsFiniteSet(1 .. n) /\ Cardinality(1 .. n) = n
  BY FS_Interval
<1> QED BY <1>1, FS_SUBSET

\* A power of two is positive.
LEMMA PowerPositive ==
    ASSUME NEW n \in Nat
    PROVE  2^n \in Nat \ {0}
<1>1. Cardinality(SUBSET (1 .. n)) \in Nat
  BY Subsets, FS_CardinalityType
<1>2. Cardinality(SUBSET (1 .. n)) # 0
  <2>1. SUBSET (1 .. n) # {}
    OBVIOUS
  <2> QED BY <2>1, Subsets, FS_EmptySet
<1>3. Cardinality(SUBSET (1 .. n)) = 2^n
  BY Subsets
<1> QED BY <1>1, <1>2, <1>3

\* The next one is its double: the subsets of 1 .. n + 1 are those of 1 .. n,
\* without and with n + 1.
LEMMA PowerDoubles ==
    ASSUME NEW n \in Nat
    PROVE  2^(n + 1) = 2 * 2^n
<1> DEFINE S == SUBSET (1 .. n)
           B == {x \cup {n + 1} : x \in S}
           f == [x \in S |-> x \cup {n + 1}]
<1>1. \A x \in S : n + 1 \notin x
  OBVIOUS
<1>2. ExistsBijection(S, B)
  <2>1. f \in [S -> B] /\ \A y \in B : \E x \in S : f[x] = y
    OBVIOUS
  <2>2. ASSUME NEW x \in S, NEW y \in S, f[x] = f[y] PROVE x = y
    <3>1. x \cup {n + 1} = y \cup {n + 1}
      BY <2>2
    <3> QED BY <3>1, <1>1
  <2> HIDE DEF f, S, B
  <2>3. f \in Bijection(S, B)
    BY <2>1, <2>2 DEF Bijection, Injection, Surjection, IsInjective
  <2> QED BY <2>3 DEF ExistsBijection
<1>3. IsFiniteSet(S) /\ Cardinality(S) = 2^n
  BY Subsets
<1>4. IsFiniteSet(B) /\ Cardinality(B) = 2^n
  <2> HIDE DEF S, B
  <2> QED BY <1>2, <1>3, FS_Bijection
<1>5. S \cap B = {}
  BY <1>1
<1>6. SUBSET (1 .. n + 1) = S \cup B
  <2>1. 1 .. n + 1 = (1 .. n) \cup {n + 1}
    OBVIOUS
  <2>2. ASSUME NEW y \in SUBSET (1 .. n + 1), n + 1 \in y
        PROVE  y \in B
    <3>1. y \ {n + 1} \in S /\ y = (y \ {n + 1}) \cup {n + 1}
      BY <2>1, <2>2
    <3> QED BY <3>1
  <2>3. ASSUME NEW y \in SUBSET (1 .. n + 1), n + 1 \notin y
        PROVE  y \in S
    BY <2>1, <2>3
  <2>4. S \cup B \subseteq SUBSET (1 .. n + 1)
    BY <2>1
  <2> HIDE DEF S, B
  <2> QED BY <2>2, <2>3, <2>4
<1>7. Cardinality(S \cup B) = 2^n + 2^n - Cardinality({})
  <2> HIDE DEF S, B
  <2> QED BY <1>3, <1>4, <1>5, FS_Union
<1>8. 2^(n + 1) = 2^n + 2^n - Cardinality({})
  <2> HIDE DEF S, B
  <2>1. n + 1 \in Nat
    OBVIOUS
  <2> QED BY <2>1, <1>6, <1>7, Subsets
<1>9. Cardinality({}) = 0
  BY FS_EmptySet
<1>10. 2^n \in Nat
  BY PowerPositive
<1> QED BY <1>8, <1>9, <1>10

\* A quotient that leaves a remainder less than the divisor is the quotient.
LEMMA QuotientIs ==
    ASSUME NEW a \in Int, NEW m \in Nat \ {0}, NEW q \in Int,
           NEW r \in 0 .. m - 1, a = m * q + r
    PROVE  a \div m = q
<1> DEFINE d == a \div m
<1>1. /\ a = m * d + (a % m) /\ d \in Int
      /\ a % m = r
  BY DivMod, ModIs
<1> HIDE DEF d
<1>2. m * d = m * q
  BY <1>1
<1>3. m * (d - q) = 0
  BY <1>1, <1>2
<1>4. CASE d - q >= 1
  <2>1. m * (d - q) >= m
    BY <1>1, <1>4
  <2> QED BY <2>1, <1>3
<1>5. CASE d - q <= -1
  <2>1. m * (d - q) <= -m
    BY <1>1, <1>5
  <2> QED BY <2>1, <1>3
<1>6. d = q
  BY <1>1, <1>4, <1>5
<1> QED BY <1>6 DEF d

\* A number without its last i bits is the number without its last i + 1, and
\* then bit i.
LEMMA OneBitMore ==
    ASSUME NEW v \in Nat, NEW i \in Nat
    PROVE  /\ v \div 2^i = 2 * (v \div 2^(i + 1)) + BitOf(v, i)
           /\ BitOf(v, i) \in {0, 1}
           /\ v \div 2^i \in Nat /\ v \div 2^i <= v
           /\ v \div 2^(i + 1) \in Nat
<1> DEFINE p == 2^i
           q == v \div p
           r == v % p
           h == q \div 2
           b == q % 2
<1>1. p \in Nat \ {0} /\ 2^(i + 1) = 2 * p
  BY PowerPositive, PowerDoubles
<1>2. v = p * q + r /\ r \in 0 .. p - 1 /\ q \in Int
  <2> HIDE DEF p
  <2> QED BY <1>1, DivMod
<1>3. q \in Nat /\ q <= v
  <2> HIDE DEF p, q, r
  <2>1. CASE q < 0
    <3>1. q <= -1
      BY <1>2, <2>1
    <3>2. p * q <= -p
      BY <1>1, <1>2, <3>1
    <3> QED BY <1>1, <1>2, <3>2
  <2>2. CASE q >= 0
    <3>1. q <= p * q
      BY <1>1, <1>2, <2>2
    <3> QED BY <1>1, <1>2, <2>2, <3>1
  <2> QED BY <1>2, <2>1, <2>2
<1>4. q = 2 * h + b /\ b \in {0, 1} /\ h \in Nat
  <2> HIDE DEF p, q, r
  <2> QED BY <1>3
<1>5. v \div (2 * p) = h
  <2> HIDE DEF p, q, r, h, b
  <2>1. p * q = (2 * p) * h + p * b
    BY <1>1, <1>3, <1>4
  <2>2. p * b + r \in 0 .. 2 * p - 1
    BY <1>1, <1>2, <1>4
  <2>3. v = (2 * p) * h + (p * b + r)
    BY <1>1, <1>2, <1>3, <1>4, <2>1
  <2>4. 2 * p \in Nat \ {0} /\ h \in Int
    BY <1>1, <1>4
  <2> QED BY <2>2, <2>3, <2>4, QuotientIs
<1>6. BitOf(v, i) = b
  BY DEF BitOf
<1> QED BY <1>1, <1>3, <1>4, <1>5, <1>6

\* A number less than 2^n has no bits beyond.
LEMMA NoBitsBeyond ==
    ASSUME NEW n \in Nat, NEW v \in 0 .. 2^n - 1
    PROVE  v \div 2^n = 0
<1>1. 2^n \in Nat \ {0} /\ v \in Int /\ v = 2^n * 0 + v
  BY PowerPositive
<1> QED BY <1>1, QuotientIs

\* Two numbers of n bits with the same bits are the same.
LEMMA BitsTell ==
    ASSUME NEW n \in Nat, NEW a \in 0 .. 2^n - 1, NEW b \in 0 .. 2^n - 1,
           \A i \in 0 .. n - 1 : BitOf(a, i) = BitOf(b, i)
    PROVE  a = b
<1> DEFINE T == {k \in 0 .. n : a \div 2^k = b \div 2^k}
<1>1. a \in Nat /\ b \in Nat
  BY PowerPositive
<1>2. n \in T
  BY NoBitsBeyond
<1>3. PICK x \in T : \A y \in T : x <= y
  <2>1. T \subseteq Nat
    OBVIOUS
  <2> HIDE DEF T
  <2> QED BY <1>2, <2>1, LeastOf
<1>4. x = 0
  <2> SUFFICES ASSUME x # 0 PROVE FALSE
    OBVIOUS
  <2> DEFINE w == x - 1
  <2>1. w \in Nat /\ w \in 0 .. n - 1 /\ x = w + 1
    OBVIOUS
  <2>2. a \div 2^(w + 1) = b \div 2^(w + 1)
    BY <2>1
  <2>3. /\ a \div 2^w = 2 * (a \div 2^(w + 1)) + BitOf(a, w)
        /\ b \div 2^w = 2 * (b \div 2^(w + 1)) + BitOf(b, w)
    <3> HIDE DEF w
    <3> QED BY <1>1, <2>1, OneBitMore
  <2>4. a \div 2^w = b \div 2^w
    BY <2>1, <2>2, <2>3
  <2>5. w \in T
    BY <2>1, <2>4
  <2> QED BY <2>1, <2>5, <1>3
<1>5. a \div 2^0 = b \div 2^0
  BY <1>4
<1>6. 2^0 = 1
  OBVIOUS
<1> QED BY <1>1, <1>5, <1>6

----------------------------------------------------------------------------
(* The EEPROM.                                                             *)

Bits == {0, 1}
Commanding == {"node", "out", "in", "cslow"}

\* The command to read from a, and how it is on its way: the chip has a part
\* of it, and the driver the rest.
Command(a) == EEPROMStartOp \o EEPROMPutAddr(a)
Address == IF Len(wordsRead) < 3 THEN 0 ELSE 3

\* The words read so far are the EEPROM's.
WordsInv ==
    /\ eeprom \in [0 .. 3 -> Word]
    /\ wordsRead \in Seq(Word) /\ Len(wordsRead) \in 0 .. 4
    /\ \A k \in 1 .. Len(wordsRead) : wordsRead[k] = eeprom[k - 1]
    /\ pc = "dev9" => Len(wordsRead) = 0
    /\ pc \in {"node", "out"} => Len(wordsRead) \in {0, 3}
    /\ pc = "in" => Len(wordsRead) \in 0 .. 3
    /\ pc = "cslow" => Len(wordsRead) \in {3, 4}
    /\ pc \notin Commanding \cup {"dev9"} => Len(wordsRead) = 4

\* The chip is selected while it is read, and then has had the command of
\* the next words.
CommandInv ==
    /\ selected \in BOOLEAN /\ (selected <=> pc \in {"out", "in", "cslow"})
    /\ command \in Seq(Bits) /\ outBits \in Seq(Bits)
    /\ Len(command) + Len(outBits) <= 3 + AddrBits
    /\ pc = "out" => /\ outBits # <<>> /\ shifted = 0
                     /\ command \o outBits = Command(Address)
    /\ pc = "in" => command = Command(Address)

\* The bits shifted out are the first ones of the word that is next.
BitsInv ==
    /\ shifted \in 0 .. 3 * DataBits /\ bitsIn \in 0 .. DataBits
    /\ u16Data \in Word
    /\ pc # "in" => u16Data = 0 /\ bitsIn = 0
    /\ pc = "in" =>
         /\ shifted = (Len(wordsRead) - Address) * DataBits + bitsIn
         /\ u16Data = eeprom[Len(wordsRead)] \div 2^(DataBits - bitsIn)

\* What GetNodeAddr made of the words.
AddressInv ==
    /\ pc = "reset" => au8HWAddr = [k \in 1 .. 3 |-> eeprom[k - 1]]
    /\ pc \in {"reset", "failed"} =>
         (pc = "reset" <=>
            Sum16([k \in 1 .. 3 |-> eeprom[k - 1]]) = eeprom[3])

EepromInv == WordsInv /\ CommandInv /\ BitsInv /\ AddressInv

----------------------------------------------------------------------------
(* The PHY, the MAC and the rest of the adapter.                           *)

Asking == {"confirm", "physts"}
Forcing == {"forced", "lastlook"}
ModeFound == {"default", "rings", "handlers", "netif", "up"}

\* The mode of the PHY, as EMAC3 is to have it.
PhyMode == [media |-> PhyMedia, fdx |-> PhyFdx, flow |-> PhyFdx,
            ignoreSqe |-> PhyFdx \/ PhyMedia = 100]
Undisturbed == ~ spdrev13 /\ flapsLeft = MaxFlaps

PlaceTypes ==
    /\ pc \in {"dev9", "node", "out", "in", "cslow", "sum", "reset",
               "phyreset", "confirm", "physts", "establish", "forced",
               "lastlook", "default", "rings", "handlers", "netif", "up",
               "failed"}
    /\ u32Flags \subseteq CHECKS \cup {"LINKESTABLISH", "LINKVALID", "OPENED"}
    /\ retriesLeft \in 0 .. SMAP_AUTONEGO_RETRY
    /\ bmcr \in {"aneg", "100M", "10M"}
    /\ partner \in [aneg : BOOLEAN, media : {10, 100}, fdx : BOOLEAN]
    /\ flapsLeft \in 0 .. MaxFlaps
    /\ negotiated \in BOOLEAN /\ spdrev13 \in BOOLEAN

\* Negotiation is complete on a link only; a speed is forced until there is
\* one; and a link is valid no sooner than the mode is found.
PhyInv ==
    /\ negotiated => bmcr = "aneg" /\ plugged /\ ~ phyDead
    /\ pc \in {"phyreset"} \cup Asking \cup Forcing => mode1 = DefaultMode
    /\ pc \in Asking \cup Forcing => ~ phyDead
    /\ pc \in Asking \cup {"establish"} => bmcr = "aneg"
    /\ pc = "physts" /\ Undisturbed => negotiated
    /\ pc \in Forcing =>
         bmcr = IF "CHECK_FORCE100M" \in u32Flags THEN "100M" ELSE "10M"
    /\ pc \notin ModeFound => "LINKVALID" \notin u32Flags

\* With a valid link, the mode that was found is the PHY's, and MODE1 gets it.
ModeInv ==
    /\ pc = "establish" /\ Undisturbed => mode1 = PhyMode
    /\ pc \in ModeFound /\ "LINKVALID" \in u32Flags /\ Undisturbed =>
         u32TXMode = PhyMode
    /\ pc \in {"handlers", "netif", "up"} => mode1 = u32TXMode

\* The MAC is off from its reset until SMap_Start.
StartInv ==
    /\ intrEnabled => pc \in {"dev9", "up"}
    /\ pc \in {"phyreset", "default", "rings", "handlers", "netif"}
              \cup Asking \cup Forcing \cup {"establish"} => ~ macOn
    /\ pc \in {"handlers", "netif", "up"} =>
         ringsClear /\ emacAddr = au8HWAddr
    /\ pc \in {"netif", "up"} => handlers /\ timer
    /\ pc = "up" => intrClear

BringUpInv == PlaceTypes /\ PhyInv /\ ModeInv /\ StartInv

----------------------------------------------------------------------------
(* The EEPROM is read right.                                               *)

\* What InitAssumption says of the sizes.
LEMMA Sizes ==
    /\ AddrBits \in Nat /\ AddrBits >= 2 /\ DataBits \in Nat \ {0}
    /\ 2^DataBits \in Nat \ {0}
    /\ 2^AddrBits \in Nat /\ 2^AddrBits >= 4
    /\ Word = 0 .. 2^DataBits - 1 /\ 0 \in Word
<1>1. AddrBits \in Nat /\ AddrBits >= 2 /\ DataBits \in Nat \ {0}
  BY InitAssumption
<1>2. 2^DataBits \in Nat \ {0}
  BY <1>1, PowerPositive
<1>3. 2^AddrBits \in Nat /\ 2^AddrBits >= 4
  <2> DEFINE n == AddrBits - 2
             m == AddrBits - 1
  <2>1. n \in Nat /\ m \in Nat /\ m = n + 1 /\ AddrBits = m + 1
    BY <1>1
  <2>2. 2^n \in Nat \ {0} /\ 2^(n + 1) = 2 * 2^n /\ 2^(m + 1) = 2 * 2^m
    <3> HIDE DEF n, m
    <3> QED BY <2>1, PowerPositive, PowerDoubles
  <2>3. 2^AddrBits = 2 * (2 * 2^n)
    BY <2>1, <2>2, Zenon
  <2> QED BY <2>2, <2>3
<1> QED BY <1>1, <1>2, <1>3 DEF Word

\* The command to read from an address: three bits, and the address's.
LEMMA CommandIs ==
    ASSUME NEW a \in Nat
    PROVE  /\ Command(a) \in Seq(Bits) /\ Len(Command(a)) = 3 + AddrBits
           /\ Command(a)[1] = 1 /\ Command(a)[2] = 1 /\ Command(a)[3] = 0
           /\ \A k \in 1 .. AddrBits :
                Command(a)[3 + k] = BitOf(a, AddrBits - k)
<1>1. EEPROMStartOp \in Seq(Bits) /\ Len(EEPROMStartOp) = 3
  BY DEF EEPROMStartOp, Bits
<1>2. ASSUME NEW k \in 1 .. AddrBits PROVE BitOf(a, AddrBits - k) \in Bits
  <2>1. AddrBits - k \in Nat
    BY Sizes
  <2> QED BY <2>1, OneBitMore DEF Bits
<1>3. EEPROMPutAddr(a) \in Seq(Bits) /\ Len(EEPROMPutAddr(a)) = AddrBits
  BY <1>2, Sizes DEF EEPROMPutAddr
<1>4. \A k \in 1 .. AddrBits : EEPROMPutAddr(a)[k] = BitOf(a, AddrBits - k)
  BY DEF EEPROMPutAddr
<1>5. /\ Command(a) \in Seq(Bits) /\ Len(Command(a)) = 3 + AddrBits
      /\ \A i \in 1 .. 3 + AddrBits : Command(a)[i] =
           IF i <= 3 THEN EEPROMStartOp[i] ELSE EEPROMPutAddr(a)[i - 3]
  <2>1. /\ Command(a) \in Seq(Bits)
        /\ Len(Command(a)) = Len(EEPROMStartOp) + Len(EEPROMPutAddr(a))
        /\ \A i \in 1 .. Len(EEPROMStartOp) + Len(EEPROMPutAddr(a)) :
             Command(a)[i] =
               IF i <= Len(EEPROMStartOp) THEN EEPROMStartOp[i]
               ELSE EEPROMPutAddr(a)[i - Len(EEPROMStartOp)]
    BY <1>1, <1>3, ConcatProperties, Zenon DEF Command
  <2> QED BY <2>1, <1>1, <1>3, Zenon
<1>6. \A i \in 1 .. 3 : Command(a)[i] = EEPROMStartOp[i]
  BY <1>5, Sizes
<1>7. ASSUME NEW k \in 1 .. AddrBits
      PROVE  Command(a)[3 + k] = BitOf(a, AddrBits - k)
  <2>1. 3 + k \in 1 .. 3 + AddrBits /\ ~ (3 + k <= 3) /\ (3 + k) - 3 = k
    BY Sizes
  <2> QED BY <2>1, <1>4, <1>5
<1> QED BY <1>5, <1>6, <1>7 DEF EEPROMStartOp

\* After the command to read from a, the chip's answers are the bits of the
\* words from a on, highest first.
LEMMA AnswerIs ==
    ASSUME NEW a \in {0, 3}, NEW c \in 0 .. 3, NEW b \in 0 .. DataBits - 1,
           selected, command = Command(a), shifted = c * DataBits + b
    PROVE  EepromAnswer = BitOf(eeprom[(a + c) % 4], DataBits - 1 - b)
<1>1. a \in 0 .. 2^AddrBits - 1 /\ a \in Nat
  BY Sizes
<1> DEFINE P(x) == \A k \in 1 .. AddrBits :
                     BitOf(x, AddrBits - k) = command[3 + k]
           addr == CHOOSE x \in 0 .. 2^AddrBits - 1 : P(x)
<1>2. P(a)
  BY <1>1, CommandIs
<1>3. addr \in 0 .. 2^AddrBits - 1 /\ P(addr)
  <2> HIDE DEF P
  <2> QED BY <1>1, <1>2
<1>4. addr = a
  <2> HIDE DEF addr
  <2>1. ASSUME NEW i \in 0 .. AddrBits - 1
        PROVE  BitOf(addr, i) = BitOf(a, i)
    <3> DEFINE k == AddrBits - i
    <3>1. k \in 1 .. AddrBits /\ AddrBits - k = i
      BY Sizes
    <3> HIDE DEF k
    <3>2. BitOf(addr, AddrBits - k) = command[3 + k]
      BY <3>1, <1>3
    <3>3. BitOf(a, AddrBits - k) = command[3 + k]
      BY <3>1, <1>2
    <3> QED BY <3>1, <3>2, <3>3
  <2> QED BY <2>1, <1>1, <1>3, Sizes, BitsTell
<1>5. shifted \div DataBits = c /\ shifted % DataBits = b
  <2>1. /\ DataBits \in Nat \ {0} /\ c \in Int /\ shifted \in Int
        /\ shifted = DataBits * c + b
    BY Sizes
  <2> QED BY <2>1, QuotientIs, ModIs
<1>6. SubSeq(command, 1, 3) = <<1, 1, 0>>
  <2>1. \A i \in 1 .. 3 : command[i] \in Bits
    BY <1>1, CommandIs DEF Bits
  <2>2. /\ SubSeq(command, 1, 3) \in Seq(Bits)
        /\ Len(SubSeq(command, 1, 3)) = 3
        /\ \A i \in 1 .. 3 : SubSeq(command, 1, 3)[i] = command[i]
    BY <2>1, SubSeqProperties
  <2>3. /\ command[1] = 1 /\ command[2] = 1 /\ command[3] = 0
    BY <1>1, CommandIs
  <2>4. <<1, 1, 0>> \in Seq(Bits) /\ Len(<<1, 1, 0>>) = 3
    BY DEF Bits
  <2>5. \A i \in 1 .. 3 : SubSeq(command, 1, 3)[i] = <<1, 1, 0>>[i]
    BY <2>2, <2>3
  <2> QED BY <2>2, <2>4, <2>5, SeqEqual
<1>7. EepromAnswer = BitOf(eeprom[(addr + shifted \div DataBits) % 4],
                           DataBits - 1 - (shifted % DataBits))
  BY <1>6 DEF EepromAnswer
<1> QED BY <1>4, <1>5, <1>7

\* A new word has had none of its bits, and the whole of it is what is left
\* when none is missing.
LEMMA WholeWord ==
    ASSUME NEW w \in Word
    PROVE  w \div 2^(DataBits - 0) = 0 /\ w \div 2^(DataBits - DataBits) = w
<1>1. w \in 0 .. 2^DataBits - 1 /\ w \in Nat /\ DataBits \in Nat
  BY Sizes
<1>2. DataBits - 0 = DataBits /\ DataBits - DataBits = 0 /\ 2^0 = 1
  BY <1>1
<1>3. w \div 2^DataBits = 0
  BY <1>1, NoBitsBeyond
<1>4. w \div 1 = w
  BY <1>1
<1> QED BY <1>2, <1>3, <1>4

\* ReadFromEEPROM sends the command of the words that are next.
LEMMA ReadBegins ==
    ASSUME EepromInv, ReadFromEEPROM, UNCHANGED driverVars
    PROVE  EepromInv'
<1>1. Len(wordsRead) \in {0, 3} /\ Address = Len(wordsRead)
      /\ wordsRead' = wordsRead /\ Address' = Address
  BY DEF ReadFromEEPROM, Address
<1>2. WordsInv'
  BY <1>1 DEF EepromInv, WordsInv, ReadFromEEPROM, Commanding
<1>3. CommandInv'
  <2>1. outBits' = Command(Address) /\ command' = <<>> /\ shifted' = 0
        /\ pc' = "out" /\ selected' = TRUE
    BY <1>1 DEF ReadFromEEPROM, Command
  <2>2. /\ Command(Address) \in Seq(Bits)
        /\ Len(Command(Address)) = 3 + AddrBits
    BY <1>1, CommandIs
  <2>3. <<>> \o Command(Address) = Command(Address) /\ <<>> \in Seq(Bits)
        /\ Len(<<>>) = 0
    BY <2>2, ConcatEmptySeq
  <2>4. Len(command') + Len(outBits') <= 3 + AddrBits /\ outBits' # <<>>
    BY <2>1, <2>2, <2>3, Sizes
  <2>5. Command(Address)' = Command(Address)
    BY <1>1 DEF Command, EEPROMPutAddr
  <2> QED BY <2>1, <2>2, <2>3, <2>4, <2>5 DEF CommandInv
<1>4. BitsInv'
  BY Sizes DEF EepromInv, BitsInv, ReadFromEEPROM
<1>5. AddressInv'
  BY DEF AddressInv, ReadFromEEPROM
<1> QED BY <1>2, <1>3, <1>4, <1>5 DEF EepromInv

\* EEPROMClockDataOut hands the chip the next bit of it.
LEMMA BitOut ==
    ASSUME EepromInv, EEPROMClockDataOut, UNCHANGED driverVars
    PROVE  EepromInv'
<1>1. /\ pc = "out" /\ outBits # <<>> /\ wordsRead' = wordsRead
      /\ Address' = Address /\ Command(Address)' = Command(Address)
      /\ Len(wordsRead) \in {0, 3} /\ Address = Len(wordsRead)
  <2>1. pc = "out" /\ wordsRead' = wordsRead
    BY DEF EEPROMClockDataOut
  <2>2. outBits # <<>>
    BY <2>1 DEF EepromInv, CommandInv
  <2>3. Len(wordsRead) \in {0, 3}
    BY <2>1 DEF EepromInv, WordsInv
  <2>4. Address = Len(wordsRead) /\ Address' = Address
    BY <2>1, <2>3 DEF Address
  <2>5. Command(Address)' = Command(Address)
    BY <2>4 DEF Command, EEPROMPutAddr
  <2> QED BY <2>1, <2>2, <2>3, <2>4, <2>5
<1>2. WordsInv'
  <2>1. pc' \in {"out", "in"}
    BY DEF EEPROMClockDataOut
  <2> QED BY <1>1, <2>1
            DEF EepromInv, WordsInv, EEPROMClockDataOut, Commanding
<1>3. CommandInv'
  <2>1. /\ command \in Seq(Bits) /\ outBits \in Seq(Bits)
        /\ command \o outBits = Command(Address)
        /\ Len(command) + Len(outBits) <= 3 + AddrBits
    BY <1>1 DEF EepromInv, CommandInv
  <2>2. /\ command' = Append(command, Head(outBits))
        /\ outBits' = Tail(outBits)
    BY DEF EEPROMClockDataOut
  <2>3. /\ command' \in Seq(Bits) /\ outBits' \in Seq(Bits)
        /\ Len(command') = Len(command) + 1
        /\ Len(outBits') = Len(outBits) - 1
    BY <1>1, <2>1, <2>2, HeadTailProperties, AppendProperties
  <2>4. command' \o outBits' = Command(Address)
    BY <1>1, <2>1, <2>2, HeadMoves
  <2>5. Len(command) \in Nat /\ Len(outBits) \in Nat
    BY <2>1
  <2>6. CASE Len(outBits) = 1
    <3>1. pc' = "in" /\ Len(outBits') = 0
      BY <2>3, <2>6 DEF EEPROMClockDataOut
    <3>2. outBits' = <<>>
      BY <2>3, <3>1
    <3>3. command' \o <<>> = command'
      BY <2>3, ConcatEmptySeq
    <3>4. command' = Command(Address)
      BY <2>4, <3>2, <3>3
    <3>5. selected' = TRUE
      BY <1>1 DEF EepromInv, CommandInv, EEPROMClockDataOut
    <3>6. Len(command') + Len(outBits') <= 3 + AddrBits
      BY <2>1, <2>3, <2>5, Sizes
    <3> QED BY <1>1, <2>3, <3>1, <3>4, <3>5, <3>6 DEF CommandInv
  <2>7. CASE Len(outBits) # 1
    <3>1. pc' = "out" /\ outBits' # <<>>
      <4>1. pc' = "out"
        BY <2>7 DEF EEPROMClockDataOut
      <4>2. Len(outBits') # 0
        BY <2>3, <2>5, <2>7
      <4>3. Len(<<>>) = 0
        OBVIOUS
      <4> QED BY <4>1, <4>2, <4>3
    <3>2. selected' = TRUE /\ shifted' = 0
      BY <1>1 DEF EepromInv, CommandInv, EEPROMClockDataOut
    <3>3. Len(command') + Len(outBits') <= 3 + AddrBits
      BY <2>1, <2>3, <2>5, Sizes
    <3> QED BY <1>1, <2>3, <2>4, <3>1, <3>2, <3>3 DEF CommandInv
  <2> QED BY <2>6, <2>7
<1>4. BitsInv'
  <2>1. /\ u16Data = 0 /\ bitsIn = 0 /\ shifted = 0
        /\ u16Data' = 0 /\ bitsIn' = 0 /\ shifted' = 0
        /\ eeprom' = eeprom
    BY <1>1 DEF EepromInv, CommandInv, BitsInv, EEPROMClockDataOut
  <2>2. eeprom[Len(wordsRead)] \in Word
    BY <1>1 DEF EepromInv, WordsInv
  <2>3. eeprom[Len(wordsRead)] \div 2^(DataBits - 0) = 0
    BY <2>2, WholeWord
  <2>4. (Len(wordsRead) - Address) * DataBits + 0 = 0
    BY <1>1, Sizes
  <2> QED BY <1>1, <2>1, <2>3, <2>4, Sizes DEF BitsInv
<1>5. AddressInv'
  BY DEF AddressInv, EEPROMClockDataOut
<1> QED BY <1>2, <1>3, <1>4, <1>5 DEF EepromInv

\* EEPROMClockDataIn takes the word's next bit.
LEMMA BitIn ==
    ASSUME EepromInv, EEPROMClockDataIn, UNCHANGED driverVars
    PROVE  EepromInv'
<1> DEFINE a == Address
           c == Len(wordsRead) - Address
           w == eeprom[Len(wordsRead)]
           k == DataBits - 1 - bitsIn
<1>1. /\ pc = "in" /\ bitsIn \in 0 .. DataBits - 1
      /\ pc' = pc /\ eeprom' = eeprom /\ wordsRead' = wordsRead
      /\ bitsIn' = bitsIn + 1 /\ shifted' = shifted + 1
      /\ command' = command /\ selected' = selected /\ outBits' = outBits
  BY Sizes DEF EepromInv, BitsInv, EEPROMClockDataIn
<1>2. /\ Len(wordsRead) \in 0 .. 3 /\ a \in {0, 3} /\ c \in 0 .. 2
      /\ a + c = Len(wordsRead) /\ (a + c) % 4 = Len(wordsRead)
  <2>1. Len(wordsRead) \in 0 .. 3
    BY <1>1 DEF EepromInv, WordsInv
  <2>2. PICK n \in 0 .. 3 : n = Len(wordsRead)
    BY <2>1
  <2>3. a = IF n < 3 THEN 0 ELSE 3
    BY <2>2 DEF Address
  <2>4. c = n - a
    BY <2>2
  <2>5. a \in {0, 3} /\ c \in 0 .. 2 /\ a + c = n /\ n % 4 = n
    <3> HIDE DEF a, c
    <3> QED BY <2>3, <2>4
  <2> QED BY <2>1, <2>2, <2>5
<1>3. Address' = Address /\ Command(Address)' = Command(Address)
  <2>1. Address' = Address
    BY <1>1 DEF Address
  <2> QED BY <2>1 DEF Command, EEPROMPutAddr
<1>4. /\ selected /\ command = Command(a)
      /\ shifted = c * DataBits + bitsIn
      /\ u16Data = w \div 2^(DataBits - bitsIn)
  BY <1>1 DEF EepromInv, CommandInv, BitsInv
<1>5. w \in Word /\ w \in Nat /\ w \in 0 .. 2^DataBits - 1
  <2>1. w \in Word
    BY <1>2 DEF EepromInv, WordsInv
  <2> HIDE DEF w
  <2> QED BY <2>1, Sizes
<1>6. EepromAnswer = BitOf(w, k)
  <2> HIDE DEF a, c
  <2>1. c \in 0 .. 3
    BY <1>2
  <2> QED BY <1>1, <1>2, <1>4, <2>1, AnswerIs
<1>7. /\ k \in Nat /\ DataBits - bitsIn = k + 1
      /\ DataBits - (bitsIn + 1) = k
  BY <1>1, Sizes
<1>8. u16Data' = w \div 2^k /\ u16Data' \in Word
  <2> HIDE DEF a, c, w, k
  <2> DEFINE v == w \div 2^k
             u == w \div 2^(k + 1)
  <2>1. /\ v = 2 * u + BitOf(w, k) /\ u \in Nat /\ v \in Nat
        /\ v <= w /\ BitOf(w, k) \in {0, 1}
    BY <1>5, <1>7, OneBitMore
  <2>2. u16Data = u
    BY <1>4, <1>7
  <2>3. u16Data' = (u16Data * 2 + EepromAnswer) % 2^DataBits
    BY DEF EEPROMClockDataIn
  <2> HIDE DEF v, u
  <2>4. v \in 0 .. 2^DataBits - 1
    BY <1>5, <2>1, Sizes
  <2>5. u16Data * 2 + EepromAnswer = v
    BY <1>6, <2>1, <2>2
  <2>6. v % 2^DataBits = v
    BY <2>4, Sizes, SmallMod
  <2>7. u16Data' = v
    BY <2>3, <2>5, <2>6
  <2>8. v \in Word
    BY <2>4 DEF Word
  <2> QED BY <2>7, <2>8 DEF v
<1>9. WordsInv'
  BY <1>1 DEF EepromInv, WordsInv
<1>10. CommandInv'
  BY <1>1, <1>3 DEF EepromInv, CommandInv
<1>11. BitsInv'
  <2>1. shifted' = c * DataBits + (bitsIn + 1)
    <3> HIDE DEF c
    <3> QED BY <1>1, <1>2, <1>4, Sizes
  <2>2. shifted' \in 0 .. 3 * DataBits
    <3> HIDE DEF c
    <3>1. c = 0 \/ c = 1 \/ c = 2
      BY <1>2
    <3>2. CASE c = 0
      BY <3>2, <2>1, <1>1, Sizes
    <3>3. CASE c = 1
      BY <3>3, <2>1, <1>1, Sizes
    <3>4. CASE c = 2
      BY <3>4, <2>1, <1>1, Sizes
    <3> QED BY <3>1, <3>2, <3>3, <3>4
  <2>3. u16Data' = w \div 2^(DataBits - bitsIn')
    BY <1>1, <1>7, <1>8
  <2> QED BY <1>1, <1>3, <1>8, <2>1, <2>2, <2>3, Sizes DEF BitsInv
<1>12. AddressInv'
  BY <1>1 DEF AddressInv
<1> QED BY <1>9, <1>10, <1>11, <1>12 DEF EepromInv

\* GetDataFromEEPROM has the word, and the next one follows it.
LEMMA WordIn ==
    ASSUME EepromInv, GetDataFromEEPROM, UNCHANGED driverVars
    PROVE  EepromInv'
<1> DEFINE n == Len(wordsRead)
           w == eeprom[n]
<1>1. /\ pc = "in" /\ bitsIn = DataBits
      /\ eeprom' = eeprom /\ wordsRead' = Append(wordsRead, u16Data)
      /\ bitsIn' = 0 /\ u16Data' = 0 /\ shifted' = shifted
      /\ command' = command /\ selected' = selected /\ outBits' = outBits
      /\ pc' = IF n < 2 THEN "in" ELSE "cslow"
  BY DEF GetDataFromEEPROM
<1>2. n \in 0 .. 3 /\ w \in Word /\ wordsRead \in Seq(Word)
  BY <1>1 DEF EepromInv, WordsInv
<1>3. u16Data = w
  <2>1. u16Data = w \div 2^(DataBits - DataBits)
    BY <1>1 DEF EepromInv, BitsInv
  <2> HIDE DEF w
  <2> QED BY <2>1, <1>2, WholeWord
<1>4. /\ wordsRead' \in Seq(Word) /\ Len(wordsRead') = n + 1
      /\ \A k \in 1 .. n : wordsRead'[k] = wordsRead[k]
      /\ wordsRead'[n + 1] = w
  <2> HIDE DEF w
  <2> QED BY <1>1, <1>2, <1>3, AppendProperties
<1>5. WordsInv'
  <2>1. ASSUME NEW k \in 1 .. Len(wordsRead')
        PROVE  wordsRead'[k] = eeprom'[k - 1]
    <3>1. CASE k \in 1 .. n
      BY <3>1, <1>1, <1>4 DEF EepromInv, WordsInv
    <3>2. CASE k = n + 1
      BY <3>2, <1>1, <1>2, <1>4
    <3> QED BY <3>1, <3>2, <1>2, <1>4
  <2>2. eeprom' \in [0 .. 3 -> Word]
    BY <1>1 DEF EepromInv, WordsInv
  <2>3. CASE n < 2
    <3>1. pc' = "in" /\ Len(wordsRead') \in 0 .. 3
      BY <2>3, <1>1, <1>2, <1>4
    <3> QED BY <2>1, <2>2, <3>1, <1>4 DEF WordsInv, Commanding
  <2>4. CASE ~ (n < 2)
    <3>1. pc' = "cslow" /\ Len(wordsRead') \in {3, 4}
      <4> HIDE DEF n
      <4> QED BY <2>4, <1>1, <1>2, <1>4
    <3> QED BY <2>1, <2>2, <3>1, <1>4 DEF WordsInv, Commanding
  <2> QED BY <2>3, <2>4
<1>6. selected' = TRUE /\ command' \in Seq(Bits) /\ outBits' \in Seq(Bits)
      /\ Len(command') + Len(outBits') <= 3 + AddrBits
      /\ command' = Command(Address)
  BY <1>1 DEF EepromInv, CommandInv
<1>7. shifted' \in 0 .. 3 * DataBits
  BY <1>1 DEF EepromInv, BitsInv
<1>8. AddressInv'
  BY <1>1 DEF AddressInv
<1>9. CASE n < 2
  <2>1. Address = 0 /\ Address' = 0 /\ pc' = "in"
    BY <1>1, <1>2, <1>4, <1>9 DEF Address
  <2>2. Command(Address)' = Command(Address)
    BY <2>1 DEF Command, EEPROMPutAddr
  <2>3. CommandInv'
    BY <1>6, <2>1, <2>2 DEF CommandInv
  <2>4. shifted' = (Len(wordsRead') - Address') * DataBits + 0
    <3>1. shifted = (n - 0) * DataBits + DataBits
      BY <1>1, <2>1 DEF EepromInv, BitsInv
    <3>2. (n - 0) * DataBits + DataBits = (n + 1 - 0) * DataBits + 0
      BY <1>2, Sizes
    <3> QED BY <3>1, <3>2, <1>1, <1>4, <2>1
  <2>5. eeprom'[Len(wordsRead')] \div 2^(DataBits - 0) = 0
    <3>1. eeprom'[Len(wordsRead')] \in Word
      BY <1>1, <1>2, <1>4, <1>9 DEF EepromInv, WordsInv
    <3> QED BY <3>1, WholeWord
  <2>6. BitsInv'
    BY <1>1, <1>7, <2>1, <2>4, <2>5, Sizes DEF BitsInv
  <2> QED BY <1>5, <1>8, <2>3, <2>6 DEF EepromInv
<1>10. CASE ~ (n < 2)
  <2>1. pc' = "cslow"
    BY <1>1, <1>10
  <2>2. CommandInv'
    BY <1>6, <2>1 DEF CommandInv
  <2>3. BitsInv'
    BY <1>1, <1>7, <2>1, Sizes DEF BitsInv
  <2> QED BY <1>5, <1>8, <2>2, <2>3 DEF EepromInv
<1> QED BY <1>9, <1>10

\* EEPROMCSLow ends the read.
LEMMA ReadEnds ==
    ASSUME EepromInv, EEPROMCSLow, UNCHANGED driverVars
    PROVE  EepromInv'
<1>1. WordsInv'
  <2>1. /\ pc = "cslow" /\ wordsRead' = wordsRead /\ eeprom' = eeprom
        /\ pc' = IF Len(wordsRead) = 4 THEN "sum" ELSE "node"
    BY DEF EEPROMCSLow
  <2>2. Len(wordsRead) \in {3, 4}
    BY <2>1 DEF EepromInv, WordsInv
  <2>3. CASE Len(wordsRead) = 4
    <3>1. pc' = "sum" /\ Len(wordsRead') = 4
      BY <2>1, <2>3
    <3> QED BY <2>1, <3>1 DEF EepromInv, WordsInv, Commanding
  <2>4. CASE Len(wordsRead) = 3
    <3>1. pc' = "node" /\ Len(wordsRead') = 3
      BY <2>1, <2>4
    <3> QED BY <2>1, <3>1 DEF EepromInv, WordsInv, Commanding
  <2> QED BY <2>2, <2>3, <2>4
<1>2. CommandInv'
  <2>1. pc' \in {"sum", "node"} /\ selected' = FALSE
    BY DEF EEPROMCSLow
  <2>2. command' = command /\ outBits' = outBits
    BY DEF EEPROMCSLow
  <2>3. ~ (pc' \in {"out", "in", "cslow"})
    BY <2>1
  <2>4. ~ selected' /\ selected' \in BOOLEAN
    BY <2>1
  <2>5. /\ command' \in Seq(Bits) /\ outBits' \in Seq(Bits)
        /\ Len(command') + Len(outBits') <= 3 + AddrBits
    BY <2>2 DEF EepromInv, CommandInv
  <2> QED BY <2>3, <2>4, <2>5 DEF CommandInv
<1>3. BitsInv'
  BY DEF EepromInv, BitsInv, EEPROMCSLow
<1>4. AddressInv'
  BY DEF AddressInv, EEPROMCSLow
<1> QED BY <1>1, <1>2, <1>3, <1>4 DEF EepromInv

\* GetNodeAddr takes the address if the checksum is right.
LEMMA AddressTaken ==
    ASSUME EepromInv, GetNodeAddr
    PROVE  EepromInv'
<1>1. /\ pc = "sum" /\ UNCHANGED eepromVars /\ pc' \in {"reset", "failed"}
  BY DEF GetNodeAddr
<1>2. WordsInv' /\ CommandInv' /\ BitsInv'
  BY <1>1 DEF EepromInv, WordsInv, CommandInv, BitsInv, eepromVars,
              Commanding
<1>3. AddressInv'
  <2> DEFINE words == [k \in 1 .. 3 |-> eeprom[k - 1]]
  <2>1. /\ wordsRead \in Seq(Word) /\ Len(wordsRead) = 4
        /\ \A k \in 1 .. 4 : wordsRead[k] = eeprom[k - 1]
    BY <1>1 DEF EepromInv, WordsInv, Commanding
  <2>2. Sum16(wordsRead) = Sum16(words)
    BY <2>1 DEF Sum16
  <2>3. wordsRead[4] = eeprom[3]
    BY <2>1
  <2>4. SubSeq(wordsRead, 1, 3) = words
    <3>1. \A k \in 1 .. 3 : wordsRead[k] \in Word
      <4>1. \A k \in 1 .. Len(wordsRead) : wordsRead[k] \in Word
        BY <2>1, ElementOfSeq
      <4> QED BY <4>1, <2>1
    <3>2. /\ SubSeq(wordsRead, 1, 3) \in Seq(Word)
          /\ Len(SubSeq(wordsRead, 1, 3)) = 3
          /\ \A k \in 1 .. 3 : SubSeq(wordsRead, 1, 3)[k] = wordsRead[k]
      BY <3>1, SubSeqProperties
    <3>3. words \in Seq(Word) /\ Len(words) = 3
      BY <2>1, <3>1
    <3>4. \A k \in 1 .. 3 : SubSeq(wordsRead, 1, 3)[k] = words[k]
      BY <2>1, <3>2
    <3> HIDE DEF words
    <3> QED BY <3>2, <3>3, <3>4, SeqEqual
  <2>5. eeprom' = eeprom
    BY <1>1 DEF eepromVars
  <2> HIDE DEF words
  <2>6. AddressInv' <=>
          /\ pc' = "reset" => au8HWAddr' = words
          /\ pc' \in {"reset", "failed"} =>
               (pc' = "reset" <=> Sum16(words) = eeprom[3])
    BY <2>5 DEF AddressInv, words, Sum16
  <2>7. CASE Sum16(wordsRead) = wordsRead[4]
    BY <2>7, <2>2, <2>3, <2>4, <2>6 DEF GetNodeAddr
  <2>8. CASE Sum16(wordsRead) # wordsRead[4]
    BY <2>8, <2>2, <2>3, <2>6 DEF GetNodeAddr
  <2> QED BY <2>7, <2>8
<1> QED BY <1>2, <1>3 DEF EepromInv

\* Nothing else touches the EEPROM, or what was read.
LEMMA EepromIdle ==
    ASSUME EepromInv, UNCHANGED <<eepromVars, au8HWAddr>>,
           \/ pc' = pc
           \/ /\ pc \notin Commanding \cup {"dev9"}
              /\ pc' \notin Commanding \cup {"dev9", "reset", "failed"}
    PROVE  EepromInv'
<1>1. Address' = Address /\ Command(Address)' = Command(Address)
  <2>1. Address' = Address
    BY DEF eepromVars, Address
  <2> QED BY <2>1 DEF Command, EEPROMPutAddr
<1>2. WordsInv'
  BY DEF EepromInv, WordsInv, eepromVars, Commanding
<1>3. CommandInv'
  <2>1. /\ (pc' \in {"out", "in", "cslow"}) = (pc \in {"out", "in", "cslow"})
        /\ selected' = selected /\ command' = command /\ outBits' = outBits
        /\ shifted' = shifted
        /\ pc' = "out" => pc = "out"
        /\ pc' = "in" => pc = "in"
    BY DEF eepromVars, Commanding
  <2> QED BY <1>1, <2>1 DEF EepromInv, CommandInv
<1>4. BitsInv'
  <2>1. /\ pc' = "in" <=> pc = "in"
        /\ wordsRead' = wordsRead /\ shifted' = shifted /\ bitsIn' = bitsIn
        /\ u16Data' = u16Data /\ eeprom' = eeprom
    BY DEF eepromVars, Commanding
  <2> QED BY <1>1, <2>1 DEF EepromInv, BitsInv
<1>5. AddressInv'
  BY DEF EepromInv, AddressInv, eepromVars
<1> QED BY <1>2, <1>3, <1>4, <1>5 DEF EepromInv

\* DetectAndInitDev9 goes on to GetNodeAddr.
LEMMA Dev9Found ==
    ASSUME EepromInv, DetectAndInitDev9
    PROVE  EepromInv'
<1>1. /\ pc = "dev9" /\ pc' = "node" /\ UNCHANGED eepromVars
      /\ Address' = Address
  BY DEF DetectAndInitDev9, eepromVars, Address
<1>2. WordsInv'
  BY <1>1 DEF EepromInv, WordsInv, eepromVars, Commanding
<1>3. CommandInv'
  <2>1. /\ ~ (pc \in {"out", "in", "cslow"})
        /\ ~ (pc' \in {"out", "in", "cslow"})
        /\ selected' = selected /\ command' = command /\ outBits' = outBits
    BY <1>1 DEF eepromVars
  <2> QED BY <1>1, <2>1 DEF EepromInv, CommandInv
<1>4. BitsInv'
  BY <1>1 DEF EepromInv, BitsInv, eepromVars
<1>5. AddressInv'
  BY <1>1 DEF AddressInv
<1> QED BY <1>2, <1>3, <1>4, <1>5 DEF EepromInv

\* SMap_Init's later steps are not about the EEPROM.
LEMMA StartupApart ==
    ASSUME Startup
    PROVE  /\ UNCHANGED <<eepromVars, au8HWAddr>>
           /\ pc \notin Commanding \cup {"dev9"}
           /\ \/ pc' = pc
              \/ pc' \notin Commanding \cup {"dev9", "reset", "failed"}
<1> USE DEF driverVars, Commanding
<1>1. CASE Reset
  BY <1>1 DEF Startup, Reset
<1>2. CASE PhyReset
  BY <1>2 DEF Startup, PhyReset
<1>3. CASE AnegComplete
  BY <1>3 DEF Startup, AnegComplete
<1>4. CASE AnegTimeout
  BY <1>4 DEF Startup, AnegTimeout
<1>5. CASE AnegConfirmed
  BY <1>5 DEF Startup, AnegConfirmed
<1>6. CASE Establish
  BY <1>6 DEF Startup, Establish
<1>7. CASE ConfirmForceSPD
  BY <1>7 DEF Startup, ConfirmForceSPD, ValidLink, ForceSPD10M
<1>8. CASE LastLook
  BY <1>8 DEF Startup, LastLook, ValidLink
<1>9. CASE EMAC3SetDefValue
  BY <1>9 DEF Startup, EMAC3SetDefValue
<1>10. CASE EMAC3ReInit
  BY <1>10 DEF Startup, EMAC3ReInit
<1>11. CASE InstallIRQHandler
  BY <1>11 DEF Startup, InstallIRQHandler
<1>12. CASE SMap_Start
  BY <1>12 DEF Startup, SMap_Start
<1> QED BY <1>1, <1>2, <1>3, <1>4, <1>5, <1>6, <1>7, <1>8, <1>9, <1>10,
           <1>11, <1>12 DEF Startup

\* Nor is the world.
LEMMA WorldApart ==
    ASSUME PhyNegotiates \/ CableFlap \/ MacNoise \/ UNCHANGED vars
    PROVE  UNCHANGED <<eepromVars, au8HWAddr, pc>>
  BY DEF PhyNegotiates, CableFlap, MacNoise, vars, driverVars

\* The words are the EEPROM's, whichever step is taken.
LEMMA EepromStepKeeps == EepromInv /\ [Next]_vars => EepromInv'
<1> SUFFICES ASSUME EepromInv, [Next]_vars PROVE EepromInv'
  OBVIOUS
<1>1. CASE DetectAndInitDev9
  BY <1>1, Dev9Found
<1>2. CASE EepromStep
  <2>1. UNCHANGED driverVars
    BY <1>2 DEF EepromStep
  <2> QED BY <1>2, <2>1, ReadBegins, BitOut, BitIn, WordIn, ReadEnds
            DEF EepromStep
<1>3. CASE GetNodeAddr
  BY <1>3, AddressTaken
<1>4. CASE Startup
  <2>1. /\ UNCHANGED <<eepromVars, au8HWAddr>>
        /\ pc \notin Commanding \cup {"dev9"}
        /\ \/ pc' = pc
           \/ pc' \notin Commanding \cup {"dev9", "reset", "failed"}
    BY <1>4, StartupApart
  <2> QED BY <2>1, EepromIdle
<1>5. CASE PhyNegotiates \/ CableFlap \/ MacNoise \/ UNCHANGED vars
  <2>1. UNCHANGED <<eepromVars, au8HWAddr, pc>>
    BY <1>5, WorldApart
  <2>2. UNCHANGED <<eepromVars, au8HWAddr>> /\ pc' = pc
    BY <2>1
  <2> QED BY <2>2, EepromIdle
<1> QED BY <1>1, <1>2, <1>3, <1>4, <1>5 DEF Next, Driver

\* And at first.
LEMMA EepromInit == Init => EepromInv
<1> SUFFICES ASSUME Init PROVE EepromInv
  OBVIOUS
<1>1. /\ pc = "dev9" /\ eeprom \in Contents /\ wordsRead = <<>>
      /\ selected = FALSE /\ command = <<>> /\ outBits = <<>>
      /\ shifted = 0 /\ u16Data = 0 /\ bitsIn = 0
  BY DEF Init
<1>2. eeprom \in [0 .. 3 -> Word]
  BY <1>1, InitAssumption DEF Word
<1>3. \A S : <<>> \in Seq(S) /\ Len(<<>>) = 0
  OBVIOUS
<1>4. WordsInv
  <2>1. Len(wordsRead) = 0 /\ wordsRead \in Seq(Word)
    BY <1>1, <1>3
  <2> QED BY <1>1, <1>2, <2>1 DEF WordsInv, Commanding
<1>5. CommandInv
  <2>1. /\ command \in Seq(Bits) /\ outBits \in Seq(Bits)
        /\ Len(command) = 0 /\ Len(outBits) = 0
    BY <1>1, <1>3
  <2>2. ~ (pc \in {"out", "in", "cslow"}) /\ ~ selected
    BY <1>1
  <2>3. selected \in BOOLEAN
    BY <1>1
  <2>4. 0 + 0 <= 3 + AddrBits
    BY Sizes
  <2> QED BY <2>1, <2>2, <2>3, <2>4 DEF CommandInv
<1>6. BitsInv
  BY <1>1, Sizes DEF BitsInv
<1>7. AddressInv
  BY <1>1 DEF AddressInv
<1> QED BY <1>4, <1>5, <1>6, <1>7 DEF EepromInv

\* What the EEPROM holds, how far it is read, and what the driver has of it
\* agree at every step of the bit protocol.
THEOREM EepromInvariant == Spec => []EepromInv
  BY EepromInit, EepromStepKeeps, PTL DEF Spec

\* The driver's address is the EEPROM's, bit for bit, in whatever number of
\* bits, and it goes on only with the right checksum (GetNodeAddr).
THEOREM AddressRead == Spec => []NodeAddressRead
<1>1. EepromInv => NodeAddressRead
  BY DEF EepromInv, CommandInv, AddressInv, NodeAddressRead
<1> QED BY <1>1, EepromInvariant, PTL

----------------------------------------------------------------------------
(* The driver comes up in the PHY's mode, on clear rings.                  *)

\* A PHY that answers says what it is.
LEMMA PhySays ==
    ASSUME ~ phyDead
    PROVE  /\ "ANCP" \in BMSR <=> negotiated
           /\ "LINK" \in BMSR <=> PhyLinked
           /\ "ANCP" \in PHYSTS <=> negotiated
           /\ "LINK" \in PHYSTS <=> PhyLinked
           /\ "10M" \in PHYSTS <=> PhyMedia = 10
           /\ "FDX" \in PHYSTS <=> PhyFdx
<1> DEFINE says == (IF negotiated THEN {"ANCP"} ELSE {})
                     \cup (IF PhyLinked THEN {"LINK"} ELSE {})
                     \cup (IF PhyMedia = 10 THEN {"10M"} ELSE {})
                     \cup (IF PhyFdx THEN {"FDX"} ELSE {})
<1>1. BMSR = {"ANCP", "LINK"} \cap says
  BY DEF BMSR, ReadPhy
<1>2. PHYSTS = {"ANCP", "LINK", "10M", "FDX"} \cap says
  BY DEF PHYSTS, ReadPhy
<1>3. /\ "ANCP" \in says <=> negotiated
      /\ "LINK" \in says <=> PhyLinked
      /\ "10M" \in says <=> PhyMedia = 10
      /\ "FDX" \in says <=> PhyFdx
  OBVIOUS
<1> HIDE DEF says
<1> QED BY <1>1, <1>2, <1>3

\* The mode negotiated, read while there is a link, is the PHY's.
LEMMA AnegModeIs ==
    ASSUME ~ phyDead, bmcr = "aneg", mode1 = DefaultMode,
           partner \in [aneg : BOOLEAN, media : {10, 100}, fdx : BOOLEAN]
    PROVE  AnegMode = PhyMode
<1>1. PhyMedia \in {10, 100} /\ PhyFdx \in BOOLEAN
  BY DEF PhyMedia, PhyFdx
<1>2. (IF "10M" \in PHYSTS THEN 10 ELSE 100) = PhyMedia
  BY <1>1, PhySays
<1>3. ("FDX" \in PHYSTS) = PhyFdx
  BY <1>1, PhySays
<1>4. DefaultMode.ignoreSqe = TRUE
  BY DEF DefaultMode
<1>5. (PhyFdx \/ PhyMedia = 100) = (TRUE /\ (PhyFdx \/ PhyMedia = 100))
  OBVIOUS
<1> QED BY <1>2, <1>3, <1>4, <1>5, Zenon DEF AnegMode, PhyMode

\* So is the one that is forced.
LEMMA ForcedModeIs ==
    ASSUME mode1 = DefaultMode,
           bmcr = IF "CHECK_FORCE100M" \in u32Flags THEN "100M" ELSE "10M"
    PROVE  ForcedMode = PhyMode
<1>1. CASE "CHECK_FORCE100M" \in u32Flags
  <2>1. bmcr = "100M" /\ PhyMedia = 100 /\ PhyFdx = FALSE
    BY <1>1 DEF PhyMedia, PhyFdx
  <2>2. ForcedMode = [media |-> 100, fdx |-> FALSE, flow |-> FALSE,
                      ignoreSqe |-> TRUE]
    BY <1>1 DEF ForcedMode, DefaultMode
  <2>3. PhyMode = [media |-> 100, fdx |-> FALSE, flow |-> FALSE,
                   ignoreSqe |-> TRUE]
    BY <2>1 DEF PhyMode
  <2> QED BY <2>2, <2>3
<1>2. CASE "CHECK_FORCE100M" \notin u32Flags
  <2>1. bmcr = "10M" /\ PhyMedia = 10 /\ PhyFdx = FALSE
    BY <1>2 DEF PhyMedia, PhyFdx
  <2>2. PhyMode = [media |-> 10, fdx |-> FALSE, flow |-> FALSE,
                   ignoreSqe |-> FALSE]
    <3>1. (PhyFdx \/ PhyMedia = 100) = FALSE
      BY <2>1
    <3> QED BY <2>1, <3>1, Zenon DEF PhyMode
  <2>3. ForcedMode = [media |-> 10, fdx |-> FALSE, flow |-> FALSE,
                      ignoreSqe |-> FALSE]
    BY <1>2, Zenon DEF ForcedMode
  <2> QED BY <2>2, <2>3
<1> QED BY <1>1, <1>2

\* The PHY keeps its mode until it is told another.
LEMMA PhyModeKept ==
    ASSUME bmcr' = bmcr, partner' = partner
    PROVE  PhyMode' = PhyMode
  BY DEF PhyMode, PhyMedia, PhyFdx

\* RegInit and EMAC3Init turn the MAC off and write the default mode.
LEMMA ResetKeeps ==
    ASSUME BringUpInv, Reset, UNCHANGED <<eepromVars, worldVars>>
    PROVE  BringUpInv'
<1> USE DEF Asking, Forcing, ModeFound, Undisturbed, worldVars
<1>1. PlaceTypes'
  BY DEF BringUpInv, PlaceTypes, Reset, phyVars, driverVars
<1>2. PhyInv'
  BY DEF BringUpInv, PhyInv, Reset, phyVars, driverVars, emacVars
<1>3. ModeInv'
  BY DEF BringUpInv, PlaceTypes, PhyInv, ModeInv, Reset, phyVars, driverVars,
     emacVars
<1>4. StartInv'
  BY DEF BringUpInv, StartInv, Reset, EMAC3SoftReset
<1> QED BY <1>1, <1>2, <1>3, <1>4 DEF BringUpInv

\* PhyReset starts the negotiation, of a PHY that answers.
LEMMA PhyResetKeeps ==
    ASSUME BringUpInv, PhyReset, UNCHANGED <<eepromVars, worldVars>>
    PROVE  BringUpInv'
<1> USE DEF Asking, Forcing, ModeFound, Undisturbed, worldVars
<1>1. PlaceTypes'
  BY DEF BringUpInv, PlaceTypes, PhyReset, phyVars, driverVars, WritePhy
<1>2. PhyInv'
  BY DEF BringUpInv, PhyInv, PhyReset, phyVars, driverVars, emacVars, WritePhy
<1>3. ModeInv'
  BY DEF BringUpInv, PlaceTypes, PhyInv, ModeInv, PhyReset, phyVars,
     driverVars, emacVars, WritePhy
<1>4. StartInv'
  BY DEF BringUpInv, StartInv, PhyReset, driverVars, emacVars, irqVars,
     WritePhy
<1> QED BY <1>1, <1>2, <1>3, <1>4 DEF BringUpInv

\* ConfirmAutoNegotiation goes on when the negotiation is complete.
LEMMA AnegCompleteKeeps ==
    ASSUME BringUpInv, AnegComplete, UNCHANGED <<eepromVars, worldVars>>
    PROVE  BringUpInv'
<1> USE DEF Asking, Forcing, ModeFound, Undisturbed, worldVars
<1>1. PlaceTypes'
  BY DEF BringUpInv, PlaceTypes, AnegComplete, phyVars, driverVars
<1>2. PhyInv'
  BY PhySays DEF BringUpInv, PhyInv, AnegComplete, phyVars, driverVars,
     emacVars
<1>3. ModeInv'
  BY PhySays DEF BringUpInv, PlaceTypes, PhyInv, ModeInv, AnegComplete,
     phyVars, driverVars, emacVars
<1>4. StartInv'
  BY DEF BringUpInv, StartInv, AnegComplete, driverVars, emacVars, irqVars
<1> QED BY <1>1, <1>2, <1>3, <1>4 DEF BringUpInv

\* When it is not in time, it is tried again, or 100 Mbit/s forced.
LEMMA AnegTimeoutKeeps ==
    ASSUME BringUpInv, AnegTimeout, UNCHANGED <<eepromVars, worldVars>>
    PROVE  BringUpInv'
<1> USE DEF Asking, Forcing, ModeFound, Undisturbed, worldVars
<1>1. PlaceTypes'
  <2>1. PlaceTypes /\ UNCHANGED worldVars
    BY DEF BringUpInv
  <2>2. CASE retriesLeft > 0
    <3>1. /\ pc' = pc /\ u32Flags' = u32Flags /\ bmcr' = "aneg"
          /\ negotiated' = FALSE /\ retriesLeft' = retriesLeft - 1
      BY <2>2 DEF AnegTimeout, WritePhy
    <3>2. retriesLeft' \in 0 .. SMAP_AUTONEGO_RETRY
      BY <2>1, <2>2, <3>1, InitAssumption DEF PlaceTypes
    <3> QED BY <2>1, <3>1, <3>2 DEF PlaceTypes
  <2>3. CASE ~ (retriesLeft > 0)
    <3>1. /\ pc' = "forced" /\ bmcr' = "100M" /\ negotiated' = FALSE
          /\ u32Flags' = u32Flags \cup {"CHECK_FORCE100M"}
          /\ retriesLeft' = retriesLeft
      BY <2>3 DEF AnegTimeout, WritePhy
    <3> QED BY <2>1, <3>1 DEF PlaceTypes, CHECKS
  <2> QED BY <2>2, <2>3
<1>2. PhyInv'
  BY DEF BringUpInv, PhyInv, AnegTimeout, phyVars, driverVars, emacVars,
     WritePhy, CHECKS
<1>3. ModeInv'
  BY DEF BringUpInv, PlaceTypes, PhyInv, ModeInv, AnegTimeout, phyVars,
     driverVars, emacVars, WritePhy, CHECKS
<1>4. StartInv'
  BY DEF BringUpInv, StartInv, AnegTimeout, driverVars, emacVars, irqVars,
     WritePhy, CHECKS
<1> QED BY <1>1, <1>2, <1>3, <1>4 DEF BringUpInv

\* The mode read after the negotiation is the PHY's.
LEMMA AnegConfirmedKeeps ==
    ASSUME BringUpInv, AnegConfirmed, UNCHANGED <<eepromVars, worldVars>>
    PROVE  BringUpInv'
<1> USE DEF Asking, Forcing, ModeFound, Undisturbed, worldVars
<1>1. PlaceTypes'
  BY DEF BringUpInv, PlaceTypes, AnegConfirmed, phyVars, driverVars, PhyLinked
<1>2. PhyInv'
  BY PhySays DEF BringUpInv, PhyInv, AnegConfirmed, phyVars, driverVars,
     emacVars, PhyLinked
<1>3. ModeInv'
  BY PhySays, AnegModeIs, PhyModeKept DEF BringUpInv, PlaceTypes, PhyInv,
     ModeInv, AnegConfirmed, phyVars, driverVars, emacVars, PhyLinked
<1>4. StartInv'
  BY DEF BringUpInv, StartInv, AnegConfirmed, driverVars, emacVars, irqVars,
     PhyLinked
<1> QED BY <1>1, <1>2, <1>3, <1>4 DEF BringUpInv

\* PhyInit keeps the mode that was negotiated.
LEMMA EstablishKeeps ==
    ASSUME BringUpInv, Establish, UNCHANGED <<eepromVars, worldVars>>
    PROVE  BringUpInv'
<1> USE DEF Asking, Forcing, ModeFound, Undisturbed, worldVars
<1>1. PlaceTypes'
  BY DEF BringUpInv, PlaceTypes, Establish, phyVars, driverVars, CHECKS
<1>2. PhyInv'
  BY DEF BringUpInv, PhyInv, Establish, phyVars, driverVars, emacVars, CHECKS
<1>3. ModeInv'
  BY PhyModeKept DEF BringUpInv, PlaceTypes, PhyInv, ModeInv, Establish,
     phyVars, driverVars, emacVars, CHECKS
<1>4. StartInv'
  BY DEF BringUpInv, StartInv, Establish, driverVars, emacVars, irqVars,
     CHECKS
<1> QED BY <1>1, <1>2, <1>3, <1>4 DEF BringUpInv

\* ConfirmForceSPD keeps a forced mode that has a link, or forces the next.
LEMMA ConfirmForceSPDKeeps ==
    ASSUME BringUpInv, ConfirmForceSPD, UNCHANGED <<eepromVars, worldVars>>
    PROVE  BringUpInv'
<1> USE DEF Asking, Forcing, ModeFound, Undisturbed, worldVars
<1>1. PlaceTypes'
  BY DEF BringUpInv, PlaceTypes, ConfirmForceSPD, phyVars, driverVars,
     WritePhy, ForceSPD10M, CHECKS, ValidLink
<1>2. PhyInv'
  BY DEF BringUpInv, PhyInv, ConfirmForceSPD, phyVars, driverVars, emacVars,
     WritePhy, ForceSPD10M, CHECKS, ValidLink
<1>3. ModeInv'
  BY ForcedModeIs, PhyModeKept DEF BringUpInv, PlaceTypes, PhyInv, ModeInv,
     ConfirmForceSPD, phyVars, driverVars, emacVars, WritePhy, ForceSPD10M,
     CHECKS, ValidLink
<1>4. StartInv'
  BY DEF BringUpInv, StartInv, ConfirmForceSPD, driverVars, emacVars, irqVars,
     WritePhy, ForceSPD10M, CHECKS, ValidLink
<1> QED BY <1>1, <1>2, <1>3, <1>4 DEF BringUpInv

\* The last look keeps the forced mode, or none.
LEMMA LastLookKeeps ==
    ASSUME BringUpInv, LastLook, UNCHANGED <<eepromVars, worldVars>>
    PROVE  BringUpInv'
<1> USE DEF Asking, Forcing, ModeFound, Undisturbed, worldVars
<1>1. PlaceTypes'
  BY DEF BringUpInv, PlaceTypes, LastLook, phyVars, driverVars, CHECKS,
     ValidLink
<1>2. PhyInv'
  BY DEF BringUpInv, PhyInv, LastLook, phyVars, driverVars, emacVars, CHECKS,
     ValidLink
<1>3. ModeInv'
  BY ForcedModeIs, PhyModeKept DEF BringUpInv, PlaceTypes, PhyInv, ModeInv,
     LastLook, phyVars, driverVars, emacVars, CHECKS, ValidLink
<1>4. StartInv'
  BY DEF BringUpInv, StartInv, LastLook, driverVars, emacVars, irqVars,
     CHECKS, ValidLink
<1> QED BY <1>1, <1>2, <1>3, <1>4 DEF BringUpInv

\* EMAC3SetDefValue is not about the mode.
LEMMA EMAC3SetDefValueKeeps ==
    ASSUME BringUpInv, EMAC3SetDefValue, UNCHANGED <<eepromVars, worldVars>>
    PROVE  BringUpInv'
<1> USE DEF Asking, Forcing, ModeFound, Undisturbed, worldVars
<1>1. PlaceTypes'
  BY DEF BringUpInv, PlaceTypes, EMAC3SetDefValue, phyVars, driverVars
<1>2. PhyInv'
  BY DEF BringUpInv, PhyInv, EMAC3SetDefValue, phyVars, driverVars, emacVars
<1>3. ModeInv'
  BY PhyModeKept DEF BringUpInv, PlaceTypes, PhyInv, ModeInv,
     EMAC3SetDefValue, phyVars, driverVars, emacVars
<1>4. StartInv'
  BY DEF BringUpInv, StartInv, EMAC3SetDefValue, driverVars, emacVars, irqVars
<1> QED BY <1>1, <1>2, <1>3, <1>4 DEF BringUpInv

\* EMAC3ReInit sets the EMAC up again in the mode that was found.
LEMMA EMAC3ReInitKeeps ==
    ASSUME BringUpInv, EMAC3ReInit, UNCHANGED <<eepromVars, worldVars>>
    PROVE  BringUpInv'
<1> USE DEF Asking, Forcing, ModeFound, Undisturbed, worldVars
<1>1. PlaceTypes'
  BY DEF BringUpInv, PlaceTypes, EMAC3ReInit, phyVars, driverVars
<1>2. PhyInv'
  BY DEF BringUpInv, PhyInv, EMAC3ReInit, phyVars, driverVars, emacVars
<1>3. ModeInv'
  BY PhyModeKept DEF BringUpInv, PlaceTypes, PhyInv, ModeInv, EMAC3ReInit,
     phyVars, driverVars, emacVars
<1>4. StartInv'
  BY DEF BringUpInv, StartInv, EMAC3ReInit, driverVars, emacVars, irqVars
<1> QED BY <1>1, <1>2, <1>3, <1>4 DEF BringUpInv

\* InstallIRQHandler leaves the MAC off.
LEMMA InstallIRQHandlerKeeps ==
    ASSUME BringUpInv, InstallIRQHandler, UNCHANGED <<eepromVars, worldVars>>
    PROVE  BringUpInv'
<1> USE DEF Asking, Forcing, ModeFound, Undisturbed, worldVars
<1>1. PlaceTypes'
  BY DEF BringUpInv, PlaceTypes, InstallIRQHandler, phyVars, driverVars
<1>2. PhyInv'
  BY DEF BringUpInv, PhyInv, InstallIRQHandler, phyVars, driverVars, emacVars
<1>3. ModeInv'
  BY PhyModeKept DEF BringUpInv, PlaceTypes, PhyInv, ModeInv,
     InstallIRQHandler, phyVars, driverVars, emacVars
<1>4. StartInv'
  BY DEF BringUpInv, StartInv, InstallIRQHandler, driverVars, emacVars,
     irqVars
<1> QED BY <1>1, <1>2, <1>3, <1>4 DEF BringUpInv

\* SMap_Start turns the MAC on, on clear rings.
LEMMA StartKeeps ==
    ASSUME BringUpInv, SMap_Start, UNCHANGED <<eepromVars, worldVars>>
    PROVE  BringUpInv'
<1> USE DEF Asking, Forcing, ModeFound, Undisturbed, worldVars
<1>1. PlaceTypes'
  BY DEF BringUpInv, PlaceTypes, SMap_Start, phyVars, driverVars, CHECKS
<1>2. PhyInv'
  BY DEF BringUpInv, PhyInv, SMap_Start, phyVars, driverVars, emacVars, CHECKS
<1>3. ModeInv'
  BY PhyModeKept DEF BringUpInv, PlaceTypes, PhyInv, ModeInv, SMap_Start,
     phyVars, driverVars, emacVars, CHECKS
<1>4. StartInv'
  BY DEF BringUpInv, StartInv, SMap_Start, driverVars, emacVars, irqVars,
     CHECKS
<1> QED BY <1>1, <1>2, <1>3, <1>4 DEF BringUpInv

\* GetNodeAddr and what is before it leave the PHY and the MAC alone.
LEMMA EepromApart ==
    ASSUME BringUpInv, DetectAndInitDev9 \/ EepromStep \/ GetNodeAddr
    PROVE  BringUpInv'
<1> USE DEF Asking, Forcing, ModeFound, Undisturbed
<1> DEFINE Before == {"dev9", "node", "out", "in", "cslow", "sum"}
           After == Before \cup {"reset", "failed"}
<1>1. /\ pc \in Before /\ pc' \in After \ {"dev9"}
      /\ UNCHANGED <<u32Flags, u32TXMode, retriesLeft, emacVars, phyVars,
                     worldVars>>
      /\ intrEnabled' => intrEnabled /\ pc # "dev9"
  <2>1. CASE DetectAndInitDev9
    BY <2>1 DEF DetectAndInitDev9, driverVars
  <2>2. CASE GetNodeAddr
    BY <2>2 DEF GetNodeAddr, irqVars
  <2>3. CASE EepromStep
    <3>1. UNCHANGED <<driverVars, emacVars, irqVars, phyVars, worldVars>>
      BY <2>3 DEF EepromStep
    <3>2. pc \in Before /\ pc # "dev9" /\ pc' \in After \ {"dev9"}
      BY <2>3 DEF EepromStep, ReadFromEEPROM, EEPROMClockDataOut,
                  EEPROMClockDataIn, GetDataFromEEPROM, EEPROMCSLow
    <3> QED BY <3>1, <3>2 DEF driverVars, irqVars
  <2> QED BY <2>1, <2>2, <2>3
<1>2. PlaceTypes'
  BY <1>1 DEF BringUpInv, PlaceTypes, phyVars, worldVars
<1>3. PhyInv'
  BY <1>1 DEF BringUpInv, PhyInv, phyVars, worldVars, emacVars
<1>4. ModeInv'
  BY <1>1 DEF ModeInv
<1>5. StartInv'
  BY <1>1 DEF BringUpInv, StartInv
<1> QED BY <1>2, <1>3, <1>4, <1>5 DEF BringUpInv

\* A negotiation completes on a link only, and changes no mode.
LEMMA NegotiationKeeps ==
    ASSUME BringUpInv, PhyNegotiates
    PROVE  BringUpInv'
<1> USE DEF Asking, Forcing, ModeFound, Undisturbed, worldVars, driverVars,
            emacVars, irqVars
<1>1. PlaceTypes'
  BY DEF BringUpInv, PlaceTypes, PhyNegotiates
<1>2. PhyInv'
  BY DEF BringUpInv, PhyInv, PhyNegotiates
<1>3. ModeInv'
  BY PhyModeKept DEF BringUpInv, ModeInv, PhyNegotiates
<1>4. StartInv'
  BY DEF BringUpInv, StartInv, PhyNegotiates
<1> QED BY <1>1, <1>2, <1>3, <1>4 DEF BringUpInv

\* A cable that has moved leaves nothing undisturbed.
LEMMA FlapKeeps ==
    ASSUME BringUpInv, CableFlap
    PROVE  BringUpInv'
<1> USE DEF Asking, Forcing, ModeFound, Undisturbed, driverVars, emacVars,
            irqVars
<1>1. flapsLeft' \in 0 .. MaxFlaps /\ flapsLeft' # MaxFlaps
  BY InitAssumption DEF BringUpInv, PlaceTypes, CableFlap
<1>2. PlaceTypes'
  BY <1>1 DEF BringUpInv, PlaceTypes, CableFlap
<1>3. PhyInv'
  BY <1>1 DEF BringUpInv, PhyInv, CableFlap
<1>4. ModeInv'
  BY <1>1 DEF BringUpInv, ModeInv, CableFlap
<1>5. StartInv'
  BY DEF BringUpInv, StartInv, CableFlap
<1> QED BY <1>2, <1>3, <1>4, <1>5 DEF BringUpInv

\* A MAC left running is not running any more where the rings are clear.
LEMMA NoiseKeeps ==
    ASSUME BringUpInv, MacNoise
    PROVE  BringUpInv'
<1> USE DEF Asking, Forcing, ModeFound, Undisturbed, worldVars, driverVars,
            emacVars, phyVars
<1>1. PlaceTypes'
  BY DEF BringUpInv, PlaceTypes, MacNoise
<1>2. PhyInv'
  BY DEF BringUpInv, PhyInv, MacNoise
<1>3. ModeInv'
  BY PhyModeKept DEF BringUpInv, ModeInv, MacNoise
<1>4. StartInv'
  BY DEF BringUpInv, StartInv, MacNoise
<1> QED BY <1>1, <1>2, <1>3, <1>4 DEF BringUpInv

\* The way up is sound at every step.
LEMMA BringUpStep == BringUpInv /\ [Next]_vars => BringUpInv'
<1> SUFFICES ASSUME BringUpInv, [Next]_vars PROVE BringUpInv'
  OBVIOUS
<1>1. CASE DetectAndInitDev9 \/ EepromStep \/ GetNodeAddr
  BY <1>1, EepromApart
<1>2. CASE Startup
  <2>1. UNCHANGED <<eepromVars, worldVars>>
    BY <1>2 DEF Startup
  <2> QED BY <1>2, <2>1, ResetKeeps, PhyResetKeeps, AnegCompleteKeeps,
             AnegTimeoutKeeps, AnegConfirmedKeeps, EstablishKeeps,
             ConfirmForceSPDKeeps, LastLookKeeps, EMAC3SetDefValueKeeps,
             EMAC3ReInitKeeps, InstallIRQHandlerKeeps, StartKeeps
          DEF Startup
<1>3. CASE PhyNegotiates \/ CableFlap \/ MacNoise
  BY <1>3, NegotiationKeeps, FlapKeeps, NoiseKeeps
<1>4. CASE UNCHANGED vars
  <2> USE <1>4 DEF vars, driverVars, emacVars, irqVars, phyVars, worldVars
  <2>1. PlaceTypes'
    BY DEF BringUpInv, PlaceTypes
  <2>2. PhyInv'
    BY DEF BringUpInv, PhyInv, Undisturbed
  <2>3. ModeInv'
    BY PhyModeKept DEF BringUpInv, ModeInv, Undisturbed
  <2>4. StartInv'
    BY DEF BringUpInv, StartInv
  <2> QED BY <2>1, <2>2, <2>3, <2>4 DEF BringUpInv
<1> QED BY <1>1, <1>2, <1>3, <1>4 DEF Next, Driver

\* The way up begins in any state of the adapter.
LEMMA BringUpInit == Init => BringUpInv
<1> SUFFICES ASSUME Init PROVE BringUpInv
  OBVIOUS
<1> USE DEF Init, Asking, Forcing, ModeFound, Undisturbed
<1>1. PlaceTypes
  <2>1. /\ retriesLeft \in 0 .. SMAP_AUTONEGO_RETRY
        /\ flapsLeft \in 0 .. MaxFlaps
    BY InitAssumption
  <2> QED BY <2>1 DEF PlaceTypes
<1>2. PhyInv
  BY DEF PhyInv
<1>3. ModeInv
  BY DEF ModeInv
<1>4. StartInv
  BY DEF StartInv
<1> QED BY <1>1, <1>2, <1>3, <1>4 DEF BringUpInv

\* What is known on the way up holds at every step: from which negotiation
\* or forced speed the mode comes, and that the MAC is off until its start.
THEOREM BringUpInvariant == Spec => []BringUpInv
  BY BringUpInit, BringUpStep, PTL DEF Spec

\* Whatever an earlier driver left behind, the driver comes up with the PHY's
\* mode, its own address, clear rings and its handlers in place (SMap_Init,
\* SMap_Start).
THEOREM StartCorrect == Spec => []StartsSound
<1>1. BringUpInv => StartsSound
  <2> SUFFICES ASSUME BringUpInv PROVE StartsSound
    OBVIOUS
  <2>1. ModeAgrees
    BY DEF BringUpInv, ModeInv, ModeAgrees, ModeFound, Undisturbed, PhyMode
  <2>2. StartsClean
    BY DEF BringUpInv, StartInv, StartsClean
  <2> QED BY <2>1, <2>2 DEF StartsSound
<1> QED BY <1>1, BringUpInvariant, PTL

\* Every variable keeps its range: no more bits are sent than a command has,
\* and no more words read than are asked for.
THEOREM TypeCorrect == Spec => []TypeOK
<1>1. EepromInv /\ BringUpInv => TypeOK
  <2> SUFFICES ASSUME EepromInv, BringUpInv PROVE TypeOK
    OBVIOUS
  <2>1. /\ selected \in BOOLEAN
        /\ Len(command) <= 3 + AddrBits /\ Len(outBits) <= 3 + AddrBits
    <3>1. /\ command \in Seq(Bits) /\ outBits \in Seq(Bits)
          /\ Len(command) + Len(outBits) <= 3 + AddrBits
          /\ selected \in BOOLEAN
      BY DEF EepromInv, CommandInv
    <3>2. Len(command) \in Nat /\ Len(outBits) \in Nat
      BY <3>1
    <3> QED BY <3>1, <3>2, Sizes
  <2>2. /\ shifted \in 0 .. 3 * DataBits /\ bitsIn \in 0 .. DataBits
        /\ u16Data \in Word
    BY DEF EepromInv, BitsInv
  <2>3. Len(wordsRead) <= 4
    BY DEF EepromInv, WordsInv
  <2> QED BY <2>1, <2>2, <2>3 DEF BringUpInv, PlaceTypes, TypeOK
<1> QED BY <1>1, EepromInvariant, BringUpInvariant, PTL
=============================================================================
