----------------------------- MODULE Jni_proofs -----------------------------
(***************************************************************************)
(* The CRC-8 for frames of any length and any number of threads that share *)
(* its table, their entries in envInfos, and neoRADIO2SerialToString.      *)
(***************************************************************************)
EXTENDS Jni, SerialString, WellFoundedInduction, TLAPS

-----------------------------------------------------------------------------
(***************************************************************************)
(* Induction over sets of numbers, and functions defined by recursion      *)
(***************************************************************************)

LEMMA Induction ==
  ASSUME NEW S, S \subseteq Nat, 0 \in S, \A n \in S : n + 1 \in S
  PROVE  S = Nat
<1> SUFFICES ASSUME Nat \ S # {} PROVE FALSE
  OBVIOUS
<1>1. PICK m \in Nat \ S : \A k \in Nat \ S : ~(<<k, m>> \in OpToRel(<, Nat))
  BY NatLessThanWellFounded, WFMin, Zenon
<1>2. \A k \in Nat \ S : ~(k < m)
  BY <1>1 DEF OpToRel
<1>3. m # 0
  OBVIOUS
<1>4. m - 1 \in Nat /\ m - 1 < m
  BY <1>3
<1>5. m - 1 \in S
  BY <1>2, <1>4
<1> QED  BY <1>5

\* f[k] is what a loop that begins with a has after k turns, when turn k makes
\* g[k, x] of x.
Results(f, a, n, g) == f[0] = a /\ \A k \in 1 .. n : f[k] = g[<<k, f[k - 1]>>]

\* The first n turns of a loop have results.
LEMMA LoopHasResults ==
  ASSUME NEW A, NEW a \in A, NEW n \in Nat, NEW g \in [(1 .. n) \X A -> A]
  PROVE  \E f \in [0 .. n -> A] : Results(f, a, n, g)
<1> DEFINE F(m, f) ==
             f \in [0 .. m -> A] /\ f[0] = a /\ \A k \in 1 .. m : f[k] = g[<<k, f[k - 1]>>]
           S == {m \in Nat : m <= n => \E f : F(m, f)}
<1>1. 0 \in S
  <2>1. F(0, [k \in 0 .. 0 |-> a])
    OBVIOUS
  <2> QED  BY <2>1
<1>2. ASSUME NEW m \in S, m + 1 <= n PROVE \E f : F(m + 1, f)
  <2>1. PICK f : F(m, f)
    BY <1>2
  <2> DEFINE h == [k \in 0 .. m + 1 |-> IF k = m + 1 THEN g[<<m + 1, f[m]>>] ELSE f[k]]
  <2>2. m \in Nat /\ m + 1 \in 1 .. n /\ f[m] \in A
    BY <1>2, <2>1
  <2>3. g[<<m + 1, f[m]>>] \in A
    BY <2>2
  <2>4. h \in [0 .. m + 1 -> A] /\ h[0] = a
    BY <2>1, <2>2, <2>3
  <2>5. ASSUME NEW k \in 1 .. m + 1 PROVE h[k] = g[<<k, h[k - 1]>>]
    <3>1. CASE k = m + 1
      <4>1. m \in 0 .. m + 1 /\ m # m + 1 /\ k - 1 = m /\ k \in 0 .. m + 1
        BY <2>2, <3>1
      <4>2. h[m] = f[m]
        BY <4>1
      <4>3. h[k] = g[<<m + 1, f[m]>>]
        BY <3>1, <4>1
      <4> HIDE DEF h
      <4> QED  BY <3>1, <4>1, <4>2, <4>3
    <3>2. CASE k # m + 1
      <4>1. k \in 1 .. m /\ k \in 0 .. m + 1 /\ k - 1 \in 0 .. m + 1 /\ k - 1 # m + 1
        BY <2>2, <3>2
      <4> QED  BY <2>1, <4>1
    <3> QED  BY <3>1, <3>2
  <2> QED  BY <2>4, <2>5
<1>3. S = Nat
  <2>1. \A m \in S : m + 1 \in S
    BY <1>2
  <2>2. S \subseteq Nat
    OBVIOUS
  <2> HIDE DEF S
  <2> QED  BY <1>1, <2>1, <2>2, Induction
<1>4. PICK f : F(n, f)
  <2>1. n \in S
    BY <1>3
  <2> HIDE DEF F
  <2> QED  BY <2>1
<1> QED  BY <1>4 DEF Results

-----------------------------------------------------------------------------
(***************************************************************************)
(* Bytes                                                                   *)
(***************************************************************************)

LEMMA XorBytes ==
  ASSUME NEW a \in Byte, NEW b \in Byte
  PROVE  a ^^ b \in Byte
BY DEF Byte, ^^

LEMMA InXor ==
  ASSUME NEW a, NEW b, NEW x
  PROVE  x \in a ^^ b <=> ((x \in a) # (x \in b))
BY DEF ^^

\* Exclusive or: what cancels, and the order does not matter.
LEMMA XorLaws ==
  ASSUME NEW a, NEW b, NEW c, NEW d
  PROVE  /\ a ^^ a = {} /\ a ^^ {} = a /\ {} ^^ a = a
         /\ (a ^^ b) ^^ c = a ^^ (b ^^ c)
         /\ (a ^^ b) ^^ (c ^^ d) = (a ^^ c) ^^ (b ^^ d)
         /\ a ^^ b = {} <=> a = b
         /\ a ^^ b = c ^^ d <=> a ^^ c = b ^^ d
BY DEF ^^

LEMMA ShiftBytes ==
  ASSUME NEW a \in Byte
  PROVE  ShiftOnce(a) \in Byte
BY Crc8Assumption DEF ShiftOnce, Byte, ^^

\* A turn of neoRADIO2CRC8_Init's loop is linear (PacketHandler.c:563).
LEMMA ShiftXor ==
  ASSUME NEW a \in Byte, NEW b \in Byte
  PROVE  ShiftOnce(a ^^ b) = ShiftOnce(a) ^^ ShiftOnce(b)
<1> DEFINE up(c) == {k \in 0 .. 7 : k - 1 \in c}
           back(c) == IF 7 \in c THEN CRC_POLYNIMIAL ELSE {}
<1>1. up(a ^^ b) = up(a) ^^ up(b)
  BY DEF ^^
<1>2. back(a ^^ b) = back(a) ^^ back(b)
  BY DEF ^^
<1>3. \A c : ShiftOnce(c) = up(c) ^^ back(c)
  BY DEF ShiftOnce
<1> HIDE DEF up, back
<1> QED  BY <1>1, <1>2, <1>3, XorLaws

-----------------------------------------------------------------------------
(***************************************************************************)
(* The table                                                               *)
(***************************************************************************)

\* The turns of the loop that fills entry k.
Turns(k) ==
  LET c[j \in 0 .. 8] == IF j = 0 THEN k ELSE ShiftOnce(c[j - 1])
  IN  c

LEMMA TurnsEquation ==
  ASSUME NEW k \in Byte
  PROVE  /\ Turns(k) \in [0 .. 8 -> Byte]
         /\ Turns(k)[0] = k
         /\ \A j \in 1 .. 8 : Turns(k)[j] = ShiftOnce(Turns(k)[j - 1])
<1> DEFINE g == [p \in (1 .. 8) \X Byte |-> ShiftOnce(p[2])]
           e(f, j) == IF j = 0 THEN k ELSE ShiftOnce(f[j - 1])
<1>1. g \in [(1 .. 8) \X Byte -> Byte]
  BY ShiftBytes
<1>2. PICK f \in [0 .. 8 -> Byte] : f[0] = k /\ \A j \in 1 .. 8 : f[j] = g[<<j, f[j - 1]>>]
  <2>1. PICK n \in Nat : n = 8
    OBVIOUS
  <2>2. g \in [(1 .. n) \X Byte -> Byte]
    BY <1>1, <2>1
  <2> HIDE DEF g
  <2>3. \E f \in [0 .. n -> Byte] : Results(f, k, n, g)
    BY <2>2, LoopHasResults
  <2> QED  BY <2>1, <2>3 DEF Results
<1>3. \A j \in 0 .. 8 : f[j] = e(f, j)
  <2> SUFFICES ASSUME NEW j \in 0 .. 8 PROVE f[j] = e(f, j)
    OBVIOUS
  <2>1. CASE j = 0
    BY <1>2, <2>1
  <2>2. CASE j # 0
    <3>1. j \in 1 .. 8 /\ j - 1 \in 0 .. 8
      BY <2>2
    <3>2. f[j - 1] \in Byte
      BY <3>1
    <3>3. g[<<j, f[j - 1]>>] = ShiftOnce(f[j - 1])
      BY <3>1, <3>2
    <3> QED  BY <1>2, <2>2, <3>3
  <2> QED  BY <2>1, <2>2
<1>4. f = [j \in 0 .. 8 |-> e(f, j)]
  <2> HIDE DEF e
  <2> QED  BY <1>3
<1>5. f = [j \in 0 .. 8 |-> IF j = 0 THEN k ELSE ShiftOnce(f[j - 1])]
  BY <1>4
<1>6. Turns(k) = [j \in 0 .. 8 |-> IF j = 0 THEN k ELSE ShiftOnce(Turns(k)[j - 1])]
  <2> HIDE DEF g
  <2> QED  BY <1>5 DEF Turns
<1>7. \A j \in 0 .. 8 : Turns(k)[j] = IF j = 0 THEN k ELSE ShiftOnce(Turns(k)[j - 1])
  BY <1>6
<1>8. Turns(k)[0] = k
  BY <1>7
<1>9. \A j \in 1 .. 8 : Turns(k)[j] = ShiftOnce(Turns(k)[j - 1])
  BY <1>7
<1>10. DOMAIN Turns(k) = 0 .. 8 /\ Turns(k) = [j \in 0 .. 8 |-> Turns(k)[j]]
  BY <1>6
<1> DEFINE S == {j \in Nat : j <= 8 => Turns(k)[j] \in Byte}
<1>11. S = Nat
  <2>1. 0 \in S
    BY <1>8
  <2>2. ASSUME NEW j \in S PROVE j + 1 \in S
    <3> SUFFICES ASSUME j + 1 <= 8 PROVE Turns(k)[j + 1] \in Byte
      OBVIOUS
    <3>1. Turns(k)[j] \in Byte
      OBVIOUS
    <3>2. j + 1 \in 1 .. 8 /\ (j + 1) - 1 = j
      OBVIOUS
    <3>3. Turns(k)[j + 1] = ShiftOnce(Turns(k)[j])
      BY <1>9, <3>2
    <3> QED  BY <3>1, <3>3, ShiftBytes
  <2>3. S \subseteq Nat
    OBVIOUS
  <2> HIDE DEF S
  <2> QED  BY <2>1, <2>2, <2>3, Induction
<1>12. \A j \in 0 .. 8 : Turns(k)[j] \in Byte
  <2> SUFFICES ASSUME NEW j \in 0 .. 8 PROVE Turns(k)[j] \in Byte
    OBVIOUS
  <2>1. j \in S
    BY <1>11
  <2> QED  BY <2>1
<1> QED  BY <1>8, <1>9, <1>10, <1>12

\* An entry is what eight turns make of its index (PacketHandler.c:556-566).
LEMMA EntryIsTurns ==
  ASSUME NEW k \in Byte
  PROVE  neoRADIO2CRC8_Init[k] = Turns(k)[8] /\ neoRADIO2CRC8_Init[k] \in Byte
<1>1. neoRADIO2CRC8_Init[k] = Turns(k)[8]
  BY DEF neoRADIO2CRC8_Init, Turns
<1> QED  BY <1>1, TurnsEquation

\* What holds at the beginning and is kept by a turn holds after every turn.
LEMMA AfterTurns ==
  ASSUME NEW S, 0 \in S, \A j \in 0 .. 7 : j \in S => j + 1 \in S
  PROVE  0 .. 8 \subseteq S
<1> DEFINE N == {j \in Nat : j <= 8 => j \in S}
<1>1. 0 \in N
  OBVIOUS
<1>2. \A j \in N : j + 1 \in N
  OBVIOUS
<1>3. N \subseteq Nat
  OBVIOUS
<1>4. N = Nat
  <2> HIDE DEF N
  <2> QED  BY <1>1, <1>2, <1>3, Induction
<1> QED  BY <1>4

\* The table is linear.
LEMMA TurnsXor ==
  ASSUME NEW a \in Byte, NEW b \in Byte
  PROVE  \A j \in 0 .. 8 : Turns(a ^^ b)[j] = Turns(a)[j] ^^ Turns(b)[j]
<1> DEFINE S == {j \in 0 .. 8 : Turns(a ^^ b)[j] = Turns(a)[j] ^^ Turns(b)[j]}
<1>1. a ^^ b \in Byte
  BY XorBytes
<1>2. 0 \in S
  BY <1>1, TurnsEquation
<1>3. ASSUME NEW j \in 0 .. 7, j \in S PROVE j + 1 \in S
  <2>1. j + 1 \in 1 .. 8 /\ (j + 1) - 1 = j /\ j \in 0 .. 8
    OBVIOUS
  <2>2. Turns(a)[j] \in Byte /\ Turns(b)[j] \in Byte
    BY <2>1, TurnsEquation
  <2>3. /\ Turns(a ^^ b)[j + 1] = ShiftOnce(Turns(a ^^ b)[j])
        /\ Turns(a)[j + 1] = ShiftOnce(Turns(a)[j])
        /\ Turns(b)[j + 1] = ShiftOnce(Turns(b)[j])
    BY <1>1, <2>1, TurnsEquation
  <2>4. Turns(a ^^ b)[j] = Turns(a)[j] ^^ Turns(b)[j]
    BY <1>3
  <2>5. Turns(a ^^ b)[j + 1] = Turns(a)[j + 1] ^^ Turns(b)[j + 1]
    BY <2>2, <2>3, <2>4, ShiftXor
  <2> QED  BY <2>1, <2>5
<1>4. 0 .. 8 \subseteq S
  <2> HIDE DEF S
  <2> QED  BY <1>2, <1>3, AfterTurns
<1> QED  BY <1>4

LEMMA TableXor ==
  ASSUME NEW a \in Byte, NEW b \in Byte
  PROVE  neoRADIO2CRC8_Init[a ^^ b] = neoRADIO2CRC8_Init[a] ^^ neoRADIO2CRC8_Init[b]
<1>1. a ^^ b \in Byte
  BY XorBytes
<1> QED  BY <1>1, EntryIsTurns, TurnsXor

LEMMA ZeroStays == {} \in Byte /\ neoRADIO2CRC8_Init[{}] = {}
<1>1. {} \in Byte /\ {} ^^ {} = {}
  BY DEF Byte, ^^
<1>2. neoRADIO2CRC8_Init[{}] = neoRADIO2CRC8_Init[{}] ^^ neoRADIO2CRC8_Init[{}]
  BY <1>1, TableXor
<1> QED  BY <1>1, <1>2, XorLaws

-----------------------------------------------------------------------------
(***************************************************************************)
(* Long division                                                           *)
(***************************************************************************)

\* What is left after each term was brought down.
Rest(bytes, n) ==
  LET r[m \in 0 .. 8 * n + 8] ==
        IF m = 0 THEN {} ELSE BringDown(r[m - 1], Term(bytes, n, m))
  IN  r

Bit == {{}, {0}}

LEMMA TermIsBit ==
  ASSUME NEW bytes, NEW n, NEW m
  PROVE  Term(bytes, n, m) \in Bit
BY DEF Term, Bit

\* Bringing down a term is a turn of the loop with the term at its end.
LEMMA BringDownIsShift ==
  ASSUME NEW a \in Byte, NEW bit \in Bit
  PROVE  BringDown(a, bit) = ShiftOnce(a) ^^ bit /\ BringDown(a, bit) \in Byte
<1> DEFINE s == {k \in 1 .. 8 : k - 1 \in a} \cup bit
           up == {k \in 0 .. 7 : k - 1 \in a}
<1>1. a \subseteq 0 .. 7 /\ bit \subseteq {0} /\ CRC_POLYNIMIAL \subseteq 0 .. 7
  BY Crc8Assumption DEF Byte, Bit
<1>2. ASSUME 7 \in a PROVE BringDown(a, bit) = ShiftOnce(a) ^^ bit
  <2>1. 8 \in s
    BY <1>2
  <2>2. s ^^ ({8} \cup CRC_POLYNIMIAL) = (up ^^ CRC_POLYNIMIAL) ^^ bit
    BY <1>1, <1>2 DEF ^^
  <2>3. ShiftOnce(a) = up ^^ CRC_POLYNIMIAL
    BY <1>2 DEF ShiftOnce
  <2>4. BringDown(a, bit) = s ^^ ({8} \cup CRC_POLYNIMIAL)
    BY <2>1 DEF BringDown
  <2> QED  BY <2>2, <2>3, <2>4
<1>3. ASSUME 7 \notin a PROVE BringDown(a, bit) = ShiftOnce(a) ^^ bit
  <2>1. 8 \notin s
    BY <1>1, <1>3
  <2>2. s = (up ^^ {}) ^^ bit
    BY <1>1, <1>3 DEF ^^
  <2>3. ShiftOnce(a) = up ^^ {}
    BY <1>3 DEF ShiftOnce
  <2>4. BringDown(a, bit) = s
    BY <2>1 DEF BringDown
  <2> QED  BY <2>2, <2>3, <2>4
<1>4. BringDown(a, bit) = ShiftOnce(a) ^^ bit
  BY <1>2, <1>3
<1>5. bit \in Byte
  BY <1>1 DEF Byte
<1> QED  BY <1>4, <1>5, ShiftBytes, XorBytes

LEMMA RestEquation ==
  ASSUME NEW bytes, NEW n \in Nat
  PROVE  /\ Rest(bytes, n) \in [0 .. 8 * n + 8 -> Byte]
         /\ Rest(bytes, n)[0] = {}
         /\ \A m \in 1 .. 8 * n + 8 :
              Rest(bytes, n)[m] = BringDown(Rest(bytes, n)[m - 1], Term(bytes, n, m))
         /\ Division(bytes, n) = Rest(bytes, n)[8 * n + 8]
<1>1. PICK l \in Nat : l = 8 * n + 8
  OBVIOUS
<1> DEFINE g == [p \in (1 .. l) \X Byte |-> BringDown(p[2], Term(bytes, n, p[1]))]
<1>2. g \in [(1 .. l) \X Byte -> Byte]
  <2>1. \A p \in (1 .. l) \X Byte : BringDown(p[2], Term(bytes, n, p[1])) \in Byte
    BY BringDownIsShift, TermIsBit
  <2> QED  BY <2>1
<1>3. {} \in Byte
  BY DEF Byte
<1>4. PICK f \in [0 .. l -> Byte] : f[0] = {} /\ \A m \in 1 .. l : f[m] = g[<<m, f[m - 1]>>]
  <2>1. PICK z \in Byte : z = {}
    BY <1>3
  <2> HIDE DEF g
  <2>2. \E f \in [0 .. l -> Byte] : Results(f, z, l, g)
    BY <1>2, LoopHasResults
  <2> QED  BY <2>1, <2>2 DEF Results
<1>5. \A m \in 1 .. l : f[m] = BringDown(f[m - 1], Term(bytes, n, m))
  <2> SUFFICES ASSUME NEW m \in 1 .. l PROVE f[m] = BringDown(f[m - 1], Term(bytes, n, m))
    OBVIOUS
  <2>1. m - 1 \in 0 .. l
    OBVIOUS
  <2>2. f[m - 1] \in Byte
    BY <2>1
  <2>3. g[<<m, f[m - 1]>>] = BringDown(f[m - 1], Term(bytes, n, m))
    BY <2>2
  <2> QED  BY <1>4, <2>3
<1> HIDE DEF g
<1>6. f = [m \in 0 .. l |-> IF m = 0 THEN {} ELSE BringDown(f[m - 1], Term(bytes, n, m))]
  <2> DEFINE e(m) == IF m = 0 THEN {} ELSE BringDown(f[m - 1], Term(bytes, n, m))
  <2>1. \A m \in 0 .. l : f[m] = e(m)
    <3> SUFFICES ASSUME NEW m \in 0 .. l PROVE f[m] = e(m)
      OBVIOUS
    <3>1. m = 0 \/ m \in 1 .. l
      OBVIOUS
    <3> QED  BY <1>4, <1>5, <3>1
  <2>2. f = [m \in 0 .. l |-> e(m)]
    <3> HIDE DEF e
    <3> QED  BY <2>1
  <2> QED  BY <2>2
<1>7. Rest(bytes, n)
        = [m \in 0 .. l |->
             IF m = 0 THEN {} ELSE BringDown(Rest(bytes, n)[m - 1], Term(bytes, n, m))]
  <2>1. Rest(bytes, n) =
          CHOOSE r : r = [m \in 0 .. l |-> IF m = 0 THEN {} ELSE BringDown(r[m - 1], Term(bytes, n, m))]
    BY <1>1 DEF Rest
  <2> QED  BY <1>6, <2>1
<1> DEFINE R == Rest(bytes, n)
<1>8. R[0] = {} /\ \A m \in 1 .. l : R[m] = BringDown(R[m - 1], Term(bytes, n, m))
  <2>1. \A m \in 0 .. l : R[m] = IF m = 0 THEN {} ELSE BringDown(R[m - 1], Term(bytes, n, m))
    BY <1>7
  <2> QED  BY <2>1
<1>9. R = [m \in 0 .. l |-> R[m]]
  BY <1>7
<1> HIDE DEF R
<1> DEFINE S == {m \in Nat : m <= l => R[m] \in Byte}
<1>10. S = Nat
  <2>1. 0 \in S
    BY <1>3, <1>8
  <2>2. ASSUME NEW m \in S PROVE m + 1 \in S
    <3> SUFFICES ASSUME m + 1 <= l PROVE R[m + 1] \in Byte
      OBVIOUS
    <3>1. R[m] \in Byte
      OBVIOUS
    <3>2. m + 1 \in 1 .. l /\ (m + 1) - 1 = m
      OBVIOUS
    <3>3. R[m + 1] = BringDown(R[m], Term(bytes, n, m + 1))
      BY <1>8, <3>2
    <3> QED  BY <3>1, <3>3, BringDownIsShift, TermIsBit
  <2>3. S \subseteq Nat
    OBVIOUS
  <2> HIDE DEF S
  <2> QED  BY <2>1, <2>2, <2>3, Induction
<1>11. \A m \in 0 .. l : R[m] \in Byte
  <2> SUFFICES ASSUME NEW m \in 0 .. l PROVE R[m] \in Byte
    OBVIOUS
  <2>1. m \in S
    BY <1>10
  <2> QED  BY <2>1
<1>12. Division(bytes, n) = R[8 * n + 8]
  BY DEF R, Division, Rest
<1>13. R \in [0 .. l -> Byte]
  BY <1>9, <1>11
<1> QED  BY <1>1, <1>8, <1>12, <1>13 DEF R

\* The highest j bits of a byte.
Top(b, j) == {e \in 0 .. 7 : e < j /\ e + 8 - j \in b}

LEMMA TopBits ==
  ASSUME NEW b \in Byte
  PROVE  /\ \A j \in 0 .. 8 : Top(b, j) \in Byte
         /\ Top(b, 0) = {} /\ Top(b, 8) = b
<1>1. \A j \in 0 .. 8 : Top(b, j) \in Byte
  BY DEF Top, Byte
<1>2. Top(b, 0) = {}
  BY DEF Top
<1>3. Top(b, 8) = b
  <2>1. \A e \in 0 .. 7 : e < 8 /\ e + 8 - 8 = e
    OBVIOUS
  <2>2. b \subseteq 0 .. 7
    BY DEF Byte
  <2> QED  BY <2>1, <2>2 DEF Top
<1> QED  BY <1>1, <1>2, <1>3

LEMMA NextBit ==
  ASSUME NEW b \in Byte, NEW j \in 0 .. 7
  PROVE  Top(b, j + 1) = ShiftOnce(Top(b, j)) ^^ (IF 7 - j \in b THEN {0} ELSE {})
<1> DEFINE up == {k \in 0 .. 7 : k - 1 \in Top(b, j)}
           bit == IF 7 - j \in b THEN {0} ELSE {}
<1>1. 7 \notin Top(b, j)
  BY DEF Top
<1>2. ShiftOnce(Top(b, j)) = up ^^ {}
  BY <1>1 DEF ShiftOnce
<1>3. up = {e \in 1 .. 7 : e < j + 1 /\ e + 8 - (j + 1) \in b}
  BY DEF Top
<1>4. Top(b, j + 1) = up ^^ bit
  <2> HIDE DEF up
  <2>1. ASSUME NEW e PROVE e \in Top(b, j + 1) <=> e \in up ^^ bit
    <3>1. CASE e = 0
      BY <1>3, <3>1 DEF Top, ^^
    <3>2. CASE e # 0
      BY <1>3, <3>2 DEF Top, ^^
    <3> QED  BY <3>1, <3>2
  <2> QED  BY <2>1
<1>5. up ^^ {} = up
  BY XorLaws
<1> QED  BY <1>2, <1>4, <1>5

LEMMA ByEight ==
  ASSUME NEW q \in Nat, NEW j \in 0 .. 7
  PROVE  (8 * q + j) % 8 = j /\ (8 * q + j) \div 8 = q
OBVIOUS

LEMMA TermOfByte ==
  ASSUME NEW bytes, NEW n \in Nat, NEW k \in 1 .. n, NEW j \in 0 .. 7
  PROVE  Term(bytes, n, 8 * (k - 1) + j + 1) = IF 7 - j \in bytes[k] THEN {0} ELSE {}
<1>1. k - 1 \in Nat
  OBVIOUS
<1>2. PICK m \in Nat : m = 8 * (k - 1) + j
  BY <1>1
<1>3. m % 8 = j /\ m \div 8 = k - 1
  BY <1>1, <1>2, ByEight
<1>4. m + 1 <= 8 * n /\ (m + 1) - 1 = m /\ (k - 1) + 1 = k
  BY <1>2
<1>5. Term(bytes, n, m + 1) = IF 7 - (m % 8) \in bytes[(m \div 8) + 1] THEN {0} ELSE {}
  BY <1>4 DEF Term
<1>6. Term(bytes, n, m + 1) = IF 7 - j \in bytes[k] THEN {0} ELSE {}
  BY <1>3, <1>4, <1>5
<1> QED  BY <1>2, <1>6

\* Bringing down a byte makes eight turns of what was left, and adds the byte.
LEMMA ByteBroughtDown ==
  ASSUME NEW bytes \in Seq(Byte), NEW n \in 0 .. Len(bytes), NEW k \in 1 .. n
  PROVE  Rest(bytes, n)[8 * k] = neoRADIO2CRC8_Init[Rest(bytes, n)[8 * (k - 1)]] ^^ bytes[k]
<1> DEFINE R == Rest(bytes, n)
           q == 8 * (k - 1)
           S == {j \in 0 .. 8 : R[q + j] = Turns(R[q])[j] ^^ Top(bytes[k], j)}
<1>1. /\ n \in Nat /\ k - 1 \in Nat /\ q \in Nat /\ q \in 0 .. 8 * n + 8 /\ q + 8 = 8 * k
      /\ bytes[k] \in Byte
  OBVIOUS
<1>2. R[q] \in Byte
  BY <1>1, RestEquation
<1>3. 0 \in S
  <2>1. Turns(R[q])[0] = R[q] /\ Top(bytes[k], 0) = {} /\ R[q] ^^ {} = R[q]
    BY <1>1, <1>2, TurnsEquation, TopBits, XorLaws
  <2>2. q + 0 = q
    BY <1>1
  <2>3. R[q + 0] = Turns(R[q])[0] ^^ Top(bytes[k], 0)
    <3> HIDE DEF R, q
    <3> QED  BY <2>1, <2>2
  <2> QED  BY <2>3
<1>4. ASSUME NEW j \in 0 .. 7, j \in S PROVE j + 1 \in S
  <2>1. /\ q + (j + 1) \in 1 .. 8 * n + 8 /\ (q + (j + 1)) - 1 = q + j /\ q + (j + 1) = q + j + 1
        /\ j + 1 \in 1 .. 8 /\ (j + 1) - 1 = j /\ j \in 0 .. 8
    BY <1>1
  <2> DEFINE bit == IF 7 - j \in bytes[k] THEN {0} ELSE {}
             c == Turns(R[q])[j]
             h == Top(bytes[k], j)
  <2>2. Term(bytes, n, q + (j + 1)) = bit
    BY <1>1, <2>1, TermOfByte
  <2>3. R[q + (j + 1)] = BringDown(R[q + j], bit)
    BY <1>1, <2>1, <2>2, RestEquation
  <2>4. c \in Byte /\ h \in Byte /\ bit \in Bit
    BY <1>1, <1>2, <2>1, TurnsEquation, TopBits DEF Bit
  <2>5. R[q + j] = c ^^ h
    BY <1>4
  <2>6. Turns(R[q])[j + 1] = ShiftOnce(c)
    BY <1>2, <2>1, TurnsEquation
  <2>7. Top(bytes[k], j + 1) = ShiftOnce(h) ^^ bit
    BY <1>1, NextBit
  <2> HIDE DEF R, q, bit, c, h
  <2>8. R[q + (j + 1)] = ShiftOnce(c ^^ h) ^^ bit
    BY <2>3, <2>4, <2>5, XorBytes, BringDownIsShift
  <2>9. ShiftOnce(c ^^ h) ^^ bit = ShiftOnce(c) ^^ (ShiftOnce(h) ^^ bit)
    BY <2>4, ShiftXor, XorLaws
  <2> QED  BY <2>1, <2>6, <2>7, <2>8, <2>9
<1>5. 0 .. 8 \subseteq S
  <2> HIDE DEF S
  <2> QED  BY <1>3, <1>4, AfterTurns
<1>6. R[q + 8] = Turns(R[q])[8] ^^ Top(bytes[k], 8)
  <2>1. 8 \in S
    BY <1>5
  <2> QED  BY <2>1
<1>7. Top(bytes[k], 8) = bytes[k] /\ Turns(R[q])[8] = neoRADIO2CRC8_Init[R[q]]
  BY <1>1, <1>2, TopBits, EntryIsTurns
<1> QED  BY <1>1, <1>6, <1>7

\* The eight zeros behind the bytes make eight turns.
LEMMA ZerosBroughtDown ==
  ASSUME NEW bytes, NEW n \in Nat
  PROVE  Division(bytes, n) = neoRADIO2CRC8_Init[Rest(bytes, n)[8 * n]]
<1> DEFINE R == Rest(bytes, n)
           q == 8 * n
           S == {j \in 0 .. 8 : R[q + j] = Turns(R[q])[j]}
<1>1. q \in 0 .. 8 * n + 8 /\ q + 0 = q
  OBVIOUS
<1>2. R[q] \in Byte
  BY <1>1, RestEquation
<1>3. 0 \in S
  BY <1>1, <1>2, TurnsEquation
<1>4. ASSUME NEW j \in 0 .. 7, j \in S PROVE j + 1 \in S
  <2>1. /\ q + (j + 1) \in 1 .. 8 * n + 8 /\ (q + (j + 1)) - 1 = q + j /\ ~(q + (j + 1) <= 8 * n)
        /\ j + 1 \in 1 .. 8 /\ (j + 1) - 1 = j /\ j \in 0 .. 8
    OBVIOUS
  <2>2. Term(bytes, n, q + (j + 1)) = {}
    BY <2>1 DEF Term
  <2>3. R[q + (j + 1)] = BringDown(R[q + j], {})
    <3>1. PICK m \in 1 .. 8 * n + 8 : m = q + (j + 1)
      BY <2>1
    <3>2. R[m] = BringDown(R[m - 1], Term(bytes, n, m))
      BY RestEquation
    <3> HIDE DEF R, q
    <3> QED  BY <2>1, <2>2, <3>1, <3>2
  <2>4. R[q + j] = Turns(R[q])[j] /\ Turns(R[q])[j] \in Byte /\ {} \in Bit
    BY <1>2, <1>4, <2>1, TurnsEquation DEF Bit
  <2>5. Turns(R[q])[j + 1] = ShiftOnce(Turns(R[q])[j])
    BY <1>2, <2>1, TurnsEquation
  <2> HIDE DEF R, q
  <2>6. R[q + (j + 1)] = Turns(R[q])[j + 1]
    BY <2>3, <2>4, <2>5, BringDownIsShift, XorLaws
  <2> QED  BY <2>1, <2>6
<1>5. 0 .. 8 \subseteq S
  <2> HIDE DEF S
  <2> QED  BY <1>3, <1>4, AfterTurns
<1>6. R[q + 8] = Turns(R[q])[8]
  <2>1. 8 \in S
    BY <1>5
  <2> QED  BY <2>1
<1> QED  BY <1>2, <1>6, RestEquation, EntryIsTurns

\* What comes behind is not looked at before it is brought down.
LEMMA RestOfFewer ==
  ASSUME NEW bytes, NEW n \in Nat, NEW k \in 0 .. 8 * n
  PROVE  Rest(bytes, n + 1)[k] = Rest(bytes, n)[k]
<1> DEFINE S == {m \in Nat : m <= 8 * n => Rest(bytes, n + 1)[m] = Rest(bytes, n)[m]}
<1>1. 0 \in S
  <2>1. Rest(bytes, n)[0] = {}
    BY RestEquation
  <2>2. PICK l \in Nat : l = n + 1
    OBVIOUS
  <2>3. Rest(bytes, l)[0] = {}
    BY RestEquation
  <2> QED  BY <2>1, <2>2, <2>3
<1>2. ASSUME NEW m \in S PROVE m + 1 \in S
  <2> SUFFICES ASSUME m + 1 <= 8 * n
               PROVE  Rest(bytes, n + 1)[m + 1] = Rest(bytes, n)[m + 1]
    OBVIOUS
  <2>1. Rest(bytes, n + 1)[m] = Rest(bytes, n)[m]
    OBVIOUS
  <2>2. /\ m + 1 \in 1 .. 8 * n + 8 /\ m + 1 \in 1 .. 8 * (n + 1) + 8 /\ (m + 1) - 1 = m
        /\ m + 1 <= 8 * (n + 1) /\ n + 1 \in Nat
    OBVIOUS
  <2>3. Term(bytes, n + 1, m + 1) = Term(bytes, n, m + 1)
    BY <2>2 DEF Term
  <2>4. Rest(bytes, n)[m + 1] = BringDown(Rest(bytes, n)[m], Term(bytes, n, m + 1))
    BY <2>2, RestEquation
  <2>5. Rest(bytes, n + 1)[m + 1] = BringDown(Rest(bytes, n + 1)[m], Term(bytes, n + 1, m + 1))
    BY <2>2, RestEquation
  <2> QED  BY <2>1, <2>3, <2>4, <2>5
<1>3. S \subseteq Nat
  OBVIOUS
<1>4. S = Nat
  <2> HIDE DEF S
  <2> QED  BY <1>1, <1>2, <1>3, Induction
<1>5. k \in S
  BY <1>4
<1> QED  BY <1>5

\* Division byte by byte with the table, as neoRADIO2CalcCRC8 does it
\* (PacketHandler.c:547-550).
LEMMA DivisionByBytes ==
  ASSUME NEW bytes \in Seq(Byte)
  PROVE  /\ Division(bytes, 0) = {}
         /\ \A n \in 0 .. Len(bytes) : Division(bytes, n) \in Byte
         /\ \A n \in 0 .. Len(bytes) - 1 :
              Division(bytes, n + 1) = neoRADIO2CRC8_Init[Division(bytes, n) ^^ bytes[n + 1]]
<1>1. Division(bytes, 0) = {}
  <2>1. Rest(bytes, 0)[0] = {} /\ 8 * 0 = 0
    BY RestEquation
  <2> QED  BY <2>1, ZerosBroughtDown, ZeroStays
<1>2. ASSUME NEW n \in 0 .. Len(bytes)
      PROVE  Division(bytes, n) \in Byte
  <2>1. n \in Nat /\ 8 * n + 8 \in 0 .. 8 * n + 8
    OBVIOUS
  <2>2. Rest(bytes, n) \in [0 .. 8 * n + 8 -> Byte]
    BY <2>1, RestEquation
  <2>3. Division(bytes, n) = Rest(bytes, n)[8 * n + 8]
    BY <2>1, RestEquation
  <2> QED  BY <2>1, <2>2, <2>3
<1>3. ASSUME NEW n \in 0 .. Len(bytes) - 1
      PROVE  Division(bytes, n + 1) = neoRADIO2CRC8_Init[Division(bytes, n) ^^ bytes[n + 1]]
  <2>1. /\ n \in Nat /\ n + 1 \in Nat /\ n + 1 \in 0 .. Len(bytes) /\ n + 1 \in 1 .. n + 1
        /\ (n + 1) - 1 = n /\ 8 * n \in 0 .. 8 * n
    OBVIOUS
  <2>2. Division(bytes, n + 1) = neoRADIO2CRC8_Init[Rest(bytes, n + 1)[8 * (n + 1)]]
    BY <2>1, ZerosBroughtDown
  <2>3. Rest(bytes, n + 1)[8 * (n + 1)]
          = neoRADIO2CRC8_Init[Rest(bytes, n + 1)[8 * n]] ^^ bytes[n + 1]
    BY <2>1, ByteBroughtDown
  <2>4. Rest(bytes, n + 1)[8 * n] = Rest(bytes, n)[8 * n]
    BY <2>1, RestOfFewer
  <2>5. Division(bytes, n) = neoRADIO2CRC8_Init[Rest(bytes, n)[8 * n]]
    BY <2>1, ZerosBroughtDown
  <2> QED  BY <2>2, <2>3, <2>4, <2>5
<1> QED  BY <1>1, <1>2, <1>3

-----------------------------------------------------------------------------
(***************************************************************************)
(* Damage of at most eight bits in a row                                   *)
(***************************************************************************)

LEMMA HighestBit ==
  ASSUME NEW c \in Byte, c # {}
  PROVE  \E m \in c : \A b \in c : b <= m
<1>1. c \subseteq 0 .. 7
  BY DEF Byte
<1> SUFFICES ASSUME \A m \in c : \E b \in c : m < b
             PROVE  FALSE
  BY <1>1
<1>2. 7 \notin c /\ 6 \notin c /\ 5 \notin c /\ 4 \notin c
  BY <1>1
<1>3. 3 \notin c /\ 2 \notin c /\ 1 \notin c /\ 0 \notin c
  BY <1>1, <1>2
<1>4. PICK b \in c : TRUE
  OBVIOUS
<1>5. b \in 0 .. 7
  BY <1>1
<1> QED  BY <1>2, <1>3, <1>4, <1>5

\* A turn lifts every bit by one, and what leaves at the top comes back at the
\* bottom, since the polynomial has the term 1.
LEMMA ShiftLifts ==
  ASSUME NEW c \in Byte
  PROVE  /\ 7 \notin c => \A b \in c : b + 1 \in ShiftOnce(c)
         /\ 7 \notin c => \A b \in ShiftOnce(c) : b - 1 \in c
         /\ 7 \in c => 0 \in ShiftOnce(c)
<1>1. ASSUME 7 \notin c
      PROVE  /\ \A b \in c : b + 1 \in ShiftOnce(c)
             /\ \A b \in ShiftOnce(c) : b - 1 \in c
  <2>1. ShiftOnce(c) = {k \in 0 .. 7 : k - 1 \in c}
    BY <1>1 DEF ShiftOnce, ^^
  <2>2. \A b \in c : b \in 0 .. 6 /\ (b + 1) - 1 = b
    BY <1>1 DEF Byte
  <2> QED  BY <2>1, <2>2
<1>2. ASSUME 7 \in c PROVE 0 \in ShiftOnce(c)
  <2>1. 0 \in CRC_POLYNIMIAL /\ -1 \notin c
    BY Crc8Assumption DEF Byte
  <2> QED  BY <1>2, <2>1 DEF ShiftOnce, ^^
<1> QED  BY <1>1, <1>2

\* The entry of a byte has a bit that is no higher than one of the byte.
LEMMA EntryReachesDown ==
  ASSUME NEW c \in Byte, c # {}
  PROVE  \E a \in c : \E e \in neoRADIO2CRC8_Init[c] : e <= a
<1>1. PICK m \in c : \A b \in c : b <= m
  BY HighestBit
<1>2. m \in 0 .. 7
  BY DEF Byte
<1> DEFINE high(j) == m + j \in Turns(c)[j] /\ \A b \in Turns(c)[j] : b <= m + j
           low(j) == \E e \in Turns(c)[j] : e <= m + j - 8
           S == {j \in 0 .. 8 : IF m + j <= 7 THEN high(j) ELSE low(j)}
<1>3. 0 \in S
  <2>1. Turns(c)[0] = c /\ m + 0 = m /\ m + 0 <= 7
    BY <1>2, TurnsEquation
  <2>2. high(0)
    BY <1>1, <2>1
  <2> HIDE DEF high, low
  <2> QED  BY <2>1, <2>2
<1>4. ASSUME NEW j \in 0 .. 7, j \in S PROVE j + 1 \in S
  <2>1. PICK t \in Byte : t = Turns(c)[j]
    BY TurnsEquation
  <2>2. Turns(c)[j + 1] = ShiftOnce(t) /\ ShiftOnce(t) \in Byte
    <3>1. j + 1 \in 1 .. 8 /\ (j + 1) - 1 = j
      OBVIOUS
    <3>2. Turns(c)[j + 1] = ShiftOnce(t)
      BY <2>1, <3>1, TurnsEquation
    <3> QED  BY <3>2, ShiftBytes
  <2>3. t \subseteq 0 .. 7 /\ ShiftOnce(t) \subseteq 0 .. 7
    BY <2>2 DEF Byte
  <2>4. ASSUME m + j <= 6 PROVE high(j + 1)
    <3>1. high(j)
      BY <1>2, <1>4, <2>4
    <3>2. m + j \in t /\ \A b \in t : b <= m + j
      BY <2>1, <3>1
    <3>3. 7 \notin t
      BY <1>2, <2>4, <3>2
    <3>4. m + j + 1 \in ShiftOnce(t) /\ \A b \in ShiftOnce(t) : b - 1 <= m + j
      BY <3>2, <3>3, ShiftLifts
    <3> QED  BY <1>2, <2>2, <2>3, <3>4
  <2>5. ASSUME m + j = 7 PROVE low(j + 1)
    <3>1. high(j)
      BY <1>2, <1>4, <2>5
    <3>2. 7 \in t
      BY <2>1, <2>5, <3>1
    <3>3. 0 \in ShiftOnce(t) /\ 0 <= m + (j + 1) - 8
      BY <1>2, <2>5, <3>2, ShiftLifts
    <3> QED  BY <2>2, <3>3
  <2>6. ASSUME m + j > 7 PROVE low(j + 1)
    <3>1. low(j)
      BY <1>2, <1>4, <2>6
    <3>2. PICK e \in t : e <= m + j - 8
      BY <2>1, <3>1
    <3>3. \E x \in ShiftOnce(t) : x <= e + 1
      <4>1. CASE 7 \in t
        <5>1. 0 \in ShiftOnce(t) /\ 0 <= e + 1
          BY <2>3, <4>1, ShiftLifts
        <5> QED  BY <5>1
      <4>2. CASE 7 \notin t
        <5>1. e + 1 \in ShiftOnce(t) /\ e + 1 <= e + 1
          BY <2>3, <4>2, ShiftLifts
        <5> QED  BY <5>1
      <4> QED  BY <4>1, <4>2
    <3>4. PICK x \in ShiftOnce(t) : x <= e + 1
      BY <3>3
    <3>5. x <= m + (j + 1) - 8
      BY <1>2, <2>3, <3>2, <3>4
    <3> QED  BY <2>2, <3>4, <3>5
  <2> HIDE DEF high, low
  <2>7. j + 1 \in 0 .. 8 /\ (m + (j + 1) <= 7 <=> m + j <= 6)
    BY <1>2
  <2> QED  BY <1>2, <2>4, <2>5, <2>6, <2>7
<1>5. 0 .. 8 \subseteq S
  <2> HIDE DEF S
  <2> QED  BY <1>3, <1>4, AfterTurns
<1>6. low(8)
  <2>1. 8 \in S /\ ~(m + 8 <= 7)
    BY <1>2, <1>5
  <2> HIDE DEF high, low
  <2> QED  BY <2>1
<1>7. PICK e \in Turns(c)[8] : e <= m + 8 - 8
  BY <1>6
<1>8. e <= m
  BY <1>2, <1>7
<1> QED  BY <1>7, <1>8, EntryIsTurns

\* What the line changed never cancels out: d is the difference of the bytes, E
\* the difference of the indices at which the table is read.
LEMMA BurstRemains ==
  ASSUME NEW l \in Nat \ {0}, NEW d \in [1 .. l -> Byte], NEW E \in [1 .. l -> Byte],
         E[1] = d[1],
         \A k \in 1 .. l - 1 : E[k + 1] = neoRADIO2CRC8_Init[E[k]] ^^ d[k + 1],
         \A p, q \in 1 .. l : \A x \in d[p], y \in d[q] : (8 * p - x) - (8 * q - y) <= 7
  PROVE  (\E k \in 1 .. l : d[k] # {}) => E[l] # {}
<1> DEFINE none(k) == E[k] = {} /\ \A j \in 1 .. k : d[j] = {}
           first(k) == E[k] = d[k] /\ d[k] # {}
           since(k) == E[k] # {} /\ \E j \in 1 .. k - 1 : d[j] # {}
           I(k) == none(k) \/ first(k) \/ since(k)
           S == {k \in Nat : k + 1 <= l => I(k + 1)}
<1>1. 0 \in S
  <2>1. I(1)
    <3>1. \A j \in 1 .. 1 : j = 1
      OBVIOUS
    <3> QED  BY <3>1
  <2> HIDE DEF I
  <2> QED  BY <2>1
<1>2. ASSUME NEW k \in 1 .. l - 1, I(k) PROVE I(k + 1)
  <2>1. /\ k \in 1 .. l /\ k + 1 \in 1 .. l /\ (k + 1) - 1 = k
        /\ E[k] \in Byte /\ d[k] \in Byte /\ d[k + 1] \in Byte
    OBVIOUS
  <2>2. E[k + 1] = neoRADIO2CRC8_Init[E[k]] ^^ d[k + 1]
    OBVIOUS
  <2>3. ASSUME none(k) PROVE I(k + 1)
    <3>1. E[k + 1] = d[k + 1]
      BY <2>2, <2>3, ZeroStays, XorLaws
    <3>2. \A j \in 1 .. k + 1 : j \in 1 .. k \/ j = k + 1
      BY <2>1
    <3> QED  BY <2>3, <3>1, <3>2
  <2>4. ASSUME first(k) PROVE since(k + 1)
    <3>1. PICK a \in d[k] : \E e \in neoRADIO2CRC8_Init[d[k]] : e <= a
      BY <2>1, <2>4, EntryReachesDown
    <3>2. PICK e \in neoRADIO2CRC8_Init[d[k]] : e <= a
      BY <3>1
    <3>3. neoRADIO2CRC8_Init[d[k]] \in Byte
      BY <2>1, EntryIsTurns
    <3>4. a \in 0 .. 7 /\ e \in 0 .. 7
      BY <2>1, <3>3 DEF Byte
    <3>5. e \notin d[k + 1]
      <4> SUFFICES ASSUME e \in d[k + 1] PROVE FALSE
        OBVIOUS
      <4>1. (8 * (k + 1) - e) - (8 * k - a) <= 7
        BY <2>1
      <4> QED  BY <2>1, <3>2, <3>4, <4>1
    <3>6. e \in E[k + 1]
      BY <2>2, <2>4, <3>5, InXor
    <3>7. k \in 1 .. (k + 1) - 1
      BY <2>1
    <3> QED  BY <2>4, <3>6, <3>7
  <2>5. ASSUME since(k) PROVE since(k + 1)
    <3>1. PICK j \in 1 .. k - 1 : d[j] # {}
      BY <2>5
    <3>2. PICK y \in d[j] : TRUE
      BY <3>1
    <3>3. j \in 1 .. l /\ y \in 0 .. 7
      <4>1. j \in 1 .. l
        BY <2>1
      <4>2. d[j] \in Byte
        BY <4>1
      <4> QED  BY <4>1, <4>2 DEF Byte
    <3>4. d[k + 1] = {}
      <4> SUFFICES ASSUME NEW x \in d[k + 1] PROVE FALSE
        OBVIOUS
      <4>1. x \in 0 .. 7
        BY <2>1 DEF Byte
      <4>2. (8 * (k + 1) - x) - (8 * j - y) <= 7
        BY <2>1, <3>3
      <4> QED  BY <2>1, <3>1, <3>3, <4>1, <4>2
    <3>5. E[k + 1] = neoRADIO2CRC8_Init[E[k]]
      BY <2>2, <3>4, XorLaws
    <3>6. E[k + 1] # {}
      BY <2>1, <2>5, <3>5, EntryReachesDown
    <3>7. j \in 1 .. (k + 1) - 1
      BY <2>1
    <3> QED  BY <3>1, <3>6, <3>7
  <2> HIDE DEF none, first, since
  <2> QED  BY <1>2, <2>3, <2>4, <2>5
<1>3. S = Nat
  <2>1. ASSUME NEW k \in S PROVE k + 1 \in S
    <3> SUFFICES ASSUME (k + 1) + 1 <= l PROVE I((k + 1) + 1)
      OBVIOUS
    <3>1. k + 1 \in 1 .. l - 1 /\ I(k + 1)
      <4> HIDE DEF I
      <4> QED  OBVIOUS
    <3> HIDE DEF I, S
    <3> QED  BY <1>2, <3>1
  <2>2. S \subseteq Nat
    OBVIOUS
  <2> HIDE DEF S
  <2> QED  BY <1>1, <2>1, <2>2, Induction
<1>4. I(l)
  <2>1. l - 1 \in Nat /\ (l - 1) + 1 = l /\ l - 1 + 1 <= l
    OBVIOUS
  <2> HIDE DEF I
  <2>2. l - 1 \in S
    <3> HIDE DEF S
    <3> QED  BY <1>3, <2>1
  <2> QED  BY <2>1, <2>2
<1> QED  BY <1>4

LEMMA FrameFacts ==
  ASSUME NEW t \in Threads, NEW f \in Frames[t]
  PROVE  /\ f.sent \in Seq(Byte) /\ f.bytes \in Seq(Byte)
         /\ Len(f.sent) \in Nat \ {0} /\ Len(f.bytes) = Len(f.sent)
         /\ f.sent[Len(f.sent)] = Division(f.sent, Len(f.sent) - 1)
         /\ Burst(f)
<1>1. /\ f.sent \in Seq(Byte) /\ f.bytes \in Seq(Byte) /\ f.sent # <<>>
      /\ Len(f.bytes) = Len(f.sent) /\ Whole(f.sent) /\ Burst(f)
  BY Crc8Assumption
<1>2. f.sent[Len(f.sent)] = Division(f.sent, Len(f.sent) - 1)
  BY <1>1 DEF Whole
<1>3. Len(f.sent) \in Nat \ {0}
  BY <1>1
<1> QED  BY <1>1, <1>2, <1>3

\* The remainder of a frame's bytes is its last byte if and only if the frame was
\* not damaged.
LEMMA RemainderTellsDamage ==
  ASSUME NEW t \in Threads, NEW f \in Frames[t]
  PROVE  Division(f.bytes, Len(f.bytes) - 1) = f.bytes[Len(f.bytes)] <=> ~Damaged(f)
<1>1. PICK s \in Seq(Byte), b \in Seq(Byte), l \in Nat \ {0} :
        /\ s = f.sent /\ b = f.bytes /\ l = Len(s)
  BY FrameFacts
<1>2. Len(b) = l /\ Len(s) = l /\ s[l] = Division(s, l - 1) /\ Burst(f)
  BY <1>1, FrameFacts
<1>3. \A k \in 1 .. l : s[k] \in Byte /\ b[k] \in Byte
  BY <1>2
<1>4. \A k \in 0 .. l : Division(s, k) \in Byte /\ Division(b, k) \in Byte
  BY <1>2, DivisionByBytes
<1> DEFINE D(k) == Division(s, k) ^^ Division(b, k)
           d == [k \in 1 .. l |-> s[k] ^^ b[k]]
           E == [k \in 1 .. l |-> D(k - 1) ^^ d[k]]
<1>5. d \in [1 .. l -> Byte] /\ \A k \in 1 .. l : d[k] = s[k] ^^ b[k]
  BY <1>3, XorBytes
<1>6. \A k \in 0 .. l : D(k) \in Byte
  BY <1>4, XorBytes
<1>7. \A k \in 1 .. l : E[k] = D(k - 1) ^^ d[k] /\ E[k] \in Byte
  <2> SUFFICES ASSUME NEW k \in 1 .. l PROVE E[k] = D(k - 1) ^^ d[k] /\ E[k] \in Byte
    OBVIOUS
  <2>1. k - 1 \in 0 .. l
    OBVIOUS
  <2>2. D(k - 1) \in Byte /\ d[k] \in Byte
    BY <1>5, <1>6, <2>1
  <2>3. E[k] = D(k - 1) ^^ d[k]
    OBVIOUS
  <2> HIDE DEF D, d, E
  <2> QED  BY <2>2, <2>3, XorBytes
<1>8. E \in [1 .. l -> Byte]
  <2>1. E = [k \in 1 .. l |-> E[k]]
    OBVIOUS
  <2> HIDE DEF E
  <2> QED  BY <1>7, <2>1
<1>9. E[1] = d[1]
  <2>1. Division(s, 0) = {} /\ Division(b, 0) = {}
    BY DivisionByBytes
  <2>2. D(0) = {}
    BY <2>1, XorLaws
  <2>3. 1 \in 1 .. l /\ 1 - 1 = 0
    OBVIOUS
  <2>4. E[1] = D(0) ^^ d[1]
    BY <1>7, <2>3
  <2> HIDE DEF D, d, E
  <2> QED  BY <2>2, <2>4, XorLaws
<1>10. \A k \in 1 .. l - 1 : E[k + 1] = neoRADIO2CRC8_Init[E[k]] ^^ d[k + 1]
  <2> SUFFICES ASSUME NEW k \in 1 .. l - 1
               PROVE  E[k + 1] = neoRADIO2CRC8_Init[E[k]] ^^ d[k + 1]
    OBVIOUS
  <2>1. PICK m \in 0 .. l - 1 : k = m + 1 /\ m = k - 1
    OBVIOUS
  <2>2. /\ m \in 0 .. Len(s) - 1 /\ m \in 0 .. Len(b) - 1 /\ m \in 0 .. l /\ k \in 1 .. l
        /\ k + 1 \in 1 .. l /\ (k + 1) - 1 = k
    BY <1>2, <2>1
  <2>3. Division(s, k) = neoRADIO2CRC8_Init[Division(s, m) ^^ s[k]]
    BY <2>1, <2>2, DivisionByBytes
  <2>4. Division(b, k) = neoRADIO2CRC8_Init[Division(b, m) ^^ b[k]]
    BY <2>1, <2>2, DivisionByBytes
  <2>5. /\ Division(s, m) \in Byte /\ Division(b, m) \in Byte /\ s[k] \in Byte /\ b[k] \in Byte
        /\ Division(s, m) ^^ s[k] \in Byte /\ Division(b, m) ^^ b[k] \in Byte
    BY <1>3, <1>4, <2>2, XorBytes
  <2>6. D(k) = neoRADIO2CRC8_Init[(Division(s, m) ^^ s[k]) ^^ (Division(b, m) ^^ b[k])]
    BY <2>3, <2>4, <2>5, TableXor
  <2>7. (Division(s, m) ^^ s[k]) ^^ (Division(b, m) ^^ b[k])
          = (Division(s, m) ^^ Division(b, m)) ^^ (s[k] ^^ b[k])
    BY XorLaws
  <2>8. E[k] = D(m) ^^ d[k] /\ d[k] = s[k] ^^ b[k]
    BY <1>5, <1>7, <2>1, <2>2
  <2>9. E[k] = (Division(s, m) ^^ Division(b, m)) ^^ (s[k] ^^ b[k])
    BY <2>8
  <2>10. D(k) = neoRADIO2CRC8_Init[E[k]]
    <3> HIDE DEF D, d, E
    <3> QED  BY <2>6, <2>7, <2>9
  <2>11. E[k + 1] = D(k) ^^ d[k + 1]
    BY <1>7, <2>2
  <2> HIDE DEF D, d, E
  <2> QED  BY <2>10, <2>11
<1>11. \A p, q \in 1 .. l : \A x \in d[p], y \in d[q] : (8 * p - x) - (8 * q - y) <= 7
  <2>1. ASSUME NEW p \in 1 .. l, NEW x \in d[p]
        PROVE  <<p, x>> \in Flipped(f)
    <3>1. d[p] = s[p] ^^ b[p] /\ d[p] \in Byte
      BY <1>5
    <3>2. x \in 0 .. 7 /\ x \in f.sent[p] ^^ f.bytes[p]
      BY <1>1, <3>1 DEF Byte
    <3>3. DOMAIN f.sent = 1 .. l
      BY <1>1, <1>2
    <3> HIDE DEF d
    <3> QED  BY <3>2, <3>3 DEF Flipped
  <2> SUFFICES ASSUME NEW p \in 1 .. l, NEW q \in 1 .. l, NEW x \in d[p], NEW y \in d[q]
               PROVE  (8 * p - x) - (8 * q - y) <= 7
    OBVIOUS
  <2>2. <<p, x>> \in Flipped(f) /\ <<q, y>> \in Flipped(f)
    BY <2>1
  <2> HIDE DEF d
  <2> QED  BY <1>2, <2>2 DEF Burst
<1>12. (\E k \in 1 .. l : d[k] # {}) => E[l] # {}
  <2> HIDE DEF d, E
  <2> QED  BY <1>5, <1>8, <1>9, <1>10, <1>11, BurstRemains
<1>13. E[l] = (s[l] ^^ Division(b, l - 1)) ^^ (s[l] ^^ b[l])
  <2>1. l \in 1 .. l
    OBVIOUS
  <2>2. E[l] = D(l - 1) ^^ d[l] /\ d[l] = s[l] ^^ b[l]
    BY <1>5, <1>7, <2>1
  <2> HIDE DEF d, E
  <2> QED  BY <1>2, <2>2
<1>14. E[l] = {} <=> Division(b, l - 1) = b[l]
  <2>1. (s[l] ^^ Division(b, l - 1)) ^^ (s[l] ^^ b[l]) = {} <=> Division(b, l - 1) = b[l]
    BY DEF ^^
  <2> HIDE DEF E
  <2> QED  BY <1>13, <2>1
<1>15. Damaged(f) <=> \E k \in 1 .. l : d[k] # {}
  <2>1. \A k \in 1 .. l : d[k] # {} <=> s[k] # b[k]
    BY <1>5, XorLaws
  <2>2. s = b <=> \A k \in 1 .. l : s[k] = b[k]
    BY <1>2
  <2> HIDE DEF d
  <2> QED  BY <1>1, <2>1, <2>2 DEF Damaged
<1>16. ASSUME ~Damaged(f) PROVE Division(b, l - 1) = b[l]
  BY <1>1, <1>2, <1>16 DEF Damaged
<1> HIDE DEF d, E
<1> QED  BY <1>1, <1>2, <1>12, <1>14, <1>15, <1>16

-----------------------------------------------------------------------------
(***************************************************************************)
(* The threads that calculate                                              *)
(***************************************************************************)

CrcTypes ==
  /\ table \in {"empty", "filling", "full"} /\ filled \subseteq Threads
  /\ calc \in [Threads -> {"none", "check", "fill", "loop"}]
  /\ DOMAIN frame = Threads /\ \A t \in Threads : calc[t] # "none" => frame[t] \in Frames[t]
  /\ i \in [Threads -> Nat] /\ crc \in [Threads -> Byte] /\ safe \in [Threads -> BOOLEAN]

\* Nobody has filled the table, or is about to, while it is empty.
TableBegun ==
  /\ \A t \in Threads : calc[t] = "fill" => table # "empty"
  /\ filled # {} => table # "empty"

\* A thread that is safe while the table is not full calculates alone: it found
\* the table empty and has filled it before it takes the first byte.
Alone(t) ==
  /\ \A u \in Others(t) : calc[u] = "none"
  /\ calc[t] = "check" => table = "empty"
  /\ calc[t] = "loop" => t \in filled
SafeAlone == \A t \in Threads : safe[t] /\ calc[t] # "none" /\ table # "full" => Alone(t)

\* What it has calculated.
Begun(t) == calc[t] \in {"check", "fill"} => i[t] = 0 /\ crc[t] = {}
Calculated(t) ==
  safe[t] /\ calc[t] = "loop" =>
    i[t] \in 0 .. DataLen(t) /\ crc[t] = Division(frame[t].bytes, i[t])

CrcInv ==
  /\ CrcTypes /\ TableBegun /\ SafeAlone
  /\ \A t \in Threads : Begun(t) /\ Calculated(t)

LEMMA CrcStart == CrcInit => CrcInv
<1> SUFFICES ASSUME CrcInit PROVE CrcInv
  OBVIOUS
<1>1. CrcTypes
  BY ZeroStays DEF CrcInit, CrcTypes
<1>2. TableBegun
  BY DEF CrcInit, TableBegun
<1>3. SafeAlone
  BY DEF CrcInit, SafeAlone
<1>4. \A t \in Threads : Begun(t) /\ Calculated(t)
  BY DEF CrcInit, Begun, Calculated
<1> QED  BY <1>1, <1>2, <1>3, <1>4 DEF CrcInv

\* A thread that may trust the table reads the entry (PacketHandler.c:544-550).
LEMMA ReadIsRight ==
  ASSUME CrcInv, NEW t \in Threads, safe[t], calc[t] = "loop", NEW k, NEW x \in Read(t, k)
  PROVE  x = neoRADIO2CRC8_Init[k]
<1>1. table = "full" \/ t \in filled
  BY DEF CrcInv, SafeAlone, Alone
<1> QED  BY <1>1 DEF Read

LEMMA CallKeepsCrcInv ==
  ASSUME CrcInv, NEW t \in Threads, Call(t)
  PROVE  CrcInv'
<1> USE DEF Call
<1>1. PICK f \in Frames[t] : frame' = [frame EXCEPT ![t] = f]
  OBVIOUS
<1>2. CrcTypes'
  BY <1>1, ZeroStays DEF CrcInv, CrcTypes
<1>3. TableBegun'
  BY DEF CrcInv, CrcTypes, TableBegun
<1>4. ASSUME NEW u \in Threads, safe[u]', calc[u]' # "none", table # "full" PROVE Alone(u)'
  <2>1. CASE u = t
    <3>1. table = "empty" /\ \A v \in Others(t) : calc[v] = "none"
      BY <1>4, <2>1
    <3>2. \A v \in Others(t) : calc'[v] = calc[v]
      BY DEF CrcInv, CrcTypes, Others
    <3>3. calc'[t] = "check"
      BY DEF CrcInv, CrcTypes
    <3> QED  BY <2>1, <3>1, <3>2, <3>3 DEF Alone, Others
  <2>2. CASE u # t
    BY <1>4, <2>2
  <2> QED  BY <2>1, <2>2
<1>5. SafeAlone'
  BY <1>4 DEF SafeAlone
<1>6. \A u \in Threads : (Begun(u) /\ Calculated(u))'
  <2> SUFFICES ASSUME NEW u \in Threads PROVE (Begun(u) /\ Calculated(u))'
    OBVIOUS
  <2>1. CASE u = t
    <3>1. calc'[u] = "check" /\ i'[u] = 0 /\ crc'[u] = {}
      BY <2>1 DEF CrcInv, CrcTypes
    <3> QED  BY <3>1 DEF Begun, Calculated
  <2>2. CASE u # t
    <3>1. /\ calc'[u] = calc[u] /\ i'[u] = i[u] /\ crc'[u] = crc[u] /\ frame'[u] = frame[u]
          /\ safe'[u] => safe[u]
      BY <1>1, <2>2 DEF CrcInv, CrcTypes
    <3> QED  BY <3>1 DEF CrcInv, Begun, Calculated, DataLen
  <2> QED  BY <2>1, <2>2
<1> QED  BY <1>2, <1>3, <1>5, <1>6 DEF CrcInv

LEMMA CheckKeepsCrcInv ==
  ASSUME CrcInv, NEW t \in Threads, Check(t)
  PROVE  CrcInv'
<1>1. PICK x \in Read(t, {0}) :
        IF x # CRC_POLYNIMIAL
        THEN /\ calc' = [calc EXCEPT ![t] = "fill"]
             /\ table' = IF table = "empty" THEN "filling" ELSE table
        ELSE calc' = [calc EXCEPT ![t] = "loop"] /\ UNCHANGED table
  BY DEF Check
<1>2. calc[t] = "check" /\ UNCHANGED <<filled, frame, i, crc, safe>>
  BY DEF Check
<1>3. CrcTypes'
  BY <1>1, <1>2 DEF CrcInv, CrcTypes
<1>4. TableBegun'
  BY <1>1, <1>2 DEF CrcInv, CrcTypes, TableBegun
<1>5. ASSUME NEW u \in Threads, safe'[u], calc'[u] # "none", table' # "full" PROVE Alone(u)'
  <2>1. safe[u] /\ table # "full"
    BY <1>1, <1>2, <1>5
  <2>2. CASE u # t
    <3>1. calc[u] # "none" /\ t \in Others(u)
      BY <1>1, <1>5, <2>2 DEF CrcInv, CrcTypes, Others
    <3> QED  BY <1>2, <2>1, <3>1 DEF CrcInv, SafeAlone, Alone
  <2>3. CASE u = t
    <3>1. table = "empty" /\ \A v \in Others(t) : calc[v] = "none"
      BY <1>2, <2>1, <2>3 DEF CrcInv, SafeAlone, Alone
    <3>2. x = {}
      BY <3>1 DEF CrcInv, TableBegun, Read
    <3>3. calc' = [calc EXCEPT ![t] = "fill"]
      BY <1>1, <3>2, Crc8Assumption
    <3>4. calc'[t] = "fill" /\ \A v \in Others(t) : calc'[v] = calc[v]
      BY <3>3 DEF CrcInv, CrcTypes, Others
    <3> QED  BY <2>3, <3>1, <3>4 DEF Alone, Others
  <2> QED  BY <2>2, <2>3
<1>6. SafeAlone'
  BY <1>5 DEF SafeAlone
<1>7. \A u \in Threads : (Begun(u) /\ Calculated(u))'
  <2> SUFFICES ASSUME NEW u \in Threads PROVE (Begun(u) /\ Calculated(u))'
    OBVIOUS
  <2>1. CASE u = t
    <3>1. i'[u] = 0 /\ crc'[u] = {} /\ frame'[u] \in Frames[u]
      BY <1>2, <2>1 DEF CrcInv, CrcTypes, Begun
    <3>2. 0 \in 0 .. DataLen(u)' /\ Division(frame'[u].bytes, 0) = {}
      BY <3>1, FrameFacts, DivisionByBytes DEF DataLen
    <3> QED  BY <3>1, <3>2 DEF Begun, Calculated
  <2>2. CASE u # t
    <3>1. calc'[u] = calc[u]
      BY <1>1, <2>2 DEF CrcInv, CrcTypes
    <3> QED  BY <1>2, <3>1 DEF CrcInv, Begun, Calculated, DataLen
  <2> QED  BY <2>1, <2>2
<1> QED  BY <1>3, <1>4, <1>6, <1>7 DEF CrcInv

LEMMA FillKeepsCrcInv ==
  ASSUME CrcInv, NEW t \in Threads, FillEnds(t)
  PROVE  CrcInv'
<1> USE DEF FillEnds
<1>1. CrcTypes'
  BY DEF CrcInv, CrcTypes
<1>2. TableBegun'
  BY DEF CrcInv, CrcTypes, TableBegun
<1>3. ASSUME NEW u \in Threads, safe[u], calc'[u] # "none", table # "full" PROVE Alone(u)'
  <2>1. calc[u] # "none"
    BY <1>3 DEF CrcInv, CrcTypes
  <2>2. Alone(u)
    BY <1>3, <2>1 DEF CrcInv, SafeAlone
  <2>3. u = t
    BY <2>2 DEF Alone, Others
  <2>4. calc'[t] = "loop" /\ \A v \in Others(t) : calc'[v] = calc[v]
    BY DEF CrcInv, CrcTypes, Others
  <2> QED  BY <2>2, <2>3, <2>4 DEF Alone, Others
<1>4. SafeAlone'
  BY <1>3 DEF SafeAlone
<1>5. \A u \in Threads : (Begun(u) /\ Calculated(u))'
  <2> SUFFICES ASSUME NEW u \in Threads PROVE (Begun(u) /\ Calculated(u))'
    OBVIOUS
  <2>1. CASE u = t
    <3>1. i'[u] = 0 /\ crc'[u] = {} /\ frame'[u] \in Frames[u] /\ calc'[u] = "loop"
      BY <2>1 DEF CrcInv, CrcTypes, Begun
    <3>2. 0 \in 0 .. DataLen(u)' /\ Division(frame'[u].bytes, 0) = {}
      BY <3>1, FrameFacts, DivisionByBytes DEF DataLen
    <3> QED  BY <3>1, <3>2 DEF Begun, Calculated
  <2>2. CASE u # t
    <3>1. calc'[u] = calc[u]
      BY <2>2 DEF CrcInv, CrcTypes
    <3> QED  BY <3>1 DEF CrcInv, Begun, Calculated, DataLen
  <2> QED  BY <2>1, <2>2
<1> QED  BY <1>1, <1>2, <1>4, <1>5 DEF CrcInv

LEMMA FeedKeepsCrcInv ==
  ASSUME CrcInv, NEW t \in Threads, Feed(t)
  PROVE  CrcInv'
<1>1. /\ calc[t] = "loop" /\ i[t] < DataLen(t) /\ i' = [i EXCEPT ![t] = @ + 1]
      /\ UNCHANGED <<table, filled, calc, frame, safe>>
  BY DEF Feed
<1>2. PICK x \in Read(t, Index(crc[t], frame[t].bytes[i[t] + 1])) : crc' = [crc EXCEPT ![t] = x]
  BY DEF Feed
<1>3. PICK b \in Seq(Byte) : b = frame[t].bytes /\ Len(b) \in Nat \ {0}
  BY <1>1, FrameFacts DEF CrcInv, CrcTypes
<1>4. i[t] \in 0 .. Len(b) - 1 /\ i[t] + 1 \in 1 .. Len(b) /\ DataLen(t) = Len(b) - 1
  BY <1>1, <1>3 DEF CrcInv, CrcTypes, DataLen
<1>5. Index(crc[t], b[i[t] + 1]) \in Byte
  BY <1>3, <1>4, XorBytes DEF CrcInv, CrcTypes, Index
<1>6. x \in Byte
  BY <1>2, <1>3, <1>5, EntryIsTurns, ZeroStays DEF Read
<1>7. CrcTypes'
  BY <1>1, <1>2, <1>6 DEF CrcInv, CrcTypes
<1>8. TableBegun' /\ SafeAlone'
  BY <1>1 DEF CrcInv, TableBegun, SafeAlone, Alone
<1>9. \A u \in Threads : (Begun(u) /\ Calculated(u))'
  <2> SUFFICES ASSUME NEW u \in Threads PROVE (Begun(u) /\ Calculated(u))'
    OBVIOUS
  <2>1. ASSUME u = t PROVE Calculated(u)'
    <3> SUFFICES ASSUME safe[t]
                 PROVE  /\ i'[t] \in 0 .. DataLen(t)
                        /\ crc'[t] = Division(b, i'[t])
      BY <1>1, <1>3, <2>1 DEF Calculated, DataLen
    <3>1. i'[t] = i[t] + 1 /\ crc'[t] = x
      BY <1>1, <1>2 DEF CrcInv, CrcTypes
    <3>2. crc[t] = Division(b, i[t])
      BY <1>1, <1>3 DEF CrcInv, Calculated
    <3>3. x = neoRADIO2CRC8_Init[Index(crc[t], b[i[t] + 1])]
      BY <1>1, <1>2, <1>3, ReadIsRight
    <3>4. Division(b, i[t] + 1) = neoRADIO2CRC8_Init[Division(b, i[t]) ^^ b[i[t] + 1]]
      BY <1>4, DivisionByBytes
    <3>5. i[t] + 1 \in 0 .. DataLen(t)
      BY <1>1, <1>4
    <3> QED  BY <3>1, <3>2, <3>3, <3>4, <3>5 DEF Index
  <2>2. ASSUME u = t PROVE Begun(u)'
    BY <1>1, <2>2 DEF Begun
  <2>3. ASSUME u # t PROVE (Begun(u) /\ Calculated(u))'
    <3>1. i'[u] = i[u] /\ crc'[u] = crc[u]
      BY <1>1, <1>2, <2>3 DEF CrcInv, CrcTypes
    <3> QED  BY <1>1, <3>1 DEF CrcInv, Begun, Calculated, DataLen
  <2> QED  BY <2>1, <2>2, <2>3
<1> QED  BY <1>7, <1>8, <1>9 DEF CrcInv

LEMMA ReturnKeepsCrcInv ==
  ASSUME CrcInv, NEW t \in Threads, Return(t)
  PROVE  CrcInv'
<1> USE DEF Return
<1>1. CrcTypes'
  BY ZeroStays DEF CrcInv, CrcTypes
<1>2. TableBegun'
  BY DEF CrcInv, CrcTypes, TableBegun
<1>3. \A u \in Threads : u # t =>
        /\ calc'[u] = calc[u] /\ i'[u] = i[u] /\ crc'[u] = crc[u] /\ frame'[u] = frame[u]
        /\ safe'[u] = safe[u]
  BY DEF CrcInv, CrcTypes
<1>4. calc'[t] = "none"
  BY DEF CrcInv, CrcTypes
<1>5. SafeAlone'
  <2> SUFFICES ASSUME NEW u \in Threads, safe'[u], calc'[u] # "none", table # "full"
               PROVE  Alone(u)'
    BY DEF SafeAlone
  <2>1. u # t /\ Alone(u)
    BY <1>3, <1>4 DEF CrcInv, SafeAlone
  <2>2. \A v \in Others(u) : calc'[v] = "none"
    BY <1>3, <1>4, <2>1 DEF Alone, Others
  <2> QED  BY <1>3, <2>1, <2>2 DEF Alone, Others
<1>6. \A u \in Threads : (Begun(u) /\ Calculated(u))'
  <2> SUFFICES ASSUME NEW u \in Threads PROVE (Begun(u) /\ Calculated(u))'
    OBVIOUS
  <2>1. CASE u = t
    BY <1>4, <2>1 DEF Begun, Calculated
  <2>2. CASE u # t
    BY <1>3, <2>2 DEF CrcInv, Begun, Calculated, DataLen
  <2> QED  BY <2>1, <2>2
<1> QED  BY <1>1, <1>2, <1>5, <1>6 DEF CrcInv

LEMMA SettleKeepsCrcInv ==
  ASSUME CrcInv, Settle
  PROVE  CrcInv'
<1> USE DEF Settle
<1>1. CrcTypes' /\ TableBegun' /\ SafeAlone'
  BY DEF CrcInv, CrcTypes, TableBegun, SafeAlone
<1>2. \A u \in Threads : (Begun(u) /\ Calculated(u))'
  BY DEF CrcInv, Begun, Calculated, DataLen
<1> QED  BY <1>1, <1>2 DEF CrcInv

LEMMA CrcUnchanged ==
  ASSUME CrcInv, UNCHANGED crcVars
  PROVE  CrcInv'
<1>1. UNCHANGED <<table, filled, calc, frame, i, crc, safe>>
  BY DEF crcVars
<1>2. CrcTypes' /\ TableBegun'
  BY <1>1 DEF CrcInv, CrcTypes, TableBegun
<1>3. SafeAlone'
  BY <1>1 DEF CrcInv, SafeAlone, Alone
<1>4. \A u \in Threads : (Begun(u) /\ Calculated(u))'
  BY <1>1 DEF CrcInv, Begun, Calculated, DataLen
<1> QED  BY <1>2, <1>3, <1>4 DEF CrcInv

LEMMA CrcInvHolds == Spec => []CrcInv
<1>1. Init => CrcInv
  BY CrcStart DEF Init
<1>2. ASSUME CrcInv, [Next]_<<crcVars, envVars>> PROVE CrcInv'
  <2>1. ASSUME NEW t \in Threads, CalcCRC8(t) PROVE CrcInv'
    <3>1. CASE Call(t)
      BY <1>2, <3>1, CallKeepsCrcInv
    <3>2. CASE Check(t)
      BY <1>2, <3>2, CheckKeepsCrcInv
    <3>3. CASE FillEnds(t)
      BY <1>2, <3>3, FillKeepsCrcInv
    <3>4. CASE Feed(t)
      BY <1>2, <3>4, FeedKeepsCrcInv
    <3>5. CASE Return(t)
      BY <1>2, <3>5, ReturnKeepsCrcInv
    <3> QED  BY <2>1, <3>1, <3>2, <3>3, <3>4, <3>5 DEF CalcCRC8
  <2>2. CASE Settle
    BY <1>2, <2>2, SettleKeepsCrcInv
  <2>3. CASE UNCHANGED crcVars
    BY <1>2, <2>3, CrcUnchanged
  <2> QED  BY <1>2, <2>1, <2>2, <2>3 DEF Next
<1> QED  BY <1>1, <1>2, PTL DEF Spec

\* A thread that begins when the table is full, or has it for itself, gets the
\* remainder of its bytes, for any number of threads and frames of any length
\* (PacketHandler.c:542-567).
THEOREM IsDivisionHolds == Spec => []IsDivision
<1>1. CrcInv => IsDivision
  BY DEF CrcInv, Calculated, IsDivision
<1> QED  BY <1>1, CrcInvHolds, PTL

\* With any polynomial that has the term 1 a frame of any length, damaged in at
\* most eight bits in a row, is not accepted, and a whole one is, except in a
\* race (PacketHandler.c:297).
THEOREM DamageFoundHolds == Spec => []DamageFound
<1>1. ASSUME CrcInv PROVE DamageFound
  <2> SUFFICES ASSUME NEW t \in Threads, safe[t], Ended(t)
               PROVE  Accepts(t) <=> ~Damaged(frame[t])
    BY DEF DamageFound
  <2>1. frame[t] \in Frames[t] /\ i[t] = DataLen(t) /\ crc[t] = Division(frame[t].bytes, i[t])
    BY <1>1 DEF CrcInv, CrcTypes, Calculated, Ended
  <2>2. DataLen(t) + 1 = Len(frame[t].bytes) /\ DataLen(t) = Len(frame[t].bytes) - 1
    BY <2>1, FrameFacts DEF DataLen
  <2>3. Division(frame[t].bytes, Len(frame[t].bytes) - 1) = frame[t].bytes[Len(frame[t].bytes)]
          <=> ~Damaged(frame[t])
    BY <2>1, RemainderTellsDamage
  <2> QED  BY <2>1, <2>2, <2>3 DEF Accepts
<1> QED  BY <1>1, CrcInvHolds, PTL

-----------------------------------------------------------------------------
(***************************************************************************)
(* EnvInfos                                                                *)
(***************************************************************************)

\* Only one thread holds the mutex, and while a thread is between looking for its
\* entry and leaving the map is what it was when the thread looked.
EnvInv ==
  /\ at \in [Threads -> {"none", "lock", "find", "make", "insert", "unlock"}]
  /\ mtx \subseteq Threads /\ \A t, u \in mtx : t = u
  /\ envInfos \in [Threads -> Nat] /\ ret \in [Threads -> Nat] /\ made \in [Threads -> Nat]
  /\ met \in [Threads -> [Threads -> Nat]]
  /\ \A t \in Threads :
       /\ t \in mtx <=> at[t] \in {"find", "make", "insert", "unlock"}
       /\ made[t] <= 1
       /\ at[t] \in {"none", "lock", "find", "make", "unlock"} => envInfos[t] = made[t]
       /\ at[t] \in {"none", "lock", "find", "unlock"} => ret[t] = made[t]
       /\ at[t] = "make" => made[t] = 0
       /\ at[t] = "insert" => met[t] = envInfos /\ made[t] = 1

LEMMA EnvStart == EnvInit => EnvInv
BY DEF EnvInit, EnvInv, NoEntries

\* A step of one thread leaves what the invariant says of the others.
LEMMA EnvStep ==
  ASSUME EnvInv, NEW t \in Threads, getEnvInfo(t)
  PROVE  EnvInv'
<1> USE DEF EnvInv
<1>1. CASE Enter(t)
  BY <1>1 DEF Enter
<1>2. CASE Lock(t)
  BY <1>2 DEF Lock, Locked
<1>3. CASE Find(t)
  BY <1>3 DEF Find
<1>4. CASE Make(t)
  BY <1>4 DEF Make
<1>5. CASE Insert(t)
  BY <1>5 DEF Insert, NoEntries
<1>6. CASE Unlock(t)
  BY <1>6 DEF Unlock
<1> QED  BY <1>1, <1>2, <1>3, <1>4, <1>5, <1>6 DEF getEnvInfo

LEMMA EnvUnchanged ==
  ASSUME EnvInv, UNCHANGED envVars
  PROVE  EnvInv'
BY DEF EnvInv, envVars

\* Any number of threads, whatever else they do: each makes one entry at most and
\* keeps it (neoRADIO2_jni.cpp:63-83).
THEOREM EnvOnceHolds == Spec => []EnvOnce
<1>1. Init => EnvInv
  BY EnvStart DEF Init
<1>2. ASSUME EnvInv, [Next]_<<crcVars, envVars>> PROVE EnvInv'
  <2>1. CASE \E t \in Threads : getEnvInfo(t)
    BY <1>2, <2>1, EnvStep
  <2>2. CASE UNCHANGED envVars
    BY <1>2, <2>2, EnvUnchanged
  <2> QED  BY <1>2, <2>1, <2>2 DEF Next
<1>3. EnvInv => EnvOnce
  BY DEF EnvInv, EnvOnce
<1> QED  BY <1>1, <1>2, <1>3, PTL DEF Spec

-----------------------------------------------------------------------------
(***************************************************************************)
(* neoRADIO2SerialToString                                                 *)
(***************************************************************************)

\* The characters written so far are the last digits of the number.
DigitsInv ==
  /\ number \in Nat /\ serial \in Nat /\ place \in -1 .. 5
  /\ DOMAIN string = 0 .. 5
  /\ \A k \in 0 .. 5 : k > place => string[k] \in Digits \cup Letters
  /\ number = serial * Weight(place) + Value

\* A remainder is written as a character that stands for it, never as a blank
\* (neoRAD-IO2.c:220-225).
LEMMA CharacterIsDigit ==
  ASSUME NEW d \in 0 .. 35
  PROVE  /\ Character(d) \in Digits \cup Letters
         /\ Digit(Character(d)) = d
BY DEF Character, Digit, Digits, Letters

\* A character stands for one of the values of a digit.
LEMMA DigitRange ==
  ASSUME NEW c \in Digits \cup Letters
  PROVE  Digit(c) \in 0 .. 35
BY DEF Digit, Digits, Letters

\* What a division by 36 leaves (neoRAD-IO2.c:217-218).
LEMMA DivMod ==
  ASSUME NEW n \in Nat
  PROVE  /\ n \div 36 \in Nat /\ n % 36 \in 0 .. 35
         /\ n = 36 * (n \div 36) + (n % 36)
OBVIOUS

\* Weights grow by 36 from each character to the one before it.
LEMMA WeightGrows ==
  ASSUME NEW k \in 0 .. 5
  PROVE  Weight(k) \in Nat /\ Weight(k - 1) = 36 * Weight(k)
BY DEF Weight, Count

\* The arithmetic of a turn.
LEMMA Distributes ==
  ASSUME NEW q \in Int, NEW d \in Int, NEW w \in Int, NEW v \in Int
  PROVE  (36 * q + d) * w + v = q * (36 * w) + (v + w * d)
OBVIOUS

\* A turn of the loop writes one digit and leaves the rest.
LEMMA StepKeepsDigits == DigitsInv /\ Step => DigitsInv'
<1> SUFFICES ASSUME DigitsInv, Step PROVE DigitsInv'
  OBVIOUS
<1> DEFINE d == serial % 36
           q == serial \div 36
<1>1. q \in Nat /\ d \in 0 .. 35 /\ serial = 36 * q + d
  BY DivMod DEF DigitsInv
<1>2. Character(d) \in Digits \cup Letters /\ Digit(Character(d)) = d
  BY <1>1, CharacterIsDigit
<1>3. /\ string'[place] = Character(d)
      /\ \A k \in 0 .. 5 : k # place => string'[k] = string[k]
      /\ DOMAIN string' = 0 .. 5
  BY DEF DigitsInv, Step
<1>4. place \in 0 .. 5 /\ place' = place - 1 /\ serial' = q /\ number' = number
  BY DEF DigitsInv, Step
<1>5. \A k \in 0 .. 5 : k > place' => string'[k] \in Digits \cup Letters
  BY <1>2, <1>3, <1>4 DEF DigitsInv
<1>6. number' = serial' * Weight(place') + Value'
  <2>1. \A k \in 0 .. 5 : Part(k) \in Int
    BY WeightGrows, DigitRange DEF DigitsInv, Part
  <2>2. \A k \in 0 .. 5 : Part(k)' = IF k = place THEN Weight(place) * d ELSE Part(k)
    BY <1>2, <1>3, <1>4 DEF DigitsInv, Part
  <2>3. Part(place) = 0
    BY <1>4 DEF Part
  <2>4. Weight(place) * d \in Int
    <3>1. Weight(place) \in Int
      BY <1>4, WeightGrows
    <3> HIDE DEF d
    <3> QED
      BY <1>1, <3>1
  <2>5. Value \in Int /\ Value' = Value + Weight(place) * d
    <3> HIDE DEF d
    <3> QED
      BY <1>4, <2>1, <2>2, <2>3, <2>4 DEF Value
  <2>6. number = (36 * q + d) * Weight(place) + Value
    BY <1>1 DEF DigitsInv
  <2>7. Weight(place) \in Nat /\ Weight(place') = 36 * Weight(place)
    BY <1>4, WeightGrows
  <2> HIDE DEF d, q
  <2>8. (36 * q + d) * Weight(place) + Value = q * (36 * Weight(place)) + (Value + Weight(place) * d)
    BY <1>1, <2>5, <2>7, Distributes
  <2> QED
    BY <1>4, <2>5, <2>6, <2>7, <2>8
<1> QED
  BY <1>1, <1>3, <1>4, <1>5, <1>6 DEF DigitsInv

\* At the end the digits are those of the number, or of its rest modulo 36^6.
LEMMA DigitsMeanNumber == DigitsInv => StringIsNumber
<1> SUFFICES ASSUME DigitsInv, place = -1 PROVE StringIsNumber
  BY DEF StringIsNumber
<1>1. \A k \in 0 .. 5 : string[k] \in Digits \cup Letters
  BY DEF DigitsInv
<1>2. \A k \in 0 .. 5 : Digit(string[k]) \in 0 .. 35
  BY <1>1, DigitRange
<1>3. Value \in Int /\ 0 <= Value /\ Value < Count
  <2> DEFINE D(k) == Digit(string[k])
  <2>1. Value = 36 * 36 * 36 * 36 * 36 * D(0) + 36 * 36 * 36 * 36 * D(1)
                + 36 * 36 * 36 * D(2) + 36 * 36 * D(3) + 36 * D(4) + D(5)
    BY <1>2 DEF Value, Part, Weight
  <2> HIDE DEF D
  <2>2. \A k \in 0 .. 5 : D(k) \in 0 .. 35
    BY <1>2 DEF D
  <2> QED
    <3> DEFINE a == D(0) b == D(1) c == D(2) e == D(3) f == D(4) g == D(5)
    <3>1. /\ a \in 0 .. 35 /\ b \in 0 .. 35 /\ c \in 0 .. 35
          /\ e \in 0 .. 35 /\ f \in 0 .. 35 /\ g \in 0 .. 35
      BY <2>2
    <3> HIDE DEF a, b, c, e, f, g
    <3> DEFINE v == 36 * 36 * 36 * 36 * 36 * a + 36 * 36 * 36 * 36 * b
                    + 36 * 36 * 36 * c + 36 * 36 * e + 36 * f + g
    <3>2. v \in Int /\ 0 <= v /\ v < Count
      BY <3>1 DEF Count
    <3> QED
      BY <2>1, <3>2 DEF a, b, c, e, f, g
<1>4. number = serial * Count + Value
  BY DEF DigitsInv, Weight
<1>5. Value = number % Count
  <2>1. serial \in Nat /\ Count \in Nat \ {0}
    BY DEF DigitsInv, Count
  <2> HIDE DEF Count
  <2> QED
    BY <1>3, <1>4, <2>1
<1> QED
  BY <1>1, <1>5 DEF StringIsNumber

\* For every serial number: six digits or capital letters that stand for it, or for
\* its rest modulo 36^6 (neoRAD-IO2.c:213-227).
THEOREM StringIsNumberHolds == SerialSpec => []StringIsNumber
<1>1. SerialInit => DigitsInv
  <2> SUFFICES ASSUME SerialInit PROVE DigitsInv
    OBVIOUS
  <2>1. Value = 0
    BY DEF SerialInit, Value, Part
  <2>2. Weight(place) = 1
    BY DEF SerialInit, Weight
  <2> QED
    BY <2>1, <2>2 DEF SerialInit, DigitsInv, Digits, Letters
<1>2. DigitsInv /\ [Step]_vars => DigitsInv'
  <2>1. DigitsInv /\ UNCHANGED vars => DigitsInv'
    BY DEF DigitsInv, vars, Value, Part
  <2> QED
    BY <2>1, StepKeepsDigits
<1>3. DigitsInv => StringIsNumber
  BY DigitsMeanNumber
<1> QED
  BY <1>1, <1>2, <1>3, PTL DEF SerialSpec
=============================================================================
