---------------------------- MODULE Session_proofs ----------------------------
(***************************************************************************)
(* The session, for any chain, any number of parts and any images, with    *)
(* any number of connections, requests, edits, losses and early calls.     *)
(***************************************************************************)
EXTENDS Session, SequenceTheorems, FiniteSetTheorems, TLAPS

-----------------------------------------------------------------------------
(***************************************************************************)
(* Slots, masks and the order of the slots                                 *)
(***************************************************************************)

LEMMA ConstantFacts ==
  /\ MaxDevices \in 1 .. 8 /\ NumParts \in Nat /\ StartDelay \in Nat
  /\ TxMax \in Nat \ {0} /\ LastOfChain \in 0 .. MaxDevices - 1
  /\ 0 \in DOMAIN BanksOf
  /\ \A t \in DOMAIN BanksOf : BanksOf[t] \in 1 .. MaxDevices /\ BanksOf[t] \in {1, BanksOf[0]}
  /\ InBootloader \subseteq Banks /\ Banks \subseteq Slots
  /\ Images \subseteq [Parts -> Nat] /\ ZeroImage \in Images
  /\ Parts = 0 .. NumParts /\ 0 \in Parts /\ NumParts \in Parts
BY SessionAssumption DEF Banks, Parts

\* A slot is a pair of numbers below eight.
LEMMA SlotFields ==
  ASSUME NEW p \in Slots
  PROVE  /\ p[1] \in 0 .. 7 /\ p[2] \in 0 .. 7 /\ p = <<p[1], p[2]>>
         /\ p[1] < MaxDevices /\ p[2] < MaxDevices
BY ConstantFacts DEF Slots

\* The masks of the banks: none stands for two banks.
LEMMA MaskOf == \A b \in 0 .. 7 : GetBankPos(2 ^ b) = b
<1>1. /\ 2^0 = 1 /\ 2^1 = 2 /\ 2^2 = 4 /\ 2^3 = 8
      /\ 2^4 = 16 /\ 2^5 = 32 /\ 2^6 = 64 /\ 2^7 = 128
  OBVIOUS
<1>2. \A a, b \in 0 .. 7 : 2 ^ a = 2 ^ b => a = b
  <2> DEFINE m == [b \in 0 .. 7 |-> 2 ^ b]
  <2>1. /\ m[0] = 1 /\ m[1] = 2 /\ m[2] = 4 /\ m[3] = 8
        /\ m[4] = 16 /\ m[5] = 32 /\ m[6] = 64 /\ m[7] = 128
    BY <1>1
  <2>2. \A b \in 0 .. 7 : m[b] = 2 ^ b
    OBVIOUS
  <2> HIDE DEF m
  <2>3. \A a \in 0 .. 7 : a = 0 \/ a = 1 \/ a = 2 \/ a = 3 \/ a = 4 \/ a = 5 \/ a = 6 \/ a = 7
    OBVIOUS
  <2>4. \A a, b \in 0 .. 7 : m[a] = m[b] => a = b
    BY ONLY <2>1, <2>3
  <2> QED  BY <2>2, <2>4
<1>3. \A b \in 0 .. 7 : (CHOOSE c \in 0 .. 7 : 2 ^ b = 2 ^ c) = b
  BY <1>2
<1> QED  BY <1>3 DEF GetBankPos

\* A command for a bank reaches that bank.
LEMMA TargetOf ==
  ASSUME NEW p \in Slots, NEW cmd, NEW part, NEW value
  PROVE  Target(Command(cmd, p, part, value)) = p
<1>1. GetBankPos(2 ^ p[2]) = p[2]
  BY SlotFields, MaskOf
<1>2. Command(cmd, p, part, value).device = p[1] /\ Command(cmd, p, part, value).bank = 2 ^ p[2]
  BY DEF Command, Frame
<1> QED  BY <1>1, <1>2, SlotFields DEF Target

\* Numbers below eight have a least one.
LEMMA LeastOf ==
  ASSUME NEW S, S \subseteq 0 .. 7, S # {}
  PROVE  \E m \in S : \A k \in S : m <= k
<1>1. CASE 0 \in S
  BY <1>1
<1>2. CASE {0} \cap S = {} /\ 1 \in S
  BY <1>2
<1>3. CASE {0, 1} \cap S = {} /\ 2 \in S
  BY <1>3
<1>4. CASE {0, 1, 2} \cap S = {} /\ 3 \in S
  BY <1>4
<1>5. CASE {0, 1, 2, 3} \cap S = {} /\ 4 \in S
  BY <1>5
<1>6. CASE {0, 1, 2, 3, 4} \cap S = {} /\ 5 \in S
  BY <1>6
<1>7. CASE {0, 1, 2, 3, 4, 5} \cap S = {} /\ 6 \in S
  BY <1>7
<1>8. CASE {0, 1, 2, 3, 4, 5, 6} \cap S = {} /\ 7 \in S
  BY <1>8
<1>9. \E k \in 0 .. 7 : k \in S
  OBVIOUS
<1>10. \A k \in 0 .. 7 : k = 0 \/ k = 1 \/ k = 2 \/ k = 3 \/ k = 4 \/ k = 5 \/ k = 6 \/ k = 7
  OBVIOUS
<1> QED  BY ONLY <1>1, <1>2, <1>3, <1>4, <1>5, <1>6, <1>7, <1>8, <1>9, <1>10

\* FirstOf finds a bank if there is one.
LEMMA FirstIn ==
  ASSUME NEW S, S \subseteq Slots, S # {}
  PROVE  FirstOf(S) \in S
<1>1. \A p \in S : p[1] \in 0 .. 7 /\ p[2] \in 0 .. 7
  BY SlotFields
<1>2. PICK d \in {p[1] : p \in S} : \A q \in S : d <= q[1]
  <2>1. {p[1] : p \in S} \subseteq 0 .. 7 /\ {p[1] : p \in S} # {}
    BY <1>1
  <2>2. PICK d \in {p[1] : p \in S} : \A k \in {p[1] : p \in S} : d <= k
    BY <2>1, LeastOf
  <2> QED  BY <2>2
<1>3. PICK b \in {p[2] : p \in {q \in S : q[1] = d}} : \A q \in S : q[1] = d => b <= q[2]
  <2>1. /\ {p[2] : p \in {q \in S : q[1] = d}} \subseteq 0 .. 7
        /\ {p[2] : p \in {q \in S : q[1] = d}} # {}
    BY <1>1, <1>2
  <2> QED  BY <2>1, LeastOf
<1>4. PICK p \in S : p[1] = d /\ p[2] = b
  BY <1>3
<1>5. \A q \in S : ~Before(q, p)
  BY <1>1, <1>2, <1>3, <1>4 DEF Before
<1> QED  BY <1>4, <1>5 DEF FirstOf

-----------------------------------------------------------------------------
(***************************************************************************)
(* Frames of a kind in a sequence                                          *)
(***************************************************************************)

None(s, sof, cmd) == Where(s, sof, cmd) = {}
Single(s, sof, cmd) == \A i, j \in Where(s, sof, cmd) : i = j

\* What s has t has too, and as often.
Fewer(s, t) ==
  /\ Elements(s) \subseteq Elements(t)
  /\ \A sof, cmd : Single(t, sof, cmd) => Single(s, sof, cmd)

LEMMA SeqFacts ==
  ASSUME NEW S, NEW s \in Seq(S)
  PROVE  /\ Len(s) \in Nat /\ DOMAIN s = 1 .. Len(s) /\ \A i \in 1 .. Len(s) : s[i] \in S
         /\ Elements(s) \subseteq S /\ Elements(s) = {s[i] : i \in 1 .. Len(s)}
BY LenProperties, ElementOfSeq DEF Elements

\* There is none of a kind where no element is of it.
LEMMA NoneOf ==
  ASSUME NEW s, NEW sof, NEW cmd
  PROVE  None(s, sof, cmd) <=> \A f \in Elements(s) : ~IsA(f, sof, cmd)
BY DEF None, Where, Elements

LEMMA ElementsConcat ==
  ASSUME NEW S, NEW s \in Seq(S), NEW t \in Seq(S)
  PROVE  Elements(s \o t) = Elements(s) \cup Elements(t)
<1>1. /\ Len(s) \in Nat /\ Len(t) \in Nat /\ Len(s \o t) = Len(s) + Len(t)
      /\ s \o t \in Seq(S)
      /\ \A i \in 1 .. Len(s) + Len(t) :
           (s \o t)[i] = IF i <= Len(s) THEN s[i] ELSE t[i - Len(s)]
  BY LenProperties, ConcatProperties
<1>2. /\ Elements(s) = {s[i] : i \in 1 .. Len(s)} /\ Elements(t) = {t[i] : i \in 1 .. Len(t)}
      /\ Elements(s \o t) = {(s \o t)[i] : i \in 1 .. Len(s) + Len(t)}
  BY <1>1, SeqFacts
<1>3. ASSUME NEW f \in Elements(s \o t) PROVE f \in Elements(s) \cup Elements(t)
  <2>1. PICK i \in 1 .. Len(s) + Len(t) : f = (s \o t)[i]
    BY <1>2, <1>3
  <2>2. CASE i <= Len(s)
    BY <1>1, <1>2, <2>1, <2>2
  <2>3. CASE i > Len(s)
    <3>1. i - Len(s) \in 1 .. Len(t) /\ f = t[i - Len(s)]
      BY <1>1, <2>1, <2>3
    <3> QED  BY <1>2, <3>1
  <2> QED  BY <1>1, <2>1, <2>2, <2>3
<1>4. ASSUME NEW f \in Elements(s) PROVE f \in Elements(s \o t)
  <2>1. PICK i \in 1 .. Len(s) : f = s[i]
    BY <1>2, <1>4
  <2>2. i \in 1 .. Len(s) + Len(t) /\ f = (s \o t)[i]
    BY <1>1, <2>1
  <2> QED  BY <1>2, <2>2
<1>5. ASSUME NEW f \in Elements(t) PROVE f \in Elements(s \o t)
  <2>1. PICK i \in 1 .. Len(t) : f = t[i]
    BY <1>2, <1>5
  <2>2. Len(s) + i \in 1 .. Len(s) + Len(t) /\ f = (s \o t)[Len(s) + i]
    BY <1>1, <2>1
  <2> QED  BY <1>2, <2>2
<1> QED  BY <1>3, <1>4, <1>5

LEMMA WhereConcat ==
  ASSUME NEW S, NEW s \in Seq(S), NEW t \in Seq(S), NEW sof, NEW cmd
  PROVE  /\ Where(s \o t, sof, cmd) = {} <=> Where(s, sof, cmd) = {} /\ Where(t, sof, cmd) = {}
         /\ Single(s \o t, sof, cmd) <=>
              /\ Single(s, sof, cmd) /\ Single(t, sof, cmd)
              /\ Where(s, sof, cmd) = {} \/ Where(t, sof, cmd) = {}
<1>1. /\ Len(s) \in Nat /\ Len(t) \in Nat /\ s \o t \in Seq(S)
      /\ DOMAIN s = 1 .. Len(s) /\ DOMAIN t = 1 .. Len(t)
      /\ DOMAIN (s \o t) = 1 .. Len(s) + Len(t)
      /\ \A i \in 1 .. Len(s) + Len(t) :
           (s \o t)[i] = IF i <= Len(s) THEN s[i] ELSE t[i - Len(s)]
  BY SeqFacts, ConcatProperties
<1> DEFINE A == Where(s, sof, cmd)
           B == Where(t, sof, cmd)
           C == Where(s \o t, sof, cmd)
<1>2. A \subseteq 1 .. Len(s) /\ B \subseteq 1 .. Len(t) /\ C \subseteq 1 .. Len(s) + Len(t)
  BY <1>1 DEF Where
<1>3. \A i \in A : i \in C
  <2> SUFFICES ASSUME NEW i \in A PROVE i \in C
    OBVIOUS
  <2>1. i \in 1 .. Len(s) + Len(t) /\ (s \o t)[i] = s[i]
    BY <1>1, <1>2
  <2> QED  BY <1>1, <2>1 DEF Where
<1>4. \A i \in B : Len(s) + i \in C
  <2> SUFFICES ASSUME NEW i \in B PROVE Len(s) + i \in C
    OBVIOUS
  <2>1. Len(s) + i \in 1 .. Len(s) + Len(t) /\ (s \o t)[Len(s) + i] = t[i]
    BY <1>1, <1>2
  <2> QED  BY <1>1, <2>1 DEF Where
<1>5. \A i \in C : i \in A \/ (i - Len(s) \in B /\ i > Len(s))
  <2> SUFFICES ASSUME NEW i \in C PROVE i \in A \/ (i - Len(s) \in B /\ i > Len(s))
    OBVIOUS
  <2>1. IsA((s \o t)[i], sof, cmd) /\ i \in 1 .. Len(s) + Len(t)
    BY <1>1 DEF Where
  <2>2. CASE i <= Len(s)
    <3>1. (s \o t)[i] = s[i] /\ i \in 1 .. Len(s)
      BY <1>1, <2>1, <2>2
    <3> QED  BY <1>1, <2>1, <3>1 DEF Where
  <2>3. CASE i > Len(s)
    <3>1. (s \o t)[i] = t[i - Len(s)] /\ i - Len(s) \in 1 .. Len(t)
      BY <1>1, <2>1, <2>3
    <3> QED  BY <1>1, <2>1, <2>3, <3>1 DEF Where
  <2> QED  BY <1>1, <2>1, <2>2, <2>3
<1> HIDE DEF A, B, C
<1>6. C = {} <=> A = {} /\ B = {}
  BY <1>3, <1>4, <1>5
<1>7. ASSUME \A i, j \in C : i = j
      PROVE  (\A i, j \in A : i = j) /\ (\A i, j \in B : i = j) /\ (A = {} \/ B = {})
  <2>1. \A i, j \in A : i = j
    BY <1>3, <1>7
  <2>2. \A i, j \in B : i = j
    <3> SUFFICES ASSUME NEW i \in B, NEW j \in B PROVE i = j
      OBVIOUS
    <3>1. Len(s) + i = Len(s) + j /\ i \in Nat /\ j \in Nat
      BY <1>2, <1>4, <1>7
    <3> QED  BY <1>1, <3>1
  <2>3. ASSUME NEW i \in A, NEW j \in B PROVE FALSE
    <3>1. i = Len(s) + j
      BY <1>3, <1>4, <1>7
    <3>2. i \in 1 .. Len(s) /\ j \in 1 .. Len(t)
      BY <1>2
    <3> QED  BY <1>1, <3>1, <3>2
  <2> QED  BY <2>1, <2>2, <2>3
<1>8. ASSUME \A i, j \in A : i = j, \A i, j \in B : i = j, A = {} \/ B = {}
      PROVE  \A i, j \in C : i = j
  <2> SUFFICES ASSUME NEW i \in C, NEW j \in C PROVE i = j
    OBVIOUS
  <2>1. CASE i \in A /\ j \in A
    BY <1>8, <2>1
  <2>2. CASE i - Len(s) \in B /\ j - Len(s) \in B
    <3>1. i - Len(s) = j - Len(s)
      BY <1>8, <2>2
    <3>2. i \in Nat /\ j \in Nat
      BY <1>2
    <3> QED  BY <1>1, <3>1, <3>2
  <2> QED  BY <1>5, <1>8, <2>1, <2>2
<1> QED  BY <1>6, <1>7, <1>8 DEF Single, A, B, C

LEMMA NoneConcat ==
  ASSUME NEW S, NEW s \in Seq(S), NEW t \in Seq(S), NEW sof, NEW cmd
  PROVE  None(s \o t, sof, cmd) <=> None(s, sof, cmd) /\ None(t, sof, cmd)
BY WhereConcat DEF None

LEMMA SingleConcat ==
  ASSUME NEW S, NEW s \in Seq(S), NEW t \in Seq(S), NEW sof, NEW cmd
  PROVE  Single(s \o t, sof, cmd) <=>
           /\ Single(s, sof, cmd) /\ Single(t, sof, cmd)
           /\ None(s, sof, cmd) \/ None(t, sof, cmd)
BY WhereConcat DEF None

LEMMA OneFrame ==
  ASSUME NEW S, NEW f \in S, NEW sof, NEW cmd
  PROVE  /\ <<f>> \in Seq(S) /\ Elements(<<f>>) = {f} /\ Single(<<f>>, sof, cmd)
         /\ None(<<f>>, sof, cmd) <=> ~IsA(f, sof, cmd)
<1>1. <<f>> \in Seq(S) /\ DOMAIN <<f>> = {1} /\ <<f>>[1] = f
  OBVIOUS
<1> QED  BY <1>1 DEF Elements, Single, Where, None

LEMMA NoFrames ==
  ASSUME NEW sof, NEW cmd
  PROVE  Elements(<<>>) = {} /\ Single(<<>>, sof, cmd) /\ None(<<>>, sof, cmd)
BY DEF Elements, Single, Where, None

LEMMA FewerParts ==
  ASSUME NEW S, NEW s \in Seq(S), NEW t \in Seq(S)
  PROVE  Fewer(s, s \o t) /\ Fewer(t, s \o t) /\ Fewer(s, s)
<1>1. Elements(s \o t) = Elements(s) \cup Elements(t)
  BY ElementsConcat
<1>2. ASSUME NEW sof, NEW cmd, Single(s \o t, sof, cmd)
      PROVE  Single(s, sof, cmd) /\ Single(t, sof, cmd)
  BY <1>2, SingleConcat
<1> QED  BY <1>1, <1>2 DEF Fewer

\* A kind there is none of stays away.
LEMMA FewerNone ==
  ASSUME NEW s, NEW t, Fewer(s, t), NEW sof, NEW cmd, None(t, sof, cmd)
  PROVE  None(s, sof, cmd)
BY NoneOf DEF Fewer

LEMMA FewerTrans ==
  ASSUME NEW s, NEW t, NEW u, Fewer(s, t), Fewer(t, u)
  PROVE  Fewer(s, u)
BY DEF Fewer

LEMMA FewerWithout ==
  ASSUME NEW S, NEW s \in Seq(S), NEW i \in 1 .. Len(s)
  PROVE  Without(s, i) \in Seq(S) /\ Fewer(Without(s, i), s)
<1> DEFINE a == SubSeq(s, 1, i - 1)
           b == SubSeq(s, i, i)
           c == SubSeq(s, i + 1, Len(s))
<1>1. a \in Seq(S) /\ b \in Seq(S) /\ c \in Seq(S) /\ s = (a \o b) \o c
  <2>1. Len(s) \in Nat /\ i \in Nat
    BY LenProperties
  <2>2. a \in Seq(S) /\ b \in Seq(S) /\ c \in Seq(S) /\ SubSeq(s, 1, i) \in Seq(S)
    BY <2>1, SubSeqProperties
  <2>3. a \o b = SubSeq(s, 1, i)
    BY <2>1, ConcatAdjacentSubSeq
  <2>4. SubSeq(s, 1, i) \o c = SubSeq(s, 1, Len(s))
    BY <2>1, ConcatAdjacentSubSeq
  <2>5. SubSeq(s, 1, Len(s)) = s
    BY SubSeqFull
  <2> QED  BY <2>2, <2>3, <2>4, <2>5
<1>2. Without(s, i) = a \o c
  BY DEF Without
<1> HIDE DEF a, b, c
<1>3. a \o b \in Seq(S) /\ a \o c \in Seq(S)
  BY <1>1, ConcatProperties
<1>4. Elements(a \o c) \subseteq Elements((a \o b) \o c)
  <2>1. Elements(a \o b) = Elements(a) \cup Elements(b)
    BY <1>1, ElementsConcat
  <2>2. Elements((a \o b) \o c) = Elements(a \o b) \cup Elements(c)
    BY <1>1, <1>3, ElementsConcat
  <2>3. Elements(a \o c) = Elements(a) \cup Elements(c)
    BY <1>1, ElementsConcat
  <2> QED  BY <2>1, <2>2, <2>3
<1>5. ASSUME NEW sof, NEW cmd, Single((a \o b) \o c, sof, cmd)
      PROVE  Single(a \o c, sof, cmd)
  <2>1. /\ Single(a \o b, sof, cmd) /\ Single(c, sof, cmd)
        /\ None(a \o b, sof, cmd) \/ None(c, sof, cmd)
    BY <1>1, <1>3, <1>5, SingleConcat
  <2>2. Single(a, sof, cmd)
    BY <1>1, <2>1, SingleConcat
  <2>3. None(a \o b, sof, cmd) => None(a, sof, cmd)
    BY <1>1, NoneConcat
  <2> QED  BY <1>1, <2>1, <2>2, <2>3, SingleConcat
<1> QED  BY <1>1, <1>2, <1>3, <1>4, <1>5 DEF Fewer

LEMMA FewerConcat ==
  ASSUME NEW S, NEW s \in Seq(S), NEW t \in Seq(S), NEW u \in Seq(S), Fewer(s, t)
  PROVE  Fewer(s \o u, t \o u) /\ Fewer(u \o s, u \o t)
<1>1. Elements(s) \subseteq Elements(t)
  BY DEF Fewer
<1>2. /\ Elements(s \o u) \subseteq Elements(t \o u)
      /\ Elements(u \o s) \subseteq Elements(u \o t)
  BY <1>1, ElementsConcat
<1>3. ASSUME NEW sof, NEW cmd
      PROVE  /\ Single(t \o u, sof, cmd) => Single(s \o u, sof, cmd)
             /\ Single(u \o t, sof, cmd) => Single(u \o s, sof, cmd)
  <2>1. /\ Single(t, sof, cmd) => Single(s, sof, cmd)
        /\ None(t, sof, cmd) => None(s, sof, cmd)
    BY FewerNone DEF Fewer
  <2>2. Single(t \o u, sof, cmd) => Single(s \o u, sof, cmd)
    BY <2>1, SingleConcat
  <2>3. Single(u \o t, sof, cmd) => Single(u \o s, sof, cmd)
    BY <2>1, SingleConcat
  <2> QED  BY <2>2, <2>3
<1> QED  BY <1>2, <1>3 DEF Fewer

LEMMA SplitAt ==
  ASSUME NEW S, NEW s \in Seq(S), NEW n \in 0 .. Len(s)
  PROVE  /\ SubSeq(s, 1, n) \in Seq(S) /\ SubSeq(s, n + 1, Len(s)) \in Seq(S)
         /\ s = SubSeq(s, 1, n) \o SubSeq(s, n + 1, Len(s))
         /\ Len(SubSeq(s, n + 1, Len(s))) = Len(s) - n
<1>1. Len(s) \in Nat /\ n \in Nat
  BY LenProperties
<1>2. \A i \in 1 .. Len(s) : s[i] \in S
  BY ElementOfSeq
<1>3. /\ SubSeq(s, 1, n) \in Seq(S) /\ SubSeq(s, n + 1, Len(s)) \in Seq(S)
      /\ Len(SubSeq(s, n + 1, Len(s))) = Len(s) - n
  BY <1>1, <1>2, SubSeqProperties
<1>4. SubSeq(s, 1, n) \o SubSeq(s, n + 1, Len(s)) = SubSeq(s, 1, Len(s))
  <2>1. 1 \in 1 .. Len(s) + 1 /\ n \in 1 - 1 .. Len(s) /\ Len(s) \in n .. Len(s)
    BY <1>1
  <2> QED  BY <2>1, ConcatAdjacentSubSeq
<1>5. SubSeq(s, 1, Len(s)) = s
  BY SubSeqFull
<1> QED  BY <1>3, <1>4, <1>5

\* Concatenation is associative, for the two kinds of sequences of the session.
LEMMA Assoc ==
  ASSUME NEW S
  PROVE  \A s, t, u \in Seq(S) : (s \o t) \o u = s \o (t \o u)
BY ConcatAssociative

-----------------------------------------------------------------------------
(***************************************************************************)
(* Types                                                                   *)
(***************************************************************************)

Cmds == {"START", "IDENTIFY", "READ_SETTINGS", "WRITE_SETTINGS"}
BankFields == {2 ^ b : b \in 0 .. 8} \cup {255}
Image == [Parts -> Nat]
SettingsStates == {"NeedsRead", "NeedsWrite", "Valid"}
ChipInfo == [deviceType : DOMAIN BanksOf, boot : BOOLEAN, settings : Image,
             settingsState : SettingsStates]
Identity == [deviceType : DOMAIN BanksOf, boot : BOOLEAN]

\* What the host sends: a write is to a slot of ChainList.
HostFrames ==
  {f \in [sof : {"AA"}, cmd : Cmds, device : Nat, bank : BankFields, part : Parts,
          value : Nat] : f.cmd = "WRITE_SETTINGS" => Target(f) \in Slots}

\* What a bank of the chain answers.
Source(f) == <<f.device, f.bank>>
IdentFrames ==
  {f \in [sof : {"55"}, cmd : {"IDENTIFY"}, device : Nat, bank : Nat, part : {0},
          value : Identity] :
     /\ Source(f) \in Banks
     /\ f.value = [deviceType |-> Chain[f.device], boot |-> Source(f) \in InBootloader]}
AnswerFrames ==
  {f \in [sof : {"55"}, cmd : {"READ_SETTINGS", "WRITE_SETTINGS"}, device : Nat,
          bank : Nat, part : Parts, value : Nat] : Source(f) \in Banks}
Frames == HostFrames \cup IdentFrames \cup AnswerFrames

HostType ==
  /\ State \in States /\ handler \in States \cup {"none"}
  /\ Timeus \in 0 .. StartDelay + 1
  /\ LastDevice \in 0 .. MaxDevices - 1 /\ LastBank \in 0 .. MaxDevices - 1
  /\ ChainList \in [Slots -> ChipInfo]

LineType ==
  /\ rx \in Seq(Frames) /\ up \in Seq(Frames)
  /\ tx \in Seq(HostFrames) /\ down \in Seq(HostFrames)
  /\ next \in 1 .. Len(rx) + 1 /\ Len(tx) <= TxMax

BankType ==
  /\ stored \in [Banks -> Image] /\ staged \in [Banks -> Image] /\ due \subseteq Banks
  /\ clean \in BOOLEAN /\ hasty \in BOOLEAN /\ lost \in BOOLEAN
  /\ wanted \in [Banks -> SUBSET Image] /\ touched \subseteq Banks

\* The batch is empty between two ticks, and a handler was called for the state it
\* belongs to, though it may have left it since.
HandlerOK ==
  /\ handler = "none" => rx = <<>> /\ next = 1
  /\ handler \in {"ConnectedWaitForAppStart", "ConnectedWaitFinishWriteSettings", "Connected"}
       => State = handler
  /\ handler \in {"ConnectedWaitIdentResponse", "ConnectedWaitReadSettings"}
       => State \in {handler, "Connected"}
  /\ handler = "ConnectedWaitWriteSettings"
       => State \in {handler, "ConnectedWaitFinishWriteSettings", "Connected"}
  /\ handler # "Disconnected"

TypeInv == HostType /\ LineType /\ BankType /\ HandlerOK

LEMMA HostAssoc == \A s, t, u \in Seq(HostFrames) : (s \o t) \o u = s \o (t \o u)
BY Assoc

LEMMA FrameAssoc == \A s, t, u \in Seq(Frames) : (s \o t) \o u = s \o (t \o u)
BY Assoc

LEMMA ToAllType ==
  ASSUME NEW cmd \in {"START", "IDENTIFY"}
  PROVE  ToAll(cmd) \in HostFrames /\ ToAll(cmd).cmd = cmd /\ ToAll(cmd).sof = "AA"
<1>1. /\ ToAll(cmd) = [sof |-> "AA", cmd |-> cmd, device |-> 255, bank |-> 255, part |-> 0,
                       value |-> 0]
      /\ cmd \in Cmds /\ cmd # "WRITE_SETTINGS" /\ 255 \in BankFields /\ 0 \in Parts
  BY ConstantFacts DEF ToAll, Frame, Cmds, BankFields
<1> QED  BY <1>1 DEF HostFrames

LEMMA CommandType ==
  ASSUME NEW cmd \in {"READ_SETTINGS", "WRITE_SETTINGS"}, NEW p, p[1] \in Nat, p[2] \in 0 .. 8,
         NEW k \in Parts, NEW v \in Nat, p \in Slots \/ cmd = "READ_SETTINGS"
  PROVE  /\ Command(cmd, p, k, v) \in HostFrames
         /\ Command(cmd, p, k, v).cmd = cmd /\ Command(cmd, p, k, v).sof = "AA"
         /\ Command(cmd, p, k, v).part = k /\ Command(cmd, p, k, v).value = v
<1>1. /\ Command(cmd, p, k, v) =
           [sof |-> "AA", cmd |-> cmd, device |-> p[1], bank |-> 2 ^ p[2], part |-> k, value |-> v]
      /\ cmd \in Cmds /\ 2 ^ p[2] \in BankFields
  BY DEF Command, Frame, Cmds, BankFields
<1>2. cmd = "WRITE_SETTINGS" => Target(Command(cmd, p, k, v)) \in Slots
  BY TargetOf
<1> QED  BY <1>1, <1>2 DEF HostFrames

LEMMA AnswerType ==
  ASSUME NEW cmd \in {"READ_SETTINGS", "WRITE_SETTINGS"}, NEW p \in Banks,
         NEW k \in Parts, NEW v \in Nat
  PROVE  /\ Answer(cmd, p, k, v) \in AnswerFrames /\ Source(Answer(cmd, p, k, v)) = p
         /\ Answer(cmd, p, k, v).cmd = cmd /\ Answer(cmd, p, k, v).sof = "55"
         /\ Answer(cmd, p, k, v).part = k /\ Answer(cmd, p, k, v).value = v
<1>1. Answer(cmd, p, k, v) =
        [sof |-> "55", cmd |-> cmd, device |-> p[1], bank |-> p[2], part |-> k, value |-> v]
  BY DEF Answer, Frame
<1>2. p[1] \in Nat /\ p[2] \in Nat /\ p = <<p[1], p[2]>>
  <2>1. p \in Slots
    BY ConstantFacts
  <2> QED  BY <2>1, SlotFields
<1> QED  BY <1>1, <1>2 DEF AnswerFrames, Source

LEMMA IdentAnswerType ==
  ASSUME NEW p \in Banks
  PROVE  /\ IdentAnswer(p) \in IdentFrames /\ Source(IdentAnswer(p)) = p
         /\ IdentAnswer(p).cmd = "IDENTIFY" /\ IdentAnswer(p).sof = "55"
<1>1. p[1] \in Nat /\ p[2] \in Nat /\ p = <<p[1], p[2]>>
  <2>1. p \in Slots
    BY ConstantFacts
  <2> QED  BY <2>1, SlotFields
<1>2. Chain[p[1]] \in DOMAIN BanksOf
  <2>1. p[1] <= LastOfChain /\ LastOfChain \in Nat
    BY ConstantFacts DEF Banks
  <2>2. p[1] \in DOMAIN Chain
    BY <1>1, <2>1, SessionAssumption
  <2> QED  BY <2>2, SessionAssumption
<1>3. PICK v \in Identity : v = [deviceType |-> Chain[p[1]], boot |-> p \in InBootloader]
  <2>1. (p \in InBootloader) \in BOOLEAN
    OBVIOUS
  <2> QED  BY <1>2, <2>1 DEF Identity
<1>4. IdentAnswer(p) =
        [sof |-> "55", cmd |-> "IDENTIFY", device |-> p[1], bank |-> p[2], part |-> 0, value |-> v]
  BY <1>3 DEF IdentAnswer, Answer, Frame
<1>5. Source(IdentAnswer(p)) = p
  BY <1>1, <1>4 DEF Source
<1> QED  BY <1>1, <1>3, <1>4, <1>5 DEF IdentFrames

\* A frame with the host's start byte is one of the host, and the others are answers.
LEMMA FrameFacts ==
  ASSUME NEW f \in Frames
  PROVE  /\ f.sof = "AA" => f \in HostFrames
         /\ f.sof = "55" /\ f.cmd = "IDENTIFY" => f \in IdentFrames
         /\ f.sof = "55" /\ f.cmd # "IDENTIFY" => f \in AnswerFrames
BY DEF Frames, HostFrames, IdentFrames, AnswerFrames

LEMMA HostFrameFacts ==
  ASSUME NEW f \in HostFrames
  PROVE  /\ f \in Frames /\ f.sof = "AA" /\ f.cmd \in Cmds /\ f.part \in Parts /\ f.value \in Nat
         /\ f.cmd = "WRITE_SETTINGS" => Target(f) \in Slots
BY DEF Frames, HostFrames

LEMMA AnswerFacts ==
  ASSUME NEW f \in AnswerFrames
  PROVE  /\ f \in Frames /\ f.sof = "55" /\ f.cmd \in {"READ_SETTINGS", "WRITE_SETTINGS"}
         /\ Source(f) \in Banks /\ f.part \in Parts /\ f.value \in Nat
BY DEF Frames, AnswerFrames

LEMMA IdentFacts ==
  ASSUME NEW f \in IdentFrames
  PROVE  /\ f \in Frames /\ f.sof = "55" /\ f.cmd = "IDENTIFY" /\ Source(f) \in Banks
         /\ f.value \in Identity
         /\ f.value = [deviceType |-> Chain[f.device], boot |-> Source(f) \in InBootloader]
BY DEF Frames, IdentFrames

-----------------------------------------------------------------------------
(***************************************************************************)
(* The lines, and what a step does to them                                 *)
(***************************************************************************)

LinesTyped ==
  Pending \in Seq(Frames) /\ Uplink \in Seq(Frames) /\ Downlink \in Seq(HostFrames)

LEMMA LineSeqs == LineType => LinesTyped
<1> SUFFICES ASSUME LineType PROVE LinesTyped
  OBVIOUS
<1>1. Pending \in Seq(Frames)
  <2>1. /\ Len(rx) \in Nat /\ next \in Nat /\ next >= 1
        /\ \A i \in 1 .. Len(rx) : rx[i] \in Frames
    BY LenProperties, ElementOfSeq DEF LineType
  <2>2. \A i \in next .. Len(rx) : rx[i] \in Frames
    BY <2>1
  <2>3. SubSeq(rx, next, Len(rx)) \in Seq(Frames)
    BY <2>1, <2>2, SubSeqProperties
  <2> QED  BY <2>3, EmptySeq DEF Pending
<1>2. Uplink \in Seq(Frames)
  BY <1>1, ConcatProperties DEF Uplink, LineType
<1>3. Downlink \in Seq(HostFrames)
  BY ConcatProperties DEF Downlink, LineType
<1> QED  BY <1>1, <1>2, <1>3 DEF LinesTyped

LEMMA LineSeqsNext == LineType' => LinesTyped'
BY LineSeqs, PTL

\* A step of the host: it looks at frames, or forgets them, and may send f.
HostStep(f) == Fewer(Uplink', Uplink) /\ Fewer(Downlink', Downlink \o <<f>>)

LEMMA NothingSent ==
  ASSUME LinesTyped, Fewer(Uplink', Uplink), Fewer(Downlink', Downlink)
  PROVE  HostStep(ToAll("START"))
<1>1. <<ToAll("START")>> \in Seq(HostFrames)
  BY ToAllType, OneFrame
<1>2. Fewer(Downlink, Downlink \o <<ToAll("START")>>)
  BY <1>1, FewerParts DEF LinesTyped
<1> QED  BY <1>2, FewerTrans DEF HostStep

LEMMA SendLine ==
  ASSUME LineType, NEW f \in HostFrames, SendPacket(f), UNCHANGED down
  PROVE  /\ tx' \in Seq(HostFrames) /\ Len(tx') <= TxMax
         /\ Fewer(Downlink', Downlink \o <<f>>)
<1>1. LinesTyped /\ <<f>> \in Seq(HostFrames)
  BY LineSeqs, OneFrame
<1>2. CASE HasRoom
  <2>1. /\ tx' = tx \o <<f>> /\ tx' \in Seq(HostFrames) /\ Len(tx') = Len(tx) + 1
        /\ Len(tx) < TxMax /\ Len(tx) \in Nat /\ TxMax \in Nat
    BY <1>2, AppendProperties, AppendIsConcat, LenProperties, ConstantFacts
       DEF LineType, SendPacket, HasRoom
  <2>2. Downlink' = Downlink \o <<f>>
    BY <1>1, <2>1, Assoc DEF Downlink, LineType
  <2>3. Downlink \o <<f>> \in Seq(HostFrames)
    BY <1>1, ConcatProperties DEF LinesTyped
  <2>4. Fewer(Downlink', Downlink \o <<f>>)
    BY <1>1, <2>2, <2>3, FewerParts
  <2>5. Len(tx') <= TxMax
    BY <2>1
  <2> QED  BY <2>1, <2>4, <2>5
<1>3. CASE ~HasRoom
  <2>1. tx' = tx /\ Downlink' = Downlink
    BY <1>3 DEF SendPacket, Downlink
  <2> QED  BY <1>1, <2>1, FewerParts DEF LineType, LinesTyped
<1> QED  BY <1>2, <1>3

\* A handler goes on to the next frame of the batch.
LEMMA ContinueLine ==
  ASSUME LineType, handler # "none", next <= Len(rx), Continue, UNCHANGED up
  PROVE  /\ rx' \in Seq(Frames) /\ up' \in Seq(Frames) /\ next' \in 1 .. Len(rx') + 1
         /\ rx[next] \in Frames /\ Uplink' \in Seq(Frames)
         /\ Uplink = <<rx[next]>> \o Uplink' /\ Fewer(Uplink', Uplink)
<1>1. Len(rx) \in Nat /\ next \in 1 .. Len(rx) /\ \A i \in 1 .. Len(rx) : rx[i] \in Frames
  BY LenProperties, ElementOfSeq DEF LineType
<1>2. /\ rx[next] \in Frames /\ <<rx[next]>> \in Seq(Frames)
      /\ SubSeq(rx, next + 1, Len(rx)) \in Seq(Frames)
  <2>1. \A i \in next + 1 .. Len(rx) : rx[i] \in Frames
    BY <1>1
  <2> QED  BY <1>1, <2>1, SubSeqProperties, OneFrame
<1>3. /\ Pending = SubSeq(rx, next, Len(rx)) /\ Pending' = SubSeq(rx, next + 1, Len(rx))
      /\ up' = up /\ rx' = rx /\ next' = next + 1
  BY DEF Pending, Continue
<1>4. Pending = <<rx[next]>> \o Pending'
  BY <1>1, <1>3, SubSeqRecursiveFirst DEF LineType
<1>5. Uplink' \in Seq(Frames)
  BY <1>2, <1>3, ConcatProperties DEF Uplink, LineType
<1>6. Uplink = <<rx[next]>> \o Uplink'
  <2>1. PICK q \in Seq(Frames) : q = Pending'
    BY <1>2, <1>3
  <2>2. up \in Seq(Frames)
    BY DEF LineType
  <2>3. (<<rx[next]>> \o q) \o up = <<rx[next]>> \o (q \o up)
    BY <1>2, <2>2, Assoc
  <2>4. Uplink = Pending \o up /\ Uplink' = Pending' \o up
    BY <1>3 DEF Uplink
  <2> QED  BY <1>4, <2>1, <2>3, <2>4
<1>7. Fewer(Uplink', Uplink)
  BY <1>2, <1>5, <1>6, FewerParts
<1>8. next' \in 1 .. Len(rx') + 1
  BY <1>1, <1>3
<1> QED  BY <1>1, <1>3, <1>5, <1>6, <1>7, <1>8 DEF LineType

\* A handler returns: the rest of the batch is not looked at.
LEMMA ReturnLine ==
  ASSUME LineType, Return, UNCHANGED up
  PROVE  /\ rx' \in Seq(Frames) /\ up' \in Seq(Frames) /\ next' \in 1 .. Len(rx') + 1
         /\ Uplink' = up /\ Fewer(Uplink', Uplink)
<1>1. rx' = <<>> /\ rx' \in Seq(Frames) /\ next' = 1 /\ Len(rx') = 0 /\ up' = up
  BY EmptySeq DEF Return
<1>2. Pending' = <<>> /\ Uplink' = up
  BY <1>1, ConcatEmptySeq DEF Pending, Uplink, LineType, Return
<1>3. Fewer(up, Uplink)
  BY LineSeqs, FewerParts DEF Uplink, LinesTyped, LineType
<1> QED  BY <1>1, <1>2, <1>3 DEF LineType

LEMMA IdleLine ==
  ASSUME LineType, HandlerOK, handler = "none"
  PROVE  Uplink = up /\ Pending = <<>>
BY ConcatEmptySeq DEF Uplink, Pending, LineType

\* Steps that leave the lines alone.
LEMMA StillLine ==
  ASSUME LineType, UNCHANGED <<batch, tx, down, up>>
  PROVE  LineType' /\ Uplink' = Uplink /\ Downlink' = Downlink /\ HostStep(ToAll("START"))
<1>1. LineType'
  BY DEF LineType, batch
<1>2. Uplink' = Uplink /\ Downlink' = Downlink
  BY DEF Uplink, Downlink, Pending, batch
<1>3. Fewer(Uplink, Uplink) /\ Fewer(Downlink, Downlink)
  BY LineSeqs, FewerParts DEF LinesTyped
<1> QED  BY <1>1, <1>2, <1>3, LineSeqs, NothingSent

LEMMA TickLine ==
  ASSUME TypeInv, Tick
  PROVE  LineType' /\ Uplink' = Uplink /\ Downlink' = Downlink /\ HostStep(ToAll("START"))
<1> USE DEF TypeInv
<1>1. PICK n \in 0 .. Len(up) : rx' = SubSeq(up, 1, n) /\ up' = SubSeq(up, n + 1, Len(up))
  BY DEF Tick
<1>2. PICK m \in 0 .. Len(tx) : down' = down \o SubSeq(tx, 1, m) /\ tx' = SubSeq(tx, m + 1, Len(tx))
  BY DEF Tick
<1>3. next' = 1 /\ handler' = State /\ handler = "none" /\ State # "none"
  BY DEF Tick, Idle, HostType, States
<1>4. /\ rx' \in Seq(Frames) /\ up' \in Seq(Frames) /\ up = rx' \o up'
  BY <1>1, SplitAt DEF LineType
<1>5. /\ SubSeq(tx, 1, m) \in Seq(HostFrames) /\ tx' \in Seq(HostFrames)
      /\ tx = SubSeq(tx, 1, m) \o tx' /\ Len(tx') = Len(tx) - m
  BY <1>2, SplitAt DEF LineType
<1>6. down' \in Seq(HostFrames)
  BY <1>2, <1>5, ConcatProperties DEF LineType
<1>7. next' \in 1 .. Len(rx') + 1 /\ Len(tx') <= TxMax
  <2>1. Len(rx') \in Nat /\ Len(tx) \in Nat /\ m \in Nat /\ TxMax \in Nat /\ Len(tx) <= TxMax
    BY <1>4, LenProperties, ConstantFacts DEF LineType
  <2> QED  BY <1>3, <1>5, <2>1
<1>8. Uplink' = Uplink
  <2>1. Pending' = SubSeq(rx', 1, Len(rx'))
    BY <1>3 DEF Pending
  <2>2. Pending' = rx'
    BY <1>4, <2>1, SubSeqFull
  <2> QED  BY <1>3, <1>4, <2>2, IdleLine DEF Uplink
<1>9. Downlink' = Downlink
  <2>1. PICK a \in Seq(HostFrames), b \in Seq(HostFrames) : a = SubSeq(tx, 1, m) /\ b = tx'
    BY <1>5
  <2>2. down \in Seq(HostFrames)
    BY DEF LineType
  <2>3. (down \o a) \o b = down \o (a \o b)
    BY <2>2, HostAssoc
  <2> QED  BY <1>2, <1>5, <2>1, <2>3 DEF Downlink
<1>10. Fewer(Uplink, Uplink) /\ Fewer(Downlink, Downlink)
  BY LineSeqs, FewerParts DEF LinesTyped
<1>11. LineType'
  BY <1>4, <1>5, <1>6, <1>7 DEF LineType
<1> QED  BY <1>8, <1>9, <1>10, <1>11, LineSeqs, NothingSent

\* What Connect and CloseDevice leave of txfifo is in no case a part of settings.
LEMMA ZeroedLine ==
  ASSUME TypeInv, ConnectFails \/ Connect \/ CloseDevice
  PROVE  LineType' /\ HostStep(ToAll("START")) /\ handler' = "none" /\ handler = "none"
<1> USE DEF TypeInv
<1>1. /\ rx' = <<>> /\ next' = 1 /\ handler' = "none" /\ handler = "none" /\ down' = down
      /\ tx' = <<>> \/ tx' = <<ToAll("START")>>
      /\ up' = up \/ Drain
  BY DEF ConnectFails, Connect, CloseDevice, Zeroed, Idle, HandlerOK
<1>2. up' \in Seq(Frames) /\ Fewer(up', up)
  <2>1. CASE up' = up
    BY <2>1, FewerParts DEF LineType
  <2>2. CASE Drain
    <3>1. PICK n \in 0 .. Len(up) : up' = SubSeq(up, n + 1, Len(up))
      BY <2>2 DEF Drain
    <3>2. /\ SubSeq(up, 1, n) \in Seq(Frames) /\ up' \in Seq(Frames)
          /\ up = SubSeq(up, 1, n) \o up'
      BY <3>1, SplitAt DEF LineType
    <3>3. Fewer(up', SubSeq(up, 1, n) \o up')
      BY <3>2, FewerParts
    <3> QED  BY <3>2, <3>3
  <2> QED  BY <1>1, <2>1, <2>2
<1>3. Uplink' = up' /\ Uplink = up
  <2>1. Uplink = up
    BY <1>1, IdleLine
  <2> QED  BY <1>1, <1>2, <2>1, ConcatEmptySeq DEF Uplink, Pending
<1>4. /\ ToAll("START") \in HostFrames /\ <<ToAll("START")>> \in Seq(HostFrames)
      /\ Len(<<ToAll("START")>>) = 1
  BY ToAllType, OneFrame
<1>5. tx' \in Seq(HostFrames) /\ Len(tx') <= TxMax /\ rx' \in Seq(Frames) /\ Len(rx') = 0
  BY <1>1, <1>4, EmptySeq, ConstantFacts
<1>6. LineType'
  BY <1>1, <1>2, <1>5 DEF LineType
<1>7. Fewer(down, Downlink) /\ Downlink \in Seq(HostFrames) /\ down \in Seq(HostFrames)
  BY LineSeqs, FewerParts DEF Downlink, LinesTyped, LineType
<1>8. Fewer(Downlink', Downlink \o <<ToAll("START")>>)
  <2>1. CASE tx' = <<>>
    <3>1. Downlink' = down
      BY <1>1, <1>7, <2>1, ConcatEmptySeq DEF Downlink
    <3>2. Fewer(Downlink, Downlink \o <<ToAll("START")>>)
      BY <1>4, <1>7, FewerParts
    <3> QED  BY <1>7, <3>1, <3>2, FewerTrans
  <2>2. CASE tx' = <<ToAll("START")>>
    <3>1. Downlink' = down \o <<ToAll("START")>>
      BY <1>1, <2>2 DEF Downlink
    <3> QED  BY <1>4, <1>7, <3>1, FewerConcat
  <2> QED  BY <1>1, <2>1, <2>2
<1> QED  BY <1>1, <1>2, <1>3, <1>6, <1>8 DEF HostStep

LEMMA FirstDown ==
  ASSUME NEW g \in Seq(HostFrames), NEW d \in Seq(HostFrames), tx \in Seq(HostFrames),
         down = g \o d
  PROVE  Downlink = g \o (d \o tx)
BY HostAssoc DEF Downlink

\* The chain takes a command and answers it; the echo comes before or after that.
LEMMA TakeLine ==
  ASSUME TypeInv, ChainTakes
  PROVE  /\ LineType'
         /\ \E f \in HostFrames, a \in Seq(Frames) :
              /\ f = Head(down) /\ a = AnswersTo(f)
              /\ Downlink = <<f>> \o Downlink'
              /\ Uplink' = Uplink \o (a \o <<f>>) \/ Uplink' = Uplink \o (<<f>> \o a)
              /\ down = <<f>> \o down'
<1> USE DEF TypeInv
<1>1. /\ down # <<>> /\ down' = Tail(down) /\ UNCHANGED <<rx, next, handler, tx>>
      /\ \/ up' = up \o AnswersTo(Head(down)) \o <<Head(down)>>
         \/ up' = up \o <<Head(down)>> \o AnswersTo(Head(down))
  BY DEF ChainTakes, batch
<1>2. PICK f \in HostFrames : f = Head(down)
  BY <1>1, HeadTailProperties DEF LineType
<1>3. PICK a \in Seq(Frames) : a = AnswersTo(f)
  <2>1. CASE f.cmd = "IDENTIFY"
    <3>1. \A i \in DOMAIN IdentOrder : IdentAnswer(IdentOrder[i]) \in Frames
      <4>1. \A i \in DOMAIN IdentOrder : IdentOrder[i] \in Banks
        BY SessionAssumption, SeqFacts
      <4> QED  BY <4>1, IdentAnswerType DEF Frames
    <3>2. DOMAIN IdentOrder = 1 .. Len(IdentOrder) /\ Len(IdentOrder) \in Nat
      BY SessionAssumption, SeqFacts
    <3>3. IdentAnswers \in [1 .. Len(IdentOrder) -> Frames]
      BY <3>1, <3>2 DEF IdentAnswers
    <3>4. IdentAnswers \in Seq(Frames)
      BY <3>2, <3>3, SeqDef
    <3> QED  BY <2>1, <3>4 DEF AnswersTo
  <2>2. CASE f.cmd = "READ_SETTINGS" /\ Target(f) \in Banks \ InBootloader
    <3>1. f.part \in Parts
      BY HostFrameFacts
    <3>2. stored[Target(f)][f.part] \in Nat
      BY <2>2, <3>1 DEF BankType, Image
    <3>3. Answer(f.cmd, Target(f), f.part, stored[Target(f)][f.part]) \in Frames
      BY <2>2, <3>1, <3>2, AnswerType DEF Frames
    <3>4. <<Answer(f.cmd, Target(f), f.part, stored[Target(f)][f.part])>> \in Seq(Frames)
      BY <3>3, OneFrame
    <3> QED  BY <2>2, <3>4 DEF AnswersTo
  <2>3. CASE f.cmd # "IDENTIFY" /\ ~(f.cmd = "READ_SETTINGS" /\ Target(f) \in Banks \ InBootloader)
    BY <2>3, EmptySeq DEF AnswersTo
  <2> QED  BY <2>1, <2>2, <2>3
<1>4. /\ f \in Frames /\ <<f>> \in Seq(Frames) /\ <<f>> \in Seq(HostFrames)
      /\ up \in Seq(Frames) /\ Uplink \in Seq(Frames) /\ Pending \in Seq(Frames)
      /\ tx \in Seq(HostFrames)
  BY HostFrameFacts, OneFrame, LineSeqs DEF LinesTyped, LineType
<1>5. PICK u \in Seq(Frames) : (u = a \o <<f>> \/ u = <<f>> \o a) /\ up' = up \o u
  <2>1. a \o <<f>> \in Seq(Frames) /\ <<f>> \o a \in Seq(Frames)
    BY <1>4, ConcatProperties
  <2>2. (up \o a) \o <<f>> = up \o (a \o <<f>>)
    BY ONLY <1>4, a \in Seq(Frames), Assoc
  <2>3. (up \o <<f>>) \o a = up \o (<<f>> \o a)
    BY ONLY <1>4, a \in Seq(Frames), Assoc
  <2> QED  BY <1>1, <1>2, <1>3, <2>1, <2>2, <2>3
<1>6. down' \in Seq(HostFrames) /\ down = <<f>> \o down'
  <2>1. down' \in Seq(HostFrames)
    BY <1>1, HeadTailProperties DEF LineType
  <2>2. /\ 1 \in 1 .. Len(down) /\ Len(down) \in 1 .. Len(down)
        /\ SubSeq(down, 1, Len(down)) = down /\ down[1] = f /\ Tail(down) = SubSeq(down, 2, Len(down))
    <3>1. Len(down) \in Nat /\ Len(down) # 0
      BY <1>1, LenProperties, EmptySeq DEF LineType
    <3>2. SubSeq(down, 1, Len(down)) = down /\ Tail(down) = SubSeq(down, 2, Len(down))
      BY <1>1, SubSeqFull, TailIsSubSeq DEF LineType
    <3> QED  BY <1>2, <3>1, <3>2
  <2>3. SubSeq(down, 1, Len(down)) = <<down[1]>> \o SubSeq(down, 1 + 1, Len(down))
    BY <2>2, SubSeqRecursiveFirst DEF LineType
  <2> QED  BY <1>1, <2>1, <2>2, <2>3
<1>7. Uplink' = Uplink \o u
  <2>1. Pending' = Pending
    BY <1>1 DEF Pending
  <2>2. (Pending \o up) \o u = Pending \o (up \o u)
    BY ONLY <1>4, u \in Seq(Frames), FrameAssoc
  <2> QED  BY <1>5, <2>1, <2>2 DEF Uplink
<1>8. Downlink = <<f>> \o Downlink'
  <2>1. Downlink = <<f>> \o (down' \o tx)
    BY <1>4, <1>6, FirstDown
  <2> QED  BY <1>1, <2>1 DEF Downlink
<1>9. LineType'
  <2>1. up' \in Seq(Frames)
    BY <1>4, <1>5, ConcatProperties
  <2> QED  BY <1>1, <1>6, <2>1 DEF LineType
<1> QED  BY <1>2, <1>3, <1>5, <1>6, <1>7, <1>8, <1>9

LEMMA ReportLine ==
  ASSUME TypeInv, NEW p \in due, up' = Append(up, Answer("WRITE_SETTINGS", p, 0, 0)),
         UNCHANGED <<batch, tx, down>>
  PROVE  /\ LineType' /\ Downlink' = Downlink
         /\ Uplink' = Uplink \o <<Answer("WRITE_SETTINGS", p, 0, 0)>>
         /\ up' = up \o <<Answer("WRITE_SETTINGS", p, 0, 0)>>
         /\ Answer("WRITE_SETTINGS", p, 0, 0) \in AnswerFrames
<1> USE DEF TypeInv
<1>1. PICK g \in AnswerFrames : g = Answer("WRITE_SETTINGS", p, 0, 0)
  <2>1. p \in Banks /\ 0 \in Parts /\ 0 \in Nat
    BY ConstantFacts DEF BankType
  <2> QED  BY <2>1, AnswerType
<1>2. g \in Frames /\ <<g>> \in Seq(Frames) /\ up \in Seq(Frames) /\ Pending \in Seq(Frames)
  BY AnswerFacts, OneFrame, LineSeqs DEF LinesTyped, LineType
<1>3. up' = up \o <<g>> /\ up' \in Seq(Frames)
  BY <1>1, <1>2, AppendIsConcat, AppendProperties
<1>4. Uplink' = Uplink \o <<g>> /\ Downlink' = Downlink
  <2>1. Pending' = Pending /\ Downlink' = Downlink
    BY DEF Pending, Downlink, batch
  <2>2. (Pending \o up) \o <<g>> = Pending \o (up \o <<g>>)
    BY <1>2, Assoc
  <2> QED  BY <1>3, <2>1, <2>2 DEF Uplink
<1>5. LineType'
  BY <1>3 DEF LineType, batch
<1> QED  BY <1>1, <1>3, <1>4, <1>5

LEMMA LoseLine ==
  ASSUME TypeInv, Lose
  PROVE  /\ LineType' /\ HostStep(ToAll("START"))
         /\ Fewer(Uplink', Uplink) /\ Fewer(Downlink', Downlink)
         /\ Fewer(up', up) /\ Fewer(down', down)
<1> USE DEF TypeInv
<1>1. /\ rx \in Seq(Frames) /\ up \in Seq(Frames) /\ Pending \in Seq(Frames)
      /\ tx \in Seq(HostFrames) /\ down \in Seq(HostFrames)
      /\ Uplink = Pending \o up /\ Downlink = down \o tx
  BY LineSeqs DEF LinesTyped, LineType, Uplink, Downlink
<1>2. UNCHANGED <<rx, next, handler, tx>>
  BY DEF Lose, batch
<1>3. up' \in Seq(Frames) /\ Fewer(up', up) /\ down' \in Seq(HostFrames) /\ Fewer(down', down)
  <2>1. CASE \E i \in 1 .. Len(up) : up' = Without(up, i) /\ UNCHANGED down
    BY <1>1, <2>1, FewerWithout, FewerParts
  <2>2. CASE \E i \in 1 .. Len(down) : down' = Without(down, i) /\ UNCHANGED up
    BY <1>1, <2>2, FewerWithout, FewerParts
  <2> QED  BY <2>1, <2>2 DEF Lose
<1>4. Fewer(Uplink', Uplink)
  <2>1. Uplink' = Pending \o up'
    BY <1>2 DEF Uplink, Pending
  <2> QED  BY <1>1, <1>3, <2>1, FewerConcat
<1>5. Fewer(Downlink', Downlink)
  <2>1. Downlink' = down' \o tx
    BY <1>2 DEF Downlink
  <2> QED  BY <1>1, <1>3, <2>1, FewerConcat
<1>6. LineType'
  BY <1>2, <1>3 DEF LineType
<1> QED  BY <1>3, <1>4, <1>5, <1>6, LineSeqs, NothingSent

\* A step of the host keeps the lines well typed, whichever way the handler goes on.
LEMMA StepLine ==
  ASSUME TypeInv, UNCHANGED <<up, down>>, tx' \in Seq(HostFrames), Len(tx') <= TxMax,
         \/ Continue /\ handler # "none" /\ next <= Len(rx)
         \/ Return
         \/ UNCHANGED batch
  PROVE  LineType' /\ Fewer(Uplink', Uplink)
<1> USE DEF TypeInv
<1>1. /\ up \in Seq(Frames) /\ rx \in Seq(Frames) /\ down' \in Seq(HostFrames)
      /\ next \in 1 .. Len(rx) + 1 /\ up' \in Seq(Frames)
  BY DEF LineType
<1>2. rx' \in Seq(Frames) /\ next' \in 1 .. Len(rx') + 1 /\ Fewer(Uplink', Uplink)
  <2>1. CASE Continue /\ handler # "none" /\ next <= Len(rx)
    BY <2>1, ContinueLine
  <2>2. CASE Return
    BY <2>2, ReturnLine
  <2>3. CASE UNCHANGED batch
    <3>1. Uplink' = Uplink /\ rx' = rx /\ next' = next
      BY <2>3 DEF batch, Uplink, Pending
    <3>2. Fewer(Uplink, Uplink)
      BY LineSeqs, FewerParts DEF LinesTyped
    <3> QED  BY <1>1, <3>1, <3>2
  <2> QED  BY <2>1, <2>2, <2>3
<1> QED  BY <1>1, <1>2 DEF LineType

\* Nothing is sent.
LEMMA SilentLine ==
  ASSUME LineType, UNCHANGED <<tx, down>>
  PROVE  /\ tx' \in Seq(HostFrames) /\ Len(tx') <= TxMax /\ Downlink' = Downlink
         /\ Fewer(Downlink', Downlink)
<1>1. Fewer(Downlink, Downlink) /\ Downlink' = Downlink
  BY LineSeqs, FewerParts DEF LinesTyped, Downlink
<1> QED  BY <1>1 DEF LineType

\* What a write command carries.
LEMMA WriteCommandType ==
  ASSUME NEW cl \in [Slots -> ChipInfo], NEW p \in Slots, NEW k \in Parts
  PROVE  /\ WriteCommand(p, k, cl) \in HostFrames /\ Target(WriteCommand(p, k, cl)) = p
         /\ WriteCommand(p, k, cl).cmd = "WRITE_SETTINGS" /\ WriteCommand(p, k, cl).sof = "AA"
         /\ WriteCommand(p, k, cl).part = k
         /\ WriteCommand(p, k, cl).value = cl[p].settings[k]
<1>1. cl[p].settings[k] \in Nat
  BY DEF ChipInfo, Image
<1>2. p[1] \in Nat /\ p[2] \in 0 .. 8
  BY SlotFields
<1> QED  BY <1>1, <1>2, CommandType, TargetOf DEF WriteCommand

LEMMA ReadCommandType ==
  ASSUME NEW p, p[1] \in Nat, p[2] \in 0 .. 8, NEW k \in Parts
  PROVE  /\ ReadCommand(p, k) \in HostFrames
         /\ ReadCommand(p, k).cmd = "READ_SETTINGS" /\ ReadCommand(p, k).sof = "AA"
         /\ ReadCommand(p, k).part = k
         /\ p \in Slots => Target(ReadCommand(p, k)) = p
BY CommandType, TargetOf DEF ReadCommand

\* StartWriteSettings either finds nothing to write or sends the first part of the
\* settings of a bank that is marked.
LEMMA StartWrite ==
  ASSUME NEW cl \in [Slots -> ChipInfo], StartWriteSettings(cl)
  PROVE  \/ NeedsWrite(cl) = {} /\ State' = "Connected" /\ UNCHANGED tx
         \/ \E q \in Slots : /\ q \in NeedsWrite(cl) /\ State' = "ConnectedWaitWriteSettings"
                             /\ SendPacket(WriteCommand(q, 0, cl))
<1>1. CASE NeedsWrite(cl) = {}
  BY <1>1 DEF StartWriteSettings
<1>2. CASE NeedsWrite(cl) # {}
  <2>1. NeedsWrite(cl) \subseteq Slots
    BY DEF NeedsWrite, Known
  <2>2. FirstOf(NeedsWrite(cl)) \in NeedsWrite(cl)
    BY <1>2, <2>1, FirstIn
  <2> QED  BY <1>2, <2>1, <2>2 DEF StartWriteSettings
<1> QED  BY <1>1, <1>2

LEMMA StartWriteLine ==
  ASSUME LineType, NEW cl \in [Slots -> ChipInfo], StartWriteSettings(cl), UNCHANGED down
  PROVE  /\ tx' \in Seq(HostFrames) /\ Len(tx') <= TxMax
         /\ State' \in {"Connected", "ConnectedWaitWriteSettings"}
<1>1. CASE UNCHANGED tx /\ State' = "Connected"
  BY <1>1, SilentLine
<1>2. ASSUME NEW q \in Slots, State' = "ConnectedWaitWriteSettings",
             SendPacket(WriteCommand(q, 0, cl))
      PROVE  /\ tx' \in Seq(HostFrames) /\ Len(tx') <= TxMax
             /\ State' \in {"Connected", "ConnectedWaitWriteSettings"}
  <2>1. WriteCommand(q, 0, cl) \in HostFrames
    BY WriteCommandType, ConstantFacts
  <2> QED  BY <1>2, <2>1, SendLine
<1> QED  BY <1>1, <1>2, StartWrite

LEMMA FinishWriteLine ==
  ASSUME LineType, NEW cl \in [Slots -> ChipInfo], FinishWrite(cl), UNCHANGED down
  PROVE  /\ tx' \in Seq(HostFrames) /\ Len(tx') <= TxMax
         /\ State' \in {"Connected", "ConnectedWaitWriteSettings",
                        "ConnectedWaitFinishWriteSettings"}
<1>1. CASE StartWriteSettings(cl)
  BY <1>1, StartWriteLine
<1>2. CASE State' = "ConnectedWaitFinishWriteSettings" /\ UNCHANGED tx
  BY <1>2, SilentLine
<1> QED  BY <1>1, <1>2 DEF FinishWrite

-----------------------------------------------------------------------------
(***************************************************************************)
(* The steps are well typed                                                *)
(***************************************************************************)

\* One chip of ChainList is changed, and the others are not.
LEMMA ChipChange ==
  ASSUME NEW cl \in [Slots -> ChipInfo], NEW p \in Slots, NEW r \in ChipInfo,
         NEW new, new = [cl EXCEPT ![p] = r]
  PROVE  new \in [Slots -> ChipInfo] /\ new[p] = r /\ \A q \in Slots : q # p => new[q] = cl[q]
OBVIOUS

LEMMA ZeroedType == ZeroChainList \in [Slots -> ChipInfo]
<1>1. ZeroImage \in Image
  BY DEF ZeroImage, Image
<1>2. ZeroChip \in ChipInfo
  BY <1>1, ConstantFacts DEF ZeroChip, ChipInfo, SettingsStates
<1> QED  BY <1>2 DEF ZeroChainList

LEMMA ZeroedTypes ==
  ASSUME TypeInv, ConnectFails \/ Connect \/ CloseDevice
  PROVE  TypeInv'
<1> USE DEF TypeInv
<1>1. LineType' /\ handler' = "none"
  BY ZeroedLine
<1>2. /\ State' \in {"Disconnected", "ConnectedWaitForAppStart"} /\ Timeus' = 0
      /\ LastDevice' = 0 /\ LastBank' = 0 /\ ChainList' = ZeroChainList
      /\ rx' = <<>> /\ next' = 1
  BY DEF ConnectFails, Connect, CloseDevice, Zeroed
<1>3. HostType'
  BY <1>1, <1>2, ZeroedType, ConstantFacts DEF HostType, States
<1>4. HandlerOK'
  BY <1>1, <1>2 DEF HandlerOK
<1>5. UNCHANGED <<chain, clean, wanted, touched, hasty, lost>>
  BY DEF ConnectFails, Connect, CloseDevice, counts
<1>6. BankType'
  BY <1>5 DEF BankType, chain
<1> QED  BY <1>1, <1>3, <1>4, <1>6

LEMMA EditTypes ==
  ASSUME TypeInv, Edit
  PROVE  /\ TypeInv' /\ UNCHANGED <<State, LastDevice, LastBank, handler>>
         /\ Uplink' = Uplink /\ Downlink' = Downlink /\ HostStep(ToAll("START"))
         /\ \E p \in Known(ChainList) \cap Banks, image \in Images :
              /\ ChainList'[p].settings = image /\ ChainList'[p].settingsState = "NeedsWrite"
              /\ ChainList'[p].deviceType = ChainList[p].deviceType
              /\ ChainList'[p].boot = ChainList[p].boot
              /\ \A q \in Slots : q # p => ChainList'[q] = ChainList[q]
              /\ wanted' = [wanted EXCEPT ![p] = @ \cup {image}]
              /\ touched' = IF Early THEN touched \cup {p} ELSE touched
<1> USE DEF TypeInv
<1>1. PICK p \in Known(ChainList) \cap Banks, image \in Images :
        /\ ChainList' = [ChainList EXCEPT ![p].settings = image,
                                          ![p].settingsState = "NeedsWrite"]
        /\ wanted' = [wanted EXCEPT ![p] = @ \cup {image}]
        /\ touched' = IF Early THEN touched \cup {p} ELSE touched
  BY DEF Edit
<1>2. /\ UNCHANGED <<State, Timeus, LastDevice, LastBank, batch, tx, down, up, chain, clean,
                     hasty, lost>>
      /\ UNCHANGED <<rx, next, handler, stored, staged, due>>
  BY DEF Edit, batch, chain
<1>3. p \in Slots /\ p \in Banks /\ image \in Image
  BY ConstantFacts DEF Image
<1>4. PICK r \in ChipInfo :
        r = [ChainList[p] EXCEPT !.settings = image, !.settingsState = "NeedsWrite"]
  <2>1. ChainList[p] \in ChipInfo /\ "NeedsWrite" \in SettingsStates
    BY <1>3 DEF HostType, SettingsStates
  <2> QED  BY <1>3, <2>1 DEF ChipInfo
<1>5. /\ r.settings = image /\ r.settingsState = "NeedsWrite"
      /\ r.deviceType = ChainList[p].deviceType /\ r.boot = ChainList[p].boot
  <2>1. ChainList[p] \in ChipInfo
    BY <1>3 DEF HostType
  <2> QED  BY <1>4, <2>1 DEF ChipInfo
<1>6. ChainList' = [ChainList EXCEPT ![p] = r]
  BY <1>1, <1>3, <1>4 DEF HostType
<1>7. /\ ChainList' \in [Slots -> ChipInfo] /\ ChainList'[p] = r
      /\ \A q \in Slots : q # p => ChainList'[q] = ChainList[q]
  BY <1>3, <1>6, ChipChange DEF HostType
<1>8. HostType' /\ HandlerOK'
  BY <1>2, <1>7 DEF HostType, HandlerOK
<1>9. /\ LineType' /\ Uplink' = Uplink /\ Downlink' = Downlink /\ HostStep(ToAll("START"))
  BY <1>2, StillLine
<1>10. BankType'
  <2>1. wanted' \in [Banks -> SUBSET Image] /\ touched' \subseteq Banks
    BY <1>1, <1>3 DEF BankType
  <2> QED  BY <1>2, <2>1 DEF BankType
<1>11. ChainList'[p].settings = image /\ ChainList'[p].settingsState = "NeedsWrite"
  BY <1>5, <1>7
<1>12. ChainList'[p].deviceType = ChainList[p].deviceType /\ ChainList'[p].boot = ChainList[p].boot
  BY <1>5, <1>7
<1> QED  BY <1>1, <1>2, <1>7, <1>8, <1>9, <1>10, <1>11, <1>12

LEMMA SetSettingsTypes ==
  ASSUME TypeInv, SetSettings
  PROVE  TypeInv'
<1> USE DEF TypeInv
<1>1. /\ StartWriteSettings(ChainList) /\ handler = "none"
      /\ UNCHANGED <<Timeus, LastDevice, LastBank, ChainList, batch, down, up, chain, clean,
                     wanted, touched, lost>>
      /\ UNCHANGED <<rx, next, handler, stored, staged, due>>
  BY DEF SetSettings, MayCall, Idle, batch, chain
<1>2. /\ tx' \in Seq(HostFrames) /\ Len(tx') <= TxMax
      /\ State' \in {"Connected", "ConnectedWaitWriteSettings"}
  BY <1>1, StartWriteLine DEF HostType
<1>3. LineType'
  BY <1>1, <1>2, StepLine
<1>4. HostType' /\ HandlerOK'
  BY <1>1, <1>2 DEF HostType, HandlerOK, States
<1>5. hasty' \in BOOLEAN
  BY DEF SetSettings, BankType, Early
<1> QED  BY <1>1, <1>3, <1>4, <1>5 DEF BankType

LEMMA RequestSettingsTypes ==
  ASSUME TypeInv, RequestSettings
  PROVE  /\ TypeInv' /\ UNCHANGED <<LastDevice, LastBank>>
         /\ \A p \in Slots :
              /\ ChainList'[p].settings = ChainList[p].settings
              /\ ChainList'[p].deviceType = ChainList[p].deviceType
              /\ ChainList'[p].boot = ChainList[p].boot
              /\ ChainList'[p].settingsState =
                   IF p \in Known(ChainList) THEN "NeedsRead" ELSE ChainList[p].settingsState
<1> USE DEF TypeInv
<1>1. /\ StartReadSettings /\ handler = "none" /\ State = "Connected"
      /\ UNCHANGED <<Timeus, LastDevice, LastBank, batch, down, up, chain, wanted, touched,
                     hasty, lost>>
      /\ UNCHANGED <<rx, next, handler, stored, staged, due>>
      /\ State' = "ConnectedWaitReadSettings"
      /\ SendPacket(ReadCommand(<<0, 0>>, 0))
  BY DEF RequestSettings, StartReadSettings, Idle, batch, chain
<1>2. ReadCommand(<<0, 0>>, 0) \in HostFrames
  <2>1. <<0, 0>>[1] \in Nat /\ <<0, 0>>[2] \in 0 .. 8 /\ 0 \in Parts
    BY ConstantFacts
  <2> QED  BY <2>1, ReadCommandType
<1>3. LineType'
  <2>1. tx' \in Seq(HostFrames) /\ Len(tx') <= TxMax
    BY <1>1, <1>2, SendLine
  <2> QED  BY <1>1, <2>1, StepLine
<1>4. ASSUME NEW p \in Slots
      PROVE  /\ ChainList'[p] \in ChipInfo
             /\ ChainList'[p].settings = ChainList[p].settings
             /\ ChainList'[p].deviceType = ChainList[p].deviceType
             /\ ChainList'[p].boot = ChainList[p].boot
             /\ ChainList'[p].settingsState =
                  IF p \in Known(ChainList) THEN "NeedsRead" ELSE ChainList[p].settingsState
  <2>1. ChainList[p] \in ChipInfo
    BY DEF HostType
  <2>2. ChainList'[p] = IF p \in Known(ChainList)
                        THEN [ChainList[p] EXCEPT !.settingsState = "NeedsRead"]
                        ELSE ChainList[p]
    BY <1>1 DEF StartReadSettings
  <2> QED  BY <2>1, <2>2 DEF ChipInfo, SettingsStates
<1>5. ChainList' \in [Slots -> ChipInfo]
  <2>1. ChainList' = [p \in Slots |-> ChainList'[p]]
    BY <1>1 DEF StartReadSettings
  <2> QED  BY <1>4, <2>1
<1>6. HostType' /\ HandlerOK'
  BY <1>1, <1>5 DEF HostType, HandlerOK, States
<1>7. clean' \in BOOLEAN
  BY DEF RequestSettings
<1> QED  BY <1>1, <1>3, <1>4, <1>6, <1>7 DEF BankType

LEMMA ElapseType ==
  ASSUME TypeInv, Elapse
  PROVE  Timeus' \in 0 .. StartDelay + 1
BY ConstantFacts DEF Elapse, TypeInv, HostType

LEMMA TickTypes ==
  ASSUME TypeInv, Tick \/ TickFails
  PROVE  /\ TypeInv' /\ UNCHANGED <<State, LastDevice, LastBank, ChainList>>
         /\ UNCHANGED <<stored, staged, due, clean, wanted, touched, hasty, lost>>
         /\ Uplink' = Uplink /\ Downlink' = Downlink /\ HostStep(ToAll("START"))
         /\ handler' = State \/ handler' = "none"
<1> USE DEF TypeInv
<1>1. /\ handler = "none" /\ State # "Disconnected" /\ Elapse
      /\ UNCHANGED <<State, LastDevice, LastBank, ChainList>>
      /\ UNCHANGED <<stored, staged, due, clean, wanted, touched, hasty, lost>>
  BY DEF Tick, TickFails, Idle, chain, counts
<1>2. LineType' /\ Uplink' = Uplink /\ Downlink' = Downlink /\ HostStep(ToAll("START"))
  <2>1. CASE Tick
    BY <2>1, TickLine
  <2>2. CASE TickFails
    BY <2>2, StillLine DEF TickFails
  <2> QED  BY <2>1, <2>2
<1>3. handler' = State \/ (UNCHANGED <<handler, rx, next>>)
  BY DEF Tick, TickFails, batch
<1>4. HostType'
  BY <1>1, <1>3, ElapseType DEF HostType
<1>5. HandlerOK'
  BY <1>1, <1>3 DEF HandlerOK, HostType, States
<1>6. BankType'
  BY <1>1 DEF BankType
<1> QED  BY <1>1, <1>2, <1>3, <1>4, <1>5, <1>6

LEMMA WaitForStartTypes ==
  ASSUME TypeInv, WaitForStartHeader
  PROVE  TypeInv'
<1> USE DEF TypeInv
<1>1. /\ handler = "ConnectedWaitForAppStart" /\ State = "ConnectedWaitForAppStart" /\ Return
      /\ UNCHANGED <<Timeus, down, up, clean, stored, staged, due>>
      /\ \/ IdentifyChain /\ NewSession
         \/ UNCHANGED <<State, tx, LastBank, LastDevice, ChainList, wanted, touched, hasty, lost>>
  BY DEF WaitForStartHeader, HandlerOK, chain, counts
<1>2. tx' \in Seq(HostFrames) /\ Len(tx') <= TxMax
  <2>1. CASE SendPacket(ToAll("IDENTIFY"))
    BY <1>1, <2>1, ToAllType, SendLine
  <2>2. CASE UNCHANGED tx
    BY <1>1, <2>2, SilentLine
  <2> QED  BY <1>1, <2>1, <2>2 DEF IdentifyChain
<1>3. LineType'
  BY <1>1, <1>2, StepLine
<1>4. HostType' /\ HandlerOK'
  <2>1. /\ State' \in States /\ LastDevice' \in 0 .. MaxDevices - 1
        /\ LastBank' \in 0 .. MaxDevices - 1 /\ ChainList' \in [Slots -> ChipInfo]
    BY <1>1, ZeroedType, ConstantFacts DEF IdentifyChain, HostType, States
  <2> QED  BY <1>1, <2>1 DEF HostType, HandlerOK, Return
<1>5. BankType'
  <2>1. CASE UNCHANGED <<wanted, touched, hasty, lost>>
    BY <1>1, <2>1 DEF BankType
  <2>2. CASE NewSession
    <3>1. wanted' \in [Banks -> SUBSET Image]
      BY <2>2 DEF NewSession, BankType
    <3> QED  BY <1>1, <2>2, <3>1 DEF NewSession, BankType
  <2> QED  BY <1>1, <2>1, <2>2
<1> QED  BY <1>3, <1>4, <1>5

\* The answer to IDENTIFY goes into the slot of the bank that sent it.
LEMMA LookForIdentTypes ==
  ASSUME TypeInv, LookForIdentResponse
  PROVE  /\ TypeInv' /\ UNCHANGED <<tx, down, up>> /\ Downlink' = Downlink
         /\ HostStep(ToAll("START"))
         /\ \A p \in Slots : /\ ChainList'[p].settings = ChainList[p].settings
                             /\ ChainList'[p].settingsState = ChainList[p].settingsState
<1> USE DEF TypeInv
<1>1. /\ handler = "ConnectedWaitIdentResponse" /\ next <= Len(rx) /\ Continue
      /\ UNCHANGED <<Timeus, down, up, clean, stored, staged, due, wanted, touched, hasty, lost>>
      /\ UNCHANGED <<tx, handler>> /\ handler # "none"
  BY DEF LookForIdentResponse, HandlerFrame, chain, counts, Continue
<1>2. LineType' /\ rx[next] \in Frames /\ Downlink' = Downlink /\ HostStep(ToAll("START"))
  <2>1. rx[next] \in Frames
    BY <1>1, ContinueLine
  <2>2. /\ tx' \in Seq(HostFrames) /\ Len(tx') <= TxMax /\ Downlink' = Downlink
        /\ Fewer(Downlink', Downlink)
    BY <1>1, SilentLine
  <2>3. LineType' /\ Fewer(Uplink', Uplink)
    BY <1>1, <2>2, StepLine
  <2> QED  BY <2>1, <2>2, <2>3, LineSeqs, NothingSent
<1>3. CASE ~IsIdent(rx[next])
  <2>1. UNCHANGED <<LastDevice, LastBank, ChainList, State>>
    BY <1>3 DEF LookForIdentResponse
  <2>2. HostType' /\ HandlerOK' /\ BankType'
    BY <1>1, <2>1 DEF HostType, HandlerOK, BankType
  <2> QED  BY <1>1, <1>2, <2>1, <2>2
<1>4. CASE IsIdent(rx[next])
  <2>1. PICK f \in IdentFrames : f = rx[next]
    BY <1>2, <1>4, FrameFacts DEF IsIdent
  <2>2. PICK p \in Slots : p = <<f.device, f.bank>>
    BY <2>1, IdentFacts, ConstantFacts DEF Source
  <2>3. /\ f.device \in 0 .. MaxDevices - 1 /\ f.bank \in 0 .. MaxDevices - 1
        /\ f.value \in Identity
    <3>1. p[1] = f.device /\ p[2] = f.bank
      BY <2>2
    <3> QED  BY <2>1, <3>1, IdentFacts DEF Slots
  <2>4. /\ ChainList' = [ChainList EXCEPT ![p].deviceType = f.value.deviceType,
                                          ![p].boot = f.value.boot]
        /\ State' = "Connected" \/ State' = State
        /\ LastDevice' \in {f.device, LastDevice} /\ LastBank' \in {f.bank, LastBank}
    BY <1>4, <2>1, <2>2 DEF LookForIdentResponse
  <2>5. PICK r \in ChipInfo :
          r = [ChainList[p] EXCEPT !.deviceType = f.value.deviceType, !.boot = f.value.boot]
    <3>1. ChainList[p] \in ChipInfo
      BY DEF HostType
    <3>2. f.value.deviceType \in DOMAIN BanksOf /\ f.value.boot \in BOOLEAN
      BY <2>3 DEF Identity
    <3> QED  BY <3>1, <3>2 DEF ChipInfo
  <2>6. r.settings = ChainList[p].settings /\ r.settingsState = ChainList[p].settingsState
    <3>1. ChainList[p] \in ChipInfo
      BY DEF HostType
    <3> QED  BY <2>5, <3>1 DEF ChipInfo
  <2>7. ChainList' = [ChainList EXCEPT ![p] = r]
    BY <2>4, <2>5 DEF HostType
  <2>8. /\ ChainList' \in [Slots -> ChipInfo] /\ ChainList'[p] = r
        /\ \A q \in Slots : q # p => ChainList'[q] = ChainList[q]
    BY <2>7, ChipChange DEF HostType
  <2>9. \A q \in Slots : /\ ChainList'[q].settings = ChainList[q].settings
                         /\ ChainList'[q].settingsState = ChainList[q].settingsState
    BY <2>6, <2>8
  <2>10. HostType'
    BY <1>1, <2>3, <2>4, <2>8 DEF HostType, States
  <2>11. HandlerOK' /\ BankType'
    BY <1>1, <2>4 DEF HandlerOK, BankType
  <2> QED  BY <1>1, <1>2, <2>9, <2>10, <2>11
<1> QED  BY <1>3, <1>4

\* What is asked for next is a part, of this bank or the next one.
LEMMA ReadNextType ==
  ASSUME TypeInv, NEW p \in Banks, NEW k \in Parts
  PROVE  /\ ReadNext(p, k, ChainList) \in HostFrames
         /\ ReadNext(p, k, ChainList).cmd = "READ_SETTINGS"
         /\ ReadNext(p, k, ChainList).sof = "AA"
<1>1. p[1] \in 0 .. 7 /\ p[2] \in 0 .. 7 /\ p \in Slots
  BY ConstantFacts, SlotFields
<1>2. k \in 0 .. NumParts /\ NumParts \in Nat /\ 0 \in Parts
  BY ConstantFacts
<1>3. CASE k # NumParts
  <2>1. k + 1 \in Parts
    BY <1>2, <1>3 DEF Parts
  <2>2. ReadNext(p, k, ChainList) = ReadCommand(p, k + 1)
    BY <1>3 DEF ReadNext, LastPart
  <2> QED  BY <1>1, <2>1, <2>2, ReadCommandType
<1>4. CASE k = NumParts /\ ~LastBankOf(p, ChainList)
  <2>1. <<p[1], p[2] + 1>>[1] \in Nat /\ <<p[1], p[2] + 1>>[2] \in 0 .. 8
    BY <1>1
  <2>2. ReadNext(p, k, ChainList) = ReadCommand(<<p[1], p[2] + 1>>, 0)
    BY <1>4 DEF ReadNext, LastPart
  <2> QED  BY <1>2, <2>1, <2>2, ReadCommandType
<1>5. CASE k = NumParts /\ LastBankOf(p, ChainList) /\ p[1] # LastDevice
  <2>1. <<p[1] + 1, 0>>[1] \in Nat /\ <<p[1] + 1, 0>>[2] \in 0 .. 8
    BY <1>1
  <2>2. ReadNext(p, k, ChainList) = ReadCommand(<<p[1] + 1, 0>>, 0)
    BY <1>5 DEF ReadNext, LastPart
  <2> QED  BY <1>2, <2>1, <2>2, ReadCommandType
<1>6. CASE k = NumParts /\ LastBankOf(p, ChainList) /\ p[1] = LastDevice
  <2>1. ReadNext(p, k, ChainList) = ReadCommand(p, k)
    BY <1>6 DEF ReadNext, LastPart
  <2> QED  BY <1>1, <2>1, ReadCommandType
<1> QED  BY <1>3, <1>4, <1>5, <1>6

\* A part of settings that is read goes into the slot of the bank that sent it.
ReadEffect(f) ==
  LET p == Source(f)
  IN  /\ f = rx[next] /\ Uplink = <<f>> \o Uplink' /\ Uplink' \in Seq(Frames)
      /\ Fewer(Downlink', Downlink \o <<ReadNext(p, f.part, ChainList)>>)
      /\ State' = IF LastPart(f.part) /\ LastOfAll(p, ChainList) THEN "Connected" ELSE State
      /\ ChainList'[p].settings = [ChainList[p].settings EXCEPT ![f.part] = f.value]
      /\ ChainList'[p].settingsState =
           IF LastPart(f.part) THEN "Valid" ELSE ChainList[p].settingsState
      /\ ChainList'[p].deviceType = ChainList[p].deviceType
      /\ ChainList'[p].boot = ChainList[p].boot
      /\ \A q \in Slots : q # p => ChainList'[q] = ChainList[q]

LEMMA ReadSettingsTypes ==
  ASSUME TypeInv, ReadSettings
  PROVE  /\ TypeInv'
         /\ \/ /\ HostStep(ToAll("START")) /\ ~IsReadAnswer(rx[next])
               /\ UNCHANGED <<ChainList, State>>
               /\ Downlink' = Downlink
            \/ \E f \in AnswerFrames : f.cmd = "READ_SETTINGS" /\ ReadEffect(f)
<1> USE DEF TypeInv
<1>1. /\ handler = "ConnectedWaitReadSettings" /\ next <= Len(rx) /\ Continue
      /\ UNCHANGED <<Timeus, LastDevice, LastBank, down, up, clean, stored, staged, due, wanted,
                     touched, hasty, lost>>
      /\ UNCHANGED handler /\ handler # "none"
  BY DEF ReadSettings, HandlerFrame, chain, counts, Continue
<1>2. rx[next] \in Frames /\ Uplink = <<rx[next]>> \o Uplink' /\ Uplink' \in Seq(Frames)
  BY <1>1, ContinueLine
<1>3. BankType'
  BY <1>1 DEF BankType
<1>4. CASE ~IsReadAnswer(rx[next])
  <2>1. UNCHANGED <<ChainList, State, tx>>
    BY <1>4 DEF ReadSettings
  <2>2. /\ tx' \in Seq(HostFrames) /\ Len(tx') <= TxMax /\ Downlink' = Downlink
        /\ Fewer(Downlink', Downlink)
    BY <1>1, <2>1, SilentLine
  <2>3. LineType' /\ Fewer(Uplink', Uplink)
    BY <1>1, <2>2, StepLine
  <2>4. HostType' /\ HandlerOK'
    BY <1>1, <2>1 DEF HostType, HandlerOK
  <2> QED  BY <1>3, <1>4, <2>1, <2>2, <2>3, <2>4, LineSeqs, NothingSent
<1>5. CASE IsReadAnswer(rx[next])
  <2>1. PICK f \in AnswerFrames : f = rx[next]
    BY <1>2, <1>5, FrameFacts DEF IsReadAnswer
  <2>2. PICK p \in Banks : p = Source(f)
    BY <2>1, AnswerFacts
  <2>3. p \in Slots /\ f.part \in Parts /\ f.value \in Nat /\ f.cmd = "READ_SETTINGS"
    BY <1>5, <2>1, AnswerFacts, ConstantFacts DEF IsReadAnswer
  <2>4. PICK c \in HostFrames : c = ReadNext(p, f.part, ChainList)
    BY <2>3, ReadNextType
  <2>5. /\ ChainList' = [ChainList EXCEPT
             ![p].settings[f.part] = f.value,
             ![p].settingsState = IF LastPart(f.part) THEN "Valid" ELSE @]
        /\ State' = IF LastPart(f.part) /\ LastOfAll(p, ChainList) THEN "Connected" ELSE State
        /\ SendPacket(c)
    BY <1>5, <2>1, <2>2, <2>4 DEF ReadSettings, Source
  <2>6. /\ tx' \in Seq(HostFrames) /\ Len(tx') <= TxMax
        /\ Fewer(Downlink', Downlink \o <<c>>)
    BY <1>1, <2>5, SendLine
  <2>7. LineType'
    BY <1>1, <2>6, StepLine
  <2> DEFINE s == [ChainList[p].settings EXCEPT ![f.part] = f.value]
             st == IF LastPart(f.part) THEN "Valid" ELSE ChainList[p].settingsState
  <2>8. ChainList[p] \in ChipInfo
    BY <2>3 DEF HostType
  <2>9. s \in Image /\ st \in SettingsStates
    BY <2>3, <2>8 DEF ChipInfo, Image, SettingsStates
  <2>10. ChainList' = [ChainList EXCEPT ![p] =
           [ChainList[p] EXCEPT !.settings = s, !.settingsState = st]]
    BY <2>5 DEF HostType
  <2> HIDE DEF s, st
  <2>11. PICK r \in ChipInfo : r = [ChainList[p] EXCEPT !.settings = s, !.settingsState = st]
    BY <2>8, <2>9 DEF ChipInfo
  <2>12. /\ r.settings = s /\ r.settingsState = st
         /\ r.deviceType = ChainList[p].deviceType /\ r.boot = ChainList[p].boot
    BY <2>8, <2>11 DEF ChipInfo
  <2>13. /\ ChainList' \in [Slots -> ChipInfo] /\ ChainList'[p] = r
         /\ \A q \in Slots : q # p => ChainList'[q] = ChainList[q]
    BY <2>3, <2>10, <2>11, ChipChange DEF HostType
  <2>14. HostType' /\ HandlerOK'
    BY <1>1, <2>5, <2>13 DEF HostType, HandlerOK, States
  <2>15. ReadEffect(f)
    BY <1>2, <2>1, <2>2, <2>4, <2>5, <2>6, <2>12, <2>13 DEF ReadEffect, s, st
  <2> QED  BY <1>3, <2>3, <2>7, <2>14, <2>15
<1> QED  BY <1>4, <1>5

\* An echo lets the host send the next part, or end the writing of the bank.
WriteEffect(f) ==
  LET p == Target(f)
  IN  /\ f = rx[next] /\ Uplink = <<f>> \o Uplink' /\ Uplink' \in Seq(Frames)
      /\ UNCHANGED down
      /\ \/ /\ LastPart(f.part) /\ FinishWrite(ChainList')
            /\ ChainList'[p].settingsState = "Valid"
            /\ ChainList'[p].settings = ChainList[p].settings
            /\ ChainList'[p].deviceType = ChainList[p].deviceType
            /\ ChainList'[p].boot = ChainList[p].boot
            /\ \A q \in Slots : q # p => ChainList'[q] = ChainList[q]
         \/ /\ ~LastPart(f.part) /\ SendPacket(WriteCommand(p, f.part + 1, ChainList))
            /\ f.part + 1 \in Parts /\ UNCHANGED <<ChainList, State>>

LEMMA WriteSettingsTypes ==
  ASSUME TypeInv, WriteSettings
  PROVE  /\ TypeInv'
         /\ \/ /\ HostStep(ToAll("START")) /\ ~IsWriteEcho(rx[next])
               /\ UNCHANGED <<ChainList, State>> /\ Downlink' = Downlink
            \/ \E f \in HostFrames : f.cmd = "WRITE_SETTINGS" /\ WriteEffect(f)
<1> USE DEF TypeInv
<1>1. /\ handler = "ConnectedWaitWriteSettings" /\ next <= Len(rx) /\ Continue
      /\ UNCHANGED <<Timeus, LastDevice, LastBank, down, up, clean, stored, staged, due, wanted,
                     touched, hasty, lost>>
      /\ UNCHANGED handler /\ handler # "none"
  BY DEF WriteSettings, HandlerFrame, chain, counts, Continue
<1>2. rx[next] \in Frames /\ Uplink = <<rx[next]>> \o Uplink' /\ Uplink' \in Seq(Frames)
  BY <1>1, ContinueLine
<1>3. BankType'
  BY <1>1 DEF BankType
<1>4. CASE ~IsWriteEcho(rx[next])
  <2>1. UNCHANGED <<ChainList, State, tx>>
    BY <1>4 DEF WriteSettings
  <2>2. /\ tx' \in Seq(HostFrames) /\ Len(tx') <= TxMax /\ Downlink' = Downlink
        /\ Fewer(Downlink', Downlink)
    BY <1>1, <2>1, SilentLine
  <2>3. LineType' /\ Fewer(Uplink', Uplink)
    BY <1>1, <2>2, StepLine
  <2>4. HostType' /\ HandlerOK'
    BY <1>1, <2>1 DEF HostType, HandlerOK
  <2> QED  BY <1>3, <1>4, <2>1, <2>2, <2>3, <2>4, LineSeqs, NothingSent
<1>5. CASE IsWriteEcho(rx[next])
  <2>1. PICK f \in HostFrames : f = rx[next]
    BY <1>2, <1>5, FrameFacts DEF IsWriteEcho
  <2>2. f.cmd = "WRITE_SETTINGS" /\ f.part \in Parts
    BY <1>5, <2>1, HostFrameFacts DEF IsWriteEcho
  <2>3. PICK p \in Slots : p = Target(f)
    BY <2>2, HostFrameFacts
  <2>4. CASE LastPart(f.part)
    <3>1. /\ ChainList' = [ChainList EXCEPT ![p].settingsState = "Valid"]
          /\ FinishWrite(ChainList')
      BY <1>5, <2>1, <2>3, <2>4 DEF WriteSettings, Target
    <3>2. ChainList[p] \in ChipInfo
      BY DEF HostType
    <3>3. PICK r \in ChipInfo : r = [ChainList[p] EXCEPT !.settingsState = "Valid"]
      BY <3>2 DEF ChipInfo, SettingsStates
    <3>4. /\ r.settings = ChainList[p].settings /\ r.settingsState = "Valid"
          /\ r.deviceType = ChainList[p].deviceType /\ r.boot = ChainList[p].boot
      BY <3>2, <3>3 DEF ChipInfo
    <3>5. ChainList' = [ChainList EXCEPT ![p] = r]
      BY <3>1, <3>3 DEF HostType
    <3>6. /\ ChainList' \in [Slots -> ChipInfo] /\ ChainList'[p] = r
          /\ \A q \in Slots : q # p => ChainList'[q] = ChainList[q]
      BY <3>5, ChipChange DEF HostType
    <3>7. PICK cl \in [Slots -> ChipInfo] : cl = ChainList'
      BY <3>6
    <3>8. /\ tx' \in Seq(HostFrames) /\ Len(tx') <= TxMax
          /\ State' \in {"Connected", "ConnectedWaitWriteSettings",
                         "ConnectedWaitFinishWriteSettings"}
      <4>1. FinishWrite(cl)
        BY <3>1, <3>7
      <4> QED  BY <1>1, <4>1, FinishWriteLine
    <3>9. LineType'
      BY <1>1, <3>8, StepLine
    <3>10. HostType' /\ HandlerOK'
      BY <1>1, <3>6, <3>8 DEF HostType, HandlerOK, States
    <3>11. WriteEffect(f)
      BY <1>1, <1>2, <2>1, <2>3, <2>4, <3>1, <3>4, <3>6 DEF WriteEffect
    <3> QED  BY <1>3, <2>2, <3>9, <3>10, <3>11
  <2>5. CASE ~LastPart(f.part)
    <3>1. /\ SendPacket(WriteCommand(p, f.part + 1, ChainList))
          /\ UNCHANGED <<ChainList, State>>
      BY <1>5, <2>1, <2>3, <2>5 DEF WriteSettings, Target
    <3>2. f.part + 1 \in Parts
      BY <2>2, <2>5, ConstantFacts DEF LastPart, Parts
    <3>3. WriteCommand(p, f.part + 1, ChainList) \in HostFrames
      BY <3>2, WriteCommandType DEF HostType
    <3>4. tx' \in Seq(HostFrames) /\ Len(tx') <= TxMax
      BY <1>1, <3>1, <3>3, SendLine
    <3>5. LineType'
      BY <1>1, <3>4, StepLine
    <3>6. HostType' /\ HandlerOK'
      BY <1>1, <3>1 DEF HostType, HandlerOK
    <3>7. WriteEffect(f)
      BY <1>1, <1>2, <2>1, <2>3, <2>5, <3>1, <3>2 DEF WriteEffect
    <3> QED  BY <1>3, <2>2, <3>5, <3>6, <3>7
  <2> QED  BY <2>4, <2>5
<1> QED  BY <1>4, <1>5

LEMMA WaitFinishTypes ==
  ASSUME TypeInv, WaitFinishWriteSettings
  PROVE  TypeInv' /\ Fewer(Uplink', Uplink)
<1> USE DEF TypeInv
<1>1. /\ FinishWrite(ChainList) /\ Return
      /\ UNCHANGED <<Timeus, LastDevice, LastBank, ChainList, down, up, clean, stored, staged,
                     due, wanted, touched, hasty, lost>>
  BY DEF WaitFinishWriteSettings, HandlerFrame, chain, counts
<1>2. /\ tx' \in Seq(HostFrames) /\ Len(tx') <= TxMax
      /\ State' \in {"Connected", "ConnectedWaitWriteSettings",
                     "ConnectedWaitFinishWriteSettings"}
  BY <1>1, FinishWriteLine DEF HostType
<1>3. LineType' /\ Fewer(Uplink', Uplink)
  BY <1>1, <1>2, StepLine
<1>4. HostType' /\ HandlerOK' /\ BankType'
  BY <1>1, <1>2 DEF HostType, HandlerOK, BankType, States, Return
<1> QED  BY <1>3, <1>4

LEMMA EndBatchTypes ==
  ASSUME TypeInv, EndBatch
  PROVE  /\ TypeInv' /\ HostStep(ToAll("START")) /\ handler' = "none"
         /\ Downlink' = Downlink
         /\ UNCHANGED <<State, LastDevice, LastBank, ChainList, stored, staged, due, clean,
                        wanted, touched, hasty, lost>>
<1> USE DEF TypeInv
<1>1. /\ Return /\ handler' = "none"
      /\ UNCHANGED <<State, Timeus, LastDevice, LastBank, ChainList, tx, down, up, clean, stored,
                     staged, due, wanted, touched, hasty, lost>>
  BY DEF EndBatch, HandlerFrame, chain, counts, Return
<1>2. /\ tx' \in Seq(HostFrames) /\ Len(tx') <= TxMax /\ Downlink' = Downlink
      /\ Fewer(Downlink', Downlink)
  BY <1>1, SilentLine
<1>3. LineType' /\ Fewer(Uplink', Uplink)
  BY <1>1, <1>2, StepLine
<1>4. HostType' /\ HandlerOK' /\ BankType'
  BY <1>1 DEF HostType, HandlerOK, BankType, Return
<1> QED  BY <1>1, <1>2, <1>3, <1>4, LineSeqs, NothingSent

\* What the chain stores of a command.
LEMMA BankStores ==
  ASSUME TypeInv, ChainTakes
  PROVE  LET f == Head(down)
             p == Target(f)
         IN  \/ ~(f.cmd = "WRITE_SETTINGS" /\ p \in Banks \ InBootloader)
                /\ UNCHANGED <<stored, staged, due>>
             \/ /\ f.cmd = "WRITE_SETTINGS" /\ p \in Banks \ InBootloader
                /\ f.part \in Parts /\ f.value \in Nat
                /\ staged' = [staged EXCEPT ![p] = [staged[p] EXCEPT ![f.part] = f.value]]
                /\ \/ f.part = NumParts /\ stored' = [stored EXCEPT ![p] = staged'[p]]
                      /\ due' = due \cup {p}
                   \/ f.part # NumParts /\ UNCHANGED <<stored, due>>
<1>1. PICK f \in HostFrames : f = Head(down)
  BY TakeLine
<1>2. CASE f.cmd = "WRITE_SETTINGS" /\ Target(f) \in Banks \ InBootloader
  <2>1. BankWrites(Target(f), f)
    BY <1>1, <1>2 DEF ChainTakes
  <2>2. f.part \in Parts /\ f.value \in Nat
    BY HostFrameFacts
  <2> QED  BY <1>1, <1>2, <2>1, <2>2 DEF BankWrites, TypeInv, BankType
<1>3. CASE ~(f.cmd = "WRITE_SETTINGS" /\ Target(f) \in Banks \ InBootloader)
  <2>1. UNCHANGED chain
    BY <1>1, <1>3 DEF ChainTakes
  <2> QED  BY <1>1, <1>3, <2>1 DEF chain
<1> QED  BY <1>2, <1>3

LEMMA ChainTakesTypes ==
  ASSUME TypeInv, ChainTakes
  PROVE  TypeInv' /\ UNCHANGED <<host, handler, rx, next, clean, wanted, touched, hasty, lost>>
<1> USE DEF TypeInv
<1>1. /\ UNCHANGED <<host, batch, clean, wanted, counts>>
      /\ UNCHANGED <<State, Timeus, LastDevice, LastBank, ChainList, handler, rx, next, clean,
                     wanted, touched, hasty, lost>>
  BY DEF ChainTakes, host, batch, counts
<1>2. LineType'
  BY TakeLine
<1>3. HostType' /\ HandlerOK'
  BY <1>1 DEF HostType, HandlerOK
<1>4. stored' \in [Banks -> Image] /\ staged' \in [Banks -> Image] /\ due' \subseteq Banks
  <2>1. CASE UNCHANGED <<stored, staged, due>>
    BY <2>1 DEF BankType
  <2>2. ASSUME NEW p \in Banks, NEW k \in Parts, NEW v \in Nat,
               staged' = [staged EXCEPT ![p] = [staged[p] EXCEPT ![k] = v]],
               \/ stored' = [stored EXCEPT ![p] = staged'[p]] /\ due' = due \cup {p}
               \/ UNCHANGED <<stored, due>>
        PROVE  stored' \in [Banks -> Image] /\ staged' \in [Banks -> Image] /\ due' \subseteq Banks
    <3>1. PICK im \in Image : im = [staged[p] EXCEPT ![k] = v]
      BY DEF BankType, Image
    <3>2. staged' \in [Banks -> Image] /\ staged'[p] = im
      BY <2>2, <3>1 DEF BankType
    <3> QED  BY <2>2, <3>2 DEF BankType
  <2>3. CASE UNCHANGED <<stored, staged, due>> \/
             \E p \in Banks, k \in Parts, v \in Nat :
               /\ staged' = [staged EXCEPT ![p] = [staged[p] EXCEPT ![k] = v]]
               /\ \/ stored' = [stored EXCEPT ![p] = staged'[p]] /\ due' = due \cup {p}
                  \/ UNCHANGED <<stored, due>>
    BY <2>1, <2>2, <2>3
  <2> QED  BY <2>3, BankStores
<1>5. BankType'
  BY <1>1, <1>4 DEF BankType
<1> QED  BY <1>1, <1>2, <1>3, <1>5

LEMMA ChainReportsTypes ==
  ASSUME TypeInv, ChainReports
  PROVE  /\ TypeInv' /\ Downlink' = Downlink
         /\ UNCHANGED <<host, handler, rx, next, stored, staged, clean, wanted, touched, hasty,
                        lost, down>>
         /\ \E p \in due, f \in AnswerFrames :
              /\ f = Answer("WRITE_SETTINGS", p, 0, 0) /\ due' = due \ {p}
              /\ Uplink' = Uplink \o <<f>> /\ up' = up \o <<f>>
<1> USE DEF TypeInv
<1>1. PICK p \in due : due' = due \ {p} /\ up' = Append(up, Answer("WRITE_SETTINGS", p, 0, 0))
  BY DEF ChainReports
<1>2. /\ UNCHANGED <<batch, tx, down>>
      /\ UNCHANGED <<host, handler, rx, next, stored, staged, clean, wanted, touched, hasty, lost>>
      /\ UNCHANGED <<State, Timeus, LastDevice, LastBank, ChainList>>
  BY DEF ChainReports, host, batch, counts
<1>3. /\ LineType' /\ Downlink' = Downlink
      /\ Uplink' = Uplink \o <<Answer("WRITE_SETTINGS", p, 0, 0)>>
      /\ up' = up \o <<Answer("WRITE_SETTINGS", p, 0, 0)>>
      /\ Answer("WRITE_SETTINGS", p, 0, 0) \in AnswerFrames
  BY <1>1, <1>2, ReportLine
<1>4. HostType' /\ HandlerOK'
  BY <1>2 DEF HostType, HandlerOK
<1>5. BankType'
  BY <1>1, <1>2 DEF BankType
<1> QED  BY <1>1, <1>2, <1>3, <1>4, <1>5

LEMMA LoseTypes ==
  ASSUME TypeInv, Lose
  PROVE  /\ TypeInv' /\ HostStep(ToAll("START"))
         /\ Fewer(Uplink', Uplink) /\ Fewer(Downlink', Downlink)
         /\ Fewer(up', up) /\ Fewer(down', down)
         /\ UNCHANGED <<host, handler, rx, next, stored, staged, due, clean, wanted, touched,
                        hasty>>
<1> USE DEF TypeInv
<1>1. /\ UNCHANGED <<host, handler, rx, next, stored, staged, due, clean, wanted, touched, hasty>>
      /\ UNCHANGED <<State, Timeus, LastDevice, LastBank, ChainList>> /\ lost' = TRUE
  BY DEF Lose, host, batch, chain
<1>2. HostType' /\ HandlerOK' /\ BankType'
  BY <1>1 DEF HostType, HandlerOK, BankType
<1> QED  BY <1>1, <1>2, LoseLine

LEMMA InitTypes == Init => TypeInv
<1> SUFFICES ASSUME Init PROVE TypeInv
  OBVIOUS
<1>1. HostType
  BY ZeroedType, ConstantFacts DEF Init, HostType, States
<1>2. LineType
  BY EmptySeq, ConstantFacts DEF Init, LineType
<1>3. BankType
  <2>1. Images \subseteq Image
    BY ConstantFacts DEF Image
  <2>2. stored \in [Banks -> Image] /\ staged = stored /\ due = {}
    BY <2>1 DEF Init
  <2>3. wanted \in [Banks -> SUBSET Image]
    BY <2>2 DEF Init
  <2> QED  BY <2>2, <2>3 DEF Init, BankType
<1>4. HandlerOK
  BY DEF Init, HandlerOK
<1> QED  BY <1>1, <1>2, <1>3, <1>4 DEF TypeInv

LEMMA TypesStep == TypeInv /\ [Next]_vars => TypeInv'
<1> SUFFICES ASSUME TypeInv, [Next]_vars PROVE TypeInv'
  OBVIOUS
<1>1. CASE Application
  <2>1. CASE ConnectFails \/ Connect \/ CloseDevice
    BY <2>1, ZeroedTypes
  <2>2. CASE Edit
    BY <2>2, EditTypes
  <2>3. CASE RequestSettings
    BY <2>3, RequestSettingsTypes
  <2>4. CASE SetSettings
    BY <2>4, SetSettingsTypes
  <2> QED  BY <1>1, <2>1, <2>2, <2>3, <2>4 DEF Application
<1>2. CASE Tick \/ TickFails
  BY <1>2, TickTypes
<1>3. CASE Handler
  BY <1>3, WaitForStartTypes, LookForIdentTypes, ReadSettingsTypes, WriteSettingsTypes,
     WaitFinishTypes, EndBatchTypes DEF Handler
<1>4. CASE External
  BY <1>4, ChainTakesTypes, ChainReportsTypes, LoseTypes DEF External
<1>5. CASE UNCHANGED vars
  BY <1>5 DEF vars, host, batch, chain, counts, TypeInv, HostType, LineType, BankType, HandlerOK
<1> QED  BY <1>1, <1>2, <1>3, <1>4, <1>5 DEF Next

LEMMA TypeInvHolds == Spec => []TypeInv
BY InitTypes, TypesStep, PTL DEF Spec

LEMMA OpenType == Spec => [](open \in BOOLEAN)
<1>1. Init => open \in BOOLEAN
  BY DEF Init
<1>2. open \in BOOLEAN /\ [Next]_vars => (open \in BOOLEAN)'
  <2> SUFFICES ASSUME open \in BOOLEAN, [Next]_vars PROVE open' \in BOOLEAN
    OBVIOUS
  <2>1. CASE Application
    BY <2>1 DEF Application, ConnectFails, Connect, CloseDevice, Edit, RequestSettings, SetSettings
  <2>2. CASE Tick \/ TickFails
    BY <2>2 DEF Tick, TickFails
  <2>3. CASE Handler
    BY <2>3 DEF Handler, WaitForStartHeader, LookForIdentResponse, ReadSettings, WriteSettings,
                WaitFinishWriteSettings, EndBatch, HandlerFrame
  <2>4. CASE External
    BY <2>4 DEF External, ChainTakes, ChainReports, Lose
  <2> QED  BY <2>1, <2>2, <2>3, <2>4 DEF Next, vars
<1> QED  BY <1>1, <1>2, PTL DEF Spec

\* An answer is told from an echo by its first byte, and what a bank of the chain or the
\* host itself sends is inside ChainList.
LEMMA FramesInBounds == TypeInv => InBounds
<1> SUFFICES ASSUME TypeInv, handler # "none", next <= Len(rx) PROVE InBounds
  BY DEF InBounds
<1>1. next \in 1 .. Len(rx) /\ rx \in Seq(Frames)
  BY DEF TypeInv, LineType
<1>2. PICK f \in Frames : f = rx[next]
  BY <1>1
<1>3. IsIdent(f) => Source(f) \in Slots
  BY HostFrameFacts, AnswerFacts, IdentFacts, ConstantFacts DEF Frames, IsIdent
<1>4. IsReadAnswer(f) => Source(f) \in Slots /\ f.part \in Parts
  BY HostFrameFacts, AnswerFacts, IdentFacts, ConstantFacts DEF Frames, IsReadAnswer
<1>5. IsWriteEcho(f) => Target(f) \in Slots /\ f.part \in Parts
  BY HostFrameFacts, AnswerFacts, IdentFacts DEF Frames, IsWriteEcho
<1> QED  BY <1>2, <1>3, <1>4, <1>5 DEF InBounds, Source, Target

\* TypeOK: in every state, also with remains of an earlier connection on the line and after
\* calls that came too early, the frame a handler is at names a slot of ChainList and a part,
\* and what the loops over the chain count up to fits in (PacketHandler.c:336-528).
THEOREM TypeOKHolds == Spec => []TypeOK
<1>1. TypeInv /\ open \in BOOLEAN => TypeOK
  <2> SUFFICES ASSUME TypeInv, open \in BOOLEAN PROVE TypeOK
    OBVIOUS
  <2>1. <<LastDevice, LastBank>> \in Slots
    BY DEF TypeInv, HostType, Slots
  <2>2. \A p \in Slots :
          /\ ChainList[p].deviceType \in DOMAIN BanksOf
          /\ DOMAIN ChainList[p].settings = Parts
          /\ ChainList[p].settingsState \in {"NeedsRead", "NeedsWrite", "Valid"}
    BY DEF TypeInv, HostType, ChipInfo, Image, SettingsStates
  <2> QED  BY <2>1, <2>2, FramesInBounds DEF TypeOK, TypeInv, HostType, LineType
<1> QED  BY <1>1, TypeInvHolds, OpenType, PTL

-----------------------------------------------------------------------------
(***************************************************************************)
(* One frame at a time: a command, or what comes back of it                *)
(***************************************************************************)

OneOf(d, u, sof, cmd) ==
  /\ Single(d, "AA", cmd) /\ Single(u, sof, cmd)
  /\ None(d, "AA", cmd) \/ None(u, sof, cmd)

LEMMA NoneSingle ==
  ASSUME NEW s, NEW sof, NEW cmd, None(s, sof, cmd)
  PROVE  Single(s, sof, cmd)
BY DEF None, Single

\* A step of the host that sends no such command.
LEMMA OneKept ==
  ASSUME LinesTyped, NEW f \in HostFrames, HostStep(f), NEW sof, NEW cmd,
         ~IsA(f, "AA", cmd)
  PROVE  /\ OneOf(Downlink, Uplink, sof, cmd) => OneOf(Downlink', Uplink', sof, cmd)
         /\ None(Downlink, "AA", cmd) => None(Downlink', "AA", cmd)
         /\ None(Uplink, sof, cmd) => None(Uplink', sof, cmd)
<1>1. /\ None(<<f>>, "AA", cmd) /\ Single(<<f>>, "AA", cmd) /\ <<f>> \in Seq(HostFrames)
      /\ Downlink \in Seq(HostFrames)
  BY OneFrame DEF LinesTyped
<1>2. None(Downlink, "AA", cmd) => None(Downlink', "AA", cmd)
  <2>1. None(Downlink, "AA", cmd) => None(Downlink \o <<f>>, "AA", cmd)
    BY <1>1, NoneConcat
  <2> QED  BY <2>1, FewerNone DEF HostStep
<1>3. None(Uplink, sof, cmd) => None(Uplink', sof, cmd)
  BY FewerNone DEF HostStep
<1>4. Single(Downlink, "AA", cmd) => Single(Downlink', "AA", cmd)
  <2>1. Single(Downlink, "AA", cmd) => Single(Downlink \o <<f>>, "AA", cmd)
    BY <1>1, SingleConcat
  <2> QED  BY <2>1 DEF HostStep, Fewer
<1>5. Single(Uplink, sof, cmd) => Single(Uplink', sof, cmd)
  BY DEF HostStep, Fewer
<1> QED  BY <1>2, <1>3, <1>4, <1>5 DEF OneOf

\* A command is sent when none is on its way, nor what comes back of one.
LEMMA OneSent ==
  ASSUME LinesTyped, NEW f \in HostFrames, Fewer(Downlink', Downlink \o <<f>>),
         NEW sof, NEW cmd,
         None(Downlink, "AA", cmd), None(Uplink', sof, cmd)
  PROVE  OneOf(Downlink', Uplink', sof, cmd)
<1>1. Single(<<f>>, "AA", cmd) /\ <<f>> \in Seq(HostFrames) /\ Downlink \in Seq(HostFrames)
  BY OneFrame DEF LinesTyped
<1>2. Single(Downlink \o <<f>>, "AA", cmd)
  BY <1>1, NoneSingle, SingleConcat
<1>3. Single(Downlink', "AA", cmd)
  BY <1>2 DEF Fewer
<1> QED  BY <1>3, NoneSingle DEF OneOf

\* The host takes what came back of a command: nothing of the kind is left.
LEMMA OneTaken ==
  ASSUME NEW f \in Frames, Uplink' \in Seq(Frames), Uplink = <<f>> \o Uplink',
         NEW sof, NEW cmd, IsA(f, sof, cmd),
         OneOf(Downlink, Uplink, sof, cmd)
  PROVE  None(Downlink, "AA", cmd) /\ None(Uplink', sof, cmd)
<1>1. <<f>> \in Seq(Frames) /\ ~None(<<f>>, sof, cmd)
  BY OneFrame
<1>2. ~None(Uplink, sof, cmd)
  BY <1>1, NoneConcat
<1>3. None(<<f>>, sof, cmd) \/ None(Uplink', sof, cmd)
  BY <1>1, SingleConcat DEF OneOf
<1> QED  BY <1>1, <1>2, <1>3 DEF OneOf

\* The chain takes a command, and what comes back of it is on its way.
LEMMA OneAnswered ==
  ASSUME LinesTyped, NEW f \in HostFrames, Downlink' \in Seq(HostFrames),
         Downlink = <<f>> \o Downlink', NEW u \in Seq(Frames), Uplink' = Uplink \o u,
         NEW sof, NEW cmd,
         Single(u, sof, cmd), IsA(f, "AA", cmd) \/ None(u, sof, cmd)
  PROVE  /\ OneOf(Downlink, Uplink, sof, cmd) => OneOf(Downlink', Uplink', sof, cmd)
         /\ None(Downlink, "AA", cmd) => None(Downlink', "AA", cmd) /\ ~IsA(f, "AA", cmd)
         /\ None(Downlink, "AA", cmd) /\ None(Uplink, sof, cmd) => None(Uplink', sof, cmd)
<1>1. /\ <<f>> \in Seq(HostFrames) /\ (None(<<f>>, "AA", cmd) <=> ~IsA(f, "AA", cmd))
      /\ Uplink \in Seq(Frames)
  BY OneFrame DEF LinesTyped
<1>2. None(Downlink, "AA", cmd) => None(Downlink', "AA", cmd) /\ ~IsA(f, "AA", cmd)
  BY <1>1, NoneConcat
<1>3. None(Uplink, sof, cmd) /\ None(u, sof, cmd) => None(Uplink', sof, cmd)
  BY <1>1, NoneConcat
<1>4. ASSUME OneOf(Downlink, Uplink, sof, cmd) PROVE OneOf(Downlink', Uplink', sof, cmd)
  <2>1. /\ Single(Downlink', "AA", cmd)
        /\ None(<<f>>, "AA", cmd) \/ None(Downlink', "AA", cmd)
    BY <1>1, <1>4, SingleConcat DEF OneOf
  <2>2. CASE IsA(f, "AA", cmd)
    <3>1. ~None(Downlink, "AA", cmd) /\ None(Downlink', "AA", cmd)
      BY <1>1, <1>2, <2>1, <2>2
    <3>2. None(Uplink, sof, cmd)
      BY <1>4, <3>1 DEF OneOf
    <3>3. Single(Uplink', sof, cmd)
      BY <1>1, <3>2, NoneSingle, SingleConcat
    <3> QED  BY <2>1, <3>1, <3>3 DEF OneOf
  <2>3. CASE None(u, sof, cmd)
    <3>1. Single(Uplink', sof, cmd)
      BY <1>1, <1>4, <2>3, SingleConcat DEF OneOf
    <3>2. None(Downlink', "AA", cmd) \/ None(Uplink', sof, cmd)
      BY <1>2, <1>3, <1>4, <2>3 DEF OneOf
    <3> QED  BY <2>1, <3>1, <3>2 DEF OneOf
  <2> QED  BY <2>2, <2>3
<1> QED  BY <1>2, <1>3, <1>4

\* What comes back of a command: its echo, and answers that are no echoes.
LEMMA Taken ==
  ASSUME TypeInv, ChainTakes
  PROVE  \E f \in HostFrames, u \in Seq(Frames) :
           /\ f = Head(down) /\ down = <<f>> \o down'
           /\ Downlink = <<f>> \o Downlink' /\ Uplink' = Uplink \o u
           /\ \A g \in Elements(u) : g = f \/ g \in Elements(AnswersTo(f))
           /\ \A cmd :
                Single(u, "AA", cmd) /\ (IsA(f, "AA", cmd) \/ None(u, "AA", cmd))
           /\ /\ Single(u, "55", "READ_SETTINGS")
              /\ IsA(f, "AA", "READ_SETTINGS") \/ None(u, "55", "READ_SETTINGS")
           /\ None(u, "55", "WRITE_SETTINGS")
<1>1. PICK f \in HostFrames, a \in Seq(Frames) :
        /\ f = Head(down) /\ a = AnswersTo(f) /\ down = <<f>> \o down'
        /\ Downlink = <<f>> \o Downlink'
        /\ Uplink' = Uplink \o (a \o <<f>>) \/ Uplink' = Uplink \o (<<f>> \o a)
  BY TakeLine
<1>2. f \in Frames /\ f.sof = "AA"
  BY HostFrameFacts
<1>12. PICK e \in Seq(Frames) : e = <<f>>
  BY <1>2, OneFrame
<1>3. PICK u \in Seq(Frames) : (u = a \o e \/ u = e \o a) /\ Uplink' = Uplink \o u
  BY <1>1, <1>2, <1>12, ConcatProperties
<1>4. Elements(u) = Elements(a) \cup {f}
  <2>1. Elements(e) = {f}
    BY <1>2, <1>12, OneFrame
  <2>2. /\ Elements(a \o e) = Elements(a) \cup Elements(e)
        /\ Elements(e \o a) = Elements(e) \cup Elements(a)
    BY ElementsConcat
  <2> QED  BY <1>3, <2>1, <2>2
<1>5. /\ \A cmd : None(a, "AA", cmd)
      /\ None(a, "55", "WRITE_SETTINGS") /\ Single(a, "55", "READ_SETTINGS")
      /\ f.cmd = "READ_SETTINGS" \/ None(a, "55", "READ_SETTINGS")
  <2>1. CASE f.cmd = "IDENTIFY"
    <3>1. \A g \in Elements(a) : g.sof = "55" /\ g.cmd = "IDENTIFY"
      <4>1. \A i \in DOMAIN IdentOrder : IdentOrder[i] \in Banks
        BY SessionAssumption, SeqFacts
      <4>2. a = [i \in DOMAIN IdentOrder |-> IdentAnswer(IdentOrder[i])]
        BY <1>1, <2>1 DEF AnswersTo, IdentAnswers
      <4>3. \A g \in Elements(a) : \E i \in DOMAIN IdentOrder : g = IdentAnswer(IdentOrder[i])
        BY <4>2 DEF Elements
      <4> QED  BY <4>1, <4>3, IdentAnswerType
    <3>2. /\ \A cmd : None(a, "AA", cmd)
          /\ None(a, "55", "WRITE_SETTINGS") /\ None(a, "55", "READ_SETTINGS")
      BY <3>1, NoneOf DEF IsA
    <3> QED  BY <3>2, NoneSingle
  <2>2. CASE f.cmd = "READ_SETTINGS" /\ Target(f) \in Banks \ InBootloader
    <3>1. PICK g : g = Answer(f.cmd, Target(f), f.part, stored[Target(f)][f.part]) /\ a = <<g>>
      BY <1>1, <2>2 DEF AnswersTo
    <3>2. g.sof = "55" /\ g.cmd = "READ_SETTINGS"
      BY <2>2, <3>1 DEF Answer, Frame
    <3>3. g \in Frames
      BY <3>1, ElementOfSeq, LenProperties
    <3> QED  BY <2>2, <3>1, <3>2, <3>3, OneFrame DEF IsA
  <2>3. CASE f.cmd # "IDENTIFY" /\ ~(f.cmd = "READ_SETTINGS" /\ Target(f) \in Banks \ InBootloader)
    <3>1. a = <<>>
      BY <1>1, <2>3 DEF AnswersTo
    <3> QED  BY <3>1, NoFrames
  <2> QED  BY <2>1, <2>2, <2>3
<1>13. ASSUME NEW sof, NEW cmd
       PROVE  /\ None(u, sof, cmd) <=> (None(a, sof, cmd) /\ None(e, sof, cmd))
              /\ Single(u, sof, cmd) <=>
                   (/\ Single(a, sof, cmd) /\ Single(e, sof, cmd)
                    /\ None(a, sof, cmd) \/ None(e, sof, cmd))
  <2>1. u = a \o e \/ u = e \o a
    BY <1>3
  <2>2. CASE u = a \o e
    BY <2>2, NoneConcat, SingleConcat
  <2>3. CASE u = e \o a
    BY <2>3, NoneConcat, SingleConcat
  <2> QED  BY <2>1, <2>2, <2>3
<1>6. ASSUME NEW cmd
      PROVE  Single(u, "AA", cmd) /\ (IsA(f, "AA", cmd) \/ None(u, "AA", cmd))
  <2>1. Single(e, "AA", cmd) /\ (None(e, "AA", cmd) <=> ~IsA(f, "AA", cmd))
    BY <1>2, <1>12, OneFrame
  <2>2. None(a, "AA", cmd) /\ Single(a, "AA", cmd)
    BY <1>5, NoneSingle
  <2>3. Single(u, "AA", cmd)
    BY <1>13, <2>1, <2>2
  <2>4. None(e, "AA", cmd) => None(u, "AA", cmd)
    BY <1>13, <2>2
  <2> QED  BY <2>1, <2>3, <2>4
<1>7. \A cmd : None(e, "55", cmd) /\ Single(e, "55", cmd)
  BY <1>2, <1>12, OneFrame DEF IsA
<1>8. Single(u, "55", "READ_SETTINGS")
  BY <1>5, <1>7, <1>13
<1>9. IsA(f, "AA", "READ_SETTINGS") \/ None(u, "55", "READ_SETTINGS")
  BY <1>2, <1>5, <1>7, <1>13 DEF IsA
<1>10. None(u, "55", "WRITE_SETTINGS")
  BY <1>5, <1>7, <1>13
<1>11. \A g \in Elements(u) : g = f \/ g \in Elements(AnswersTo(f))
  BY <1>1, <1>4
<1> QED  BY <1>1, <1>3, <1>6, <1>8, <1>9, <1>10, <1>11

LEMMA RequestLine ==
  ASSUME TypeInv, RequestSettings
  PROVE  \E c \in HostFrames : /\ c = ReadCommand(<<0, 0>>, 0) /\ HostStep(c)
                               /\ c.sof = "AA" /\ c.cmd = "READ_SETTINGS"
                               /\ Uplink' = Uplink
<1>1. /\ SendPacket(ReadCommand(<<0, 0>>, 0)) /\ UNCHANGED <<batch, down, up>>
      /\ UNCHANGED <<rx, next, handler>>
  BY DEF RequestSettings, StartReadSettings, batch
<1>2. PICK c \in HostFrames :
        c = ReadCommand(<<0, 0>>, 0) /\ c.sof = "AA" /\ c.cmd = "READ_SETTINGS"
  <2>1. <<0, 0>>[1] \in Nat /\ <<0, 0>>[2] \in 0 .. 8 /\ 0 \in Parts
    BY ConstantFacts
  <2> QED  BY <2>1, ReadCommandType
<1>3. Fewer(Downlink', Downlink \o <<c>>)
  BY <1>1, <1>2, SendLine DEF TypeInv
<1>4. Uplink' = Uplink
  BY <1>1 DEF Uplink, Pending
<1>5. Fewer(Uplink, Uplink)
  BY LineSeqs, FewerParts DEF TypeInv, LinesTyped
<1> QED  BY <1>2, <1>3, <1>4, <1>5 DEF HostStep

LEMMA WaitForStartLine ==
  ASSUME TypeInv, WaitForStartHeader
  PROVE  \E cmd \in {"START", "IDENTIFY"} : HostStep(ToAll(cmd)) /\ ToAll(cmd) \in HostFrames
<1>1. Return /\ UNCHANGED <<down, up>> /\ (SendPacket(ToAll("IDENTIFY")) \/ UNCHANGED tx)
  BY DEF WaitForStartHeader, IdentifyChain
<1>2. Fewer(Uplink', Uplink)
  BY <1>1, ReturnLine DEF TypeInv
<1>3. CASE SendPacket(ToAll("IDENTIFY"))
  <2>1. ToAll("IDENTIFY") \in HostFrames
    BY ToAllType
  <2>2. Fewer(Downlink', Downlink \o <<ToAll("IDENTIFY")>>)
    BY <1>1, <1>3, <2>1, SendLine DEF TypeInv
  <2> QED  BY <1>2, <2>1, <2>2 DEF HostStep
<1>4. CASE UNCHANGED tx
  <2>1. Fewer(Downlink', Downlink)
    BY <1>1, <1>4, SilentLine DEF TypeInv
  <2>2. HostStep(ToAll("START"))
    BY <1>2, <2>1, LineSeqs, NothingSent DEF TypeInv
  <2> QED  BY <2>2, ToAllType
<1> QED  BY <1>1, <1>3, <1>4

LEMMA ReadLine ==
  ASSUME TypeInv, NEW f \in AnswerFrames, ReadEffect(f)
  PROVE  \E c \in HostFrames :
           /\ c = ReadNext(Source(f), f.part, ChainList) /\ HostStep(c)
           /\ c.sof = "AA" /\ c.cmd = "READ_SETTINGS"
<1>1. PICK c \in HostFrames : /\ c = ReadNext(Source(f), f.part, ChainList)
                              /\ c.sof = "AA" /\ c.cmd = "READ_SETTINGS"
  BY AnswerFacts, ReadNextType
<1>2. Fewer(Downlink', Downlink \o <<c>>)
  BY <1>1 DEF ReadEffect
<1>3. Fewer(Uplink', Uplink)
  <2>1. <<f>> \in Seq(Frames) /\ Uplink' \in Seq(Frames) /\ Uplink = <<f>> \o Uplink'
    BY AnswerFacts, OneFrame DEF ReadEffect
  <2> QED  BY <2>1, FewerParts
<1> QED  BY <1>1, <1>2, <1>3 DEF HostStep

\* Nothing is on the line when the applications were given their time.
QuietInv ==
  handler = "ConnectedWaitForAppStart" /\ Timeus > StartDelay =>
    Elements(Uplink) = {} /\ Elements(Downlink) = {} /\ due = {}

LEMMA QuietStep ==
  ASSUME TypeInv, QuietInv, [Next]_vars
  PROVE  QuietInv'
<1> SUFFICES ASSUME handler' = "ConnectedWaitForAppStart", Timeus' > StartDelay
             PROVE  Elements(Uplink)' = {} /\ Elements(Downlink)' = {} /\ due' = {}
  BY DEF QuietInv
<1>1. CASE Application
  <2>1. handler' = "none"
    BY <1>1 DEF Application, ConnectFails, Connect, CloseDevice, Edit, RequestSettings,
       SetSettings, MayCall, Idle, batch
  <2> QED  BY <2>1
<1>2. CASE Tick
  <2>1. Quiet /\ handler = "none"
    BY <1>2 DEF Tick, Elapse, Idle
  <2>2. Uplink = <<>> /\ Downlink = <<>>
    <3>1. Uplink = up
      BY <2>1, IdleLine DEF TypeInv
    <3>2. Downlink = <<>> \o <<>>
      BY <2>1 DEF Quiet, Downlink
    <3> QED  BY <2>1, <3>1, <3>2 DEF Quiet
  <2>3. Uplink' = Uplink /\ Downlink' = Downlink /\ due' = due
    BY <1>2, TickTypes
  <2> QED  BY <2>1, <2>2, <2>3, NoFrames DEF Quiet
<1>3. CASE TickFails
  <2>1. handler' = "none"
    BY <1>3 DEF TickFails, Idle, batch
  <2> QED  BY <2>1
<1>4. CASE Handler
  <2>1. handler' = "none" \/ (handler' = handler /\ handler # "ConnectedWaitForAppStart")
    <3> USE DEF Return, Continue
    <3>1. CASE WaitForStartHeader \/ WaitFinishWriteSettings \/ EndBatch
      BY <3>1 DEF WaitForStartHeader, WaitFinishWriteSettings, EndBatch
    <3>2. CASE LookForIdentResponse
      BY <3>2 DEF LookForIdentResponse
    <3>3. CASE ReadSettings
      BY <3>3 DEF ReadSettings
    <3>4. CASE WriteSettings
      BY <3>4 DEF WriteSettings
    <3> QED  BY <1>4, <3>1, <3>2, <3>3, <3>4 DEF Handler
  <2> QED  BY <2>1
<1>5. CASE ChainTakes
  <2>1. UNCHANGED <<handler, Timeus>>
    BY <1>5, ChainTakesTypes DEF host
  <2>2. Elements(Downlink) = {}
    BY <2>1 DEF QuietInv
  <2>3. PICK f \in HostFrames : Downlink = <<f>> \o Downlink'
    BY <1>5, TakeLine
  <2>4. PICK e \in Seq(HostFrames) : e = <<f>> /\ Elements(e) = {f}
    BY OneFrame
  <2>5. PICK d \in Seq(HostFrames) : d = Downlink'
    BY <1>5, TakeLine, LineSeqsNext DEF LinesTyped
  <2>6. Elements(e \o d) = Elements(e) \cup Elements(d)
    BY ElementsConcat
  <2> QED  BY <2>2, <2>3, <2>4, <2>5, <2>6
<1>6. CASE ChainReports
  <2>1. UNCHANGED <<handler, Timeus>> /\ due # {}
    BY <1>6, ChainReportsTypes DEF host
  <2> QED  BY <2>1 DEF QuietInv
<1>7. CASE Lose
  <2>1. UNCHANGED <<handler, Timeus, due>> /\ Fewer(Uplink', Uplink) /\ Fewer(Downlink', Downlink)
    BY <1>7, LoseTypes DEF host
  <2> QED  BY <2>1 DEF QuietInv, Fewer
<1>8. CASE UNCHANGED vars
  <2>1. UNCHANGED <<batch, tx, down, up>> /\ UNCHANGED <<handler, Timeus, due>>
    BY <1>8 DEF vars, host, batch, chain
  <2>2. Uplink' = Uplink /\ Downlink' = Downlink
    BY <2>1, StillLine DEF TypeInv
  <2> QED  BY <2>1, <2>2 DEF QuietInv
<1> QED  BY <1>1, <1>2, <1>3, <1>4, <1>5, <1>6, <1>7, <1>8 DEF Next, External

\* At most one part of settings is on its way to the chain or, as an echo, back; and
\* none when none is waited for.
QuietStates == {"ConnectedWaitIdentResponse", "ConnectedWaitReadSettings",
                "ConnectedWaitFinishWriteSettings", "Connected"}
NoWrites == None(Downlink, "AA", "WRITE_SETTINGS") /\ None(Uplink, "AA", "WRITE_SETTINGS")
WritesInv ==
  ~hasty => /\ OneOf(Downlink, Uplink, "AA", "WRITE_SETTINGS")
            /\ State \in QuietStates => NoWrites

\* StartWriteSettings sends its command when there is none.
LEMMA StartWriteOne ==
  ASSUME LineType, NEW cl \in [Slots -> ChipInfo], StartWriteSettings(cl), UNCHANGED down,
         None(Downlink, "AA", "WRITE_SETTINGS"), None(Uplink', "AA", "WRITE_SETTINGS")
  PROVE  WritesInv'
<1>1. LinesTyped
  BY LineSeqs
<1>2. CASE NeedsWrite(cl) = {} /\ State' = "Connected" /\ UNCHANGED tx
  <2>1. Downlink' = Downlink
    BY <1>2, SilentLine
  <2> QED  BY <2>1, NoneSingle DEF WritesInv, OneOf, NoWrites
<1>3. ASSUME NEW q \in Slots, State' = "ConnectedWaitWriteSettings",
             SendPacket(WriteCommand(q, 0, cl))
      PROVE  WritesInv'
  <2>1. PICK c \in HostFrames : c = WriteCommand(q, 0, cl)
    BY WriteCommandType, ConstantFacts
  <2>2. Fewer(Downlink', Downlink \o <<c>>)
    BY <1>3, <2>1, SendLine
  <2>3. OneOf(Downlink', Uplink', "AA", "WRITE_SETTINGS")
    BY <1>1, <2>2, OneSent
  <2> QED  BY <1>3, <2>3 DEF WritesInv, QuietStates
<1> QED  BY <1>2, <1>3, StartWrite

LEMMA FinishWriteOne ==
  ASSUME LineType, NEW cl \in [Slots -> ChipInfo], FinishWrite(cl), UNCHANGED down,
         None(Downlink, "AA", "WRITE_SETTINGS"), None(Uplink', "AA", "WRITE_SETTINGS")
  PROVE  WritesInv'
<1>1. CASE StartWriteSettings(cl)
  BY <1>1, StartWriteOne
<1>2. CASE State' = "ConnectedWaitFinishWriteSettings" /\ UNCHANGED tx
  <2>1. Downlink' = Downlink
    BY <1>2, SilentLine
  <2> QED  BY <2>1, NoneSingle DEF WritesInv, OneOf, NoWrites
<1> QED  BY <1>1, <1>2 DEF FinishWrite

LEMMA WritesStep ==
  ASSUME TypeInv, QuietInv, WritesInv, [Next]_vars
  PROVE  WritesInv'
<1> DEFINE W == "WRITE_SETTINGS"
<1>1. LinesTyped /\ LinesTyped' /\ ToAll("START") \in HostFrames /\ ~IsA(ToAll("START"), "AA", W)
  BY TypesStep, LineSeqs, LineSeqsNext, ToAllType DEF TypeInv, IsA
<1>2. ASSUME NEW f \in HostFrames, HostStep(f), ~IsA(f, "AA", W), ~hasty' => ~hasty,
             State' \in QuietStates => State \in QuietStates
      PROVE  WritesInv'
  <2>1. /\ OneOf(Downlink, Uplink, "AA", W) => OneOf(Downlink', Uplink', "AA", W)
        /\ None(Downlink, "AA", W) => None(Downlink', "AA", W)
        /\ None(Uplink, "AA", W) => None(Uplink', "AA", W)
    BY <1>1, <1>2, OneKept
  <2> QED  BY <1>2, <2>1 DEF WritesInv, NoWrites
<1>3. CASE ConnectFails \/ Connect \/ CloseDevice
  <2>1. HostStep(ToAll("START"))
    BY <1>3, ZeroedLine
  <2>2. hasty' = hasty /\ State' \notin QuietStates
    BY <1>3 DEF ConnectFails, Connect, CloseDevice, Zeroed, counts, QuietStates
  <2> QED  BY <1>1, <1>2, <2>1, <2>2
<1>4. CASE Edit
  <2>1. HostStep(ToAll("START")) /\ hasty' = hasty /\ State' = State
    BY <1>4, EditTypes DEF Edit
  <2> QED  BY <1>1, <1>2, <2>1
<1>5. CASE RequestSettings
  <2>1. PICK c \in HostFrames : HostStep(c) /\ c.cmd = "READ_SETTINGS"
    BY <1>5, RequestLine
  <2>2. hasty' = hasty /\ State \in QuietStates
    BY <1>5 DEF RequestSettings, QuietStates
  <2> QED  BY <1>2, <2>1, <2>2 DEF IsA
<1>6. CASE SetSettings
  <2>1. /\ StartWriteSettings(ChainList) /\ UNCHANGED <<batch, down, up>>
        /\ ~hasty' => ~hasty /\ State \in QuietStates
    BY <1>6 DEF SetSettings, Early, QuietStates
  <2>2. Uplink' = Uplink
    BY <2>1 DEF Uplink, Pending, batch
  <2>3. ~hasty' => NoWrites
    BY <2>1 DEF WritesInv
  <2>4. CASE ~hasty'
    BY <2>1, <2>2, <2>3, <2>4, StartWriteOne DEF NoWrites, TypeInv, HostType
  <2> QED  BY <2>4 DEF WritesInv
<1>7. CASE Tick \/ TickFails
  <2>1. HostStep(ToAll("START")) /\ hasty' = hasty /\ State' = State
    BY <1>7, TickTypes
  <2> QED  BY <1>1, <1>2, <2>1
<1>8. CASE WaitForStartHeader
  <2>1. PICK cmd \in {"START", "IDENTIFY"} : HostStep(ToAll(cmd)) /\ ToAll(cmd) \in HostFrames
    BY <1>8, WaitForStartLine
  <2>2. ~IsA(ToAll(cmd), "AA", W)
    BY ToAllType DEF IsA
  <2>3. CASE Timeus > StartDelay
    <3>1. Elements(Uplink) = {} /\ Elements(Downlink) = {}
      BY <1>8, <2>3 DEF WaitForStartHeader, QuietInv
    <3>2. None(Uplink, "AA", W) /\ None(Downlink, "AA", W)
      BY <3>1, NoneOf
    <3>3. None(Uplink', "AA", W) /\ None(Downlink', "AA", W)
      BY <1>1, <2>1, <2>2, <3>2, OneKept
    <3> QED  BY <3>3, NoneSingle DEF WritesInv, OneOf, NoWrites
  <2>4. CASE ~(Timeus > StartDelay)
    <3>1. hasty' = hasty /\ State' = State
      BY <1>8, <2>4 DEF WaitForStartHeader, counts
    <3> QED  BY <1>2, <2>1, <2>2, <3>1
  <2> QED  BY <2>3, <2>4
<1>9. CASE LookForIdentResponse
  <2>1. HostStep(ToAll("START")) /\ hasty' = hasty /\ State \in QuietStates
    BY <1>9, LookForIdentTypes DEF LookForIdentResponse, HandlerFrame, counts, QuietStates,
       TypeInv, HandlerOK
  <2> QED  BY <1>1, <1>2, <2>1
<1>10. CASE ReadSettings
  <2>1. hasty' = hasty /\ State \in QuietStates
    BY <1>10 DEF ReadSettings, HandlerFrame, counts, QuietStates, TypeInv, HandlerOK
  <2>2. CASE HostStep(ToAll("START"))
    BY <1>1, <1>2, <2>1, <2>2
  <2>3. ASSUME NEW f \in AnswerFrames, ReadEffect(f)
        PROVE  WritesInv'
    <3>1. PICK c \in HostFrames : HostStep(c) /\ c.cmd = "READ_SETTINGS"
      BY <2>3, ReadLine
    <3> QED  BY <1>2, <2>1, <3>1 DEF IsA
  <2> QED  BY <1>10, <2>2, <2>3, ReadSettingsTypes
<1>11. CASE WriteSettings
  <2>1. hasty' = hasty
    BY <1>11 DEF WriteSettings, HandlerFrame, counts
  <2>2. CASE HostStep(ToAll("START")) /\ State' = State
    BY <1>1, <1>2, <2>1, <2>2
  <2>3. ASSUME NEW f \in HostFrames, f.cmd = W, WriteEffect(f), ~hasty
        PROVE  WritesInv'
    <3>1. f \in Frames /\ IsA(f, "AA", W) /\ Uplink = <<f>> \o Uplink' /\ Uplink' \in Seq(Frames)
      BY <2>3, HostFrameFacts DEF IsA, WriteEffect
    <3>2. None(Downlink, "AA", W) /\ None(Uplink', "AA", W)
      BY <2>3, <3>1, OneTaken DEF WritesInv
    <3>3. CASE FinishWrite(ChainList')
      <4>1. PICK cl \in [Slots -> ChipInfo] : cl = ChainList'
        BY <1>11, WriteSettingsTypes DEF TypeInv, HostType
      <4>2. FinishWrite(cl) /\ UNCHANGED down
        BY <2>3, <3>3, <4>1 DEF WriteEffect
      <4> QED  BY <3>2, <4>2, FinishWriteOne DEF TypeInv
    <3>4. CASE /\ SendPacket(WriteCommand(Target(f), f.part + 1, ChainList))
               /\ f.part + 1 \in Parts /\ UNCHANGED <<ChainList, State>>
      <4>1. PICK c \in HostFrames : c = WriteCommand(Target(f), f.part + 1, ChainList)
        BY <2>3, <3>4, HostFrameFacts, WriteCommandType DEF TypeInv, HostType
      <4>2. Fewer(Downlink', Downlink \o <<c>>)
        BY <2>3, <3>4, <4>1, SendLine DEF TypeInv, WriteEffect
      <4>3. OneOf(Downlink', Uplink', "AA", W)
        BY <1>1, <3>2, <4>2, OneSent
      <4>4. State \notin QuietStates
        <5>1. ~None(Uplink, "AA", W)
          <6>1. f \in Elements(Uplink)
            <7>1. PICK e \in Seq(Frames) : e = <<f>> /\ Elements(e) = {f}
              BY <3>1, OneFrame
            <7>2. PICK u \in Seq(Frames) : u = Uplink'
              BY <3>1
            <7>3. Elements(e \o u) = Elements(e) \cup Elements(u)
              BY ElementsConcat
            <7> QED  BY <3>1, <7>1, <7>2, <7>3
          <6> QED  BY <3>1, <6>1, NoneOf
        <5> QED  BY <2>3, <5>1 DEF WritesInv, NoWrites
      <4> QED  BY <3>4, <4>3, <4>4 DEF WritesInv
    <3> QED  BY <2>3, <3>3, <3>4 DEF WriteEffect
  <2>4. CASE hasty
    BY <2>1, <2>4 DEF WritesInv
  <2> QED  BY <1>11, <2>2, <2>3, <2>4, WriteSettingsTypes
<1>12. CASE WaitFinishWriteSettings
  <2>1. /\ hasty' = hasty /\ State \in QuietStates /\ FinishWrite(ChainList) /\ UNCHANGED down
    BY <1>12 DEF WaitFinishWriteSettings, HandlerFrame, counts, QuietStates, TypeInv, HandlerOK
  <2>2. CASE ~hasty
    <3>1. None(Downlink, "AA", W) /\ None(Uplink', "AA", W)
      BY <1>12, <2>1, <2>2, WaitFinishTypes, FewerNone DEF WritesInv, NoWrites
    <3> QED  BY <2>1, <3>1, FinishWriteOne DEF TypeInv, HostType
  <2> QED  BY <2>1, <2>2 DEF WritesInv
<1>13. CASE EndBatch
  <2>1. HostStep(ToAll("START")) /\ hasty' = hasty /\ State' = State
    BY <1>13, EndBatchTypes
  <2> QED  BY <1>1, <1>2, <2>1
<1>14. CASE ChainTakes
  <2>1. hasty' = hasty /\ State' = State
    BY <1>14, ChainTakesTypes DEF host
  <2>2. PICK f \in HostFrames, u \in Seq(Frames) :
          /\ Downlink = <<f>> \o Downlink' /\ Uplink' = Uplink \o u
          /\ Single(u, "AA", W) /\ (IsA(f, "AA", W) \/ None(u, "AA", W))
    BY <1>14, Taken
  <2>3. /\ OneOf(Downlink, Uplink, "AA", W) => OneOf(Downlink', Uplink', "AA", W)
        /\ None(Downlink, "AA", W) => None(Downlink', "AA", W) /\ ~IsA(f, "AA", W)
        /\ None(Downlink, "AA", W) /\ None(Uplink, "AA", W) => None(Uplink', "AA", W)
    BY <1>1, <2>2, OneAnswered DEF LinesTyped
  <2> QED  BY <2>1, <2>3 DEF WritesInv, NoWrites
<1>15. CASE ChainReports
  <2>1. hasty' = hasty /\ State' = State /\ Downlink' = Downlink
    BY <1>15, ChainReportsTypes DEF host
  <2>2. PICK f \in AnswerFrames : Uplink' = Uplink \o <<f>>
    BY <1>15, ChainReportsTypes
  <2>3. PICK e \in Seq(Frames) : e = <<f>> /\ None(e, "AA", W) /\ Single(e, "AA", W)
    BY AnswerFacts, OneFrame DEF IsA
  <2>4. PICK u \in Seq(Frames) : u = Uplink
    BY <1>1 DEF LinesTyped
  <2>5. /\ None(u \o e, "AA", W) <=> None(u, "AA", W)
        /\ Single(u \o e, "AA", W) <=> Single(u, "AA", W)
    BY <2>3, NoneConcat, SingleConcat
  <2> QED  BY <2>1, <2>2, <2>3, <2>4, <2>5 DEF WritesInv, OneOf, NoWrites
<1>16. CASE Lose
  <2>1. HostStep(ToAll("START")) /\ hasty' = hasty /\ State' = State
    BY <1>16, LoseTypes DEF host
  <2> QED  BY <1>1, <1>2, <2>1
<1>17. CASE UNCHANGED vars
  <2>1. UNCHANGED <<batch, tx, down, up>> /\ hasty' = hasty /\ State' = State
    BY <1>17 DEF vars, host, batch, counts
  <2> QED  BY <1>1, <1>2, <2>1, StillLine DEF TypeInv
<1> QED  BY <1>3, <1>4, <1>5, <1>6, <1>7, <1>8, <1>9, <1>10, <1>11, <1>12, <1>13, <1>14, <1>15,
            <1>16, <1>17 DEF Next, Application, Handler, External

\* What writing sends is a write command.
LEMMA FinishLine ==
  ASSUME LineType, NEW cl \in [Slots -> ChipInfo], FinishWrite(cl), UNCHANGED down,
         Fewer(Uplink', Uplink)
  PROVE  \E c \in HostFrames : HostStep(c) /\ ~IsA(c, "AA", "READ_SETTINGS")
<1>1. CASE UNCHANGED tx
  <2>1. Fewer(Downlink', Downlink)
    BY <1>1, SilentLine
  <2>2. /\ HostStep(ToAll("START")) /\ ToAll("START") \in HostFrames
        /\ ToAll("START").cmd = "START"
    BY <2>1, LineSeqs, NothingSent, ToAllType
  <2> QED  BY <2>2 DEF IsA
<1>2. ASSUME NEW q \in Slots, SendPacket(WriteCommand(q, 0, cl))
      PROVE  \E c \in HostFrames : HostStep(c) /\ ~IsA(c, "AA", "READ_SETTINGS")
  <2>1. PICK c \in HostFrames : c = WriteCommand(q, 0, cl) /\ c.cmd = "WRITE_SETTINGS"
    BY WriteCommandType, ConstantFacts
  <2>2. Fewer(Downlink', Downlink \o <<c>>)
    BY <1>2, <2>1, SendLine
  <2> QED  BY <2>1, <2>2 DEF HostStep, IsA
<1> QED  BY <1>1, <1>2, StartWrite DEF FinishWrite

LEMMA WriteLine ==
  ASSUME TypeInv, WriteSettings, NEW f \in HostFrames, f.cmd = "WRITE_SETTINGS", WriteEffect(f)
  PROVE  \E c \in HostFrames : HostStep(c) /\ ~IsA(c, "AA", "READ_SETTINGS")
<1>1. Fewer(Uplink', Uplink) /\ UNCHANGED down
  <2>1. PICK e \in Seq(Frames), u \in Seq(Frames) : e = <<f>> /\ u = Uplink'
    BY HostFrameFacts, OneFrame DEF WriteEffect
  <2>2. Fewer(u, e \o u)
    BY FewerParts
  <2> QED  BY <2>1, <2>2 DEF WriteEffect
<1>2. CASE FinishWrite(ChainList')
  <2>1. PICK cl \in [Slots -> ChipInfo] : cl = ChainList'
    BY WriteSettingsTypes DEF TypeInv, HostType
  <2> QED  BY <1>1, <1>2, <2>1, FinishLine DEF TypeInv
<1>3. CASE /\ SendPacket(WriteCommand(Target(f), f.part + 1, ChainList)) /\ f.part + 1 \in Parts
  <2>1. PICK c \in HostFrames : /\ c = WriteCommand(Target(f), f.part + 1, ChainList)
                                /\ c.cmd = "WRITE_SETTINGS"
    BY <1>3, HostFrameFacts, WriteCommandType DEF TypeInv, HostType
  <2>2. Fewer(Downlink', Downlink \o <<c>>)
    BY <1>1, <1>3, <2>1, SendLine DEF TypeInv
  <2> QED  BY <1>1, <2>1, <2>2 DEF HostStep, IsA
<1> QED  BY <1>2, <1>3 DEF WriteEffect

\* At most one part of settings is asked for or answered; and nothing comes after the
\* answer that ended the reading, as long as the rest of its batch is looked through.
ReadsInv ==
  clean =>
    /\ OneOf(Downlink, Uplink, "55", "READ_SETTINGS")
    /\ handler = "ConnectedWaitReadSettings" /\ State = "Connected" =>
         None(down, "AA", "READ_SETTINGS") /\ None(Uplink, "55", "READ_SETTINGS")

\* The frame a handler is at is on the line.
LEMMA HeadOnLine ==
  ASSUME NEW S, NEW f \in S, NEW t \in Seq(S), NEW s, s = <<f>> \o t
  PROVE  Elements(s) = {f} \cup Elements(t)
<1>1. PICK e \in Seq(S) : e = <<f>> /\ Elements(e) = {f}
  BY OneFrame
<1>2. Elements(e \o t) = Elements(e) \cup Elements(t)
  BY ElementsConcat
<1> QED  BY <1>1, <1>2

LEMMA HeadOfUplink ==
  ASSUME NEW f \in Frames, NEW u \in Seq(Frames), Uplink = <<f>> \o u
  PROVE  Elements(Uplink) = {f} \cup Elements(u)
BY HeadOnLine

LEMMA ReadsStep ==
  ASSUME TypeInv, ReadsInv, [Next]_vars
  PROVE  ReadsInv'
<1> DEFINE R == "READ_SETTINGS"
           ended == handler = "ConnectedWaitReadSettings" /\ State = "Connected"
<1>1. LinesTyped /\ LinesTyped' /\ ToAll("START") \in HostFrames /\ ~IsA(ToAll("START"), "AA", R)
  BY TypesStep, LineSeqs, LineSeqsNext, ToAllType DEF TypeInv, IsA
<1>2. ASSUME NEW f \in HostFrames, HostStep(f), ~IsA(f, "AA", R), clean' => clean, ~ended'
      PROVE  ReadsInv'
  <2>1. OneOf(Downlink, Uplink, "55", R) => OneOf(Downlink', Uplink', "55", R)
    BY <1>1, <1>2, OneKept
  <2> QED  BY <1>2, <2>1 DEF ReadsInv
<1>3. CASE ConnectFails \/ Connect \/ CloseDevice
  <2>1. HostStep(ToAll("START")) /\ handler' = "none"
    BY <1>3, ZeroedLine
  <2>2. clean' = clean
    BY <1>3 DEF ConnectFails, Connect, CloseDevice
  <2> QED  BY <1>1, <1>2, <2>1, <2>2
<1>4. CASE Edit
  <2>1. HostStep(ToAll("START")) /\ clean' = clean /\ handler' = "none"
    BY <1>4, EditTypes DEF Edit, MayCall, Idle
  <2> QED  BY <1>1, <1>2, <2>1
<1>5. CASE RequestSettings
  <2>1. PICK c \in HostFrames : HostStep(c) /\ Uplink' = Uplink
    BY <1>5, RequestLine
  <2>2. clean' => None(Downlink, "AA", R) /\ None(Uplink, "55", R)
    BY <1>5 DEF RequestSettings, Commands, Answers, None
  <2>3. clean' => OneOf(Downlink', Uplink', "55", R)
    BY <1>1, <2>1, <2>2, OneSent DEF HostStep
  <2>4. handler' = "none"
    BY <1>5 DEF RequestSettings, Idle, batch
  <2> QED  BY <2>3, <2>4 DEF ReadsInv
<1>6. CASE SetSettings
  <2>1. /\ StartWriteSettings(ChainList) /\ UNCHANGED <<batch, down, up>>
        /\ clean' = clean /\ handler' = "none"
    BY <1>6 DEF SetSettings, MayCall, Idle, batch
  <2>2. \E f \in HostFrames : HostStep(f) /\ ~IsA(f, "AA", R)
    <3>1. Uplink' = Uplink /\ Fewer(Uplink, Uplink)
      <4>1. Uplink' = Uplink
        BY <2>1 DEF Uplink, Pending, batch
      <4> QED  BY <1>1, <4>1, FewerParts DEF LinesTyped
    <3>2. CASE UNCHANGED tx
      <4>1. Fewer(Downlink', Downlink)
        BY <2>1, <3>2, SilentLine DEF TypeInv
      <4>2. HostStep(ToAll("START"))
        BY <1>1, <3>1, <4>1, NothingSent
      <4> QED  BY <1>1, <4>2
    <3>3. ASSUME NEW q \in Slots, SendPacket(WriteCommand(q, 0, ChainList))
          PROVE  \E f \in HostFrames : HostStep(f) /\ ~IsA(f, "AA", R)
      <4>1. PICK c \in HostFrames : c = WriteCommand(q, 0, ChainList) /\ c.cmd # R
        BY WriteCommandType, ConstantFacts DEF TypeInv, HostType
      <4>2. Fewer(Downlink', Downlink \o <<c>>)
        BY <2>1, <3>3, <4>1, SendLine DEF TypeInv
      <4> QED  BY <3>1, <4>1, <4>2 DEF HostStep, IsA
    <3> QED  BY <2>1, <3>2, <3>3, StartWrite DEF TypeInv, HostType
  <2> QED  BY <1>2, <2>1, <2>2
<1>7. CASE Tick \/ TickFails
  <2>1. HostStep(ToAll("START")) /\ clean' = clean /\ ~ended'
    BY <1>7, TickTypes
  <2> QED  BY <1>1, <1>2, <2>1
<1>8. CASE WaitForStartHeader
  <2>1. PICK cmd \in {"START", "IDENTIFY"} : HostStep(ToAll(cmd)) /\ ToAll(cmd) \in HostFrames
    BY <1>8, WaitForStartLine
  <2>2. ~IsA(ToAll(cmd), "AA", R)
    BY ToAllType DEF IsA
  <2>3. clean' = clean /\ handler' = "none"
    BY <1>8 DEF WaitForStartHeader, Return
  <2> QED  BY <1>2, <2>1, <2>2, <2>3
<1>9. CASE LookForIdentResponse
  <2>1. HostStep(ToAll("START")) /\ clean' = clean /\ handler' = "ConnectedWaitIdentResponse"
    BY <1>9, LookForIdentTypes DEF LookForIdentResponse, HandlerFrame, Continue
  <2> QED  BY <1>1, <1>2, <2>1
<1>10. CASE ReadSettings
  <2>1. clean' = clean /\ down' = down /\ handler' = handler
    BY <1>10 DEF ReadSettings, HandlerFrame, Continue
  <2>2. CASE HostStep(ToAll("START")) /\ State' = State
    <3>1. /\ OneOf(Downlink, Uplink, "55", R) => OneOf(Downlink', Uplink', "55", R)
          /\ None(Uplink, "55", R) => None(Uplink', "55", R)
      BY <1>1, <2>2, OneKept
    <3> QED  BY <2>1, <2>2, <3>1 DEF ReadsInv
  <2>3. ASSUME NEW f \in AnswerFrames, f.cmd = R, ReadEffect(f), clean
        PROVE  ReadsInv'
    <3>1. PICK c \in HostFrames : HostStep(c)
      BY <2>3, ReadLine
    <3>2. None(Downlink, "AA", R) /\ None(Uplink', "55", R)
      <4>1. f \in Frames /\ IsA(f, "55", R) /\ Uplink' \in Seq(Frames) /\ Uplink = <<f>> \o Uplink'
        BY <2>3, AnswerFacts DEF IsA, ReadEffect
      <4> QED  BY <2>3, <4>1, OneTaken DEF ReadsInv
    <3>3. OneOf(Downlink', Uplink', "55", R)
      BY <1>1, <3>1, <3>2, OneSent DEF HostStep
    <3>4. None(down, "AA", R)
      BY <3>2, NoneConcat DEF Downlink, TypeInv, LineType
    <3> QED  BY <2>1, <3>2, <3>3, <3>4 DEF ReadsInv
  <2>4. CASE ~clean
    BY <2>1, <2>4 DEF ReadsInv
  <2> QED  BY <1>10, <2>2, <2>3, <2>4, ReadSettingsTypes
<1>11. CASE WriteSettings
  <2>1. clean' = clean /\ handler' = "ConnectedWaitWriteSettings"
    BY <1>11 DEF WriteSettings, HandlerFrame, Continue
  <2>2. CASE HostStep(ToAll("START"))
    BY <1>1, <1>2, <2>1, <2>2
  <2>3. ASSUME NEW f \in HostFrames, f.cmd = "WRITE_SETTINGS", WriteEffect(f)
        PROVE  ReadsInv'
    <3>1. \E c \in HostFrames : HostStep(c) /\ ~IsA(c, "AA", R)
      BY <1>11, <2>3, WriteLine
    <3> QED  BY <1>2, <2>1, <3>1
  <2> QED  BY <1>11, <2>2, <2>3, WriteSettingsTypes
<1>12. CASE WaitFinishWriteSettings
  <2>1. clean' = clean /\ handler' = "none" /\ FinishWrite(ChainList) /\ UNCHANGED down
    BY <1>12 DEF WaitFinishWriteSettings, HandlerFrame, Return
  <2>2. Fewer(Uplink', Uplink)
    BY <1>12, WaitFinishTypes
  <2>3. \E c \in HostFrames : HostStep(c) /\ ~IsA(c, "AA", R)
    BY <1>1, <2>1, <2>2, FinishLine DEF TypeInv, HostType
  <2> QED  BY <1>2, <2>1, <2>3
<1>13. CASE EndBatch
  <2>1. HostStep(ToAll("START")) /\ clean' = clean /\ handler' = "none"
    BY <1>13, EndBatchTypes
  <2> QED  BY <1>1, <1>2, <2>1
<1>14. CASE ChainTakes
  <2>1. clean' = clean /\ State' = State /\ handler' = handler
    BY <1>14, ChainTakesTypes DEF host
  <2>2. PICK f \in HostFrames, u \in Seq(Frames) :
          /\ Downlink = <<f>> \o Downlink' /\ Uplink' = Uplink \o u /\ down = <<f>> \o down'
          /\ Single(u, "55", R) /\ (IsA(f, "AA", R) \/ None(u, "55", R))
    BY <1>14, Taken
  <2>3. OneOf(Downlink, Uplink, "55", R) => OneOf(Downlink', Uplink', "55", R)
    BY <1>1, <2>2, OneAnswered DEF LinesTyped
  <2>4. /\ None(down, "AA", R) => None(down', "AA", R) /\ ~IsA(f, "AA", R)
    <3>1. PICK d \in Seq(HostFrames) : d = down'
      BY <1>14, TypesStep DEF TypeInv, LineType
    <3>2. Elements(down) = {f} \cup Elements(d)
      <4>1. down = <<f>> \o d
        BY <2>2, <3>1
      <4> QED  BY <4>1, HeadOnLine
    <3>3. /\ None(down, "AA", R) <=> \A g \in Elements(down) : ~IsA(g, "AA", R)
          /\ None(d, "AA", R) <=> \A g \in Elements(d) : ~IsA(g, "AA", R)
      BY NoneOf
    <3>4. None(down, "AA", R) => None(d, "AA", R) /\ ~IsA(f, "AA", R)
      BY <3>2, <3>3
    <3> QED  BY <3>1, <3>4
  <2>5. None(u, "55", R) /\ None(Uplink, "55", R) => None(Uplink', "55", R)
    BY <1>1, <2>2, NoneConcat DEF LinesTyped
  <2> QED  BY <2>1, <2>2, <2>3, <2>4, <2>5 DEF ReadsInv
<1>15. CASE ChainReports
  <2>1. /\ clean' = clean /\ State' = State /\ handler' = handler /\ Downlink' = Downlink
        /\ down' = down
    BY <1>15, ChainReportsTypes DEF host
  <2>2. PICK p \in Banks, f \in AnswerFrames :
          f = Answer("WRITE_SETTINGS", p, 0, 0) /\ Uplink' = Uplink \o <<f>>
    BY <1>15, ChainReportsTypes DEF TypeInv, BankType
  <2>3. f.cmd = "WRITE_SETTINGS"
    BY <2>2 DEF Answer, Frame
  <2>4. PICK e \in Seq(Frames) : e = <<f>> /\ None(e, "55", R) /\ Single(e, "55", R)
    BY <2>3, AnswerFacts, OneFrame DEF IsA
  <2>5. PICK u \in Seq(Frames) : u = Uplink
    BY <1>1 DEF LinesTyped
  <2>6. /\ None(u \o e, "55", R) <=> None(u, "55", R)
        /\ Single(u \o e, "55", R) <=> Single(u, "55", R)
    BY <2>4, NoneConcat, SingleConcat
  <2> QED  BY <2>1, <2>2, <2>4, <2>5, <2>6 DEF ReadsInv, OneOf
<1>16. CASE Lose
  <2>1. /\ HostStep(ToAll("START")) /\ clean' = clean /\ State' = State /\ handler' = handler
        /\ Fewer(Uplink', Uplink) /\ Fewer(down', down)
    BY <1>16, LoseTypes DEF host
  <2>2. OneOf(Downlink, Uplink, "55", R) => OneOf(Downlink', Uplink', "55", R)
    BY <1>1, <2>1, OneKept
  <2>3. /\ None(down, "AA", R) => None(down', "AA", R)
        /\ None(Uplink, "55", R) => None(Uplink', "55", R)
    BY <2>1, FewerNone
  <2> QED  BY <2>1, <2>2, <2>3 DEF ReadsInv
<1>17. CASE UNCHANGED vars
  <2>1. UNCHANGED <<batch, tx, down, up>> /\ UNCHANGED <<clean, State, handler>>
    BY <1>17 DEF vars, host, batch
  <2>2. Uplink' = Uplink /\ Downlink' = Downlink
    BY <2>1, StillLine DEF TypeInv
  <2> QED  BY <2>1, <2>2 DEF ReadsInv
<1> QED  BY <1>3, <1>4, <1>5, <1>6, <1>7, <1>8, <1>9, <1>10, <1>11, <1>12, <1>13, <1>14, <1>15,
            <1>16, <1>17 DEF Next, Application, Handler, External

LinesInv == TypeInv /\ QuietInv /\ WritesInv /\ ReadsInv

LEMMA LinesInvHolds == Spec => []LinesInv
<1>1. Init => LinesInv
  <2> SUFFICES ASSUME Init PROVE LinesInv
    OBVIOUS
  <2>1. Uplink = <<>> /\ Downlink = <<>>
    BY EmptySeq, ConcatEmptySeq DEF Init, Uplink, Downlink, Pending
  <2>2. QuietInv /\ WritesInv /\ ReadsInv
    BY <2>1, NoFrames DEF Init, QuietInv, WritesInv, ReadsInv, OneOf, QuietStates
  <2> QED  BY <2>2, InitTypes DEF LinesInv
<1>2. LinesInv /\ [Next]_vars => LinesInv'
  BY TypesStep, QuietStep, WritesStep, ReadsStep DEF LinesInv
<1> QED  BY <1>1, <1>2, PTL DEF Spec

\* OneAtATime: the next command is sent when what came back of the last one is here,
\* whatever was closed, opened again, lost or edited between
\* (PacketHandler.c:380-528).
THEOREM OneAtATimeHolds == Spec => []OneAtATime
<1>1. ASSUME NEW sof, NEW cmd, OneOf(Downlink, Uplink, sof, cmd)
      PROVE  AtMostOne(Where(Downlink, "AA", cmd), Where(Uplink, sof, cmd))
  BY <1>1 DEF OneOf, Single, None, AtMostOne
<1>2. LinesInv => OneAtATime
  BY <1>1 DEF LinesInv, WritesInv, ReadsInv, OneAtATime, Commands, Answers, Echoes
<1> QED  BY <1>2, LinesInvHolds, PTL

-----------------------------------------------------------------------------
(***************************************************************************)
(* What is exchanged: the settings of the banks                            *)
(***************************************************************************)

\* Where the settings of a bank the application did not touch are marked.
MarksInv ==
  ~hasty => \A p \in Banks \ touched :
    /\ ChainList[p].settingsState = "NeedsWrite" =>
         /\ p \in Known(ChainList) /\ ChainList[p].settings \in wanted[p]
         /\ State \in {"Connected", "ConnectedWaitWriteSettings",
                       "ConnectedWaitFinishWriteSettings"}
         /\ handler \notin {"ConnectedWaitIdentResponse", "ConnectedWaitReadSettings"}
    /\ \/ State \in {"Disconnected", "ConnectedWaitForAppStart", "ConnectedWaitIdentResponse"}
       \/ handler = "ConnectedWaitIdentResponse"
       => ChainList[p].settingsState = "NeedsRead"

\* The banks whose settings are exchanged undisturbed.
Sound == Banks \ (touched \cup InBootloader)

\* The bank was sent the parts of an image before part k.
Staged(p, image, k) == \A j \in Parts : j < k => staged[p][j] = image[j]

\* What a command on its way to the chain writes is the next part of an image, and
\* in the exchange the host is in, of the one it marked.
Writing(f) ==
  Target(f) \in Sound =>
    \E image \in wanted[Target(f)] :
      /\ f.value = image[f.part] /\ Staged(Target(f), image, f.part)
      /\ State = "ConnectedWaitWriteSettings" =>
           /\ image = ChainList[Target(f)].settings
           /\ ChainList[Target(f)].settingsState = "NeedsWrite"

\* An echo tells that the bank was sent the settings up to a part.
Written(f) ==
  Target(f) \in Sound /\ State = "ConnectedWaitWriteSettings" =>
    /\ ChainList[Target(f)].settingsState = "NeedsWrite"
    /\ Staged(Target(f), ChainList[Target(f)].settings, f.part + 1)
    /\ f.part = NumParts => stored[Target(f)] = staged[Target(f)]

WritingInv ==
  ~hasty =>
    /\ \A f \in Elements(Downlink) : IsA(f, "AA", "WRITE_SETTINGS") => Writing(f)
    /\ \A f \in Elements(Uplink) : IsA(f, "AA", "WRITE_SETTINGS") => Written(f)

\* The settings were read before part k.
ReadUpTo(p, k) == \A j \in Parts : j < k => ChainList[p].settings[j] = stored[p][j]

\* The settings are asked for in the order of their parts, and an answer is true.
Reading(f) == Target(f) \in Sound => ReadUpTo(Target(f), f.part)
ReadBack(f) ==
  Source(f) \in Sound => ReadUpTo(Source(f), f.part) /\ f.value = stored[Source(f)][f.part]

ReadingInv ==
  clean /\ ~hasty /\ State = "ConnectedWaitReadSettings" =>
    /\ \A f \in Elements(Downlink) : IsA(f, "AA", "READ_SETTINGS") => Reading(f)
    /\ \A f \in Elements(Uplink) : IsA(f, "55", "READ_SETTINGS") => ReadBack(f)

DataInv == MarksInv /\ WritingInv /\ ReadingInv /\ NeverTorn /\ ValidIsTrue

\* Nothing that belongs to an exchange is new on the lines.
NothingNew ==
  /\ \A g \in Elements(Downlink') :
       g \in Elements(Downlink) \/ g.cmd \notin {"READ_SETTINGS", "WRITE_SETTINGS"}
  /\ \A g \in Elements(Uplink') :
       \/ g \in Elements(Uplink)
       \/ ~IsA(g, "AA", "WRITE_SETTINGS") /\ ~IsA(g, "55", "READ_SETTINGS")

LEMMA SentOnLines ==
  ASSUME LinesTyped, NEW c \in HostFrames, HostStep(c)
  PROVE  /\ \A g \in Elements(Downlink') : g \in Elements(Downlink) \/ g = c
         /\ Elements(Uplink') \subseteq Elements(Uplink)
<1>1. PICK e \in Seq(HostFrames) : e = <<c>> /\ Elements(e) = {c}
  BY OneFrame
<1>2. PICK d \in Seq(HostFrames) : d = Downlink
  BY DEF LinesTyped
<1>3. Elements(d \o e) = Elements(d) \cup Elements(e)
  BY ElementsConcat
<1>4. Elements(Downlink') \subseteq Elements(d \o e)
  BY <1>1, <1>2 DEF HostStep, Fewer
<1> QED  BY <1>1, <1>2, <1>3, <1>4 DEF HostStep, Fewer

LEMMA NothingNewSent ==
  ASSUME LinesTyped, NEW c \in HostFrames, HostStep(c),
         c.cmd \notin {"READ_SETTINGS", "WRITE_SETTINGS"}
  PROVE  NothingNew
BY SentOnLines DEF NothingNew

\* What may change while the exchange goes on undisturbed: the lines and the handler.
Undisturbed ==
  /\ NothingNew
  /\ UNCHANGED <<ChainList, State, LastDevice, stored, staged, wanted, touched, clean, hasty>>

LEMMA KnownKept ==
  ASSUME UNCHANGED LastDevice,
         \A p \in Slots : ChainList'[p].deviceType = ChainList[p].deviceType
  PROVE  Known(ChainList)' = Known(ChainList)
<1>1. \A p \in Slots : <<p[1], 0>> \in Slots
  BY ConstantFacts DEF Slots
<1> QED  BY <1>1 DEF Known, NumBanks

LEMMA DataKept ==
  ASSUME TypeInv, DataInv, Undisturbed, handler' \in {handler, "none", State}
  PROVE  DataInv'
<1>1. MarksInv'
  BY DEF Undisturbed, DataInv, MarksInv, Known, NumBanks
<1>2. WritingInv'
  <2> SUFFICES ASSUME ~hasty
               PROVE  /\ \A f \in Elements(Downlink') : IsA(f, "AA", "WRITE_SETTINGS") => Writing(f)'
                      /\ \A f \in Elements(Uplink') : IsA(f, "AA", "WRITE_SETTINGS") => Written(f)'
    BY DEF WritingInv, Undisturbed
  <2>1. \A f : Writing(f) => Writing(f)'
    BY DEF Undisturbed, Writing, Sound, Staged
  <2>2. \A f : Written(f) => Written(f)'
    BY DEF Undisturbed, Written, Sound, Staged
  <2> QED  BY <2>1, <2>2 DEF DataInv, WritingInv, Undisturbed, NothingNew, IsA
<1>3. ReadingInv'
  <2> SUFFICES ASSUME clean, ~hasty, State = "ConnectedWaitReadSettings"
               PROVE  /\ \A f \in Elements(Downlink') : IsA(f, "AA", "READ_SETTINGS") => Reading(f)'
                      /\ \A f \in Elements(Uplink') : IsA(f, "55", "READ_SETTINGS") => ReadBack(f)'
    BY DEF ReadingInv, Undisturbed
  <2>1. \A f : Reading(f) => Reading(f)'
    BY DEF Undisturbed, Reading, Sound, ReadUpTo
  <2>2. \A f : ReadBack(f) => ReadBack(f)'
    BY DEF Undisturbed, ReadBack, Sound, ReadUpTo
  <2> QED  BY <2>1, <2>2 DEF DataInv, ReadingInv, Undisturbed, NothingNew, IsA
<1>4. NeverTorn' /\ ValidIsTrue'
  <2>1. Known(ChainList)' = Known(ChainList)
    BY KnownKept DEF Undisturbed
  <2> QED  BY <2>1 DEF Undisturbed, DataInv, NeverTorn, ValidIsTrue
<1> QED  BY <1>1, <1>2, <1>3, <1>4 DEF DataInv

\* Nothing of an exchange is new on the lines, and none is under way.
LEMMA WritingOver ==
  ASSUME WritingInv, NothingNew, State' # "ConnectedWaitWriteSettings", ~hasty' => ~hasty,
         UNCHANGED <<staged>>, touched \subseteq touched',
         \A p \in Banks : wanted[p] \subseteq wanted'[p]
  PROVE  WritingInv'
<1> SUFFICES ASSUME ~hasty
             PROVE  /\ \A f \in Elements(Downlink') : IsA(f, "AA", "WRITE_SETTINGS") => Writing(f)'
                    /\ \A f \in Elements(Uplink') : IsA(f, "AA", "WRITE_SETTINGS") => Written(f)'
  BY DEF WritingInv
<1>1. \A f : Writing(f) => Writing(f)'
  <2> SUFFICES ASSUME NEW f, Writing(f), Target(f) \in Sound'
               PROVE  \E image \in wanted'[Target(f)] :
                        f.value = image[f.part] /\ Staged(Target(f), image, f.part)'
    BY DEF Writing
  <2>1. Target(f) \in Sound /\ Target(f) \in Banks
    BY DEF Sound
  <2>2. PICK image \in wanted[Target(f)] : f.value = image[f.part] /\ Staged(Target(f), image, f.part)
    BY <2>1 DEF Writing
  <2>3. Staged(Target(f), image, f.part)'
    BY <2>2 DEF Staged
  <2>4. image \in wanted'[Target(f)]
    BY <2>1, <2>2
  <2> QED  BY <2>2, <2>3, <2>4
<1>2. \A f : Written(f)'
  BY DEF Written
<1> QED  BY <1>1, <1>2 DEF WritingInv, NothingNew, IsA

LEMMA ZeroedData ==
  ASSUME LinesInv, DataInv, ConnectFails \/ Connect \/ CloseDevice
  PROVE  DataInv'
<1> USE DEF LinesInv
<1>1. /\ State' \in {"Disconnected", "ConnectedWaitForAppStart"}
      /\ ChainList' = ZeroChainList
      /\ UNCHANGED <<stored, staged, wanted, touched, clean, hasty>>
  BY DEF ConnectFails, Connect, CloseDevice, Zeroed, chain, counts
<1>2. NothingNew
  BY ZeroedLine, LineSeqs, ToAllType, NothingNewSent DEF TypeInv
<1>3. \A p \in Slots : ChainList'[p].settingsState = "NeedsRead"
  BY <1>1 DEF ZeroChainList, ZeroChip
<1>4. MarksInv' /\ ReadingInv' /\ ValidIsTrue'
  BY <1>1, <1>3, ConstantFacts DEF MarksInv, ReadingInv, ValidIsTrue
<1>5. NeverTorn'
  BY <1>1 DEF NeverTorn, DataInv
<1>6. WritingInv'
  BY <1>1, <1>2, WritingOver DEF DataInv
<1> QED  BY <1>4, <1>5, <1>6 DEF DataInv

LEMMA EditData ==
  ASSUME LinesInv, DataInv, Edit
  PROVE  DataInv'
<1> USE DEF LinesInv
<1>1. PICK p \in Known(ChainList) \cap Banks, image \in Images :
        /\ ChainList'[p].settings = image /\ ChainList'[p].settingsState = "NeedsWrite"
        /\ \A q \in Slots : q # p => ChainList'[q] = ChainList[q]
        /\ wanted' = [wanted EXCEPT ![p] = @ \cup {image}]
        /\ touched' = IF Early THEN touched \cup {p} ELSE touched
        /\ ChainList'[p].deviceType = ChainList[p].deviceType
  BY EditTypes
<1>2. /\ UNCHANGED <<State, LastDevice, handler, stored, staged, clean, hasty>>
      /\ handler = "none"
  BY DEF Edit, chain, batch, MayCall, Idle
<1>3. NothingNew
  BY EditTypes, LineSeqs, ToAllType, NothingNewSent DEF TypeInv
<1>4. Known(ChainList)' = Known(ChainList)
  <2>1. \A q \in Slots : ChainList'[q].deviceType = ChainList[q].deviceType
    BY <1>1
  <2> QED  BY <1>2, <2>1, KnownKept
<1>5. /\ \A q \in Banks : wanted[q] \subseteq wanted'[q] /\ (q # p => wanted'[q] = wanted[q])
      /\ image \in wanted'[p] /\ touched \subseteq touched'
      /\ State = "Connected" \/ p \in touched'
  BY <1>1 DEF TypeInv, BankType, Early
<1>6. \A q \in Banks \ touched' : q # p => ChainList'[q] = ChainList[q]
  BY <1>1, ConstantFacts
<1>7. MarksInv'
  <2> SUFFICES ASSUME ~hasty, NEW q \in Banks, q \notin touched'
               PROVE
        /\ ChainList'[q].settingsState = "NeedsWrite" =>
             /\ q \in Known(ChainList)' /\ ChainList'[q].settings \in wanted'[q]
             /\ State \in {"Connected", "ConnectedWaitWriteSettings",
                           "ConnectedWaitFinishWriteSettings"}
        /\ State \in {"Disconnected", "ConnectedWaitForAppStart", "ConnectedWaitIdentResponse"}
             => ChainList'[q].settingsState = "NeedsRead"
    BY <1>2 DEF MarksInv
  <2>1. CASE q = p
    BY <1>1, <1>4, <1>5, <2>1
  <2>2. CASE q # p
    BY <1>4, <1>5, <1>6, <2>2 DEF DataInv, MarksInv
  <2> QED  BY <2>1, <2>2
<1>8. NeverTorn' /\ ValidIsTrue'
  BY <1>1, <1>2, <1>4, <1>5, <1>6 DEF DataInv, NeverTorn, ValidIsTrue
<1>9. WritingInv'
  <2>1. CASE State # "ConnectedWaitWriteSettings"
    BY <1>2, <1>3, <1>5, <2>1, WritingOver DEF DataInv
  <2>2. CASE State = "ConnectedWaitWriteSettings"
    <3>1. p \in touched'
      BY <1>5, <2>2
    <3>2. Sound' \subseteq Sound /\ p \notin Sound'
      BY <1>5, <3>1 DEF Sound
    <3>3. \A q \in Sound' : q \in Sound /\ ChainList'[q] = ChainList[q] /\ wanted'[q] = wanted[q]
      BY <1>1, <1>5, <1>6, <3>2 DEF Sound
    <3>4. \A f : Writing(f) => Writing(f)'
      BY <1>2, <3>3 DEF Writing, Staged
    <3>5. \A f : Written(f) => Written(f)'
      BY <1>2, <3>3 DEF Written, Staged
    <3> QED  BY <1>2, <1>3, <3>4, <3>5 DEF DataInv, WritingInv, NothingNew, IsA
  <2> QED  BY <2>1, <2>2
<1>10. ReadingInv'
  <2>1. CASE State # "ConnectedWaitReadSettings"
    BY <1>2, <2>1 DEF ReadingInv
  <2>2. CASE State = "ConnectedWaitReadSettings"
    <3>1. p \in touched'
      BY <1>5, <2>2
    <3>2. \A q \in Sound' : q \in Sound /\ ChainList'[q] = ChainList[q]
      BY <1>1, <1>5, <1>6, <3>1 DEF Sound
    <3>3. \A f : Reading(f) => Reading(f)'
      BY <1>2, <3>2 DEF Reading, ReadUpTo
    <3>4. \A f : ReadBack(f) => ReadBack(f)'
      BY <1>2, <3>2 DEF ReadBack, ReadUpTo
    <3> QED  BY <1>2, <1>3, <3>3, <3>4 DEF DataInv, ReadingInv, NothingNew, IsA
  <2> QED  BY <2>1, <2>2
<1> QED  BY <1>7, <1>8, <1>9, <1>10 DEF DataInv

LEMMA RequestData ==
  ASSUME LinesInv, DataInv, RequestSettings
  PROVE  DataInv'
<1> USE DEF LinesInv
<1>1. /\ UNCHANGED <<LastDevice, handler, stored, staged, wanted, touched, hasty>>
      /\ State = "Connected" /\ State' = "ConnectedWaitReadSettings" /\ handler = "none"
  BY DEF RequestSettings, StartReadSettings, chain, batch, Idle
<1>2. \A p \in Slots :
        /\ ChainList'[p].settings = ChainList[p].settings
        /\ ChainList'[p].deviceType = ChainList[p].deviceType
        /\ ChainList'[p].settingsState =
             IF p \in Known(ChainList) THEN "NeedsRead" ELSE ChainList[p].settingsState
  BY RequestSettingsTypes
<1>3. Known(ChainList)' = Known(ChainList)
  BY <1>1, <1>2, KnownKept
<1>4. PICK c \in HostFrames : /\ c = ReadCommand(<<0, 0>>, 0) /\ HostStep(c)
                              /\ c.sof = "AA" /\ c.cmd = "READ_SETTINGS"
  BY RequestLine
<1>5. c.part = 0
  BY <1>4 DEF ReadCommand, Command, Frame
<1>6. /\ \A g \in Elements(Downlink') : g \in Elements(Downlink) \/ g = c
      /\ Elements(Uplink') \subseteq Elements(Uplink)
  BY <1>4, LineSeqs, SentOnLines DEF TypeInv
<1>7. MarksInv'
  BY <1>1, <1>2, <1>3, ConstantFacts DEF DataInv, MarksInv
<1>8. NeverTorn' /\ ValidIsTrue'
  BY <1>1, <1>2, <1>3 DEF DataInv, NeverTorn, ValidIsTrue, Known
<1>9. WritingInv'
  <2>1. ~hasty => /\ \A f \in Elements(Downlink) : ~IsA(f, "AA", "WRITE_SETTINGS")
                  /\ \A f \in Elements(Uplink) : ~IsA(f, "AA", "WRITE_SETTINGS")
    BY <1>1, NoneOf DEF WritesInv, QuietStates, NoWrites
  <2> QED  BY <1>1, <1>4, <1>6, <2>1 DEF WritingInv, IsA
<1>10. ReadingInv'
  <2>1. clean' => None(Downlink, "AA", "READ_SETTINGS") /\ None(Uplink, "55", "READ_SETTINGS")
    BY DEF RequestSettings, Commands, Answers, None
  <2>2. clean' => /\ \A f \in Elements(Downlink) : ~IsA(f, "AA", "READ_SETTINGS")
                  /\ \A f \in Elements(Uplink) : ~IsA(f, "55", "READ_SETTINGS")
    BY <2>1, NoneOf
  <2>3. Reading(c)'
    <3>1. \A j \in Parts : ~(j < c.part)
      BY <1>5, ConstantFacts DEF Parts
    <3> QED  BY <3>1 DEF Reading, ReadUpTo
  <2> QED  BY <1>6, <2>2, <2>3 DEF ReadingInv
<1> QED  BY <1>7, <1>8, <1>9, <1>10 DEF DataInv

\* A write that begins sends the first part of an image the application gave.
LEMMA StartWriteData ==
  ASSUME LineType, NEW cl \in [Slots -> ChipInfo], cl = ChainList', StartWriteSettings(cl),
         UNCHANGED <<down, wanted, touched>>,
         \A p \in Banks \ touched :
           cl[p].settingsState = "NeedsWrite" => cl[p].settings \in wanted[p],
         None(Downlink, "AA", "WRITE_SETTINGS"), None(Uplink', "AA", "WRITE_SETTINGS")
  PROVE  WritingInv'
<1>1. /\ \A f \in Elements(Downlink) : ~IsA(f, "AA", "WRITE_SETTINGS")
      /\ \A f \in Elements(Uplink') : ~IsA(f, "AA", "WRITE_SETTINGS")
  BY NoneOf
<1>2. CASE UNCHANGED tx
  <2>1. Downlink' = Downlink
    BY <1>2, SilentLine
  <2> QED  BY <1>1, <2>1 DEF WritingInv
<1>3. ASSUME NEW q \in Slots, q \in NeedsWrite(cl), State' = "ConnectedWaitWriteSettings",
             SendPacket(WriteCommand(q, 0, cl))
      PROVE  WritingInv'
  <2>1. PICK c \in HostFrames :
          /\ c = WriteCommand(q, 0, cl) /\ Target(c) = q /\ c.part = 0
          /\ c.value = cl[q].settings[0]
    BY WriteCommandType, ConstantFacts
  <2>2. \A g \in Elements(Downlink') : g \in Elements(Downlink) \/ g = c
    <3>1. PICK e \in Seq(HostFrames), d \in Seq(HostFrames) :
            e = <<c>> /\ Elements(e) = {c} /\ d = Downlink
      BY LineSeqs, OneFrame DEF LinesTyped
    <3>2. Elements(d \o e) = Elements(d) \cup Elements(e)
      BY ElementsConcat
    <3>3. Fewer(Downlink', Downlink \o <<c>>)
      BY <1>3, <2>1, SendLine
    <3> QED  BY <3>1, <3>2, <3>3 DEF Fewer
  <2>3. Writing(c)'
    <3> SUFFICES ASSUME q \in Banks, q \notin touched
                 PROVE  /\ cl[q].settings \in wanted'[q] /\ c.value = cl[q].settings[c.part]
                        /\ Staged(q, cl[q].settings, c.part)'
                        /\ cl[q].settings = ChainList'[q].settings
                        /\ ChainList'[q].settingsState = "NeedsWrite"
      BY <2>1 DEF Writing, Sound
    <3>1. cl[q].settingsState = "NeedsWrite"
      BY <1>3 DEF NeedsWrite
    <3>2. \A j \in Parts : ~(j < c.part)
      BY <2>1, ConstantFacts DEF Parts
    <3> QED  BY <2>1, <3>1, <3>2 DEF Staged
  <2> QED  BY <1>1, <2>2, <2>3 DEF WritingInv
<1> QED  BY <1>2, <1>3, StartWrite

LEMMA FinishWriteData ==
  ASSUME LineType, NEW cl \in [Slots -> ChipInfo], cl = ChainList', FinishWrite(cl),
         UNCHANGED <<down, wanted, touched>>,
         \A p \in Banks \ touched :
           cl[p].settingsState = "NeedsWrite" => cl[p].settings \in wanted[p],
         None(Downlink, "AA", "WRITE_SETTINGS"), None(Uplink', "AA", "WRITE_SETTINGS")
  PROVE  WritingInv'
<1>1. CASE StartWriteSettings(cl)
  BY <1>1, StartWriteData
<1>2. CASE UNCHANGED tx
  <2>1. Downlink' = Downlink
    BY <1>2, SilentLine
  <2>2. /\ \A f \in Elements(Downlink) : ~IsA(f, "AA", "WRITE_SETTINGS")
        /\ \A f \in Elements(Uplink') : ~IsA(f, "AA", "WRITE_SETTINGS")
    BY NoneOf
  <2> QED  BY <2>1, <2>2 DEF WritingInv
<1> QED  BY <1>1, <1>2 DEF FinishWrite

LEMMA SetData ==
  ASSUME LinesInv, DataInv, SetSettings
  PROVE  DataInv'
<1> USE DEF LinesInv
<1>1. /\ UNCHANGED <<LastDevice, ChainList, batch, down, up, clean, stored, staged, wanted, touched>>
      /\ StartWriteSettings(ChainList) /\ handler' = "none"
      /\ ~hasty' => ~hasty /\ State = "Connected"
  BY DEF SetSettings, chain, batch, Early, MayCall, Idle
<1>2. CASE hasty'
  BY <1>2 DEF DataInv, MarksInv, WritingInv, ReadingInv, NeverTorn, ValidIsTrue
<1>3. CASE ~hasty'
  <2>1. ~hasty /\ State = "Connected" /\ NoWrites
    BY <1>1, <1>3 DEF WritesInv, QuietStates
  <2>2. Uplink' = Uplink
    BY <1>1 DEF Uplink, Pending, batch
  <2>3. PICK cl \in [Slots -> ChipInfo] : cl = ChainList
    BY DEF TypeInv, HostType
  <2>4. State' \in {"Connected", "ConnectedWaitWriteSettings"}
    BY <1>1, <2>3, StartWriteLine DEF TypeInv
  <2>5. \A p \in Banks \ touched :
          cl[p].settingsState = "NeedsWrite" => cl[p].settings \in wanted[p]
    BY <2>1, <2>3 DEF DataInv, MarksInv
  <2>6. WritingInv'
    <3>1. cl = ChainList' /\ StartWriteSettings(cl) /\ UNCHANGED <<down, wanted, touched>>
      BY <1>1, <2>3
    <3>2. None(Downlink, "AA", "WRITE_SETTINGS") /\ None(Uplink', "AA", "WRITE_SETTINGS")
      BY <2>1, <2>2 DEF NoWrites
    <3> QED  BY <2>5, <3>1, <3>2, StartWriteData DEF TypeInv
  <2>7. Known(ChainList)' = Known(ChainList)
    BY <1>1, KnownKept
  <2>8. MarksInv' /\ ReadingInv'
    BY <1>1, <2>1, <2>4, <2>7 DEF DataInv, MarksInv, ReadingInv
  <2>9. NeverTorn' /\ ValidIsTrue'
    BY <1>1, <2>1, <2>7 DEF DataInv, NeverTorn, ValidIsTrue
  <2> QED  BY <2>6, <2>8, <2>9 DEF DataInv
<1> QED  BY <1>2, <1>3

\* Nothing is on the line when the applications were given their time, so that
\* IDENTIFY finds room.
LEMMA RoomWhenQuiet ==
  ASSUME TypeInv, QuietInv, WaitForStartHeader, Timeus > StartDelay
  PROVE  HasRoom
<1>0. Elements(Uplink) = {} /\ Elements(Downlink) = {}
  BY DEF WaitForStartHeader, QuietInv
<1>1. PICK d \in Seq(HostFrames), t \in Seq(HostFrames) : d = down /\ t = tx
  BY DEF TypeInv, LineType
<1>2. Elements(d \o t) = Elements(d) \cup Elements(t)
  BY ElementsConcat
<1>3. Elements(t) = {}
  BY <1>0, <1>1, <1>2 DEF Downlink
<1>4. Len(t) \in Nat /\ Elements(t) = {t[i] : i \in 1 .. Len(t)}
  BY SeqFacts
<1>5. ~(Len(t) >= 1)
  <2> SUFFICES ASSUME Len(t) >= 1 PROVE FALSE
    OBVIOUS
  <2>1. 1 \in 1 .. Len(t)
    BY <1>4
  <2>2. t[1] \in Elements(t)
    BY <1>4, <2>1
  <2> QED  BY <1>3, <2>2
<1>6. Len(t) = 0
  BY <1>4, <1>5
<1> QED  BY <1>1, <1>6, ConstantFacts DEF HasRoom

\* When the applications were given their time nothing is on the line: identification
\* begins, and what is promised begins anew.
LEMMA WaitForStartData ==
  ASSUME LinesInv, DataInv, WaitForStartHeader
  PROVE  DataInv'
<1> USE DEF LinesInv
<1>1. PICK cmd \in {"START", "IDENTIFY"} : HostStep(ToAll(cmd)) /\ ToAll(cmd) \in HostFrames
  BY WaitForStartLine
<1>2. NothingNew
  BY <1>1, LineSeqs, ToAllType, NothingNewSent DEF TypeInv
<1>3. /\ UNCHANGED <<clean, stored, staged>> /\ handler' = "none"
      /\ handler = "ConnectedWaitForAppStart"
  BY DEF WaitForStartHeader, chain, Return
<1>4. CASE ~(Timeus > StartDelay)
  <2>1. UNCHANGED <<ChainList, State, LastDevice, wanted, touched, hasty>>
    BY <1>4 DEF WaitForStartHeader, counts
  <2> QED  BY <1>2, <1>3, <2>1, DataKept DEF Undisturbed
<1>5. CASE Timeus > StartDelay
  <2>1. /\ Elements(Uplink) = {} /\ Elements(Downlink) = {} /\ IdentifyChain /\ NewSession
    BY <1>3, <1>5 DEF WaitForStartHeader, QuietInv
  <2>2. HasRoom
    BY <1>5, RoomWhenQuiet
  <2>3. State' = "ConnectedWaitIdentResponse" /\ ChainList' = ZeroChainList
    BY <2>1, <2>2 DEF IdentifyChain
  <2>4. \A p \in Slots : ChainList'[p].settingsState = "NeedsRead"
    BY <2>3 DEF ZeroChainList, ZeroChip
  <2>5. MarksInv' /\ ReadingInv' /\ ValidIsTrue'
    BY <2>3, <2>4, ConstantFacts DEF MarksInv, ReadingInv, ValidIsTrue
  <2>6. NeverTorn'
    <3>1. \A p \in Banks : stored[p] \in wanted'[p]
      BY <2>1 DEF NewSession
    <3> QED  BY <1>3, <3>1 DEF NeverTorn
  <2>7. WritingInv'
    BY <1>2, <2>1 DEF WritingInv, NothingNew, IsA
  <2> QED  BY <2>5, <2>6, <2>7 DEF DataInv
<1> QED  BY <1>4, <1>5

LEMMA LookForIdentData ==
  ASSUME LinesInv, DataInv, LookForIdentResponse
  PROVE  DataInv'
<1> USE DEF LinesInv
<1>1. /\ UNCHANGED <<clean, stored, staged, wanted, touched, hasty, handler>>
      /\ handler = "ConnectedWaitIdentResponse"
  BY DEF LookForIdentResponse, HandlerFrame, chain, counts, Continue
<1>2. /\ State \in QuietStates
      /\ State' \in {"ConnectedWaitIdentResponse", "Connected"}
  BY <1>1, LookForIdentTypes DEF TypeInv, HandlerOK, QuietStates
<1>3. NothingNew
  BY LookForIdentTypes, LineSeqs, ToAllType, NothingNewSent DEF TypeInv
<1>4. ~hasty => \A p \in Banks \ touched : ChainList'[p].settingsState = "NeedsRead"
  BY <1>1, LookForIdentTypes, ConstantFacts DEF DataInv, MarksInv
<1>5. MarksInv' /\ ReadingInv' /\ ValidIsTrue'
  BY <1>1, <1>2, <1>4 DEF MarksInv, ReadingInv, ValidIsTrue
<1>6. NeverTorn'
  BY <1>1 DEF NeverTorn, DataInv
<1>7. WritingInv'
  BY <1>1, <1>2, <1>3, WritingOver DEF DataInv
<1> QED  BY <1>5, <1>6, <1>7 DEF DataInv

LEMMA SameImage ==
  ASSUME NEW a \in Image, NEW b \in Image, \A j \in Parts : a[j] = b[j]
  PROVE  a = b
BY DEF Image

\* When a reading begins with a quiet line its answers come one by one, and none is
\* left when it ends.
LEMMA ReadAlone ==
  ASSUME LinesInv, ReadSettings, clean,
         NEW f \in AnswerFrames, f.cmd = "READ_SETTINGS", ReadEffect(f)
  PROVE  /\ State = "ConnectedWaitReadSettings" /\ f \in Elements(Uplink)
         /\ \A g \in Elements(Downlink) : ~IsA(g, "AA", "READ_SETTINGS")
         /\ \A g \in Elements(Uplink') : ~IsA(g, "55", "READ_SETTINGS")
<1> USE DEF LinesInv
<1>1. f \in Frames /\ IsA(f, "55", "READ_SETTINGS")
  BY AnswerFacts DEF IsA
<1>2. PICK u \in Seq(Frames) : u = Uplink' /\ Uplink = <<f>> \o u
  BY DEF ReadEffect
<1>3. f \in Elements(Uplink)
  <2>1. Uplink = <<f>> \o u /\ f \in Frames
    BY <1>1, <1>2
  <2>2. Elements(Uplink) = {f} \cup Elements(u)
    BY <2>1, HeadOnLine
  <2>3. f \in {f} \cup Elements(u)
    OBVIOUS
  <2> QED  BY ONLY <2>2, <2>3
<1>4. None(Downlink, "AA", "READ_SETTINGS") /\ None(Uplink', "55", "READ_SETTINGS")
  <2>1. Uplink = <<f>> \o Uplink' /\ Uplink' \in Seq(Frames)
    BY DEF ReadEffect
  <2> QED  BY <1>1, <2>1, OneTaken DEF ReadsInv
<1>5. State = "ConnectedWaitReadSettings"
  <2>1. ~None(Uplink, "55", "READ_SETTINGS")
    BY <1>1, <1>3, NoneOf
  <2>2. handler = "ConnectedWaitReadSettings"
    BY DEF ReadSettings
  <2> QED  BY <2>1, <2>2 DEF ReadsInv, TypeInv, HandlerOK
<1> QED  BY <1>3, <1>4, <1>5, NoneOf

\* A part that is read is what the bank uses, and the next part is asked for.
LEMMA ReadData ==
  ASSUME LinesInv, DataInv, ReadSettings
  PROVE  DataInv'
<1> USE DEF LinesInv
<1>1. /\ UNCHANGED <<LastDevice, clean, stored, staged, wanted, touched, hasty, handler>>
      /\ handler = "ConnectedWaitReadSettings"
  BY DEF ReadSettings, HandlerFrame, chain, counts, Continue
<1>2. State \in QuietStates /\ State \in {"ConnectedWaitReadSettings", "Connected"}
  BY <1>1 DEF TypeInv, HandlerOK, QuietStates
<1>3. CASE HostStep(ToAll("START")) /\ UNCHANGED <<ChainList, State>>
  <2>1. NothingNew
    BY <1>3, LineSeqs, ToAllType, NothingNewSent DEF TypeInv
  <2> QED  BY <1>1, <1>3, <2>1, DataKept DEF Undisturbed
<1>4. ASSUME NEW f \in AnswerFrames, f.cmd = "READ_SETTINGS", ReadEffect(f)
      PROVE  DataInv'
  <2>1. PICK p \in Banks : p = Source(f)
    BY AnswerFacts
  <2>2. /\ p \in Slots /\ f.part \in Parts /\ f.value \in Nat /\ f.sof = "55" /\ f \in Frames
        /\ IsA(f, "55", "READ_SETTINGS")
    BY <1>4, AnswerFacts, ConstantFacts DEF IsA
  <2>3. /\ f = rx[next] /\ Uplink = <<f>> \o Uplink' /\ Uplink' \in Seq(Frames)
        /\ State' = IF LastPart(f.part) /\ LastOfAll(p, ChainList) THEN "Connected" ELSE State
        /\ ChainList'[p].settings = [ChainList[p].settings EXCEPT ![f.part] = f.value]
        /\ ChainList'[p].settingsState =
             IF LastPart(f.part) THEN "Valid" ELSE ChainList[p].settingsState
        /\ ChainList'[p].deviceType = ChainList[p].deviceType
        /\ \A q \in Slots : q # p => ChainList'[q] = ChainList[q]
    BY <1>4, <2>1 DEF ReadEffect
  <2>4. PICK c \in HostFrames : /\ c = ReadNext(p, f.part, ChainList) /\ HostStep(c)
                                /\ c.sof = "AA" /\ c.cmd = "READ_SETTINGS"
    BY <1>4, <2>1, ReadLine
  <2>5. /\ \A g \in Elements(Downlink') : g \in Elements(Downlink) \/ g = c
        /\ Elements(Uplink') \subseteq Elements(Uplink) /\ f \in Elements(Uplink)
    <3>1. PICK u \in Seq(Frames) : u = Uplink'
      BY <2>3
    <3>2. Elements(Uplink) = {f} \cup Elements(u)
      <4>1. f \in Frames /\ Uplink = <<f>> \o u
        BY <2>2, <2>3, <3>1
      <4> QED  BY <4>1, HeadOnLine
    <3> QED  BY <2>4, <3>2, LineSeqs, SentOnLines DEF TypeInv
  <2>6. Known(ChainList)' = Known(ChainList)
    <3>1. \A q \in Slots : ChainList'[q].deviceType = ChainList[q].deviceType
      BY <2>3
    <3> QED  BY <1>1, <3>1, KnownKept
  <2>7. State' \in {State, "Connected"}
    BY <2>3
  <2>8. MarksInv'
    <3>1. ~hasty => \A q \in Banks \ touched : ChainList[q].settingsState # "NeedsWrite"
      BY <1>1 DEF DataInv, MarksInv
    <3>2. ~hasty => \A q \in Banks \ touched : ChainList'[q].settingsState # "NeedsWrite"
      BY <2>2, <2>3, <3>1, ConstantFacts
    <3> QED  BY <1>1, <1>2, <2>7, <3>2 DEF MarksInv
  <2>9. WritingInv'
    <3>1. ~hasty => /\ \A g \in Elements(Downlink) : ~IsA(g, "AA", "WRITE_SETTINGS")
                    /\ \A g \in Elements(Uplink) : ~IsA(g, "AA", "WRITE_SETTINGS")
      BY <1>2, NoneOf DEF WritesInv, NoWrites
    <3> QED  BY <1>1, <2>4, <2>5, <3>1 DEF WritingInv, IsA
  <2>10. NeverTorn'
    BY <1>1 DEF NeverTorn, DataInv
  <2>11. clean => /\ State = "ConnectedWaitReadSettings"
                  /\ \A g \in Elements(Downlink) : ~IsA(g, "AA", "READ_SETTINGS")
                  /\ \A g \in Elements(Uplink') : ~IsA(g, "55", "READ_SETTINGS")
    BY <1>4, ReadAlone
  <2>12. clean /\ ~hasty /\ p \in Sound =>
           ReadUpTo(p, f.part) /\ f.value = stored[p][f.part]
    BY <2>1, <2>2, <2>5, <2>11 DEF DataInv, ReadingInv, ReadBack
  <2>13. ChainList[p].settings \in Image /\ stored[p] \in Image /\ Parts = 0 .. NumParts
         /\ ChainList'[p].settings \in Image
    <3>1. TypeInv'
      BY ReadSettingsTypes
    <3> QED  BY <2>2, <3>1 DEF TypeInv, HostType, BankType, ChipInfo, Parts
  <2>14. clean /\ ~hasty /\ p \in Sound =>
           \A j \in Parts : j <= f.part => ChainList'[p].settings[j] = stored[p][j]
    <3> SUFFICES ASSUME clean, ~hasty, p \in Sound, NEW j \in Parts, j <= f.part
                 PROVE  ChainList'[p].settings[j] = stored[p][j]
      OBVIOUS
    <3>1. CASE j = f.part
      BY <2>2, <2>3, <2>12, <2>13, <3>1 DEF Image
    <3>2. CASE j # f.part
      <4>1. j < f.part
        BY <2>2, <3>2 DEF Parts
      <4>2. ChainList[p].settings[j] = stored[p][j]
        BY <2>12, <4>1 DEF ReadUpTo
      <4> QED  BY <2>3, <2>13, <3>2, <4>2 DEF Image
    <3> QED  BY <3>1, <3>2
  <2>15. ValidIsTrue'
    <3> SUFFICES ASSUME ~hasty, clean, NEW q \in Banks, q \in Sound, q \in Known(ChainList),
                        ChainList'[q].settingsState = "Valid"
                 PROVE  ChainList'[q].settings = stored[q]
      BY <1>1, <2>6 DEF ValidIsTrue, Sound
    <3>1. CASE q # p
      <4>1. ChainList'[q] = ChainList[q]
        BY <2>3, <3>1, ConstantFacts
      <4> QED  BY <4>1 DEF DataInv, ValidIsTrue, Sound
    <3>2. CASE q = p /\ LastPart(f.part)
      <4>1. \A j \in Parts : j <= f.part
        BY <2>13, <3>2 DEF LastPart
      <4>2. \A j \in Parts : ChainList'[p].settings[j] = stored[p][j]
        BY <2>14, <3>2, <4>1
      <4>3. ChainList'[p].settings = stored[p]
        BY <2>13, <4>2, SameImage
      <4> QED  BY <3>2, <4>3
    <3>3. CASE q = p /\ ~LastPart(f.part)
      <4>1. ChainList[p].settings = stored[p]
        BY <2>3, <3>3 DEF DataInv, ValidIsTrue, Sound
      <4>2. f.value = stored[p][f.part]
        BY <2>12, <3>3
      <4> QED  BY <2>2, <2>3, <2>13, <3>3, <4>1, <4>2 DEF Image
    <3> QED  BY <3>1, <3>2, <3>3
  <2>16. ReadingInv'
    <3> SUFFICES ASSUME clean, ~hasty, State' = "ConnectedWaitReadSettings" PROVE Reading(c)'
      BY <1>1, <2>5, <2>11 DEF ReadingInv
    <3>1. CASE ~LastPart(f.part)
      <4>1. Target(c) = p /\ c.part = f.part + 1
        <5>1. c = ReadCommand(p, f.part + 1) /\ f.part + 1 \in Parts
          <6>1. c = ReadCommand(p, f.part + 1)
            BY <2>4, <3>1 DEF ReadNext
          <6>2. f.part \in 0 .. NumParts /\ f.part # NumParts /\ NumParts \in Nat
            BY <2>2, <2>13, <3>1, ConstantFacts DEF LastPart
          <6>3. f.part + 1 \in 0 .. NumParts
            BY <6>2
          <6> QED  BY <2>13, <6>1, <6>3
        <5>2. p[1] \in Nat /\ p[2] \in 0 .. 8
          BY <2>2, SlotFields
        <5> QED  BY <2>2, <5>1, <5>2, ReadCommandType
      <4>2. \A j \in Parts : j < f.part + 1 => j <= f.part
        BY <2>2, <2>13
      <4> QED  BY <1>1, <2>14, <4>1, <4>2 DEF Reading, ReadUpTo, Sound
    <3>2. CASE LastPart(f.part)
      <4>1. ~LastOfAll(p, ChainList)
        BY <2>3, <3>2
      <4>2. c.part = 0
        BY <2>4, <3>2, <4>1 DEF ReadNext, LastOfAll, ReadCommand, Command, Frame
      <4>3. \A j \in Parts : ~(j < c.part)
        BY <2>13, <4>2
      <4> QED  BY <4>3 DEF Reading, ReadUpTo
    <3> QED  BY <3>1, <3>2
  <2> QED  BY <2>8, <2>9, <2>10, <2>15, <2>16 DEF DataInv
<1> QED  BY <1>3, <1>4, ReadSettingsTypes

\* The writing of a bank goes on with its next part, or with the next bank.
LEMMA WriteData ==
  ASSUME LinesInv, DataInv, WriteSettings
  PROVE  DataInv'
<1> USE DEF LinesInv
<1>1. /\ UNCHANGED <<LastDevice, clean, stored, staged, wanted, touched, hasty, handler>>
      /\ handler = "ConnectedWaitWriteSettings"
  BY DEF WriteSettings, HandlerFrame, chain, counts, Continue
<1>2. CASE HostStep(ToAll("START")) /\ UNCHANGED <<ChainList, State>>
  <2>1. NothingNew
    BY <1>2, LineSeqs, ToAllType, NothingNewSent DEF TypeInv
  <2> QED  BY <1>1, <1>2, <2>1, DataKept DEF Undisturbed
<1>3. CASE hasty
  BY <1>1, <1>3 DEF DataInv, MarksInv, WritingInv, ReadingInv, NeverTorn, ValidIsTrue
<1>4. ASSUME NEW f \in HostFrames, f.cmd = "WRITE_SETTINGS", WriteEffect(f), ~hasty
      PROVE  DataInv'
  <2>1. PICK p \in Slots : p = Target(f)
    BY <1>4, HostFrameFacts
  <2>2. /\ f.part \in Parts /\ f.sof = "AA" /\ f \in Frames /\ IsA(f, "AA", "WRITE_SETTINGS")
        /\ Uplink = <<f>> \o Uplink' /\ Uplink' \in Seq(Frames) /\ UNCHANGED down
    BY <1>4, HostFrameFacts DEF IsA, WriteEffect
  <2>3. /\ Elements(Uplink') \subseteq Elements(Uplink) /\ f \in Elements(Uplink)
    <3>1. PICK u \in Seq(Frames) : u = Uplink'
      BY <2>2
    <3>2. Elements(Uplink) = {f} \cup Elements(u)
      <4>1. f \in Frames /\ Uplink = <<f>> \o u
        BY <2>2, <3>1
      <4> QED  BY <4>1, HeadOnLine
    <3> QED  BY <3>1, <3>2
  <2>4. None(Downlink, "AA", "WRITE_SETTINGS") /\ None(Uplink', "AA", "WRITE_SETTINGS")
    BY <1>4, <2>2, OneTaken DEF WritesInv
  <2>5. State = "ConnectedWaitWriteSettings"
    <3>1. ~None(Uplink, "AA", "WRITE_SETTINGS")
      BY <2>2, <2>3, NoneOf
    <3>2. State \notin QuietStates
      BY <1>4, <3>1 DEF WritesInv, NoWrites
    <3> QED  BY <1>1, <3>2 DEF QuietStates, TypeInv, HandlerOK
  <2>6. p \in Sound =>
          /\ ChainList[p].settingsState = "NeedsWrite"
          /\ Staged(p, ChainList[p].settings, f.part + 1)
          /\ f.part = NumParts => stored[p] = staged[p]
    BY <1>4, <2>1, <2>2, <2>3, <2>5 DEF DataInv, WritingInv, Written
  <2>7. NeverTorn'
    BY <1>1 DEF NeverTorn, DataInv
  <2>8. CASE LastPart(f.part)
    <3>1. /\ FinishWrite(ChainList') /\ ChainList'[p].settingsState = "Valid"
          /\ ChainList'[p].settings = ChainList[p].settings
          /\ ChainList'[p].deviceType = ChainList[p].deviceType
          /\ \A q \in Slots : q # p => ChainList'[q] = ChainList[q]
      BY <1>4, <2>1, <2>8 DEF WriteEffect
    <3>2. PICK cl \in [Slots -> ChipInfo] : cl = ChainList'
      BY WriteSettingsTypes DEF TypeInv, HostType
    <3>3. FinishWrite(cl)
      BY <3>1, <3>2
    <3>4. State' \in {"Connected", "ConnectedWaitWriteSettings", "ConnectedWaitFinishWriteSettings"}
      BY <2>2, <3>3, FinishWriteLine DEF TypeInv
    <3>5. Known(ChainList)' = Known(ChainList)
      <4>1. \A q \in Slots : ChainList'[q].deviceType = ChainList[q].deviceType
        BY <3>1
      <4> QED  BY <1>1, <4>1, KnownKept
    <3>6. \A q \in Banks \ touched :
            ChainList'[q].settingsState = "NeedsWrite" =>
              q # p /\ ChainList'[q] = ChainList[q] /\ ChainList[q].settings \in wanted[q]
      BY <1>4, <3>1, ConstantFacts DEF DataInv, MarksInv
    <3>7. MarksInv'
      BY <1>1, <1>4, <3>4, <3>5, <3>6 DEF DataInv, MarksInv
    <3>8. WritingInv'
      <4>1. \A q \in Banks \ touched :
              cl[q].settingsState = "NeedsWrite" => cl[q].settings \in wanted[q]
        BY <3>2, <3>6
      <4> QED  BY <1>1, <2>2, <2>4, <3>2, <3>3, <4>1, FinishWriteData DEF TypeInv
    <3>9. ReadingInv'
      BY <3>4 DEF ReadingInv
    <3>10. ValidIsTrue'
      <4> SUFFICES ASSUME clean, NEW q \in Banks, q \in Sound, q \in Known(ChainList),
                          ChainList'[q].settingsState = "Valid"
                   PROVE  ChainList'[q].settings = stored[q]
        BY <1>1, <3>5 DEF ValidIsTrue, Sound
      <4>1. CASE q # p
        <5>1. ChainList'[q] = ChainList[q]
          BY <3>1, <4>1, ConstantFacts
        <5> QED  BY <1>4, <5>1 DEF DataInv, ValidIsTrue, Sound
      <4>2. CASE q = p
        <5>1. f.part = NumParts /\ stored[p] = staged[p]
          BY <2>6, <2>8, <4>2 DEF LastPart
        <5>2. \A j \in Parts : j < f.part + 1
          BY <5>1, ConstantFacts DEF Parts
        <5>3. \A j \in Parts : stored[p][j] = ChainList[p].settings[j]
          BY <2>6, <4>2, <5>1, <5>2 DEF Staged
        <5>4. stored[p] \in Image /\ ChainList[p].settings \in Image
          BY <4>2 DEF TypeInv, HostType, BankType, ChipInfo
        <5> QED  BY <3>1, <4>2, <5>3, <5>4 DEF Image
      <4> QED  BY <4>1, <4>2
    <3> QED  BY <2>7, <3>7, <3>8, <3>9, <3>10 DEF DataInv
  <2>9. CASE ~LastPart(f.part)
    <3>1. /\ SendPacket(WriteCommand(p, f.part + 1, ChainList)) /\ f.part + 1 \in Parts
          /\ UNCHANGED <<ChainList, State>>
      BY <1>4, <2>1, <2>9 DEF WriteEffect
    <3>2. PICK c \in HostFrames :
            /\ c = WriteCommand(p, f.part + 1, ChainList) /\ Target(c) = p
            /\ c.part = f.part + 1 /\ c.value = ChainList[p].settings[f.part + 1]
      BY <3>1, WriteCommandType DEF TypeInv, HostType
    <3>3. \A g \in Elements(Downlink') : g \in Elements(Downlink) \/ g = c
      <4>1. PICK e \in Seq(HostFrames), d \in Seq(HostFrames) :
              e = <<c>> /\ Elements(e) = {c} /\ d = Downlink
        BY LineSeqs, OneFrame DEF LinesTyped, TypeInv
      <4>2. Elements(d \o e) = Elements(d) \cup Elements(e)
        BY ElementsConcat
      <4>3. Fewer(Downlink', Downlink \o <<c>>)
        BY <2>2, <3>1, <3>2, SendLine DEF TypeInv
      <4> QED  BY <4>1, <4>2, <4>3 DEF Fewer
    <3>4. /\ \A g \in Elements(Downlink) : ~IsA(g, "AA", "WRITE_SETTINGS")
          /\ \A g \in Elements(Uplink') : ~IsA(g, "AA", "WRITE_SETTINGS")
      BY <2>4, NoneOf
    <3>5. Known(ChainList)' = Known(ChainList)
      BY <1>1, <3>1, KnownKept
    <3>6. Writing(c)'
      <4> SUFFICES ASSUME p \in Sound
                   PROVE  /\ ChainList[p].settings \in wanted[p]
                          /\ c.value = ChainList[p].settings[c.part]
                          /\ Staged(p, ChainList[p].settings, c.part)
                          /\ ChainList[p].settingsState = "NeedsWrite"
        BY <1>1, <3>1, <3>2 DEF Writing, Sound, Staged
      <4>1. ChainList[p].settings \in wanted[p]
        BY <1>4, <2>6 DEF DataInv, MarksInv, Sound
      <4> QED  BY <2>6, <3>2, <4>1
    <3>7. WritingInv'
      BY <3>3, <3>4, <3>6 DEF WritingInv
    <3>8. MarksInv' /\ ReadingInv' /\ ValidIsTrue'
      BY <1>1, <2>5, <3>1, <3>5 DEF DataInv, MarksInv, ReadingInv, ValidIsTrue
    <3> QED  BY <2>7, <3>7, <3>8 DEF DataInv
  <2> QED  BY <2>8, <2>9
<1> QED  BY <1>2, <1>3, <1>4, WriteSettingsTypes

LEMMA FinishData ==
  ASSUME LinesInv, DataInv, WaitFinishWriteSettings
  PROVE  DataInv'
<1> USE DEF LinesInv
<1>1. /\ UNCHANGED <<LastDevice, ChainList, clean, stored, staged, wanted, touched, hasty, down>>
      /\ FinishWrite(ChainList) /\ handler' = "none"
      /\ handler = "ConnectedWaitFinishWriteSettings"
  BY DEF WaitFinishWriteSettings, HandlerFrame, chain, counts, Return
<1>2. CASE hasty
  BY <1>1, <1>2 DEF DataInv, MarksInv, WritingInv, ReadingInv, NeverTorn, ValidIsTrue
<1>3. CASE ~hasty
  <2>1. State = "ConnectedWaitFinishWriteSettings" /\ NoWrites
    BY <1>1, <1>3 DEF WritesInv, QuietStates, TypeInv, HandlerOK
  <2>2. None(Downlink, "AA", "WRITE_SETTINGS") /\ None(Uplink', "AA", "WRITE_SETTINGS")
    BY <2>1, WaitFinishTypes, FewerNone DEF NoWrites
  <2>3. PICK cl \in [Slots -> ChipInfo] : cl = ChainList /\ cl = ChainList'
    BY <1>1 DEF TypeInv, HostType
  <2>4. State' \in {"Connected", "ConnectedWaitWriteSettings", "ConnectedWaitFinishWriteSettings"}
    BY <1>1, <2>3, FinishWriteLine DEF TypeInv
  <2>5. WritingInv'
    <3>1. \A p \in Banks \ touched :
            cl[p].settingsState = "NeedsWrite" => cl[p].settings \in wanted[p]
      BY <1>3, <2>3 DEF DataInv, MarksInv
    <3>2. FinishWrite(cl)
      BY <1>1, <2>3
    <3> QED  BY <1>1, <2>2, <2>3, <3>1, <3>2, FinishWriteData DEF TypeInv
  <2>6. Known(ChainList)' = Known(ChainList)
    BY <1>1, KnownKept
  <2>7. MarksInv' /\ ReadingInv'
    BY <1>1, <1>3, <2>1, <2>4, <2>6 DEF DataInv, MarksInv, ReadingInv
  <2>8. NeverTorn' /\ ValidIsTrue'
    BY <1>1, <1>3, <2>6 DEF DataInv, NeverTorn, ValidIsTrue
  <2> QED  BY <2>5, <2>7, <2>8 DEF DataInv
<1> QED  BY <1>2, <1>3

\* A bank answers a reading with the part it was asked for.
LEMMA AnswersOf ==
  ASSUME NEW f, NEW g \in Elements(AnswersTo(f))
  PROVE  /\ g.sof = "55"
         /\ g.cmd = "READ_SETTINGS" =>
              /\ f.cmd = "READ_SETTINGS" /\ Target(f) \in Banks \ InBootloader
              /\ Source(g) = Target(f) /\ g.part = f.part
              /\ g.value = stored[Target(f)][f.part]
<1>1. CASE f.cmd = "IDENTIFY"
  <2>1. AnswersTo(f) = [i \in DOMAIN IdentOrder |-> IdentAnswer(IdentOrder[i])]
    BY <1>1 DEF AnswersTo, IdentAnswers
  <2>2. PICK i \in DOMAIN IdentOrder : g = IdentAnswer(IdentOrder[i])
    BY <2>1 DEF Elements
  <2>3. IdentOrder[i] \in Banks
    BY SessionAssumption, SeqFacts
  <2> QED  BY <2>2, <2>3, IdentAnswerType
<1>2. CASE f.cmd = "READ_SETTINGS" /\ Target(f) \in Banks \ InBootloader
  <2>1. g = Answer(f.cmd, Target(f), f.part, stored[Target(f)][f.part])
    <3>1. AnswersTo(f) = <<Answer(f.cmd, Target(f), f.part, stored[Target(f)][f.part])>>
      BY <1>2 DEF AnswersTo
    <3> QED  BY <3>1 DEF Elements
  <2>2. /\ g.sof = "55" /\ g.part = f.part /\ g.value = stored[Target(f)][f.part]
        /\ g.device = Target(f)[1] /\ g.bank = Target(f)[2]
    BY <2>1 DEF Answer, Frame
  <2>3. Target(f) = <<Target(f)[1], Target(f)[2]>>
    BY DEF Target
  <2> QED  BY <1>2, <2>2, <2>3 DEF Source
<1>3. CASE f.cmd # "IDENTIFY" /\ ~(f.cmd = "READ_SETTINGS" /\ Target(f) \in Banks \ InBootloader)
  BY <1>3, NoFrames DEF AnswersTo
<1> QED  BY <1>1, <1>2, <1>3

LEMMA TakenOnLines ==
  ASSUME TypeInv, ChainTakes
  PROVE  \E f \in HostFrames :
           /\ f = Head(down) /\ f \in Elements(Downlink)
           /\ Elements(Downlink') \subseteq Elements(Downlink)
           /\ \A g \in Elements(Uplink') :
                g \in Elements(Uplink) \/ g = f \/ g \in Elements(AnswersTo(f))
           /\ IsA(f, "AA", "WRITE_SETTINGS") /\ OneOf(Downlink, Uplink, "AA", "WRITE_SETTINGS")
                => None(Downlink', "AA", "WRITE_SETTINGS") /\ None(Uplink, "AA", "WRITE_SETTINGS")
<1>1. PICK f \in HostFrames, u \in Seq(Frames) :
        /\ f = Head(down) /\ Downlink = <<f>> \o Downlink' /\ Uplink' = Uplink \o u
        /\ \A g \in Elements(u) : g = f \/ g \in Elements(AnswersTo(f))
  BY Taken
<1>2. PICK d \in Seq(HostFrames), v \in Seq(Frames) : d = Downlink' /\ v = Uplink
  <2>1. LinesTyped /\ LinesTyped'
    BY TakeLine, LineSeqs, LineSeqsNext DEF TypeInv
  <2> QED  BY <2>1 DEF LinesTyped
<1>3. Elements(Downlink) = {f} \cup Elements(d)
  <2>1. Downlink = <<f>> \o d
    BY <1>1, <1>2
  <2> QED  BY <2>1, HeadOnLine
<1>4. Elements(v \o u) = Elements(v) \cup Elements(u)
  BY ElementsConcat
<1>5. ASSUME IsA(f, "AA", "WRITE_SETTINGS"), OneOf(Downlink, Uplink, "AA", "WRITE_SETTINGS")
      PROVE  None(d, "AA", "WRITE_SETTINGS") /\ None(Uplink, "AA", "WRITE_SETTINGS")
  <2>1. PICK e \in Seq(HostFrames) : e = <<f>> /\ ~None(e, "AA", "WRITE_SETTINGS")
    BY <1>5, OneFrame
  <2>2. Single(e \o d, "AA", "WRITE_SETTINGS")
    BY <1>1, <1>2, <1>5, <2>1 DEF OneOf
  <2>3. None(d, "AA", "WRITE_SETTINGS")
    BY <2>1, <2>2, SingleConcat
  <2>4. ~None(Downlink, "AA", "WRITE_SETTINGS")
    BY <1>3, <1>5, NoneOf
  <2> QED  BY <1>5, <2>3, <2>4 DEF OneOf
<1> QED  BY <1>1, <1>2, <1>3, <1>4, <1>5

\* A write is on its way only to a bank the host does not show.
LEMMA WriteOnTheWay ==
  ASSUME LinesInv, DataInv, ~hasty, NEW f \in Elements(Downlink), IsA(f, "AA", "WRITE_SETTINGS")
  PROVE  /\ State \in {"Disconnected", "ConnectedWaitForAppStart", "ConnectedWaitWriteSettings"}
         /\ Target(f) \in Sound => ChainList[Target(f)].settingsState # "Valid"
<1> USE DEF LinesInv
<1>1. State \in {"Disconnected", "ConnectedWaitForAppStart", "ConnectedWaitWriteSettings"}
  <2>1. ~None(Downlink, "AA", "WRITE_SETTINGS")
    BY NoneOf
  <2>2. State \notin QuietStates
    BY <2>1 DEF WritesInv, NoWrites
  <2> QED  BY <2>2 DEF QuietStates, TypeInv, HostType, States
<1>2. ASSUME Target(f) \in Sound
      PROVE  ChainList[Target(f)].settingsState # "Valid"
  <2>1. CASE State = "ConnectedWaitWriteSettings"
    <3>1. Writing(f)
      BY DEF DataInv, WritingInv
    <3> QED  BY <1>2, <2>1, <3>1 DEF Writing
  <2>2. CASE State # "ConnectedWaitWriteSettings"
    BY <1>1, <1>2, <2>2 DEF DataInv, MarksInv, Sound
  <2> QED  BY <2>1, <2>2
<1> QED  BY <1>1, <1>2

\* A bank takes a part of settings: it is the next part of an image of its own.
LEMMA TakeWriteData ==
  ASSUME LinesInv, DataInv, ChainTakes, ~hasty, NEW f \in HostFrames, f = Head(down),
         f.cmd = "WRITE_SETTINGS", Target(f) \in Banks \ InBootloader
  PROVE  DataInv'
<1> USE DEF LinesInv
<1>1. UNCHANGED <<State, LastDevice, ChainList, handler, clean, wanted, touched, hasty>>
  BY ChainTakesTypes DEF host
<1>2. PICK p \in Banks : p = Target(f) /\ p \notin InBootloader
  OBVIOUS
<1>3. /\ f.part \in Parts /\ f.value \in Nat
      /\ staged' = [staged EXCEPT ![p] = [staged[p] EXCEPT ![f.part] = f.value]]
      /\ \/ f.part = NumParts /\ stored' = [stored EXCEPT ![p] = staged'[p]]
         \/ f.part # NumParts /\ UNCHANGED stored
  BY <1>2, BankStores
<1>4. /\ f \in Elements(Downlink) /\ Elements(Downlink') \subseteq Elements(Downlink)
      /\ \A g \in Elements(Uplink') :
           g \in Elements(Uplink) \/ g = f \/ g \in Elements(AnswersTo(f))
      /\ IsA(f, "AA", "WRITE_SETTINGS") /\ OneOf(Downlink, Uplink, "AA", "WRITE_SETTINGS")
           => None(Downlink', "AA", "WRITE_SETTINGS") /\ None(Uplink, "AA", "WRITE_SETTINGS")
  BY TakenOnLines
<1>5. IsA(f, "AA", "WRITE_SETTINGS")
  BY HostFrameFacts DEF IsA
<1>6. /\ \A g \in Elements(Downlink') : ~IsA(g, "AA", "WRITE_SETTINGS")
      /\ \A g \in Elements(Uplink) : ~IsA(g, "AA", "WRITE_SETTINGS")
  <2>1. None(Downlink', "AA", "WRITE_SETTINGS") /\ None(Uplink, "AA", "WRITE_SETTINGS")
    BY <1>4, <1>5 DEF WritesInv
  <2> QED  BY <2>1, NoneOf
<1>7. /\ State \in {"Disconnected", "ConnectedWaitForAppStart", "ConnectedWaitWriteSettings"}
      /\ p \in Sound => ChainList[p].settingsState # "Valid"
  BY <1>2, <1>4, <1>5, WriteOnTheWay
<1>8. p \in Sound =>
        \E image \in wanted[p] :
          /\ f.value = image[f.part] /\ Staged(p, image, f.part)
          /\ State = "ConnectedWaitWriteSettings" =>
               image = ChainList[p].settings /\ ChainList[p].settingsState = "NeedsWrite"
  BY <1>2, <1>4, <1>5 DEF DataInv, WritingInv, Writing
<1>9. /\ staged \in [Banks -> Image] /\ stored \in [Banks -> Image] /\ Parts = 0 .. NumParts
      /\ \A q \in Banks : wanted[q] \subseteq Image
      /\ staged' \in [Banks -> Image]
  <2>1. TypeInv'
    BY ChainTakesTypes
  <2> QED  BY <2>1 DEF TypeInv, BankType, Parts
<1>10. /\ \A j \in Parts : staged'[p][j] = IF j = f.part THEN f.value ELSE staged[p][j]
       /\ \A q \in Banks : q # p => staged'[q] = staged[q] /\ stored'[q] = stored[q]
       /\ f.part = NumParts => stored'[p] = staged'[p]
       /\ f.part # NumParts => stored'[p] = stored[p]
  <2>1. staged'[p] = [staged[p] EXCEPT ![f.part] = f.value]
    BY <1>3, <1>9
  <2>2. \A j \in Parts : staged'[p][j] = IF j = f.part THEN f.value ELSE staged[p][j]
    BY <1>3, <1>9, <2>1 DEF Image
  <2>3. \A q \in Banks : q # p => staged'[q] = staged[q] /\ stored'[q] = stored[q]
    BY <1>3, <1>9
  <2>4. /\ f.part = NumParts => stored'[p] = staged'[p]
        /\ f.part # NumParts => stored'[p] = stored[p]
    BY <1>3, <1>9
  <2> QED  BY <2>2, <2>3, <2>4
<1>11. ASSUME NEW image \in Image, f.value = image[f.part], Staged(p, image, f.part)
       PROVE  Staged(p, image, f.part + 1)' /\ (f.part = NumParts => stored'[p] = image)
  <2>1. ASSUME NEW j \in Parts, j < f.part + 1
        PROVE  staged'[p][j] = image[j]
    <3>1. j = f.part \/ j < f.part
      BY <1>3, <1>9, <2>1
    <3>2. CASE j = f.part
      BY <1>10, <1>11, <3>2
    <3>3. CASE j # f.part
      <4>1. staged[p][j] = image[j]
        BY <1>11, <3>1, <3>3 DEF Staged
      <4> QED  BY <1>10, <3>3, <4>1
    <3> QED  BY <3>2, <3>3
  <2>2. Staged(p, image, f.part + 1)'
    BY <2>1 DEF Staged
  <2>3. ASSUME f.part = NumParts PROVE stored'[p] = image
    <3>1. \A j \in Parts : j < f.part + 1
      BY <1>9, <2>3, ConstantFacts
    <3>2. \A j \in Parts : staged'[p][j] = image[j]
      BY <2>1, <3>1
    <3>3. staged'[p] \in Image
      BY <1>9
    <3>4. staged'[p] = image
      BY <3>2, <3>3, SameImage
    <3> QED  BY <1>10, <2>3, <3>4
  <2> QED  BY <2>2, <2>3
<1>12. MarksInv' /\ ReadingInv'
  <2>1. Known(ChainList)' = Known(ChainList)
    BY <1>1, KnownKept
  <2> QED  BY <1>1, <1>7, <2>1 DEF DataInv, MarksInv, ReadingInv
<1>13. NeverTorn'
  <2> SUFFICES ASSUME NEW q \in Banks, q \notin touched PROVE stored'[q] \in wanted[q]
    BY <1>1 DEF NeverTorn
  <2>1. CASE q = p /\ f.part = NumParts
    <3>1. p \in Sound
      BY <1>2, <2>1 DEF Sound
    <3>2. PICK image \in wanted[p] : f.value = image[f.part] /\ Staged(p, image, f.part)
      BY <1>8, <3>1
    <3>3. image \in Image
      BY <1>9, <3>2
    <3> QED  BY <1>11, <2>1, <3>2, <3>3
  <2>2. CASE ~(q = p /\ f.part = NumParts)
    <3>1. stored'[q] = stored[q]
      BY <1>10, <2>2
    <3> QED  BY <3>1 DEF DataInv, NeverTorn
  <2> QED  BY <2>1, <2>2
<1>14. ValidIsTrue'
  <2>1. Known(ChainList)' = Known(ChainList)
    BY <1>1, KnownKept
  <2> SUFFICES ASSUME clean, NEW q \in Banks, q \in Sound, q \in Known(ChainList),
                      ChainList[q].settingsState = "Valid"
               PROVE  ChainList[q].settings = stored'[q]
    BY <1>1, <2>1 DEF ValidIsTrue, Sound
  <2>2. CASE q # p
    BY <1>10, <2>2 DEF DataInv, ValidIsTrue, Sound
  <2>3. CASE q = p
    BY <1>7, <2>3
  <2> QED  BY <2>2, <2>3
<1>15. WritingInv'
  <2>1. Written(f)'
    <3> SUFFICES ASSUME p \in Sound, State = "ConnectedWaitWriteSettings"
                 PROVE  /\ ChainList[p].settingsState = "NeedsWrite"
                        /\ Staged(p, ChainList[p].settings, f.part + 1)'
                        /\ f.part = NumParts => stored'[p] = staged'[p]
      BY <1>1, <1>2 DEF Written, Sound, Staged
    <3>1. /\ f.value = ChainList[p].settings[f.part] /\ Staged(p, ChainList[p].settings, f.part)
          /\ ChainList[p].settingsState = "NeedsWrite" /\ ChainList[p].settings \in Image
      BY <1>8, <1>9
    <3>2. PICK image \in Image : image = ChainList[p].settings
      BY <3>1
    <3>3. Staged(p, image, f.part + 1)'
      BY <1>11, <3>1, <3>2
    <3>4. Staged(p, ChainList[p].settings, f.part + 1)'
      BY <1>1, <3>2, <3>3 DEF Staged
    <3> QED  BY <1>10, <3>1, <3>4
  <2>2. \A g \in Elements(Uplink') : IsA(g, "AA", "WRITE_SETTINGS") => g = f
    <3>1. \A g \in Elements(AnswersTo(f)) : ~IsA(g, "AA", "WRITE_SETTINGS")
      BY AnswersOf DEF IsA
    <3> QED  BY <1>4, <1>6, <3>1
  <2> QED  BY <1>6, <2>1, <2>2 DEF WritingInv
<1> QED  BY <1>12, <1>13, <1>14, <1>15 DEF DataInv

\* A bank answers a reading, or the command is for none that has settings.
LEMMA TakeOtherData ==
  ASSUME LinesInv, DataInv, ChainTakes, ~hasty, NEW f \in HostFrames, f = Head(down),
         ~(f.cmd = "WRITE_SETTINGS" /\ Target(f) \in Banks \ InBootloader)
  PROVE  DataInv'
<1> USE DEF LinesInv
<1>1. UNCHANGED <<State, LastDevice, ChainList, handler, clean, wanted, touched, hasty>>
  BY ChainTakesTypes DEF host
<1>2. UNCHANGED <<stored, staged>>
  BY BankStores
<1>3. /\ f \in Elements(Downlink) /\ Elements(Downlink') \subseteq Elements(Downlink)
      /\ \A g \in Elements(Uplink') :
           g \in Elements(Uplink) \/ g = f \/ g \in Elements(AnswersTo(f))
  BY TakenOnLines
<1>4. Known(ChainList)' = Known(ChainList)
  BY <1>1, KnownKept
<1>5. MarksInv' /\ NeverTorn' /\ ValidIsTrue'
  BY <1>1, <1>2, <1>4 DEF DataInv, MarksInv, NeverTorn, ValidIsTrue
<1>6. WritingInv'
  <2>1. \A g : Writing(g) => Writing(g)'
    BY <1>1, <1>2 DEF Writing, Sound, Staged
  <2>2. \A g : Written(g) => Written(g)'
    BY <1>1, <1>2 DEF Written, Sound, Staged
  <2>3. f.cmd = "WRITE_SETTINGS" => Written(f)
    BY DEF Written, Sound
  <2>4. \A g \in Elements(AnswersTo(f)) : ~IsA(g, "AA", "WRITE_SETTINGS")
    BY AnswersOf DEF IsA
  <2>5. \A g \in Elements(Uplink') : IsA(g, "AA", "WRITE_SETTINGS") => Written(g)
    BY <1>3, <2>3, <2>4 DEF DataInv, WritingInv, IsA
  <2>6. \A g \in Elements(Downlink') : IsA(g, "AA", "WRITE_SETTINGS") => Writing(g)
    BY <1>3 DEF DataInv, WritingInv
  <2> QED  BY <2>1, <2>2, <2>5, <2>6 DEF WritingInv
<1>7. ReadingInv'
  <2> SUFFICES ASSUME clean, State = "ConnectedWaitReadSettings"
               PROVE  /\ \A g \in Elements(Downlink') : IsA(g, "AA", "READ_SETTINGS") => Reading(g)'
                      /\ \A g \in Elements(Uplink') : IsA(g, "55", "READ_SETTINGS") => ReadBack(g)'
    BY <1>1 DEF ReadingInv
  <2>1. \A g : Reading(g) => Reading(g)'
    BY <1>1, <1>2 DEF Reading, Sound, ReadUpTo
  <2>2. \A g : ReadBack(g) => ReadBack(g)'
    BY <1>1, <1>2 DEF ReadBack, Sound, ReadUpTo
  <2>3. \A g \in Elements(AnswersTo(f)) : IsA(g, "55", "READ_SETTINGS") => ReadBack(g)
    <3> SUFFICES ASSUME NEW g \in Elements(AnswersTo(f)), g.cmd = "READ_SETTINGS"
                 PROVE  ReadBack(g)
      BY DEF IsA
    <3>1. /\ f.cmd = "READ_SETTINGS" /\ Source(g) = Target(f) /\ g.part = f.part
          /\ g.value = stored[Target(f)][f.part]
      BY AnswersOf
    <3>2. Reading(f)
      BY <1>3, <3>1, HostFrameFacts DEF DataInv, ReadingInv, IsA
    <3> QED  BY <3>1, <3>2 DEF Reading, ReadBack
  <2>4. ~IsA(f, "55", "READ_SETTINGS")
    BY HostFrameFacts DEF IsA
  <2> QED  BY <1>3, <2>1, <2>2, <2>3, <2>4 DEF DataInv, ReadingInv
<1> QED  BY <1>5, <1>6, <1>7 DEF DataInv

\* The rest leaves the exchange alone: a tick, the end of a batch, a report, a loss.
LEMMA StillData ==
  ASSUME LinesInv, DataInv, Tick \/ TickFails \/ EndBatch \/ Lose
  PROVE  DataInv'
<1> USE DEF LinesInv
<1>1. /\ HostStep(ToAll("START")) /\ handler' \in {handler, "none", State}
      /\ UNCHANGED <<ChainList, State, LastDevice, stored, staged, wanted, touched, clean, hasty>>
  BY TickTypes, EndBatchTypes, LoseTypes DEF host
<1>2. LinesTyped
  BY LineSeqs DEF TypeInv
<1>3. ToAll("START") \in HostFrames /\ ToAll("START").cmd = "START"
  BY ToAllType DEF ToAll, Frame
<1>4. NothingNew
  BY <1>1, <1>2, <1>3, NothingNewSent
<1> QED  BY <1>1, <1>4, DataKept DEF Undisturbed

LEMMA ReportData ==
  ASSUME LinesInv, DataInv, ChainReports
  PROVE  DataInv'
<1> USE DEF LinesInv
<1>1. PICK p \in due, f \in AnswerFrames :
        f = Answer("WRITE_SETTINGS", p, 0, 0) /\ Uplink' = Uplink \o <<f>>
  BY ChainReportsTypes
<1>2. /\ UNCHANGED <<ChainList, State, LastDevice, handler>> /\ Downlink' = Downlink
      /\ UNCHANGED <<stored, staged, wanted, touched, clean, hasty>>
  BY ChainReportsTypes DEF host
<1>3. f.sof = "55" /\ f.cmd = "WRITE_SETTINGS" /\ f \in Frames
  BY <1>1, AnswerFacts DEF Answer, Frame
<1>4. PICK u \in Seq(Frames) : u = Uplink
  BY LineSeqs DEF TypeInv, LinesTyped
<1>5. PICK e \in Seq(Frames) : e = <<f>> /\ Elements(e) = {f}
  BY <1>3, OneFrame
<1>6. Elements(Uplink') = Elements(Uplink) \cup {f}
  <2>1. Elements(u \o e) = Elements(u) \cup Elements(e)
    BY ElementsConcat
  <2> QED  BY <1>1, <1>4, <1>5, <2>1
<1>7. NothingNew
  BY <1>2, <1>3, <1>6 DEF NothingNew, IsA
<1> QED  BY <1>2, <1>7, DataKept DEF Undisturbed

LEMMA TakeData ==
  ASSUME LinesInv, DataInv, ChainTakes
  PROVE  DataInv'
<1>1. CASE hasty
  <2>1. hasty'
    BY <1>1, ChainTakesTypes DEF LinesInv
  <2> QED  BY <2>1 DEF DataInv, MarksInv, WritingInv, ReadingInv, NeverTorn, ValidIsTrue
<1>2. CASE ~hasty
  <2>1. PICK f \in HostFrames : f = Head(down)
    BY TakenOnLines DEF LinesInv
  <2> QED  BY <1>2, <2>1, TakeWriteData, TakeOtherData
<1> QED  BY <1>1, <1>2

LEMMA DataStep == LinesInv /\ DataInv /\ [Next]_vars => DataInv'
<1> SUFFICES ASSUME LinesInv, DataInv, [Next]_vars PROVE DataInv'
  OBVIOUS
<1>1. CASE Application
  <2>1. CASE ConnectFails \/ Connect \/ CloseDevice
    BY <2>1, ZeroedData
  <2>2. CASE Edit
    BY <2>2, EditData
  <2>3. CASE RequestSettings
    BY <2>3, RequestData
  <2>4. CASE SetSettings
    BY <2>4, SetData
  <2> QED  BY <1>1, <2>1, <2>2, <2>3, <2>4 DEF Application
<1>2. CASE Tick \/ TickFails
  BY <1>2, StillData
<1>3. CASE Handler
  BY <1>3, WaitForStartData, LookForIdentData, ReadData, WriteData, FinishData, StillData
     DEF Handler
<1>4. CASE External
  BY <1>4, TakeData, ReportData, StillData DEF External
<1>5. CASE UNCHANGED vars
  <2>1. /\ UNCHANGED <<batch, tx, down, up, handler>>
        /\ UNCHANGED <<ChainList, State, LastDevice, stored, staged, wanted, touched, clean, hasty>>
    BY <1>5 DEF vars, host, batch, chain, counts
  <2>2. Uplink' = Uplink /\ Downlink' = Downlink
    BY <2>1, StillLine DEF LinesInv, TypeInv
  <2> QED  BY <2>1, <2>2, DataKept DEF LinesInv, Undisturbed, NothingNew
<1> QED  BY <1>1, <1>2, <1>3, <1>4, <1>5 DEF Next

LEMMA DataInvHolds == Spec => [](LinesInv /\ DataInv)
<1>1. Init => DataInv
  <2> SUFFICES ASSUME Init PROVE DataInv
    OBVIOUS
  <2>1. /\ Elements(Uplink) = {} /\ Elements(Downlink) = {}
    BY EmptySeq, ConcatEmptySeq, NoFrames DEF Init, Uplink, Downlink, Pending
  <2>2. \A p \in Slots : ChainList[p].settingsState = "NeedsRead"
    BY DEF Init, ZeroChainList, ZeroChip
  <2>3. MarksInv /\ ReadingInv /\ ValidIsTrue
    BY <2>2, ConstantFacts DEF Init, MarksInv, ReadingInv, ValidIsTrue
  <2>4. WritingInv /\ NeverTorn
    BY <2>1 DEF Init, WritingInv, NeverTorn
  <2> QED  BY <2>3, <2>4 DEF DataInv
<1> QED  BY <1>1, LinesInvHolds, DataStep, PTL DEF Spec

\* NeverTorn: the settings a bank uses are an image it was given as a whole; the
\* parts of a write come from one image, in order, whatever is interrupted, lost or
\* edited between (PacketHandler.c:462-528).
THEOREM NeverTornHolds == Spec => []NeverTorn
BY DataInvHolds, PTL DEF DataInv

\* ValidIsTrue: settings called valid, read or written, are those the bank uses
\* (PacketHandler.c:410-528).
THEOREM ValidIsTrueHolds == Spec => []ValidIsTrue
BY DataInvHolds, PTL DEF DataInv

-----------------------------------------------------------------------------
(***************************************************************************)
(* The session keeps what Settings promises                                *)
(***************************************************************************)

\* The host calls the settings of the bank valid, and they are promised to be.
IsShown(p) ==
  /\ clean /\ p \notin Excused \cup InBootloader
  /\ ChainList[p].settingsState = "Valid" /\ p \in Known(ChainList)

ShownIs == Shown = [p \in Banks |-> IF IsShown(p) THEN {stored[p]} ELSE {}]

LEMMA ShownState == DataInv => ShownIs
<1> SUFFICES ASSUME DataInv PROVE ShownIs
  OBVIOUS
<1>1. \A p \in Banks : IsShown(p) => ChainList[p].settings = stored[p]
  BY DEF DataInv, ValidIsTrue, IsShown, Excused
<1> QED  BY <1>1 DEF ShownIs, Shown, IsShown

LEMMA ShownNext == DataInv' => ShownIs'
BY ShownState, PTL

\* The settings of one bank at most are shown by a step, and of none forgotten.
LEMMA ShowStep ==
  ASSUME DataInv, DataInv', UNCHANGED <<stored, wanted, touched, hasty>>, NEW p \in Banks,
         \A q \in Banks : q # p => (IsShown(q)' <=> IsShown(q)),
         IsShown(p) => IsShown(p)'
  PROVE  [Promise!Next]_Promise!vars
<1>1. ShownIs /\ ShownIs' /\ Excused' = Excused
  BY ShownState, ShownNext DEF Excused
<1>2. CASE IsShown(p)'
  <2>1. p \in Banks \ Excused
    BY <1>1, <1>2 DEF IsShown
  <2>2. Shown' = [Shown EXCEPT ![p] = {stored[p]}]
    BY <1>1, <1>2 DEF ShownIs
  <2> QED  BY <1>1, <2>1, <2>2 DEF Promise!Next, Promise!Show
<1>3. CASE ~IsShown(p)'
  <2>1. Shown' = Shown
    BY <1>1, <1>3 DEF ShownIs
  <2> QED  BY <1>1, <2>1 DEF Promise!vars
<1> QED  BY <1>2, <1>3

LEMMA NothingShown ==
  ASSUME DataInv, DataInv', UNCHANGED <<stored, wanted, touched, hasty>>,
         \A q \in Banks : IsShown(q)' <=> IsShown(q)
  PROVE  [Promise!Next]_Promise!vars
<1>1. ShownIs /\ ShownIs' /\ Excused' = Excused
  BY ShownState, ShownNext DEF Excused
<1>2. Shown' = Shown
  BY <1>1 DEF ShownIs
<1> QED  BY <1>1, <1>2 DEF Promise!vars

\* Nothing is shown any more.
LEMMA ForgetStep ==
  ASSUME DataInv', UNCHANGED <<stored, wanted, touched, hasty>>,
         \A q \in Banks : ~IsShown(q)'
  PROVE  [Promise!Next]_Promise!vars
<1>1. ShownIs' /\ Excused' = Excused
  BY ShownNext DEF Excused
<1>2. Shown' = [p \in Banks |-> IF p \in Banks THEN {} ELSE Shown[p]]
  BY <1>1 DEF ShownIs
<1> QED  BY <1>1, <1>2 DEF Promise!Next, Promise!Forget

LEMMA ZeroedPromise ==
  ASSUME DataInv', ConnectFails \/ Connect \/ CloseDevice
  PROVE  [Promise!Next]_Promise!vars
<1>1. ChainList' = ZeroChainList /\ UNCHANGED <<stored, wanted, touched, hasty>>
  BY DEF ConnectFails, Connect, CloseDevice, Zeroed, chain, counts
<1>2. \A q \in Banks : ~IsShown(q)'
  BY <1>1, ConstantFacts DEF IsShown, ZeroChainList, ZeroChip
<1> QED  BY <1>1, <1>2, ForgetStep

LEMMA RequestPromise ==
  ASSUME TypeInv, DataInv', RequestSettings
  PROVE  [Promise!Next]_Promise!vars
<1>1. UNCHANGED <<LastDevice, stored, wanted, touched, hasty>>
  BY DEF RequestSettings, chain
<1>2. \A p \in Slots :
        /\ ChainList'[p].deviceType = ChainList[p].deviceType
        /\ ChainList'[p].settingsState =
             IF p \in Known(ChainList) THEN "NeedsRead" ELSE ChainList[p].settingsState
  BY RequestSettingsTypes
<1>3. Known(ChainList)' = Known(ChainList)
  BY <1>1, <1>2, KnownKept
<1>4. \A q \in Banks : ~IsShown(q)'
  BY <1>2, <1>3, ConstantFacts DEF IsShown
<1> QED  BY <1>1, <1>4, ForgetStep

\* New settings are offered, and no longer shown.
LEMMA EditPromise ==
  ASSUME TypeInv, DataInv, DataInv', Edit
  PROVE  [Promise!Next]_Promise!vars
<1>1. PICK p \in Known(ChainList) \cap Banks, image \in Images :
        /\ ChainList' = [ChainList EXCEPT ![p].settings = image,
                                          ![p].settingsState = "NeedsWrite"]
        /\ wanted' = [wanted EXCEPT ![p] = @ \cup {image}]
        /\ touched' = IF Early THEN touched \cup {p} ELSE touched
  BY DEF Edit
<1>2. UNCHANGED <<LastDevice, stored, clean, hasty>>
  BY DEF Edit, chain
<1>3. /\ ChainList \in [Slots -> ChipInfo] /\ p \in Slots
      /\ \A q \in Slots : q # p => ChainList'[q] = ChainList[q]
      /\ ChainList'[p].deviceType = ChainList[p].deviceType
      /\ ChainList'[p].settingsState = "NeedsWrite"
  BY <1>1, ConstantFacts DEF TypeInv, HostType, ChipInfo
<1>4. Known(ChainList)' = Known(ChainList)
  <2>1. \A q \in Slots : ChainList'[q].deviceType = ChainList[q].deviceType
    BY <1>3
  <2> QED  BY <1>2, <2>1, KnownKept
<1>5. Excused' \in {Excused, Excused \cup {p}}
  BY <1>1, <1>2 DEF Excused
<1>6. \A q \in Banks : q # p => (IsShown(q)' <=> IsShown(q))
  BY <1>2, <1>3, <1>4, <1>5, ConstantFacts DEF IsShown
<1>7. ~IsShown(p)'
  BY <1>3 DEF IsShown
<1>8. Shown' = [Shown EXCEPT ![p] = {}]
  BY <1>2, <1>6, <1>7, ShownState, ShownNext DEF ShownIs
<1> QED  BY <1>1, <1>2, <1>5, <1>8 DEF Promise!Next, Promise!Offer

LEMMA SetPromise ==
  ASSUME TypeInv, DataInv, DataInv', SetSettings
  PROVE  [Promise!Next]_Promise!vars
<1>1. UNCHANGED <<LastDevice, ChainList, clean, stored, wanted, touched>>
  BY DEF SetSettings, chain
<1>2. CASE UNCHANGED hasty
  <2>1. Known(ChainList)' = Known(ChainList)
    BY <1>1, KnownKept
  <2>2. \A q \in Banks : IsShown(q)' <=> IsShown(q)
    BY <1>1, <1>2, <2>1 DEF IsShown, Excused
  <2> QED  BY <1>1, <1>2, <2>2, NothingShown
<1>3. CASE hasty'
  <2>1. Excused' = Banks
    BY <1>3 DEF Excused
  <2>2. \A q \in Banks : ~IsShown(q)'
    BY <2>1 DEF IsShown
  <2>3. Shown' = [q \in Banks |-> {}]
    BY <2>2, ShownNext DEF ShownIs
  <2> QED  BY <1>1, <2>1, <2>3 DEF Promise!Next, Promise!Misuse
<1>4. hasty' = (hasty \/ Early)
  BY DEF SetSettings
<1>5. hasty' \/ UNCHANGED hasty
  <2>1. CASE Early
    BY <1>4, <2>1
  <2>2. CASE ~Early
    BY <1>4, <2>2, Zenon DEF TypeInv, BankType
  <2> QED  BY <2>1, <2>2
<1> QED  BY <1>2, <1>3, <1>5

\* Identification begins: what was promised holds again.
LEMMA RenewPromise ==
  ASSUME LinesInv, DataInv, DataInv', WaitForStartHeader
  PROVE  [Promise!Next]_Promise!vars
<1> USE DEF LinesInv
<1>1. UNCHANGED <<clean, stored>>
  BY DEF WaitForStartHeader, chain
<1>2. CASE ~(Timeus > StartDelay)
  <2>1. UNCHANGED <<ChainList, LastDevice, wanted, touched, hasty>>
    BY <1>2 DEF WaitForStartHeader, counts
  <2>2. Known(ChainList)' = Known(ChainList)
    BY <2>1, KnownKept
  <2>3. \A q \in Banks : IsShown(q)' <=> IsShown(q)
    BY <1>1, <2>1, <2>2 DEF IsShown, Excused
  <2> QED  BY <1>1, <2>1, <2>3, NothingShown
<1>3. CASE Timeus > StartDelay
  <2>1. IdentifyChain /\ NewSession
    BY <1>3 DEF WaitForStartHeader
  <2>2. ChainList' = ZeroChainList
    BY <1>3, <2>1, RoomWhenQuiet DEF IdentifyChain
  <2>3. \A q \in Banks : ~IsShown(q)'
    BY <2>2, ConstantFacts DEF IsShown, ZeroChainList, ZeroChip
  <2>4. Shown' = [q \in Banks |-> {}]
    BY <2>3, ShownNext DEF ShownIs
  <2>5. Excused' = {} /\ wanted' = [p \in Banks |-> wanted[p] \cup {stored[p]}]
    BY <2>1 DEF NewSession, Excused
  <2> QED  BY <1>1, <2>4, <2>5 DEF Promise!Next, Promise!Renew
<1> QED  BY <1>2, <1>3

LEMMA IdentPromise ==
  ASSUME LinesInv, DataInv, DataInv', LookForIdentResponse
  PROVE  [Promise!Next]_Promise!vars
<1> USE DEF LinesInv
<1>1. /\ UNCHANGED <<stored, wanted, touched, hasty, handler>>
      /\ handler = "ConnectedWaitIdentResponse"
  BY DEF LookForIdentResponse, HandlerFrame, chain, counts, Continue
<1>2. ~hasty => \A p \in Banks \ touched : /\ ChainList[p].settingsState = "NeedsRead"
                                          /\ ChainList'[p].settingsState = "NeedsRead"
  BY <1>1 DEF DataInv, MarksInv
<1>3. \A q \in Banks : ~IsShown(q) /\ ~IsShown(q)'
  BY <1>1, <1>2 DEF IsShown, Excused
<1> QED  BY <1>1, <1>3, NothingShown

\* A bank whose last part is read is shown.
LEMMA ReadPromise ==
  ASSUME LinesInv, DataInv, DataInv', ReadSettings
  PROVE  [Promise!Next]_Promise!vars
<1> USE DEF LinesInv
<1>1. UNCHANGED <<LastDevice, clean, stored, wanted, touched, hasty>>
  BY DEF ReadSettings, HandlerFrame, chain, counts
<1>2. CASE UNCHANGED ChainList
  <2>1. Known(ChainList)' = Known(ChainList)
    BY <1>1, <1>2, KnownKept
  <2>2. \A q \in Banks : IsShown(q)' <=> IsShown(q)
    BY <1>1, <1>2, <2>1 DEF IsShown, Excused
  <2> QED  BY <1>1, <2>2, NothingShown
<1>3. ASSUME NEW f \in AnswerFrames, ReadEffect(f)
      PROVE  [Promise!Next]_Promise!vars
  <2>1. PICK p \in Banks : p = Source(f)
    BY AnswerFacts
  <2>2. /\ ChainList'[p].settingsState =
             IF LastPart(f.part) THEN "Valid" ELSE ChainList[p].settingsState
        /\ ChainList'[p].deviceType = ChainList[p].deviceType
        /\ \A q \in Slots : q # p => ChainList'[q] = ChainList[q]
    BY <1>3, <2>1 DEF ReadEffect
  <2>3. Known(ChainList)' = Known(ChainList)
    <3>1. \A q \in Slots : ChainList'[q].deviceType = ChainList[q].deviceType
      BY <2>2
    <3> QED  BY <1>1, <3>1, KnownKept
  <2>4. \A q \in Banks : q # p => (IsShown(q)' <=> IsShown(q))
    BY <1>1, <2>2, <2>3, ConstantFacts DEF IsShown, Excused
  <2>5. IsShown(p) => IsShown(p)'
    BY <1>1, <2>2, <2>3 DEF IsShown, Excused
  <2> QED  BY <1>1, <2>4, <2>5, ShowStep
<1> QED  BY <1>2, <1>3, ReadSettingsTypes

\* A bank whose last part has passed is shown.
LEMMA WritePromise ==
  ASSUME LinesInv, DataInv, DataInv', WriteSettings
  PROVE  [Promise!Next]_Promise!vars
<1> USE DEF LinesInv
<1>1. UNCHANGED <<LastDevice, clean, stored, wanted, touched, hasty>>
  BY DEF WriteSettings, HandlerFrame, chain, counts
<1>2. CASE UNCHANGED ChainList
  <2>1. Known(ChainList)' = Known(ChainList)
    BY <1>1, <1>2, KnownKept
  <2>2. \A q \in Banks : IsShown(q)' <=> IsShown(q)
    BY <1>1, <1>2, <2>1 DEF IsShown, Excused
  <2> QED  BY <1>1, <2>2, NothingShown
<1>3. ASSUME NEW f \in HostFrames, f.cmd = "WRITE_SETTINGS", WriteEffect(f), ~UNCHANGED ChainList
      PROVE  [Promise!Next]_Promise!vars
  <2>1. PICK p \in Slots : p = Target(f)
    BY <1>3, HostFrameFacts
  <2>2. /\ ChainList'[p].settingsState = "Valid"
        /\ ChainList'[p].deviceType = ChainList[p].deviceType
        /\ \A q \in Slots : q # p => ChainList'[q] = ChainList[q]
    BY <1>3, <2>1 DEF WriteEffect
  <2>3. Known(ChainList)' = Known(ChainList)
    <3>1. \A q \in Slots : ChainList'[q].deviceType = ChainList[q].deviceType
      BY <2>2
    <3> QED  BY <1>1, <3>1, KnownKept
  <2>4. \A q \in Banks : q # p => (IsShown(q)' <=> IsShown(q))
    BY <1>1, <2>2, <2>3, ConstantFacts DEF IsShown, Excused
  <2>5. CASE p \in Banks
    <3>1. IsShown(p) => IsShown(p)'
      BY <1>1, <2>2, <2>3 DEF IsShown, Excused
    <3> QED  BY <1>1, <2>4, <2>5, <3>1, ShowStep
  <2>6. CASE p \notin Banks
    <3>1. \A q \in Banks : IsShown(q)' <=> IsShown(q)
      BY <2>4, <2>6
    <3> QED  BY <1>1, <3>1, NothingShown
  <2> QED  BY <2>5, <2>6
<1> QED  BY <1>2, <1>3, WriteSettingsTypes

\* A bank stores settings that are not shown, and it was offered.
LEMMA StorePromise ==
  ASSUME LinesInv, DataInv, DataInv', ChainTakes
  PROVE  [Promise!Next]_Promise!vars
<1> USE DEF LinesInv
<1>1. UNCHANGED <<LastDevice, ChainList, clean, wanted, touched, hasty>>
  BY ChainTakesTypes DEF host
<1>2. \A q \in Banks : IsShown(q)' <=> IsShown(q)
  <2>1. Known(ChainList)' = Known(ChainList)
    BY <1>1, KnownKept
  <2> QED  BY <1>1, <2>1 DEF IsShown, Excused
<1>3. CASE UNCHANGED stored
  BY <1>1, <1>2, <1>3, NothingShown
<1>4. CASE ~UNCHANGED stored
  <2>1. PICK f \in HostFrames : f = Head(down) /\ f \in Elements(Downlink)
    BY TakenOnLines
  <2>2. PICK p \in Banks \ InBootloader : p = Target(f)
    BY <1>4, <2>1, BankStores
  <2>3. f.cmd = "WRITE_SETTINGS" /\ stored' = [stored EXCEPT ![p] = stored'[p]]
    <3>1. f.cmd = "WRITE_SETTINGS" /\ stored' = [stored EXCEPT ![p] = staged'[p]]
      BY <1>4, <2>1, <2>2, BankStores
    <3>2. stored'[p] = staged'[p]
      BY <3>1 DEF TypeInv, BankType
    <3> QED  BY <3>1, <3>2
  <2>4. ~IsShown(p)
    <3> SUFFICES ASSUME ~hasty, p \in Sound PROVE ChainList[p].settingsState # "Valid"
      BY <2>2 DEF IsShown, Excused, Sound
    <3>1. IsA(f, "AA", "WRITE_SETTINGS")
      BY <2>3, HostFrameFacts DEF IsA
    <3> QED  BY <2>1, <2>2, <3>1, WriteOnTheWay
  <2>5. p \notin Excused => stored'[p] \in wanted[p]
    BY <1>1, <2>2 DEF DataInv, NeverTorn, Excused
  <2>6. Shown[p] = {}
    BY <2>4, ShownState DEF ShownIs
  <2>7. Shown' = Shown
    <3>1. \A q \in Banks : q # p => stored'[q] = stored[q]
      BY <2>3 DEF TypeInv, BankType
    <3> QED  BY <1>2, <2>4, <3>1, ShownState, ShownNext DEF ShownIs
  <2>8. Excused' = Excused
    BY <1>1 DEF Excused
  <2> QED  BY <1>1, <2>3, <2>5, <2>6, <2>7, <2>8 DEF Promise!Next, Promise!Store
<1> QED  BY <1>3, <1>4

\* The rest changes nothing of what is promised.
LEMMA StillPromise ==
  ASSUME TypeInv, DataInv, DataInv',
         \/ Tick \/ TickFails \/ WaitFinishWriteSettings \/ EndBatch \/ ChainReports \/ Lose
         \/ UNCHANGED vars
  PROVE  [Promise!Next]_Promise!vars
<1>1. UNCHANGED <<LastDevice, ChainList, clean, stored, wanted, touched, hasty>>
  BY DEF Tick, TickFails, WaitFinishWriteSettings, EndBatch, HandlerFrame, ChainReports, Lose,
         vars, host, chain, counts
<1>2. Known(ChainList)' = Known(ChainList)
  BY <1>1, KnownKept
<1>3. \A q \in Banks : IsShown(q)' <=> IsShown(q)
  BY <1>1, <1>2 DEF IsShown, Excused
<1> QED  BY <1>1, <1>3, NothingShown

\* ImplementsSettings: whatever is read, written, edited, interrupted or lost, what
\* the host calls valid is what the bank uses, and a bank uses only what it was given
\* as a whole (PacketHandler.c:380-528).
THEOREM ImplementsSettingsHolds == Spec => ImplementsSettings
<1>1. Init => Promise!Init
  <2> SUFFICES ASSUME Init PROVE Promise!Init
    OBVIOUS
  <2>1. \A p \in Banks : ChainList[p].settingsState = "NeedsRead"
    BY ConstantFacts DEF Init, ZeroChainList, ZeroChip
  <2>2. Shown = [p \in Banks |-> {}] /\ Excused = {}
    BY <2>1 DEF Init, Shown, Excused
  <2> QED  BY <2>2 DEF Init, Promise!Init
<1>2. LinesInv /\ DataInv /\ DataInv' /\ [Next]_vars => [Promise!Next]_Promise!vars
  <2> SUFFICES ASSUME LinesInv, DataInv, DataInv', [Next]_vars
               PROVE  [Promise!Next]_Promise!vars
    OBVIOUS
  <2>1. CASE Application
    <3>1. CASE ConnectFails \/ Connect \/ CloseDevice
      BY <3>1, ZeroedPromise
    <3>2. CASE Edit
      BY <3>2, EditPromise DEF LinesInv
    <3>3. CASE RequestSettings
      BY <3>3, RequestPromise DEF LinesInv
    <3>4. CASE SetSettings
      BY <3>4, SetPromise DEF LinesInv
    <3> QED  BY <2>1, <3>1, <3>2, <3>3, <3>4 DEF Application
  <2>2. CASE Handler
    BY <2>2, RenewPromise, IdentPromise, ReadPromise, WritePromise, StillPromise
       DEF Handler, LinesInv
  <2>3. CASE External
    BY <2>3, StorePromise, StillPromise DEF External, LinesInv
  <2>4. CASE Tick \/ TickFails \/ UNCHANGED vars
    BY <2>4, StillPromise DEF LinesInv
  <2> QED  BY <2>1, <2>2, <2>3, <2>4 DEF Next
<1> QED  BY <1>1, <1>2, DataInvHolds, PTL DEF Spec, ImplementsSettings, Promise!Spec

-----------------------------------------------------------------------------
(***************************************************************************)
(* What the host knows of the chain                                        *)
(***************************************************************************)

\* What identification told is left alone.
ChipsKept ==
  /\ UNCHANGED <<LastDevice, LastBank>>
  /\ \A p \in Slots : /\ ChainList'[p].deviceType = ChainList[p].deviceType
                      /\ ChainList'[p].boot = ChainList[p].boot

\* It is forgotten when a connection is opened or closed, and learnt anew.
LEMMA ChipsStep ==
  ASSUME TypeInv, [Next]_vars, ~LookForIdentResponse
  PROVE  \/ ChipsKept
         \/ /\ ChainList' = ZeroChainList /\ LastDevice' = 0 /\ LastBank' = 0
            /\ State' \in {"Disconnected", "ConnectedWaitForAppStart",
                           "ConnectedWaitIdentResponse"}
<1>1. CASE ConnectFails \/ Connect \/ CloseDevice
  BY <1>1 DEF ConnectFails, Connect, CloseDevice, Zeroed
<1>2. CASE Edit
  <2>1. UNCHANGED <<LastDevice, LastBank>>
    BY <1>2 DEF Edit
  <2> QED  BY <1>2, <2>1, EditTypes DEF ChipsKept
<1>3. CASE RequestSettings
  BY <1>3, RequestSettingsTypes DEF ChipsKept
<1>4. CASE ReadSettings
  <2>1. UNCHANGED <<LastDevice, LastBank>>
    BY <1>4 DEF ReadSettings
  <2>2. ASSUME NEW f \in AnswerFrames, ReadEffect(f) PROVE ChipsKept
    <3>1. PICK p \in Slots : p = Source(f)
      BY AnswerFacts, ConstantFacts
    <3> QED  BY <2>1, <2>2, <3>1 DEF ReadEffect, ChipsKept
  <2> QED  BY <1>4, <2>1, <2>2, ReadSettingsTypes DEF ChipsKept
<1>5. CASE WriteSettings
  <2>1. UNCHANGED <<LastDevice, LastBank>>
    BY <1>5 DEF WriteSettings
  <2>2. ASSUME NEW f \in HostFrames, WriteEffect(f) PROVE ChipsKept
    <3>1. CASE UNCHANGED ChainList
      BY <2>1, <3>1 DEF ChipsKept
    <3>2. CASE ~UNCHANGED ChainList
      BY <2>1, <2>2, <3>2 DEF WriteEffect, ChipsKept
    <3> QED  BY <3>1, <3>2
  <2> QED  BY <1>5, <2>1, <2>2, WriteSettingsTypes DEF ChipsKept
<1>6. CASE WaitForStartHeader
  BY <1>6 DEF WaitForStartHeader, IdentifyChain, ChipsKept
<1>7. CASE \/ SetSettings \/ Tick \/ TickFails \/ WaitFinishWriteSettings \/ EndBatch \/ External
           \/ UNCHANGED vars
  BY <1>7 DEF SetSettings, Tick, TickFails, WaitFinishWriteSettings, EndBatch, External,
              ChainTakes, ChainReports, Lose, vars, host, ChipsKept
<1> QED  BY <1>1, <1>2, <1>3, <1>4, <1>5, <1>6, <1>7 DEF Next, Application, Handler

\* What an answer to IDENTIFY tells.
IdentEffect(f) ==
  LET p == Source(f)
  IN  /\ ChainList'[p].deviceType = Chain[p[1]]
      /\ ChainList'[p].boot = (p \in InBootloader)
      /\ \A q \in Slots : q # p => ChainList'[q] = ChainList[q]
      /\ IF LastDevice = 0 /\ LastBank = 0
         THEN LastDevice' = p[1] /\ LastBank' = p[2]
         ELSE UNCHANGED <<LastDevice, LastBank>>
      /\ State' = IF p = <<0, 0>> THEN "Connected" ELSE State

LEMMA IdentStep ==
  ASSUME TypeInv, LookForIdentResponse
  PROVE  \E f \in Frames :
           /\ Uplink = <<f>> \o Uplink' /\ Uplink' \in Seq(Frames)
           /\ \/ ~IsIdent(f) /\ UNCHANGED <<LastDevice, LastBank, ChainList, State>>
              \/ f \in IdentFrames /\ IdentEffect(f)
<1>1. PICK f \in Frames : f = rx[next] /\ Uplink = <<f>> \o Uplink' /\ Uplink' \in Seq(Frames)
  <2>1. handler # "none" /\ next <= Len(rx) /\ Continue /\ UNCHANGED up
    BY DEF LookForIdentResponse, HandlerFrame
  <2> QED  BY <2>1, ContinueLine DEF TypeInv
<1>2. CASE ~IsIdent(f)
  BY <1>1, <1>2 DEF LookForIdentResponse
<1>3. CASE IsIdent(f)
  <2>1. f \in IdentFrames
    BY <1>3, FrameFacts DEF IsIdent
  <2>2. PICK p \in Slots : p = <<f.device, f.bank>> /\ p = Source(f)
    BY <2>1, IdentFacts, ConstantFacts DEF Source
  <2>3. p[1] = f.device /\ p[2] = f.bank
    BY <2>2
  <2>4. /\ ChainList' = [ChainList EXCEPT ![p].deviceType = f.value.deviceType,
                                          ![p].boot = f.value.boot]
        /\ State' = IF FinalAnswer(p) THEN "Connected" ELSE State
        /\ IF LastDevice = 0 /\ LastBank = 0
           THEN LastDevice' = f.device /\ LastBank' = f.bank
           ELSE UNCHANGED <<LastDevice, LastBank>>
    BY <1>1, <1>3, <2>2 DEF LookForIdentResponse
  <2>5. f.value.deviceType = Chain[p[1]] /\ f.value.boot = (p \in InBootloader)
    <3>1. f.value = [deviceType |-> Chain[p[1]], boot |-> p \in InBootloader]
      BY <2>1, <2>2, <2>3, IdentFacts
    <3> QED  BY ONLY <3>1
  <2>6. /\ ChainList'[p].deviceType = f.value.deviceType /\ ChainList'[p].boot = f.value.boot
        /\ \A q \in Slots : q # p => ChainList'[q] = ChainList[q]
    BY <2>4 DEF TypeInv, HostType, ChipInfo
  <2>7. IdentEffect(f)
    BY <2>2, <2>3, <2>4, <2>5, <2>6 DEF IdentEffect, FinalAnswer
  <2> QED  BY <1>1, <2>1, <2>7
<1> QED  BY <1>2, <1>3

\* A type the host knows is that of the chain, also when some were not told.
ToldTrue ==
  \A p \in Slots :
    ChainList[p].deviceType # 0 => p \in Banks /\ ChainList[p].deviceType = Chain[p[1]]

LEMMA ToldStep == TypeInv /\ ToldTrue /\ [Next]_vars => ToldTrue'
<1> SUFFICES ASSUME TypeInv, ToldTrue, [Next]_vars PROVE ToldTrue'
  OBVIOUS
<1>1. CASE ChipsKept
  BY <1>1 DEF ChipsKept, ToldTrue
<1>2. CASE ChainList' = ZeroChainList
  BY <1>2 DEF ZeroChainList, ZeroChip, ToldTrue
<1>3. CASE LookForIdentResponse
  <2>1. CASE UNCHANGED ChainList
    BY <2>1 DEF ToldTrue
  <2>2. ASSUME NEW f \in IdentFrames, IdentEffect(f) PROVE ToldTrue'
    <3>1. PICK p \in Banks : p = Source(f)
      BY IdentFacts
    <3> QED  BY <2>2, <3>1 DEF IdentEffect, ToldTrue
  <2> QED  BY <1>3, <2>1, <2>2, IdentStep
<1> QED  BY <1>1, <1>2, <1>3, ChipsStep

LEMMA ToldTrueHolds == Spec => []ToldTrue
<1>1. Init => ToldTrue
  BY DEF Init, ZeroChainList, ZeroChip, ToldTrue
<1> QED  BY <1>1, ToldStep, TypeInvHolds, PTL DEF Spec

\* A device has as many banks as the host counts when it looks at its first bank, or
\* at the bank that is read: a type that was not told counts like the one with most.
LEMMA LastBankIsLast ==
  ASSUME TypeInv, ToldTrue, NEW p \in Banks
  PROVE  /\ LastBankOf(p, ChainList) =>
              \A q \in Known(ChainList) : q[1] = p[1] => q[2] <= p[2]
         /\ ~LastBankOf(p, ChainList) => p[2] + 1 < MaxDevices
<1> DEFINE first == <<p[1], 0>>
           here == ChainList[p].deviceType
           there == ChainList[first].deviceType
           true == Chain[p[1]]
<1>1. p \in Slots /\ p[1] \in 0 .. 7 /\ p[2] \in 0 .. 7 /\ p = <<p[1], p[2]>> /\ first \in Slots
  BY ConstantFacts, SlotFields DEF Slots
<1>2. /\ here \in DOMAIN BanksOf /\ there \in DOMAIN BanksOf
      /\ here \in {0, true} /\ there \in {0, true}
  BY <1>1 DEF TypeInv, HostType, ChipInfo, ToldTrue
<1>3. true \in DOMAIN BanksOf /\ p[2] < BanksOf[true]
  <2>1. p[1] \in DOMAIN Chain
    BY <1>1, SessionAssumption DEF Banks
  <2> QED  BY <2>1, SessionAssumption DEF Banks
<1>4. /\ BanksOf[0] \in 1 .. MaxDevices /\ BanksOf[true] \in {1, BanksOf[0]}
      /\ MaxDevices \in 1 .. 8
  BY <1>3, ConstantFacts
<1>5. /\ LastBankOf(p, ChainList) <=> (p[2] = BanksOf[here] - 1)
      /\ \A q \in Known(ChainList) : q[1] = p[1] => q[2] < BanksOf[there] /\ q[2] \in 0 .. 7
  BY SlotFields DEF LastBankOf, NumBanks, Known
<1>6. p[2] = 0 => here = there
  BY <1>1
<1> HIDE DEF first, here, there, true
<1>7. BanksOf[here] \in {BanksOf[0], BanksOf[true]} /\ BanksOf[there] \in {BanksOf[0], BanksOf[true]}
  BY <1>2
<1>8. ASSUME LastBankOf(p, ChainList), NEW q \in Known(ChainList), q[1] = p[1]
      PROVE  q[2] <= p[2]
  <2>1. q[2] < BanksOf[there] /\ q[2] \in 0 .. 7 /\ p[2] = BanksOf[here] - 1
    BY <1>5, <1>8
  <2>2. CASE p[2] = 0
    BY <1>1, <1>4, <1>6, <1>7, <2>1, <2>2
  <2>3. CASE p[2] # 0
    <3>1. BanksOf[true] = BanksOf[0]
      BY ONLY <1>1, <1>3, <1>4, <2>3
    <3> QED  BY ONLY <1>1, <1>4, <1>7, <2>1, <3>1
  <2> QED  BY <2>2, <2>3
<1>9. ASSUME ~LastBankOf(p, ChainList) PROVE p[2] + 1 < MaxDevices
  <2>1. p[2] # BanksOf[here] - 1
    BY <1>5, <1>9
  <2> QED  BY ONLY <1>1, <1>3, <1>4, <1>7, <2>1
<1> QED  BY <1>8, <1>9

-----------------------------------------------------------------------------
(***************************************************************************)
(* Reading ends when every bank was read                                   *)
(***************************************************************************)

\* The settings of the banks before p were read.
ReadBefore(p) ==
  \A q \in Known(ChainList) \ touched : Before(q, p) => ChainList[q].settingsState = "Valid"

\* The banks are read in the order of their slots.
OrderInv ==
  clean /\ ~hasty /\ State = "ConnectedWaitReadSettings" =>
    /\ \A f \in Elements(Downlink) : IsA(f, "AA", "READ_SETTINGS") => ReadBefore(Target(f))
    /\ \A f \in Elements(Uplink) : IsA(f, "55", "READ_SETTINGS") => ReadBefore(Source(f))

LEMMA OrderKept ==
  ASSUME OrderInv, NothingNew, State' = State, clean' => clean, ~hasty' => ~hasty,
         touched \subseteq touched', Known(ChainList)' = Known(ChainList),
         \A q \in Slots \ touched' : ChainList'[q].settingsState = ChainList[q].settingsState
  PROVE  OrderInv'
<1>1. \A p : ReadBefore(p) => ReadBefore(p)'
  BY DEF ReadBefore, Known
<1> QED  BY <1>1 DEF OrderInv, NothingNew, IsA

\* What was read when the answer f to a reading was looked at.
LEMMA ReadSoFar ==
  ASSUME LinesInv, OrderInv, ReadSettings, clean, ~hasty,
         NEW f \in AnswerFrames, f.cmd = "READ_SETTINGS", ReadEffect(f),
         NEW q \in Known(ChainList) \ touched,
         Before(q, Source(f)) \/ (q = Source(f) /\ LastPart(f.part))
  PROVE  ChainList'[q].settingsState = "Valid"
<1>1. /\ State = "ConnectedWaitReadSettings" /\ f \in Elements(Uplink)
      /\ IsA(f, "55", "READ_SETTINGS")
  BY ReadAlone, AnswerFacts DEF IsA
<1>2. ReadBefore(Source(f))
  BY <1>1 DEF OrderInv
<1>3. q \in Slots /\ Source(f) \in Slots
  BY AnswerFacts, ConstantFacts DEF Known
<1>4. CASE q = Source(f)
  <2>1. LastPart(f.part)
    BY <1>3, <1>4, SlotFields DEF Before
  <2> QED  BY <1>4, <2>1 DEF ReadEffect
<1>5. CASE q # Source(f)
  <2>1. ChainList'[q] = ChainList[q]
    BY <1>3, <1>5 DEF ReadEffect
  <2> QED  BY <1>2, <1>5, <2>1 DEF ReadBefore
<1> QED  BY <1>4, <1>5

\* The banks before the one that is asked for next are the one just read and those
\* before it.
LEMMA NextInOrder ==
  ASSUME TypeInv, ToldTrue, NEW p \in Banks, NEW k \in Parts,
         ~(LastPart(k) /\ LastOfAll(p, ChainList)),
         NEW q \in Known(ChainList), Before(q, Target(ReadNext(p, k, ChainList)))
  PROVE  Before(q, p) \/ (q = p /\ LastPart(k))
<1> DEFINE c == ReadNext(p, k, ChainList)
<1>1. /\ p \in Slots /\ q \in Slots /\ p[1] \in 0 .. 7 /\ p[2] \in 0 .. 7
      /\ q[1] \in 0 .. 7 /\ q[2] \in 0 .. 7 /\ p = <<p[1], p[2]>> /\ q = <<q[1], q[2]>>
      /\ p[1] < MaxDevices /\ MaxDevices \in 1 .. 8
  BY ConstantFacts, SlotFields DEF Known
<1>2. CASE ~LastPart(k)
  <2>1. c = Command("READ_SETTINGS", p, k + 1, 0)
    BY <1>2 DEF ReadNext, ReadCommand
  <2>2. Target(c) = p
    BY <1>1, <2>1, TargetOf
  <2> QED  BY <2>2
<1>3. CASE LastPart(k) /\ ~LastBankOf(p, ChainList)
  <2>1. PICK r \in Slots : r = <<p[1], p[2] + 1>>
    <3>1. p[2] + 1 < MaxDevices
      BY <1>3, LastBankIsLast
    <3>2. p[2] + 1 \in 0 .. MaxDevices - 1 /\ p[1] \in 0 .. MaxDevices - 1
      BY ONLY <1>1, <3>1
    <3> QED  BY ONLY <3>2 DEF Slots
  <2>2. c = Command("READ_SETTINGS", r, 0, 0)
    BY <1>3, <2>1 DEF ReadNext, ReadCommand
  <2>3. Target(c) = r
    BY <2>2, TargetOf
  <2>4. q[1] < p[1] \/ (q[1] = p[1] /\ q[2] < p[2] + 1)
    BY <2>1, <2>3 DEF Before
  <2>5. q[1] < p[1] \/ (q[1] = p[1] /\ q[2] < p[2]) \/ (q[1] = p[1] /\ q[2] = p[2])
    BY <1>1, <2>4
  <2> QED  BY <1>1, <1>3, <2>5 DEF Before
<1>4. CASE LastPart(k) /\ LastBankOf(p, ChainList)
  <2>1. PICK r : r = <<p[1] + 1, 0>>
    OBVIOUS
  <2>2. c = Command("READ_SETTINGS", r, 0, 0)
    BY <1>4, <2>1 DEF ReadNext, ReadCommand, LastOfAll
  <2>3. Target(c) = r
    <3>1. c.device = p[1] + 1 /\ c.bank = 2 ^ 0
      BY <2>1, <2>2 DEF Command, Frame
    <3> QED  BY <2>1, <3>1, MaskOf DEF Target
  <2>4. q[1] < p[1] + 1
    BY <1>1, <2>1, <2>3 DEF Before
  <2>5. q[1] = p[1] => q[2] <= p[2]
    BY <1>4, LastBankIsLast
  <2>6. q[1] < p[1] \/ (q[1] = p[1] /\ q[2] < p[2]) \/ (q[1] = p[1] /\ q[2] = p[2])
    BY <1>1, <2>4, <2>5
  <2> QED  BY <1>1, <1>4, <2>6 DEF Before
<1> QED  BY <1>2, <1>3, <1>4

LEMMA ReadOrder ==
  ASSUME LinesInv, ToldTrue, OrderInv, ReadSettings
  PROVE  OrderInv'
<1> USE DEF LinesInv
<1>1. UNCHANGED <<LastDevice, clean, touched, hasty>>
  BY DEF ReadSettings, HandlerFrame, counts
<1>2. CASE HostStep(ToAll("START")) /\ UNCHANGED <<ChainList, State>>
  <2>1. NothingNew
    BY <1>2, LineSeqs, ToAllType, NothingNewSent DEF TypeInv
  <2> QED  BY <1>1, <1>2, <2>1, KnownKept, OrderKept
<1>3. ASSUME NEW f \in AnswerFrames, f.cmd = "READ_SETTINGS", ReadEffect(f)
      PROVE  OrderInv'
  <2> SUFFICES ASSUME clean, ~hasty, State' = "ConnectedWaitReadSettings" PROVE OrderInv'
    BY <1>1 DEF OrderInv
  <2>1. PICK p \in Banks : p = Source(f)
    BY AnswerFacts
  <2>2. PICK c \in HostFrames : c = ReadNext(p, f.part, ChainList) /\ HostStep(c)
    BY <1>3, <2>1, ReadLine
  <2>3. \A g \in Elements(Downlink') : g \in Elements(Downlink) \/ g = c
    BY <2>2, LineSeqs, SentOnLines DEF TypeInv
  <2>4. /\ \A g \in Elements(Downlink) : ~IsA(g, "AA", "READ_SETTINGS")
        /\ \A g \in Elements(Uplink') : ~IsA(g, "55", "READ_SETTINGS")
    BY <1>3, ReadAlone
  <2>5. Known(ChainList)' = Known(ChainList)
    <3>1. p \in Slots
      BY ConstantFacts
    <3>2. \A q \in Slots : ChainList'[q].deviceType = ChainList[q].deviceType
      BY <1>3, <2>1, <3>1 DEF ReadEffect
    <3> QED  BY <1>1, <3>2, KnownKept
  <2>6. ~(LastPart(f.part) /\ LastOfAll(p, ChainList)) /\ f.part \in Parts
    BY <1>3, <2>1, AnswerFacts DEF ReadEffect
  <2>7. ReadBefore(Target(c))'
    <3> SUFFICES ASSUME NEW q \in Known(ChainList) \ touched, Before(q, Target(c))
                 PROVE  ChainList'[q].settingsState = "Valid"
      BY <1>1, <2>5 DEF ReadBefore
    <3>1. Before(q, p) \/ (q = p /\ LastPart(f.part))
      BY <2>2, <2>6, NextInOrder
    <3> QED  BY <1>3, <2>1, <3>1, ReadSoFar
  <2> QED  BY <2>3, <2>4, <2>7 DEF OrderInv
<1> QED  BY <1>2, <1>3, ReadSettingsTypes

\* A bank answers the reading it was asked for.
LEMMA TakeOrder ==
  ASSUME LinesInv, OrderInv, ChainTakes
  PROVE  OrderInv'
<1> USE DEF LinesInv
<1>1. UNCHANGED <<State, LastDevice, ChainList, clean, touched, hasty>>
  BY ChainTakesTypes DEF host
<1>2. PICK f \in HostFrames :
        /\ f \in Elements(Downlink) /\ Elements(Downlink') \subseteq Elements(Downlink)
        /\ \A g \in Elements(Uplink') :
             g \in Elements(Uplink) \/ g = f \/ g \in Elements(AnswersTo(f))
  BY TakenOnLines
<1> SUFFICES ASSUME clean, ~hasty, State = "ConnectedWaitReadSettings" PROVE OrderInv'
  BY <1>1 DEF OrderInv
<1>3. \A p : ReadBefore(p) => ReadBefore(p)'
  BY <1>1, KnownKept DEF ReadBefore
<1>4. \A g \in Elements(AnswersTo(f)) : IsA(g, "55", "READ_SETTINGS") => ReadBefore(Source(g))
  <2> SUFFICES ASSUME NEW g \in Elements(AnswersTo(f)), g.cmd = "READ_SETTINGS"
               PROVE  ReadBefore(Source(g))
    BY DEF IsA
  <2>1. f.cmd = "READ_SETTINGS" /\ Source(g) = Target(f)
    BY AnswersOf
  <2> QED  BY <1>2, <2>1, HostFrameFacts DEF OrderInv, IsA
<1>5. ~IsA(f, "55", "READ_SETTINGS")
  BY HostFrameFacts DEF IsA
<1> QED  BY <1>2, <1>3, <1>4, <1>5 DEF OrderInv

LEMMA RequestOrder ==
  ASSUME LinesInv, RequestSettings
  PROVE  OrderInv'
<1> USE DEF LinesInv
<1> SUFFICES ASSUME clean' PROVE OrderInv'
  BY DEF OrderInv
<1>1. PICK c \in HostFrames : c = ReadCommand(<<0, 0>>, 0) /\ HostStep(c)
  BY RequestLine
<1>2. /\ \A g \in Elements(Downlink') : g \in Elements(Downlink) \/ g = c
      /\ Elements(Uplink') \subseteq Elements(Uplink)
  BY <1>1, LineSeqs, SentOnLines DEF TypeInv
<1>3. None(Downlink, "AA", "READ_SETTINGS") /\ None(Uplink, "55", "READ_SETTINGS")
  BY DEF RequestSettings, Commands, Answers, None
<1>4. /\ \A f \in Elements(Downlink) : ~IsA(f, "AA", "READ_SETTINGS")
      /\ \A f \in Elements(Uplink) : ~IsA(f, "55", "READ_SETTINGS")
  BY <1>3, NoneOf
<1>5. ReadBefore(Target(c))'
  <2>1. Target(c) = <<0, 0>>
    <3>1. c.device = 0 /\ c.bank = 2 ^ 0
      BY <1>1 DEF ReadCommand, Command, Frame
    <3> QED  BY <3>1, MaskOf DEF Target
  <2>2. \A q \in Slots : ~Before(q, <<0, 0>>)
    BY SlotFields DEF Before
  <2> QED  BY <2>1, <2>2 DEF ReadBefore, Known
<1> QED  BY <1>2, <1>4, <1>5 DEF OrderInv

\* A reading ends with the last part of the last bank, and in no other way.
LEMMA ReadingEnds ==
  ASSUME LinesInv, [Next]_vars, ~hasty', State = "ConnectedWaitReadSettings",
         State' = "Connected"
  PROVE  /\ ReadSettings
         /\ \E f \in AnswerFrames :
              /\ f.cmd = "READ_SETTINGS" /\ ReadEffect(f)
              /\ LastPart(f.part) /\ LastOfAll(Source(f), ChainList)
<1> USE DEF LinesInv
<1>1. ReadSettings
  <2>1. CASE Application
    BY <2>1 DEF Application, ConnectFails, Connect, CloseDevice, Zeroed, Edit, RequestSettings,
                SetSettings, Early
  <2>2. CASE Tick \/ TickFails \/ External \/ UNCHANGED vars
    BY <2>2 DEF Tick, TickFails, External, ChainTakes, ChainReports, Lose, vars, host
  <2>3. CASE Handler
    BY <2>3 DEF Handler, WaitForStartHeader, LookForIdentResponse, WriteSettings,
                WaitFinishWriteSettings, EndBatch, TypeInv, HandlerOK
  <2> QED  BY <2>1, <2>2, <2>3 DEF Next
<1>2. PICK f \in AnswerFrames : f.cmd = "READ_SETTINGS" /\ ReadEffect(f)
  BY <1>1, ReadSettingsTypes
<1>3. LastPart(f.part) /\ LastOfAll(Source(f), ChainList)
  BY <1>2 DEF ReadEffect
<1> QED  BY <1>1, <1>2, <1>3

LEMMA OrderStep == LinesInv /\ ToldTrue /\ OrderInv /\ [Next]_vars => OrderInv'
<1> SUFFICES ASSUME LinesInv, ToldTrue, OrderInv, [Next]_vars PROVE OrderInv'
  OBVIOUS
<1> USE DEF LinesInv
<1>1. CASE ConnectFails \/ Connect \/ CloseDevice
  BY <1>1 DEF ConnectFails, Connect, CloseDevice, Zeroed, OrderInv
<1>2. CASE Edit
  <2>1. /\ HostStep(ToAll("START")) /\ UNCHANGED <<State, LastDevice, clean, hasty>>
    BY <1>2, EditTypes DEF Edit
  <2>2. NothingNew
    BY <2>1, LineSeqs, ToAllType, NothingNewSent DEF TypeInv
  <2> SUFFICES ASSUME State = "ConnectedWaitReadSettings" PROVE OrderInv'
    BY <2>1 DEF OrderInv
  <2>3. PICK p \in Banks :
          /\ touched' = touched \cup {p}
          /\ ChainList'[p].deviceType = ChainList[p].deviceType
          /\ \A q \in Slots : q # p => ChainList'[q] = ChainList[q]
    BY <1>2, EditTypes DEF Early
  <2>4. Known(ChainList)' = Known(ChainList)
    BY <2>1, <2>3, KnownKept
  <2> QED  BY <2>1, <2>2, <2>3, <2>4, OrderKept
<1>3. CASE RequestSettings
  BY <1>3, RequestOrder
<1>4. CASE SetSettings
  <2>1. State' \in {"Connected", "ConnectedWaitWriteSettings"}
    BY <1>4, StartWriteLine DEF SetSettings, TypeInv, HostType
  <2> QED  BY <2>1 DEF OrderInv
<1>5. CASE Tick \/ TickFails \/ EndBatch \/ Lose
  <2>1. /\ HostStep(ToAll("START"))
        /\ UNCHANGED <<ChainList, State, LastDevice, touched, clean, hasty>>
    BY <1>5, TickTypes, EndBatchTypes, LoseTypes DEF host
  <2>2. NothingNew
    BY <2>1, LineSeqs, ToAllType, NothingNewSent DEF TypeInv
  <2> QED  BY <2>1, <2>2, KnownKept, OrderKept
<1>6. CASE WaitForStartHeader \/ LookForIdentResponse \/ WriteSettings \/ WaitFinishWriteSettings
  <2>1. State' # "ConnectedWaitReadSettings"
    <3>1. CASE WaitForStartHeader
      BY <3>1 DEF WaitForStartHeader, IdentifyChain, TypeInv, HandlerOK
    <3>2. CASE LookForIdentResponse
      BY <3>2 DEF LookForIdentResponse, TypeInv, HandlerOK
    <3>3. CASE WriteSettings
      BY <3>3 DEF WriteSettings, FinishWrite, StartWriteSettings, TypeInv, HandlerOK
    <3>4. CASE WaitFinishWriteSettings
      BY <3>4 DEF WaitFinishWriteSettings, FinishWrite, StartWriteSettings
    <3> QED  BY <1>6, <3>1, <3>2, <3>3, <3>4
  <2> QED  BY <2>1 DEF OrderInv
<1>7. CASE ReadSettings
  BY <1>7, ReadOrder
<1>8. CASE ChainTakes
  BY <1>8, TakeOrder
<1>9. CASE ChainReports
  <2>1. PICK p \in due, f \in AnswerFrames :
          f = Answer("WRITE_SETTINGS", p, 0, 0) /\ Uplink' = Uplink \o <<f>>
    BY <1>9, ChainReportsTypes
  <2>2. /\ UNCHANGED <<ChainList, State, LastDevice, touched, clean, hasty>>
        /\ Downlink' = Downlink
    BY <1>9, ChainReportsTypes DEF host
  <2>3. f.sof = "55" /\ f.cmd = "WRITE_SETTINGS" /\ f \in Frames
    BY <2>1, AnswerFacts DEF Answer, Frame
  <2>4. Elements(Uplink') = Elements(Uplink) \cup {f}
    <3>1. PICK u \in Seq(Frames) : u = Uplink
      BY LineSeqs DEF TypeInv, LinesTyped
    <3>2. PICK e \in Seq(Frames) : e = <<f>> /\ Elements(e) = {f}
      BY <2>3, OneFrame
    <3>3. Elements(u \o e) = Elements(u) \cup Elements(e)
      BY ElementsConcat
    <3> QED  BY <2>1, <3>1, <3>2, <3>3
  <2>5. NothingNew
    BY <2>2, <2>3, <2>4 DEF NothingNew, IsA
  <2> QED  BY <2>2, <2>5, KnownKept, OrderKept
<1>10. CASE UNCHANGED vars
  <2>1. /\ UNCHANGED <<batch, tx, down, up, ChainList, State, LastDevice, touched, clean, hasty>>
    BY <1>10 DEF vars, host, batch, counts
  <2>2. NothingNew
    BY <2>1, StillLine DEF TypeInv, NothingNew
  <2> QED  BY <2>1, <2>2, KnownKept, OrderKept
<1> QED  BY <1>1, <1>2, <1>3, <1>4, <1>5, <1>6, <1>7, <1>8, <1>9, <1>10
         DEF Next, Application, Handler, External

\* ReadComplete: the state is Connected again only when every bank was read, also when
\* the type of a device was not told (PacketHandler.c:410-460).
THEOREM ReadCompleteHolds == Spec => ReadComplete
<1>1. Init => OrderInv
  BY DEF Init, OrderInv
<1>2. LinesInv /\ ToldTrue /\ OrderInv /\ [Next]_vars =>
        (clean /\ ~hasty' /\ State = "ConnectedWaitReadSettings" /\ State' = "Connected" =>
           \A p \in Known(ChainList) \ touched : ChainList'[p].settingsState = "Valid")
  <2> SUFFICES ASSUME LinesInv, ToldTrue, OrderInv, [Next]_vars, clean, ~hasty',
                      State = "ConnectedWaitReadSettings", State' = "Connected",
                      NEW q \in Known(ChainList) \ touched
               PROVE  ChainList'[q].settingsState = "Valid"
    OBVIOUS
  <2>1. PICK f \in AnswerFrames :
          /\ ReadSettings /\ f.cmd = "READ_SETTINGS" /\ ReadEffect(f)
          /\ LastPart(f.part) /\ LastOfAll(Source(f), ChainList)
    BY ReadingEnds
  <2>2. ~hasty
    BY <2>1 DEF ReadSettings, HandlerFrame, counts
  <2>3. PICK p \in Banks : p = Source(f)
    BY <2>1, AnswerFacts
  <2>4. /\ q \in Slots /\ p \in Slots /\ q[1] \in 0 .. 7 /\ p[1] \in 0 .. 7
        /\ q[2] \in 0 .. 7 /\ p[2] \in 0 .. 7
        /\ q = <<q[1], q[2]>> /\ p = <<p[1], p[2]>>
    BY ConstantFacts, SlotFields DEF Known
  <2>5. q[1] <= p[1] /\ (q[1] = p[1] => q[2] <= p[2])
    BY <2>1, <2>3, LastBankIsLast DEF LastOfAll, Known, LinesInv
  <2>6. q[1] < p[1] \/ (q[1] = p[1] /\ q[2] < p[2]) \/ (q[1] = p[1] /\ q[2] = p[2])
    BY <2>4, <2>5
  <2>7. Before(q, p) \/ q = p
    BY <2>4, <2>6 DEF Before
  <2> QED  BY <2>1, <2>2, <2>3, <2>7, ReadSoFar
<1> QED  BY <1>1, <1>2, OrderStep, LinesInvHolds, ToldTrueHolds, PTL DEF Spec, ReadComplete

-----------------------------------------------------------------------------
(***************************************************************************)
(* Writing ends when every bank has stored its settings                    *)
(***************************************************************************)

Echoed(f) == IsA(f, "AA", "WRITE_SETTINGS")
NoStatus(s) == None(s, "55", "WRITE_SETTINGS")

\* A report is still in the batch, but the host has taken what it told: what it waits
\* for is over, and what it sent since is not yet on the line.
Spent ==
  /\ handler = "ConnectedWaitWriteSettings"
  /\ None(down, "AA", "WRITE_SETTINGS") /\ None(Uplink, "AA", "WRITE_SETTINGS")

\* Nobody is waited for.
Settled == due = {} /\ NoStatus(up) /\ (NoStatus(rx) \/ Spent)

\* No bank was yet sent the last part of its settings, or the exchange is over.
Settling ==
  \/ State \in {"ConnectedWaitIdentResponse", "ConnectedWaitReadSettings", "Connected"}
  \/ ~None(Downlink, "AA", "WRITE_SETTINGS")
  \/ \E f \in Elements(Uplink) : Echoed(f) /\ f.part # NumParts

\* One bank at a time stores its settings, and no report of it is of an earlier one.
Unused == {"Disconnected", "ConnectedWaitForAppStart"}
StatusInv ==
  ~hasty /\ State \notin Unused =>
    /\ \A p, q \in due : p = q
    /\ Single(up, "55", "WRITE_SETTINGS") /\ (NoStatus(rx) \/ NoStatus(up))
    /\ due # {} => NoStatus(rx) /\ NoStatus(up)
    /\ Settling => Settled

\* Steps in which no bank stores its settings or reports it.
LEMMA StatusKept ==
  ASSUME StatusInv, ~hasty' => ~hasty, State' \notin Unused => State \notin Unused,
         UNCHANGED due, Fewer(up', up), NoStatus(rx) => NoStatus(rx'),
         Settling' => Settling, Settled => Settled'
  PROVE  StatusInv'
<1>1. NoStatus(up) => NoStatus(up')
  BY FewerNone DEF NoStatus
<1>2. Single(up, "55", "WRITE_SETTINGS") => Single(up', "55", "WRITE_SETTINGS")
  BY DEF Fewer
<1> QED  BY <1>1, <1>2 DEF StatusInv, Settled

LEMMA SettlingKept ==
  ASSUME State' = State, Elements(Uplink') \subseteq Elements(Uplink),
         None(Downlink, "AA", "WRITE_SETTINGS") => None(Downlink', "AA", "WRITE_SETTINGS"),
         Settling'
  PROVE  Settling
BY DEF Settling

LEMMA UpStill ==
  ASSUME LineType, UNCHANGED <<rx, up>>
  PROVE  Fewer(up', up) /\ (NoStatus(rx) => NoStatus(rx'))
BY FewerParts DEF LineType, NoStatus

\* The calls of the application.
LEMMA ApplicationStatus ==
  ASSUME LinesInv, StatusInv, Application
  PROVE  StatusInv'
<1> USE DEF LinesInv
<1>1. CASE ConnectFails \/ Connect \/ CloseDevice
  BY <1>1 DEF ConnectFails, Connect, CloseDevice, Zeroed, StatusInv, Unused
<1>2. CASE Edit
  <2>1. /\ Uplink' = Uplink /\ Downlink' = Downlink
        /\ UNCHANGED <<State, handler, hasty, due, rx, up, down>>
    BY <1>2, EditTypes DEF Edit, chain, batch
  <2>2. Settling' => Settling
    BY <2>1 DEF Settling
  <2>3. Settled => Settled'
    BY <2>1 DEF Settled, NoStatus, Spent
  <2> QED  BY <2>1, <2>2, <2>3, UpStill, StatusKept DEF TypeInv
<1>3. CASE RequestSettings \/ SetSettings
  <2>1. UNCHANGED <<handler, due, rx, up>> /\ handler = "none"
    BY <1>3 DEF RequestSettings, SetSettings, MayCall, Idle, chain, batch
  <2>2. ~hasty' => ~hasty /\ State = "Connected"
    BY <1>3 DEF RequestSettings, SetSettings, Early
  <2>3. Settled => Settled'
    BY <2>1 DEF Settled, Spent, NoStatus
  <2>4. CASE ~hasty'
    <3>1. Settling /\ State \notin Unused
      BY <2>2, <2>4 DEF Settling, Unused
    <3> QED  BY <2>1, <2>2, <2>3, <3>1, UpStill, StatusKept DEF TypeInv
  <2> QED  BY <2>4 DEF StatusInv
<1> QED  BY <1>1, <1>2, <1>3 DEF Application

\* A tick moves frames.
LEMMA TickStatus ==
  ASSUME LinesInv, StatusInv, Tick
  PROVE  StatusInv'
<1> USE DEF LinesInv
<1>1. /\ UNCHANGED <<State, hasty, due>> /\ Uplink' = Uplink /\ Downlink' = Downlink
  BY TickTypes
<1>2. PICK n \in 0 .. Len(up) : rx' = SubSeq(up, 1, n) /\ up' = SubSeq(up, n + 1, Len(up))
  BY DEF Tick
<1>3. rx' \in Seq(Frames) /\ up' \in Seq(Frames) /\ up = rx' \o up'
  BY <1>2, SplitAt DEF TypeInv, LineType
<1>4. NoStatus(up) => NoStatus(rx') /\ NoStatus(up')
  BY <1>3, NoneConcat DEF NoStatus
<1>5. Single(up, "55", "WRITE_SETTINGS") =>
        Single(up', "55", "WRITE_SETTINGS") /\ (NoStatus(rx') \/ NoStatus(up'))
  BY <1>3, SingleConcat DEF NoStatus
<1>6. Settling' => Settling
  BY <1>1 DEF Settling
<1>7. Settled => Settled'
  BY <1>1, <1>4 DEF Settled, NoStatus
<1> QED  BY <1>1, <1>4, <1>5, <1>6, <1>7 DEF StatusInv, NoStatus

\* The handlers that do not wait for a write to end.
LEMMA OtherStatus ==
  ASSUME LinesInv, StatusInv,
         WaitForStartHeader \/ LookForIdentResponse \/ ReadSettings \/ EndBatch \/ TickFails
  PROVE  StatusInv'
<1> USE DEF LinesInv
<1>1. CASE WaitForStartHeader
  <2>1. CASE Timeus > StartDelay
    <3>1. Elements(Uplink) = {} /\ due = {} /\ UNCHANGED <<due, up>> /\ rx' = <<>>
      BY <1>1, <2>1 DEF WaitForStartHeader, QuietInv, Return, chain
    <3>2. Elements(up) \subseteq Elements(Uplink)
      BY LineSeqs, FewerParts DEF Uplink, LinesTyped, TypeInv, LineType, Fewer
    <3>3. NoStatus(up') /\ NoStatus(rx')
      BY <3>1, <3>2, NoneOf, NoFrames DEF NoStatus
    <3> QED  BY <3>1, <3>3, NoneSingle DEF StatusInv, Settled, NoStatus
  <2>2. CASE ~(Timeus > StartDelay)
    <3>1. State' = "ConnectedWaitForAppStart"
      BY <1>1, <2>2 DEF WaitForStartHeader, TypeInv, HandlerOK
    <3> QED  BY <3>1 DEF StatusInv, Unused
  <2> QED  BY <2>1, <2>2
<1>2. CASE LookForIdentResponse \/ ReadSettings
  <2>1. /\ UNCHANGED <<due, rx, up, hasty>>
        /\ handler \in {"ConnectedWaitIdentResponse", "ConnectedWaitReadSettings"}
    BY <1>2 DEF LookForIdentResponse, ReadSettings, HandlerFrame, chain, counts, Continue
  <2>2. Settling /\ State \notin Unused
    BY <2>1 DEF TypeInv, HandlerOK, Settling, Unused
  <2>3. Settled => Settled'
    BY <2>1 DEF Settled, Spent, NoStatus
  <2> QED  BY <2>1, <2>2, <2>3, UpStill, StatusKept DEF TypeInv
<1>3. CASE EndBatch
  <2>1. /\ UNCHANGED <<State, due, up, down, hasty>> /\ rx' = <<>> /\ Downlink' = Downlink
        /\ HostStep(ToAll("START"))
    BY <1>3, EndBatchTypes DEF EndBatch, HandlerFrame, Return
  <2>2. NoStatus(rx')
    BY <2>1, NoFrames DEF NoStatus
  <2>3. Settling' => Settling
    BY <2>1, SettlingKept DEF HostStep, Fewer
  <2>4. Settled => Settled'
    BY <2>1, <2>2 DEF Settled, NoStatus
  <2>5. Fewer(up', up)
    BY <2>1, FewerParts DEF TypeInv, LineType
  <2> QED  BY <2>1, <2>2, <2>3, <2>4, <2>5, StatusKept
<1>4. CASE TickFails
  <2>1. /\ Uplink' = Uplink /\ Downlink' = Downlink
        /\ UNCHANGED <<State, handler, hasty, due, rx, up, down>>
    BY <1>4, TickTypes DEF TickFails, batch
  <2>2. Settling' => Settling
    BY <2>1 DEF Settling
  <2>3. Settled => Settled'
    BY <2>1 DEF Settled, NoStatus, Spent
  <2> QED  BY <2>1, <2>2, <2>3, UpStill, StatusKept DEF TypeInv
<1> QED  BY <1>1, <1>2, <1>3, <1>4

\* An echo of the last part lets the host wait for the report, or take it.
LEMMA WriteStatus ==
  ASSUME LinesInv, StatusInv, WriteSettings
  PROVE  StatusInv'
<1> USE DEF LinesInv
<1>1. /\ UNCHANGED <<due, rx, up, down, hasty, handler>> /\ handler = "ConnectedWaitWriteSettings"
      /\ State \notin Unused
  BY DEF WriteSettings, HandlerFrame, chain, counts, Continue, TypeInv, HandlerOK, Unused
<1>2. CASE HostStep(ToAll("START")) /\ State' = State
  <2>1. ToAll("START") \in HostFrames /\ ~IsA(ToAll("START"), "AA", "WRITE_SETTINGS")
    BY ToAllType DEF IsA
  <2>2. /\ None(Downlink, "AA", "WRITE_SETTINGS") => None(Downlink', "AA", "WRITE_SETTINGS")
        /\ None(Uplink, "AA", "WRITE_SETTINGS") => None(Uplink', "AA", "WRITE_SETTINGS")
    BY <1>2, <2>1, LineSeqs, OneKept DEF TypeInv
  <2>3. Settling' => Settling
    BY <1>2, <2>2, SettlingKept DEF HostStep, Fewer
  <2>4. Settled => Settled'
    BY <1>1, <2>2 DEF Settled, Spent, NoStatus
  <2> QED  BY <1>1, <1>2, <2>3, <2>4, UpStill, StatusKept DEF TypeInv
<1>3. ASSUME NEW f \in HostFrames, f.cmd = "WRITE_SETTINGS", WriteEffect(f), ~hasty
      PROVE  StatusInv'
  <2>1. /\ f \in Frames /\ Echoed(f)
        /\ Uplink = <<f>> \o Uplink' /\ Uplink' \in Seq(Frames)
    BY <1>3, HostFrameFacts DEF IsA, WriteEffect, Echoed
  <2>2. None(Downlink, "AA", "WRITE_SETTINGS") /\ None(Uplink', "AA", "WRITE_SETTINGS")
    BY <1>3, <2>1, OneTaken DEF WritesInv, Echoed
  <2>3. f \in Elements(Uplink)
    <3>1. PICK u \in Seq(Frames) : u = Uplink'
      BY <2>1
    <3>2. Uplink = <<f>> \o u /\ f \in Frames
      BY <2>1, <3>1
    <3>3. Elements(Uplink) = {f} \cup Elements(u)
      BY <3>2, HeadOnLine
    <3> QED  BY ONLY <3>3
  <2>4. ~Spent
    BY <2>1, <2>3, NoneOf DEF Spent, Echoed
  <2>5. CASE ~LastPart(f.part)
    <3>1. State' = State /\ Settling
      BY <1>3, <2>1, <2>3, <2>5 DEF WriteEffect, Settling, LastPart
    <3>2. Settled => Settled'
      BY <1>1, <2>4 DEF Settled, NoStatus
    <3> QED  BY <1>1, <3>1, <3>2, UpStill, StatusKept DEF TypeInv
  <2>6. CASE LastPart(f.part)
    <3>1. FinishWrite(ChainList')
      BY <1>3, <2>6 DEF WriteEffect
    <3>2. CASE NoStatus(rx)
      <4>1. \A i \in 1 .. Len(rx) : ~IsWriteStatus(rx[i])
        <5>1. DOMAIN rx = 1 .. Len(rx)
          BY SeqFacts DEF TypeInv, LineType
        <5> QED  BY <3>2, <5>1 DEF NoStatus, None, Where, IsA, IsWriteStatus
      <4>2. State' = "ConnectedWaitFinishWriteSettings" /\ UNCHANGED tx
        BY <3>1, <4>1 DEF FinishWrite
      <4>3. Downlink' = Downlink
        BY <1>1, <4>2 DEF Downlink
      <4>4. ~Settling'
        BY <2>2, <4>2, <4>3, NoneOf DEF Settling, Echoed
      <4> QED  BY <1>1, <1>3, <3>2, <4>4 DEF StatusInv, NoStatus
    <3>3. CASE ~NoStatus(rx)
      <4>1. due = {} /\ NoStatus(up) /\ Single(up, "55", "WRITE_SETTINGS")
        BY <1>1, <1>3, <3>3 DEF StatusInv
      <4>2. None(down, "AA", "WRITE_SETTINGS")
        <5>1. Fewer(down, Downlink)
          BY FewerParts DEF Downlink, TypeInv, LineType
        <5> QED  BY <2>2, <5>1, FewerNone
      <4>3. Settled'
        BY <1>1, <2>2, <4>1, <4>2 DEF Settled, Spent, NoStatus
      <4> QED  BY <1>1, <4>1, <4>3 DEF StatusInv, NoStatus
    <3> QED  BY <3>2, <3>3
  <2> QED  BY <2>5, <2>6
<1>4. CASE hasty
  BY <1>1, <1>4 DEF StatusInv
<1> QED  BY <1>2, <1>3, <1>4, WriteSettingsTypes

\* The report is waited for and taken.
LEMMA FinishStatus ==
  ASSUME LinesInv, StatusInv, WaitFinishWriteSettings
  PROVE  StatusInv'
<1> USE DEF LinesInv
<1>1. /\ UNCHANGED <<due, up, down, hasty>> /\ State = "ConnectedWaitFinishWriteSettings"
      /\ FinishWrite(ChainList) /\ rx' = <<>> /\ handler' = "none"
  BY DEF WaitFinishWriteSettings, HandlerFrame, chain, counts, Return, TypeInv, HandlerOK
<1>2. NoStatus(rx')
  BY <1>1, NoFrames DEF NoStatus
<1>3. Fewer(up', up)
  BY <1>1, FewerParts DEF TypeInv, LineType
<1> SUFFICES ASSUME ~hasty PROVE StatusInv'
  BY <1>1 DEF StatusInv
<1>4. NoWrites
  BY <1>1 DEF WritesInv, QuietStates
<1>5. CASE \E i \in 1 .. Len(rx) : IsWriteStatus(rx[i])
  <2>1. ~NoStatus(rx)
    <3>1. DOMAIN rx = 1 .. Len(rx)
      BY SeqFacts DEF TypeInv, LineType
    <3> QED  BY <1>5, <3>1 DEF NoStatus, None, Where, IsA, IsWriteStatus
  <2>2. due = {} /\ NoStatus(up) /\ Single(up, "55", "WRITE_SETTINGS")
    BY <1>1, <2>1 DEF StatusInv, Unused
  <2> QED  BY <1>1, <1>2, <2>2 DEF StatusInv, Settled, NoStatus
<1>6. CASE ~(\E i \in 1 .. Len(rx) : IsWriteStatus(rx[i]))
  <2>1. State' = State /\ UNCHANGED tx
    BY <1>1, <1>6 DEF FinishWrite
  <2>2. Downlink' = Downlink /\ Elements(Uplink') \subseteq Elements(Uplink)
    BY <1>1, <2>1, WaitFinishTypes DEF Downlink, Fewer
  <2>3. ~Settling'
    BY <1>1, <1>4, <2>1, <2>2, NoneOf DEF Settling, NoWrites, Echoed
  <2>4. Settled => Settled'
    BY <1>1, <1>2 DEF Settled, NoStatus
  <2> QED  BY <1>1, <1>2, <1>3, <2>1, <2>3, <2>4, StatusKept
<1> QED  BY <1>5, <1>6

\* What the chain takes: the last part of a write makes one bank store its settings.
\* What the chain answers and echoes comes behind all that is on its way to the host.
LEMMA TakenUp ==
  ASSUME TypeInv, ChainTakes, NEW u \in Seq(Frames), Uplink' = Uplink \o u
  PROVE  up' = up \o u /\ up \in Seq(Frames)
<1> USE DEF TypeInv
<1>1. LinesTyped /\ LinesTyped'
  BY TakeLine, LineSeqs, LineSeqsNext
<1>2. PICK v \in Seq(Frames) : v = up' /\ up \in Seq(Frames) /\ Pending \in Seq(Frames)
  BY <1>1, TakeLine DEF LinesTyped, LineType
<1>3. Pending' = Pending
  BY DEF Pending, ChainTakes, batch
<1>4. Pending \o v = Pending \o (up \o u)
  <2>1. (Pending \o up) \o u = Pending \o (up \o u)
    BY ONLY <1>2, u \in Seq(Frames), FrameAssoc
  <2> QED  BY <1>2, <1>3, <2>1 DEF Uplink
<1> QED  BY <1>2, <1>4, ConcatProperties, ConcatSimplifications

LEMMA TakeStatus ==
  ASSUME LinesInv, StatusInv, ChainTakes
  PROVE  StatusInv'
<1> USE DEF LinesInv
<1>1. UNCHANGED <<State, handler, rx, hasty>>
  BY ChainTakesTypes DEF host
<1>2. PICK f \in HostFrames, u \in Seq(Frames) :
        /\ f = Head(down) /\ down = <<f>> \o down'
        /\ Downlink = <<f>> \o Downlink' /\ Uplink' = Uplink \o u
        /\ None(u, "55", "WRITE_SETTINGS")
        /\ \A g \in Elements(u) : g = f \/ g \in Elements(AnswersTo(f))
        /\ IsA(f, "AA", "WRITE_SETTINGS") \/ None(u, "AA", "WRITE_SETTINGS")
  BY Taken
<1>3. LinesTyped /\ LinesTyped' /\ down \in Seq(HostFrames) /\ down' \in Seq(HostFrames)
  BY TakeLine, LineSeqs, LineSeqsNext DEF TypeInv, LineType
<1>4. up' = up \o u /\ up \in Seq(Frames)
  BY <1>2, TakenUp
<1>5. /\ NoStatus(up') <=> NoStatus(up)
      /\ Single(up', "55", "WRITE_SETTINGS") <=> Single(up, "55", "WRITE_SETTINGS")
      /\ NoStatus(rx') <=> NoStatus(rx)
  <2>1. Single(u, "55", "WRITE_SETTINGS")
    BY <1>2, NoneSingle
  <2>2. /\ None(up \o u, "55", "WRITE_SETTINGS") <=> None(up, "55", "WRITE_SETTINGS")
        /\ Single(up \o u, "55", "WRITE_SETTINGS") <=> Single(up, "55", "WRITE_SETTINGS")
    BY <1>2, <1>4, <2>1, NoneConcat, SingleConcat
  <2> QED  BY <1>1, <1>4, <2>2 DEF NoStatus
<1>6. /\ f \in Elements(Downlink) /\ Elements(Downlink') \subseteq Elements(Downlink)
      /\ \A g \in Elements(Uplink') :
           g \in Elements(Uplink) \/ g = f \/ g \in Elements(AnswersTo(f))
      /\ Echoed(f) /\ OneOf(Downlink, Uplink, "AA", "WRITE_SETTINGS")
           => None(Downlink', "AA", "WRITE_SETTINGS") /\ None(Uplink, "AA", "WRITE_SETTINGS")
  BY <1>2, TakenOnLines DEF Echoed
<1>7. \A g \in Elements(Uplink') : Echoed(g) => g \in Elements(Uplink) \/ g = f
  BY <1>6, AnswersOf DEF Echoed, IsA
<1>8. Echoed(f) => ~None(Downlink, "AA", "WRITE_SETTINGS") /\ ~None(down, "AA", "WRITE_SETTINGS")
  <2>1. PICK d \in Seq(HostFrames) : d = down'
    BY <1>3
  <2>2. down = <<f>> \o d
    BY <1>2, <2>1
  <2>3. Elements(down) = {f} \cup Elements(d)
    BY <2>2, HeadOnLine
  <2>4. f \in Elements(down)
    BY ONLY <2>3
  <2> QED  BY <1>6, <2>4, NoneOf DEF Echoed
<1>9. CASE Echoed(f) /\ Target(f) \in Banks \ InBootloader
  <2> SUFFICES ASSUME ~hasty, State \notin Unused PROVE StatusInv'
    BY <1>1 DEF StatusInv
  <2>1. Settling /\ ~Spent
    BY <1>8, <1>9 DEF Settling, Spent
  <2>2. due = {} /\ NoStatus(up) /\ NoStatus(rx) /\ Single(up, "55", "WRITE_SETTINGS")
    BY <2>1 DEF StatusInv, Settled
  <2>3. CASE f.part # NumParts
    <3>1. due' = due
      BY <1>2, <1>9, <2>3, BankStores DEF Echoed, IsA
    <3> QED  BY <1>5, <2>2, <3>1 DEF StatusInv, Settled, NoStatus
  <2>4. CASE f.part = NumParts
    <3>1. due' = {Target(f)}
      BY <1>2, <1>9, <2>2, <2>4, BankStores DEF Echoed, IsA
    <3>2. State \notin QuietStates /\ OneOf(Downlink, Uplink, "AA", "WRITE_SETTINGS")
      BY <1>8, <1>9 DEF WritesInv, NoWrites
    <3>3. None(Downlink', "AA", "WRITE_SETTINGS") /\ None(Uplink, "AA", "WRITE_SETTINGS")
      BY <1>6, <1>9, <3>2
    <3>4. ~Settling'
      BY <1>1, <1>7, <2>4, <3>2, <3>3, NoneOf DEF Settling, QuietStates, Echoed
    <3> QED  BY <1>5, <2>2, <3>1, <3>4 DEF StatusInv, NoStatus
  <2> QED  BY <2>3, <2>4
<1>10. CASE ~(Echoed(f) /\ Target(f) \in Banks \ InBootloader)
  <2>1. due' = due
    BY <1>2, <1>10, BankStores, HostFrameFacts DEF Echoed, IsA
  <2>2. Settling' => Settling
    <3>1. CASE Echoed(f)
      BY <1>8, <3>1 DEF Settling
    <3>2. CASE ~Echoed(f)
      <4>1. None(Downlink, "AA", "WRITE_SETTINGS") => None(Downlink', "AA", "WRITE_SETTINGS")
        BY <1>6, NoneOf
      <4> QED  BY <1>1, <1>7, <3>2, <4>1 DEF Settling
    <3> QED  BY <3>1, <3>2
  <2>3. Spent => Spent'
    <3> SUFFICES ASSUME Spent PROVE Spent'
      OBVIOUS
    <3>1. ~Echoed(f)
      BY <1>8 DEF Spent
    <3>2. None(down', "AA", "WRITE_SETTINGS")
      <4>1. PICK d \in Seq(HostFrames), e \in Seq(HostFrames) : d = down' /\ e = <<f>>
        BY <1>3, OneFrame
      <4>2. None(e \o d, "AA", "WRITE_SETTINGS")
        BY <1>2, <4>1 DEF Spent
      <4> QED  BY <4>1, <4>2, NoneConcat
    <3>3. None(Uplink', "AA", "WRITE_SETTINGS")
      BY <1>7, <3>1, NoneOf DEF Spent, Echoed
    <3> QED  BY <1>1, <3>2, <3>3 DEF Spent
  <2>4. Settled => Settled'
    BY <1>5, <2>1, <2>3 DEF Settled, NoStatus
  <2> QED  BY <1>1, <1>5, <2>1, <2>2, <2>4 DEF StatusInv, NoStatus
<1> QED  BY <1>9, <1>10

\* A bank reports: it is the one that stored its settings.
LEMMA ReportStatus ==
  ASSUME LinesInv, StatusInv, ChainReports
  PROVE  StatusInv'
<1> USE DEF LinesInv
<1>1. PICK p \in due, f \in AnswerFrames :
        /\ f = Answer("WRITE_SETTINGS", p, 0, 0) /\ due' = due \ {p}
        /\ Uplink' = Uplink \o <<f>> /\ up' = up \o <<f>>
  BY ChainReportsTypes
<1>2. UNCHANGED <<State, rx, hasty>> /\ Downlink' = Downlink
  BY ChainReportsTypes DEF host
<1>3. f \in Frames /\ f.sof = "55"
  BY AnswerFacts
<1> SUFFICES ASSUME ~hasty, State \notin Unused PROVE StatusInv'
  BY <1>2 DEF StatusInv
<1>4. due = {p} /\ NoStatus(rx) /\ NoStatus(up) /\ ~Settling
  BY DEF StatusInv, Settled
<1>5. due' = {}
  BY <1>1, <1>4
<1>6. Single(up', "55", "WRITE_SETTINGS")
  <2>1. PICK v \in Seq(Frames) : v = up
    BY DEF TypeInv, LineType
  <2>2. PICK e \in Seq(Frames) : e = <<f>> /\ Single(e, "55", "WRITE_SETTINGS")
    BY <1>3, OneFrame
  <2>3. None(v, "55", "WRITE_SETTINGS") /\ Single(v, "55", "WRITE_SETTINGS")
    BY <1>4, <2>1, NoneSingle DEF NoStatus
  <2>4. Single(v \o e, "55", "WRITE_SETTINGS")
    BY <2>2, <2>3, SingleConcat
  <2> QED  BY <1>1, <2>1, <2>2, <2>4
<1>7. ~Settling'
  <2>1. Elements(Uplink') = Elements(Uplink) \cup {f}
    <3>1. PICK u \in Seq(Frames) : u = Uplink
      BY LineSeqs DEF TypeInv, LinesTyped
    <3>2. PICK e \in Seq(Frames) : e = <<f>> /\ Elements(e) = {f}
      BY <1>3, OneFrame
    <3>3. Elements(u \o e) = Elements(u) \cup Elements(e)
      BY ElementsConcat
    <3> QED  BY <1>1, <3>1, <3>2, <3>3
  <2>2. ~Echoed(f)
    BY <1>3 DEF Echoed, IsA
  <2> QED  BY <1>2, <1>4, <2>1, <2>2 DEF Settling
<1> QED  BY <1>2, <1>4, <1>5, <1>6, <1>7 DEF StatusInv, NoStatus

\* A frame is lost.
LEMMA LoseStatus ==
  ASSUME LinesInv, StatusInv, Lose
  PROVE  StatusInv'
<1> USE DEF LinesInv
<1>1. /\ Fewer(Uplink', Uplink) /\ Fewer(Downlink', Downlink)
      /\ Fewer(up', up) /\ Fewer(down', down)
      /\ UNCHANGED <<State, handler, rx, due, hasty>>
  BY LoseTypes DEF host
<1>2. Settling' => Settling
  <2>1. None(Downlink, "AA", "WRITE_SETTINGS") => None(Downlink', "AA", "WRITE_SETTINGS")
    BY <1>1, FewerNone
  <2> QED  BY <1>1, <2>1, SettlingKept DEF Fewer
<1>3. Spent => Spent'
  BY <1>1, FewerNone DEF Spent
<1>4. NoStatus(up) => NoStatus(up')
  BY <1>1, FewerNone DEF NoStatus
<1>5. Settled => Settled'
  BY <1>1, <1>3, <1>4 DEF Settled, NoStatus
<1> QED  BY <1>1, <1>2, <1>5, StatusKept DEF NoStatus

LEMMA StatusStep == LinesInv /\ StatusInv /\ [Next]_vars => StatusInv'
<1> SUFFICES ASSUME LinesInv, StatusInv, [Next]_vars PROVE StatusInv'
  OBVIOUS
<1>1. CASE Application
  BY <1>1, ApplicationStatus
<1>2. CASE Tick \/ WriteSettings \/ WaitFinishWriteSettings
  BY <1>2, TickStatus, WriteStatus, FinishStatus
<1>3. CASE WaitForStartHeader \/ LookForIdentResponse \/ ReadSettings \/ EndBatch \/ TickFails
  BY <1>3, OtherStatus
<1>4. CASE External
  BY <1>4, TakeStatus, ReportStatus, LoseStatus DEF External
<1>5. CASE UNCHANGED vars
  BY <1>5 DEF vars, host, batch, chain, counts, StatusInv, Settling, Settled, Spent, NoStatus,
              Uplink, Downlink, Pending
<1> QED  BY <1>1, <1>2, <1>3, <1>4, <1>5 DEF Next, Handler

\* A writing ends when the host meets a report and finds no bank to write.
LEMMA WritingEnds ==
  ASSUME LinesInv, [Next]_vars, ~hasty', State \in WaitsForWrite, State' = "Connected"
  PROVE  /\ \E i \in 1 .. Len(rx) : IsWriteStatus(rx[i])
         /\ StartWriteSettings(ChainList') /\ UNCHANGED <<LastDevice, due, hasty>>
<1> USE DEF LinesInv, WaitsForWrite
<1>1. WriteSettings \/ WaitFinishWriteSettings
  <2>1. CASE Application
    BY <2>1 DEF Application, ConnectFails, Connect, CloseDevice, Zeroed, Edit, RequestSettings,
                SetSettings, Early
  <2>2. CASE Tick \/ TickFails \/ External \/ UNCHANGED vars
    BY <2>2 DEF Tick, TickFails, External, ChainTakes, ChainReports, Lose, vars, host
  <2>3. CASE Handler
    BY <2>3 DEF Handler, WaitForStartHeader, LookForIdentResponse, ReadSettings, EndBatch,
                TypeInv, HandlerOK
  <2> QED  BY <2>1, <2>2, <2>3 DEF Next
<1>2. UNCHANGED <<LastDevice, due, hasty, rx>> \/ UNCHANGED <<LastDevice, due, hasty>>
  BY <1>1 DEF WriteSettings, WaitFinishWriteSettings, HandlerFrame, chain, counts
<1>3. FinishWrite(ChainList')
  <2>1. CASE WriteSettings
    BY <2>1 DEF WriteSettings
  <2>2. CASE WaitFinishWriteSettings
    BY <2>2 DEF WaitFinishWriteSettings
  <2> QED  BY <1>1, <2>1, <2>2
<1> QED  BY <1>2, <1>3 DEF FinishWrite

\* WriteComplete: the state is Connected again only when no bank is left to be written and
\* the bank written last has reported that it stored its settings
\* (PacketHandler.c:462-528).
THEOREM WriteCompleteHolds == Spec => WriteComplete
<1>1. Init => StatusInv
  BY DEF Init, StatusInv, Unused
<1>2. LinesInv /\ StatusInv /\ [Next]_vars =>
        (~hasty' /\ State' = "Connected" /\ State \in WaitsForWrite =>
           NeedsWrite(ChainList') = {} /\ due = {})
  <2> SUFFICES ASSUME LinesInv, StatusInv, [Next]_vars, ~hasty', State' = "Connected",
                      State \in WaitsForWrite
               PROVE  NeedsWrite(ChainList') = {} /\ due = {}
    OBVIOUS
  <2>1. /\ \E i \in 1 .. Len(rx) : IsWriteStatus(rx[i])
        /\ StartWriteSettings(ChainList') /\ UNCHANGED <<LastDevice, due, hasty>>
    BY WritingEnds
  <2>2. ~NoStatus(rx)
    <3>1. PICK i \in 1 .. Len(rx) : IsWriteStatus(rx[i])
      BY <2>1
    <3>2. rx \in Seq(Frames)
      BY DEF LinesInv, TypeInv, LineType
    <3>3. rx[i] \in Elements(rx) /\ IsA(rx[i], "55", "WRITE_SETTINGS")
      BY <3>1, <3>2, LenProperties DEF Elements, IsWriteStatus, IsA
    <3> QED  BY <3>3, NoneOf DEF NoStatus
  <2>3. due = {}
    BY <2>1, <2>2 DEF StatusInv, Unused, WaitsForWrite
  <2>4. NeedsWrite(ChainList') = {}
    BY <2>1 DEF StartWriteSettings, NeedsWrite, Known, NumBanks
  <2> QED  BY <2>3, <2>4
<1> QED  BY <1>1, <1>2, StatusStep, LinesInvHolds, PTL DEF Spec, WriteComplete

-----------------------------------------------------------------------------
(***************************************************************************)
(* Identification tells the whole chain                                    *)
(***************************************************************************)

\* The last bank of the last device.
Top == <<LastOfChain, BanksOf[Chain[LastOfChain]] - 1>>

\* The answers to IDENTIFY are in the order in which the chain gives them.
Falling(s) ==
  \A i, j \in DOMAIN s :
    IsIdent(s[i]) /\ IsIdent(s[j]) /\ i < j => Before(Source(s[j]), Source(s[i]))

\* A bank the host knows, and one whose answer is still to be handled.
Told(p) ==
  ChainList[p].deviceType = Chain[p[1]] /\ ChainList[p].boot = (p \in InBootloader)
Coming(p) == \E f \in Elements(Uplink) : IsIdent(f) /\ Source(f) = p

NoIdents == None(Downlink, "AA", "IDENTIFY") /\ None(Uplink, "55", "IDENTIFY")

\* Either the chain has not yet taken the one IDENTIFY, or what the host was not told is
\* coming, the answer of the first bank last of all.
Asked ==
  LastDevice = 0 /\ LastBank = 0 /\ None(Uplink, "55", "IDENTIFY")
Answered ==
  /\ Coming(<<0, 0>>) /\ \A p \in Banks : Told(p) \/ Coming(p)
  /\ \/ <<LastDevice, LastBank>> = Top
     \/ LastDevice = 0 /\ LastBank = 0 /\ Coming(Top)
Awaited ==
  /\ Single(Downlink, "AA", "IDENTIFY") /\ Falling(Uplink)
  /\ IF None(Downlink, "AA", "IDENTIFY") THEN Answered ELSE Asked

Complete == <<LastDevice, LastBank>> = Top /\ \A p \in Banks : Told(p)

IdentInv ==
  ~lost /\ ~hasty =>
    /\ State = "ConnectedWaitIdentResponse" => Awaited
    /\ Identified => Complete
    /\ Identified /\ handler = "ConnectedWaitIdentResponse" => NoIdents

\* The banks there are end with the last one and begin with the first.
LEMMA TopIsLast ==
  /\ Top \in Banks /\ <<0, 0>> \in Banks
  /\ \A p \in Banks : /\ p = Top \/ Before(p, Top)
                      /\ ~Before(p, <<0, 0>>)
                      /\ p[1] \in 0 .. 7 /\ p[2] \in 0 .. 7
<1>1. /\ MaxDevices \in 1 .. 8 /\ LastOfChain \in 0 .. MaxDevices - 1
      /\ DOMAIN Chain = 0 .. LastOfChain
      /\ \A d \in 0 .. LastOfChain : BanksOf[Chain[d]] \in 1 .. MaxDevices
  BY ConstantFacts, SessionAssumption
<1>2. Top \in Banks
  <2>1. PICK n \in 1 .. MaxDevices : n = BanksOf[Chain[LastOfChain]]
    BY <1>1
  <2>2. Top = <<LastOfChain, n - 1>> /\ Top[1] = LastOfChain /\ Top[2] = n - 1
    BY <2>1 DEF Top
  <2> QED  BY <1>1, <2>1, <2>2 DEF Banks, Slots
<1>3. <<0, 0>> \in Banks
  <2>1. PICK n \in 1 .. MaxDevices : n = BanksOf[Chain[0]]
    BY <1>1
  <2> QED  BY <1>1, <2>1 DEF Banks, Slots
<1>4. ASSUME NEW p \in Banks
      PROVE  /\ p = Top \/ Before(p, Top)
             /\ ~Before(p, <<0, 0>>) /\ p[1] \in 0 .. 7 /\ p[2] \in 0 .. 7
  <2>1. p[1] \in 0 .. 7 /\ p[2] \in 0 .. 7 /\ p = <<p[1], p[2]>>
    BY SlotFields DEF Banks
  <2>2. p[1] <= LastOfChain /\ p[2] < BanksOf[Chain[p[1]]]
    BY DEF Banks
  <2>3. PICK n \in 1 .. MaxDevices : n = BanksOf[Chain[LastOfChain]]
    BY <1>1
  <2>4. Top[1] = LastOfChain /\ Top[2] = n - 1 /\ Top = <<LastOfChain, n - 1>>
    BY <2>3 DEF Top
  <2>5. p[1] = LastOfChain => p[2] <= n - 1
    BY <1>1, <2>1, <2>2, <2>3
  <2>6. p = Top \/ Before(p, Top)
    BY <1>1, <2>1, <2>2, <2>3, <2>4, <2>5 DEF Before
  <2> QED  BY <2>1, <2>6 DEF Before
<1> QED  BY <1>2, <1>3, <1>4

\* Two sequences in order give one when what the second has is before what the first has.
LEMMA FallingConcat ==
  ASSUME NEW S, NEW s \in Seq(S), NEW t \in Seq(S)
  PROVE  Falling(s \o t) <=>
           /\ Falling(s) /\ Falling(t)
           /\ \A f \in Elements(s), g \in Elements(t) :
                IsIdent(f) /\ IsIdent(g) => Before(Source(g), Source(f))
<1>1. /\ Len(s) \in Nat /\ Len(t) \in Nat
      /\ DOMAIN s = 1 .. Len(s) /\ DOMAIN t = 1 .. Len(t)
      /\ DOMAIN (s \o t) = 1 .. Len(s) + Len(t)
      /\ \A i \in 1 .. Len(s) + Len(t) :
           (s \o t)[i] = IF i <= Len(s) THEN s[i] ELSE t[i - Len(s)]
      /\ Elements(s) = {s[i] : i \in 1 .. Len(s)} /\ Elements(t) = {t[i] : i \in 1 .. Len(t)}
  BY SeqFacts, ConcatProperties
<1> DEFINE c == s \o t
           OK(f, g) == IsIdent(f) /\ IsIdent(g) => Before(Source(g), Source(f))
<1>2. /\ \A i \in 1 .. Len(s) : i \in 1 .. Len(s) + Len(t) /\ c[i] = s[i]
      /\ \A i \in 1 .. Len(t) : Len(s) + i \in 1 .. Len(s) + Len(t) /\ c[Len(s) + i] = t[i]
  BY <1>1
<1>3. /\ Falling(s) <=> \A i, j \in 1 .. Len(s) : i < j => OK(s[i], s[j])
      /\ Falling(t) <=> \A i, j \in 1 .. Len(t) : i < j => OK(t[i], t[j])
      /\ Falling(c) <=> \A i, j \in 1 .. Len(s) + Len(t) : i < j => OK(c[i], c[j])
  BY <1>1 DEF Falling
<1> HIDE DEF c, OK
<1>4. ASSUME Falling(c)
      PROVE  /\ Falling(s) /\ Falling(t)
             /\ \A f \in Elements(s), g \in Elements(t) : OK(f, g)
  <2>1. Falling(s)
    BY <1>2, <1>3, <1>4
  <2>2. Falling(t)
    <3> SUFFICES ASSUME NEW i \in 1 .. Len(t), NEW j \in 1 .. Len(t), i < j
                 PROVE  OK(t[i], t[j])
      BY <1>3
    <3>1. Len(s) + i < Len(s) + j
      BY <1>1
    <3> QED  BY <1>2, <1>3, <1>4, <3>1
  <2>3. ASSUME NEW f \in Elements(s), NEW g \in Elements(t) PROVE OK(f, g)
    <3>1. PICK i \in 1 .. Len(s) : f = s[i]
      BY <1>1
    <3>2. PICK j \in 1 .. Len(t) : g = t[j]
      BY <1>1
    <3>3. i < Len(s) + j
      BY <1>1
    <3> QED  BY <1>2, <1>3, <1>4, <3>1, <3>2, <3>3
  <2> QED  BY <2>1, <2>2, <2>3
<1>5. ASSUME Falling(s), Falling(t), \A f \in Elements(s), g \in Elements(t) : OK(f, g)
      PROVE  Falling(c)
  <2> SUFFICES ASSUME NEW i \in 1 .. Len(s) + Len(t), NEW j \in 1 .. Len(s) + Len(t), i < j
               PROVE  OK(c[i], c[j])
    BY <1>3
  <2>1. CASE j <= Len(s)
    <3>1. i \in 1 .. Len(s) /\ j \in 1 .. Len(s)
      BY <1>1, <2>1
    <3> QED  BY <1>2, <1>3, <1>5, <3>1
  <2>2. CASE i <= Len(s) /\ j > Len(s)
    <3>1. i \in 1 .. Len(s) /\ j - Len(s) \in 1 .. Len(t) /\ Len(s) + (j - Len(s)) = j
      BY <1>1, <2>2
    <3>2. c[i] \in Elements(s) /\ c[j] \in Elements(t)
      BY <1>1, <1>2, <3>1
    <3> QED  BY <1>5, <3>2
  <2>3. CASE i > Len(s)
    <3>1. /\ i - Len(s) \in 1 .. Len(t) /\ j - Len(s) \in 1 .. Len(t)
          /\ Len(s) + (j - Len(s)) = j /\ Len(s) + (i - Len(s)) = i
          /\ i - Len(s) < j - Len(s)
      BY <1>1, <2>3
    <3>2. c[i] = t[i - Len(s)] /\ c[j] = t[j - Len(s)]
      BY <1>2, <3>1
    <3> QED  BY <1>3, <1>5, <3>1, <3>2
  <2> QED  BY <1>1, <2>1, <2>2, <2>3
<1> QED  BY <1>4, <1>5 DEF c, OK

LEMMA FallingOne ==
  ASSUME NEW f
  PROVE  Falling(<<f>>)
BY DEF Falling

\* Where there is no answer they are in order.
LEMMA FallingNone ==
  ASSUME NEW s, None(s, "55", "IDENTIFY")
  PROVE  Falling(s)
BY DEF Falling, None, Where, IsA, IsIdent

LEMMA NoneIdent ==
  ASSUME NEW s
  PROVE  None(s, "55", "IDENTIFY") <=> \A f \in Elements(s) : ~IsIdent(f)
BY NoneOf DEF IsIdent, IsA

\* The chain answers in order, every bank of it.
LEMMA AnswersFalling ==
  /\ IdentAnswers \in Seq(Frames) /\ Falling(IdentAnswers)
  /\ \A p \in Banks : \E g \in Elements(IdentAnswers) : IsIdent(g) /\ Source(g) = p
<1>1. /\ \A i \in DOMAIN IdentOrder : IdentOrder[i] \in Banks
      /\ \A p \in Banks : \E i \in DOMAIN IdentOrder : IdentOrder[i] = p
      /\ DOMAIN IdentOrder = 1 .. Len(IdentOrder) /\ Len(IdentOrder) \in Nat
  BY SessionAssumption, LenProperties, ElementOfSeq DEF Elements
<1>2. /\ DOMAIN IdentAnswers = DOMAIN IdentOrder
      /\ \A i \in DOMAIN IdentOrder :
           /\ IdentAnswers[i] \in Frames /\ IsIdent(IdentAnswers[i])
           /\ Source(IdentAnswers[i]) = IdentOrder[i]
  BY <1>1, IdentAnswerType, IdentFacts DEF IdentAnswers, IsIdent
<1>3. IdentAnswers \in Seq(Frames)
  <2>1. IdentAnswers \in [1 .. Len(IdentOrder) -> Frames]
    BY <1>1, <1>2 DEF IdentAnswers
  <2> QED  BY <1>1, <2>1, SeqDef
<1>4. Falling(IdentAnswers)
  BY <1>2, SessionAssumption DEF Falling
<1>5. ASSUME NEW p \in Banks
      PROVE  \E g \in Elements(IdentAnswers) : IsIdent(g) /\ Source(g) = p
  <2>1. PICK i \in DOMAIN IdentOrder : IdentOrder[i] = p
    BY <1>1
  <2> QED  BY <1>2, <2>1 DEF Elements
<1> QED  BY <1>3, <1>4, <1>5

\* What the answers still to be handled tell is left as it is: the sequence may lose and get
\* other frames.
IdentsKept ==
  /\ Falling(Uplink) => Falling(Uplink')
  /\ \A g : IsIdent(g) => (g \in Elements(Uplink') <=> g \in Elements(Uplink))

\* Steps that neither ask for an identification nor bring one forward.
LEMMA IdentKept ==
  ASSUME IdentInv, IdentsKept, ChipsKept, UNCHANGED State,
         Single(Downlink, "AA", "IDENTIFY") => Single(Downlink', "AA", "IDENTIFY"),
         None(Downlink', "AA", "IDENTIFY") <=> None(Downlink, "AA", "IDENTIFY"),
         handler' \in {handler, "none", State}, ~lost' => ~lost, ~hasty' => ~hasty
  PROVE  IdentInv'
<1> SUFFICES ASSUME ~lost, ~hasty PROVE IdentInv'
  BY DEF IdentInv
<1>1. \A p \in Banks : (Told(p) <=> Told(p)') /\ (Coming(p) <=> Coming(p)')
  <2>1. \A p \in Banks : p \in Slots
    BY ConstantFacts
  <2> QED  BY <2>1 DEF Told, Coming, ChipsKept, IdentsKept
<1>2. None(Uplink', "55", "IDENTIFY") <=> None(Uplink, "55", "IDENTIFY")
  BY NoneIdent DEF IdentsKept
<1>3. UNCHANGED <<LastDevice, LastBank>> /\ Top \in Banks /\ <<0, 0>> \in Banks
  BY TopIsLast DEF ChipsKept
<1>4. ASSUME State = "ConnectedWaitIdentResponse" PROVE Awaited'
  <2>1. Awaited
    BY <1>4 DEF IdentInv
  <2>2. Answered => Answered'
    BY <1>1, <1>3 DEF Answered, Top
  <2>3. Asked => Asked'
    BY <1>2, <1>3 DEF Asked
  <2> QED  BY <2>1, <2>2, <2>3 DEF Awaited, IdentsKept
<1>5. Identified => Complete'
  BY <1>1, <1>3 DEF IdentInv, Complete, Top
<1>6. Identified' <=> Identified
  BY DEF Identified
<1>7. Identified /\ handler' = "ConnectedWaitIdentResponse" => NoIdents'
  BY <1>2 DEF IdentInv, NoIdents, Identified
<1> QED  BY <1>4, <1>5, <1>6, <1>7 DEF IdentInv

\* The steps of a chain that is known.
LEMMA CompleteKept ==
  ASSUME IdentInv, ChipsKept, Identified, State' # "ConnectedWaitIdentResponse",
         handler' # "ConnectedWaitIdentResponse", ~lost' => ~lost, ~hasty' => ~hasty
  PROVE  IdentInv'
<1> SUFFICES ASSUME ~lost, ~hasty PROVE IdentInv'
  BY DEF IdentInv
<1>1. \A p \in Banks : Told(p) => Told(p)'
  BY ConstantFacts DEF Told, ChipsKept
<1>2. Complete'
  BY <1>1 DEF IdentInv, Complete, Top, ChipsKept
<1> QED  BY <1>2 DEF IdentInv

LEMMA ApplicationIdent ==
  ASSUME LinesInv, IdentInv, Application
  PROVE  IdentInv'
<1> USE DEF LinesInv
<1>1. CASE ConnectFails \/ Connect \/ CloseDevice
  BY <1>1 DEF ConnectFails, Connect, CloseDevice, Zeroed, IdentInv, Identified
<1>2. CASE Edit
  <2>1. /\ Uplink' = Uplink /\ Downlink' = Downlink
        /\ UNCHANGED <<State, handler, hasty, lost>>
    BY <1>2, EditTypes DEF Edit
  <2>2. ChipsKept
    <3>1. UNCHANGED <<LastDevice, LastBank>>
      BY <1>2 DEF Edit
    <3> QED  BY <1>2, <3>1, EditTypes DEF ChipsKept
  <2>3. IdentsKept
    BY <2>1 DEF IdentsKept
  <2> QED  BY <2>1, <2>2, <2>3, IdentKept
<1>3. CASE RequestSettings
  <2>1. /\ Identified /\ State' = "ConnectedWaitReadSettings" /\ handler' = "none"
        /\ UNCHANGED <<hasty, lost>>
    BY <1>3 DEF RequestSettings, StartReadSettings, Idle, batch, Identified, States
  <2>2. ChipsKept
    BY <1>3, RequestSettingsTypes DEF ChipsKept
  <2> QED  BY <2>1, <2>2, CompleteKept
<1>4. CASE SetSettings
  <2> SUFFICES ASSUME ~hasty' PROVE IdentInv'
    BY DEF IdentInv
  <2>1. Identified /\ handler' = "none" /\ UNCHANGED lost /\ ~hasty
    BY <1>4 DEF SetSettings, MayCall, Idle, Early, batch, Identified, States
  <2>2. State' # "ConnectedWaitIdentResponse" /\ ChipsKept
    BY <1>4 DEF SetSettings, StartWriteSettings, ChipsKept
  <2> QED  BY <2>1, <2>2, CompleteKept
<1> QED  BY <1>1, <1>2, <1>3, <1>4 DEF Application

\* When the applications were given their time the line is quiet, and IDENTIFY is all there is
\* on it.
LEMMA StartIdent ==
  ASSUME LinesInv, IdentInv, WaitForStartHeader
  PROVE  IdentInv'
<1> USE DEF LinesInv
<1>1. handler = "ConnectedWaitForAppStart" /\ State = "ConnectedWaitForAppStart"
  BY DEF WaitForStartHeader, TypeInv, HandlerOK
<1>2. CASE Timeus <= StartDelay
  <2>1. State' = State
    BY <1>2, ConstantFacts DEF WaitForStartHeader, TypeInv, HostType
  <2> QED  BY <1>1, <2>1 DEF IdentInv, Identified
<1>3. CASE Timeus > StartDelay
  <2>1. /\ HasRoom /\ SendPacket(ToAll("IDENTIFY"))
        /\ State' = "ConnectedWaitIdentResponse"
        /\ LastBank' = 0 /\ LastDevice' = 0 /\ UNCHANGED <<up, down>> /\ handler' = "none"
    BY <1>3, RoomWhenQuiet DEF WaitForStartHeader, IdentifyChain, Return
  <2>2. PICK d \in Seq(HostFrames), s \in Seq(HostFrames) : d = down /\ s = tx
    BY DEF TypeInv, LineType
  <2>3. PICK f \in HostFrames : f = ToAll("IDENTIFY") /\ IsA(f, "AA", "IDENTIFY")
    BY ToAllType DEF IsA
  <2>4. PICK e \in Seq(HostFrames) :
          /\ e = <<f>> /\ Single(e, "AA", "IDENTIFY") /\ ~None(e, "AA", "IDENTIFY")
    BY <2>3, OneFrame
  <2>5. Downlink' = (d \o s) \o e /\ d \o s \in Seq(HostFrames)
    <3>1. tx' = s \o e
      BY <2>1, <2>2, <2>3, <2>4, AppendIsConcat DEF SendPacket
    <3>2. (d \o s) \o e = d \o (s \o e)
      BY HostAssoc
    <3> QED  BY <2>1, <2>2, <3>1, <3>2, ConcatProperties DEF Downlink
  <2>6. None(d \o s, "AA", "IDENTIFY") /\ Single(d \o s, "AA", "IDENTIFY")
    BY <1>1, <1>3, <2>2, NoneOf, NoneSingle DEF QuietInv, Downlink
  <2>7. ~None(Downlink', "AA", "IDENTIFY") /\ Single(Downlink', "AA", "IDENTIFY")
    <3>1. PICK q \in Seq(HostFrames) : q = d \o s
      BY <2>5
    <3>2. ~None(q \o e, "AA", "IDENTIFY")
      BY <2>4, NoneConcat
    <3>3. Single(q \o e, "AA", "IDENTIFY")
      BY <2>4, <2>6, <3>1, SingleConcat
    <3> QED  BY <2>5, <3>1, <3>2, <3>3
  <2>8. None(Uplink', "55", "IDENTIFY") /\ Falling(Uplink')
    <3>1. Fewer(Uplink', Uplink)
      BY <2>1, ReturnLine DEF WaitForStartHeader, TypeInv
    <3>2. Elements(Uplink') = {}
      BY <1>1, <1>3, <3>1 DEF QuietInv, Fewer
    <3> QED  BY <3>2, NoneOf, FallingNone
  <2> QED  BY <2>1, <2>7, <2>8 DEF IdentInv, Awaited, Asked, Identified
<1> QED  BY <1>2, <1>3, ConstantFacts DEF TypeInv, HostType

\* An answer is handled: it is the highest one of those that are left.
LEMMA LookIdent ==
  ASSUME LinesInv, IdentInv, LookForIdentResponse
  PROVE  IdentInv'
<1> USE DEF LinesInv
<1>1. PICK f \in Frames :
        /\ Uplink = <<f>> \o Uplink' /\ Uplink' \in Seq(Frames)
        /\ \/ ~IsIdent(f) /\ UNCHANGED <<LastDevice, LastBank, ChainList, State>>
           \/ f \in IdentFrames /\ IdentEffect(f)
  BY IdentStep
<1>2. /\ Downlink' = Downlink /\ UNCHANGED <<handler, lost, hasty>>
      /\ handler = "ConnectedWaitIdentResponse"
      /\ State \in {"ConnectedWaitIdentResponse", "Connected"}
  BY LookForIdentTypes DEF LookForIdentResponse, HandlerFrame, Continue, counts, TypeInv, HandlerOK
<1>3. /\ Elements(Uplink) = {f} \cup Elements(Uplink')
      /\ Falling(Uplink) =>
           /\ Falling(Uplink')
           /\ \A g \in Elements(Uplink') :
                IsIdent(f) /\ IsIdent(g) => Before(Source(g), Source(f))
  <2>1. PICK u \in Seq(Frames), e \in Seq(Frames) :
          u = Uplink' /\ e = <<f>> /\ Elements(e) = {f}
    BY <1>1, OneFrame
  <2>2. /\ Elements(e \o u) = Elements(e) \cup Elements(u)
        /\ Falling(e \o u) => /\ Falling(u)
                              /\ \A h \in Elements(e), g \in Elements(u) :
                                   IsIdent(h) /\ IsIdent(g) => Before(Source(g), Source(h))
    BY ElementsConcat, FallingConcat
  <2> QED  BY <1>1, <2>1, <2>2
<1>4. CASE ~IsIdent(f)
  <2>1. UNCHANGED <<LastDevice, LastBank, ChainList, State>>
    BY <1>1, <1>4, IdentFacts DEF IsIdent
  <2>2. IdentsKept /\ ChipsKept
    BY <1>3, <1>4, <2>1 DEF IdentsKept, ChipsKept
  <2> QED  BY <1>2, <2>1, <2>2, IdentKept
<1>5. CASE IsIdent(f)
  <2> SUFFICES ASSUME ~lost, ~hasty PROVE IdentInv'
    BY <1>2 DEF IdentInv
  <2>1. State = "ConnectedWaitIdentResponse" /\ Awaited
    <3>1. ~None(Uplink, "55", "IDENTIFY")
      BY <1>3, <1>5, NoneIdent
    <3>2. State # "Connected"
      BY <1>2, <3>1 DEF IdentInv, NoIdents, Identified, States
    <3> QED  BY <1>2, <3>2 DEF IdentInv
  <2>2. /\ Single(Downlink, "AA", "IDENTIFY") /\ None(Downlink, "AA", "IDENTIFY") /\ Answered
        /\ Falling(Uplink')
        /\ \A g \in Elements(Uplink') : IsIdent(g) => Before(Source(g), Source(f))
    BY <1>3, <1>5, <2>1, NoneIdent DEF Awaited, Asked
  <2>3. PICK p \in Banks : p = Source(f) /\ p \in Slots
    BY <1>1, <1>5, IdentFacts, ConstantFacts
  <2>4. /\ ChainList'[p].deviceType = Chain[p[1]]
        /\ ChainList'[p].boot = (p \in InBootloader)
        /\ \A q \in Slots : q # p => ChainList'[q] = ChainList[q]
        /\ IF LastDevice = 0 /\ LastBank = 0
           THEN LastDevice' = p[1] /\ LastBank' = p[2]
           ELSE UNCHANGED <<LastDevice, LastBank>>
        /\ State' = IF p = <<0, 0>> THEN "Connected" ELSE State
    BY <1>1, <1>5, <2>3 DEF IdentEffect
  <2>5. \A q \in Banks : Told(q)' \/ (q # p /\ Coming(q)')
    <3> SUFFICES ASSUME NEW q \in Banks PROVE Told(q)' \/ (q # p /\ Coming(q)')
      OBVIOUS
    <3>1. CASE q = p
      BY <2>4, <3>1 DEF Told
    <3>2. CASE q # p /\ Told(q)
      BY <2>4, <3>2, ConstantFacts DEF Told
    <3>3. CASE q # p /\ Coming(q)
      BY <1>3, <2>3, <3>3 DEF Coming
    <3> QED  BY <2>2, <3>1, <3>2, <3>3 DEF Answered
  <2>6. <<LastDevice', LastBank'>> = Top
    <3>1. Top[1] = LastOfChain /\ Top = <<Top[1], Top[2]>> /\ p = <<p[1], p[2]>>
      BY <2>3, SlotFields DEF Top
    <3>2. CASE ~(LastDevice = 0 /\ LastBank = 0)
      BY <2>2, <2>4, <3>2 DEF Answered
    <3>3. CASE LastDevice = 0 /\ LastBank = 0
      <4>1. p = Top
        <5>1. CASE Top = <<0, 0>>
          BY <5>1, TopIsLast
        <5>2. CASE Top # <<0, 0>>
          <6>1. Coming(Top)
            BY <2>2, <3>3, <5>2 DEF Answered
          <6>2. ~Before(Top, p)
            <7>1. p = Top \/ Before(p, Top)
              BY TopIsLast
            <7>2. p[1] \in Int /\ p[2] \in Int /\ Top[1] \in Int /\ Top[2] \in Int
              BY TopIsLast
            <7> QED  BY <7>1, <7>2 DEF Before
          <6> QED  BY <1>3, <2>2, <2>3, <6>1, <6>2 DEF Coming
        <5> QED  BY <5>1, <5>2
      <4> QED  BY <2>4, <3>1, <3>3, <4>1
    <3> QED  BY <3>2, <3>3
  <2>7. CASE p = <<0, 0>>
    <3>1. \A g \in Elements(Uplink') : ~IsIdent(g)
      <4> SUFFICES ASSUME NEW g \in Elements(Uplink'), IsIdent(g) PROVE FALSE
        OBVIOUS
      <4>1. Before(Source(g), <<0, 0>>)
        BY <2>2, <2>3, <2>7
      <4>2. Source(g) \in Banks
        BY <1>1, SeqFacts, FrameFacts, IdentFacts DEF IsIdent
      <4> QED  BY <4>1, <4>2, TopIsLast
    <3>2. \A q \in Banks : Told(q)'
      BY <2>5, <3>1 DEF Coming
    <3>3. None(Uplink', "55", "IDENTIFY") /\ None(Downlink', "AA", "IDENTIFY")
      BY <1>2, <2>2, <3>1, NoneIdent
    <3>4. State' = "Connected"
      BY <2>4, <2>7
    <3> QED  BY <2>6, <3>2, <3>3, <3>4 DEF IdentInv, Complete, NoIdents, Top
  <2>8. CASE p # <<0, 0>>
    <3>1. Coming(<<0, 0>>)'
      BY <1>3, <2>2, <2>3, <2>8 DEF Answered, Coming
    <3>2. Answered'
      BY <2>5, <2>6, <3>1 DEF Answered, Top
    <3>3. State' = "ConnectedWaitIdentResponse"
      BY <2>1, <2>4, <2>8
    <3> QED  BY <1>2, <2>2, <3>2, <3>3 DEF IdentInv, Awaited, Identified
  <2> QED  BY <2>7, <2>8
<1> QED  BY <1>4, <1>5

\* The other handlers, and the ticks.
LEMMA HandlerIdent ==
  ASSUME LinesInv, IdentInv,
         \/ Tick \/ TickFails \/ ReadSettings \/ WriteSettings \/ WaitFinishWriteSettings
         \/ EndBatch
  PROVE  IdentInv'
<1> USE DEF LinesInv
<1>1. CASE Tick \/ TickFails
  <2>1. /\ UNCHANGED <<State, LastDevice, LastBank, ChainList, hasty, lost>>
        /\ Uplink' = Uplink /\ Downlink' = Downlink
        /\ handler' = State \/ handler' = "none"
    BY <1>1, TickTypes
  <2>2. IdentsKept /\ ChipsKept
    BY <2>1 DEF IdentsKept, ChipsKept
  <2> QED  BY <2>1, <2>2, IdentKept
<1>2. CASE ReadSettings \/ WriteSettings \/ WaitFinishWriteSettings
  <2>1. /\ State \in {"Connected", "ConnectedWaitReadSettings", "ConnectedWaitWriteSettings",
                      "ConnectedWaitFinishWriteSettings"}
        /\ handler # "ConnectedWaitIdentResponse"
        /\ handler' \in {handler, "none"} /\ UNCHANGED <<hasty, lost>>
    BY <1>2 DEF ReadSettings, WriteSettings, WaitFinishWriteSettings, HandlerFrame, counts,
                Continue, Return, TypeInv, HandlerOK
  <2>2. State' # "ConnectedWaitIdentResponse"
    BY <1>2, <2>1 DEF ReadSettings, WriteSettings, WaitFinishWriteSettings, FinishWrite,
                      StartWriteSettings
  <2>3. ChipsKept
    <3>1. ~LookForIdentResponse
      BY <2>1 DEF LookForIdentResponse
    <3>2. [Next]_vars
      BY <1>2 DEF Next, Handler
    <3>3. State' \in {"Connected", "ConnectedWaitReadSettings", "ConnectedWaitWriteSettings",
                      "ConnectedWaitFinishWriteSettings"}
      BY <1>2, <2>1 DEF ReadSettings, WriteSettings, WaitFinishWriteSettings, FinishWrite,
                        StartWriteSettings
    <3> QED  BY <3>1, <3>2, <3>3, ChipsStep
  <2>4. Identified
    BY <2>1 DEF Identified, States
  <2> QED  BY <2>1, <2>2, <2>3, <2>4, CompleteKept
<1>3. CASE EndBatch
  <2>1. /\ UNCHANGED <<State, LastDevice, LastBank, ChainList, hasty, lost>>
        /\ handler' = "none" /\ Downlink' = Downlink
    BY <1>3, EndBatchTypes
  <2>2. ChipsKept
    BY <2>1 DEF ChipsKept
  <2>3. CASE Identified
    BY <2>1, <2>2, <2>3, CompleteKept DEF Identified
  <2>4. CASE ~Identified
    <3>1. handler # "Connected" /\ next > Len(rx) /\ handler # "none"
      BY <1>3, <2>4 DEF EndBatch, Identified, States, TypeInv, HandlerOK
    <3>2. Pending = <<>>
      BY <3>1, SubSeqEmpty DEF Pending, TypeInv, LineType
    <3>3. Uplink = up
      BY <3>2, ConcatEmptySeq DEF Uplink, TypeInv, LineType
    <3>4. Uplink' = up
      BY <1>3, ReturnLine DEF EndBatch, HandlerFrame, TypeInv
    <3>5. IdentsKept
      BY <3>3, <3>4 DEF IdentsKept
    <3> QED  BY <2>1, <2>2, <3>5, IdentKept
  <2> QED  BY <2>3, <2>4
<1> QED  BY <1>1, <1>2, <1>3

\* The chain takes IDENTIFY, and answers in order; what else it takes brings no such answer.
LEMMA TakeIdent ==
  ASSUME LinesInv, IdentInv, ChainTakes
  PROVE  IdentInv'
<1> USE DEF LinesInv
<1>1. PICK f \in HostFrames, a \in Seq(Frames) :
        /\ f = Head(down) /\ a = AnswersTo(f) /\ Downlink = <<f>> \o Downlink'
        /\ Uplink' = Uplink \o (a \o <<f>>) \/ Uplink' = Uplink \o (<<f>> \o a)
  BY TakeLine
<1>2. UNCHANGED <<State, LastDevice, LastBank, ChainList, handler, hasty, lost>>
  BY ChainTakesTypes DEF host
<1>3. /\ f \in Frames /\ ~IsIdent(f) /\ LinesTyped /\ LinesTyped'
  BY HostFrameFacts, TakeLine, LineSeqs, LineSeqsNext DEF IsIdent, TypeInv
<1>4. PICK e \in Seq(Frames) : e = <<f>> /\ Elements(e) = {f} /\ Falling(e)
  BY <1>3, OneFrame, FallingOne
<1>5. PICK u \in Seq(Frames) : (u = a \o e \/ u = e \o a) /\ Uplink' = Uplink \o u
  BY <1>1, <1>4, ConcatProperties
<1>6. /\ Elements(u) = Elements(a) \cup {f}
      /\ Falling(a) => Falling(u)
  <2>1. /\ Elements(a \o e) = Elements(a) \cup {f} /\ Elements(e \o a) = {f} \cup Elements(a)
    BY <1>4, ElementsConcat
  <2>2. \A g \in Elements(e) : ~IsIdent(g)
    BY <1>3, <1>4
  <2>3. (Falling(a) => Falling(a \o e)) /\ (Falling(a) => Falling(e \o a))
    BY <1>4, <2>2, FallingConcat
  <2> QED  BY <1>5, <2>1, <2>3
<1>7. PICK v \in Seq(Frames), d \in Seq(HostFrames), h \in Seq(HostFrames) :
        /\ v = Uplink /\ d = Downlink' /\ h = <<f>> /\ Elements(h) = {f} /\ Downlink = h \o d
        /\ None(h, "AA", "IDENTIFY") <=> ~IsA(f, "AA", "IDENTIFY")
  BY <1>1, <1>3, OneFrame DEF LinesTyped
<1>8. Single(Downlink, "AA", "IDENTIFY") =>
        /\ Single(Downlink', "AA", "IDENTIFY")
        /\ None(h, "AA", "IDENTIFY") \/ None(Downlink', "AA", "IDENTIFY")
  BY <1>7, SingleConcat
<1>9. None(Downlink, "AA", "IDENTIFY") <=>
        (None(h, "AA", "IDENTIFY") /\ None(Downlink', "AA", "IDENTIFY"))
  BY <1>7, NoneConcat
<1>10. /\ Elements(Uplink') = Elements(Uplink) \cup Elements(u)
       /\ Falling(Uplink') <=>
            /\ Falling(Uplink) /\ Falling(u)
            /\ \A k \in Elements(Uplink), g \in Elements(u) :
                 IsIdent(k) /\ IsIdent(g) => Before(Source(g), Source(k))
  BY <1>5, <1>7, ElementsConcat, FallingConcat
<1>11. CASE f.cmd # "IDENTIFY"
  <2>1. \A g \in Elements(u) : ~IsIdent(g)
    <3> SUFFICES ASSUME NEW g \in Elements(u), IsIdent(g) PROVE FALSE
      OBVIOUS
    <3>1. g \in Elements(a)
      BY <1>3, <1>6
    <3>2. CASE f.cmd = "READ_SETTINGS" /\ Target(f) \in Banks \ InBootloader
      <4>1. PICK r \in Frames : r = Answer(f.cmd, Target(f), f.part, stored[Target(f)][f.part])
                                /\ r.cmd = "READ_SETTINGS"
        <5>1. stored[Target(f)][f.part] \in Nat
          BY <3>2, HostFrameFacts DEF TypeInv, BankType, Image
        <5> QED  BY <3>2, <5>1, HostFrameFacts, AnswerType, AnswerFacts
      <4>2. a = <<r>>
        BY <1>1, <1>11, <3>2, <4>1 DEF AnswersTo
      <4>3. g = r
        BY <3>1, <4>1, <4>2, OneFrame
      <4> QED  BY <4>1, <4>3 DEF IsIdent
    <3>3. CASE ~(f.cmd = "READ_SETTINGS" /\ Target(f) \in Banks \ InBootloader)
      <4>1. a = <<>>
        BY <1>1, <1>11, <3>3 DEF AnswersTo
      <4> QED  BY <3>1, <4>1, NoFrames
    <3> QED  BY <3>2, <3>3
  <2>2. Falling(u)
    BY <2>1, NoneIdent, FallingNone
  <2>3. IdentsKept /\ ChipsKept
    BY <1>2, <1>10, <2>1, <2>2 DEF IdentsKept, ChipsKept
  <2>4. None(h, "AA", "IDENTIFY")
    BY <1>7, <1>11 DEF IsA
  <2> QED  BY <1>2, <1>8, <1>9, <2>3, <2>4, IdentKept
<1>12. CASE f.cmd = "IDENTIFY"
  <2> SUFFICES ASSUME ~lost, ~hasty PROVE IdentInv'
    BY <1>2 DEF IdentInv
  <2>1. ~None(h, "AA", "IDENTIFY") /\ ~None(Downlink, "AA", "IDENTIFY")
    BY <1>7, <1>9, <1>12, HostFrameFacts DEF IsA
  <2>2. ChipsKept
    BY <1>2 DEF ChipsKept
  <2>3. CASE Identified
    <3>1. handler # "ConnectedWaitIdentResponse"
      BY <2>1, <2>3 DEF IdentInv, NoIdents
    <3> QED  BY <1>2, <2>2, <2>3, <3>1, CompleteKept DEF Identified
  <2>4. CASE State = "ConnectedWaitIdentResponse"
    <3>1. /\ Single(Downlink, "AA", "IDENTIFY") /\ Falling(Uplink)
          /\ LastDevice = 0 /\ LastBank = 0 /\ None(Uplink, "55", "IDENTIFY")
      BY <2>1, <2>4 DEF IdentInv, Awaited, Asked
    <3>2. Single(Downlink', "AA", "IDENTIFY") /\ None(Downlink', "AA", "IDENTIFY")
      BY <1>8, <2>1, <3>1
    <3>3. a = IdentAnswers
      BY <1>1, <1>12 DEF AnswersTo
    <3>4. Falling(Uplink')
      BY <1>6, <1>10, <3>1, <3>3, AnswersFalling, NoneIdent
    <3>5. \A p \in Banks : Coming(p)'
      BY <1>6, <1>10, <3>3, AnswersFalling DEF Coming
    <3>6. Answered'
      BY <1>2, <3>1, <3>5, TopIsLast DEF Answered, Top
    <3> QED  BY <1>2, <2>4, <3>2, <3>4, <3>6 DEF IdentInv, Awaited, Identified
  <2>5. CASE ~Identified /\ State # "ConnectedWaitIdentResponse"
    BY <1>2, <2>5 DEF IdentInv, Identified
  <2> QED  BY <2>3, <2>4, <2>5
<1> QED  BY <1>11, <1>12

\* What else happens on the lines.
LEMMA LineIdent ==
  ASSUME LinesInv, IdentInv, ChainReports \/ Lose \/ UNCHANGED vars
  PROVE  IdentInv'
<1> USE DEF LinesInv
<1>1. CASE ChainReports
  <2>1. PICK f \in AnswerFrames : Uplink' = Uplink \o <<f>>
    BY <1>1, ChainReportsTypes
  <2>2. /\ UNCHANGED <<State, LastDevice, LastBank, ChainList, handler, hasty, lost>>
        /\ Downlink' = Downlink
    BY <1>1, ChainReportsTypes DEF host
  <2>3. PICK u \in Seq(Frames), e \in Seq(Frames) :
          u = Uplink /\ e = <<f>> /\ Elements(e) = {f} /\ Falling(e)
    BY AnswerFacts, OneFrame, FallingOne, LineSeqs DEF TypeInv, LinesTyped
  <2>4. ~IsIdent(f)
    BY AnswerFacts DEF IsIdent
  <2>5. /\ Elements(u \o e) = Elements(u) \cup {f}
        /\ Falling(u) => Falling(u \o e)
    <3>1. Elements(u \o e) = Elements(u) \cup {f}
      <4>1. Elements(u \o e) = Elements(u) \cup Elements(e)
        BY ElementsConcat
      <4>2. Elements(e) = {f}
        BY <2>3
      <4> QED  BY ONLY <4>1, <4>2
    <3>2. \A g \in Elements(e) : ~IsIdent(g)
      BY <2>3, <2>4
    <3>3. Falling(u) => Falling(u \o e)
      <4>1. Falling(e)
        BY <2>3
      <4> QED  BY <3>2, <4>1, FallingConcat
    <3> QED  BY <3>1, <3>3
  <2>6. IdentsKept /\ ChipsKept
    BY <2>1, <2>2, <2>3, <2>4, <2>5 DEF IdentsKept, ChipsKept
  <2> QED  BY <2>2, <2>6, IdentKept
<1>2. CASE Lose
  BY <1>2 DEF Lose, IdentInv
<1>3. CASE UNCHANGED vars
  <2>1. /\ UNCHANGED <<State, LastDevice, LastBank, ChainList, handler, hasty, lost>>
        /\ Uplink' = Uplink /\ Downlink' = Downlink
    BY <1>3 DEF vars, host, batch, counts, Uplink, Downlink, Pending
  <2>2. IdentsKept /\ ChipsKept
    BY <2>1 DEF IdentsKept, ChipsKept
  <2> QED  BY <2>1, <2>2, IdentKept
<1> QED  BY <1>1, <1>2, <1>3

LEMMA IdentInvStep == LinesInv /\ IdentInv /\ [Next]_vars => IdentInv'
BY ApplicationIdent, StartIdent, LookIdent, HandlerIdent, TakeIdent, LineIdent
   DEF Next, Handler, External

LEMMA IdentInvHolds == Spec => []IdentInv
<1>1. Init => IdentInv
  BY DEF Init, IdentInv, Identified
<1> QED  BY <1>1, IdentInvStep, LinesInvHolds, PTL DEF Spec

\* ChainKnown: whoever comes out of the identification knows the last bank, and type and
\* bootloader state of every bank (PacketHandler.c:336-375), for any chain, in whatever
\* batches its answers come, if none of them was lost.
THEOREM ChainKnownHolds == Spec => []ChainKnown
<1>1. IdentInv => ChainKnown
  BY DEF IdentInv, ChainKnown, Complete, Told, Top
<1> QED  BY <1>1, IdentInvHolds, PTL

-----------------------------------------------------------------------------
(***************************************************************************)
(* How many frames of a kind are on the line                               *)
(***************************************************************************)
Count(s, sof, cmd) == Cardinality(Where(s, sof, cmd))

LEMMA CountType ==
  ASSUME NEW S, NEW s \in Seq(S), NEW sof, NEW cmd
  PROVE  /\ IsFiniteSet(Where(s, sof, cmd)) /\ Count(s, sof, cmd) \in Nat
         /\ Count(s, sof, cmd) <= Len(s)
         /\ None(s, sof, cmd) <=> Count(s, sof, cmd) = 0
         /\ Single(s, sof, cmd) => Count(s, sof, cmd) <= 1
<1>1. Len(s) \in Nat /\ DOMAIN s = 1 .. Len(s)
  BY SeqFacts
<1>2. IsFiniteSet(1 .. Len(s)) /\ Cardinality(1 .. Len(s)) = Len(s)
  BY <1>1, FS_Interval
<1>3. Where(s, sof, cmd) \in SUBSET (1 .. Len(s))
  BY <1>1 DEF Where
<1>4. /\ IsFiniteSet(Where(s, sof, cmd)) /\ Count(s, sof, cmd) \in Nat
      /\ Count(s, sof, cmd) <= Len(s)
  BY <1>2, <1>3, FS_Subset, FS_CardinalityType DEF Count
<1>5. None(s, sof, cmd) <=> Count(s, sof, cmd) = 0
  BY <1>4, FS_EmptySet DEF None, Count
<1>6. ASSUME Single(s, sof, cmd) PROVE Count(s, sof, cmd) <= 1
  <2>1. CASE Where(s, sof, cmd) = {}
    BY <1>5, <2>1 DEF None
  <2>2. CASE Where(s, sof, cmd) # {}
    <3>1. PICK x : x \in Where(s, sof, cmd)
      BY <2>2
    <3>2. Where(s, sof, cmd) = {x}
      BY <1>6, <3>1 DEF Single
    <3>3. \A y : Cardinality({y}) = 1
      BY FS_Singleton
    <3>4. Cardinality(Where(s, sof, cmd)) = 1
      BY <3>2, <3>3
    <3> QED  BY <3>4 DEF Count
  <2> QED  BY <2>1, <2>2
<1> QED  BY <1>4, <1>5, <1>6

\* Moved by a number, a set of numbers keeps its size.
LEMMA CountShift ==
  ASSUME NEW A, A \subseteq Nat, IsFiniteSet(A), NEW n \in Nat
  PROVE  LET B == {n + i : i \in A} IN IsFiniteSet(B) /\ Cardinality(B) = Cardinality(A)
<1> DEFINE B == {n + i : i \in A}
           h == [i \in A |-> n + i]
<1>1. h \in [A -> B]
  OBVIOUS
<1>2. \A i, j \in A : h[i] = h[j] => i = j
  OBVIOUS
<1>3. \A b \in B : \E i \in A : h[i] = b
  OBVIOUS
<1>4. h \in Bijection(A, B)
  BY <1>1, <1>2, <1>3 DEF Bijection, Injection, Surjection, IsInjective
<1>5. ExistsBijection(A, B)
  BY <1>4 DEF ExistsBijection
<1> QED  BY <1>5, FS_Bijection

LEMMA CountConcat ==
  ASSUME NEW S, NEW s \in Seq(S), NEW t \in Seq(S), NEW sof, NEW cmd
  PROVE  Count(s \o t, sof, cmd) = Count(s, sof, cmd) + Count(t, sof, cmd)
<1>1. /\ Len(s) \in Nat /\ Len(t) \in Nat
      /\ DOMAIN s = 1 .. Len(s) /\ DOMAIN t = 1 .. Len(t)
      /\ DOMAIN (s \o t) = 1 .. Len(s) + Len(t)
      /\ \A i \in 1 .. Len(s) + Len(t) :
           (s \o t)[i] = IF i <= Len(s) THEN s[i] ELSE t[i - Len(s)]
  BY SeqFacts, ConcatProperties
<1> DEFINE A == Where(s, sof, cmd)
           B == Where(t, sof, cmd)
           C == Where(s \o t, sof, cmd)
           D == {Len(s) + i : i \in B}
<1>2. A \subseteq 1 .. Len(s) /\ B \subseteq 1 .. Len(t) /\ C \subseteq 1 .. Len(s) + Len(t)
  BY <1>1 DEF Where
<1>3. \A i \in 1 .. Len(s) : i \in A <=> i \in C
  <2> SUFFICES ASSUME NEW i \in 1 .. Len(s) PROVE i \in A <=> i \in C
    OBVIOUS
  <2>1. i \in 1 .. Len(s) + Len(t) /\ (s \o t)[i] = s[i]
    BY <1>1
  <2> QED  BY <1>1, <2>1 DEF Where
<1>4. \A i \in 1 .. Len(t) : i \in B <=> Len(s) + i \in C
  <2> SUFFICES ASSUME NEW i \in 1 .. Len(t) PROVE i \in B <=> Len(s) + i \in C
    OBVIOUS
  <2>1. Len(s) + i \in 1 .. Len(s) + Len(t) /\ (s \o t)[Len(s) + i] = t[i]
    BY <1>1
  <2> QED  BY <1>1, <2>1 DEF Where
<1>5. IsFiniteSet(A) /\ IsFiniteSet(B)
  BY CountType
<1> HIDE DEF A, B, C
<1>6. IsFiniteSet(D) /\ Cardinality(D) = Cardinality(B)
  <2>1. B \subseteq Nat
    BY <1>2
  <2> QED  BY <1>1, <1>5, <2>1, CountShift
<1>7. C = A \cup D
  <2>1. ASSUME NEW i \in C PROVE i \in A \cup D
    <3>1. CASE i <= Len(s)
      BY <1>1, <1>2, <1>3, <2>1, <3>1
    <3>2. CASE i > Len(s)
      <4>1. i - Len(s) \in 1 .. Len(t) /\ i = Len(s) + (i - Len(s))
        BY <1>1, <1>2, <2>1, <3>2
      <4>2. i - Len(s) \in B
        BY <1>4, <2>1, <4>1
      <4> QED  BY <4>1, <4>2
    <3> QED  BY <1>1, <1>2, <2>1, <3>1, <3>2
  <2>2. ASSUME NEW i \in A PROVE i \in C
    BY <1>2, <1>3, <2>2
  <2>3. ASSUME NEW i \in D PROVE i \in C
    <3>1. PICK j \in B : i = Len(s) + j
      BY <2>3
    <3> QED  BY <1>2, <1>4, <3>1
  <2> QED  BY <2>1, <2>2, <2>3
<1>8. A \cap D = {}
  BY <1>1, <1>2
<1>9. Cardinality(C) = Cardinality(A) + Cardinality(D)
  <2> HIDE DEF D
  <2>1. Cardinality(A \cup D) = Cardinality(A) + Cardinality(D) - Cardinality(A \cap D)
    BY <1>5, <1>6, FS_Union
  <2>2. Cardinality(A \cap D) = 0
    BY <1>8, FS_EmptySet
  <2>3. Cardinality(A) \in Nat /\ Cardinality(D) \in Nat
    BY <1>5, <1>6, FS_CardinalityType
  <2> QED  BY <1>7, <2>1, <2>2, <2>3
<1> QED  BY <1>6, <1>9 DEF Count, A, B, C

-----------------------------------------------------------------------------
(***************************************************************************)
(* What a step does to the lines, once the chain was asked who is there    *)
(***************************************************************************)

\* What the bounds leave.
LeftInv == left \in [connects : Nat, requests : Nat, edits : Nat, losses : Nat, early : Nat]

LEMMA LeftStep == LeftInv /\ [Next]_vars => LeftInv'
<1> SUFFICES ASSUME LeftInv, [Next]_vars PROVE LeftInv'
  OBVIOUS
<1>1. CASE ConnectFails \/ Connect
  BY <1>1 DEF ConnectFails, Connect, LeftInv
<1>2. CASE CloseDevice
  BY <1>2 DEF CloseDevice, counts, LeftInv
<1>3. CASE Edit \/ SetSettings
  <2>1. Early => left.early > 0
    BY <1>3 DEF Edit, SetSettings, MayCall
  <2>2. AfterCall \in [connects : Nat, requests : Nat, edits : Nat, losses : Nat, early : Nat]
    BY <2>1 DEF AfterCall, LeftInv
  <2>3. AfterCall.edits = left.edits
    BY DEF AfterCall, LeftInv
  <2>4. CASE Edit
    <3>1. left.edits > 0 /\ left' = [AfterCall EXCEPT !.edits = @ - 1]
      BY <2>4 DEF Edit
    <3> HIDE DEF AfterCall
    <3>2. left' \in [connects : Nat, requests : Nat, edits : Nat, losses : Nat, early : Nat]
      BY <2>2, <2>3, <3>1
    <3> QED  BY <3>2 DEF LeftInv
  <2>5. CASE SetSettings
    BY <2>2, <2>5 DEF SetSettings, LeftInv
  <2> QED  BY <1>3, <2>4, <2>5
<1>4. CASE RequestSettings
  BY <1>4 DEF RequestSettings, LeftInv
<1>6. CASE Tick \/ TickFails
  BY <1>6 DEF Tick, TickFails, counts, LeftInv
<1>7. CASE Handler
  BY <1>7 DEF Handler, WaitForStartHeader, NewSession, LookForIdentResponse, ReadSettings,
              WriteSettings, WaitFinishWriteSettings, EndBatch, HandlerFrame, counts, LeftInv
<1>8. CASE External
  BY <1>8 DEF External, ChainTakes, ChainReports, Lose, counts, LeftInv
<1>9. CASE UNCHANGED vars
  BY <1>9 DEF vars, counts, LeftInv
<1> QED  BY <1>1, <1>2, <1>3, <1>4, <1>6, <1>7, <1>8, <1>9 DEF Next, Application

LEMMA LeftInvHolds == Spec => []LeftInv
<1>1. Init => LeftInv
  BY SessionAssumption DEF Init, LeftInv
<1> QED  BY <1>1, LeftStep, PTL DEF Spec

\* The steps that ask for no settings.
NoRequest ==
  \/ Edit \/ SetSettings \/ Tick \/ TickFails \/ LookForIdentResponse \/ WriteSettings
  \/ WaitFinishWriteSettings \/ EndBatch \/ UNCHANGED vars

\* An undisturbed session goes on, or begins.
LEMMA StepKinds ==
  ASSUME TypeInv, [Next]_vars, ~lost', ~hasty', State' \notin Unused
  PROVE  \/ /\ WaitForStartHeader /\ Timeus > StartDelay
            /\ State' = "ConnectedWaitIdentResponse"
         \/ /\ State \notin Unused /\ ~lost /\ ~hasty
            /\ NoRequest \/ RequestSettings \/ ReadSettings \/ ChainTakes \/ ChainReports
<1>1. CASE ConnectFails \/ Connect \/ CloseDevice
  BY <1>1 DEF ConnectFails, Connect, CloseDevice, Zeroed, Unused
<1>2. CASE SetSettings
  BY <1>2 DEF SetSettings, Early, NoRequest, Unused
<1>3. CASE Edit \/ RequestSettings
  BY <1>3 DEF Edit, RequestSettings, NoRequest, Unused
<1>4. CASE Tick \/ TickFails
  BY <1>4 DEF Tick, TickFails, counts, NoRequest, Unused
<1>5. CASE WaitForStartHeader
  <2>1. State = "ConnectedWaitForAppStart"
    BY <1>5 DEF WaitForStartHeader, TypeInv, HandlerOK
  <2> QED  BY <1>5, <2>1 DEF WaitForStartHeader, IdentifyChain, Unused
<1>6. CASE LookForIdentResponse \/ ReadSettings \/ WriteSettings \/ WaitFinishWriteSettings
  <2>1. State \notin Unused
    BY <1>6 DEF LookForIdentResponse, ReadSettings, WriteSettings, WaitFinishWriteSettings,
                TypeInv, HandlerOK, Unused
  <2> QED  BY <1>6, <2>1 DEF LookForIdentResponse, ReadSettings, WriteSettings,
                             WaitFinishWriteSettings, HandlerFrame, counts, NoRequest
<1>7. CASE EndBatch \/ UNCHANGED vars
  BY <1>7 DEF EndBatch, HandlerFrame, vars, host, counts, NoRequest, Unused
<1>8. CASE External
  BY <1>8 DEF External, ChainTakes, ChainReports, Lose, host, counts, Unused
<1> QED  BY <1>1, <1>2, <1>3, <1>4, <1>5, <1>6, <1>7, <1>8 DEF Next, Application, Handler

\* A packet that has room is on the line, one that has none is not.
LEMMA SendExact ==
  ASSUME LineType, NEW c \in HostFrames, SendPacket(c), UNCHANGED down
  PROVE  Downlink' = IF HasRoom THEN Downlink \o <<c>> ELSE Downlink
<1>1. PICK d \in Seq(HostFrames), s \in Seq(HostFrames), e \in Seq(HostFrames) :
        d = down /\ s = tx /\ e = <<c>>
  BY OneFrame DEF LineType
<1>2. CASE HasRoom
  <2>1. tx' = s \o e
    BY <1>1, <1>2, AppendIsConcat DEF SendPacket
  <2>2. (d \o s) \o e = d \o (s \o e)
    BY HostAssoc
  <2> QED  BY <1>1, <1>2, <2>1, <2>2 DEF Downlink
<1>3. CASE ~HasRoom
  BY <1>3 DEF SendPacket, Downlink
<1> QED  BY <1>2, <1>3

\* Who knows the chain knows of no bank that is not there.
LEMMA KnownBanks ==
  ASSUME Complete, NEW cl, \A p \in Slots : cl[p].deviceType = ChainList[p].deviceType,
         NEW q \in Known(cl)
  PROVE  q \in Banks
<1>1. q \in Slots /\ q[1] <= LastDevice /\ q[2] < BanksOf[cl[<<q[1], 0>>].deviceType]
  BY DEF Known, NumBanks
<1>2. LastDevice = LastOfChain
  BY DEF Complete, Top
<1>3. q[1] \in 0 .. LastOfChain /\ 0 \in 0 .. MaxDevices - 1
  <2>1. q[1] \in 0 .. 7
    BY <1>1, SlotFields
  <2>2. LastOfChain \in Nat /\ MaxDevices \in 1 .. 8
    BY ConstantFacts
  <2>3. q[1] <= LastOfChain
    BY <1>1, <1>2
  <2> QED  BY ONLY <2>1, <2>2, <2>3
<1>4. BanksOf[Chain[q[1]]] \in 1 .. MaxDevices
  BY <1>3, ConstantFacts, SessionAssumption
<1>5. PICK r \in Banks : r = <<q[1], 0>> /\ r[1] = q[1]
  <2>1. <<q[1], 0>> \in Slots
    BY <1>1, <1>3 DEF Slots
  <2> QED  BY <1>3, <1>4, <2>1, ConstantFacts DEF Banks
<1>6. cl[r].deviceType = Chain[q[1]]
  BY <1>5, ConstantFacts DEF Complete, Told
<1> QED  BY <1>1, <1>3, <1>5, <1>6 DEF Banks

\* What the host is sent to do: it takes frames from one end of the line and puts at most one
\* command on the other.
Sends(c) == Downlink' = IF HasRoom THEN Downlink \o <<c>> ELSE Downlink
Marked == {p \in Slots : ChainList[p].settingsState = "NeedsWrite"}
EchoedFrom == {Target(f) : f \in {g \in Elements(Uplink) : IsA(g, "AA", "WRITE_SETTINGS")}}
WritesPart(c) ==
  IsA(c, "AA", "WRITE_SETTINGS") /\ Target(c) \in Banks /\ Target(c) \in Marked \cup EchoedFrom
Drops == \E g \in Seq(Frames) : Uplink = g \o Uplink'
HostQuiet ==
  /\ Drops
  /\ Downlink' = Downlink \/ \E c \in HostFrames : WritesPart(c) /\ Sends(c)

\* What is on the lines once the chain is known: settings only, and of banks that are there.
CmdInv ==
  ~lost /\ ~hasty =>
    /\ State = "ConnectedWaitIdentResponse" => \A f \in Elements(Downlink) : f.cmd # "START"
    /\ Identified =>
         /\ \A f \in Elements(Downlink) : f.cmd \in {"READ_SETTINGS", "WRITE_SETTINGS"}
         /\ \A f \in Elements(Downlink) \cup Elements(Uplink) :
              IsA(f, "AA", "WRITE_SETTINGS") => Target(f) \in Banks

LEMMA StartWriteExact ==
  ASSUME LineType, UNCHANGED down, Complete,
         NEW cl \in [Slots -> ChipInfo], StartWriteSettings(cl),
         \A p \in Slots : cl[p].deviceType = ChainList[p].deviceType,
         \A p \in Slots : cl[p].settingsState = "NeedsWrite" => p \in Marked
  PROVE  \/ State' = "Connected" /\ Downlink' = Downlink
         \/ \E c \in HostFrames :
              /\ State' = "ConnectedWaitWriteSettings" /\ WritesPart(c) /\ Sends(c)
<1>1. CASE NeedsWrite(cl) = {} /\ State' = "Connected" /\ UNCHANGED tx
  BY <1>1 DEF Downlink
<1>2. ASSUME NEW q \in Slots, q \in NeedsWrite(cl), State' = "ConnectedWaitWriteSettings",
             SendPacket(WriteCommand(q, 0, cl))
      PROVE  \E c \in HostFrames :
               /\ State' = "ConnectedWaitWriteSettings" /\ WritesPart(c) /\ Sends(c)
  <2>1. PICK c \in HostFrames :
          /\ c = WriteCommand(q, 0, cl) /\ Target(c) = q
          /\ c.cmd = "WRITE_SETTINGS" /\ c.sof = "AA"
    BY WriteCommandType, ConstantFacts
  <2>2. q \in Banks
    BY <1>2, KnownBanks DEF NeedsWrite
  <2>3. Sends(c)
    BY <1>2, <2>1, SendExact DEF Sends
  <2>4. q \in Marked
    BY <1>2 DEF NeedsWrite
  <2> QED  BY <1>2, <2>1, <2>2, <2>3, <2>4 DEF WritesPart, IsA
<1> QED  BY <1>1, <1>2, StartWrite

LEMMA FinishWriteExact ==
  ASSUME LineType, UNCHANGED down, Complete,
         NEW cl \in [Slots -> ChipInfo], FinishWrite(cl),
         \A p \in Slots : cl[p].deviceType = ChainList[p].deviceType,
         \A p \in Slots : cl[p].settingsState = "NeedsWrite" => p \in Marked
  PROVE  \/ State' # "ConnectedWaitWriteSettings" /\ Downlink' = Downlink
         \/ \E c \in HostFrames : WritesPart(c) /\ Sends(c)
BY StartWriteExact DEF FinishWrite, Downlink

\* The echo that a handler is at.
LEMMA EchoHandled ==
  ASSUME NEW f \in HostFrames, f.cmd = "WRITE_SETTINGS", WriteEffect(f)
  PROVE  f \in Elements(Uplink) /\ IsA(f, "AA", "WRITE_SETTINGS")
<1>1. f \in Frames /\ IsA(f, "AA", "WRITE_SETTINGS")
  BY HostFrameFacts DEF IsA
<1>2. PICK u \in Seq(Frames) : Uplink = <<f>> \o u
  BY DEF WriteEffect
<1>3. Elements(Uplink) = {f} \cup Elements(u)
  BY <1>1, <1>2, HeadOnLine
<1> QED  BY <1>1, <1>3

\* An echo that is handled lets the host send another part, or no more.
LEMMA WriteExact ==
  ASSUME TypeInv, Complete, NEW f \in HostFrames, WriteEffect(f), Target(f) \in Banks, TypeInv',
         f.cmd = "WRITE_SETTINGS"
  PROVE  \/ State' # "ConnectedWaitWriteSettings" /\ Downlink' = Downlink
         \/ \E c \in HostFrames : WritesPart(c) /\ Sends(c)
<1> USE DEF TypeInv
<1>1. PICK p \in Banks : p = Target(f) /\ p \in Slots
  BY ConstantFacts
<1>2. UNCHANGED down
  BY DEF WriteEffect
<1>3. CASE /\ FinishWrite(ChainList') /\ ChainList'[p].deviceType = ChainList[p].deviceType
           /\ ChainList'[p].settingsState = "Valid"
           /\ \A q \in Slots : q # p => ChainList'[q] = ChainList[q]
  <2>1. \A q \in Slots : ChainList'[q].deviceType = ChainList[q].deviceType
    BY <1>3
  <2>2. ChainList' \in [Slots -> ChipInfo]
    BY DEF HostType
  <2>3. \A q \in Slots : ChainList'[q].settingsState = "NeedsWrite" => q \in Marked
    BY <1>3 DEF Marked
  <2> QED  BY <1>2, <1>3, <2>1, <2>2, <2>3, FinishWriteExact
<1>4. CASE SendPacket(WriteCommand(p, f.part + 1, ChainList)) /\ f.part + 1 \in Parts
  <2>1. PICK c \in HostFrames :
          /\ c = WriteCommand(p, f.part + 1, ChainList) /\ Target(c) = p
          /\ c.cmd = "WRITE_SETTINGS" /\ c.sof = "AA"
    BY <1>1, <1>4, WriteCommandType DEF HostType
  <2>2. Sends(c)
    BY <1>2, <1>4, <2>1, SendExact DEF Sends
  <2>3. p \in EchoedFrom
    BY <1>1, EchoHandled DEF EchoedFrom
  <2> QED  BY <1>1, <2>1, <2>2, <2>3 DEF WritesPart, IsA
<1> QED  BY <1>1, <1>3, <1>4 DEF WriteEffect

LEMMA NothingDropped ==
  ASSUME LineType, Uplink' = Uplink
  PROVE  Drops
<1>1. PICK u \in Seq(Frames) : u = Uplink /\ <<>> \o u = u
  BY LineSeqs, ConcatEmptySeq DEF LinesTyped
<1> QED  BY <1>1, EmptySeq DEF Drops

LEMMA HeadDropped ==
  ASSUME LineType, handler # "none", next <= Len(rx), Continue, UNCHANGED up
  PROVE  Drops
<1>1. PICK e \in Seq(Frames) : e = <<rx[next]>> /\ Uplink = e \o Uplink'
  BY ContinueLine, OneFrame
<1> QED  BY <1>1 DEF Drops

LEMMA BatchDropped ==
  ASSUME LineType, Return, UNCHANGED up
  PROVE  Drops
<1>1. Uplink' = up /\ Pending \in Seq(Frames)
  BY ReturnLine, LineSeqs DEF LinesTyped
<1> QED  BY <1>1 DEF Drops, Uplink

LEMMA QuietEffect ==
  ASSUME LinesInv, LinesInv', IdentInv, CmdInv, LeftInv, NoRequest,
         ~lost, ~hasty, ~hasty', State \notin Unused
  PROVE  HostQuiet /\ left'.requests = left.requests
<1> USE DEF LinesInv, TypeInv
<1>1. CASE Edit
  <2>1. Uplink' = Uplink /\ Downlink' = Downlink
    BY <1>1, EditTypes
  <2>2. left'.requests = left.requests
    <3>1. left' = [AfterCall EXCEPT !.edits = @ - 1]
      BY <1>1 DEF Edit
    <3> QED  BY <3>1 DEF AfterCall, LeftInv
  <2> QED  BY <2>1, <2>2, NothingDropped DEF HostQuiet
<1>2. CASE SetSettings
  <2>1. /\ State = "Connected" /\ UNCHANGED <<rx, next, handler, up, down>>
        /\ StartWriteSettings(ChainList)
    BY <1>2 DEF SetSettings, Early, batch
  <2>2. Uplink' = Uplink
    BY <2>1 DEF Uplink, Pending
  <2>3. left'.requests = left.requests
    BY <1>2 DEF SetSettings, AfterCall, LeftInv
  <2>4. Complete
    BY <2>1 DEF IdentInv, Identified, States
  <2>5. Downlink' = Downlink \/ \E c \in HostFrames : WritesPart(c) /\ Sends(c)
    BY <2>1, <2>4, StartWriteExact DEF HostType, Marked
  <2> QED  BY <2>2, <2>3, <2>5, NothingDropped DEF HostQuiet
<1>3. CASE Tick \/ TickFails \/ UNCHANGED vars
  <2>1. Uplink' = Uplink /\ Downlink' = Downlink /\ UNCHANGED left
    BY <1>3, TickTypes DEF Tick, TickFails, counts, vars, batch, Uplink, Pending, Downlink
  <2> QED  BY <2>1, NothingDropped DEF HostQuiet
<1>4. CASE LookForIdentResponse
  <2>1. /\ handler # "none" /\ next <= Len(rx) /\ Continue /\ UNCHANGED <<up, left>>
        /\ Downlink' = Downlink
    BY <1>4, LookForIdentTypes DEF LookForIdentResponse, HandlerFrame, counts
  <2> QED  BY <2>1, HeadDropped DEF HostQuiet
<1>5. CASE WriteSettings
  <2>1. /\ handler # "none" /\ next <= Len(rx) /\ Continue /\ UNCHANGED <<up, left>>
        /\ Complete
    BY <1>5 DEF WriteSettings, HandlerFrame, counts, HandlerOK, IdentInv, Identified, States
  <2>2. ASSUME NEW f \in HostFrames, f.cmd = "WRITE_SETTINGS", WriteEffect(f)
        PROVE  Downlink' = Downlink \/ \E c \in HostFrames : WritesPart(c) /\ Sends(c)
    <3>1. f \in Elements(Uplink) /\ IsA(f, "AA", "WRITE_SETTINGS")
      BY <2>2, EchoHandled
    <3>2. Target(f) \in Banks
      BY <1>5, <3>1 DEF CmdInv, WriteSettings, HandlerOK, Identified, States
    <3> QED  BY <2>1, <2>2, <3>2, WriteExact
  <2> QED  BY <1>5, <2>1, <2>2, HeadDropped, WriteSettingsTypes DEF HostQuiet
<1>6. CASE WaitFinishWriteSettings
  <2>1. /\ FinishWrite(ChainList) /\ Return /\ UNCHANGED <<up, down, left>>
        /\ Complete
    BY <1>6 DEF WaitFinishWriteSettings, HandlerFrame, counts, HandlerOK, IdentInv, Identified,
                States
  <2>2. Downlink' = Downlink \/ \E c \in HostFrames : WritesPart(c) /\ Sends(c)
    BY <2>1, FinishWriteExact DEF HostType, Marked
  <2> QED  BY <2>1, <2>2, BatchDropped DEF HostQuiet
<1>7. CASE EndBatch
  <2>1. Return /\ UNCHANGED <<up, left>> /\ Downlink' = Downlink
    BY <1>7, EndBatchTypes DEF EndBatch, HandlerFrame, counts
  <2> QED  BY <2>1, BatchDropped DEF HostQuiet
<1> QED  BY <1>1, <1>2, <1>3, <1>4, <1>5, <1>6, <1>7 DEF NoRequest

\* Frames that are looked at are gone, and no other ones come.
LEMMA DroppedLine ==
  ASSUME LinesTyped, LinesTyped', Drops, NEW sof, NEW cmd
  PROVE  /\ Elements(Uplink') \subseteq Elements(Uplink)
         /\ Count(Uplink', sof, cmd) <= Count(Uplink, sof, cmd)
<1>1. PICK g \in Seq(Frames), u \in Seq(Frames) : u = Uplink' /\ Uplink = g \o u
  BY DEF Drops, LinesTyped
<1>2. Elements(g \o u) = Elements(g) \cup Elements(u)
  BY ElementsConcat
<1>3. Count(g \o u, sof, cmd) = Count(g, sof, cmd) + Count(u, sof, cmd)
  BY CountConcat
<1>4. Count(g, sof, cmd) \in Nat /\ Count(u, sof, cmd) \in Nat
  BY CountType
<1> QED  BY <1>1, <1>2, <1>3, <1>4

\* What is sent is on the line if there is room; there is one more of its kind at most.
LEMMA SentLine ==
  ASSUME LinesTyped, NEW c \in HostFrames, Sends(c), NEW sof, NEW cmd
  PROVE  /\ Elements(Downlink') \subseteq Elements(Downlink) \cup {c}
         /\ HasRoom => Elements(Downlink') = Elements(Downlink) \cup {c}
         /\ ~IsA(c, sof, cmd) => Count(Downlink', sof, cmd) = Count(Downlink, sof, cmd)
         /\ Count(Downlink', sof, cmd) <= Count(Downlink, sof, cmd) + 1
<1>1. PICK d \in Seq(HostFrames), e \in Seq(HostFrames) :
        /\ d = Downlink /\ e = <<c>> /\ Elements(e) = {c} /\ Single(e, sof, cmd)
        /\ None(e, sof, cmd) <=> ~IsA(c, sof, cmd)
  BY OneFrame DEF LinesTyped
<1>2. Elements(d \o e) = Elements(d) \cup Elements(e)
  BY ElementsConcat
<1>3. Count(d \o e, sof, cmd) = Count(d, sof, cmd) + Count(e, sof, cmd)
  BY CountConcat
<1>4. /\ Count(d, sof, cmd) \in Nat /\ Count(e, sof, cmd) \in Nat /\ Count(e, sof, cmd) <= 1
      /\ None(e, sof, cmd) => Count(e, sof, cmd) = 0
  BY <1>1, CountType
<1>5. CASE HasRoom
  <2>1. Downlink' = d \o e
    BY <1>1, <1>5 DEF Sends
  <2>2. Elements(Downlink') = Elements(Downlink) \cup {c}
    BY <1>1, <1>2, <2>1
  <2>3. Count(Downlink', sof, cmd) = Count(Downlink, sof, cmd) + Count(e, sof, cmd)
    BY <1>1, <1>3, <2>1
  <2>4. Count(Downlink, sof, cmd) \in Nat
    BY <1>1, <1>4
  <2>5. ~IsA(c, sof, cmd) => Count(e, sof, cmd) = 0
    BY <1>1, <1>4
  <2> QED  BY <1>4, <2>2, <2>3, <2>4, <2>5
<1>6. CASE ~HasRoom
  <2>1. Downlink' = d
    BY <1>1, <1>6 DEF Sends
  <2>2. Count(Downlink', sof, cmd) = Count(d, sof, cmd)
    BY <2>1
  <2>3. Count(d, sof, cmd) <= Count(d, sof, cmd) + 1
    BY <1>4
  <2> QED  BY <1>1, <1>6, <2>1, <2>2, <2>3
<1> QED  BY <1>5, <1>6

\* The answer to a READ is handled: the next READ is sent.
LEMMA ReadExact ==
  ASSUME TypeInv, ReadSettings,
         NEW f \in AnswerFrames, f.cmd = "READ_SETTINGS", ReadEffect(f)
  PROVE  \E c \in HostFrames :
           /\ c = ReadNext(Source(f), f.part, ChainList) /\ Sends(c)
           /\ IsA(c, "AA", "READ_SETTINGS")
<1>1. PICK c \in HostFrames : /\ c = ReadNext(Source(f), f.part, ChainList)
                              /\ c.sof = "AA" /\ c.cmd = "READ_SETTINGS"
  BY AnswerFacts, ReadNextType
<1>2. f = rx[next] /\ IsReadAnswer(rx[next])
  BY AnswerFacts DEF ReadEffect, IsReadAnswer
<1>3. SendPacket(ReadNext(<<rx[next].device, rx[next].bank>>, rx[next].part, ChainList))
  BY <1>2 DEF ReadSettings
<1>4. SendPacket(c) /\ UNCHANGED down
  BY <1>1, <1>2, <1>3 DEF Source, ReadSettings, HandlerFrame
<1> QED  BY <1>1, <1>4, SendExact DEF TypeInv, Sends, IsA

\* The first READ of a reading is for the first bank.
LEMMA RequestExact ==
  ASSUME TypeInv, RequestSettings
  PROVE  \E c \in HostFrames :
           /\ Sends(c) /\ IsA(c, "AA", "READ_SETTINGS") /\ Target(c) = <<0, 0>>
           /\ Uplink' = Uplink
<1>1. /\ SendPacket(ReadCommand(<<0, 0>>, 0)) /\ UNCHANGED <<batch, down, up>>
      /\ UNCHANGED <<rx, next, handler>>
  BY DEF RequestSettings, StartReadSettings, batch
<1>2. PICK c \in HostFrames :
        /\ c = ReadCommand(<<0, 0>>, 0) /\ c.sof = "AA" /\ c.cmd = "READ_SETTINGS"
        /\ Target(c) = <<0, 0>>
  <2>1. /\ <<0, 0>>[1] \in Nat /\ <<0, 0>>[2] \in 0 .. 8 /\ 0 \in Parts
        /\ <<0, 0>> \in Slots
    BY ConstantFacts, TopIsLast
  <2> QED  BY <2>1, ReadCommandType
<1>3. Sends(c)
  BY <1>1, <1>2, SendExact DEF TypeInv, Sends
<1>4. Uplink' = Uplink
  BY <1>1 DEF Uplink, Pending
<1> QED  BY <1>2, <1>3, <1>4 DEF IsA

\* The identification ends with an answer, and nothing else is then on the lines.
LEMMA IdentifiedBy ==
  ASSUME TypeInv, NoRequest, ~hasty', State = "ConnectedWaitIdentResponse",
         State' # "ConnectedWaitIdentResponse"
  PROVE  LookForIdentResponse
<1>1. handler \in {"ConnectedWaitIdentResponse", "none"}
  BY DEF TypeInv, HandlerOK, HostType, States
<1>2. ~Edit /\ ~Tick /\ ~TickFails /\ ~EndBatch /\ ~(UNCHANGED vars)
  BY DEF Edit, Tick, TickFails, EndBatch, vars, host
<1>3. ~SetSettings
  BY DEF SetSettings, Early
<1>4. ~WriteSettings /\ ~WaitFinishWriteSettings
  BY <1>1 DEF WriteSettings, WaitFinishWriteSettings
<1> QED  BY <1>2, <1>3, <1>4 DEF NoRequest

LEMMA CmdStep ==
  ASSUME LinesInv, LinesInv', IdentInv, IdentInv', CmdInv, LeftInv, [Next]_vars
  PROVE  CmdInv'
<1> USE DEF LinesInv, TypeInv
<1>1. LinesTyped /\ LinesTyped'
  BY LineSeqs, LineSeqsNext
<1>2. CASE ~(~lost' /\ ~hasty' /\ State' \notin Unused)
  BY <1>2 DEF CmdInv, Identified, Unused
<1>3. CASE WaitForStartHeader /\ Timeus > StartDelay /\ State' = "ConnectedWaitIdentResponse"
  <2>1. PICK c \in HostFrames : c = ToAll("IDENTIFY") /\ c.cmd = "IDENTIFY"
    BY ToAllType
  <2>2. SendPacket(c) /\ UNCHANGED down
    BY <1>3, <2>1 DEF WaitForStartHeader, IdentifyChain
  <2>3. Elements(Downlink) = {}
    BY <1>3 DEF WaitForStartHeader, QuietInv
  <2>4. Elements(Downlink') \subseteq {c}
    BY <1>1, <2>2, <2>3, SendExact, SentLine DEF Sends
  <2> QED  BY <1>3, <2>1, <2>4 DEF CmdInv, Identified
<1>4. ASSUME ~lost, ~hasty, ~hasty', State \notin Unused, NoRequest
      PROVE  CmdInv'
  <2>1. HostQuiet
    BY <1>4, QuietEffect
  <2>2. Elements(Uplink') \subseteq Elements(Uplink)
    BY <1>1, <2>1, DroppedLine DEF HostQuiet
  <2>3. \A f \in Elements(Downlink') : f \in Elements(Downlink) \/ WritesPart(f)
    <3>1. CASE Downlink' = Downlink
      BY <3>1
    <3>2. ASSUME NEW c \in HostFrames, WritesPart(c), Sends(c)
          PROVE  \A f \in Elements(Downlink') : f \in Elements(Downlink) \/ WritesPart(f)
      BY <1>1, <3>2, SentLine
    <3> QED  BY <2>1, <3>1, <3>2 DEF HostQuiet
  <2>4. \A f : WritesPart(f) => /\ f.cmd = "WRITE_SETTINGS" /\ Target(f) \in Banks
    BY DEF WritesPart, IsA
  <2>5. CASE State = "ConnectedWaitIdentResponse" /\ State' # "ConnectedWaitIdentResponse"
    <3>1. LookForIdentResponse
      BY <1>4, <2>5, IdentifiedBy
    <3>2. NoIdents' \/ lost'
      <4>1. Identified'
        BY <1>4, <2>5, <3>1, LookForIdentTypes
           DEF Identified, LookForIdentResponse, HostType, FinalAnswer
      <4>2. handler' = "ConnectedWaitIdentResponse"
        BY <3>1 DEF LookForIdentResponse, Continue
      <4> QED  BY <1>4, <4>1, <4>2 DEF IdentInv
    <3>3. Downlink' = Downlink
      BY <3>1, LookForIdentTypes
    <3>4. NoWrites
      BY <1>4, <2>5 DEF WritesInv, QuietStates
    <3>5. \A f \in Elements(Downlink) \cup Elements(Uplink) : ~IsA(f, "AA", "WRITE_SETTINGS")
      BY <3>4, NoneOf DEF NoWrites
    <3>6. \A f \in Elements(Downlink) : f.cmd # "START"
      BY <1>4, <2>5 DEF CmdInv
    <3>7. NoIdents' => \A f \in Elements(Downlink) : f.cmd # "IDENTIFY"
      <4>1. Elements(Downlink) \subseteq HostFrames
        BY <1>1, SeqFacts DEF LinesTyped
      <4>2. NoIdents' => \A f \in Elements(Downlink) : ~IsA(f, "AA", "IDENTIFY")
        BY <3>3, NoneOf DEF NoIdents
      <4> QED  BY <4>1, <4>2, HostFrameFacts DEF IsA
    <3>8. \A f \in Elements(Downlink) : f.cmd \in Cmds
      <4>1. Elements(Downlink) \subseteq HostFrames
        BY <1>1, SeqFacts DEF LinesTyped
      <4> QED  BY <4>1, HostFrameFacts
    <3>9. NoIdents' => \A f \in Elements(Downlink) : f.cmd \in {"READ_SETTINGS", "WRITE_SETTINGS"}
      BY <3>6, <3>7, <3>8 DEF Cmds
    <3> QED  BY <2>2, <2>5, <3>2, <3>3, <3>5, <3>9 DEF CmdInv
  <2>6. CASE ~(State = "ConnectedWaitIdentResponse" /\ State' # "ConnectedWaitIdentResponse")
    <3>1. Identified' => Identified
      BY <1>4, <2>6 DEF Identified, Unused, HostType
    <3>2. State' = "ConnectedWaitIdentResponse" =>
            \/ State = "ConnectedWaitIdentResponse"
            \/ Identified
      BY <1>4 DEF Identified, Unused, HostType
    <3>3. \A f \in Elements(Downlink) : f.cmd # "START" \/ ~(Identified \/ State = "ConnectedWaitIdentResponse")
      BY <1>4 DEF CmdInv
    <3>4. State' = "ConnectedWaitIdentResponse" => \A f \in Elements(Downlink') : f.cmd # "START"
      BY <2>3, <2>4, <3>2, <3>3
    <3>5. Identified => \A f \in Elements(Downlink') : f.cmd \in {"READ_SETTINGS", "WRITE_SETTINGS"}
      BY <1>4, <2>3, <2>4 DEF CmdInv
    <3>6. Identified => \A f \in Elements(Downlink') \cup Elements(Uplink') :
                          IsA(f, "AA", "WRITE_SETTINGS") => Target(f) \in Banks
      BY <1>4, <2>2, <2>3, <2>4 DEF CmdInv
    <3> QED  BY <3>1, <3>4, <3>5, <3>6 DEF CmdInv
  <2> QED  BY <2>5, <2>6
<1>5. ASSUME ~lost, ~hasty, RequestSettings \/ ReadSettings PROVE CmdInv'
  <2>1. Identified /\ State' # "ConnectedWaitIdentResponse"
    BY <1>5 DEF RequestSettings, StartReadSettings, ReadSettings, HandlerOK, Identified, States
  <2>2. \/ Elements(Downlink') \subseteq Elements(Downlink)
        \/ \E c \in HostFrames : /\ Elements(Downlink') \subseteq Elements(Downlink) \cup {c}
                                 /\ c.cmd = "READ_SETTINGS"
    <3>1. ASSUME NEW c \in HostFrames, Sends(c), IsA(c, "AA", "READ_SETTINGS")
          PROVE  Elements(Downlink') \subseteq Elements(Downlink) \cup {c} /\ c.cmd = "READ_SETTINGS"
      BY <1>1, <3>1, SentLine DEF IsA
    <3>2. CASE RequestSettings
      BY <3>1, <3>2, RequestExact
    <3>3. CASE ReadSettings
      BY <3>1, <3>3, ReadExact, ReadSettingsTypes
    <3> QED  BY <1>5, <3>2, <3>3
  <2>3. Elements(Uplink') \subseteq Elements(Uplink)
    <3>1. CASE RequestSettings
      BY <3>1, RequestExact
    <3>2. CASE ReadSettings
      <4>1. handler # "none" /\ next <= Len(rx) /\ Continue /\ UNCHANGED up
        BY <3>2 DEF ReadSettings, HandlerFrame
      <4> QED  BY <1>1, <4>1, HeadDropped, DroppedLine
    <3> QED  BY <1>5, <3>1, <3>2
  <2>4. \A f \in Elements(Downlink') : f \in Elements(Downlink) \/ f.cmd = "READ_SETTINGS"
    BY <2>2
  <2>5. \A f : f.cmd = "READ_SETTINGS" => ~IsA(f, "AA", "WRITE_SETTINGS")
    BY DEF IsA
  <2> QED  BY <1>5, <2>1, <2>3, <2>4, <2>5 DEF CmdInv
<1>6. ASSUME ~lost, ~hasty, ChainTakes PROVE CmdInv'
  <2>1. UNCHANGED State
    BY <1>6, ChainTakesTypes DEF host
  <2>2. PICK f \in HostFrames :
          /\ f \in Elements(Downlink) /\ Elements(Downlink') \subseteq Elements(Downlink)
          /\ \A g \in Elements(Uplink') :
               g \in Elements(Uplink) \/ g = f \/ g \in Elements(AnswersTo(f))
    BY <1>6, TakenOnLines
  <2>3. \A g \in Elements(AnswersTo(f)) : ~IsA(g, "AA", "WRITE_SETTINGS")
    BY AnswersOf DEF IsA
  <2> QED  BY <1>6, <2>1, <2>2, <2>3 DEF CmdInv, Identified
<1>7. ASSUME ~lost, ~hasty, ChainReports PROVE CmdInv'
  <2>1. UNCHANGED State /\ Downlink' = Downlink
    BY <1>7, ChainReportsTypes DEF host
  <2>2. PICK f \in AnswerFrames : Uplink' = Uplink \o <<f>>
    BY <1>7, ChainReportsTypes
  <2>3. Elements(Uplink') = Elements(Uplink) \cup {f}
    <3>1. PICK u \in Seq(Frames), e \in Seq(Frames) :
            u = Uplink /\ e = <<f>> /\ Elements(e) = {f}
      BY <1>1, AnswerFacts, OneFrame DEF LinesTyped
    <3>2. Elements(u \o e) = Elements(u) \cup Elements(e)
      BY ElementsConcat
    <3> QED  BY <2>2, <3>1, <3>2
  <2>4. ~IsA(f, "AA", "WRITE_SETTINGS")
    BY AnswerFacts DEF IsA
  <2> QED  BY <1>7, <2>1, <2>3, <2>4 DEF CmdInv, Identified
<1> QED  BY <1>2, <1>3, <1>4, <1>5, <1>6, <1>7, StepKinds

\* An application that gives a bank in the bootloader no settings: nothing is written to one.
SparesBootloader == \A p \in InBootloader : ChainList[p].settingsState # "NeedsWrite"
BootInv ==
  ~lost /\ ~hasty /\ Identified =>
    \A f \in Elements(Downlink) \cup Elements(Uplink) :
      IsA(f, "AA", "WRITE_SETTINGS") => Target(f) \notin InBootloader

LEMMA BootStep ==
  ASSUME LinesInv, LinesInv', IdentInv, CmdInv, LeftInv, SparesBootloader, BootInv, [Next]_vars
  PROVE  BootInv'
<1> USE DEF LinesInv, TypeInv
<1>1. LinesTyped /\ LinesTyped'
  BY LineSeqs, LineSeqsNext
<1> SUFFICES ASSUME ~lost', ~hasty', Identified' PROVE BootInv'
  BY DEF BootInv
<1>2. State' \notin Unused
  BY DEF Identified, Unused
<1> DEFINE spared(f) == IsA(f, "AA", "WRITE_SETTINGS") => Target(f) \notin InBootloader
<1>3. SUFFICES \A f \in Elements(Downlink') \cup Elements(Uplink') : spared(f)
  BY DEF BootInv
<1>4. CASE WaitForStartHeader /\ Timeus > StartDelay /\ State' = "ConnectedWaitIdentResponse"
  BY <1>4 DEF Identified
<1>5. ASSUME ~lost, ~hasty, State \notin Unused
      PROVE  \A f \in Elements(Downlink) \cup Elements(Uplink) : spared(f)
  <2>1. CASE Identified
    BY <1>5, <2>1 DEF BootInv
  <2>2. CASE State = "ConnectedWaitIdentResponse"
    <3>1. NoWrites
      BY <1>5, <2>2 DEF WritesInv, QuietStates
    <3> QED  BY <3>1, NoneOf DEF NoWrites
  <2> QED  BY <1>5, <2>1, <2>2 DEF Identified, Unused, HostType
<1>6. ASSUME ~lost, ~hasty, State \notin Unused, NoRequest
      PROVE  \A f \in Elements(Downlink') \cup Elements(Uplink') : spared(f)
  <2>1. HostQuiet
    BY <1>6, QuietEffect
  <2>2. Elements(Uplink') \subseteq Elements(Uplink)
    BY <1>1, <2>1, DroppedLine DEF HostQuiet
  <2>3. \A f : WritesPart(f) => spared(f)
    <3> SUFFICES ASSUME NEW f, WritesPart(f), Target(f) \in InBootloader PROVE FALSE
      OBVIOUS
    <3>1. CASE Target(f) \in Marked
      BY <3>1 DEF Marked, SparesBootloader
    <3>2. CASE Target(f) \in EchoedFrom
      <4>1. PICK g \in Elements(Uplink) : IsA(g, "AA", "WRITE_SETTINGS") /\ Target(g) = Target(f)
        BY <3>2 DEF EchoedFrom
      <4> QED  BY <1>5, <1>6, <4>1
    <3> QED  BY <3>1, <3>2 DEF WritesPart
  <2>4. \A f \in Elements(Downlink') : f \in Elements(Downlink) \/ WritesPart(f)
    <3>1. CASE Downlink' = Downlink
      BY <3>1
    <3>2. ASSUME NEW c \in HostFrames, WritesPart(c), Sends(c)
          PROVE  \A f \in Elements(Downlink') : f \in Elements(Downlink) \/ WritesPart(f)
      BY <1>1, <3>2, SentLine
    <3> QED  BY <2>1, <3>1, <3>2 DEF HostQuiet
  <2> HIDE DEF spared
  <2> QED  BY <1>5, <1>6, <2>2, <2>3, <2>4
<1>7. ASSUME ~lost, ~hasty, State \notin Unused, RequestSettings \/ ReadSettings
      PROVE  \A f \in Elements(Downlink') \cup Elements(Uplink') : spared(f)
  <2>1. Elements(Uplink') \subseteq Elements(Uplink)
    <3>1. CASE RequestSettings
      BY <3>1, RequestExact
    <3>2. CASE ReadSettings
      <4>1. handler # "none" /\ next <= Len(rx) /\ Continue /\ UNCHANGED up
        BY <3>2 DEF ReadSettings, HandlerFrame
      <4> QED  BY <1>1, <4>1, HeadDropped, DroppedLine
    <3> QED  BY <1>7, <3>1, <3>2
  <2>2. \A f \in Elements(Downlink') : f \in Elements(Downlink) \/ IsA(f, "AA", "READ_SETTINGS")
    <3>1. ASSUME NEW c \in HostFrames, Sends(c), IsA(c, "AA", "READ_SETTINGS")
          PROVE  \A f \in Elements(Downlink') :
                   f \in Elements(Downlink) \/ IsA(f, "AA", "READ_SETTINGS")
      BY <1>1, <3>1, SentLine
    <3>2. CASE RequestSettings
      BY <3>1, <3>2, RequestExact
    <3>3. CASE ReadSettings
      BY <3>1, <3>3, ReadExact, ReadSettingsTypes
    <3> QED  BY <1>7, <3>2, <3>3
  <2>3. \A f : IsA(f, "AA", "READ_SETTINGS") => spared(f)
    BY DEF IsA
  <2> HIDE DEF spared
  <2> QED  BY <1>5, <1>7, <2>1, <2>2, <2>3
<1>8. ASSUME ~lost, ~hasty, State \notin Unused, ChainTakes
      PROVE  \A f \in Elements(Downlink') \cup Elements(Uplink') : spared(f)
  <2>1. PICK f \in HostFrames :
          /\ f \in Elements(Downlink) /\ Elements(Downlink') \subseteq Elements(Downlink)
          /\ \A g \in Elements(Uplink') :
               g \in Elements(Uplink) \/ g = f \/ g \in Elements(AnswersTo(f))
    BY <1>8, TakenOnLines
  <2>2. \A g \in Elements(AnswersTo(f)) : spared(g)
    BY AnswersOf DEF IsA
  <2> HIDE DEF spared
  <2> QED  BY <1>5, <1>8, <2>1, <2>2
<1>9. ASSUME ~lost, ~hasty, State \notin Unused, ChainReports
      PROVE  \A f \in Elements(Downlink') \cup Elements(Uplink') : spared(f)
  <2>1. Downlink' = Downlink
    BY <1>9, ChainReportsTypes
  <2>2. PICK f \in AnswerFrames : Uplink' = Uplink \o <<f>>
    BY <1>9, ChainReportsTypes
  <2>3. Elements(Uplink') = Elements(Uplink) \cup {f}
    <3>1. PICK u \in Seq(Frames), e \in Seq(Frames) :
            u = Uplink /\ e = <<f>> /\ Elements(e) = {f}
      BY <1>1, AnswerFacts, OneFrame DEF LinesTyped
    <3>2. Elements(u \o e) = Elements(u) \cup Elements(e)
      BY ElementsConcat
    <3> QED  BY <2>2, <3>1, <3>2
  <2>4. spared(f)
    BY AnswerFacts DEF IsA
  <2> HIDE DEF spared
  <2> QED  BY <1>5, <1>9, <2>1, <2>3, <2>4
<1> HIDE DEF spared
<1> QED  BY <1>2, <1>4, <1>6, <1>7, <1>8, <1>9, StepKinds

LEMMA CmdInvHolds == Spec => [](LinesInv /\ IdentInv /\ LeftInv /\ CmdInv)
<1>1. Init => CmdInv
  BY DEF Init, CmdInv, Identified
<1> QED  BY <1>1, CmdStep, LinesInvHolds, IdentInvHolds, LeftInvHolds, PTL DEF Spec

\* Nothing makes more requests of what is left of them.
LEMMA RequestsLeft ==
  ASSUME LeftInv, [Next]_vars
  PROVE  left'.requests <= left.requests
<1> USE DEF LeftInv
<1>1. CASE ConnectFails \/ Connect
  BY <1>1 DEF ConnectFails, Connect
<1>2. CASE CloseDevice \/ Tick \/ TickFails
  BY <1>2 DEF CloseDevice, Tick, TickFails, counts
<1>3. CASE Edit
  <2>1. left' = [AfterCall EXCEPT !.edits = @ - 1]
    BY <1>3 DEF Edit
  <2> QED  BY <2>1 DEF AfterCall
<1>4. CASE SetSettings
  BY <1>4 DEF SetSettings, AfterCall
<1>5. CASE RequestSettings
  BY <1>5 DEF RequestSettings
<1>6. CASE Handler
  BY <1>6 DEF Handler, WaitForStartHeader, NewSession, LookForIdentResponse, ReadSettings,
              WriteSettings, WaitFinishWriteSettings, EndBatch, HandlerFrame, counts
<1>7. CASE External
  BY <1>7 DEF External, ChainTakes, ChainReports, Lose, counts
<1>8. CASE UNCHANGED vars
  BY <1>8 DEF vars, counts
<1> QED  BY <1>1, <1>2, <1>3, <1>4, <1>5, <1>6, <1>7, <1>8 DEF Next, Application

-----------------------------------------------------------------------------
(***************************************************************************)
(* txfifo always has room                                                  *)
(***************************************************************************)

\* A READ or the answer to it is there for each request at most, and so they do not fill
\* txfifo.
Reads == Count(Downlink, "AA", "READ_SETTINGS") + Count(Uplink, "55", "READ_SETTINGS")
LoadInv ==
  /\ left.requests < TxMax
  /\ ~lost /\ ~hasty /\ State \notin Unused => Reads + left.requests < TxMax

LEMMA LoadTypes ==
  LinesTyped => /\ Count(Downlink, "AA", "READ_SETTINGS") \in Nat
                /\ Count(Uplink, "55", "READ_SETTINGS") \in Nat
BY CountType DEF LinesTyped

LEMMA LoadTypesNext ==
  LinesTyped' => /\ Count(Downlink', "AA", "READ_SETTINGS") \in Nat
                 /\ Count(Uplink', "55", "READ_SETTINGS") \in Nat
BY CountType DEF LinesTyped

LEMMA LoadStep ==
  ASSUME LinesInv, LinesInv', IdentInv, CmdInv, LeftInv, LeftInv', LoadInv, [Next]_vars
  PROVE  LoadInv'
<1> USE DEF LinesInv, TypeInv
<1>1. LinesTyped /\ LinesTyped'
  BY LineSeqs, LineSeqsNext
<1> DEFINE d == Count(Downlink, "AA", "READ_SETTINGS")
           u == Count(Uplink, "55", "READ_SETTINGS")
           d1 == Count(Downlink', "AA", "READ_SETTINGS")
           u1 == Count(Uplink', "55", "READ_SETTINGS")
           q == left.requests
           q1 == left'.requests
<1>2. /\ d \in Nat /\ u \in Nat /\ d1 \in Nat /\ u1 \in Nat /\ q \in Nat /\ q1 \in Nat
      /\ q1 <= q /\ TxMax \in Nat
  BY <1>1, LoadTypes, LoadTypesNext, RequestsLeft, ConstantFacts DEF LeftInv
<1>3. q < TxMax /\ (~lost /\ ~hasty /\ State \notin Unused => d + u + q < TxMax)
  BY DEF LoadInv, Reads
<1>4. SUFFICES ASSUME ~lost', ~hasty', State' \notin Unused PROVE d1 + u1 + q1 < TxMax
  <2>1. q1 < TxMax
    BY <1>2, <1>3
  <2> QED  BY <2>1 DEF LoadInv, Reads
<1> HIDE DEF d, u, d1, u1, q, q1
<1>5. CASE WaitForStartHeader /\ Timeus > StartDelay
  <2>1. d1 = 0
    <3>1. PICK c \in HostFrames : c = ToAll("IDENTIFY") /\ c.cmd = "IDENTIFY"
      BY ToAllType
    <3>2. (SendPacket(c) /\ UNCHANGED down) \/ Downlink' = Downlink
      BY <1>5, <3>1 DEF WaitForStartHeader, IdentifyChain, Downlink
    <3>3. Elements(Downlink) = {}
      BY <1>5 DEF WaitForStartHeader, QuietInv
    <3>4. Elements(Downlink') \subseteq {c}
      BY <1>1, <3>2, <3>3, SendExact, SentLine DEF Sends
    <3>5. None(Downlink', "AA", "READ_SETTINGS")
      BY <3>1, <3>4, NoneOf DEF IsA
    <3> QED  BY <1>1, <3>5, CountType DEF LinesTyped, d1
  <2>2. u1 = 0
    <3>1. Return /\ UNCHANGED up
      BY <1>5 DEF WaitForStartHeader
    <3>2. Elements(Uplink') = {}
      BY <1>1, <1>5, <3>1, BatchDropped, DroppedLine DEF WaitForStartHeader, QuietInv
    <3>3. None(Uplink', "55", "READ_SETTINGS")
      BY <3>2, NoneOf
    <3> QED  BY <1>1, <3>3, CountType DEF LinesTyped, u1
  <2> QED  BY <1>2, <1>3, <2>1, <2>2
<1>6. ASSUME ~lost, ~hasty, State \notin Unused, NoRequest PROVE d1 + u1 + q1 < TxMax
  <2>1. HostQuiet
    BY <1>4, <1>6, QuietEffect
  <2>2. u1 <= u
    BY <1>1, <2>1, DroppedLine DEF HostQuiet, u, u1
  <2>3. d1 = d
    <3>1. CASE Downlink' = Downlink
      BY <3>1 DEF d, d1
    <3>2. ASSUME NEW c \in HostFrames, WritesPart(c), Sends(c) PROVE d1 = d
      <4>1. ~IsA(c, "AA", "READ_SETTINGS")
        BY <3>2 DEF WritesPart, IsA
      <4> QED  BY <1>1, <3>2, <4>1, SentLine DEF d, d1
    <3> QED  BY <2>1, <3>1, <3>2 DEF HostQuiet
  <2> QED  BY <1>2, <1>3, <1>6, <2>2, <2>3
<1>7. ASSUME ~lost, ~hasty, State \notin Unused, RequestSettings PROVE d1 + u1 + q1 < TxMax
  <2>1. PICK c \in HostFrames : Sends(c) /\ Uplink' = Uplink
    BY <1>7, RequestExact
  <2>2. d1 <= d + 1
    BY <1>1, <2>1, SentLine DEF d, d1
  <2>3. u1 = u
    BY <2>1 DEF u, u1
  <2>4. q1 = q - 1
    BY <1>7 DEF RequestSettings, LeftInv, q, q1
  <2> QED  BY <1>2, <1>3, <1>7, <2>2, <2>3, <2>4
<1>8. ASSUME ~lost, ~hasty, State \notin Unused, ReadSettings PROVE d1 + u1 + q1 < TxMax
  <2>1. handler # "none" /\ next <= Len(rx) /\ Continue /\ UNCHANGED <<up, left>>
    BY <1>8 DEF ReadSettings, HandlerFrame, counts
  <2>2. u1 <= u
    BY <1>1, <2>1, HeadDropped, DroppedLine DEF u, u1
  <2>3. CASE Downlink' = Downlink
    <3>1. d1 = d
      BY <2>3 DEF d, d1
    <3> QED  BY <1>2, <1>3, <1>8, <2>2, <3>1
  <2>4. ASSUME NEW f \in AnswerFrames, f.cmd = "READ_SETTINGS", ReadEffect(f)
        PROVE  d1 <= d + 1 /\ u = u1 + 1
    <3>1. PICK c \in HostFrames : Sends(c)
      BY <1>8, <2>4, ReadExact
    <3>2. d1 <= d + 1
      BY <1>1, <3>1, SentLine DEF d, d1
    <3>3. PICK e \in Seq(Frames), v \in Seq(Frames) :
            /\ e = <<f>> /\ v = Uplink' /\ Uplink = e \o v
            /\ Where(e, "55", "READ_SETTINGS") = {1}
      <4>1. f \in Frames /\ IsA(f, "55", "READ_SETTINGS")
        BY <2>4, AnswerFacts DEF IsA
      <4>2. <<f>> \in Seq(Frames) /\ DOMAIN <<f>> = {1} /\ <<f>>[1] = f
        BY <4>1
      <4>3. Where(<<f>>, "55", "READ_SETTINGS") = {1}
        BY <4>1, <4>2 DEF Where
      <4> QED  BY <2>4, <4>2, <4>3 DEF ReadEffect
    <3>4. Count(e, "55", "READ_SETTINGS") = 1
      BY <3>3, FS_Singleton DEF Count
    <3>5. Count(e \o v, "55", "READ_SETTINGS")
            = Count(e, "55", "READ_SETTINGS") + Count(v, "55", "READ_SETTINGS")
      BY CountConcat
    <3>6. u = 1 + u1
      BY <3>3, <3>4, <3>5 DEF u, u1
    <3> QED  BY <1>2, <3>2, <3>6
  <2>5. ASSUME d1 <= d + 1, u = u1 + 1 PROVE d1 + u1 + q1 < TxMax
    BY <1>2, <1>3, <1>8, <2>5
  <2> QED  BY <1>8, <2>3, <2>4, <2>5, ReadSettingsTypes
<1>9. ASSUME ~lost, ~hasty, State \notin Unused, ChainTakes PROVE d1 + u1 + q1 < TxMax
  <2>1. PICK f \in HostFrames, a \in Seq(Frames) :
          /\ Downlink = <<f>> \o Downlink' /\ Uplink' = Uplink \o a
          /\ Single(a, "55", "READ_SETTINGS")
          /\ IsA(f, "AA", "READ_SETTINGS") \/ None(a, "55", "READ_SETTINGS")
    BY <1>9, Taken
  <2>2. PICK e \in Seq(HostFrames), v \in Seq(HostFrames) :
          /\ e = <<f>> /\ v = Downlink' /\ Downlink = e \o v
          /\ None(e, "AA", "READ_SETTINGS") <=> ~IsA(f, "AA", "READ_SETTINGS")
    BY <1>1, <2>1, OneFrame DEF LinesTyped
  <2>3. PICK w \in Seq(Frames) : w = Uplink /\ Uplink' = w \o a
    BY <1>1, <2>1 DEF LinesTyped
  <2> DEFINE ce == Count(e, "AA", "READ_SETTINGS")
             ca == Count(a, "55", "READ_SETTINGS")
  <2>4. d = ce + d1
    <3>1. Count(e \o v, "AA", "READ_SETTINGS") = ce + Count(v, "AA", "READ_SETTINGS")
      BY CountConcat
    <3> HIDE DEF ce
    <3> QED  BY <2>2, <3>1 DEF d, d1
  <2>5. u1 = u + ca
    BY <2>3, CountConcat DEF u, u1
  <2>6. ce \in Nat /\ ca \in Nat /\ ca <= ce
    <3>1. ce \in Nat /\ ca \in Nat /\ ca <= 1
      BY <2>1, CountType
    <3>2. ce = 0 => ca = 0
      BY <2>1, <2>2, CountType
    <3> HIDE DEF ce, ca
    <3> QED  BY <3>1, <3>2
  <2> HIDE DEF ce, ca
  <2> QED  BY <1>2, <1>3, <1>9, <2>4, <2>5, <2>6
<1>10. ASSUME ~lost, ~hasty, State \notin Unused, ChainReports PROVE d1 + u1 + q1 < TxMax
  <2>1. PICK f \in AnswerFrames, p \in due :
          /\ f = Answer("WRITE_SETTINGS", p, 0, 0) /\ Uplink' = Uplink \o <<f>>
          /\ Downlink' = Downlink
    BY <1>10, ChainReportsTypes
  <2>2. PICK w \in Seq(Frames), e \in Seq(Frames) :
          /\ w = Uplink /\ Uplink' = w \o e
          /\ None(e, "55", "READ_SETTINGS")
    <3>1. ~IsA(f, "55", "READ_SETTINGS") /\ f \in Frames
      BY <2>1, AnswerFacts DEF Answer, Frame, IsA
    <3> QED  BY <1>1, <2>1, <3>1, OneFrame DEF LinesTyped
  <2>3. u1 = u + 0
    BY <2>2, CountConcat, CountType DEF u, u1
  <2>4. d1 = d
    BY <2>1 DEF d, d1
  <2> QED  BY <1>2, <1>3, <1>10, <2>3, <2>4
<1> QED  BY <1>4, <1>5, <1>6, <1>7, <1>8, <1>9, <1>10, StepKinds

LEMMA LoadInvHolds ==
  (\A b \in Budgets : b.requests < TxMax) =>
    (Spec => [](LinesInv /\ IdentInv /\ LeftInv /\ CmdInv /\ LoadInv))
<1> SUFFICES ASSUME \A b \in Budgets : b.requests < TxMax
             PROVE  Spec => [](LinesInv /\ IdentInv /\ LeftInv /\ CmdInv /\ LoadInv)
  OBVIOUS
<1>1. Init => LoadInv
  BY DEF Init, LoadInv, Unused
<1>2. LinesInv /\ LinesInv' /\ IdentInv /\ CmdInv /\ LeftInv /\ LeftInv' /\ LoadInv /\ [Next]_vars
        => LoadInv'
  BY LoadStep
<1> QED  BY <1>1, <1>2, CmdInvHolds, PTL DEF Spec

\* What is sent when no part of a WRITE waits in txfifo is not ignored.
Room == ~lost /\ ~hasty /\ Identified /\ None(Downlink, "AA", "WRITE_SETTINGS") => HasRoom

LEMMA RoomForMore ==
  ASSUME LineType, CmdInv, LeftInv, LoadInv
  PROVE  Room
<1> SUFFICES ASSUME ~lost, ~hasty, Identified, None(Downlink, "AA", "WRITE_SETTINGS")
             PROVE  HasRoom
  BY DEF Room
<1>1. PICK d \in Seq(HostFrames), s \in Seq(HostFrames) : d = down /\ s = tx
  BY DEF LineType
<1>2. Elements(d \o s) = Elements(d) \cup Elements(s)
  BY ElementsConcat
<1>3. Downlink = d \o s /\ Elements(s) \subseteq HostFrames
  BY <1>1, SeqFacts DEF Downlink
<1>4. \A f \in Elements(s) : IsA(f, "AA", "READ_SETTINGS")
  <2> SUFFICES ASSUME NEW f \in Elements(s) PROVE IsA(f, "AA", "READ_SETTINGS")
    OBVIOUS
  <2>1. f \in Elements(Downlink) /\ f.sof = "AA"
    BY <1>2, <1>3, HostFrameFacts
  <2>2. f.cmd \in {"READ_SETTINGS", "WRITE_SETTINGS"}
    BY <2>1 DEF CmdInv
  <2>3. ~IsA(f, "AA", "WRITE_SETTINGS")
    BY <2>1, NoneOf
  <2> QED  BY <2>1, <2>2, <2>3 DEF IsA
<1>5. Where(s, "AA", "READ_SETTINGS") = 1 .. Len(s) /\ Len(s) \in Nat
  <2>1. Len(s) \in Nat /\ DOMAIN s = 1 .. Len(s)
    BY SeqFacts
  <2> QED  BY <1>4, <2>1 DEF Where, Elements
<1>6. Count(s, "AA", "READ_SETTINGS") = Len(s)
  <2>1. ASSUME NEW n \in Nat PROVE Cardinality(1 .. n) = n
    BY FS_Interval
  <2> QED  BY <1>5, <2>1 DEF Count
<1>7. Count(d \o s, "AA", "READ_SETTINGS")
        = Count(d, "AA", "READ_SETTINGS") + Count(s, "AA", "READ_SETTINGS")
  BY CountConcat
<1>8. Count(d, "AA", "READ_SETTINGS") \in Nat /\ Count(Uplink, "55", "READ_SETTINGS") \in Nat
  BY CountType, LineSeqs DEF LinesTyped
<1>9. Reads + left.requests < TxMax /\ left.requests \in Nat /\ TxMax \in Nat
  BY ConstantFacts DEF LoadInv, LeftInv, Identified, Unused
<1>10. Len(s) < TxMax
  <2>1. Count(Downlink, "AA", "READ_SETTINGS") = Count(d, "AA", "READ_SETTINGS") + Len(s)
    BY <1>3, <1>6, <1>7
  <2> QED  BY <1>5, <1>8, <1>9, <2>1 DEF Reads
<1> QED  BY <1>1, <1>10 DEF HasRoom

-----------------------------------------------------------------------------
(***************************************************************************)
(* What a state waits for is coming                                        *)
(***************************************************************************)

\* The last part of a write is echoed before the bank reports that it stored it.
LastEcho(f) == Echoed(f) /\ f.part = NumParts
Reported(s) ==
  \A i \in DOMAIN s :
    LastEcho(s[i]) => \E j \in DOMAIN s : j > i /\ IsA(s[j], "55", "WRITE_SETTINGS")

ReadComing ==
  ~lost /\ ~hasty /\ State = "ConnectedWaitReadSettings" =>
    \/ \E f \in Elements(Uplink) : IsA(f, "55", "READ_SETTINGS")
    \/ \E f \in Elements(Downlink) : IsA(f, "AA", "READ_SETTINGS") /\ Target(f) \in Banks
EchoComing ==
  ~lost /\ ~hasty /\ State = "ConnectedWaitWriteSettings" =>
    \/ \E f \in Elements(Uplink) : Echoed(f)
    \/ \E f \in Elements(Downlink) : IsA(f, "AA", "WRITE_SETTINGS")
ReportComing ==
  ~lost /\ ~hasty /\ State = "ConnectedWaitWriteSettings" => due # {} \/ Reported(Uplink)

\* A handler that found no report in its batch leaves none behind.
StatusComing ==
  ~lost /\ ~hasty /\ State = "ConnectedWaitFinishWriteSettings" =>
    due # {} \/ ~NoStatus(up) \/ (handler = State /\ next = 1 /\ ~NoStatus(rx))
WriteComing == EchoComing /\ ReportComing /\ StatusComing

LEMMA ReportedNone ==
  ASSUME NEW s, None(s, "AA", "WRITE_SETTINGS")
  PROVE  Reported(s)
BY DEF Reported, None, Where, LastEcho, Echoed

\* What follows the first frame.
LEMMA ReportedTail ==
  ASSUME NEW S, NEW f \in S, NEW t \in Seq(S), NEW s, s = <<f>> \o t, Reported(s)
  PROVE  Reported(t) /\ (LastEcho(f) => ~NoStatus(t))
<1>1. <<f>> \in Seq(S) /\ Len(<<f>>) = 1 /\ <<f>>[1] = f
  OBVIOUS
<1>2. /\ Len(t) \in Nat /\ DOMAIN t = 1 .. Len(t) /\ DOMAIN s = 1 .. 1 + Len(t)
      /\ s[1] = f /\ \A i \in 1 .. Len(t) : s[1 + i] = t[i]
  <2>1. /\ Len(t) \in Nat /\ DOMAIN t = 1 .. Len(t)
        /\ s \in Seq(S) /\ Len(s) = 1 + Len(t)
        /\ \A i \in 1 .. 1 + Len(t) : s[i] = IF i <= 1 THEN <<f>>[i] ELSE t[i - 1]
    BY <1>1, SeqFacts, ConcatProperties
  <2>2. DOMAIN s = 1 .. 1 + Len(t)
    BY <2>1, SeqFacts
  <2>3. s[1] = f
    BY <1>1, <2>1
  <2>4. ASSUME NEW i \in 1 .. Len(t) PROVE s[1 + i] = t[i]
    <3>1. 1 + i \in 1 .. 1 + Len(t) /\ ~(1 + i <= 1) /\ (1 + i) - 1 = i
      BY <2>1
    <3> QED  BY <2>1, <3>1
  <2> QED  BY <2>1, <2>2, <2>3, <2>4
<1>3. ASSUME NEW i \in DOMAIN s, LastEcho(s[i])
      PROVE  \E j \in 1 .. Len(t) : 1 + j > i /\ IsA(t[j], "55", "WRITE_SETTINGS")
  <2>1. PICK j \in DOMAIN s : j > i /\ IsA(s[j], "55", "WRITE_SETTINGS")
    BY <1>3 DEF Reported
  <2>2. j - 1 \in 1 .. Len(t) /\ 1 + (j - 1) = j
    BY <1>2, <2>1
  <2>3. s[j] = t[j - 1]
    BY <1>2, <2>2
  <2> QED  BY <2>1, <2>2, <2>3
<1>4. Reported(t)
  <2> SUFFICES ASSUME NEW i \in DOMAIN t, LastEcho(t[i])
               PROVE  \E j \in DOMAIN t : j > i /\ IsA(t[j], "55", "WRITE_SETTINGS")
    BY DEF Reported
  <2>1. i \in Nat /\ 1 + i \in DOMAIN s /\ LastEcho(s[1 + i])
    BY <1>2
  <2>2. PICK j \in 1 .. Len(t) : 1 + j > 1 + i /\ IsA(t[j], "55", "WRITE_SETTINGS")
    BY <1>3, <2>1
  <2>3. j \in Nat /\ j > i
    BY <2>1, <2>2
  <2> QED  BY <1>2, <2>2, <2>3
<1>5. ASSUME LastEcho(f) PROVE ~NoStatus(t)
  <2>1. 1 \in DOMAIN s
    BY <1>2
  <2>2. PICK j \in 1 .. Len(t) : IsA(t[j], "55", "WRITE_SETTINGS")
    BY <1>2, <1>3, <1>5, <2>1
  <2> QED  BY <1>2, <2>2 DEF NoStatus, None, Where
<1> QED  BY <1>4, <1>5

\* What comes behind.
LEMMA ReportedMore ==
  ASSUME NEW S, NEW s \in Seq(S), NEW t \in Seq(S),
         \A f \in Elements(t) : ~LastEcho(f), Reported(s) \/ ~NoStatus(t)
  PROVE  Reported(s \o t)
<1>1. /\ Len(s) \in Nat /\ Len(t) \in Nat
      /\ DOMAIN s = 1 .. Len(s) /\ DOMAIN t = 1 .. Len(t)
      /\ DOMAIN (s \o t) = 1 .. Len(s) + Len(t)
      /\ \A i \in 1 .. Len(s) + Len(t) :
           (s \o t)[i] = IF i <= Len(s) THEN s[i] ELSE t[i - Len(s)]
  BY SeqFacts, ConcatProperties
<1> SUFFICES ASSUME NEW i \in DOMAIN (s \o t), LastEcho((s \o t)[i])
             PROVE  \E j \in DOMAIN (s \o t) : j > i /\ IsA((s \o t)[j], "55", "WRITE_SETTINGS")
  BY DEF Reported
<1>2. i \in 1 .. Len(s) /\ LastEcho(s[i])
  <2>1. CASE i <= Len(s)
    BY <1>1, <2>1
  <2>2. CASE i > Len(s)
    <3>1. i - Len(s) \in DOMAIN t /\ (s \o t)[i] = t[i - Len(s)]
      BY <1>1, <2>2
    <3> QED  BY <3>1 DEF Elements
  <2> QED  BY <1>1, <2>1, <2>2
<1>3. CASE Reported(s)
  <2>1. PICK j \in 1 .. Len(s) : j > i /\ IsA(s[j], "55", "WRITE_SETTINGS")
    BY <1>1, <1>2, <1>3 DEF Reported
  <2>2. j \in DOMAIN (s \o t) /\ (s \o t)[j] = s[j]
    BY <1>1, <2>1
  <2> QED  BY <2>1, <2>2
<1>4. CASE ~NoStatus(t)
  <2>1. PICK j \in 1 .. Len(t) : IsA(t[j], "55", "WRITE_SETTINGS")
    BY <1>1, <1>4 DEF NoStatus, None, Where
  <2>2. /\ Len(s) + j \in DOMAIN (s \o t) /\ (s \o t)[Len(s) + j] = t[j]
        /\ Len(s) + j > i
    BY <1>1, <1>2, <2>1
  <2> QED  BY <2>1, <2>2
<1> QED  BY <1>3, <1>4

\* The chain takes a command: its echo and the answers to it are all that comes.
LEMMA TakenAll ==
  ASSUME TypeInv, ChainTakes
  PROVE  \E f \in HostFrames, u \in Seq(Frames) :
           /\ f = Head(down) /\ Uplink' = Uplink \o u
           /\ Elements(u) = {f} \cup Elements(AnswersTo(f))
           /\ Elements(Uplink') = Elements(Uplink) \cup Elements(u)
           /\ Elements(Downlink) = {f} \cup Elements(Downlink')
<1> USE DEF TypeInv
<1>1. PICK f \in HostFrames, a \in Seq(Frames) :
        /\ f = Head(down) /\ a = AnswersTo(f) /\ Downlink = <<f>> \o Downlink'
        /\ Uplink' = Uplink \o (a \o <<f>>) \/ Uplink' = Uplink \o (<<f>> \o a)
  BY TakeLine
<1>2. LinesTyped /\ LinesTyped' /\ f \in Frames
  BY TakeLine, LineSeqs, LineSeqsNext, HostFrameFacts
<1>3. PICK e \in Seq(Frames) : e = <<f>> /\ Elements(e) = {f}
  BY <1>2, OneFrame
<1>4. /\ a \o e \in Seq(Frames) /\ e \o a \in Seq(Frames)
      /\ Elements(a \o e) = {f} \cup Elements(a) /\ Elements(e \o a) = {f} \cup Elements(a)
  <2>1. a \o e \in Seq(Frames) /\ e \o a \in Seq(Frames)
    BY ConcatProperties
  <2>2. /\ Elements(a \o e) = Elements(a) \cup Elements(e)
        /\ Elements(e \o a) = Elements(e) \cup Elements(a)
    BY ElementsConcat
  <2>3. Elements(e) = {f}
    BY <1>3
  <2> QED  BY ONLY <2>1, <2>2, <2>3
<1>5. PICK u \in Seq(Frames) : Uplink' = Uplink \o u /\ Elements(u) = {f} \cup Elements(a)
  BY <1>1, <1>3, <1>4
<1>6. Elements(Uplink') = Elements(Uplink) \cup Elements(u)
  BY <1>2, <1>5, ElementsConcat DEF LinesTyped
<1>7. Elements(Downlink) = {f} \cup Elements(Downlink')
  <2>1. PICK d \in Seq(HostFrames) : d = Downlink'
    BY <1>2 DEF LinesTyped
  <2>2. Downlink = <<f>> \o d
    BY <1>1, <2>1
  <2>3. Elements(Downlink) = {f} \cup Elements(d)
    BY <2>2, HeadOnLine
  <2> QED  BY <2>1, <2>3
<1> QED  BY <1>1, <1>5, <1>6, <1>7

\* A batch that is handled to its end leaves nothing that was not looked at.
LEMMA EndBatchStill ==
  ASSUME TypeInv, EndBatch, State # "Connected"
  PROVE  Uplink' = Uplink
<1> USE DEF TypeInv
<1>1. handler # "Connected" /\ next > Len(rx) /\ handler # "none"
  BY DEF EndBatch, HandlerOK
<1>2. Pending = <<>>
  BY <1>1, SubSeqEmpty DEF Pending, LineType
<1>3. Uplink = up
  BY <1>2, ConcatEmptySeq DEF Uplink, LineType
<1>4. Uplink' = up
  BY ReturnLine DEF EndBatch, HandlerFrame
<1> QED  BY <1>3, <1>4

\* Steps that look at no frame.
LEMMA StillSteps ==
  ASSUME TypeInv, Edit \/ Tick \/ TickFails \/ UNCHANGED vars \/ (EndBatch /\ State # "Connected")
  PROVE  UNCHANGED <<State, due, lost, hasty>> /\ Uplink' = Uplink /\ Downlink' = Downlink
<1>1. CASE Edit
  BY <1>1, EditTypes DEF Edit, chain
<1>2. CASE Tick \/ TickFails
  BY <1>2, TickTypes
<1>3. CASE UNCHANGED vars
  BY <1>3 DEF vars, host, batch, chain, counts, Uplink, Pending, Downlink
<1>4. CASE EndBatch /\ State # "Connected"
  BY <1>4, EndBatchTypes, EndBatchStill
<1> QED  BY <1>1, <1>2, <1>3, <1>4

\* After each part that was read there is another one to ask for, of a bank that is there.
LEMMA NextIsThere ==
  ASSUME TypeInv, Complete, NEW p \in Banks, NEW k \in Parts,
         ~(LastPart(k) /\ LastOfAll(p, ChainList))
  PROVE  Target(ReadNext(p, k, ChainList)) \in Banks
<1>1. p \in Slots /\ p[1] \in 0 .. 7 /\ p[2] \in 0 .. 7 /\ p = <<p[1], p[2]>>
  BY ConstantFacts, SlotFields
<1>2. /\ NumBanks(ChainList, p) = BanksOf[Chain[p[1]]] /\ LastDevice = LastOfChain
      /\ p[1] <= LastOfChain /\ p[2] < BanksOf[Chain[p[1]]]
      /\ LastOfChain < MaxDevices /\ LastOfChain \in 0 .. 7 /\ MaxDevices \in 1 .. 8
  BY ConstantFacts DEF Complete, Told, Top, NumBanks, Banks
<1>3. \A d \in 0 .. LastOfChain : BanksOf[Chain[d]] \in 1 .. MaxDevices
  BY SessionAssumption, ConstantFacts
<1>4. \A q \in Slots : Target(ReadCommand(q, k)) = q /\ Target(ReadCommand(q, 0)) = q
                       /\ Target(ReadCommand(q, k + 1)) = q
  BY TargetOf DEF ReadCommand
<1>5. CASE ~LastPart(k)
  BY <1>1, <1>4, <1>5 DEF ReadNext
<1>6. CASE LastPart(k) /\ ~LastBankOf(p, ChainList)
  <2>1. PICK q \in Slots : q = <<p[1], p[2] + 1>> /\ q[1] = p[1] /\ q[2] = p[2] + 1
    <3>1. p[2] + 1 < BanksOf[Chain[p[1]]] /\ p[1] \in 0 .. LastOfChain
      BY <1>1, <1>2, <1>3, <1>6 DEF LastBankOf
    <3>2. p[2] + 1 \in 0 .. MaxDevices - 1 /\ p[1] \in 0 .. MaxDevices - 1
      BY <1>1, <1>2, <1>3, <3>1
    <3>3. <<p[1], p[2] + 1>> \in Slots
      BY <3>2 DEF Slots
    <3> QED  BY <3>3
  <2>2. q \in Banks
    BY <1>1, <1>2, <1>3, <1>6, <2>1 DEF Banks, LastBankOf
  <2> QED  BY <1>4, <1>6, <2>1, <2>2 DEF ReadNext
<1>7. CASE LastPart(k) /\ LastBankOf(p, ChainList)
  <2>1. p[1] # LastDevice
    BY <1>7 DEF LastOfAll
  <2>2. PICK q \in Slots : q = <<p[1] + 1, 0>> /\ q[1] = p[1] + 1 /\ q[2] = 0
    <3>1. p[1] + 1 \in 0 .. MaxDevices - 1 /\ 0 \in 0 .. MaxDevices - 1
      BY <1>1, <1>2, <2>1
    <3>2. <<p[1] + 1, 0>> \in Slots
      BY <3>1 DEF Slots
    <3> QED  BY <3>2
  <2>3. q \in Banks
    BY <1>1, <1>2, <1>3, <2>1, <2>2 DEF Banks
  <2> QED  BY <1>4, <1>7, <2>1, <2>2, <2>3 DEF ReadNext
<1> QED  BY <1>5, <1>6, <1>7

\* Reading: a READ for a bank that is there, or the answer to one, is on its way.
LEMMA ReadComingStep ==
  ASSUME LinesInv, LinesInv', IdentInv, Room, ReadComing, [Next]_vars,
         InBootloader = {}
  PROVE  ReadComing'
<1> USE DEF LinesInv, TypeInv
<1>1. LinesTyped /\ LinesTyped'
  BY LineSeqs, LineSeqsNext
<1> SUFFICES ASSUME ~lost', ~hasty', State' = "ConnectedWaitReadSettings" PROVE ReadComing'
  BY DEF ReadComing
<1>2. /\ State \notin Unused /\ ~lost /\ ~hasty
      /\ NoRequest \/ RequestSettings \/ ReadSettings \/ ChainTakes \/ ChainReports
  BY StepKinds DEF Unused
<1> DEFINE Replies(f) == IsA(f, "55", "READ_SETTINGS")
           Asks(f) == IsA(f, "AA", "READ_SETTINGS") /\ Target(f) \in Banks
<1>3. State = "ConnectedWaitReadSettings" =>
        \/ \E f \in Elements(Uplink) : Replies(f)
        \/ \E f \in Elements(Downlink) : Asks(f)
  BY <1>2 DEF ReadComing
<1>4. SUFFICES \/ \E f \in Elements(Uplink') : Replies(f)
               \/ \E f \in Elements(Downlink') : Asks(f)
  BY DEF ReadComing
<1> HIDE DEF Replies, Asks
<1>5. CASE NoRequest
  <2>1. ~SetSettings /\ ~WaitFinishWriteSettings
    BY DEF SetSettings, WaitFinishWriteSettings, FinishWrite, StartWriteSettings
  <2>2. ~LookForIdentResponse
    BY DEF LookForIdentResponse, HandlerOK
  <2>3. ~WriteSettings
    BY DEF WriteSettings, HandlerOK, FinishWrite, StartWriteSettings
  <2>4. ~(EndBatch /\ State = "Connected")
    BY DEF EndBatch
  <2>5. State' = State /\ Uplink' = Uplink /\ Downlink' = Downlink
    BY <1>5, <2>1, <2>2, <2>3, <2>4, StillSteps DEF NoRequest
  <2> QED  BY <1>3, <2>5
<1>6. CASE RequestSettings
  <2>1. State = "Connected"
    BY <1>6 DEF RequestSettings
  <2>2. HasRoom
    BY <1>2, <2>1 DEF Room, Identified, States, WritesInv, QuietStates, NoWrites
  <2>3. PICK c \in HostFrames :
          Sends(c) /\ IsA(c, "AA", "READ_SETTINGS") /\ Target(c) = <<0, 0>>
    BY <1>6, RequestExact
  <2>4. c \in Elements(Downlink') /\ Asks(c)
    BY <1>1, <2>2, <2>3, SentLine, TopIsLast DEF Asks
  <2> QED  BY <2>4
<1>7. CASE ReadSettings
  <2>1. State = "ConnectedWaitReadSettings"
    BY <1>7 DEF ReadSettings, HandlerOK
  <2>2. CASE ~IsReadAnswer(rx[next]) /\ Downlink' = Downlink
    <3>1. PICK u \in Seq(Frames), f \in Frames : u = Uplink' /\ f = rx[next] /\ Uplink = <<f>> \o u
      BY <1>7, ContinueLine DEF ReadSettings, HandlerFrame
    <3>2. Elements(Uplink) = {f} \cup Elements(u)
      BY <3>1, HeadOfUplink
    <3>3. ~Replies(f)
      BY <2>2, <3>1 DEF IsReadAnswer, IsA, Replies
    <3> QED  BY <1>3, <2>1, <2>2, <3>1, <3>2, <3>3
  <2>3. ASSUME NEW f \in AnswerFrames, f.cmd = "READ_SETTINGS", ReadEffect(f)
        PROVE  \E g \in Elements(Downlink') : Asks(g)
    <3>1. HasRoom
      BY <1>2, <2>1 DEF Room, Identified, States, WritesInv, QuietStates, NoWrites
    <3>2. PICK c \in HostFrames : /\ c = ReadNext(Source(f), f.part, ChainList) /\ Sends(c)
                                  /\ IsA(c, "AA", "READ_SETTINGS")
      BY <1>7, <2>3, ReadExact
    <3>3. ~(LastPart(f.part) /\ LastOfAll(Source(f), ChainList))
      BY <2>3 DEF ReadEffect
    <3>4. Complete
      BY <1>2, <2>1 DEF IdentInv, Identified, States
    <3>5. Source(f) \in Banks /\ f.part \in Parts
      BY AnswerFacts
    <3>6. Target(c) \in Banks
      BY <3>2, <3>3, <3>4, <3>5, NextIsThere
    <3>7. c \in Elements(Downlink')
      BY <1>1, <3>1, <3>2, SentLine
    <3> QED  BY <3>2, <3>6, <3>7 DEF Asks
  <2> QED  BY <1>7, <2>2, <2>3, ReadSettingsTypes
<1>8. CASE ChainTakes
  <2>1. State' = State
    BY <1>8, ChainTakesTypes DEF host
  <2>2. PICK f \in HostFrames, u \in Seq(Frames) :
          /\ Elements(u) = {f} \cup Elements(AnswersTo(f))
          /\ Elements(Uplink') = Elements(Uplink) \cup Elements(u)
          /\ Elements(Downlink) = {f} \cup Elements(Downlink')
    BY <1>8, TakenAll
  <2>3. Asks(f) => \E g \in Elements(AnswersTo(f)) : Replies(g)
    <3> SUFFICES ASSUME Asks(f) PROVE \E g \in Elements(AnswersTo(f)) : Replies(g)
      OBVIOUS
    <3>1. f.cmd = "READ_SETTINGS" /\ Target(f) \in Banks \ InBootloader
      BY DEF Asks, IsA
    <3>2. PICK g \in Frames :
            /\ g = Answer(f.cmd, Target(f), f.part, stored[Target(f)][f.part])
            /\ IsA(g, "55", "READ_SETTINGS")
      <4>1. stored[Target(f)][f.part] \in Nat
        BY <3>1, HostFrameFacts DEF BankType, Image
      <4> QED  BY <3>1, <4>1, HostFrameFacts, AnswerType, AnswerFacts DEF IsA
    <3>3. AnswersTo(f) = <<g>>
      BY <3>1, <3>2 DEF AnswersTo
    <3>4. g \in Elements(<<g>>)
      BY OneFrame
    <3> QED  BY <3>2, <3>3, <3>4 DEF Replies
  <2> QED  BY <1>3, <2>1, <2>2, <2>3
<1>9. CASE ChainReports
  <2>1. UNCHANGED State /\ Downlink' = Downlink
    BY <1>9, ChainReportsTypes DEF host
  <2>2. PICK f \in AnswerFrames : Uplink' = Uplink \o <<f>>
    BY <1>9, ChainReportsTypes
  <2>3. PICK u \in Seq(Frames), e \in Seq(Frames) : u = Uplink /\ Uplink' = u \o e
    BY <1>1, <2>2, AnswerFacts, OneFrame DEF LinesTyped
  <2>4. Elements(u \o e) = Elements(u) \cup Elements(e)
    BY ElementsConcat
  <2> QED  BY <1>3, <2>1, <2>3, <2>4
<1> QED  BY <1>2, <1>5, <1>6, <1>7, <1>8, <1>9

\* Writing: a part or its echo is on its way; once the last part was echoed the bank has
\* still to report, or its report comes behind the echo.
LEMMA WriteComingStep ==
  ASSUME LinesInv, LinesInv', IdentInv, CmdInv, BootInv, Room, EchoComing, ReportComing,
         [Next]_vars
  PROVE  EchoComing' /\ ReportComing'
<1> USE DEF LinesInv, TypeInv
<1>1. LinesTyped /\ LinesTyped'
  BY LineSeqs, LineSeqsNext
<1> SUFFICES ASSUME ~lost', ~hasty', State' = "ConnectedWaitWriteSettings"
             PROVE  EchoComing' /\ ReportComing'
  BY DEF EchoComing, ReportComing
<1>2. /\ State \notin Unused /\ ~lost /\ ~hasty
      /\ NoRequest \/ RequestSettings \/ ReadSettings \/ ChainTakes \/ ChainReports
  BY StepKinds DEF Unused
<1>3. State = "ConnectedWaitWriteSettings" =>
        /\ \/ \E f \in Elements(Uplink) : Echoed(f)
           \/ \E f \in Elements(Downlink) : IsA(f, "AA", "WRITE_SETTINGS")
        /\ due # {} \/ Reported(Uplink)
  BY <1>2 DEF EchoComing, ReportComing
<1>4. ASSUME /\ \/ \E f \in Elements(Uplink') : Echoed(f)
                \/ \E f \in Elements(Downlink') : IsA(f, "AA", "WRITE_SETTINGS"),
             due' # {} \/ Reported(Uplink')
      PROVE  EchoComing' /\ ReportComing'
  BY <1>4 DEF EchoComing, ReportComing
\* A part is sent when none is on its way.
<1>5. ASSUME NEW c \in HostFrames, WritesPart(c), Sends(c), Identified,
             None(Downlink, "AA", "WRITE_SETTINGS"), None(Uplink', "AA", "WRITE_SETTINGS")
      PROVE  EchoComing' /\ ReportComing'
  <2>1. HasRoom
    BY <1>2, <1>5 DEF Room
  <2>2. c \in Elements(Downlink') /\ IsA(c, "AA", "WRITE_SETTINGS")
    BY <1>1, <1>5, <2>1, SentLine DEF WritesPart
  <2>3. Reported(Uplink')
    BY <1>5, ReportedNone
  <2> QED  BY <1>4, <2>2, <2>3
<1>6. CASE Edit \/ Tick \/ TickFails \/ UNCHANGED vars \/ (EndBatch /\ State # "Connected")
  <2>1. State' = State /\ due' = due /\ Uplink' = Uplink /\ Downlink' = Downlink
    BY <1>6, StillSteps
  <2> QED  BY <1>3, <1>4, <2>1
<1>7. CASE SetSettings
  <2>1. /\ State = "Connected" /\ UNCHANGED <<rx, next, handler, up, down>>
        /\ StartWriteSettings(ChainList)
    BY <1>7 DEF SetSettings, Early, batch
  <2>2. Uplink' = Uplink
    BY <2>1 DEF Uplink, Pending
  <2>3. Complete /\ Identified
    BY <1>2, <2>1 DEF IdentInv, Identified, States
  <2>4. PICK c \in HostFrames : WritesPart(c) /\ Sends(c)
    BY <2>1, <2>3, StartWriteExact DEF HostType, Marked
  <2>5. NoWrites
    BY <1>2, <2>1 DEF WritesInv, QuietStates
  <2> QED  BY <1>5, <2>2, <2>3, <2>4, <2>5 DEF NoWrites
<1>8. CASE WriteSettings
  <2>1. /\ handler = "ConnectedWaitWriteSettings" /\ next <= Len(rx) /\ Continue
        /\ UNCHANGED <<up, due>> /\ Identified /\ Complete
    BY <1>2, <1>8 DEF WriteSettings, HandlerFrame, chain, HandlerOK, IdentInv, Identified, States
  <2>2. PICK u \in Seq(Frames), g \in Frames : u = Uplink' /\ g = rx[next] /\ Uplink = <<g>> \o u
    BY <2>1, ContinueLine
  <2>3. Elements(Uplink) = {g} \cup Elements(u)
    BY <2>2, HeadOfUplink
  <2>4. CASE ~IsWriteEcho(rx[next]) /\ UNCHANGED State /\ Downlink' = Downlink
    <3>1. ~Echoed(g)
      BY <2>2, <2>4 DEF IsWriteEcho, Echoed, IsA
    <3>2. Reported(Uplink) => Reported(u)
      BY <2>2, ReportedTail
    <3> QED  BY <1>3, <1>4, <2>1, <2>2, <2>3, <2>4, <3>1, <3>2
  <2>5. ASSUME NEW f \in HostFrames, f.cmd = "WRITE_SETTINGS", WriteEffect(f)
        PROVE  EchoComing' /\ ReportComing'
    <3>1. f = g /\ IsA(f, "AA", "WRITE_SETTINGS")
      BY <2>2, <2>5, HostFrameFacts DEF WriteEffect, IsA
    <3>2. f \in Elements(Uplink) /\ Target(f) \in Banks
      BY <1>2, <2>1, <2>3, <3>1 DEF CmdInv
    <3>3. None(Downlink, "AA", "WRITE_SETTINGS") /\ None(Uplink', "AA", "WRITE_SETTINGS")
      BY <1>2, <2>2, <3>1, OneTaken DEF WritesInv
    <3>4. PICK c \in HostFrames : WritesPart(c) /\ Sends(c)
      BY <2>1, <2>5, <3>2, WriteExact
    <3> QED  BY <1>5, <2>1, <3>3, <3>4
  <2> QED  BY <1>8, <2>4, <2>5, WriteSettingsTypes
<1>9. CASE WaitFinishWriteSettings
  <2>1. /\ FinishWrite(ChainList) /\ Return /\ UNCHANGED <<up, down>>
        /\ State = "ConnectedWaitFinishWriteSettings" /\ Complete /\ Identified
    BY <1>2, <1>9 DEF WaitFinishWriteSettings, HandlerFrame, HandlerOK, IdentInv, Identified,
                      States
  <2>2. PICK c \in HostFrames : WritesPart(c) /\ Sends(c)
    BY <2>1, FinishWriteExact DEF HostType, Marked
  <2>3. NoWrites
    BY <1>2, <2>1 DEF WritesInv, QuietStates
  <2>4. None(Uplink', "AA", "WRITE_SETTINGS")
    BY <2>1, <2>3, ReturnLine, FewerNone DEF NoWrites
  <2> QED  BY <1>5, <2>1, <2>2, <2>3, <2>4 DEF NoWrites
<1>10. ~LookForIdentResponse /\ ~RequestSettings /\ ~ReadSettings
       /\ ~(EndBatch /\ State = "Connected")
  BY DEF LookForIdentResponse, RequestSettings, StartReadSettings, ReadSettings, EndBatch,
         HandlerOK
<1>11. CASE ChainTakes
  <2>1. State' = State
    BY <1>11, ChainTakesTypes DEF host
  <2>2. PICK f \in HostFrames, u \in Seq(Frames) :
          /\ f = Head(down) /\ Uplink' = Uplink \o u
          /\ Elements(u) = {f} \cup Elements(AnswersTo(f))
          /\ Elements(Uplink') = Elements(Uplink) \cup Elements(u)
          /\ Elements(Downlink) = {f} \cup Elements(Downlink')
    BY <1>11, TakenAll
  <2>3. \/ \E g \in Elements(Uplink') : Echoed(g)
        \/ \E g \in Elements(Downlink') : IsA(g, "AA", "WRITE_SETTINGS")
    BY <1>3, <2>1, <2>2 DEF Echoed
  <2>4. due # {} => due' # {}
    BY <1>11, BankStores
  <2>5. CASE LastEcho(f)
    <3>1. Target(f) \in Banks \ InBootloader /\ f.cmd = "WRITE_SETTINGS" /\ f.part = NumParts
      BY <1>2, <2>1, <2>2, <2>5 DEF CmdInv, BootInv, LastEcho, Echoed, IsA, Identified, States
    <3>2. due' # {}
      BY <1>11, <2>2, <3>1, BankStores
    <3> QED  BY <1>4, <2>3, <3>2
  <2>6. CASE ~LastEcho(f)
    <3>1. \A g \in Elements(AnswersTo(f)) : ~LastEcho(g)
      BY AnswersOf DEF LastEcho, Echoed, IsA
    <3>2. Reported(Uplink) => Reported(Uplink')
      <4>1. PICK w \in Seq(Frames) : w = Uplink
        BY <1>1 DEF LinesTyped
      <4> QED  BY <2>2, <2>6, <3>1, <4>1, ReportedMore
    <3> QED  BY <1>3, <1>4, <2>1, <2>3, <2>4, <3>2
  <2> QED  BY <2>5, <2>6
<1>12. CASE ChainReports
  <2>1. UNCHANGED State /\ Downlink' = Downlink
    BY <1>12, ChainReportsTypes DEF host
  <2>2. PICK f \in AnswerFrames, p \in due :
          f = Answer("WRITE_SETTINGS", p, 0, 0) /\ Uplink' = Uplink \o <<f>>
    BY <1>12, ChainReportsTypes
  <2>3. IsA(f, "55", "WRITE_SETTINGS") /\ f \in Frames /\ ~LastEcho(f)
    BY <2>2, AnswerFacts DEF Answer, Frame, IsA, LastEcho, Echoed
  <2>4. PICK u \in Seq(Frames), e \in Seq(Frames) :
          /\ u = Uplink /\ Uplink' = u \o e /\ Elements(e) = {f} /\ ~NoStatus(e)
    BY <1>1, <2>2, <2>3, OneFrame DEF LinesTyped, NoStatus
  <2>5. Elements(u \o e) = Elements(u) \cup Elements(e)
    BY ElementsConcat
  <2>6. Reported(u \o e)
    BY <2>3, <2>4, ReportedMore
  <2> QED  BY <1>3, <1>4, <2>1, <2>4, <2>5, <2>6
<1> QED  BY <1>2, <1>6, <1>7, <1>8, <1>9, <1>10, <1>11, <1>12 DEF NoRequest

\* Waiting for the report: a bank has still to make it, or it lies where the handler is
\* still going to look.
LEMMA StatusComingStep ==
  ASSUME LinesInv, LinesInv', ReportComing, StatusComing, [Next]_vars
  PROVE  StatusComing'
<1> USE DEF LinesInv, TypeInv
<1>1. LinesTyped /\ LinesTyped'
  BY LineSeqs, LineSeqsNext
<1> SUFFICES ASSUME ~lost', ~hasty', State' = "ConnectedWaitFinishWriteSettings"
             PROVE  StatusComing'
  BY DEF StatusComing
<1>2. /\ State \notin Unused /\ ~lost /\ ~hasty
      /\ NoRequest \/ RequestSettings \/ ReadSettings \/ ChainTakes \/ ChainReports
  BY StepKinds DEF Unused
<1>3. State = "ConnectedWaitFinishWriteSettings" =>
        due # {} \/ ~NoStatus(up) \/ (handler = State /\ next = 1 /\ ~NoStatus(rx))
  BY <1>2 DEF StatusComing
<1>4. CASE Edit \/ TickFails \/ UNCHANGED vars
  <2>1. UNCHANGED <<State, due, up, rx, next, handler>>
    BY <1>4 DEF Edit, TickFails, vars, host, batch, chain
  <2> QED  BY <1>3, <2>1 DEF StatusComing
<1>5. CASE Tick
  <2>1. /\ State' = State /\ due' = due /\ handler = "none" /\ handler' = State' /\ next' = 1
        /\ State # "none"
    BY <1>5 DEF Tick, Idle, chain, HostType, States
  <2>2. rx' \in Seq(Frames) /\ up' \in Seq(Frames) /\ up = rx' \o up'
    <3>1. PICK n \in 0 .. Len(up) : rx' = SubSeq(up, 1, n) /\ up' = SubSeq(up, n + 1, Len(up))
      BY <1>5 DEF Tick
    <3> QED  BY <3>1, SplitAt DEF LineType
  <2>3. NoStatus(up) <=> (NoStatus(rx') /\ NoStatus(up'))
    BY <2>2, NoneConcat DEF NoStatus
  <2> QED  BY <1>3, <2>1, <2>3 DEF StatusComing
<1>6. CASE WriteSettings
  <2>1. /\ handler = "ConnectedWaitWriteSettings" /\ next <= Len(rx) /\ Continue
        /\ UNCHANGED <<up, due, rx>>
    BY <1>6 DEF WriteSettings, HandlerFrame, chain, Continue
  <2>2. CASE State' = State
    BY <1>3, <2>1, <2>2 DEF StatusComing
  <2>3. CASE State' # State
    <3>1. PICK f \in HostFrames : f.cmd = "WRITE_SETTINGS" /\ WriteEffect(f)
      BY <1>6, <2>3, WriteSettingsTypes
    <3>2. f = rx[next] /\ LastPart(f.part) /\ FinishWrite(ChainList')
      BY <2>3, <3>1 DEF WriteEffect
    <3>3. LastEcho(f)
      BY <3>1, <3>2, HostFrameFacts DEF LastEcho, Echoed, IsA, LastPart
    <3>4. State = "ConnectedWaitWriteSettings"
      <4>1. ~NoWrites
        <5>1. PICK u \in Seq(Frames) : Uplink = <<f>> \o u
          BY <3>1 DEF WriteEffect
        <5>2. f \in Frames
          BY HostFrameFacts
        <5>3. Elements(Uplink) = {f} \cup Elements(u)
          BY <5>1, <5>2, HeadOnLine
        <5> QED  BY <3>3, <5>3, NoneOf DEF NoWrites, LastEcho, Echoed
      <4> QED  BY <1>2, <2>1, <4>1 DEF WritesInv, QuietStates, HandlerOK
    <3>5. ~(\E i \in 1 .. Len(rx) : IsWriteStatus(rx[i]))
      BY <3>2 DEF FinishWrite, StartWriteSettings
    <3>6. NoStatus(rx)
      BY <3>5, SeqFacts DEF LineType, NoStatus, None, Where, IsA, IsWriteStatus
    <3>7. due # {} \/ Reported(Uplink)
      BY <1>2, <3>4 DEF ReportComing
    <3>8. Reported(Uplink) => ~NoStatus(up)
      <4>1. PICK u \in Seq(Frames) : u = Uplink' /\ Uplink = <<f>> \o u /\ f \in Frames
        BY <3>1, HostFrameFacts DEF WriteEffect
      <4>2. Reported(Uplink) => ~NoStatus(u)
        BY <3>3, <4>1, ReportedTail
      <4>3. PICK q \in Seq(Frames) : q = Pending' /\ u = q \o up /\ up \in Seq(Frames)
        BY <1>1, <2>1, <4>1 DEF LinesTyped, Uplink, LineType
      <4>4. NoStatus(q)
        <5>1. Elements(q) \subseteq Elements(rx)
          <6>1. /\ q = SubSeq(rx, next + 1, Len(rx)) /\ Len(rx) \in Nat /\ next \in Nat
                /\ next <= Len(rx)
            BY <2>1, <4>3, SeqFacts DEF Pending, Continue, LineType
          <6>2. rx \in Seq(Frames) /\ next \in 0 .. Len(rx)
            BY <6>1 DEF LineType
          <6>3. rx = SubSeq(rx, 1, next) \o q /\ SubSeq(rx, 1, next) \in Seq(Frames)
            BY <6>1, <6>2, SplitAt
          <6>4. PICK b \in Seq(Frames) : rx = b \o q
            BY <6>3
          <6>5. Elements(b \o q) = Elements(b) \cup Elements(q)
            BY <4>3, ElementsConcat
          <6> QED  BY <6>4, <6>5
        <5> QED  BY <3>6, <5>1, NoneOf DEF NoStatus
      <4>5. NoStatus(q \o up) <=> (NoStatus(q) /\ NoStatus(up))
        BY <4>3, NoneConcat DEF NoStatus
      <4> QED  BY <4>2, <4>3, <4>4, <4>5
    <3> QED  BY <2>1, <3>7, <3>8 DEF StatusComing
  <2> QED  BY <2>2, <2>3
<1>7. CASE WaitFinishWriteSettings
  <2>1. /\ FinishWrite(ChainList) /\ UNCHANGED <<up, due>>
        /\ State = "ConnectedWaitFinishWriteSettings"
    BY <1>7 DEF WaitFinishWriteSettings, HandlerFrame, chain, HandlerOK
  <2>2. ~(\E i \in 1 .. Len(rx) : IsWriteStatus(rx[i]))
    BY <2>1 DEF FinishWrite, StartWriteSettings
  <2>3. NoStatus(rx)
    BY <2>2, SeqFacts DEF LineType, NoStatus, None, Where, IsA, IsWriteStatus
  <2> QED  BY <1>3, <2>1, <2>3 DEF StatusComing
<1>8. CASE EndBatch
  <2>1. State' = State /\ UNCHANGED <<up, due>> /\ handler # State
    BY <1>8 DEF EndBatch, HandlerFrame, chain
  <2> QED  BY <1>3, <2>1 DEF StatusComing
<1>9. ~LookForIdentResponse /\ ~RequestSettings /\ ~ReadSettings /\ ~SetSettings
  BY DEF LookForIdentResponse, RequestSettings, StartReadSettings, ReadSettings, SetSettings,
         StartWriteSettings, HandlerOK
<1>10. CASE ChainTakes
  <2>1. UNCHANGED <<State, handler, next, rx>>
    BY <1>10, ChainTakesTypes DEF host
  <2>2. due # {} => due' # {}
    BY <1>10, BankStores
  <2>3. PICK u \in Seq(Frames) : Uplink' = Uplink \o u
    BY <1>10, TakenAll
  <2>4. up' = up \o u /\ up \in Seq(Frames)
    BY <1>10, <2>3, TakenUp
  <2>5. NoStatus(up') => NoStatus(up)
    BY <2>4, NoneConcat DEF NoStatus
  <2> QED  BY <1>3, <2>1, <2>2, <2>5 DEF StatusComing
<1>11. CASE ChainReports
  <2>1. PICK f \in AnswerFrames, p \in due :
          f = Answer("WRITE_SETTINGS", p, 0, 0) /\ up' = up \o <<f>>
    BY <1>11, ChainReportsTypes
  <2>2. IsA(f, "55", "WRITE_SETTINGS") /\ f \in Frames
    BY <2>1, AnswerFacts DEF Answer, Frame, IsA
  <2>3. PICK e \in Seq(Frames), w \in Seq(Frames) : w = up /\ up' = w \o e /\ ~NoStatus(e)
    BY <2>1, <2>2, OneFrame DEF LineType, NoStatus
  <2>4. ~NoStatus(w \o e)
    BY <2>3, NoneConcat DEF NoStatus
  <2> QED  BY <2>3, <2>4 DEF StatusComing
<1> QED  BY <1>2, <1>4, <1>5, <1>6, <1>7, <1>8, <1>9, <1>10, <1>11 DEF NoRequest

-----------------------------------------------------------------------------
(***************************************************************************)
(* NeverInVain                                                             *)
(***************************************************************************)

LEMMA IdentAnswerComes ==
  ASSUME LinesInv, IdentInv, ~lost, ~hasty
  PROVE  IdentComes
<1> SUFFICES ASSUME State = "ConnectedWaitIdentResponse"
             PROVE  Commands("IDENTIFY") # {} \/ Answers("IDENTIFY") # {}
  BY DEF IdentComes
<1>1. CASE None(Downlink, "AA", "IDENTIFY")
  <2>1. \E f \in Elements(Uplink) : IsIdent(f)
    BY <1>1 DEF IdentInv, Awaited, Answered, Coming
  <2>2. ~None(Uplink, "55", "IDENTIFY")
    BY <2>1, NoneIdent
  <2> QED  BY <2>2 DEF None, Answers
<1>2. CASE ~None(Downlink, "AA", "IDENTIFY")
  BY <1>2 DEF None, Commands
<1> QED  BY <1>1, <1>2

LEMMA ReadAnswerComes ==
  ASSUME ReadComing, ~lost, ~hasty, InBootloader = {}
  PROVE  ReadComes
<1> SUFFICES ASSUME State = "ConnectedWaitReadSettings"
             PROVE  \/ Answers("READ_SETTINGS") # {}
                    \/ \E i \in Commands("READ_SETTINGS") :
                         Target(Downlink[i]) \in Banks \ InBootloader
  BY DEF ReadComes
<1>1. CASE \E f \in Elements(Uplink) : IsA(f, "55", "READ_SETTINGS")
  BY <1>1, NoneOf DEF None, Answers
<1>2. CASE \E f \in Elements(Downlink) : IsA(f, "AA", "READ_SETTINGS") /\ Target(f) \in Banks
  BY <1>2 DEF Elements, Commands, Where
<1> QED  BY <1>1, <1>2 DEF ReadComing

LEMMA WriteEchoComes ==
  ASSUME EchoComing, ~lost, ~hasty
  PROVE  EchoComes
<1> SUFFICES ASSUME State = "ConnectedWaitWriteSettings"
             PROVE  Commands("WRITE_SETTINGS") # {} \/ Echoes("WRITE_SETTINGS") # {}
  BY DEF EchoComes
<1>1. CASE \E f \in Elements(Uplink) : Echoed(f)
  BY <1>1, NoneOf DEF None, Echoes, Echoed
<1>2. CASE \E f \in Elements(Downlink) : IsA(f, "AA", "WRITE_SETTINGS")
  BY <1>2, NoneOf DEF None, Commands
<1> QED  BY <1>1, <1>2 DEF EchoComing

LEMMA WriteReportComes ==
  ASSUME LinesInv, StatusComing, ~lost, ~hasty
  PROVE  ReportComes
<1> SUFFICES ASSUME State = "ConnectedWaitFinishWriteSettings"
             PROVE  due # {} \/ Answers("WRITE_SETTINGS") # {}
  BY DEF ReportComes
<1>1. LinesTyped
  BY LineSeqs DEF LinesInv, TypeInv
<1>2. PICK q \in Seq(Frames), u \in Seq(Frames) : q = Pending /\ u = up /\ Uplink = q \o u
  BY <1>1 DEF LinesTyped, Uplink, LinesInv, TypeInv, LineType
<1>3. None(q \o u, "55", "WRITE_SETTINGS") <=> (NoStatus(q) /\ NoStatus(u))
  BY NoneConcat DEF NoStatus
<1>4. handler = State /\ next = 1 => q = rx
  <2>1. State # "none" /\ rx \in Seq(Frames)
    BY DEF LinesInv, TypeInv, HostType, States, LineType
  <2> QED  BY <1>2, <2>1, SubSeqFull DEF Pending
<1>5. due # {} \/ ~NoStatus(u) \/ ~NoStatus(q)
  BY <1>2, <1>4 DEF StatusComing
<1> QED  BY <1>2, <1>3, <1>5 DEF None, Answers

\* While txfifo has room and no bank in the bootloader is given settings, what a write
\* waits for is coming, in any chain.
LEMMA WriteComingHolds ==
  Spec /\ [](SparesBootloader /\ Room) => [](LinesInv /\ IdentInv /\ WriteComing)
<1>1. Init => BootInv /\ WriteComing
  BY DEF Init, BootInv, Identified, WriteComing, EchoComing, ReportComing, StatusComing
<1>2. /\ LinesInv /\ LinesInv' /\ IdentInv /\ CmdInv /\ LeftInv /\ SparesBootloader /\ Room
      /\ BootInv /\ WriteComing /\ [Next]_vars
      => BootInv' /\ WriteComing'
  BY BootStep, WriteComingStep, StatusComingStep DEF WriteComing
<1> QED  BY <1>1, <1>2, CmdInvHolds, PTL DEF Spec

\* Without banks in the bootloader, what a reading waits for is coming, too.
LEMMA ReadComingHolds ==
  ASSUME InBootloader = {}
  PROVE  Spec /\ []Room => [](LinesInv /\ ReadComing)
<1>1. Init => ReadComing
  BY DEF Init, ReadComing
<1>2. /\ LinesInv /\ LinesInv' /\ IdentInv /\ Room /\ ReadComing /\ [Next]_vars
      => ReadComing'
  BY ReadComingStep
<1> QED  BY <1>1, <1>2, CmdInvHolds, PTL DEF Spec

\* With banks in the bootloader, too, no state waits in vain for an answer to IDENTIFY, for
\* the echo of a part or the report of a bank (PacketHandler.c:336-375, 462-545), in behaviours in
\* which the application gives those banks no settings and txfifo is never full.
THEOREM WritesNeverInVain ==
  Spec /\ [](SparesBootloader /\ HasRoom)
    => [](~lost /\ ~hasty => IdentComes /\ EchoComes /\ ReportComes)
<1>1. HasRoom => Room
  BY DEF Room
<1>2. LinesInv /\ IdentInv /\ WriteComing
        => (~lost /\ ~hasty => IdentComes /\ EchoComes /\ ReportComes)
  BY IdentAnswerComes, WriteEchoComes, WriteReportComes DEF WriteComing
<1> QED  BY <1>1, <1>2, WriteComingHolds, PTL

LEMMA NeverInVainWithRoom ==
  ASSUME InBootloader = {}
  PROVE  Spec /\ []Room => []NeverInVain
<1>1. SparesBootloader
  BY DEF SparesBootloader
<1>2. LinesInv /\ IdentInv /\ WriteComing /\ ReadComing => NeverInVain
  BY IdentAnswerComes, ReadAnswerComes, WriteEchoComes, WriteReportComes
     DEF WriteComing, NeverInVain
<1> QED  BY <1>1, <1>2, WriteComingHolds, ReadComingHolds, PTL

\* No state waits for a frame that nobody is going to send (PacketHandler.c:336-545; the
\* handlers have no timeout), in behaviours in which txfifo is never full, for any chain
\* without a bank in its bootloader - such a bank answers no READ, and the host reads it all
\* the same.
THEOREM NeverInVainUnlessFull ==
  InBootloader = {} => (Spec /\ []HasRoom => []NeverInVain)
<1> SUFFICES ASSUME InBootloader = {} PROVE Spec /\ []HasRoom => []NeverInVain
  OBVIOUS
<1>1. HasRoom => Room
  BY DEF Room
<1> QED  BY <1>1, NeverInVainWithRoom, PTL

\* The same for any behaviour with fewer requests than txfifo has room for: no packet is
\* ever refused then.
THEOREM NeverInVainHolds ==
  InBootloader = {} /\ (\A b \in Budgets : b.requests < TxMax) => (Spec => []NeverInVain)
<1> SUFFICES ASSUME InBootloader = {}, \A b \in Budgets : b.requests < TxMax
             PROVE  Spec => []NeverInVain
  OBVIOUS
<1>1. LinesInv /\ CmdInv /\ LeftInv /\ LoadInv => Room
  BY RoomForMore DEF LinesInv, TypeInv
<1> QED  BY <1>1, LoadInvHolds, NeverInVainWithRoom, PTL

=============================================================================
