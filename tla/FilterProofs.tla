---------------------------- MODULE FilterProofs ----------------------------
(***************************************************************************)
(* The text of a message, for every message over every alphabet, and for   *)
(* every limit: the lines are printable, give the message back, fit, and   *)
(* are cut where the model of the log says.                                *)
(***************************************************************************)
EXTENDS Filter, Induction

Byte == 0..255

-----------------------------------------------------------------------------
(* One character.                                                           *)

\* The digits of a character make it up again.
LEMMA HexDigits ==
  ASSUME NEW c \in Byte
  PROVE  \E h, l \in 0..15 :
           /\ c = 16 * h + l
           /\ Character_To_Hex(c) = <<Hex_Table(h), Hex_Table(l)>>
<1> DEFINE h == c \div 16
           l == c % 16
<1>1. h \in 0..15 /\ l \in 0..15 /\ c = 16 * h + l /\ h % 16 = h
  BY DEF Byte
<1>2. Character_To_Hex(c) = <<Hex_Table(h), Hex_Table(l)>>
  BY <1>1 DEF Character_To_Hex
<1> QED
  BY <1>1, <1>2

LEMMA HexTable ==
  ASSUME NEW n \in 0..15
  PROVE  /\ Hex_Table(n) \in 48..57 \union 97..102
         /\ Hex_Value(Hex_Table(n)) = n
BY DEF Hex_Table, Hex_Value

LEMMA FourBytes ==
  ASSUME NEW a \in Nat, NEW b \in Nat, NEW c \in Nat, NEW d \in Nat
  PROVE  <<a, b>> \o <<c, d>> = <<a, b, c, d>>
<1>1. <<a, b>> \in Seq(Nat) /\ <<c, d>> \in Seq(Nat) /\ <<a, b, c, d>> \in Seq(Nat)
  OBVIOUS
<1>2. /\ <<a, b>> \o <<c, d>> \in Seq(Nat) /\ Len(<<a, b>> \o <<c, d>>) = 4
      /\ \A i \in 1..4 : (<<a, b>> \o <<c, d>>)[i] = <<a, b, c, d>>[i]
  BY <1>1, ConcatProperties
<1> QED
  BY <1>1, <1>2, SeqEqual

\* What Filter_Character gives for a character: an escape in hexadecimal, a
\* doubled backslash, or the character itself.
LEMMA FilterCases ==
  ASSUME NEW c \in Byte
  PROVE  \/ \E h, l \in 0..15 :
              /\ c = 16 * h + l
              /\ Filter_Character(c) = <<Backslash, Letter_x, Hex_Table(h), Hex_Table(l)>>
         \/ c = Backslash /\ Filter_Character(c) = <<Backslash, Backslash>>
         \/ c # Backslash /\ Printable(c) /\ Filter_Character(c) = <<c>>
<1>1. CASE c <= US \/ c >= DEL
  <2>1. PICK h \in 0..15, l \in 0..15 :
          c = 16 * h + l /\ Character_To_Hex(c) = <<Hex_Table(h), Hex_Table(l)>>
    BY HexDigits
  <2>2. c # Backslash
    BY <1>1 DEF Byte, US, DEL, Backslash
  <2>3. Filter_Character(c) = <<Backslash, Letter_x>> \o Character_To_Hex(c)
    BY <1>1, <2>2 DEF Filter_Character
  <2>4. <<Backslash, Letter_x>> \o <<Hex_Table(h), Hex_Table(l)>>
          = <<Backslash, Letter_x, Hex_Table(h), Hex_Table(l)>>
    BY FourBytes, HexTable, SMTT(20) DEF Backslash, Letter_x
  <2> QED
    BY <2>1, <2>3, <2>4
<1>2. CASE ~(c <= US \/ c >= DEL)
  BY <1>2 DEF Filter_Character, Printable, Byte, US, DEL
<1> QED
  BY <1>1, <1>2

\* It is printable, and one, two or four bytes long.
LEMMA FilterCharacter ==
  ASSUME NEW c \in Byte
  PROVE  /\ Filter_Character(c) \in Seq(Byte)
         /\ Len(Filter_Character(c)) \in {1, 2, 4}
         /\ \A j \in 1..Len(Filter_Character(c)) : Printable(Filter_Character(c)[j])
<1>1. ASSUME NEW h \in 0..15, NEW l \in 0..15,
             Filter_Character(c) = <<Backslash, Letter_x, Hex_Table(h), Hex_Table(l)>>
      PROVE  /\ Filter_Character(c) \in Seq(Byte)
             /\ Len(Filter_Character(c)) = 4
             /\ \A j \in 1..4 : Printable(Filter_Character(c)[j])
  <2>1. Hex_Table(h) \in 48..102 /\ Hex_Table(l) \in 48..102
    BY HexTable
  <2> QED
    BY <1>1, <2>1 DEF Byte, Backslash, Letter_x, Printable, US, DEL
<1>2. CASE Filter_Character(c) = <<Backslash, Backslash>>
  BY <1>2 DEF Byte, Backslash, Printable, US, DEL
<1>3. CASE Printable(c) /\ Filter_Character(c) = <<c>>
  BY <1>3
<1> QED
  BY <1>1, <1>2, <1>3, FilterCases

-----------------------------------------------------------------------------
(* Filtered_Message_Length.                                                 *)

\* f is the filtered length of each prefix of s.
Measures(f, s) ==
  /\ f[0] = 0
  /\ \A i \in 1..Len(s) : f[i] = f[i-1] + Len(Filter_Character(s[i]))

LEMMA MaxOfInterval ==
  ASSUME NEW n \in Nat, NEW s \in SUBSET (1..n), s # {}
  PROVE  Max(s) \in s /\ \A y \in s : Max(s) >= y
<1> DEFINE T == {m \in 0..n : n - m \in s}
<1>1. \A x \in s : x \in 1..n /\ n - x \in T
  <2> SUFFICES ASSUME NEW x \in s PROVE x \in 1..n /\ n - x \in T
    OBVIOUS
  <2>1. x \in 1..n
    OBVIOUS
  <2>2. n - x \in 0..n /\ n - (n - x) = x
    BY <2>1
  <2> QED
    BY <2>1, <2>2
<1>2. T \subseteq Nat /\ T # {}
  <2>1. T # {}
    BY <1>1, Zenon
  <2> QED
    BY <2>1
<1>3. PICK t \in T : \A u \in T : t <= u
  BY <1>2, LeastNatural
<1>4. \A y \in s : n - t >= y
  BY <1>1, <1>3
<1>5. n - t \in s
  BY <1>3
<1> QED
  BY <1>4, <1>5, Zenon DEF Max

LEMMA FilteredLengthExists ==
  ASSUME NEW s \in Seq(Byte)
  PROVE  \E f : Measures(f, s) /\ Filtered_Message_Length(s) = f[Len(s)]
<1> DEFINE T == DOMAIN s
           rule(f, t) == IF t = {} THEN 0
                         ELSE LET i == Max(t)
                              IN  f[t \ {i}] + Len(Filter_Character(s[i]))
           F == CHOOSE f : f = [t \in SUBSET T |-> rule(f, t)]
           c == [t \in SUBSET T |-> Max(t)]
           r == [i \in T |-> [y \in Nat |-> y + Len(Filter_Character(s[i]))]]
<1>1. Len(s) \in Nat /\ T = 1..Len(s)
  OBVIOUS
<1>2. F = [t \in SUBSET T |-> rule(F, t)]
  <2>1. IsFiniteSet(T)
    BY <1>1, FS_Interval
  <2>2. 0 \in Nat /\ r \in [T -> [Nat -> Nat]]
    BY FilterCharacter
  <2>3. Chooses(c, T)
    BY <1>1, MaxOfInterval DEF Chooses
  <2>4. ASSUME NEW f \in [SUBSET T -> Nat], NEW t \in SUBSET T
        PROVE  Adds(f, t, 0, c, r) = rule(f, t)
    <3>1. t # {} => c[t] \in T /\ f[t \ {c[t]}] \in Nat
      BY <2>3 DEF Chooses
    <3> QED
      BY <3>1 DEF Adds
  <2> HIDE DEF c, r, T
  <2>5. PICK f \in [SUBSET T -> Nat] : FoldOf(f, T, 0, c, r)
    BY <2>1, <2>2, <2>3, FoldExists, Zenon
  <2>6. f = [t \in SUBSET T |-> rule(f, t)]
    BY <2>4, <2>5, Zenon DEF FoldOf
  <2> QED
    BY <2>6, Zenon
<1>3. Filtered_Message_Length(s) = F[T]
  BY Zenon DEF Filtered_Message_Length, FoldLeft, MapThenFoldSet
<1> HIDE DEF F
<1> DEFINE f == [i \in 0..Len(s) |-> F[1..i]]
<1>4. f[0] = 0
  BY <1>1, <1>2
<1>5. ASSUME NEW i \in 1..Len(s) PROVE f[i] = f[i-1] + Len(Filter_Character(s[i]))
  <2>1. 1..i \in SUBSET (1..i) /\ i \in Nat /\ i \in 1..i /\ 1..i # {}
    <3>1. i \in Nat /\ i \in 1..i
      OBVIOUS
    <3>2. 1..i \in SUBSET (1..i)
      BY Zenon
    <3> QED
      BY <3>1, <3>2, Zenon
  <2>2. 1..i \in SUBSET T
    BY <1>1
  <2>3. (1..i) \ {i} = 1..(i-1)
    BY <2>1
  <2>4. Max(1..i) = i
    <3>1. Max(1..i) \in 1..i /\ Max(1..i) >= i
      BY <2>1, MaxOfInterval, Zenon
    <3> QED
      BY <3>1
  <2>5. F[1..i] = rule(F, 1..i)
    BY <1>2, <2>2, Zenon
  <2>6. F[1..i] = F[1..(i-1)] + Len(Filter_Character(s[i]))
    BY <2>1, <2>3, <2>4, <2>5, Zenon
  <2> QED
    BY <2>6
<1>6. Filtered_Message_Length(s) = f[Len(s)]
  BY <1>1, <1>3
<1> QED
  BY <1>4, <1>5, <1>6 DEF Measures

\* There is only one.
LEMMA FilteredLengthIs ==
  ASSUME NEW s \in Seq(Byte), NEW f, Measures(f, s)
  PROVE  Filtered_Message_Length(s) = f[Len(s)]
<1>1. PICK g : Measures(g, s) /\ Filtered_Message_Length(s) = g[Len(s)]
  BY FilteredLengthExists
<1> DEFINE N == {i \in Nat : i <= Len(s) => f[i] = g[i]}
<1>2. 0 \in N
  BY <1>1 DEF Measures
<1>3. ASSUME NEW i \in Nat, i \in N PROVE i + 1 \in N
  <2> SUFFICES ASSUME i + 1 <= Len(s) PROVE f[i+1] = g[i+1]
    OBVIOUS
  <2>1. i + 1 \in 1..Len(s) /\ (i + 1) - 1 = i /\ f[i] = g[i]
    BY <1>3
  <2> QED
    BY <1>1, <2>1 DEF Measures
<1> HIDE DEF N
<1>4. Len(s) \in N
  BY <1>2, <1>3, InductiveSet
<1> QED
  BY <1>1, <1>4 DEF N

\* Widths_Of measures a message and its parts.
LEMMA Widths ==
  ASSUME NEW s \in Seq(Byte)
  PROVE  /\ Measures(Widths_Of(s), s)
         /\ Widths_Of(s) \in [0..Len(s) -> Nat]
         /\ \A i \in 0..Len(s) :
              Filtered_Message_Length(SubSeq(s, i + 1, Len(s)))
                = Widths_Of(s)[Len(s)] - Widths_Of(s)[i]
<1> DEFINE n == Len(s)
<1>1. PICK f : Measures(f, s)
  BY FilteredLengthExists
<1>2. ASSUME NEW i \in 0..n PROVE Widths_Of(s)[i] = f[i]
  <2>1. SubSeq(s, 1, i) \in Seq(Byte) /\ Len(SubSeq(s, 1, i)) = i
    BY SubSeqProperties
  <2>2. \A j \in 1..i : SubSeq(s, 1, i)[j] = s[j]
    BY SubSeqProperties
  <2>3. Measures(f, SubSeq(s, 1, i))
    BY <1>1, <2>1, <2>2 DEF Measures
  <2>4. Filtered_Message_Length(SubSeq(s, 1, i)) = f[i]
    BY <2>1, <2>3, FilteredLengthIs
  <2> QED
    BY <2>4 DEF Widths_Of
<1>3. ASSUME NEW i \in 0..n PROVE f[i] \in Nat
  <2> DEFINE N == {j \in Nat : j <= n => f[j] \in Nat}
  <2>1. 0 \in N
    BY <1>1 DEF Measures
  <2>2. ASSUME NEW j \in Nat, j \in N PROVE j + 1 \in N
    <3> SUFFICES ASSUME j + 1 <= n PROVE f[j+1] \in Nat
      OBVIOUS
    <3>1. j + 1 \in 1..n /\ (j + 1) - 1 = j /\ f[j] \in Nat /\ s[j+1] \in Byte
      BY <2>2
    <3>2. Len(Filter_Character(s[j+1])) \in Nat
      BY <3>1, FilterCharacter
    <3> QED
      BY <1>1, <3>1, <3>2 DEF Measures
  <2> HIDE DEF N
  <2>3. i \in N
    BY <2>1, <2>2, InductiveSet
  <2> QED
    BY <2>3 DEF N
<1>4. ASSUME NEW i \in 0..n
      PROVE  Filtered_Message_Length(SubSeq(s, i + 1, n)) = f[n] - f[i]
  <2> DEFINE t == SubSeq(s, i + 1, n)
             g == [j \in 0..(n - i) |-> f[i + j] - f[i]]
  <2>1. t \in Seq(Byte) /\ Len(t) = n - i /\ n - i \in Nat
    BY SubSeqProperties
  <2>2. \A j \in 1..(n - i) : t[j] = s[i + j]
    BY SubSeqProperties
  <2>3. g[0] = 0
    BY <1>3
  <2>4. ASSUME NEW j \in 1..(n - i) PROVE g[j] = g[j-1] + Len(Filter_Character(t[j]))
    <3>1. /\ i + j \in 1..n /\ j - 1 \in 0..(n - i) /\ (i + j) - 1 = i + (j - 1)
          /\ i + (j - 1) \in 0..n
      OBVIOUS
    <3>2. f[i + j] = f[i + (j - 1)] + Len(Filter_Character(s[i + j]))
      BY <1>1, <3>1 DEF Measures
    <3>3. Len(Filter_Character(s[i + j])) \in Nat
      BY <3>1, FilterCharacter
    <3>4. f[i] \in Nat /\ f[i + (j - 1)] \in Nat
      BY <1>3, <3>1
    <3>5. t[j] = s[i + j]
      BY <2>2
    <3> HIDE DEF t
    <3>6. g[j] = f[i + j] - f[i] /\ g[j-1] = f[i + (j - 1)] - f[i]
      BY <3>1
    <3> QED
      BY <3>2, <3>3, <3>4, <3>5, <3>6
  <2> HIDE DEF t
  <2>5. g[n - i] = f[n] - f[i]
    BY <2>1
  <2> HIDE DEF g
  <2>6. Measures(g, t)
    BY <2>1, <2>3, <2>4 DEF Measures
  <2> QED
    BY <2>1, <2>5, <2>6, FilteredLengthIs DEF t
<1>5. Measures(Widths_Of(s), s)
  BY <1>1, <1>2 DEF Measures
<1>6. Widths_Of(s) \in [0..n -> Nat]
  BY <1>2, <1>3 DEF Widths_Of
<1> QED
  BY <1>2, <1>4, <1>5, <1>6

-----------------------------------------------------------------------------
(* The reader.                                                              *)

\* The function that Decoded_From's definition chooses, from m on.
Decodes(f, text, m) ==
  f = [i \in m..(Len(text) + 1) |->
         IF i > Len(text) THEN << >>
         ELSE <<Escaped(text, i)>> \o f[i + Escape_Width(text, i)]]

LEMMA ByteIsInt ==
  ASSUME NEW b \in Byte
  PROVE  b \in Int /\ Hex_Value(b) \in Int
BY DEF Byte, Hex_Value

LEMMA ByteSeq ==
  ASSUME NEW s \in Seq(Byte)
  PROVE  s \in Seq(Int)
<1>1. Len(s) \in Nat /\ s \in [1..Len(s) -> Byte]
  OBVIOUS
<1>2. \A i \in 1..Len(s) : s[i] \in Int
  BY <1>1, ByteIsInt
<1>3. s \in [1..Len(s) -> Int]
  BY <1>1, <1>2
<1> QED
  BY <1>1, <1>3

\* The reader stays within the text, and reads integers.
LEMMA EscapeWidth ==
  ASSUME NEW text \in Seq(Byte), NEW i \in 1..Len(text)
  PROVE  /\ Escape_Width(text, i) \in {1, 2, 4}
         /\ i + Escape_Width(text, i) <= Len(text) + 1
         /\ Escaped(text, i) \in Int
<1>1. ASSUME NEW j \in 1..Len(text) PROVE text[j] \in Int /\ Hex_Value(text[j]) \in Int
  <2>1. text[j] \in Byte
    OBVIOUS
  <2> QED
    BY <2>1, ByteIsInt
<1>2. i < Len(text) => i + 1 \in 1..Len(text)
  OBVIOUS
<1>3. CASE text[i] # Backslash \/ i = Len(text)
  <2>1. Escape_Width(text, i) = 1
    BY <1>3 DEF Escape_Width
  <2> QED
    BY <1>1, <2>1 DEF Escaped
<1>4. CASE text[i] = Backslash /\ i < Len(text)
  <2>1. Escape_Width(text, i) = IF text[i + 1] = Letter_x /\ i + 3 <= Len(text) THEN 4 ELSE 2
    BY <1>4 DEF Escape_Width
  <2>2. i + 3 <= Len(text) => i + 2 \in 1..Len(text) /\ i + 3 \in 1..Len(text)
    OBVIOUS
  <2>3. Escaped(text, i) \in Int
    BY <1>1, <2>1, <2>2 DEF Escaped
  <2> QED
    BY <1>4, <2>1, <2>3
<1> QED
  BY <1>3, <1>4

LEMMA DecodesExists ==
  ASSUME NEW text \in Seq(Byte)
  PROVE  \E f \in [1..(Len(text) + 1) -> Seq(Int)] : Decodes(f, text, 1)
<1> DEFINE n == Len(text)
           N == {k \in Nat : k <= n =>
                   \E f \in [(n + 1 - k)..(n + 1) -> Seq(Int)] : Decodes(f, text, n + 1 - k)}
<1>1. 0 \in N
  <2> DEFINE f == [i \in (n + 1)..(n + 1) |-> << >>]
  <2>1. f \in [(n + 1)..(n + 1) -> Seq(Int)]
    BY EmptySeq
  <2>2. \A i \in (n + 1)..(n + 1) : i > n
    OBVIOUS
  <2>3. Decodes(f, text, n + 1)
    BY <2>2 DEF Decodes
  <2>4. n + 1 - 0 = n + 1
    OBVIOUS
  <2> QED
    BY <2>1, <2>3, <2>4
<1>2. ASSUME NEW k \in Nat, k \in N PROVE k + 1 \in N
  <2> SUFFICES ASSUME k + 1 <= n
               PROVE  \E f \in [(n + 1 - (k + 1))..(n + 1) -> Seq(Int)] :
                        Decodes(f, text, n + 1 - (k + 1))
    OBVIOUS
  <2> DEFINE m == n - k
  <2>1. /\ m \in 1..n /\ n \in Nat /\ n + 1 - (k + 1) = m /\ n + 1 - k = m + 1
        /\ \A i \in m..(n + 1) : i = m \/ i \in (m + 1)..(n + 1)
    OBVIOUS
  <2>2. PICK f \in [(m + 1)..(n + 1) -> Seq(Int)] : Decodes(f, text, m + 1)
    BY <1>2, <2>1
  <2> DEFINE rule(h, i) == IF i > n THEN << >>
                           ELSE <<Escaped(text, i)>> \o h[i + Escape_Width(text, i)]
             val(i) == IF i = m THEN rule(f, i) ELSE f[i]
             g == [i \in m..(n + 1) |-> val(i)]
  <2>3. \A i \in (m + 1)..(n + 1) : f[i] = rule(f, i)
    BY <2>2, Zenon DEF Decodes
  <2>4. ASSUME NEW i \in m..n
        PROVE  i + Escape_Width(text, i) \in (m + 1)..(n + 1)
    <3>1. i \in 1..n /\ m \in Nat /\ n \in Nat /\ i >= m
      BY <2>1
    <3>2. Escape_Width(text, i) \in {1, 2, 4} /\ i + Escape_Width(text, i) <= n + 1
      BY <3>1, EscapeWidth
    <3> HIDE DEF m, n
    <3> QED
      BY <3>1, <3>2
  <2>5. ASSUME NEW i \in m..(n + 1) PROVE val(i) = rule(g, i)
    <3>1. i = m \/ i \in (m + 1)..(n + 1)
      BY <2>1, Zenon
    <3>2. val(i) = rule(f, i)
      BY <2>3, <3>1, Zenon
    <3>3. i \in m..n => g[i + Escape_Width(text, i)] = f[i + Escape_Width(text, i)]
      BY <2>1, <2>4
    <3>4. i > n \/ i \in m..n
      BY <2>1
    <3> QED
      BY <3>2, <3>3, <3>4
  <2>6. ASSUME NEW i \in m..(n + 1) PROVE val(i) \in Seq(Int)
    <3>1. CASE i = m
      <4>1. Escaped(text, m) \in Int /\ f[m + Escape_Width(text, m)] \in Seq(Int)
        BY <2>1, <2>4, EscapeWidth
      <4>2. <<Escaped(text, m)>> \in Seq(Int)
        BY <4>1
      <4>3. <<Escaped(text, m)>> \o f[m + Escape_Width(text, m)] \in Seq(Int)
        BY <4>1, <4>2, ConcatProperties
      <4> QED
        BY <2>1, <3>1, <4>3
    <3>2. CASE i # m
      BY <2>1, <3>2
    <3> QED
      BY <3>1, <3>2
  <2> HIDE DEF val
  <2>7. PICK h : h = g
    OBVIOUS
  <2>8. h \in [m..(n + 1) -> Seq(Int)]
    BY <2>6, <2>7, Zenon
  <2>9. Decodes(h, text, m)
    BY <2>5, <2>7, Zenon DEF Decodes
  <2> QED
    BY <2>1, <2>8, <2>9
<1> HIDE DEF N
<1>3. n \in N
  BY <1>1, <1>2, InductiveSet
<1>4. n + 1 - n = 1
  OBVIOUS
<1> QED
  BY <1>3, <1>4 DEF N

\* What comes before does not change what is read from a place on.
LEMMA DecodeShift ==
  ASSUME NEW v \in Seq(Byte), NEW u \in Seq(Byte),
         NEW f, Decodes(f, v \o u, 1), NEW g, Decodes(g, u, 1)
  PROVE  f[Len(v) + 1] = g[1]
<1> DEFINE t == v \o u
           m == Len(v)
           n == Len(u)
           N == {k \in Nat : \A j \in 0..k : j <= n => f[m + n + 1 - j] = g[n + 1 - j]}
<1>1. /\ t \in Seq(Byte) /\ m \in Nat /\ n \in Nat /\ Len(t) = m + n
      /\ \A i \in 1..n : t[m + i] = u[i]
  BY ConcatProperties
<1> HIDE DEF t
<1>2. /\ \A i \in 1..(m + n + 1) :
           f[i] = IF i > m + n THEN << >>
                  ELSE <<Escaped(t, i)>> \o f[i + Escape_Width(t, i)]
      /\ \A i \in 1..(n + 1) :
           g[i] = IF i > n THEN << >>
                  ELSE <<Escaped(u, i)>> \o g[i + Escape_Width(u, i)]
  <2>1. f = [i \in 1..(m + n + 1) |->
               IF i > m + n THEN << >>
               ELSE <<Escaped(t, i)>> \o f[i + Escape_Width(t, i)]]
    BY <1>1, Zenon DEF Decodes, t
  <2>2. g = [i \in 1..(n + 1) |->
               IF i > n THEN << >>
               ELSE <<Escaped(u, i)>> \o g[i + Escape_Width(u, i)]]
    BY Zenon DEF Decodes
  <2> QED
    BY <2>1, <2>2, Zenon
<1>3. ASSUME NEW i \in 1..n
      PROVE  /\ Escape_Width(t, m + i) = Escape_Width(u, i)
             /\ Escaped(t, m + i) = Escaped(u, i)
  <2>1. /\ t[m + i] = u[i]
        /\ i < n => t[(m + i) + 1] = u[i + 1]
        /\ i + 3 <= n => t[(m + i) + 2] = u[i + 2] /\ t[(m + i) + 3] = u[i + 3]
    <3>1. \A j \in {1, 2, 3} : i + j <= n => i + j \in 1..n /\ m + (i + j) = (m + i) + j
      BY <1>1
    <3> QED
      BY <1>1, <3>1
  <2>2. Escape_Width(t, m + i) = Escape_Width(u, i)
    <3>1. /\ m + i = m + n <=> i = n
          /\ m + i < m + n <=> i < n
          /\ (m + i) + 3 <= m + n <=> i + 3 <= n
      <4>1. m \in Nat /\ n \in Nat /\ i \in Nat
        BY <1>1
      <4> HIDE DEF m, n
      <4> QED
        BY <4>1
    <3>2. CASE u[i] # Backslash \/ i = n
      BY <1>1, <2>1, <3>1, <3>2 DEF Escape_Width
    <3>3. CASE u[i] = Backslash /\ i < n
      BY <1>1, <2>1, <3>1, <3>3 DEF Escape_Width
    <3> QED
      BY <1>1, <3>2, <3>3
  <2>3. Escape_Width(u, i) = 4 => i + 3 <= n
    BY <1>1 DEF Escape_Width
  <2> QED
    BY <2>1, <2>2, <2>3 DEF Escaped
<1>4. 0 \in N
  <2>1. m + n + 1 - 0 \in 1..(m + n + 1) /\ m + n + 1 - 0 > m + n
    BY <1>1
  <2>2. n + 1 - 0 \in 1..(n + 1) /\ n + 1 - 0 > n
    BY <1>1
  <2>3. f[m + n + 1 - 0] = g[n + 1 - 0]
    BY <1>2, <2>1, <2>2
  <2> QED
    BY <2>3
<1>5. ASSUME NEW k \in Nat, k \in N PROVE k + 1 \in N
  <2> SUFFICES ASSUME k + 1 <= n
               PROVE  f[m + n + 1 - (k + 1)] = g[n + 1 - (k + 1)]
    BY <1>5
  <2> DEFINE i == n - k
             w == Escape_Width(u, i)
  <2>1. i \in 1..n /\ m + n + 1 - (k + 1) = m + i /\ n + 1 - (k + 1) = i
    BY <1>1
  <2>2. w \in {1, 2, 4} /\ i + w <= n + 1
    BY <2>1, EscapeWidth
  <2>3. f[(m + i) + w] = g[i + w]
    <3>1. (n + 1) - (i + w) \in 0..k /\ (n + 1) - (i + w) <= n
      BY <2>1, <2>2
    <3>2. /\ m + n + 1 - ((n + 1) - (i + w)) = (m + i) + w
          /\ n + 1 - ((n + 1) - (i + w)) = i + w
      BY <1>1, <2>1, <2>2, SMTT(20)
    <3> HIDE DEF i, w
    <3> QED
      BY <1>5, <3>1, <3>2
  <2>4. f[m + i] = <<Escaped(t, m + i)>> \o f[(m + i) + Escape_Width(t, m + i)]
    <3>1. m + i \in 1..(m + n + 1) /\ ~(m + i > m + n)
      BY <1>1, <2>1
    <3> QED
      BY <1>2, <3>1
  <2>5. g[i] = <<Escaped(u, i)>> \o g[i + w]
    <3>1. i \in 1..(n + 1) /\ ~(i > n)
      BY <1>1, <2>1
    <3> QED
      BY <1>2, <3>1
  <2> QED
    BY <1>3, <2>1, <2>3, <2>4, <2>5
<1> HIDE DEF N
<1>6. n \in N
  BY <1>1, <1>4, <1>5, InductiveSet
<1>7. f[m + n + 1 - n] = g[n + 1 - n]
  <2>1. n \in 0..n /\ n <= n
    BY <1>1
  <2> QED
    BY <1>6, <2>1 DEF N
<1>8. m + n + 1 - n = m + 1 /\ n + 1 - n = 1
  BY <1>1
<1> QED
  BY <1>7, <1>8

LEMMA DecodeUnique ==
  ASSUME NEW u \in Seq(Byte), NEW f, Decodes(f, u, 1), NEW g, Decodes(g, u, 1)
  PROVE  f[1] = g[1]
<1> DEFINE e == << >>
<1>1. e \o u = u /\ e \in Seq(Byte) /\ Len(e) + 1 = 1
  BY ConcatEmptySeq, EmptySeq
<1> HIDE DEF e
<1>2. Decodes(f, e \o u, 1)
  BY <1>1
<1>3. f[Len(e) + 1] = g[1]
  BY <1>1, <1>2, DecodeShift, ZenonT(30)
<1> QED
  BY <1>1, <1>3

LEMMA DecodedIs ==
  ASSUME NEW text \in Seq(Byte)
  PROVE  /\ Decoded_From(text) \in Seq(Int)
         /\ \E f : Decodes(f, text, 1) /\ Decoded_From(text) = f[1]
<1> DEFINE F == CHOOSE f : Decodes(f, text, 1)
<1>1. Decodes(F, text, 1)
  BY DecodesExists, Zenon
<1>2. Decoded_From(text) = F[1]
  BY Zenon DEF Decoded_From, Decodes
<1> HIDE DEF F
<1>3. PICK f \in [1..(Len(text) + 1) -> Seq(Int)] : Decodes(f, text, 1)
  BY DecodesExists
<1>4. F[1] = f[1]
  BY <1>1, <1>3, DecodeUnique
<1>5. 1 \in 1..(Len(text) + 1)
  OBVIOUS
<1> QED
  BY <1>1, <1>2, <1>3, <1>4, <1>5

LEMMA ReadsNothing == Decoded_From(<< >>) = << >>
<1> DEFINE e == << >>
<1>1. e \in Seq(Byte) /\ Len(e) = 0
  BY EmptySeq
<1> HIDE DEF e
<1>2. PICK f : Decodes(f, e, 1) /\ Decoded_From(e) = f[1]
  BY <1>1, DecodedIs
<1>3. \A i \in 1..(Len(e) + 1) :
        f[i] = IF i > Len(e) THEN << >>
               ELSE <<Escaped(e, i)>> \o f[i + Escape_Width(e, i)]
  BY <1>2, Zenon DEF Decodes
<1>4. 1 \in 1..(Len(e) + 1) /\ 1 > Len(e)
  BY <1>1
<1>5. f[1] = << >>
  BY <1>3, <1>4
<1> QED
  BY <1>2, <1>5 DEF e

\* An escape is read as the character it stands for, whatever follows.
LEMMA DecodeOne ==
  ASSUME NEW c, NEW v \in Seq(Byte), NEW u \in Seq(Byte), NEW t, t = v \o u, Len(v) > 0,
         Escape_Width(t, 1) = Len(v), Escaped(t, 1) = c
  PROVE  Decoded_From(t) = <<c>> \o Decoded_From(u)
<1>1. t \in Seq(Byte) /\ Len(t) = Len(v) + Len(u) /\ Len(v) \in Nat /\ Len(u) \in Nat
  BY ConcatProperties
<1>2. PICK f : Decodes(f, t, 1) /\ Decoded_From(t) = f[1]
  BY <1>1, DecodedIs
<1>3. PICK g : Decodes(g, u, 1) /\ Decoded_From(u) = g[1]
  BY DecodedIs
<1>4. f[Len(v) + 1] = g[1]
  BY <1>2, <1>3, DecodeShift
<1>5. \A i \in 1..(Len(t) + 1) :
        f[i] = IF i > Len(t) THEN << >>
               ELSE <<Escaped(t, i)>> \o f[i + Escape_Width(t, i)]
  BY <1>2, Zenon DEF Decodes
<1>6. 1 \in 1..(Len(t) + 1) /\ ~(1 > Len(t)) /\ 1 + Len(v) = Len(v) + 1
  BY <1>1
<1>7. f[1] = <<Escaped(t, 1)>> \o f[1 + Escape_Width(t, 1)]
  BY <1>5, <1>6
<1> QED
  BY <1>2, <1>3, <1>4, <1>6, <1>7

LEMMA DecodeCharacter ==
  ASSUME NEW c \in Byte, NEW u \in Seq(Byte)
  PROVE  Decoded_From(Filter_Character(c) \o u) = <<c>> \o Decoded_From(u)
<1> DEFINE v == Filter_Character(c)
           t == v \o u
<1>1. /\ v \in Seq(Byte) /\ t \in Seq(Byte) /\ Len(t) = Len(v) + Len(u)
      /\ Len(u) \in Nat
      /\ \A i \in 1..Len(v) : t[i] = v[i]
  BY FilterCharacter, ConcatProperties
<1> HIDE DEF t
<1>2. ASSUME NEW h \in 0..15, NEW l \in 0..15, c = 16 * h + l,
             v = <<Backslash, Letter_x, Hex_Table(h), Hex_Table(l)>>
      PROVE  Len(v) = 4 /\ Escape_Width(t, 1) = 4 /\ Escaped(t, 1) = c
  <2>1. /\ Len(v) = 4 /\ v[1] = Backslash /\ v[2] = Letter_x
        /\ v[3] = Hex_Table(h) /\ v[4] = Hex_Table(l)
    BY <1>2
  <2> HIDE DEF v
  <2>2. /\ t[1] = Backslash /\ t[1 + 1] = Letter_x
        /\ t[1 + 2] = Hex_Table(h) /\ t[1 + 3] = Hex_Table(l)
    BY <1>1, <2>1
  <2>3. Len(t) \in Nat /\ Len(t) >= 4
    BY <1>1, <2>1
  <2>4. Escape_Width(t, 1) = 4
    BY <2>2, <2>3 DEF Escape_Width
  <2>5. Escaped(t, 1) = c
    BY <1>2, <2>2, <2>4, HexTable DEF Escaped
  <2> QED
    BY <2>1, <2>4, <2>5
<1>3. ASSUME c = Backslash, v = <<Backslash, Backslash>>
      PROVE  Len(v) = 2 /\ Escape_Width(t, 1) = 2 /\ Escaped(t, 1) = c
  <2>1. Len(v) = 2
    BY <1>3
  <2>2. t[1] = Backslash /\ t[1 + 1] = Backslash
    BY <1>1, <1>3
  <2> HIDE DEF v
  <2>3. Len(t) \in Nat /\ Len(t) >= 2
    BY <1>1, <2>1
  <2>4. Escape_Width(t, 1) = 2
    BY <2>2, <2>3 DEF Escape_Width, Backslash, Letter_x
  <2> QED
    BY <1>3, <2>1, <2>2, <2>4 DEF Escaped
<1>4. ASSUME c # Backslash, v = <<c>>
      PROVE  Len(v) = 1 /\ Escape_Width(t, 1) = 1 /\ Escaped(t, 1) = c
  <2>1. Len(v) = 1
    BY <1>4
  <2>2. t[1] = c
    BY <1>1, <1>4
  <2> HIDE DEF v
  <2>3. Escape_Width(t, 1) = 1
    BY <1>4, <2>2 DEF Escape_Width
  <2> QED
    BY <2>1, <2>2, <2>3 DEF Escaped
<1>5. Len(v) > 0 /\ Escape_Width(t, 1) = Len(v) /\ Escaped(t, 1) = c
  <2>1. CASE \E h, l \in 0..15 :
               c = 16 * h + l /\ v = <<Backslash, Letter_x, Hex_Table(h), Hex_Table(l)>>
    <3>1. Len(v) = 4 /\ Escape_Width(t, 1) = 4 /\ Escaped(t, 1) = c
      BY <1>2, <2>1
    <3> QED
      BY <3>1
  <2>2. CASE c = Backslash /\ v = <<Backslash, Backslash>>
    BY <1>3, <2>2
  <2>3. CASE c # Backslash /\ v = <<c>>
    BY <1>4, <2>3
  <2> QED
    BY <2>1, <2>2, <2>3, FilterCases, Zenon
<1>6. t = v \o u
  BY DEF t
<1> HIDE DEF v
<1>7. Decoded_From(t) = <<c>> \o Decoded_From(u)
  BY <1>1, <1>5, <1>6, DecodeOne
<1> QED
  BY <1>6, <1>7 DEF v

-----------------------------------------------------------------------------

\* Whatever follows text, a reader reads s, and then what follows.
Reads(text, s) == \A u \in Seq(Byte) : Decoded_From(text \o u) = s \o Decoded_From(u)

LEMMA ReadsEmpty == Reads(<< >>, << >>)
<1> SUFFICES ASSUME NEW u \in Seq(Byte)
             PROVE  Decoded_From(<< >> \o u) = << >> \o Decoded_From(u)
  BY DEF Reads
<1>1. Decoded_From(u) \in Seq(Int)
  BY DecodedIs
<1>2. << >> \o u = u /\ << >> \o Decoded_From(u) = Decoded_From(u)
  BY <1>1, ConcatEmptySeq
<1> QED
  BY <1>2

LEMMA ReadsMore ==
  ASSUME NEW text \in Seq(Byte), NEW s \in Seq(Byte), NEW c \in Byte, Reads(text, s)
  PROVE  Reads(text \o Filter_Character(c), Append(s, c))
<1> SUFFICES ASSUME NEW u \in Seq(Byte)
             PROVE  Decoded_From((text \o Filter_Character(c)) \o u)
                      = Append(s, c) \o Decoded_From(u)
  BY DEF Reads
<1> DEFINE v == Filter_Character(c)
           d == Decoded_From(u)
           w == v \o u
           dw == Decoded_From(w)
<1>1. v \in Seq(Byte) /\ w \in Seq(Byte) /\ d \in Seq(Int)
  BY FilterCharacter, DecodedIs, ConcatProperties
<1>2. (text \o v) \o u = text \o w
  BY <1>1, ConcatAssociative
<1>3. dw = <<c>> \o d
  BY DecodeCharacter
<1> HIDE DEF w, d, v
<1>4. Decoded_From(text \o w) = s \o dw
  BY <1>1 DEF Reads
<1> HIDE DEF dw
<1> DEFINE q == <<c>>
<1>5. s \in Seq(Int) /\ q \in Seq(Int) /\ s \o q = Append(s, c)
  <2>1. s \in Seq(Int) /\ c \in Int
    BY ByteSeq, ByteIsInt
  <2> QED
    BY <2>1, AppendIsConcat
<1>6. dw = q \o d
  BY <1>3
<1> HIDE DEF q
<1>7. Joins(s, dw, Append(s, c) \o d)
  <2>1. Joins(s, q, Append(s, c)) /\ Joins(q, d, dw)
    BY <1>5, <1>6 DEF Joins
  <2>2. Joins(Append(s, c), d, Append(s, c) \o d)
    BY DEF Joins
  <2>3. s \in Seq(Int) /\ q \in Seq(Int) /\ d \in Seq(Int)
    BY <1>1, <1>5
  <2> QED
    BY <2>1, <2>2, <2>3, Regroup, Zenon
<1> QED
  BY <1>2, <1>4, <1>7 DEF v, d, Joins

LEMMA ReadsAll ==
  ASSUME NEW text \in Seq(Byte), NEW s \in Seq(Byte), Reads(text, s)
  PROVE  Decoded_From(text) = s
<1> DEFINE e == << >>
<1>1. e \in Seq(Byte) /\ text \o e = text /\ s \o e = s
  BY EmptySeq, ConcatEmptySeq
<1>2. Decoded_From(e) = e
  BY ReadsNothing
<1> HIDE DEF e
<1>3. Decoded_From(text \o e) = s \o Decoded_From(e)
  BY <1>1 DEF Reads
<1> QED
  BY <1>1, <1>2, <1>3

-----------------------------------------------------------------------------
(* The invariant.                                                           *)

Text_OK(text) == \A j \in 1..Len(text) : Printable(text[j])

\* A line that a reader has in full.
Line_OK(line, max) ==
  /\ line # << >> /\ line[Len(line)] = LF
  /\ Text_OK(Front(line))
  /\ max # No_Limit => Len(line) <= max

Read(line) == Decoded_From(Front(line))

\* The complete lines c are the first o characters of d.
Complete_OK(c, d, o, max) ==
  /\ \A i \in 1..Len(c) : Line_OK(c[i], max)
  /\ FlattenSeq([i \in 1..Len(c) |-> Read(c[i])]) = SubSeq(d, 1, o)

\* Write_Message has written the characters from o to e of d.
Text_So_Far(text, d, o, e) ==
  /\ Text_OK(text) /\ Reads(text, SubSeq(d, o + 1, e))
  /\ Len(text) = Widths_Of(d)[e] - Widths_Of(d)[o]

Types_OK ==
  /\ data \in Seq(Byte)
  /\ max_length \in Max_Lengths \union {No_Limit}
  /\ Current_Offset \in 0..Len(data)
  /\ lines \in Seq(Seq(Byte))
  /\ pc \in {"idle", "piece", "message"}
  /\ pc = "idle" => Current_Offset = 0 /\ lines = << >>

\* Write_Message stays below its limit, or has none and need not have one.
Limit_OK(text) ==
  \/ /\ Limit = 0
     /\ \/ max_length = No_Limit
        \/ Widths_Of(data)[Len(data)] - Widths_Of(data)[Current_Offset] < max_length
  \/ Limit = max_length /\ max_length \in Max_Lengths /\ Len(text) < Limit

Piece_OK ==
  /\ lines # << >>
  /\ Index \in 0..(Len(data) - Current_Offset)
  /\ Status.Characters_Written = Len(lines[Len(lines)])
  /\ Status.Characters_Processed = Index
  /\ Text_So_Far(lines[Len(lines)], data, Current_Offset, Current_Offset + Index)
  /\ Limit_OK(lines[Len(lines)])

FilterInv ==
  /\ Types_OK
  /\ Complete_OK(Complete, data, Current_Offset, max_length)
  /\ pc = "message" => Piece_OK

-----------------------------------------------------------------------------
(* What the actions do to the lines.                                        *)

LEMMA LastLine ==
  ASSUME NEW S, NEW s \in Seq(S), s # << >>
  PROVE  /\ Front(s) \in Seq(S) /\ s[Len(s)] \in S /\ s = Append(Front(s), s[Len(s)])
         /\ Len(Front(s)) = Len(s) - 1
<1>1. PICK f \in Seq(S), x \in S : s = Append(f, x)
  BY SequenceEmptyOrAppend
<1>2. Len(s) = Len(f) + 1 /\ s[Len(s)] = x /\ Len(f) \in Nat
  BY <1>1, AppendProperties
<1>3. Front(s) = f
  BY <1>1, <1>2, FrontOfAppend
<1> QED
  BY <1>1, <1>2, <1>3

LEMMA ExceptLast ==
  ASSUME NEW S, NEW s \in Seq(S), s # << >>, NEW x \in S
  PROVE  [s EXCEPT ![Len(s)] = x] = Append(Front(s), x)
<1> DEFINE f == Front(s)
           t == [s EXCEPT ![Len(s)] = x]
           u == Append(f, x)
<1>1. /\ f \in Seq(S) /\ Len(f) = Len(s) - 1 /\ s = Append(f, s[Len(s)])
      /\ s[Len(s)] \in S
  BY LastLine
<1>2. Len(s) \in Nat /\ Len(s) \in 1..Len(s)
  BY EmptySeq
<1>3. /\ t \in Seq(S) /\ Len(t) = Len(s)
      /\ \A j \in 1..Len(s) : t[j] = IF j = Len(s) THEN x ELSE s[j]
  BY <1>2, ExceptSeq
<1>4. /\ u \in Seq(S) /\ Len(u) = Len(f) + 1 /\ u[Len(f) + 1] = x
      /\ \A j \in 1..Len(f) : u[j] = f[j]
  BY <1>1, AppendProperties
<1>5. \A j \in 1..Len(f) : s[j] = f[j]
  BY <1>1, AppendProperties
<1> HIDE DEF f, t, u
<1>6. \A j \in 1..Len(t) : t[j] = u[j]
  BY <1>1, <1>2, <1>3, <1>4, <1>5, SMTT(20)
<1>7. t = u
  BY <1>1, <1>2, <1>3, <1>4, <1>6, SeqEqual
<1> QED
  BY <1>7 DEF t, u, f

\* A text with its LF is a complete line.
LEMMA LineEnds ==
  ASSUME NEW text \in Seq(Byte)
  PROVE  /\ text \o <<LF>> \in Seq(Byte)
         /\ Len(text \o <<LF>>) = Len(text) + 1 /\ text \o <<LF>> # << >>
         /\ (text \o <<LF>>)[Len(text) + 1] = LF
         /\ Front(text \o <<LF>>) = text
<1>1. LF \in Byte
  BY DEF LF, Byte
<1> DEFINE line == text \o <<LF>>
<1>2. line = Append(text, LF)
  BY <1>1, AppendIsConcat
<1> HIDE DEF line
<1>3. Front(line) = text
  BY <1>1, <1>2, FrontOfAppend
<1>4. /\ line \in Seq(Byte) /\ line # << >> /\ Len(line) = Len(text) + 1
      /\ line[Len(text) + 1] = LF
  BY <1>1, <1>2, AppendProperties
<1> QED
  BY <1>3, <1>4 DEF line

LEMMA CompleteMore ==
  ASSUME NEW c \in Seq(Seq(Byte)), NEW d \in Seq(Byte), NEW o \in 0..Len(d), NEW e \in o..Len(d),
         NEW max, Complete_OK(c, d, o, max),
         NEW text \in Seq(Byte), Text_OK(text), Reads(text, SubSeq(d, o + 1, e)),
         max # No_Limit => Len(text) + 1 <= max
  PROVE  Complete_OK(Append(c, text \o <<LF>>), d, e, max)
<1> DEFINE line == text \o <<LF>>
           c2 == Append(c, line)
           reads == [i \in 1..Len(c) |-> Read(c[i])]
           reads2 == [i \in 1..Len(c2) |-> Read(c2[i])]
           part == SubSeq(d, o + 1, e)
<1>1. line \in Seq(Byte) /\ Line_OK(line, max) /\ Front(line) = text
  BY LineEnds DEF Line_OK
<1> HIDE DEF line
<1>2. /\ c2 \in Seq(Seq(Byte)) /\ Len(c) \in Nat /\ Len(c2) = Len(c) + 1
      /\ c2[Len(c) + 1] = line /\ \A i \in 1..Len(c) : c2[i] = c[i]
  BY <1>1, AppendProperties
<1> HIDE DEF c2
<1>3. ASSUME NEW i \in 1..Len(c2) PROVE Line_OK(c2[i], max)
  <2>1. i = Len(c) + 1 \/ i \in 1..Len(c)
    BY <1>2
  <2> QED
    BY <1>1, <1>2, <2>1 DEF Complete_OK
<1>4. part \in Seq(Byte) /\ Len(d) \in Nat
  BY SubSeqProperties
<1>5. Read(line) = part
  BY <1>1, <1>4, ReadsAll DEF Read
<1>6. \A i \in 1..Len(c) : Read(c[i]) \in Seq(Int)
  <2> SUFFICES ASSUME NEW i \in 1..Len(c) PROVE Read(c[i]) \in Seq(Int)
    OBVIOUS
  <2>1. c[i] \in Seq(Byte) /\ c[i] # << >>
    BY DEF Complete_OK, Line_OK
  <2>2. Front(c[i]) \in Seq(Byte)
    BY <2>1, LastLine
  <2> QED
    BY <2>2, DecodedIs DEF Read
<1> HIDE DEF part
<1>7. reads \in Seq(Seq(Int)) /\ Len(reads) = Len(c) /\ part \in Seq(Int)
  BY <1>2, <1>4, <1>6, ByteSeq
<1>8. reads2 = Append(reads, part)
  <2>1. /\ Append(reads, part) \in Seq(Seq(Int)) /\ Len(Append(reads, part)) = Len(c) + 1
        /\ Append(reads, part)[Len(c) + 1] = part
        /\ \A i \in 1..Len(c) : Append(reads, part)[i] = reads[i]
    BY <1>7, AppendProperties
  <2>2. \A i \in 1..(Len(c) + 1) : reads2[i] = Append(reads, part)[i]
    <3> SUFFICES ASSUME NEW i \in 1..(Len(c) + 1) PROVE reads2[i] = Append(reads, part)[i]
      OBVIOUS
    <3>1. CASE i = Len(c) + 1
      BY <1>2, <1>5, <2>1, <3>1
    <3>2. CASE i # Len(c) + 1
      <4>1. i \in 1..Len(c)
        BY <1>2, <3>2
      <4> QED
        BY <1>2, <2>1, <4>1
    <3> QED
      BY <3>1, <3>2
  <2>3. \A i \in 1..(Len(c) + 1) : reads2[i] \in Seq(Int)
    <3>1. \A i \in 1..(Len(c) + 1) : Append(reads, part)[i] \in Seq(Int)
      <4> HIDE DEF reads
      <4> QED
        BY <2>1, ElementOfSeq
    <3> QED
      BY <2>2, <3>1
  <2>4. reads2 \in Seq(Seq(Int)) /\ Len(reads2) = Len(c) + 1
    BY <1>2, <2>3
  <2> HIDE DEF reads, reads2
  <2> QED
    BY <2>1, <2>2, <2>4, SeqEqual
<1> HIDE DEF reads, reads2
<1>9. FlattenSeq(reads2) = FlattenSeq(reads) \o part
  BY <1>7, <1>8, FlattenAppend
<1>10. FlattenSeq(reads) = SubSeq(d, 1, o)
  BY DEF Complete_OK, reads
<1>11. SubSeq(d, 1, o) \o part = SubSeq(d, 1, e)
  <2>1. 1 \in 1..(Len(d) + 1) /\ o \in (1 - 1)..Len(d)
    BY <1>4
  <2> QED
    BY <2>1, ConcatAdjacentSubSeq DEF part
<1> QED
  BY <1>3, <1>9, <1>10, <1>11 DEF Complete_OK, c2, line, reads2

LEMMA TextBegins ==
  ASSUME NEW d \in Seq(Byte), NEW o \in 0..Len(d)
  PROVE  Text_So_Far(<< >>, d, o, o)
<1>1. SubSeq(d, o + 1, o) = << >>
  BY SubSeqEmpty
<1>2. Widths_Of(d)[o] - Widths_Of(d)[o] = 0
  <2>1. Widths_Of(d)[o] \in Nat
    BY Widths
  <2> QED
    BY <2>1
<1>3. Text_OK(<< >>) /\ Len(<< >>) = 0
  BY EmptySeq DEF Text_OK
<1> QED
  BY <1>1, <1>2, <1>3, ReadsEmpty DEF Text_So_Far

LEMMA TextGrows ==
  ASSUME NEW d \in Seq(Byte), NEW o \in 0..Len(d), NEW e \in o..Len(d), e # Len(d),
         NEW text \in Seq(Byte), Text_So_Far(text, d, o, e)
  PROVE  LET more == Filter_Character(d[e + 1])
         IN  /\ Text_So_Far(text \o more, d, o, e + 1)
             /\ text \o more \in Seq(Byte) /\ Len(text \o more) = Len(text) + Len(more)
             /\ Widths_Of(d)[e + 1] = Widths_Of(d)[e] + Len(more)
<1> DEFINE more == Filter_Character(d[e + 1])
           t == text \o more
           s == SubSeq(d, o + 1, e)
<1>1. e + 1 \in 1..Len(d) /\ d[e + 1] \in Byte /\ (e + 1) - 1 = e
  OBVIOUS
<1>2. more \in Seq(Byte) /\ \A j \in 1..Len(more) : Printable(more[j])
  BY <1>1, FilterCharacter
<1>3. s \in Seq(Byte)
  BY SubSeqProperties
<1>4. Reads(t, Append(s, d[e + 1]))
  BY <1>1, <1>3, ReadsMore DEF Text_So_Far
<1>5. Append(s, d[e + 1]) = SubSeq(d, o + 1, e + 1)
  <2>1. o + 1 \in 1..Len(d) /\ e + 1 \in (o + 1)..Len(d)
    BY <1>1
  <2>2. SubSeq(d, o + 1, e + 1) = SubSeq(d, o + 1, (e + 1) - 1) \o <<d[e + 1]>>
    BY <2>1, SubSeqRecursiveSecond
  <2> QED
    BY <1>1, <1>3, <2>2, AppendIsConcat
<1>6. Widths_Of(d)[e + 1] = Widths_Of(d)[e] + Len(more)
  BY <1>1, Widths DEF Measures
<1> HIDE DEF more
<1>7. /\ t \in Seq(Byte) /\ Len(t) = Len(text) + Len(more)
      /\ Len(text) \in Nat /\ Len(more) \in Nat
      /\ \A j \in 1..Len(t) : t[j] = IF j <= Len(text) THEN text[j] ELSE more[j - Len(text)]
  BY <1>2, ConcatProperties
<1> HIDE DEF t, s
<1>8. Text_OK(t)
  <2> SUFFICES ASSUME NEW j \in 1..Len(t) PROVE Printable(t[j])
    BY DEF Text_OK
  <2>1. CASE j <= Len(text)
    BY <1>7, <2>1 DEF Text_So_Far, Text_OK
  <2>2. CASE ~(j <= Len(text))
    <3>1. j - Len(text) \in 1..Len(more)
      BY <1>7, <2>2
    <3> QED
      BY <1>2, <1>7, <2>2, <3>1
  <2> QED
    BY <2>1, <2>2
<1>9. Len(t) = Widths_Of(d)[e + 1] - Widths_Of(d)[o]
  <2>1. Widths_Of(d)[e] \in Nat /\ Widths_Of(d)[o] \in Nat
    BY Widths, SMTT(20)
  <2> QED
    BY <1>6, <1>7, <2>1 DEF Text_So_Far
<1> QED
  BY <1>4, <1>5, <1>6, <1>7, <1>8, <1>9 DEF Text_So_Far, t, more

-----------------------------------------------------------------------------
(* The invariant is kept.                                                   *)

\* With no line, nothing has been written.
LEMMA NothingComplete ==
  ASSUME NEW d, NEW max
  PROVE  Complete_OK(<< >>, d, 0, max)
<1> DEFINE e == << >>
<1>1. Len(e) = 0 /\ \A i \in 1..0 : Line_OK(e[i], max)
  OBVIOUS
<1>2. [i \in 1..Len(e) |-> Read(e[i])] = << >>
  BY <1>1
<1>3. SubSeq(d, 1, 0) = << >>
  BY SubSeqEmpty
<1> HIDE DEF e
<1>4. FlattenSeq([i \in 1..Len(e) |-> Read(e[i])]) = SubSeq(d, 1, 0)
  BY <1>2, <1>3, FlattenEmpty
<1>5. Complete_OK(e, d, 0, max)
  BY <1>1, <1>4 DEF Complete_OK
<1> QED
  BY <1>5 DEF e

\* A line added at the end is the last one, and the others are in front of it.
LEMMA LineAdded ==
  ASSUME NEW S, NEW s \in Seq(S), NEW x \in S, NEW t, t = Append(s, x)
  PROVE  t \in Seq(S) /\ t # << >> /\ t[Len(t)] = x /\ Front(t) = s
<1>1. t \in Seq(S) /\ t # << >> /\ Len(t) = Len(s) + 1 /\ t[Len(s) + 1] = x
  BY AppendProperties
<1>2. Front(t) = s
  BY FrontOfAppend
<1> QED
  BY <1>1, <1>2

LEMMA WidthsGrow ==
  ASSUME NEW s \in Seq(Byte), NEW i \in 0..Len(s)
  PROVE  Widths_Of(s)[Len(s)] - Widths_Of(s)[i] \in Nat
<1> DEFINE t == SubSeq(s, i + 1, Len(s))
<1>1. t \in Seq(Byte)
  BY SubSeqProperties
<1>2. Filtered_Message_Length(t) = Widths_Of(s)[Len(s)] - Widths_Of(s)[i]
  BY Widths
<1> HIDE DEF t
<1>3. Measures(Widths_Of(t), t) /\ Widths_Of(t) \in [0..Len(t) -> Nat] /\ Len(t) \in Nat
  BY <1>1, Widths
<1>4. Filtered_Message_Length(t) \in Nat
  BY <1>1, <1>3, FilteredLengthIs
<1> QED
  BY <1>2, <1>4

LEMMA RestOfData ==
  ASSUME Types_OK
  PROVE  /\ Len(Rest) = Len(data) - Current_Offset /\ Len(Rest) \in Nat
         /\ \A i \in 1..Len(Rest) : Rest[i] = data[Current_Offset + i]
         /\ Filtered_Message_Length(Rest)
              = Widths_Of(data)[Len(data)] - Widths_Of(data)[Current_Offset]
<1>1. data \in Seq(Byte) /\ Current_Offset \in 0..Len(data) /\ Len(data) \in Nat
  BY DEF Types_OK
<1>2. Filtered_Message_Length(Rest)
        = Widths_Of(data)[Len(data)] - Widths_Of(data)[Current_Offset]
  BY <1>1, Widths DEF Rest
<1>3. /\ Len(Rest) = Len(data) - Current_Offset
      /\ \A i \in 1..(Len(data) - Current_Offset) : Rest[i] = data[Current_Offset + i]
  BY <1>1, SubSeqProperties DEF Rest
<1> QED
  BY <1>1, <1>2, <1>3

LEMMA WriteStep ==
  ASSUME FilterInv, NEW m \in BoundedSeq(Alphabet, MaxLength),
         NEW limit \in Max_Lengths \union {No_Limit}, Write(m, limit)
  PROVE  FilterInv'
<1>1. m \in Seq(Byte)
  <2>1. PICK n \in 0..MaxLength : m \in [1..n -> Alphabet]
    BY DEF BoundedSeq, SeqOf
  <2>2. n \in Nat /\ Alphabet \subseteq Byte
    BY AlphabetAssumption DEF Byte
  <2> QED
    BY <2>1, <2>2
<1>2. lines = << >> /\ Current_Offset = 0
  BY DEF Write, FilterInv, Types_OK
<1>3. Types_OK'
  BY <1>1, <1>2 DEF Write, FilterInv, Types_OK
<1>4. Complete' = << >>
  BY <1>2 DEF Write, Complete
<1>5. Complete_OK(<< >>, data', Current_Offset', max_length')
  BY <1>2, NothingComplete DEF Write
<1> QED
  BY <1>3, <1>4, <1>5 DEF FilterInv, Write

LEMMA BeginStep ==
  ASSUME FilterInv, Begin_Unlimited \/ Begin_Full_Line \/ Begin_Last_Line
  PROVE  FilterInv'
<1>1. /\ pc = "piece" /\ pc' = "message" /\ Index' = 0 /\ Status' = Empty_Status
      /\ lines' = Append(lines, << >>)
      /\ UNCHANGED <<data, max_length, Current_Offset>>
  BY DEF Begin_Unlimited, Begin_Full_Line, Begin_Last_Line, Begin
<1>2. << >> \in Seq(Byte) /\ lines \in Seq(Seq(Byte)) /\ data \in Seq(Byte)
  BY EmptySeq DEF FilterInv, Types_OK
<1>3. /\ lines' \in Seq(Seq(Byte)) /\ lines' # << >>
      /\ lines'[Len(lines')] = << >> /\ Front(lines') = lines
  BY <1>1, <1>2, LineAdded
<1>4. Types_OK'
  BY <1>1, <1>3 DEF FilterInv, Types_OK
<1>5. Complete_OK(Complete, data, Current_Offset, max_length)'
  BY <1>1, <1>3 DEF FilterInv, Complete
<1>6. Limit_OK(<< >>)'
  <2>0. Len(<< >>) = 0
    OBVIOUS
  <2>1. CASE Begin_Unlimited
    BY <1>1, <2>1 DEF Begin_Unlimited, Begin, Limit_OK
  <2>2. CASE Begin_Full_Line
    <3>1. max_length \in Max_Lengths
      BY <2>2 DEF Begin_Full_Line, FilterInv, Types_OK
    <3>2. max_length > 0
      BY <3>1, LimitAssumption
    <3> QED
      BY <1>1, <2>0, <2>2, <3>1, <3>2 DEF Begin_Full_Line, Begin, Limit_OK
  <2>3. CASE Begin_Last_Line
    <3>1. Widths_Of(data)[Len(data)] - Widths_Of(data)[Current_Offset] < max_length
      BY <2>3, RestOfData DEF Begin_Last_Line, Rest_Fits, FilterInv
    <3> QED
      BY <1>1, <2>3, <3>1 DEF Begin_Last_Line, Begin, Limit_OK
  <2> QED
    BY <2>1, <2>2, <2>3
<1>7. Piece_OK'
  <2>1. Current_Offset \in 0..Len(data) /\ Current_Offset + 0 = Current_Offset
    BY DEF FilterInv, Types_OK
  <2>2. Text_So_Far(<< >>, data, Current_Offset, Current_Offset + 0)
    BY <1>2, <2>1, TextBegins
  <2>3. 0 \in 0..(Len(data) - Current_Offset)
    BY <2>1
  <2>4. Len(<< >>) = 0
    OBVIOUS
  <2> QED
    BY <1>1, <1>3, <1>6, <2>2, <2>3, <2>4 DEF Piece_OK, Empty_Status
<1> QED
  BY <1>4, <1>5, <1>7 DEF FilterInv

\* What holds inside Write_Message.
LEMMA InMessage ==
  ASSUME FilterInv, pc = "message"
  PROVE  LET text == lines[Len(lines)]
             e == Current_Offset + Index
         IN  /\ Types_OK /\ Piece_OK /\ lines # << >> /\ lines \in Seq(Seq(Byte))
             /\ Front(lines) \in Seq(Seq(Byte)) /\ text \in Seq(Byte)
             /\ data \in Seq(Byte) /\ Len(data) \in Nat /\ Index \in Nat
             /\ Current_Offset \in 0..Len(data) /\ e \in Current_Offset..Len(data)
             /\ Complete_OK(Front(lines), data, Current_Offset, max_length)
             /\ Text_So_Far(text, data, Current_Offset, e)
             /\ Index < Len(Rest) <=> e # Len(data)
             /\ Index < Len(Rest) => Rest[Index + 1] = data[e + 1] /\ data[e + 1] \in Byte
<1> DEFINE e == Current_Offset + Index
<1>1. /\ Types_OK /\ Piece_OK /\ lines # << >> /\ lines \in Seq(Seq(Byte))
      /\ data \in Seq(Byte) /\ Current_Offset \in 0..Len(data)
      /\ Index \in 0..(Len(data) - Current_Offset)
      /\ Text_So_Far(lines[Len(lines)], data, Current_Offset, e)
      /\ Complete_OK(Front(lines), data, Current_Offset, max_length)
  BY DEF FilterInv, Types_OK, Piece_OK, Complete
<1>2. Front(lines) \in Seq(Seq(Byte)) /\ lines[Len(lines)] \in Seq(Byte)
  BY <1>1, LastLine
<1>3. Len(data) \in Nat /\ Index \in Nat /\ e \in Current_Offset..Len(data)
  BY <1>1
<1>4. /\ Len(Rest) = Len(data) - Current_Offset
      /\ \A i \in 1..Len(Rest) : Rest[i] = data[Current_Offset + i]
  BY <1>1, RestOfData
<1>5. Index < Len(Rest) <=> e # Len(data)
  <2>1. ASSUME NEW n \in Nat, NEW o \in 0..n, NEW i \in 0..(n - o)
        PROVE  i < n - o <=> o + i # n
    OBVIOUS
  <2>2. Index < Len(data) - Current_Offset <=> e # Len(data)
    BY <1>1, <1>3, <2>1, Zenon
  <2> QED
    BY <1>4, <2>2
<1>6. ASSUME Index < Len(Rest) PROVE Rest[Index + 1] = data[e + 1] /\ data[e + 1] \in Byte
  <2>1. /\ Index + 1 \in 1..Len(Rest) /\ Current_Offset + (Index + 1) = e + 1
        /\ e + 1 \in 1..Len(data)
    BY <1>1, <1>3, <1>4, <1>6
  <2> QED
    BY <1>1, <1>4, <2>1, ElementOfSeq
<1> HIDE DEF e
<1> QED
  BY <1>1, <1>2, <1>3, <1>5, <1>6 DEF e

LEMMA PutStep ==
  ASSUME FilterInv, Put_Character
  PROVE  FilterInv'
<1> DEFINE text == lines[Len(lines)]
           e == Current_Offset + Index
           more == Filter_Character(data[e + 1])
<1>1. pc = "message" /\ Index < Len(Rest) /\ UNCHANGED <<data, max_length, Current_Offset>>
  BY DEF Put_Character
<1>2. /\ Types_OK /\ Piece_OK /\ lines # << >> /\ lines \in Seq(Seq(Byte))
      /\ Front(lines) \in Seq(Seq(Byte)) /\ text \in Seq(Byte)
      /\ data \in Seq(Byte) /\ Len(data) \in Nat /\ Index \in Nat
      /\ Current_Offset \in 0..Len(data) /\ e \in Current_Offset..Len(data)
      /\ Complete_OK(Front(lines), data, Current_Offset, max_length)
      /\ Text_So_Far(text, data, Current_Offset, e)
      /\ e # Len(data) /\ Rest[Index + 1] = data[e + 1]
  BY <1>1, InMessage
<1>3. /\ pc' = "message" /\ Index' = Index + 1 /\ ~Exit_Loop(more)
      /\ Status' = [Characters_Written   |-> Status.Characters_Written + Len(more),
                    Characters_Processed |-> Status.Characters_Processed + 1]
      /\ lines' = [lines EXCEPT ![Len(lines)] = text \o more] /\ Limit' = Limit
  BY <1>2 DEF Put_Character, Put
<1>4. /\ Text_So_Far(text \o more, data, Current_Offset, e + 1)
      /\ text \o more \in Seq(Byte) /\ Len(text \o more) = Len(text) + Len(more)
  BY <1>2, TextGrows
<1> DEFINE text2 == text \o more
<1>5. lines' = Append(Front(lines), text2)
  BY <1>2, <1>3, <1>4, ExceptLast
<1> HIDE DEF text2, more
<1>6. /\ lines' \in Seq(Seq(Byte)) /\ lines' # << >>
      /\ lines'[Len(lines')] = text2 /\ Front(lines') = Front(lines)
  <2>1. text2 \in Seq(Byte)
    BY <1>4 DEF text2
  <2>2. PICK f : f = Front(lines)
    OBVIOUS
  <2>3. PICK t : t = lines'
    OBVIOUS
  <2>4. f \in Seq(Seq(Byte)) /\ t = Append(f, text2)
    BY <1>2, <1>5, <2>2, <2>3, Zenon
  <2>5. t \in Seq(Seq(Byte)) /\ t # << >> /\ t[Len(t)] = text2 /\ Front(t) = f
    BY <2>1, <2>4, LineAdded
  <2> QED
    BY <2>2, <2>3, <2>5, Zenon
<1>7. Types_OK'
  BY <1>1, <1>2, <1>3, <1>6 DEF Types_OK
<1>8. Complete_OK(Complete, data, Current_Offset, max_length)'
  BY <1>1, <1>2, <1>3, <1>6 DEF Complete
<1>9. Index' \in 0..(Len(data) - Current_Offset) /\ Current_Offset + Index' = e + 1
  BY <1>2, <1>3
<1>10. /\ Status.Characters_Written = Len(text) /\ Status.Characters_Processed = Index
       /\ Limit_OK(text)
  BY <1>2 DEF Piece_OK
<1>11. PICK text3 : text3 = text2
  OBVIOUS
<1>12. Limit_OK(text3)'
  <2>1. CASE Limit = 0
    <3>1. \/ max_length = No_Limit
          \/ Widths_Of(data)[Len(data)] - Widths_Of(data)[Current_Offset] < max_length
      BY <1>10, <2>1, LimitAssumption DEF Limit_OK
    <3> QED
      BY <1>1, <1>3, <2>1, <3>1 DEF Limit_OK
  <2>2. CASE Limit # 0
    <3>1. Limit = max_length /\ max_length \in Max_Lengths /\ Limit \in Nat
      BY <1>10, <2>2, LimitAssumption DEF Limit_OK
    <3>2. Limit > 0
      BY <2>2, <3>1
    <3>3. ~(Status.Characters_Written + Len(more) >= Limit)
      BY <1>3, <3>2 DEF Exit_Loop
    <3>4. Len(text2) = Status.Characters_Written + Len(more)
      BY <1>4, <1>10 DEF text2
    <3>5. Len(text2) \in Nat
      BY <1>4 DEF text2
    <3>6. Len(text2) < Limit
      BY <3>1, <3>3, <3>4, <3>5
    <3> QED
      BY <1>1, <1>3, <1>11, <3>1, <3>6 DEF Limit_OK
  <2> QED
    BY <2>1, <2>2
<1>13. Text_So_Far(text2, data, Current_Offset, e + 1) /\ Len(text2) = Len(text) + Len(more)
  BY <1>4 DEF text2
<1> HIDE DEF text, e
<1>14. /\ lines'[Len(lines')] = text3 /\ Limit_OK(lines[Len(lines)])'
       /\ Text_So_Far(lines[Len(lines)], data, Current_Offset, Current_Offset + Index)'
  BY <1>1, <1>6, <1>9, <1>11, <1>12, <1>13
<1>15. /\ Status.Characters_Written' = Len(lines'[Len(lines')])
       /\ Status.Characters_Processed' = Index'
  BY <1>3, <1>6, <1>10, <1>13
<1>16. Piece_OK'
  BY <1>1, <1>6, <1>9, <1>14, <1>15 DEF Piece_OK
<1> QED
  BY <1>3, <1>7, <1>8, <1>16 DEF FilterInv

\* What is left fits, with its LF, in what Write_Message may take.
LEMMA MessageFits ==
  ASSUME FilterInv, pc = "message", max_length # No_Limit
  PROVE  Len(lines[Len(lines)]) + 1 <= max_length
<1> DEFINE text == lines[Len(lines)]
           e == Current_Offset + Index
<1>1. /\ Piece_OK /\ text \in Seq(Byte) /\ data \in Seq(Byte) /\ Len(data) \in Nat
      /\ Current_Offset \in 0..Len(data) /\ e \in 0..Len(data)
      /\ Text_So_Far(text, data, Current_Offset, e)
      /\ max_length \in Nat
  <2>1. e \in Current_Offset..Len(data) /\ Current_Offset \in 0..Len(data) /\ Len(data) \in Nat
    BY InMessage
  <2>2. e \in 0..Len(data)
    BY <2>1
  <2>3. max_length \in Nat
    BY LimitAssumption DEF FilterInv, Types_OK
  <2> QED
    BY <2>2, <2>3, InMessage
<1> HIDE DEF text, e
<1>2. Len(text) \in Nat
  BY <1>1
<1>3. CASE Limit = max_length /\ Len(text) < Limit
  BY <1>1, <1>2, <1>3 DEF text
<1>4. CASE Widths_Of(data)[Len(data)] - Widths_Of(data)[Current_Offset] < max_length
  <2>1. Widths_Of(data)[Len(data)] - Widths_Of(data)[e] \in Nat
    BY <1>1, WidthsGrow
  <2>2. /\ Widths_Of(data)[e] \in Nat /\ Widths_Of(data)[Current_Offset] \in Nat
        /\ Widths_Of(data)[Len(data)] \in Nat
    <3>1. Widths_Of(data) \in [0..Len(data) -> Nat]
      BY <1>1, Widths
    <3>2. Len(data) \in 0..Len(data)
      BY <1>1
    <3> QED
      BY <1>1, <3>1, <3>2
  <2>3. Len(text) = Widths_Of(data)[e] - Widths_Of(data)[Current_Offset]
    BY <1>1 DEF Text_So_Far
  <2> QED
    BY <1>1, <1>2, <1>4, <2>1, <2>2, <2>3, SMTT(20) DEF text
<1> QED
  BY <1>1, <1>3, <1>4 DEF Piece_OK, Limit_OK, text

LEMMA EndStep ==
  ASSUME FilterInv, End_Message
  PROVE  FilterInv'
<1> DEFINE text == lines[Len(lines)]
           e == Current_Offset + Index
           line == text \o <<LF>>
<1>1. /\ pc = "message" /\ pc' = "piece" /\ UNCHANGED <<data, max_length>>
      /\ lines' = [lines EXCEPT ![Len(lines)] = line]
      /\ Current_Offset' = Current_Offset + Status.Characters_Processed
  BY DEF End_Message, Put
<1>2. /\ Types_OK /\ Piece_OK /\ lines # << >> /\ lines \in Seq(Seq(Byte))
      /\ Front(lines) \in Seq(Seq(Byte)) /\ text \in Seq(Byte)
      /\ data \in Seq(Byte) /\ Len(data) \in Nat
      /\ Current_Offset \in 0..Len(data) /\ e \in Current_Offset..Len(data)
      /\ Complete_OK(Front(lines), data, Current_Offset, max_length)
      /\ Text_So_Far(text, data, Current_Offset, e)
  BY <1>1, InMessage
<1>3. line \in Seq(Byte)
  BY <1>2, LineEnds
<1>4. lines' = Append(Front(lines), line)
  BY <1>1, <1>2, <1>3, ExceptLast
<1>5. max_length # No_Limit => Len(text) + 1 <= max_length
  BY <1>1, MessageFits
<1>6. Current_Offset' = e
  BY <1>1, <1>2 DEF Piece_OK
<1>7. Complete_OK(Append(Front(lines), line), data, e, max_length)
  BY <1>2, <1>5, CompleteMore DEF Text_So_Far
<1> HIDE DEF line
<1>8. lines' \in Seq(Seq(Byte))
  BY <1>2, <1>3, <1>4, AppendProperties
<1>9. e \in 0..Len(data)
  BY <1>2
<1> HIDE DEF e, text
<1>10. Types_OK'
  BY <1>1, <1>2, <1>6, <1>8, <1>9 DEF Types_OK
<1> QED
  BY <1>1, <1>4, <1>6, <1>7, <1>10 DEF FilterInv, Complete

LEMMA ReturnStep ==
  ASSUME FilterInv, Returns
  PROVE  FilterInv'
<1>1. /\ pc' = "idle" /\ data' = << >> /\ max_length' = No_Limit /\ Current_Offset' = 0
      /\ lines' = << >>
  BY DEF Returns
<1>2. << >> \in Seq(Byte) /\ << >> \in Seq(Seq(Byte)) /\ Len(<< >>) = 0
  BY EmptySeq
<1>3. Types_OK'
  BY <1>1, <1>2 DEF Types_OK
<1>4. Complete_OK(<< >>, << >>, 0, No_Limit)
  BY NothingComplete
<1> QED
  BY <1>1, <1>3, <1>4 DEF FilterInv, Complete

LEMMA FilterInvariant == Spec => []FilterInv
<1>1. Init => FilterInv
  <2> SUFFICES ASSUME Init PROVE FilterInv
    OBVIOUS
  <2>1. << >> \in Seq(Byte) /\ << >> \in Seq(Seq(Byte)) /\ Len(<< >>) = 0
    BY EmptySeq
  <2>2. Types_OK
    BY <2>1 DEF Init, Types_OK
  <2>3. Complete_OK(<< >>, << >>, 0, No_Limit)
    BY NothingComplete
  <2> QED
    BY <2>2, <2>3 DEF Init, FilterInv, Complete
<1>2. FilterInv /\ [Next]_vars => FilterInv'
  <2> SUFFICES ASSUME FilterInv, [Next]_vars PROVE FilterInv'
    OBVIOUS
  <2>1. CASE Next
    BY <2>1, WriteStep, BeginStep, PutStep, EndStep, ReturnStep DEF Next
  <2>2. CASE UNCHANGED vars
    BY <2>2 DEF vars, FilterInv, Types_OK, Complete, Piece_OK, Limit_OK
  <2> QED
    BY <2>1, <2>2
<1> QED
  BY <1>1, <1>2, PTL DEF Spec

-----------------------------------------------------------------------------

\* Whatever a message contains, its lines are printable and end where
\* Write_Message ends them.
THEOREM Printables == Spec => []LinesArePrintable
<1>1. FilterInv => LinesArePrintable
  <2> SUFFICES ASSUME FilterInv, NEW i \in 1..Len(lines)
               PROVE  LET ends == IF i <= Len(Complete) THEN 1 ELSE 0
                          text == SubSeq(lines[i], 1, Len(lines[i]) - ends)
                      IN  /\ \A j \in 1..Len(text) : Printable(text[j])
                          /\ ends = 1 => lines[i][Len(lines[i])] = LF
    BY DEF LinesArePrintable
  <2>1. lines \in Seq(Seq(Byte)) /\ lines[i] \in Seq(Byte)
    BY ElementOfSeq DEF FilterInv, Types_OK
  <2>2. CASE i <= Len(Complete)
    <3>1. Complete[i] = lines[i] /\ i \in 1..Len(Complete)
      <4>1. CASE pc = "message"
        <5>1. /\ lines = Append(Front(lines), lines[Len(lines)])
              /\ Front(lines) \in Seq(Seq(Byte)) /\ lines[Len(lines)] \in Seq(Byte)
              /\ Complete = Front(lines)
          BY <4>1, InMessage, LastLine DEF Complete
        <5>2. \A j \in 1..Len(Front(lines)) :
                Append(Front(lines), lines[Len(lines)])[j] = Front(lines)[j]
          BY <5>1, AppendProperties
        <5>3. i \in 1..Len(Front(lines))
          BY <2>2, <5>1
        <5> QED
          BY <5>1, <5>2, <5>3
      <4>2. CASE pc # "message"
        BY <2>2, <4>2 DEF Complete
      <4> QED
        BY <4>1, <4>2
    <3>2. Line_OK(lines[i], max_length)
      BY <3>1 DEF FilterInv, Complete_OK
    <3> QED
      BY <2>2, <3>2 DEF Line_OK, Text_OK, Front
  <2>3. CASE ~(i <= Len(Complete))
    <3>1. pc = "message" /\ i = Len(lines)
      <4>1. CASE pc = "message"
        <5>1. Len(Front(lines)) = Len(lines) - 1 /\ Complete = Front(lines)
          BY <4>1, InMessage, LastLine DEF Complete
        <5> QED
          BY <2>1, <2>3, <4>1, <5>1
      <4>2. CASE pc # "message"
        BY <2>1, <2>3, <4>2 DEF Complete
      <4> QED
        BY <4>1, <4>2
    <3>2. Text_OK(lines[i])
      BY <3>1 DEF FilterInv, Piece_OK, Text_So_Far
    <3>3. Len(lines[i]) - 0 = Len(lines[i])
      BY <2>1
    <3>4. SubSeq(lines[i], 1, Len(lines[i]) - 0) = lines[i]
      BY <2>1, <3>3, SubSeqFull
    <3> QED
      BY <2>3, <3>2, <3>4 DEF Text_OK
  <2> QED
    BY <2>2, <2>3
<1> QED
  BY <1>1, FilterInvariant, PTL

\* The lines give the message back, for every message and every limit.
THEOREM Readable == Spec => []LinesAreReadable
<1>1. FilterInv => LinesAreReadable
  BY Zenon DEF FilterInv, Complete_OK, LinesAreReadable, Read
<1> QED
  BY <1>1, FilterInvariant, PTL

\* No line is longer than the limit allows, however the message is cut.
THEOREM Fit == Spec => []LinesFit
<1>1. FilterInv => LinesFit
  <2> SUFFICES ASSUME FilterInv, max_length # No_Limit, NEW i \in 1..Len(lines)
               PROVE  Len(lines[i]) <= max_length
    BY DEF LinesFit
  <2>1. lines \in Seq(Seq(Byte)) /\ lines[i] \in Seq(Byte) /\ max_length \in Nat
    BY ElementOfSeq, LimitAssumption DEF FilterInv, Types_OK
  <2>2. CASE pc = "message"
    <3>1. /\ lines = Append(Front(lines), lines[Len(lines)])
          /\ Front(lines) \in Seq(Seq(Byte)) /\ lines[Len(lines)] \in Seq(Byte)
          /\ Complete = Front(lines) /\ Len(Front(lines)) = Len(lines) - 1
      BY <2>2, InMessage, LastLine DEF Complete
    <3>2. CASE i = Len(lines)
      <4>1. Len(lines[i]) + 1 <= max_length /\ Len(lines[i]) \in Nat
        BY <2>1, <2>2, <3>2, MessageFits
      <4> QED
        BY <2>1, <4>1
    <3>3. CASE i # Len(lines)
      <4>1. i \in 1..Len(Front(lines))
        BY <2>1, <3>1, <3>3
      <4>2. \A j \in 1..Len(Front(lines)) :
              Append(Front(lines), lines[Len(lines)])[j] = Front(lines)[j]
        BY <3>1, AppendProperties
      <4> QED
        BY <3>1, <4>1, <4>2 DEF FilterInv, Complete_OK, Line_OK
    <3> QED
      BY <3>2, <3>3
  <2>3. CASE pc # "message"
    BY <2>3 DEF FilterInv, Complete, Complete_OK, Line_OK
  <2> QED
    BY <2>2, <2>3
<1> QED
  BY <1>1, FilterInvariant, PTL

\* Write_Message stops where the model of the whole log says it does, and its
\* line is as long as that model says.
THEOREM Stops == Spec => StopsAsModelled
<1> DEFINE w(i) == Widths_Of(data)[i] - Widths_Of(data)[Current_Offset]
           stops == /\ Len(lines'[Len(lines')]) = w(Current_Offset') + 1
                    /\ Limit = 0 => Current_Offset' = Len(data)
                    /\ Limit > 0 => /\ w(Current_Offset') < Limit
                                    /\ \/ ~(Current_Offset' < Len(data))
                                       \/ w(Current_Offset' + 1) >= Limit
<1>1. ASSUME FilterInv, End_Message PROVE stops
  <2> DEFINE text == lines[Len(lines)]
             e == Current_Offset + Index
             line == text \o <<LF>>
             more == Filter_Character(data[e + 1])
  <2>1. /\ pc = "message" /\ lines' = [lines EXCEPT ![Len(lines)] = line]
        /\ Current_Offset' = Current_Offset + Status.Characters_Processed
        /\ Index < Len(Rest) => Exit_Loop(Filter_Character(Rest[Index + 1]))
    BY <1>1 DEF End_Message, Put
  <2>2. /\ Piece_OK /\ lines # << >> /\ lines \in Seq(Seq(Byte))
        /\ Front(lines) \in Seq(Seq(Byte)) /\ text \in Seq(Byte)
        /\ data \in Seq(Byte) /\ Len(data) \in Nat
        /\ Current_Offset \in 0..Len(data) /\ e \in Current_Offset..Len(data)
        /\ Text_So_Far(text, data, Current_Offset, e)
        /\ Index < Len(Rest) <=> e # Len(data)
        /\ Index < Len(Rest) => Rest[Index + 1] = data[e + 1]
    BY <1>1, <2>1, InMessage
  <2>3. Current_Offset' = e
    BY <2>1, <2>2 DEF Piece_OK
  <2>4. line \in Seq(Byte) /\ Len(line) = Len(text) + 1
    BY <2>2, LineEnds
  <2>5. lines' = Append(Front(lines), line)
    <3> HIDE DEF stops, line, more
    <3> QED
      BY <2>1, <2>2, <2>4, ExceptLast
  <2> HIDE DEF line
  <2>6. lines'[Len(lines')] = line
    <3>1. PICK f : f = Front(lines)
      OBVIOUS
    <3>2. PICK t : t = lines'
      OBVIOUS
    <3>3. f \in Seq(Seq(Byte)) /\ t = Append(f, line)
      BY <2>2, <2>5, <3>1, <3>2, Zenon
    <3>4. t[Len(t)] = line
      BY <2>4, <3>3, LineAdded
    <3> QED
      BY <3>2, <3>4
  <2>7. w(e) = Len(text) /\ Len(text) \in Nat
    BY <2>2 DEF Text_So_Far
  <2>8. Status.Characters_Written = Len(text) /\ Limit_OK(text)
    BY <2>2 DEF Piece_OK
  <2>9. Limit = 0 => e = Len(data)
    BY <2>1, <2>2 DEF Exit_Loop
  <2>10. Limit > 0 => Len(text) < Limit /\ Limit \in Nat
    <3>1. \/ Limit = 0
          \/ Limit = max_length /\ max_length \in Max_Lengths /\ Len(text) < Limit
      BY <2>8 DEF Limit_OK
    <3>2. ~(0 > 0)
      OBVIOUS
    <3>3. max_length \in Max_Lengths => max_length \in Nat
      BY LimitAssumption
    <3> QED
      BY <3>1, <3>2, <3>3, Zenon
  <2>11. ASSUME Limit > 0, e < Len(data) PROVE w(e + 1) >= Limit
    <3>1. e # Len(data)
      BY <2>2, <2>11
    <3>2. Exit_Loop(more)
      BY <2>1, <2>2, <3>1
    <3>3. /\ Widths_Of(data)[e + 1] = Widths_Of(data)[e] + Len(more)
          /\ data[e + 1] \in Byte
      BY <2>2, <3>1, TextGrows
    <3>4. Len(more) \in Nat
      BY <3>3, FilterCharacter
    <3> HIDE DEF more
    <3>5. Len(text) + Len(more) >= Limit
      BY <2>8, <3>2 DEF Exit_Loop
    <3>6. Widths_Of(data)[e] \in Nat /\ Widths_Of(data)[Current_Offset] \in Nat
      <4>1. Widths_Of(data) \in [0..Len(data) -> Nat]
        BY <2>2, Widths
      <4>2. e \in 0..Len(data)
        BY <2>2
      <4> QED
        BY <2>2, <4>1, <4>2
    <3> HIDE DEF e, text
    <3> QED
      BY <2>7, <2>10, <2>11, <3>3, <3>4, <3>5, <3>6
  <2> HIDE DEF e, text
  <2> QED
    BY <2>3, <2>4, <2>6, <2>7, <2>9, <2>10, <2>11
<1>2. FilterInv /\ [Next]_vars => [pc = "message" /\ pc' = "piece" => stops]_vars
  <2> SUFFICES ASSUME FilterInv, Next, pc = "message", pc' = "piece" PROVE stops
    BY DEF vars
  <2>1. End_Message
    BY DEF Next, Write, Begin_Unlimited, Begin_Full_Line, Begin_Last_Line, Put_Character, Returns
  <2> QED
    BY <1>1, <2>1
<1>3. [pc = "message" /\ pc' = "piece" => stops]_vars
        => [pc = "message" /\ pc' = "piece" =>
              LET upto  == Widths_Of(data)
                  e     == Current_Offset'
                  width(i) == upto[i] - upto[Current_Offset]
              IN  /\ Len(lines'[Len(lines')]) = width(e) + 1
                  /\ Limit = 0 => e = Len(data)
                  /\ Limit > 0 =>
                       width(e) < Limit /\ (e < Len(data) => width(e + 1) >= Limit)]_vars
  OBVIOUS
<1> HIDE DEF stops
<1> QED
  BY <1>2, <1>3, FilterInvariant, PTL DEF Spec, StopsAsModelled
=============================================================================
