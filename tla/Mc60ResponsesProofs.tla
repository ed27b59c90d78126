------------------------ MODULE Mc60ResponsesProofs -------------------------
(***************************************************************************)
(* What the parsers of the MC60's responses keep is what the modem sent,   *)
(* for every set of numbers of the width of an int, every memory behind an *)
(* event and every size of the buffer.                                     *)
(***************************************************************************)
EXTENDS Mc60Responses, SequenceTheorems, WellFoundedInduction, TLAPS

-----------------------------------------------------------------------------
(* The first and the last place. *)

LEMMA MinIs ==
    ASSUME NEW I \in SUBSET Nat, NEW p \in I, \A y \in I : p <= y PROVE Min(I) = p
  <1>1. Min(I) \in I /\ \A y \in I : Min(I) <= y
    BY DEF Min
  <1>2. Min(I) <= p /\ p <= Min(I) /\ Min(I) \in Nat
    BY <1>1
  <1>3. QED
    BY <1>2

LEMMA MaxIs ==
    ASSUME NEW I \in SUBSET Nat, NEW p \in I, \A y \in I : p >= y PROVE Max(I) = p
  <1>1. Max(I) \in I /\ \A y \in I : Max(I) >= y
    BY DEF Max
  <1>2. Max(I) <= p /\ p <= Max(I) /\ Max(I) \in Nat
    BY <1>1
  <1>3. QED
    BY <1>2

LEMMA FirstOf ==
    ASSUME NEW I \in SUBSET Nat, I # {} PROVE \E p \in I : \A y \in I : p <= y
  <1> DEFINE less == OpToRel(<, Nat)
  <1>1. IsWellFoundedOn(less, Nat)
    BY NatLessThanWellFounded
  <1>2. \A i, j \in Nat : j < i => <<j, i>> \in less
    BY DEF OpToRel
  <1> HIDE DEF less
  <1>3. PICK i \in I : \A j \in I : ~(<<j, i>> \in less)
    BY <1>1, WFMin
  <1>4. \A j \in I : i <= j
    <2>1. ASSUME NEW j \in I PROVE i <= j
      <3>1. i \in Nat /\ j \in Nat /\ ~(<<j, i>> \in less)
        BY <1>3
      <3>2. ~(j < i)
        BY <1>2, <3>1, Zenon
      <3>3. QED
        BY <3>1, <3>2
    <2>2. QED
      BY <2>1
  <1>5. QED
    BY <1>4

LEMMA MinWithin == ASSUME NEW I \in SUBSET Nat, I # {} PROVE Min(I) \in I
  BY FirstOf, MinIs

-----------------------------------------------------------------------------
(* Numbers and their digits. *)

LEMMA Tenth ==
    ASSUME NEW k \in Nat, k >= 10
    PROVE  /\ k \div 10 \in 0..(k - 1) /\ k \div 10 < k /\ k % 10 \in 0..9
           /\ 10 * (k \div 10) + (k % 10) = k
  OBVIOUS

(* What Value and Digits are defined from: the numbers of the beginnings of a *)
(* text, and the digits of the numbers up to one.                             *)
Values(s, m, v) == v = [i \in 0..m |-> IF i = 0 THEN 0 ELSE 10 * v[i - 1] + s[i]]
Expansions(n, d) == d = [m \in 0..n |-> IF m < 10 THEN <<m>> ELSE Append(d[m \div 10], m % 10)]

LEMMA ValuesExist == ASSUME NEW s, NEW m \in Nat PROVE \E v : Values(s, m, v)
  <1> DEFINE without == {k \in Nat : ~\E v : Values(s, k, v)}
  <1>1. SUFFICES ASSUME without # {} PROVE FALSE
    OBVIOUS
  <1>2. PICK k \in without : \A y \in without : k <= y
    <2>1. without \in SUBSET Nat
      OBVIOUS
    <2> HIDE DEF without
    <2>2. QED
      BY <1>1, <2>1, FirstOf
  <1>3. CASE k = 0
    <2>1. Values(s, 0, [i \in 0..0 |-> 0])
      BY DEF Values
    <2>2. QED
      BY <1>2, <1>3, <2>1
  <1>4. CASE k # 0
    <2>1. k \in Nat /\ k - 1 \in Nat /\ k - 1 \notin without
      BY <1>2, <1>4
    <2>2. PICK v : Values(s, k - 1, v)
      BY <2>1
    <2> DEFINE w == [i \in 0..k |-> IF i = k THEN 10 * v[k - 1] + s[k] ELSE v[i]]
    <2>3. \A i \in 0..k : w[i] = IF i = 0 THEN 0 ELSE 10 * w[i - 1] + s[i]
      BY <1>4, <2>1, <2>2 DEF Values
    <2>4. Values(s, k, w)
      BY <2>3 DEF Values
    <2>5. QED
      BY <1>2, <2>4
  <1>5. QED
    BY <1>3, <1>4

LEMMA ValuesAgree ==
    ASSUME NEW s, NEW t, NEW m \in Nat, NEW n \in Nat, NEW v, NEW w,
           Values(s, m, v), Values(t, n, w), m <= n, \A i \in 1..m : s[i] = t[i]
    PROVE  v[m] = w[m]
  <1> DEFINE differ == {k \in 0..m : v[k] # w[k]}
  <1>1. SUFFICES ASSUME differ # {} PROVE FALSE
    OBVIOUS
  <1>2. PICK k \in differ : \A y \in differ : k <= y
    <2>1. differ \in SUBSET Nat
      OBVIOUS
    <2> HIDE DEF differ
    <2>2. QED
      BY <1>1, <2>1, FirstOf
  <1>3. k \in 0..m /\ k \in 0..n /\ v[k] # w[k]
    BY <1>2
  <1>4. /\ v[k] = IF k = 0 THEN 0 ELSE 10 * v[k - 1] + s[k]
        /\ w[k] = IF k = 0 THEN 0 ELSE 10 * w[k - 1] + t[k]
    BY <1>3 DEF Values
  <1>5. k # 0
    BY <1>3, <1>4
  <1>6. k - 1 \in 0..m /\ ~(k <= k - 1) /\ s[k] = t[k]
    BY <1>3, <1>5
  <1>7. v[k - 1] = w[k - 1]
    BY <1>2, <1>6
  <1>8. QED
    BY <1>3, <1>4, <1>5, <1>6, <1>7

LEMMA ValueIs ==
    ASSUME NEW s, Len(s) \in Nat PROVE \E v : Values(s, Len(s), v) /\ Value(s) = v[Len(s)]
  <1> DEFINE v == CHOOSE v : Values(s, Len(s), v)
  <1>1. Values(s, Len(s), v)
    BY ValuesExist
  <1>2. Value(s) = v[Len(s)]
    BY DEF Value, Values
  <1> HIDE DEF v
  <1>3. QED
    BY <1>1, <1>2

(* One more digit. *)
LEMMA ValueOfDigit == ASSUME NEW a \in 0..9 PROVE Value(<<a>>) = a
  <1>1. Len(<<a>>) = 1 /\ <<a>>[1] = a
    OBVIOUS
  <1>2. PICK v : Values(<<a>>, 1, v) /\ Value(<<a>>) = v[1]
    BY <1>1, ValueIs
  <1>3. v[0] = 0 /\ v[1] = 10 * v[0] + <<a>>[1]
    BY <1>2 DEF Values
  <1>4. QED
    BY <1>1, <1>2, <1>3

LEMMA ValueOfMore ==
    ASSUME NEW s \in Seq(0..9), NEW a \in 0..9 PROVE Value(Append(s, a)) = 10 * Value(s) + a
  <1> DEFINE t == Append(s, a)
  <1>1. /\ Len(s) \in Nat /\ Len(t) = Len(s) + 1 /\ t[Len(s) + 1] = a
        /\ \A i \in 1..Len(s) : s[i] = t[i]
    BY AppendProperties, LenProperties
  <1> HIDE DEF t
  <1>2. PICK v : Values(s, Len(s), v) /\ Value(s) = v[Len(s)]
    BY <1>1, ValueIs
  <1>3. PICK w : Values(t, Len(s) + 1, w) /\ Value(t) = w[Len(s) + 1]
    BY <1>1, ValueIs
  <1>4. v[Len(s)] = w[Len(s)]
    BY <1>1, <1>2, <1>3, ValuesAgree
  <1>5. w[Len(s) + 1] = 10 * w[Len(s)] + t[Len(s) + 1]
    BY <1>1, <1>3 DEF Values
  <1>6. QED
    BY <1>1, <1>2, <1>3, <1>4, <1>5 DEF t

LEMMA ExpansionsExist == ASSUME NEW n \in Nat PROVE \E d : Expansions(n, d)
  <1> DEFINE without == {k \in Nat : ~\E d : Expansions(k, d)}
  <1>1. SUFFICES ASSUME without # {} PROVE FALSE
    OBVIOUS
  <1>2. PICK k \in without : \A y \in without : k <= y
    <2>1. without \in SUBSET Nat
      OBVIOUS
    <2> HIDE DEF without
    <2>2. QED
      BY <1>1, <2>1, FirstOf
  <1>3. CASE k = 0
    <2>1. Expansions(0, [m \in 0..0 |-> <<0>>])
      BY DEF Expansions
    <2>2. QED
      BY <1>2, <1>3, <2>1
  <1>4. CASE k # 0
    <2>1. k \in Nat /\ k - 1 \in Nat /\ k - 1 \notin without
      BY <1>2, <1>4
    <2>2. PICK d : Expansions(k - 1, d)
      BY <2>1
    <2> DEFINE more(f, m) == IF m < 10 THEN <<m>> ELSE Append(f[m \div 10], m % 10)
               e == [m \in 0..k |-> IF m = k THEN more(d, k) ELSE d[m]]
    <2>3. \A m \in 0..k : m >= 10 => m \div 10 \in 0..(k - 1) /\ m \div 10 < m
      BY <2>1, Tenth
    <2>4. \A m \in 0..(k - 1) : d[m] = more(d, m)
      BY <2>2 DEF Expansions
    <2>5. \A m \in 0..(k - 1) : m \in 0..k /\ m # k /\ e[m] = d[m]
      BY <2>1
    <2>6. k \in 0..k /\ e[k] = more(d, k)
      BY <2>1
    <2> HIDE DEF e
    <2>7. ASSUME NEW m \in 0..k PROVE e[m] = more(e, m)
      <3>1. e[m] = more(d, m)
        BY <2>1, <2>4, <2>5, <2>6
      <3>2. m >= 10 => e[m \div 10] = d[m \div 10]
        BY <2>3, <2>5
      <3>3. m < 10 \/ m >= 10
        BY <2>1
      <3>4. QED
        BY <3>1, <3>2, <3>3, Zenon
    <2>8. e = [m \in 0..k |-> more(e, m)]
      <3>1. e = [m \in 0..k |-> e[m]]
        BY DEF e
      <3>2. QED
        BY <2>7, <3>1
    <2>9. Expansions(k, e)
      BY <2>8, Zenon DEF Expansions
    <2>10. QED
      BY <1>2, <2>9
  <1>5. QED
    BY <1>3, <1>4

(* The digits of a number are its digits. *)
LEMMA DigitsOfNumber ==
    ASSUME NEW n \in Nat
    PROVE  Digits(n) \in Seq(0..9) /\ Digits(n) # << >> /\ Value(Digits(n)) = n
  <1> DEFINE d == CHOOSE d : Expansions(n, d)
             Right(k) == d[k] \in Seq(0..9) /\ d[k] # << >> /\ Value(d[k]) = k
             wrong == {k \in 0..n : ~Right(k)}
  <1>1. Expansions(n, d)
    BY ExpansionsExist
  <1>2. Digits(n) = d[n]
    BY DEF Digits, Expansions
  <1> HIDE DEF d
  <1>3. SUFFICES ASSUME wrong # {} PROVE FALSE
    BY <1>2
  <1>4. PICK k \in wrong : \A y \in wrong : k <= y
    <2>1. wrong \in SUBSET Nat
      OBVIOUS
    <2> HIDE DEF wrong
    <2>2. QED
      BY <1>3, <2>1, FirstOf
  <1>5. k \in 0..n /\ k \in Nat /\ ~Right(k)
    BY <1>4
  <1>6. d[k] = IF k < 10 THEN <<k>> ELSE Append(d[k \div 10], k % 10)
    BY <1>1, <1>5 DEF Expansions
  <1>7. CASE k < 10
    <2>1. k \in 0..9 /\ d[k] = <<k>>
      BY <1>5, <1>6, <1>7
    <2>2. <<k>> \in Seq(0..9) /\ <<k>> # << >>
      BY <2>1
    <2>3. QED
      BY <1>5, <2>1, <2>2, ValueOfDigit
  <1>8. CASE k >= 10
    <2>1. /\ k \div 10 \in 0..n /\ k \div 10 < k /\ k % 10 \in 0..9
          /\ 10 * (k \div 10) + (k % 10) = k
      BY <1>5, <1>8, Tenth
    <2>2. Right(k \div 10)
      <3>1. k \div 10 \notin wrong
        BY <1>4, <1>5, <2>1
      <3>2. QED
        BY <2>1, <3>1
    <2>3. d[k] = Append(d[k \div 10], k % 10)
      BY <1>5, <1>6, <1>8
    <2>4. d[k] \in Seq(0..9) /\ Len(d[k]) = Len(d[k \div 10]) + 1
      BY <2>1, <2>2, <2>3, AppendProperties
    <2>5. d[k] # << >>
      BY <2>2, <2>4, EmptySeq, LenProperties
    <2>6. Value(d[k]) = k
      BY <2>1, <2>2, <2>3, ValueOfMore
    <2>7. QED
      BY <1>5, <2>4, <2>5, <2>6
  <1>9. QED
    BY <1>5, <1>7, <1>8

(* strtoul reads all digits of a text, and passes over a blank before them. *)
LEMMA NumberOfDigits ==
    ASSUME NEW digits \in Seq(0..9), digits # << >>
    PROVE  Number(digits) = Value(digits) /\ Number(<<SPACE>> \o digits) = Value(digits)
  <1>1. /\ Len(digits) \in Nat \ {0} /\ \A i \in 1..Len(digits) : digits[i] \in 0..9
        /\ SubSeq(digits, 1, Len(digits)) = digits
    BY EmptySeq, ElementOfSeq, SubSeqFull
  <1>2. FirstNondigit(digits) = 0
    BY <1>1 DEF FirstNondigit, SelectInSeq
  <1>3. FirstNonblank(digits) = 1
    <2> DEFINE I == {i \in 1..Len(digits) : digits[i] # SPACE}
    <2>1. I \in SUBSET Nat /\ 1 \in I /\ \A y \in I : 1 <= y
      BY <1>1 DEF SPACE
    <2> HIDE DEF I
    <2>2. Min(I) = 1 /\ I # {}
      BY <2>1, MinIs
    <2>3. QED
      BY <2>2 DEF FirstNonblank, SelectInSeq, I
  <1> DEFINE text == <<SPACE>> \o digits
  <1>4. /\ Len(text) = Len(digits) + 1 /\ text[1] = SPACE
        /\ \A i \in 1..Len(digits) : text[i + 1] = digits[i]
    <2>1. <<SPACE>> \in Seq(0..SPACE) /\ digits \in Seq(0..SPACE) /\ Len(<<SPACE>>) = 1
      <3>1. 0..9 \subseteq 0..SPACE
        BY DEF SPACE
      <3>2. SPACE \in 0..SPACE
        BY DEF SPACE
      <3>3. <<SPACE>> \in Seq(0..SPACE)
        BY <3>2
      <3>4. QED
        BY <3>1, <3>3, SeqMonotonic
    <2>2. /\ Len(text) = 1 + Len(digits)
          /\ \A i \in 1..(1 + Len(digits)) : text[i] = IF i <= 1 THEN <<SPACE>>[i] ELSE digits[i - 1]
      BY <2>1, ConcatProperties
    <2> HIDE DEF text
    <2>3. QED
      BY <1>1, <2>2
  <1> HIDE DEF text
  <1>5. FirstNonblank(text) = 2
    <2> DEFINE I == {i \in 1..Len(text) : text[i] # SPACE}
    <2>1. text[2] = digits[1] /\ digits[1] # SPACE
      BY <1>1, <1>4 DEF SPACE
    <2>2. I \in SUBSET Nat /\ 2 \in I /\ \A y \in I : 2 <= y
      BY <1>1, <1>4, <2>1
    <2> HIDE DEF I
    <2>3. Min(I) = 2 /\ I # {}
      BY <2>2, MinIs
    <2>4. QED
      BY <2>3 DEF FirstNonblank, SelectInSeq, I
  <1>6. SubSeq(text, 2, Len(text)) = digits
    <2> DEFINE rest == SubSeq(text, 2, Len(text))
    <2>1. \A i \in 2..Len(text) : text[i] \in 0..9
      <3>1. ASSUME NEW i \in 2..Len(text) PROVE text[i] \in 0..9
        <4>1. i - 1 \in 1..Len(digits) /\ (i - 1) + 1 = i
          BY <1>1, <1>4
        <4>2. QED
          BY <1>1, <1>4, <4>1
      <3>2. QED
        BY <3>1
    <2>2. Len(text) \in Nat /\ 2 <= Len(text)
      BY <1>1, <1>4
    <2>3. /\ rest \in Seq(0..9) /\ Len(rest) = Len(text) - 2 + 1
          /\ \A i \in 1..(Len(text) - 2 + 1) : rest[i] = text[2 + i - 1]
      BY <2>1, <2>2, SubSeqProperties
    <2> HIDE DEF rest
    <2>4. Len(rest) = Len(digits) /\ \A i \in 1..Len(digits) : rest[i] = digits[i]
      <3>1. Len(text) - 2 + 1 = Len(digits) /\ \A i \in 1..Len(digits) : 2 + i - 1 = i + 1
        BY <1>1, <1>4
      <3>2. QED
        BY <1>4, <2>3, <3>1
    <2>5. rest = digits
      BY <2>3, <2>4, SeqEqual
    <2>6. QED
      BY <2>5 DEF rest
  <1>7. Number(digits) = Value(digits)
    <2>1. FirstNonblank(digits) # 0 /\ SubSeq(digits, FirstNonblank(digits), Len(digits)) = digits
      BY <1>1, <1>3
    <2>2. QED
      BY <1>2, <2>1, Zenon DEF Number
  <1>8. Number(text) = Value(digits)
    <2>1. FirstNonblank(text) # 0 /\ SubSeq(text, FirstNonblank(text), Len(text)) = digits
      BY <1>5, <1>6
    <2>2. QED
      BY <1>2, <2>1, Zenon DEF Number
  <1>9. QED
    BY <1>7, <1>8 DEF text

(* The numbers the modem reports. *)
Reported == 0..INT_MAX

LEMMA NumberRead ==
    ASSUME NEW n \in Reported
    PROVE  /\ Digits(n) \in Seq(0..9) /\ Digits(n) # << >>
           /\ Number(Digits(n)) = n /\ Number(<<SPACE>> \o Digits(n)) = n
  <1>1. n \in Nat
    BY DEF Reported
  <1>2. QED
    BY <1>1, DigitsOfNumber, NumberOfDigits

-----------------------------------------------------------------------------
(* Texts: what lies before and behind a place, and where a field ends. *)

Chars == 0..ANSWER

LEMMA Regrouped ==
    \A a, b, c \in Seq(Chars) : (a \o b) \o c = a \o (b \o c)
  BY ConcatAssociative

LEMMA Cut ==
    ASSUME NEW a \in Seq(Chars), NEW b \in Seq(Chars)
    PROVE  /\ SubSeq(a \o b, 1, Len(a)) = a
           /\ SubSeq(a \o b, Len(a) + 1, Len(a \o b)) = b
  <1> DEFINE t == a \o b
  <1>1. /\ Len(a) \in Nat /\ Len(b) \in Nat
        /\ t \in Seq(Chars) /\ Len(t) = Len(a) + Len(b)
        /\ \A i \in 1..(Len(a) + Len(b)) : t[i] = IF i <= Len(a) THEN a[i] ELSE b[i - Len(a)]
    BY ConcatProperties, LenProperties
  <1>2. \A i \in 1..Len(t) : t[i] \in Chars
    BY <1>1, ElementOfSeq
  <1> HIDE DEF t
  <1>3. SubSeq(t, 1, Len(a)) = a
    <2> DEFINE u == SubSeq(t, 1, Len(a))
    <2>1. \A i \in 1..Len(a) : t[i] \in Chars /\ t[i] = a[i]
      BY <1>1, <1>2
    <2>2. /\ u \in Seq(Chars) /\ Len(u) = IF 1 <= Len(a) THEN Len(a) - 1 + 1 ELSE 0
          /\ \A i \in 1..(Len(a) - 1 + 1) : u[i] = t[1 + i - 1]
      BY <1>1, <2>1, SubSeqProperties
    <2> HIDE DEF u
    <2>3. Len(u) = Len(a) /\ \A i \in 1..Len(a) : u[i] = a[i]
      BY <1>1, <2>1, <2>2
    <2>4. u = a
      BY <2>2, <2>3, SeqEqual
    <2>5. QED
      BY <2>4 DEF u
  <1>4. SubSeq(t, Len(a) + 1, Len(t)) = b
    <2> DEFINE u == SubSeq(t, Len(a) + 1, Len(t))
    <2>1. \A i \in (Len(a) + 1)..Len(t) : t[i] \in Chars
      BY <1>1, <1>2
    <2>2. /\ u \in Seq(Chars)
          /\ Len(u) = IF Len(a) + 1 <= Len(t) THEN Len(t) - (Len(a) + 1) + 1 ELSE 0
          /\ \A i \in 1..(Len(t) - (Len(a) + 1) + 1) : u[i] = t[(Len(a) + 1) + i - 1]
      <3>1. Len(a) + 1 \in Int /\ Len(t) \in Int
        BY <1>1
      <3>2. QED
        BY <2>1, <3>1, SubSeqProperties
    <2> HIDE DEF u
    <2>3. Len(u) = Len(b)
      BY <1>1, <2>2
    <2>4. ASSUME NEW i \in 1..Len(b) PROVE u[i] = b[i]
      <3>1. /\ i \in 1..(Len(t) - (Len(a) + 1) + 1)
            /\ (Len(a) + 1) + i - 1 = Len(a) + i
            /\ Len(a) + i \in 1..(Len(a) + Len(b))
            /\ ~(Len(a) + i <= Len(a)) /\ (Len(a) + i) - Len(a) = i
        BY <1>1
      <3>2. QED
        BY <1>1, <2>2, <3>1
    <2>5. u = b
      BY <2>2, <2>3, <2>4, SeqEqual
    <2>6. QED
      BY <2>5 DEF u
  <1>5. QED
    BY <1>3, <1>4 DEF t

LEMMA Places ==
    ASSUME NEW a \in Seq(Chars), NEW b \in Seq(Chars)
    PROVE  LET t == a \o (<<COMMA>> \o b) IN
           /\ t \in Seq(Chars) /\ Len(t) = Len(a) + 1 + Len(b) /\ t[Len(a) + 1] = COMMA
           /\ \A i \in 1..Len(a) : t[i] = a[i]
           /\ \A i \in 1..Len(b) : t[Len(a) + 1 + i] = b[i]
  <1> DEFINE u == <<COMMA>> \o b
             t == a \o u
  <1>1. <<COMMA>> \in Seq(Chars) /\ Len(<<COMMA>>) = 1 /\ <<COMMA>>[1] = COMMA
    <2>1. COMMA \in Chars
      BY DEF COMMA, Chars, ANSWER
    <2>2. QED
      BY <2>1
  <1>2. /\ u \in Seq(Chars) /\ Len(u) = 1 + Len(b)
        /\ \A i \in 1..(1 + Len(b)) : u[i] = IF i <= 1 THEN <<COMMA>>[i] ELSE b[i - 1]
    BY <1>1, ConcatProperties
  <1> HIDE DEF u
  <1>3. /\ t \in Seq(Chars) /\ Len(t) = Len(a) + Len(u)
        /\ \A i \in 1..(Len(a) + Len(u)) : t[i] = IF i <= Len(a) THEN a[i] ELSE u[i - Len(a)]
    BY <1>2, ConcatProperties
  <1> HIDE DEF t
  <1>4. Len(a) \in Nat /\ Len(b) \in Nat
    BY LenProperties
  <1>5. Len(t) = Len(a) + 1 + Len(b)
    BY <1>2, <1>3, <1>4
  <1>6. t[Len(a) + 1] = COMMA
    <2>1. /\ Len(a) + 1 \in 1..(Len(a) + Len(u)) /\ ~(Len(a) + 1 <= Len(a))
          /\ (Len(a) + 1) - Len(a) = 1 /\ 1 \in 1..(1 + Len(b))
      BY <1>2, <1>4
    <2>2. QED
      BY <1>1, <1>2, <1>3, <2>1
  <1>7. \A i \in 1..Len(a) : t[i] = a[i]
    BY <1>2, <1>3, <1>4
  <1>8. ASSUME NEW i \in 1..Len(b) PROVE t[Len(a) + 1 + i] = b[i]
    <2>1. /\ Len(a) + 1 + i \in 1..(Len(a) + Len(u)) /\ ~(Len(a) + 1 + i <= Len(a))
          /\ (Len(a) + 1 + i) - Len(a) = i + 1 /\ i + 1 \in 1..(1 + Len(b))
          /\ ~(i + 1 <= 1) /\ (i + 1) - 1 = i
      BY <1>2, <1>4
    <2>2. QED
      BY <1>2, <1>3, <2>1
  <1>9. QED
    BY <1>3, <1>5, <1>6, <1>7, <1>8 DEF t, u

LEMMA AroundTheComma ==
    ASSUME NEW a \in Seq(Chars), NEW b \in Seq(Chars)
    PROVE  LET t == a \o (<<COMMA>> \o b) IN
           Before(t, Len(a) + 1) = a /\ After(t, Len(a) + 1) = b
  <1> DEFINE t == a \o (<<COMMA>> \o b)
  <1>1. <<COMMA>> \in Seq(Chars) /\ Len(<<COMMA>>) = 1
    <2>1. COMMA \in Chars
      BY DEF COMMA, Chars, ANSWER
    <2>2. QED
      BY <2>1
  <1>2. <<COMMA>> \o b \in Seq(Chars) /\ a \o <<COMMA>> \in Seq(Chars)
    BY <1>1, ConcatProperties
  <1>3. Len(a \o <<COMMA>>) = Len(a) + 1
    BY <1>1, ConcatProperties
  <1>4. t = (a \o <<COMMA>>) \o b
    BY <1>1, ConcatAssociative
  <1>5. SubSeq(t, Len(a) + 1 + 1, Len(t)) = b
    <2>1. SubSeq((a \o <<COMMA>>) \o b, Len(a \o <<COMMA>>) + 1, Len((a \o <<COMMA>>) \o b)) = b
      BY <1>2, Cut
    <2>2. QED
      BY <1>3, <1>4, <2>1, Zenon
  <1>6. SubSeq(t, 1, Len(a) + 1 - 1) = a
    <2>1. Len(a) \in Nat /\ Len(a) + 1 - 1 = Len(a)
      BY LenProperties
    <2>2. SubSeq(t, 1, Len(a)) = a
      BY <1>2, Cut
    <2>3. QED
      BY <2>1, <2>2, Zenon
  <1>7. QED
    BY <1>5, <1>6 DEF Before, After

(* The first comma of a text is behind its first field ... *)
LEMMA FirstField ==
    ASSUME NEW a \in Seq(Chars), NEW b \in Seq(Chars), \A i \in 1..Len(a) : a[i] # COMMA
    PROVE  LET t == a \o (<<COMMA>> \o b) IN
           /\ t \in Seq(Chars) /\ Comma(t) > 0
           /\ Before(t, Comma(t)) = a /\ After(t, Comma(t)) = b
  <1> DEFINE t == a \o (<<COMMA>> \o b)
             I == {i \in 1..Len(t) : t[i] = COMMA}
  <1>1. /\ t \in Seq(Chars) /\ Len(t) = Len(a) + 1 + Len(b) /\ t[Len(a) + 1] = COMMA
        /\ \A i \in 1..Len(a) : t[i] = a[i]
        /\ Before(t, Len(a) + 1) = a /\ After(t, Len(a) + 1) = b
    BY Places, AroundTheComma
  <1>2. Len(a) \in Nat /\ Len(b) \in Nat
    BY LenProperties
  <1> HIDE DEF t
  <1>3. I \in SUBSET Nat /\ Len(a) + 1 \in I
    BY <1>1, <1>2
  <1>4. ASSUME NEW y \in I PROVE Len(a) + 1 <= y
    <2>1. y \in Nat /\ y >= 1 /\ t[y] = COMMA
      BY <1>1, <1>2
    <2>2. y \notin 1..Len(a)
      BY <1>1, <2>1
    <2>3. QED
      BY <1>2, <2>1, <2>2
  <1> HIDE DEF I
  <1>5. Min(I) = Len(a) + 1 /\ I # {}
    BY <1>3, <1>4, MinIs
  <1>6. Comma(t) = Len(a) + 1
    BY <1>5 DEF Comma, SelectInSeq, I
  <1>7. Comma(t) > 0
    BY <1>2, <1>6
  <1>8. QED
    BY <1>1, <1>6, <1>7, Zenon DEF t

(* ... and the last one before its last field. *)
LEMMA LastField ==
    ASSUME NEW a \in Seq(Chars), NEW b \in Seq(Chars), \A i \in 1..Len(b) : b[i] # COMMA
    PROVE  LET t == a \o (<<COMMA>> \o b) IN
           LastComma(t) > 0 /\ After(t, LastComma(t)) = b
  <1> DEFINE t == a \o (<<COMMA>> \o b)
             I == {i \in 1..Len(t) : t[i] = COMMA}
  <1>1. /\ t \in Seq(Chars) /\ Len(t) = Len(a) + 1 + Len(b) /\ t[Len(a) + 1] = COMMA
        /\ \A i \in 1..Len(b) : t[Len(a) + 1 + i] = b[i]
        /\ After(t, Len(a) + 1) = b
    BY Places, AroundTheComma
  <1>2. Len(a) \in Nat /\ Len(b) \in Nat
    BY LenProperties
  <1> HIDE DEF t
  <1>3. I \in SUBSET Nat /\ Len(a) + 1 \in I
    BY <1>1, <1>2
  <1>4. ASSUME NEW y \in I PROVE Len(a) + 1 >= y
    <2>1. y \in Nat /\ y <= Len(a) + 1 + Len(b) /\ t[y] = COMMA
      BY <1>1, <1>2
    <2>2. ASSUME y > Len(a) + 1 PROVE FALSE
      <3>1. y - (Len(a) + 1) \in 1..Len(b) /\ Len(a) + 1 + (y - (Len(a) + 1)) = y
        BY <1>2, <2>1, <2>2
      <3>2. t[y] = b[y - (Len(a) + 1)]
        BY <1>1, <3>1
      <3>3. QED
        BY <2>1, <3>1, <3>2
    <2>3. QED
      BY <1>2, <2>1, <2>2
  <1> HIDE DEF I
  <1>5. Max(I) = Len(a) + 1 /\ I # {}
    BY <1>3, <1>4, MaxIs
  <1>6. LastComma(t) = Len(a) + 1
    BY <1>5 DEF LastComma, SelectLastInSeq, I
  <1>7. LastComma(t) > 0
    BY <1>2, <1>6
  <1>8. QED
    BY <1>1, <1>6, <1>7, Zenon DEF t

(* A place a search returns is one of the text. *)
LEMMA CommaIsPlace ==
    ASSUME NEW t \in Seq(Chars)
    PROVE  /\ Comma(t) \in Nat
           /\ Comma(t) > 0 => Comma(t) \in 1..Len(t) /\ t[Comma(t)] = COMMA
           /\ LastComma(t) > 0 => COMMA \in Range(t)
  <1> DEFINE I == {i \in 1..Len(t) : t[i] = COMMA}
  <1>1. Comma(t) = (IF I # {} THEN Min(I) ELSE 0) /\ LastComma(t) = (IF I # {} THEN Max(I) ELSE 0)
    BY DEF Comma, LastComma, SelectInSeq, SelectLastInSeq
  <1>2. I \in SUBSET Nat /\ I \in SUBSET (1..Len(t)) /\ \A i \in I : t[i] = COMMA
    OBVIOUS
  <1>3. I # {} => COMMA \in Range(t)
    BY RangeEquality
  <1> HIDE DEF I
  <1>4. CASE I = {}
    BY <1>1, <1>4
  <1>5. CASE I # {}
    <2>1. Min(I) \in I
      BY <1>2, <1>5, MinWithin
    <2>2. QED
      BY <1>1, <1>2, <1>3, <1>5, <2>1
  <1>6. QED
    BY <1>4, <1>5

(* Two fields of a text that end in a comma end in two commas. *)
LEMMA TwoCommas ==
    ASSUME NEW t \in Seq(Chars), Comma(t) > 0, Comma(After(t, Comma(t))) > 0
    PROVE  \E p, q \in 1..Len(t) : p # q /\ t[p] = COMMA /\ t[q] = COMMA
  <1> DEFINE p == Comma(t)
             u == After(t, p)
             q == Comma(u)
  <1>1. p \in 1..Len(t) /\ t[p] = COMMA /\ p \in Nat /\ Len(t) \in Nat
    BY CommaIsPlace, LenProperties
  <1>2. /\ u \in Seq(Chars) /\ Len(u) = IF p + 1 <= Len(t) THEN Len(t) - (p + 1) + 1 ELSE 0
        /\ \A i \in 1..(Len(t) - (p + 1) + 1) : u[i] = t[(p + 1) + i - 1]
    <2> HIDE DEF p
    <2>1. p + 1 \in Int /\ Len(t) \in Int /\ \A i \in (p + 1)..Len(t) : t[i] \in Chars
      BY <1>1, ElementOfSeq
    <2>2. QED
      BY <2>1, SubSeqProperties DEF After
  <1>3. q > 0
    OBVIOUS
  <1> HIDE DEF p, u
  <1>4. q \in 1..Len(u) /\ u[q] = COMMA
    BY <1>2, <1>3, CommaIsPlace
  <1> HIDE DEF q
  <1>5. q \in 1..(Len(t) - (p + 1) + 1) /\ (p + 1) + q - 1 = p + q /\ p + q \in 1..Len(t) /\ p + q # p
    <2>1. Len(u) \in Nat /\ q \in Nat /\ 1 <= q /\ q <= Len(u)
      BY <1>2, <1>4, LenProperties
    <2>2. Len(u) # 0
      BY <2>1
    <2>3. Len(u) = Len(t) - (p + 1) + 1
      BY <1>2, <2>2
    <2>4. QED
      BY <1>1, <2>1, <2>3
  <1>6. t[p + q] = COMMA
    BY <1>2, <1>4, <1>5
  <1>7. QED
    BY <1>1, <1>5, <1>6

-----------------------------------------------------------------------------
(* What strstr finds. *)

LEMMA AnswerFound ==
    ASSUME event.head = "+QISACK:", event.body \in Seq(Chars), event.behind \in Seq(Chars)
    PROVE  AnswerText = event.body \o event.behind
  <1> DEFINE rest == event.body \o event.behind
             all == <<ANSWER>> \o rest
             I == {i \in 1..Len(all) : all[i] = ANSWER}
  <1>1. <<ANSWER>> \in Seq(Chars) /\ Len(<<ANSWER>>) = 1 /\ <<ANSWER>>[1] = ANSWER
    <2>1. ANSWER \in Chars
      BY DEF Chars, ANSWER
    <2>2. QED
      BY <2>1
  <1>2. rest \in Seq(Chars) /\ (<<ANSWER>> \o event.body) \o event.behind = all
    <2>1. rest \in Seq(Chars)
      BY ConcatProperties
    <2>2. (<<ANSWER>> \o event.body) \o event.behind = all
      BY <1>1, Regrouped, Zenon
    <2>3. QED
      BY <2>1, <2>2
  <1> HIDE DEF rest
  <1>3. /\ Len(all) = 1 + Len(rest) /\ Len(rest) \in Nat
        /\ \A i \in 1..(1 + Len(rest)) : all[i] = IF i <= 1 THEN <<ANSWER>>[i] ELSE rest[i - 1]
    BY <1>1, <1>2, ConcatProperties, LenProperties
  <1>4. SubSeq(all, 1 + 1, Len(all)) = rest
    BY <1>1, <1>2, Cut
  <1> HIDE DEF all
  <1>5. I \in SUBSET Nat /\ 1 \in I /\ \A y \in I : 1 <= y
    BY <1>1, <1>3
  <1> HIDE DEF I
  <1>6. Min(I) = 1 /\ I # {}
    BY <1>5, MinIs
  <1>7. Answer(all) = 1
    BY <1>6 DEF Answer, SelectInSeq, I
  <1>8. After(all, Answer(all)) = rest /\ Answer(all) # 0
    BY <1>4, <1>7 DEF After
  <1>9. Memory = all
    <2>1. Memory = (<<ANSWER>> \o event.body) \o event.behind
      BY DEF Memory
    <2>2. QED
      BY <1>2, <2>1, Zenon
  <1>10. AnswerText = IF Answer(all) = 0 THEN << >> ELSE After(all, Answer(all))
    BY <1>9, Zenon DEF AnswerText
  <1>11. QED
    BY <1>8, <1>10, Zenon DEF rest

LEMMA NoAnswerFound ==
    ASSUME event.head # "+QISACK:", event.body \in Seq(0..LETTER), event.behind \in Seq(Chars),
           ANSWER \notin Range(event.behind)
    PROVE  AnswerText = << >>
  <1> DEFINE first == <<LETTER>> \o event.body
             all == first \o event.behind
             I == {i \in 1..Len(all) : all[i] = ANSWER}
  <1>1. <<LETTER>> \in Seq(0..LETTER)
    BY DEF LETTER
  <1>2. first \in Seq(0..LETTER)
    BY <1>1, ConcatProperties
  <1> HIDE DEF first
  <1>3. first \in Seq(Chars) /\ Len(first) \in Nat /\ \A i \in 1..Len(first) : first[i] # ANSWER
    <2>1. 0..LETTER \subseteq Chars /\ ANSWER \notin 0..LETTER
      BY DEF LETTER, ANSWER, Chars
    <2>2. first \in Seq(Chars) /\ Len(first) \in Nat
      BY <1>2, <2>1, SeqMonotonic, LenProperties
    <2>3. \A i \in 1..Len(first) : first[i] \in 0..LETTER
      BY <1>2, ElementOfSeq
    <2>4. QED
      BY <2>1, <2>2, <2>3
  <1>4. Len(event.behind) \in Nat /\ \A i \in 1..Len(event.behind) : event.behind[i] # ANSWER
    BY RangeEquality, LenProperties
  <1>5. /\ all \in Seq(Chars) /\ Len(all) = Len(first) + Len(event.behind)
        /\ \A i \in 1..(Len(first) + Len(event.behind)) :
               all[i] = IF i <= Len(first) THEN first[i] ELSE event.behind[i - Len(first)]
    BY <1>3, ConcatProperties
  <1> HIDE DEF all
  <1>6. I = {}
    <2>1. ASSUME NEW i \in 1..Len(all) PROVE all[i] # ANSWER
      <3>1. CASE i <= Len(first)
        BY <1>3, <1>4, <1>5, <3>1
      <3>2. CASE ~(i <= Len(first))
        <4>1. i - Len(first) \in 1..Len(event.behind) /\ i \in 1..(Len(first) + Len(event.behind))
          BY <1>3, <1>4, <1>5, <3>2
        <4>2. QED
          BY <1>4, <1>5, <3>2, <4>1
      <3>3. QED
        BY <3>1, <3>2
    <2>2. QED
      BY <2>1
  <1> HIDE DEF I
  <1>7. Answer(all) = 0
    BY <1>6 DEF Answer, SelectInSeq, I
  <1>8. AnswerText = IF Answer(all) = 0 THEN << >> ELSE After(all, Answer(all))
    <2>1. Memory = all
      BY DEF Memory, all, first
    <2>2. QED
      BY <2>1, Zenon DEF AnswerText
  <1>9. QED
    BY <1>7, <1>8, Zenon

(* What is found is the end of what lies behind the beginning of the event. *)
LEMMA AnswerIsEnd ==
    ASSUME event.body \in Seq(Chars), event.behind \in Seq(Chars)
    PROVE  /\ AnswerText \in Seq(Chars)
           /\ LET text == event.body \o event.behind IN
              \E k \in Nat : \A i \in 1..Len(AnswerText) :
                  i + k \in 1..Len(text) /\ text[i + k] = AnswerText[i]
  <1> DEFINE x == IF event.head = "+QISACK:" THEN ANSWER ELSE LETTER
             text == event.body \o event.behind
             all == <<x>> \o text
             p == Answer(all)
             I == {i \in 1..Len(all) : all[i] = ANSWER}
  <1>1. <<x>> \in Seq(Chars) /\ Len(<<x>>) = 1
    <2>1. ANSWER \in Chars /\ LETTER \in Chars
      BY DEF Chars, ANSWER, LETTER
    <2>2. x \in Chars
      BY <2>1
    <2>3. QED
      BY <2>2
  <1>2. text \in Seq(Chars) /\ (<<x>> \o event.body) \o event.behind = all
    <2>1. text \in Seq(Chars)
      BY ConcatProperties
    <2>2. (<<x>> \o event.body) \o event.behind = all
      BY <1>1, Regrouped, Zenon
    <2>3. QED
      BY <2>1, <2>2
  <1>3. AnswerText = IF p = 0 THEN << >> ELSE After(all, p)
    <2>1. Memory = all
      BY <1>2, Zenon DEF Memory
    <2>2. QED
      BY <2>1, Zenon DEF AnswerText
  <1> HIDE DEF x, text
  <1>4. /\ all \in Seq(Chars) /\ Len(all) = 1 + Len(text) /\ Len(text) \in Nat
        /\ \A i \in 1..(1 + Len(text)) : all[i] = IF i <= 1 THEN <<x>>[i] ELSE text[i - 1]
    BY <1>1, <1>2, ConcatProperties, LenProperties
  <1> HIDE DEF all
  <1>5. p = 0 \/ p \in 1..Len(all)
    <2>1. p = IF I # {} THEN Min(I) ELSE 0
      BY DEF Answer, SelectInSeq
    <2>2. I \in SUBSET Nat /\ I \in SUBSET (1..Len(all))
      OBVIOUS
    <2> HIDE DEF I, p
    <2>3. QED
      BY <2>1, <2>2, MinWithin
  <1> HIDE DEF p
  <1>6. CASE p = 0
    <2>1. AnswerText = << >>
      BY <1>3, <1>6
    <2>2. << >> \in Seq(Chars) /\ 1..Len(<< >>) = {} /\ 0 \in Nat
      OBVIOUS
    <2>3. QED
      BY <2>1, <2>2, Zenon
  <1>7. CASE p \in 1..Len(all)
    <2> DEFINE u == After(all, p)
    <2>1. AnswerText = u
      BY <1>3, <1>7
    <2>2. p \in Nat /\ p >= 1 /\ p <= 1 + Len(text)
      BY <1>4, <1>7
    <2>3. /\ u \in Seq(Chars)
          /\ Len(u) = IF p + 1 <= Len(all) THEN Len(all) - (p + 1) + 1 ELSE 0
          /\ \A i \in 1..(Len(all) - (p + 1) + 1) : u[i] = all[(p + 1) + i - 1]
      <3>1. /\ p + 1 \in Int /\ Len(all) \in Int
            /\ \A i \in (p + 1)..Len(all) : all[i] \in Chars
        BY <1>4, <2>2, ElementOfSeq
      <3>2. QED
        BY <3>1, SubSeqProperties DEF After
    <2> HIDE DEF u
    <2>4. ASSUME NEW i \in 1..Len(u) PROVE i + (p - 1) \in 1..Len(text) /\ text[i + (p - 1)] = u[i]
      <3>1. Len(u) \in Nat /\ i \in Nat /\ 1 <= i /\ i <= Len(u)
        BY <2>3, LenProperties
      <3>2. Len(u) = Len(all) - (p + 1) + 1
        BY <2>3, <3>1
      <3>3. /\ i \in 1..(Len(all) - (p + 1) + 1) /\ (p + 1) + i - 1 = p + i
            /\ p + i \in 1..(1 + Len(text)) /\ ~(p + i <= 1) /\ (p + i) - 1 = i + (p - 1)
            /\ i + (p - 1) \in 1..Len(text)
        BY <1>4, <2>2, <3>1, <3>2
      <3>4. u[i] = all[p + i] /\ all[p + i] = text[(p + i) - 1]
        BY <1>4, <2>3, <3>3
      <3>5. QED
        BY <3>3, <3>4
    <2>5. p - 1 \in Nat
      BY <2>2
    <2>6. QED
      BY <2>1, <2>3, <2>4, <2>5, Zenon DEF text
  <1>8. QED
    BY <1>5, <1>6, <1>7

-----------------------------------------------------------------------------
(* What the modem sends. *)

(* A number stands in a field of its own, with or without a blank before it. *)
LEMMA NumberIsField ==
    ASSUME NEW n \in Reported, NEW field, field = Digits(n) \/ field = <<SPACE>> \o Digits(n)
    PROVE  /\ field \in Seq(0..LETTER) /\ field \in Seq(Chars) /\ Number(field) = n
           /\ \A i \in 1..Len(field) : field[i] # COMMA
  <1> DEFINE S == 0..9 \cup {SPACE}
             d == Digits(n)
  <1>1. d \in Seq(0..9) /\ Number(d) = n /\ Number(<<SPACE>> \o d) = n
    BY NumberRead
  <1>2. S \subseteq 0..LETTER /\ S \subseteq Chars /\ COMMA \notin S /\ 0..9 \subseteq S
    BY DEF SPACE, LETTER, Chars, ANSWER, COMMA
  <1>3. d \in Seq(S) /\ <<SPACE>> \in Seq(S)
    <2>1. SPACE \in S
      OBVIOUS
    <2> HIDE DEF S, d
    <2>2. QED
      BY <1>1, <1>2, <2>1, SeqMonotonic
  <1> HIDE DEF S, d
  <1>4. <<SPACE>> \o d \in Seq(S)
    BY <1>3, ConcatProperties
  <1>5. field \in Seq(S) /\ Number(field) = n
    BY <1>1, <1>3, <1>4, Zenon DEF d
  <1>6. \A i \in 1..Len(field) : field[i] \in S
    BY <1>5, ElementOfSeq
  <1>7. QED
    BY <1>2, <1>5, <1>6, SeqMonotonic

(* The answer of AT+QISACK has three such fields. *)
LEMMA AckBody ==
    ASSUME NEW n \in Reported \X Reported \X Reported
    PROVE  Body("+QISACK:", n) =
               (<<SPACE>> \o Digits(n[1])) \o
                   (<<COMMA>> \o ((<<SPACE>> \o Digits(n[2])) \o
                       (<<COMMA>> \o (<<SPACE>> \o Digits(n[3])))))
  <1> DEFINE s == <<SPACE>>
             k == <<COMMA>>
             d1 == Digits(n[1])
             d2 == Digits(n[2])
             d3 == Digits(n[3])
  <1>1. s \in Seq(Chars) /\ k \in Seq(Chars)
    <2>1. SPACE \in Chars /\ COMMA \in Chars
      BY DEF SPACE, COMMA, Chars, ANSWER
    <2>2. QED
      BY <2>1
  <1>2. n[1] \in Reported /\ n[2] \in Reported /\ n[3] \in Reported
    OBVIOUS
  <1>3. d1 \in Seq(Chars) /\ d2 \in Seq(Chars) /\ d3 \in Seq(Chars)
    BY <1>2, NumberIsField
  <1>4. Body("+QISACK:", n) = ((((s \o d1) \o (k \o s)) \o d2) \o (k \o s)) \o d3
    <2>1. <<COMMA, SPACE>> = k \o s
      <3> DEFINE u == k \o s
      <3>1. /\ u \in Seq(Chars) /\ Len(u) = Len(k) + Len(s)
            /\ \A i \in 1..(Len(k) + Len(s)) : u[i] = IF i <= Len(k) THEN k[i] ELSE s[i - Len(k)]
        BY <1>1, ConcatProperties
      <3>2. Len(k) = 1 /\ Len(s) = 1 /\ k[1] = COMMA /\ s[1] = SPACE
        OBVIOUS
      <3> HIDE DEF u, k, s
      <3>3. Len(u) = 2 /\ u[1] = COMMA /\ u[2] = SPACE
        BY <3>1, <3>2
      <3>4. u = <<COMMA, SPACE>>
        <4>1. <<COMMA, SPACE>> \in Seq(Chars) /\ Len(<<COMMA, SPACE>>) = 2
          <5>1. SPACE \in Chars /\ COMMA \in Chars
            BY DEF SPACE, COMMA, Chars, ANSWER
          <5>2. QED
            BY <5>1
        <4>2. \A i \in 1..2 : u[i] = <<COMMA, SPACE>>[i]
          BY <3>3
        <4>3. QED
          BY <3>1, <3>3, <4>1, <4>2, SeqEqual
      <3>5. QED
        BY <3>4 DEF u
    <2>2. QED
      BY <2>1 DEF Body
  <1> HIDE DEF s, k, d1, d2, d3
  <1>5. \A x, y \in Seq(Chars) : x \o y \in Seq(Chars)
    BY ConcatProperties
  <1> DEFINE a == s \o d1
             b == s \o d2
             c == s \o d3
             w == k \o s
             x == k \o b
             z == b \o w
             v == k \o z
  <1>6. /\ a \in Seq(Chars) /\ b \in Seq(Chars) /\ c \in Seq(Chars) /\ w \in Seq(Chars)
        /\ x \in Seq(Chars) /\ z \in Seq(Chars) /\ v \in Seq(Chars)
    BY <1>1, <1>3, <1>5
  <1>7. w \o d2 = x /\ w \o d3 = k \o c
    <2>1. w \o d2 = x
      BY <1>1, <1>3, Regrouped, Zenon
    <2>2. w \o d3 = k \o c
      BY <1>1, <1>3, Regrouped, Zenon
    <2>3. QED
      BY <2>1, <2>2
  <1> HIDE DEF a, b, c, w
  <1>8. x \o w = v
    <2>1. k \in Seq(Chars) /\ b \in Seq(Chars) /\ w \in Seq(Chars)
      BY <1>1, <1>6
    <2>2. QED
      BY <2>1, Regrouped
  <1>9. z \o d3 = b \o (w \o d3)
    <2>1. b \in Seq(Chars) /\ w \in Seq(Chars) /\ d3 \in Seq(Chars)
      BY <1>3, <1>6
    <2>2. QED
      BY <2>1, Regrouped
  <1> HIDE DEF x, z
  <1>10. v \o d3 = k \o (z \o d3)
    <2>1. k \in Seq(Chars) /\ z \in Seq(Chars) /\ d3 \in Seq(Chars)
      BY <1>1, <1>3, <1>6
    <2>2. QED
      BY <2>1, Regrouped
  <1> HIDE DEF v
  <1>11. (a \o w) \o d2 = a \o (w \o d2) /\ (a \o x) \o w = a \o (x \o w)
    <2>1. a \in Seq(Chars) /\ w \in Seq(Chars) /\ d2 \in Seq(Chars) /\ x \in Seq(Chars)
      BY <1>3, <1>6
    <2>2. QED
      BY <2>1, Regrouped
  <1>12. (a \o v) \o d3 = a \o (v \o d3)
    <2>1. a \in Seq(Chars) /\ v \in Seq(Chars) /\ d3 \in Seq(Chars)
      BY <1>3, <1>6
    <2>2. QED
      BY <2>1, Regrouped
  <1>13. (((a \o w) \o d2) \o w) \o d3 = a \o (k \o (b \o (k \o c)))
    BY <1>7, <1>8, <1>9, <1>10, <1>11, <1>12, Zenon
  <1>14. QED
    BY <1>4, <1>13, Zenon DEF a, b, c, w, s, k, d1, d2, d3

(* Whatever lies behind it, the first two fields of the answer are read. *)
LEMMA AckFields ==
    ASSUME NEW n \in Reported \X Reported \X Reported, NEW m \in Seq(Chars)
    PROVE  LET text == Body("+QISACK:", n) \o m
               second == After(text, Comma(text))
           IN  /\ Comma(text) > 0 /\ Comma(second) > 0
               /\ Number(Before(text, Comma(text))) = n[1]
               /\ Number(Before(second, Comma(second))) = n[2]
  <1> DEFINE k == <<COMMA>>
             a == <<SPACE>> \o Digits(n[1])
             b == <<SPACE>> \o Digits(n[2])
             c == <<SPACE>> \o Digits(n[3])
             u == k \o c
             v == b \o u
             w == k \o v
             rest == k \o (c \o m)
             text == Body("+QISACK:", n) \o m
             second == After(text, Comma(text))
  <1>1. n[1] \in Reported /\ n[2] \in Reported /\ n[3] \in Reported
    OBVIOUS
  <1>2. /\ a \in Seq(Chars) /\ Number(a) = n[1] /\ \A i \in 1..Len(a) : a[i] # COMMA
        /\ b \in Seq(Chars) /\ Number(b) = n[2] /\ \A i \in 1..Len(b) : b[i] # COMMA
        /\ c \in Seq(Chars)
    BY <1>1, NumberIsField
  <1>3. k \in Seq(Chars)
    <2>1. COMMA \in Chars
      BY DEF COMMA, Chars, ANSWER
    <2>2. QED
      BY <2>1
  <1>4. Body("+QISACK:", n) = a \o w
    BY AckBody
  <1> HIDE DEF a, b, c, k
  <1>5. /\ u \in Seq(Chars) /\ v \in Seq(Chars) /\ w \in Seq(Chars)
        /\ c \o m \in Seq(Chars) /\ rest \in Seq(Chars) /\ b \o rest \in Seq(Chars)
    BY <1>2, <1>3, ConcatProperties
  <1>6. u \o m = rest
    <2>1. c \in Seq(Chars)
      BY <1>2
    <2>2. QED
      BY <1>3, <2>1, Regrouped
  <1> HIDE DEF u, rest
  <1>7. v \o m = b \o rest
    <2>1. b \in Seq(Chars) /\ u \in Seq(Chars)
      BY <1>2, <1>5
    <2>2. v \o m = b \o (u \o m)
      BY <2>1, Regrouped
    <2>3. QED
      BY <1>6, <2>2, Zenon
  <1> HIDE DEF v
  <1>8. w \o m = k \o (b \o rest)
    <2>1. k \in Seq(Chars) /\ v \in Seq(Chars)
      BY <1>3, <1>5
    <2>2. w \o m = k \o (v \o m)
      BY <2>1, Regrouped
    <2>3. QED
      BY <1>7, <2>2, Zenon
  <1> HIDE DEF w
  <1>9. text = a \o (k \o (b \o rest))
    <2>1. a \in Seq(Chars) /\ w \in Seq(Chars)
      BY <1>2, <1>5
    <2>2. (a \o w) \o m = a \o (w \o m)
      BY <2>1, Regrouped
    <2>3. QED
      BY <1>4, <1>8, <2>2, Zenon
  <1>10. Comma(text) > 0 /\ Before(text, Comma(text)) = a /\ second = b \o rest
    <2> DEFINE t == a \o (k \o (b \o rest))
    <2>1. Comma(t) > 0 /\ Before(t, Comma(t)) = a /\ After(t, Comma(t)) = b \o rest
      BY <1>2, <1>5, FirstField, Zenon DEF k
    <2>2. QED
      BY <1>9, <2>1, Zenon
  <1>11. Comma(second) > 0 /\ Before(second, Comma(second)) = b
    <2>1. second = b \o (k \o (c \o m))
      BY <1>10, Zenon DEF rest
    <2> HIDE DEF second
    <2> DEFINE t == b \o (k \o (c \o m))
    <2>2. Comma(t) > 0 /\ Before(t, Comma(t)) = b
      BY <1>2, <1>5, FirstField, Zenon DEF k
    <2>3. QED
      BY <2>1, <2>2, Zenon
  <1> HIDE DEF text
  <1>12. QED
    BY <1>2, <1>10, <1>11, Zenon DEF text

(* An announcement has the length behind its second comma ... *)
LEMMA RecvFields ==
    ASSUME NEW n \in Reported \X Reported \X Reported
    PROVE  LET text == Body("+QIRD: ", n)
               second == After(text, Comma(text))
           IN  /\ Comma(text) > 0 /\ Comma(second) > 0
               /\ Number(After(second, Comma(second))) = n[3]
  <1> DEFINE k == <<COMMA>>
             l == <<LETTER>>
             d == Digits(n[3])
             rest == l \o (k \o d)
             text == Body("+QIRD: ", n)
             second == After(text, Comma(text))
  <1>1. n[3] \in Reported
    OBVIOUS
  <1>2. d \in Seq(Chars) /\ Number(d) = n[3]
    BY <1>1, NumberIsField
  <1>3. /\ k \in Seq(Chars) /\ l \in Seq(Chars) /\ Len(l) = 1 /\ l[1] # COMMA
        /\ Len(k) = 1 /\ l[1] = LETTER /\ k[1] = COMMA
    <2>1. COMMA \in Chars /\ LETTER \in Chars /\ LETTER # COMMA
      BY DEF COMMA, LETTER, Chars, ANSWER
    <2>2. QED
      BY <2>1
  <1>4. \A i \in 1..Len(l) : l[i] # COMMA
    BY <1>3
  <1>5. text = l \o (k \o rest)
    <2> DEFINE lk == l \o k
               four == lk \o lk
               kd == k \o d
               last == lk \o d
    <2>1. /\ lk \in Seq(Chars) /\ Len(lk) = 1 + 1
          /\ \A i \in 1..(1 + 1) : lk[i] = IF i <= 1 THEN l[i] ELSE k[i - 1]
      BY <1>3, ConcatProperties
    <2> HIDE DEF l, k, lk
    <2>2. Len(lk) = 2 /\ lk[1] = LETTER /\ lk[2] = COMMA
      BY <1>3, <2>1
    <2>3. /\ four \in Seq(Chars) /\ Len(four) = 2 + 2
          /\ \A i \in 1..(2 + 2) : four[i] = IF i <= 2 THEN lk[i] ELSE lk[i - 2]
      <3>1. /\ four \in Seq(Chars) /\ Len(four) = Len(lk) + Len(lk)
            /\ \A i \in 1..(Len(lk) + Len(lk)) :
                   four[i] = IF i <= Len(lk) THEN lk[i] ELSE lk[i - Len(lk)]
        BY <2>1, ConcatProperties
      <3> HIDE DEF four
      <3>2. QED
        BY <2>2, <3>1, Zenon
    <2> HIDE DEF four
    <2>4. /\ Len(four) = 4 /\ four[1] = LETTER /\ four[2] = COMMA
          /\ four[3] = LETTER /\ four[4] = COMMA
      BY <2>2, <2>3
    <2>5. four = <<LETTER, COMMA, LETTER, COMMA>>
      <3>1. /\ <<LETTER, COMMA, LETTER, COMMA>> \in Seq(Chars)
            /\ Len(<<LETTER, COMMA, LETTER, COMMA>>) = 4
        <4>1. COMMA \in Chars /\ LETTER \in Chars
          BY DEF COMMA, LETTER, Chars, ANSWER
        <4>2. QED
          BY <4>1
      <3>2. \A i \in 1..4 : four[i] = <<LETTER, COMMA, LETTER, COMMA>>[i]
        BY <2>4
      <3>3. QED
        BY <2>3, <2>4, <3>1, <3>2, SeqEqual
    <2>6. text = four \o d
      BY <2>5 DEF Body
    <2> HIDE DEF d, text
    <2>7. kd \in Seq(Chars) /\ last = l \o kd /\ last \in Seq(Chars)
      <3>1. k \in Seq(Chars) /\ l \in Seq(Chars) /\ d \in Seq(Chars)
        BY <1>2, <1>3
      <3>2. kd \in Seq(Chars) /\ last \in Seq(Chars)
        BY <2>1, <3>1, ConcatProperties
      <3>3. last = l \o kd
        BY <3>1, Regrouped DEF lk
      <3>4. QED
        BY <3>2, <3>3
    <2>8. four \o d = lk \o last
      <3>1. lk \in Seq(Chars) /\ d \in Seq(Chars)
        BY <1>2, <2>1
      <3>2. QED
        BY <3>1, Regrouped DEF four
    <2>9. lk \o last = l \o (k \o last)
      <3>1. l \in Seq(Chars) /\ k \in Seq(Chars) /\ last \in Seq(Chars)
        BY <1>3, <2>7
      <3> HIDE DEF last
      <3>2. QED
        BY <3>1, Regrouped DEF lk
    <2>10. QED
      BY <2>6, <2>7, <2>8, <2>9, Zenon
  <1> HIDE DEF d, l
  <1>6. rest \in Seq(Chars)
    <2>1. k \o d \in Seq(Chars)
      BY <1>2, <1>3, ConcatProperties
    <2>2. QED
      BY <1>3, <2>1, ConcatProperties
  <1>7. Comma(text) > 0 /\ second = rest
    <2> DEFINE t == l \o (k \o rest)
    <2> HIDE DEF rest
    <2>1. Comma(t) > 0 /\ After(t, Comma(t)) = rest
      BY <1>3, <1>4, <1>6, FirstField, Zenon DEF k
    <2>2. QED
      BY <1>5, <2>1, Zenon
  <1> HIDE DEF second
  <1>8. Comma(second) > 0 /\ After(second, Comma(second)) = d
    <2> DEFINE t == l \o (k \o d)
    <2>1. Comma(t) > 0 /\ After(t, Comma(t)) = d
      BY <1>2, <1>3, <1>4, FirstField, Zenon DEF k
    <2>2. QED
      BY <1>7, <2>1, Zenon
  <1>9. QED
    BY <1>2, <1>7, <1>8, Zenon DEF second

(* ... and a notice has the total behind its last comma. *)
LEMMA QirdiFields ==
    ASSUME NEW n \in Reported \X Reported \X Reported
    PROVE  LET text == Body("+QIRDI: ", n) IN
           LastComma(text) > 0 /\ Number(After(text, LastComma(text))) = n[3]
  <1> DEFINE k == <<COMMA>>
             d == Digits(n[3])
             first == (Digits(n[1]) \o k) \o Digits(n[2])
             text == Body("+QIRDI: ", n)
  <1>1. n[1] \in Reported /\ n[2] \in Reported /\ n[3] \in Reported
    OBVIOUS
  <1>2. /\ d \in Seq(Chars) /\ Number(d) = n[3] /\ \A i \in 1..Len(d) : d[i] # COMMA
        /\ Digits(n[1]) \in Seq(Chars) /\ Digits(n[2]) \in Seq(Chars)
    BY <1>1, NumberIsField
  <1>3. k \in Seq(Chars)
    <2>1. COMMA \in Chars
      BY DEF COMMA, Chars, ANSWER
    <2>2. QED
      BY <2>1
  <1>4. text = (first \o k) \o d
    BY DEF Body
  <1> HIDE DEF d, k, text
  <1>5. first \in Seq(Chars)
    <2>1. Digits(n[1]) \o k \in Seq(Chars)
      BY <1>2, <1>3, ConcatProperties
    <2>2. QED
      BY <1>2, <2>1, ConcatProperties
  <1> HIDE DEF first
  <1>6. text = first \o (k \o d)
    <2>1. d \in Seq(Chars)
      BY <1>2
    <2>2. (first \o k) \o d = first \o (k \o d)
      BY <1>3, <1>5, <2>1, Regrouped
    <2>3. QED
      BY <1>4, <2>2, Zenon
  <1>7. LastComma(text) > 0 /\ After(text, LastComma(text)) = d
    <2> DEFINE t == first \o (k \o d)
    <2>1. LastComma(t) > 0 /\ After(t, LastComma(t)) = d
      BY <1>2, <1>5, LastField, Zenon DEF k
    <2>2. QED
      BY <1>6, <2>1, Zenon
  <1>8. QED
    BY <1>2, <1>7, Zenon DEF text

LEMMA Letters ==
    /\ <<SPACE>> \in Seq(0..LETTER) /\ <<COMMA>> \in Seq(0..LETTER)
    /\ <<COMMA, SPACE>> \in Seq(0..LETTER) /\ <<LETTER, COMMA>> \in Seq(0..LETTER)
    /\ <<LETTER, COMMA, LETTER, COMMA>> \in Seq(0..LETTER)
  <1>1. SPACE \in 0..LETTER /\ COMMA \in 0..LETTER /\ LETTER \in 0..LETTER
    BY DEF SPACE, COMMA, LETTER
  <1>2. ASSUME NEW S, NEW a \in S, NEW b \in S, NEW c \in S
        PROVE  /\ <<a>> \in Seq(S) /\ <<b>> \in Seq(S) /\ <<b, a>> \in Seq(S)
               /\ <<c, b>> \in Seq(S) /\ <<c, b, c, b>> \in Seq(S)
    OBVIOUS
  <1>3. QED
    BY <1>1, <1>2

LEMMA BodyIsText ==
    ASSUME NEW head \in {"+QISACK:", "+QIRDI: ", "+QIRD: ", "other"},
           NEW n \in Reported \X Reported \X Reported
    PROVE  Body(head, n) \in Seq(0..LETTER)
  <1>1. n[1] \in Reported /\ n[2] \in Reported /\ n[3] \in Reported
    OBVIOUS
  <1>2. /\ Digits(n[1]) \in Seq(0..LETTER) /\ Digits(n[2]) \in Seq(0..LETTER)
        /\ Digits(n[3]) \in Seq(0..LETTER)
    BY <1>1, NumberIsField
  <1>3. /\ <<SPACE>> \in Seq(0..LETTER) /\ <<COMMA>> \in Seq(0..LETTER)
        /\ <<COMMA, SPACE>> \in Seq(0..LETTER) /\ <<LETTER, COMMA>> \in Seq(0..LETTER)
        /\ <<LETTER, COMMA, LETTER, COMMA>> \in Seq(0..LETTER)
    BY Letters
  <1>4. \A x, y \in Seq(0..LETTER) : x \o y \in Seq(0..LETTER)
    BY ConcatProperties
  <1> DEFINE a == <<SPACE>> \o Digits(n[1])
             b == (a \o <<COMMA, SPACE>>) \o Digits(n[2])
             c == (Digits(n[1]) \o <<COMMA>>) \o Digits(n[2])
             d == <<LETTER, COMMA>> \o Digits(n[1])
  <1>5. CASE head = "+QISACK:"
    <2>1. Body(head, n) = (b \o <<COMMA, SPACE>>) \o Digits(n[3])
      BY <1>5 DEF Body
    <2>2. a \in Seq(0..LETTER)
      BY <1>2, <1>3, <1>4
    <2> HIDE DEF a
    <2>3. a \o <<COMMA, SPACE>> \in Seq(0..LETTER)
      BY <1>3, <1>4, <2>2, Zenon
    <2>4. b \in Seq(0..LETTER)
      BY <1>2, <1>4, <2>3, Zenon
    <2> HIDE DEF b
    <2>5. b \o <<COMMA, SPACE>> \in Seq(0..LETTER)
      BY <1>3, <1>4, <2>4, Zenon
    <2>6. QED
      BY <1>2, <1>4, <2>1, <2>5, Zenon
  <1>6. CASE head = "+QIRDI: "
    <2>1. Body(head, n) = (c \o <<COMMA>>) \o Digits(n[3])
      BY <1>6 DEF Body
    <2>2. Digits(n[1]) \o <<COMMA>> \in Seq(0..LETTER)
      BY <1>2, <1>3, <1>4, Zenon
    <2>3. c \in Seq(0..LETTER)
      BY <1>2, <1>4, <2>2, Zenon
    <2> HIDE DEF c
    <2>4. c \o <<COMMA>> \in Seq(0..LETTER)
      BY <1>3, <1>4, <2>3, Zenon
    <2>5. QED
      BY <1>2, <1>4, <2>1, <2>4, Zenon
  <1>7. CASE head = "+QIRD: "
    <2>1. Body(head, n) = <<LETTER, COMMA, LETTER, COMMA>> \o Digits(n[3])
      BY <1>7 DEF Body
    <2>2. QED
      BY <1>2, <1>3, <1>4, <2>1, Zenon
  <1>8. CASE head = "other"
    <2>1. Body(head, n) = (d \o <<COMMA>>) \o Digits(n[2])
      BY <1>8 DEF Body
    <2>2. d \in Seq(0..LETTER)
      BY <1>2, <1>3, <1>4, Zenon
    <2> HIDE DEF d
    <2>3. d \o <<COMMA>> \in Seq(0..LETTER)
      BY <1>3, <1>4, <2>2, Zenon
    <2>4. QED
      BY <1>2, <1>4, <2>1, <2>3, Zenon
  <1>9. QED
    BY <1>5, <1>6, <1>7, <1>8

-----------------------------------------------------------------------------
(* The event an answer comes in, which no parser changes. *)

EventInv ==
    /\ about \in Reported \X Reported \X Reported
    /\ event.body \in Seq(0..LETTER) /\ event.behind \in Seq(Chars)

UnreadInv == parser = "none" => bytesReceived \in Leftovers

ParserInv ==
    /\ EventInv /\ UnreadInv
    /\ CountersOfTheAnswer /\ CountersNotLeftOver /\ LengthOfTheChunk /\ TotalOfTheNotice

LEMMA Beginning ==
    ASSUME NEW S, NEW t \in Seq(S), NEW c \in 0..Len(t) PROVE SubSeq(t, 1, c) \in Seq(S)
  <1>1. c \in Int /\ Len(t) \in Nat
    BY LenProperties
  <1>2. \A i \in 1..c : t[i] \in S
    <2>1. \A i \in 1..c : i \in 1..Len(t)
      BY <1>1
    <2>2. QED
      BY <2>1, ElementOfSeq
  <1>3. QED
    BY <1>1, <1>2, SubSeqProperties

LEMMA InitEstablishes == Init => ParserInv
  <1> SUFFICES ASSUME Init PROVE ParserInv
    OBVIOUS
  <1>1. PICK head \in {"+QISACK:", "+QIRDI: ", "+QIRD: ", "other"} :
            /\ about \in Numbers \X Numbers \X Numbers
            /\ \E cut \in 0..Len(Body(head, about)), behind \in Memories :
                  event = [head |-> head, body |-> SubSeq(Body(head, about), 1, cut),
                           behind |-> behind]
    BY DEF Init
  <1>2. PICK cut \in 0..Len(Body(head, about)), behind \in Memories :
            event = [head |-> head, body |-> SubSeq(Body(head, about), 1, cut),
                     behind |-> behind]
    BY <1>1
  <1>3. about \in Reported \X Reported \X Reported
    BY <1>1, ResponsesAssumption DEF Reported
  <1>4. event.body \in Seq(0..LETTER)
    <2> DEFINE text == Body(head, about)
    <2>1. text \in Seq(0..LETTER)
      BY <1>3, BodyIsText
    <2>2. event.body = SubSeq(text, 1, cut) /\ cut \in 0..Len(text)
      BY <1>2
    <2> HIDE DEF text
    <2>3. QED
      BY <2>1, <2>2, Beginning
  <1>5. event.behind \in Seq(Chars)
    BY <1>2, ResponsesAssumption DEF Chars
  <1>6. parser = "none" /\ bytesReceived \in Leftovers
    BY DEF Init
  <1>7. QED
    BY <1>3, <1>4, <1>5, <1>6 DEF ParserInv, EventInv, UnreadInv, CountersOfTheAnswer,
           CountersNotLeftOver, LengthOfTheChunk, TotalOfTheNotice

(* QueryAckAction: the first two fields, or nothing. *)
LEMMA AckReads ==
    ASSUME ParserInv, QueryAckAction PROVE CountersOfTheAnswer' /\ CountersNotLeftOver'
  <1> DEFINE text == AnswerText
             second == After(text, Comma(text))
             complete == Comma(text) > 0 /\ Comma(second) > 0
  <1>1. /\ UNCHANGED <<event, about>>
        /\ sent' = IF complete THEN Number(Before(text, Comma(text))) ELSE 0
        /\ acked' = IF complete THEN Number(Before(second, Comma(second))) ELSE 0
    BY DEF QueryAckAction
  <1>2. event.body \in Seq(Chars) /\ event.behind \in Seq(Chars)
    <2>1. 0..LETTER \subseteq Chars
      BY DEF LETTER, Chars, ANSWER
    <2>2. QED
      BY <2>1, SeqMonotonic DEF ParserInv, EventInv
  <1>3. ASSUME event.head = "+QISACK:", event.body = Body(event.head, about)
        PROVE  sent' = about[1] /\ acked' = about[2]
    <2>1. about \in Reported \X Reported \X Reported
      BY DEF ParserInv, EventInv
    <2> DEFINE u == Body("+QISACK:", about) \o event.behind
               v == After(u, Comma(u))
    <2>2. /\ Comma(u) > 0 /\ Comma(v) > 0
          /\ Number(Before(u, Comma(u))) = about[1]
          /\ Number(Before(v, Comma(v))) = about[2]
      BY <1>2, <2>1, AckFields, Zenon
    <2>3. text = u
      <3>1. text = event.body \o event.behind
        BY <1>2, <1>3, AnswerFound, Zenon
      <3>2. QED
        BY <1>3, <3>1
    <2> HIDE DEF u
    <2>4. second = v /\ complete
      BY <2>2, <2>3, Zenon
    <2>5. QED
      BY <1>1, <2>2, <2>3, <2>4, Zenon
  <1>4. ASSUME event.head # "+QISACK:", ANSWER \notin Range(event.behind)
        PROVE  ~complete
    <2>1. text = << >>
      BY <1>4, NoAnswerFound DEF ParserInv, EventInv
    <2>2. Comma(<< >>) = 0
      BY DEF Comma, SelectInSeq
    <2>3. QED
      BY <2>1, <2>2
  <1>5. ASSUME LET t == event.body \o event.behind
                   commas == {i \in DOMAIN t : t[i] = COMMA}
               IN  \A i, j \in commas : i = j
        PROVE  ~complete
    <2> DEFINE t == event.body \o event.behind
    <2>1. SUFFICES ASSUME complete PROVE FALSE
      OBVIOUS
    <2>2. text \in Seq(Chars)
      BY <1>2, AnswerIsEnd
    <2>3. PICK k \in Nat : \A i \in 1..Len(text) : i + k \in 1..Len(t) /\ t[i + k] = text[i]
      BY <1>2, AnswerIsEnd
    <2>4. PICK p, q \in 1..Len(text) : p # q /\ text[p] = COMMA /\ text[q] = COMMA
      BY <2>1, <2>2, TwoCommas
    <2>5. DOMAIN t = 1..Len(t)
      BY <1>2, ConcatProperties
    <2>6. p + k \in {i \in DOMAIN t : t[i] = COMMA} /\ q + k \in {i \in DOMAIN t : t[i] = COMMA}
      BY <2>3, <2>4, <2>5
    <2>7. p + k = q + k
      BY <1>5, <2>6
    <2>8. p \in Int /\ q \in Int
      BY <2>4
    <2>9. QED
      BY <2>4, <2>7, <2>8
  <1>6. CountersOfTheAnswer'
    BY <1>1, <1>3, Zenon DEF CountersOfTheAnswer, Complete
  <1>7. CountersNotLeftOver'
    <2>1. ~complete => sent' = 0 /\ acked' = 0
      BY <1>1, Zenon
    <2> HIDE DEF complete
    <2>2. QED
      BY <1>1, <1>4, <1>5, <2>1, Zenon DEF CountersNotLeftOver
  <1>8. QED
    BY <1>6, <1>7

(* ParseRecvLengthCondition: the field behind the second comma. *)
LEMMA RecvReads ==
    ASSUME ParserInv, parser = "none", ParseRecvLengthCondition PROVE LengthOfTheChunk'
  <1> DEFINE second == After(event.body, Comma(event.body))
             field == After(second, Comma(second))
             found == event.head = "+QIRD: " /\ Comma(event.body) > 0 /\ Comma(second) > 0
  <1>1. /\ UNCHANGED <<event, about>>
        /\ bytesReceived' = IF found THEN Number(field) ELSE bytesReceived
        /\ accepted' = (found /\ Number(field) > 0)
    BY DEF ParseRecvLengthCondition, Store
  <1>2. ASSUME event.head = "+QIRD: ", Complete
        PROVE  bytesReceived' = about[3] /\ accepted' = (about[3] > 0)
    <2>1. about \in Reported \X Reported \X Reported /\ event.body = Body("+QIRD: ", about)
      BY <1>2 DEF ParserInv, EventInv, Complete
    <2>2. found /\ Number(field) = about[3]
      BY <1>2, <2>1, RecvFields, Zenon
    <2> HIDE DEF found, field
    <2>3. bytesReceived' = about[3]
      BY <1>1, <2>2, Zenon
    <2>4. (found /\ Number(field) > 0) = (about[3] > 0)
      BY <2>2
    <2>5. QED
      BY <1>1, <2>3, <2>4, Zenon
  <1>3. ASSUME event.head # "+QIRD: " PROVE ~accepted' /\ bytesReceived' \in Leftovers
    <2>1. bytesReceived \in Leftovers /\ ~found
      BY <1>3 DEF ParserInv, UnreadInv
    <2> HIDE DEF found, field
    <2>2. QED
      BY <1>1, <2>1, Zenon
  <1>4. QED
    BY <1>1, <1>2, <1>3, Zenon DEF LengthOfTheChunk, Complete

(* QirdiParseCondition: the field behind the last comma. *)
LEMMA QirdiReads ==
    ASSUME ParserInv, QirdiParseCondition PROVE TotalOfTheNotice'
  <1> DEFINE last == LastComma(event.body)
             field == After(event.body, last)
             found == event.head = "+QIRDI: " /\ last > 0
  <1>1. /\ UNCHANGED <<event, about>>
        /\ bytesReceived' = IF found THEN Number(field) ELSE bytesReceived
        /\ accepted' = (found /\ Number(field) > 0)
    BY DEF QirdiParseCondition, Store
  <1>2. ASSUME event.head = "+QIRDI: ", Complete PROVE bytesReceived' = about[3]
    <2>1. about \in Reported \X Reported \X Reported /\ event.body = Body("+QIRDI: ", about)
      BY <1>2 DEF ParserInv, EventInv, Complete
    <2>2. found /\ Number(field) = about[3]
      BY <1>2, <2>1, QirdiFields, Zenon
    <2> HIDE DEF found, field
    <2>3. QED
      BY <1>1, <2>2, Zenon
  <1>3. ASSUME event.head # "+QIRDI: " \/ COMMA \notin Range(event.body) PROVE ~accepted'
    <2>1. event.body \in Seq(Chars)
      <3>1. 0..LETTER \subseteq Chars
        BY DEF LETTER, Chars, ANSWER
      <3>2. QED
        BY <3>1, SeqMonotonic DEF ParserInv, EventInv
    <2>2. ~found
      BY <1>3, <2>1, CommaIsPlace
    <2> HIDE DEF found, field
    <2>3. QED
      BY <1>1, <2>2, Zenon
  <1>4. QED
    BY <1>1, <1>2, <1>3, Zenon DEF TotalOfTheNotice, Complete

LEMMA ParserInductive == ParserInv /\ [Next]_vars => ParserInv'
  <1> SUFFICES ASSUME ParserInv, [Next]_vars PROVE ParserInv'
    OBVIOUS
  <1> USE DEF ParserInv
  <1>1. ASSUME UNCHANGED <<event, about>> PROVE EventInv'
    BY <1>1 DEF EventInv
  <1>2. CASE QueryAckAction
    <2>1. parser' = "ack" /\ UNCHANGED <<event, about>>
      BY <1>2 DEF QueryAckAction
    <2>2. CountersOfTheAnswer' /\ CountersNotLeftOver'
      BY <1>2, AckReads
    <2>3. UnreadInv' /\ LengthOfTheChunk' /\ TotalOfTheNotice'
      BY <2>1 DEF UnreadInv, LengthOfTheChunk, TotalOfTheNotice
    <2>4. QED
      BY <1>1, <2>1, <2>2, <2>3
  <1>3. CASE ParseRecvLengthCondition
    <2>1. parser = "none" /\ parser' = "recv" /\ UNCHANGED <<event, about>>
      BY <1>3 DEF ParseRecvLengthCondition, Store
    <2>2. LengthOfTheChunk'
      BY <1>3, <2>1, RecvReads
    <2>3. UnreadInv' /\ CountersOfTheAnswer' /\ CountersNotLeftOver' /\ TotalOfTheNotice'
      BY <2>1 DEF UnreadInv, CountersOfTheAnswer, CountersNotLeftOver, TotalOfTheNotice
    <2>4. QED
      BY <1>1, <2>1, <2>2, <2>3
  <1>4. CASE QirdiParseCondition
    <2>1. parser' = "qirdi" /\ UNCHANGED <<event, about>>
      BY <1>4 DEF QirdiParseCondition, Store
    <2>2. TotalOfTheNotice'
      BY <1>4, QirdiReads
    <2>3. UnreadInv' /\ CountersOfTheAnswer' /\ CountersNotLeftOver' /\ LengthOfTheChunk'
      BY <2>1 DEF UnreadInv, CountersOfTheAnswer, CountersNotLeftOver, LengthOfTheChunk
    <2>4. QED
      BY <1>1, <2>1, <2>2, <2>3
  <1>5. CASE UNCHANGED vars
    BY <1>5 DEF vars, counterVars, EventInv, UnreadInv, CountersOfTheAnswer, CountersNotLeftOver,
                LengthOfTheChunk, TotalOfTheNotice, Complete
  <1>6. QED
    BY <1>2, <1>3, <1>4, <1>5 DEF Next

-----------------------------------------------------------------------------
(* What the parsers keep is what the modem sent. *)

LEMMA ParsersHold == Spec => []ParserInv
  <1>1. Init => ParserInv
    BY InitEstablishes
  <1>2. ParserInv /\ [Next]_vars => ParserInv'
    BY ParserInductive
  <1>3. QED
    BY <1>1, <1>2, PTL DEF Spec

(* QueryAckAction reads the two counters that decide about a batch from the *)
(* answer, whatever older answer lies behind it in memory.                  *)
THEOREM CountersAreOfTheAnswer == Spec => []CountersOfTheAnswer
  <1>1. ParserInv => CountersOfTheAnswer
    BY DEF ParserInv
  <1>2. QED
    BY <1>1, ParsersHold, PTL

(* Without an answer in reach, or with one cut short before its second comma, *)
(* QueryAckAction leaves no counter of an earlier answer.                     *)
THEOREM CountersAreNotLeftOver == Spec => []CountersNotLeftOver
  <1>1. ParserInv => CountersNotLeftOver
    BY DEF ParserInv
  <1>2. QED
    BY <1>1, ParsersHold, PTL

(* ParseRecvLengthCondition accepts exactly an announcement of at least one *)
(* byte and keeps its length; another event leaves the length alone.        *)
THEOREM LengthIsOfTheChunk == Spec => []LengthOfTheChunk
  <1>1. ParserInv => LengthOfTheChunk
    BY DEF ParserInv
  <1>2. QED
    BY <1>1, ParsersHold, PTL

(* QirdiParseCondition keeps the last number of a notice. *)
THEOREM TotalIsOfTheNotice == Spec => []TotalOfTheNotice
  <1>1. ParserInv => TotalOfTheNotice
    BY DEF ParserInv
  <1>2. QED
    BY <1>1, ParsersHold, PTL
=============================================================================
