----------------------------- MODULE WordsProofs -----------------------------
(***************************************************************************)
(* What is computed on unsigned words, for words of any width: the helpers *)
(* of Words; the generator of SmcGenerator; solveMultiple(), for any       *)
(* requests, any kext and any number of reloads: what it stores lies in    *)
(* the kext although the end of the range may wrap, a call that succeeds   *)
(* without force has solved every symbol in the kext that is loaded now,   *)
(* and no call leaves an error behind; and the keys of SmcPlugin, for any  *)
(* names and any base: sorted by the words with their bytes swapped they   *)
(* are in the order of their names, and a lookup finds what was added.     *)
(***************************************************************************)
EXTENDS SolveMultiple, SmcGenerator, SmcPlugin, WellFoundedInduction, TLAPS

-----------------------------------------------------------------------------
(* Division *)

\* A word is its upper digits and its lowest one: the greater upper part
\* decides which of two words is greater, and only then the lowest digit.
LEMMA UpperDecides ==
    ASSUME NEW B \in Nat \ {0}, NEW a \in Nat, NEW c \in Nat,
           NEW b \in 0 .. B - 1, NEW d \in 0 .. B - 1, a < c
    PROVE  a * B + b < c * B + d
<1>1. PICK k \in Nat : c = a + 1 + k
  <2>1. c - a - 1 \in Nat /\ c = a + 1 + (c - a - 1)
    OBVIOUS
  <2> QED
    BY <2>1
<1>2. c * B = a * B + B + k * B
  BY <1>1
<1>3. k * B >= 0 /\ a * B \in Nat /\ c * B \in Nat /\ k * B \in Nat
  OBVIOUS
<1> QED
  BY <1>2, <1>3

\* Taking the lowest digit off a word, and what is left.
LEMMA DigitsApart ==
    ASSUME NEW B \in Nat \ {0}, NEW a \in Nat, NEW b \in 0 .. B - 1
    PROVE  (a * B + b) \div B = a /\ (a * B + b) % B = b
<1> DEFINE x == a * B + b
           q == x \div B
           r == x % B
<1>1. x \in Nat
  OBVIOUS
<1>2. q \in Nat /\ r \in 0 .. B - 1 /\ x = q * B + r
  <2> HIDE DEF x
  <2> QED
    BY <1>1
<1> HIDE DEF q, r
<1>3. q = a
  <2>1. ~ (q < a)
    <3>1. q < a => q * B + r < a * B + b
      BY <1>2, UpperDecides
    <3> QED
      BY <1>2, <3>1
  <2>2. ~ (a < q)
    <3>1. a < q => a * B + b < q * B + r
      BY <1>2, UpperDecides
    <3> QED
      BY <1>2, <3>1
  <2> QED
    BY <1>2, <2>1, <2>2
<1>4. r = b
  BY <1>2, <1>3
<1> QED
  BY <1>3, <1>4 DEF q, r

\* What is left of a number that is divided.
LEMMA Quotient ==
    ASSUME NEW B \in Nat \ {0}, NEW x \in Nat
    PROVE  /\ x \div B \in Nat
           /\ x % B \in 0 .. B - 1
           /\ x = (x \div B) * B + (x % B)
OBVIOUS

\* A set of numbers that is not empty has a least one: what is shown of the bits
\* of a word one after the other is shown by the first for which it would fail.
LEMMA LowestNatural ==
    ASSUME NEW T \in SUBSET Nat, T # {}
    PROVE  \E m \in T : \A n \in T : m <= n
<1>1. PICK m \in T : \A n \in T : ~ (<<n, m>> \in OpToRel(<, Nat))
  BY NatLessThanWellFounded, WFMin
<1>2. \A n \in T : ~ (n < m)
  BY <1>1 DEF OpToRel
<1> QED
  BY <1>2

-----------------------------------------------------------------------------
(* Time *)

\* getTimeLeftNs() is the time left, and 0 once it is over, as long as the
\* deadline itself is a word.
THEOREM TimeLeftIsExact ==
    ASSUME Limit \in Nat \ {0},
           NEW start \in Words, NEW timeout \in Words, NEW current \in Words,
           start + timeout < Limit
    PROVE  getTimeLeftNs(start, timeout, current)
               = IF current < start + timeout THEN start + timeout - current ELSE 0
<1>1. (start + timeout) % Limit = start + timeout
  BY DEF Words
<1> QED
  BY <1>1 DEF getTimeLeftNs, Words

\* A deadline past the last word is over before it begins: a wait that starts
\* late with a long timeout does not wait at all.
THEOREM WrappedDeadlineIsOver ==
    ASSUME Limit \in Nat \ {0},
           NEW start \in Words, NEW timeout \in Words,
           start + timeout >= Limit
    PROVE  getTimeLeftNs(start, timeout, start) = 0
<1>1. (start + timeout) % Limit = start + timeout - Limit
  BY DEF Words
<1>2. start + timeout - Limit < start
  BY DEF Words
<1> QED
  BY <1>1, <1>2 DEF getTimeLeftNs, Words

\* Without a wrap, the time since the start and the time left make up the
\* timeout until it is over.
THEOREM SinceAndLeftAddUp ==
    ASSUME Limit \in Nat \ {0},
           NEW start \in Words, NEW timeout \in Words, NEW current \in Words,
           start + timeout < Limit,
           start <= current, current <= start + timeout
    PROVE  getTimeSinceNs(start, current) + getTimeLeftNs(start, timeout, current) = timeout
<1>1. getTimeLeftNs(start, timeout, current) = start + timeout - current
  BY TimeLeftIsExact DEF Words
<1>2. getTimeSinceNs(start, current) = current - start
  BY DEF getTimeSinceNs, Words
<1> QED
  BY <1>1, <1>2 DEF Words

\* Converting to a finer unit and back returns what was there, as long as the
\* product of convertMsToNs(), convertScToNs() or convertScToMs() is a word.
THEOREM ConversionRoundTrip ==
    ASSUME Limit \in Nat \ {0}, NEW t \in Nat, NEW unit \in Nat \ {0}, t * unit < Limit
    PROVE  Coarser(Finer(t, unit), unit) = t
<1> DEFINE product == t * unit
<1>1. product \in 0 .. Limit - 1 /\ product = t * unit + 0
  OBVIOUS
<1>2. product \div unit = t
  <2>1. 0 \in 0 .. unit - 1
    OBVIOUS
  <2> QED
    BY <1>1, <2>1, DigitsApart
<1>3. product % Limit = product
  <2> HIDE DEF product
  <2> QED
    BY <1>1
<1> QED
  BY <1>2, <1>3 DEF Coarser, Finer

\* Converting to a coarser unit and back never wraps and loses less than one unit:
\* the time that convertNsToMs(), convertNsToSc() or convertMsToSc() gives is the
\* last full unit that had passed.
THEOREM ConversionTruncates ==
    ASSUME Limit \in Nat \ {0}, NEW t \in Words, NEW unit \in Nat \ {0}
    PROVE  /\ Finer(Coarser(t, unit), unit) <= t
           /\ t < Finer(Coarser(t, unit), unit) + unit
<1> DEFINE q == t \div unit
           r == t % unit
<1>1. t \in Nat /\ t < Limit
  BY DEF Words
<1>2. q \in Nat /\ r \in 0 .. unit - 1 /\ t = q * unit + r
  BY <1>1
<1> HIDE DEF q, r
<1> DEFINE back == q * unit
<1>3. back \in 0 .. Limit - 1 /\ back <= t /\ t < back + unit
  BY <1>1, <1>2
<1>4. back % Limit = back
  <2> HIDE DEF back
  <2> QED
    BY <1>3
<1> QED
  BY <1>3, <1>4 DEF Coarser, Finer, q

-----------------------------------------------------------------------------
(* Alignment *)

\* w gives each bit up to n twice the worth of the bit below it.
Doubles(w, n) ==
    /\ w \in [0 .. n -> Nat \ {0}]
    /\ w[0] = 1
    /\ \A i \in 1 .. n : w[i] = 2 * w[i - 1]

\* There are such worths for any number of bits.
LEMMA DoublesExist == \A n \in Nat : \E w : Doubles(w, n)
<1> DEFINE Bad == {n \in Nat : ~ \E w : Doubles(w, n)}
<1> SUFFICES ASSUME Bad # {} PROVE FALSE
  OBVIOUS
<1>1. PICK m \in Bad : \A n \in Bad : m <= n
  BY LowestNatural
<1>2. CASE m = 0
  <2>1. Doubles([i \in 0 .. 0 |-> 1], 0)
    BY DEF Doubles
  <2> QED
    BY <1>1, <1>2, <2>1
<1>3. CASE m # 0
  <2>1. m - 1 \in Nat /\ m \in Nat /\ m - 1 \notin Bad
    BY <1>1, <1>3
  <2>2. PICK w : Doubles(w, m - 1)
    BY <2>1
  <2> DEFINE v == [i \in 0 .. m |-> IF i = m THEN 2 * w[m - 1] ELSE w[i]]
  <2>3. Doubles(v, m)
    BY <1>3, <2>1, <2>2 DEF Doubles
  <2> QED
    BY <1>1, <2>3
<1> QED
  BY <1>2, <1>3

\* What bits are worth: getBit(i) is 1 << i.
LEMMA WeightDoubles ==
    ASSUME W \in Nat
    PROVE  Doubles(Weight, W)
<1> DEFINE Unfold(f) == [i \in 0 .. W |-> IF i = 0 THEN 1 ELSE 2 * f[i - 1]]
<1>1. PICK w : Doubles(w, W)
  BY DoublesExist
<1>2. w = Unfold(w)
  BY <1>1 DEF Doubles
<1>3. Weight = Unfold(Weight)
  BY <1>2 DEF Weight
<1>4. ASSUME NEW i \in 0 .. W PROVE Weight[i] = w[i]
  <2> DEFINE Bad == {n \in 0 .. W : Weight[n] # w[n]}
  <2> SUFFICES ASSUME Bad # {} PROVE FALSE
    OBVIOUS
  <2>1. PICK m \in Bad : \A n \in Bad : m <= n
    <3>1. Bad \in SUBSET Nat
      OBVIOUS
    <3> HIDE DEF Bad
    <3> QED
      BY <3>1, LowestNatural
  <2>2. m \in 0 .. W /\ m # 0
    BY <1>1, <1>3, <2>1 DEF Doubles
  <2>3. Weight[m - 1] = w[m - 1]
    BY <2>1, <2>2
  <2>4. Weight[m] = w[m]
    BY <1>2, <1>3, <2>2, <2>3
  <2> QED
    BY <2>1, <2>4
<1>5. Weight = w
  BY <1>1, <1>3, <1>4 DEF Doubles
<1> QED
  BY <1>1, <1>5

\* A bit is worth a multiple of every bit below it.
LEMMA WeightsDivide ==
    ASSUME W \in Nat, NEW i \in 0 .. W, NEW k \in i .. W
    PROVE  \E p \in Nat \ {0} : Weight[k] = p * Weight[i]
<1> DEFINE Bad == {n \in i .. W : ~ \E p \in Nat \ {0} : Weight[n] = p * Weight[i]}
<1> SUFFICES ASSUME Bad # {} PROVE FALSE
  OBVIOUS
<1>1. PICK m \in Bad : \A n \in Bad : m <= n
  <2>1. Bad \in SUBSET Nat
    OBVIOUS
  <2> HIDE DEF Bad
  <2> QED
    BY <2>1, LowestNatural
<1>2. /\ Weight \in [0 .. W -> Nat \ {0}]
      /\ \A j \in 1 .. W : Weight[j] = 2 * Weight[j - 1]
  BY WeightDoubles DEF Doubles
<1>3. m # i
  <2>1. Weight[i] = 1 * Weight[i]
    BY <1>2
  <2> QED
    BY <1>1, <2>1
<1>4. m - 1 \in i .. W /\ m - 1 \notin Bad /\ m \in 1 .. W
  BY <1>1, <1>3
<1>5. PICK p \in Nat \ {0} : Weight[m - 1] = p * Weight[i]
  BY <1>4
<1>6. Weight[m] = (2 * p) * Weight[i] /\ 2 * p \in Nat \ {0}
  <2>1. Weight[m] = 2 * Weight[m - 1] /\ Weight[i] \in Nat /\ Weight[m - 1] \in Nat
    BY <1>2, <1>4
  <2> QED
    BY <1>5, <2>1
<1> QED
  BY <1>1, <1>6

\* A number is what its lower bits make up, and the next bit.
LEMMA NextBit ==
    ASSUME W \in Nat, NEW n \in Nat, NEW i \in Bits
    PROVE  n % Weight[i + 1] = (n % Weight[i]) + (((n \div Weight[i]) % 2) * Weight[i])
<1> DEFINE w == Weight[i]
           q == n \div w
           r == n % w
<1>1. w \in Nat \ {0} /\ Weight[i + 1] = 2 * w
  BY WeightDoubles DEF Doubles, Bits
<1>2. q \in Nat /\ r \in 0 .. w - 1 /\ n = q * w + r
  <2> HIDE DEF w
  <2> QED
    BY <1>1
<1> HIDE DEF w, q, r
<1> DEFINE h == q \div 2
           b == q % 2
<1>3. h \in Nat /\ b \in {0, 1} /\ q = 2 * h + b
  BY <1>2
<1> HIDE DEF h, b
<1>4. n = h * (2 * w) + (b * w + r)
  <2>1. q * w = h * (2 * w) + b * w
    BY <1>1, <1>2, <1>3
  <2> QED
    BY <1>1, <1>2, <1>3, <2>1
<1>5. b * w + r \in 0 .. (2 * w) - 1
  BY <1>1, <1>2, <1>3
<1>6. n % (2 * w) = b * w + r
  <2> DEFINE B == 2 * w
             c == b * w + r
  <2>1. B \in Nat \ {0} /\ c \in 0 .. B - 1 /\ n = h * B + c
    BY <1>1, <1>4, <1>5
  <2> HIDE DEF B, c
  <2>2. n % B = c
    BY <1>3, <2>1, DigitsApart
  <2> QED
    BY <2>2 DEF B, c
<1>7. b * w \in Nat
  BY <1>1, <1>3
<1> QED
  BY <1>1, <1>2, <1>6, <1>7 DEF w, q, r, b

\* Numbers with the same bits are the same.
LEMMA BitsDecide ==
    ASSUME W \in Nat, Limit = Weight[W],
           NEW n \in Words, NEW m \in Words, BitsOf(n) = BitsOf(m)
    PROVE  n = m
<1>1. /\ Weight \in [0 .. W -> Nat \ {0}] /\ Weight[0] = 1
  BY WeightDoubles DEF Doubles
<1>2. n \in Nat /\ m \in Nat /\ n < Limit /\ m < Limit /\ Limit \in Nat \ {0}
  BY <1>1 DEF Words
<1> DEFINE Bad == {j \in 0 .. W : n % Weight[j] # m % Weight[j]}
<1>3. ASSUME Bad # {} PROVE FALSE
  <2>1. PICK j \in Bad : \A l \in Bad : j <= l
    <3>1. Bad \in SUBSET Nat
      OBVIOUS
    <3> HIDE DEF Bad
    <3> QED
      BY <1>3, <3>1, LowestNatural
  <2>2. j # 0
    BY <1>1, <1>2, <2>1
  <2>3. j \in 1 .. W /\ j - 1 \in Bits /\ j - 1 \notin Bad /\ j - 1 \in 0 .. W
    BY <2>1, <2>2 DEF Bits
  <2> DEFINE i == j - 1
  <2>4. i \in Bits /\ i + 1 = j /\ n % Weight[i] = m % Weight[i]
    BY <2>3
  <2> HIDE DEF i
  <2>5. (n \div Weight[i]) % 2 = (m \div Weight[i]) % 2
    <3>1. (n \div Weight[i]) % 2 = 1 <=> (m \div Weight[i]) % 2 = 1
      BY <2>4 DEF BitsOf
    <3>2. Weight[i] \in Nat \ {0}
      BY <1>1, <2>4 DEF Bits
    <3>3. n \div Weight[i] \in Nat /\ m \div Weight[i] \in Nat
      BY <1>2, <3>2
    <3> QED
      BY <3>1, <3>3
  <2>6. n % Weight[i + 1] = m % Weight[i + 1]
    BY <1>2, <2>4, <2>5, NextBit
  <2> QED
    BY <2>1, <2>4, <2>6
<1>4. n % Limit = m % Limit
  BY <1>3
<1> QED
  BY <1>2, <1>4

\* The bits of a multiple of a power of two, and of what is below that power.
LEMMA BitsOfMultiple ==
    ASSUME W \in Nat, NEW k \in Bits, NEW q \in Nat, NEW r \in 0 .. Weight[k] - 1
    PROVE  BitsOf(q * Weight[k]) = BitsOf(q * Weight[k] + r) \ BitsOf(Weight[k] - 1)
<1> DEFINE a == Weight[k]
<1>1. /\ Weight \in [0 .. W -> Nat \ {0}] /\ k \in 0 .. W
      /\ \A j \in 1 .. W : Weight[j] = 2 * Weight[j - 1]
  BY WeightDoubles DEF Doubles, Bits
<1>2. a \in Nat \ {0} /\ r \in 0 .. a - 1
  BY <1>1
<1>3. ASSUME NEW i \in Bits, i < k
      PROVE  i \notin BitsOf(q * a) /\ i \in BitsOf(a - 1)
  <2> DEFINE w == Weight[i]
  <2>1. i \in 0 .. W /\ i + 1 \in 0 .. W /\ k \in (i + 1) .. W /\ i + 1 \in 1 .. W
    BY <1>1, <1>3 DEF Bits
  <2>2. PICK p \in Nat \ {0} : a = p * Weight[i + 1]
    BY <2>1, WeightsDivide
  <2>3. w \in Nat \ {0} /\ Weight[i + 1] = 2 * w
    BY <1>1, <2>1
  <2> HIDE DEF a, w
  <2>4. a = (2 * p) * w
    BY <2>2, <2>3
  <2>5. (q * a) \div w = 2 * (q * p)
    <3> DEFINE s == 2 * (q * p)
    <3>1. s \in Nat /\ q * a = s * w + 0 /\ 0 \in 0 .. w - 1
      BY <2>2, <2>3, <2>4
    <3> HIDE DEF s
    <3>2. (q * a) \div w = s
      BY <2>3, <3>1, DigitsApart
    <3> QED
      BY <3>2 DEF s
  <2>6. (a - 1) \div w = 2 * (p - 1) + 1
    <3> DEFINE s == 2 * (p - 1) + 1
               t == w - 1
    <3>1. s \in Nat /\ t \in 0 .. w - 1 /\ a - 1 = s * w + t
      BY <2>2, <2>3, <2>4
    <3> HIDE DEF s, t
    <3>2. (a - 1) \div w = s
      BY <2>3, <3>1, DigitsApart
    <3> QED
      BY <3>2 DEF s
  <2>7. q * p \in Nat /\ p - 1 \in Nat
    BY <2>2
  <2>8. (2 * (q * p)) % 2 = 0 /\ (2 * (p - 1) + 1) % 2 = 1
    <3> DEFINE x == q * p
               y == p - 1
    <3>1. x \in Nat /\ y \in Nat
      BY <2>7
    <3> HIDE DEF x, y
    <3>2. (2 * x) % 2 = 0 /\ (2 * y + 1) % 2 = 1
      BY <3>1
    <3> QED
      BY <3>2 DEF x, y
  <2> QED
    BY <2>5, <2>6, <2>8 DEF BitsOf, w
<1>4. ASSUME NEW i \in Bits, ~ (i < k)
      PROVE  /\ i \notin BitsOf(a - 1)
             /\ i \in BitsOf(q * a) <=> i \in BitsOf(q * a + r)
  <2> DEFINE w == Weight[i]
  <2>1. i \in k .. W
    BY <1>1, <1>4 DEF Bits
  <2>2. PICK p \in Nat \ {0} : w = p * a
    BY <1>1, <2>1, WeightsDivide
  <2>3. w \in Nat \ {0}
    BY <1>1, <2>1
  <2> HIDE DEF a, w
  <2>4. (a - 1) \div w = 0
    <3>1. 0 \in Nat /\ a - 1 \in 0 .. w - 1 /\ a - 1 = 0 * w + (a - 1)
      BY <1>2, <2>2, <2>3
    <3> DEFINE t == a - 1
    <3>2. t \in 0 .. w - 1 /\ t = 0 * w + t
      BY <3>1
    <3> HIDE DEF t
    <3>3. (0 * w + t) \div w = 0
      BY <2>3, <3>2, DigitsApart
    <3> QED
      BY <3>2, <3>3 DEF t
  <2> DEFINE s == q \div p
             t == q % p
  <2>5. s \in Nat /\ t \in 0 .. p - 1 /\ q = s * p + t
    BY <2>2
  <2> HIDE DEF s, t
  <2>6. q * a = s * w + t * a
    BY <1>2, <2>2, <2>5
  <2>7. t * a \in 0 .. w - 1 /\ t * a + r \in 0 .. w - 1
    <3>1. t * a + a <= p * a
      <4>1. PICK d \in Nat : p = t + 1 + d
        <5>1. p - t - 1 \in Nat /\ p = t + 1 + (p - t - 1)
          BY <2>2, <2>5
        <5> QED
          BY <5>1
      <4>2. p * a = t * a + a + d * a /\ d * a \in Nat /\ t * a \in Nat
        BY <1>2, <2>5, <4>1
      <4> QED
        BY <1>2, <4>2
    <3>2. t * a \in Nat
      BY <1>2, <2>5
    <3> QED
      BY <1>2, <2>2, <2>3, <3>1, <3>2
  <2>8. (q * a) \div w = s
    <3> DEFINE c == t * a
    <3>1. c \in 0 .. w - 1 /\ q * a = s * w + c
      BY <2>6, <2>7
    <3> HIDE DEF c
    <3> QED
      BY <2>3, <2>5, <3>1, DigitsApart
  <2>9. (q * a + r) \div w = s
    <3> DEFINE c == t * a + r
    <3>1. c \in 0 .. w - 1 /\ q * a + r = s * w + c
      <4>1. s * w \in Nat /\ t * a \in Nat
        BY <1>2, <2>3, <2>5
      <4> QED
        BY <1>2, <2>6, <2>7, <4>1
    <3> HIDE DEF c
    <3> QED
      BY <2>3, <2>5, <3>1, DigitsApart
  <2>10. 0 % 2 # 1
    OBVIOUS
  <2> QED
    BY <2>4, <2>8, <2>9, <2>10 DEF BitsOf, w
<1>5. \A i \in Bits : i \in BitsOf(q * a) <=> i \in BitsOf(q * a + r) /\ i \notin BitsOf(a - 1)
  BY <1>3, <1>4
<1>6. BitsOf(q * a) \subseteq Bits /\ BitsOf(q * a + r) \subseteq Bits
  BY DEF BitsOf
<1> HIDE DEF a
<1>7. BitsOf(q * a) = BitsOf(q * a + r) \ BitsOf(a - 1)
  BY <1>5, <1>6
<1> QED
  BY <1>7 DEF a

\* alignValue() masks the bits below a power of two, so that it returns the least
\* multiple of it that is not below size, unless size is so close to the last word
\* that the sum wraps.
THEOREM AlignValueIsCeiling ==
    ASSUME W \in Nat, Limit = Weight[W],
           NEW size \in Words, NEW k \in Bits, NEW align, align = Weight[k],
           size + align - 1 < Limit
    PROVE  /\ alignValue(size, align) % align = 0
           /\ size <= alignValue(size, align)
           /\ alignValue(size, align) < size + align
<1> DEFINE sum == size + align - 1
<1>1. align \in Nat \ {0} /\ Limit \in Nat /\ k \in 0 .. W
  BY WeightDoubles DEF Doubles, Bits
<1>2. size \in Nat /\ sum \in Nat /\ sum < Limit /\ sum % Limit = sum
  BY <1>1 DEF Words
<1> HIDE DEF sum
<1> DEFINE q == sum \div align
           r == sum % align
<1>3. q \in Nat /\ r \in 0 .. align - 1 /\ sum = q * align + r
  BY <1>1, <1>2, Quotient
<1> HIDE DEF q, r
<1> DEFINE m == q * align
<1>4. m \in Nat /\ m + r = sum /\ m % align = 0
  <2>1. m = q * align + 0 /\ 0 \in 0 .. align - 1
    BY <1>1, <1>3
  <2> QED
    BY <1>1, <1>3, <2>1, DigitsApart
<1>5. BitsOf(m) = BitsOf(sum) \ BitsOf(align - 1)
  <2>1. r \in 0 .. Weight[k] - 1
    BY <1>3
  <2>2. BitsOf(q * Weight[k]) = BitsOf(q * Weight[k] + r) \ BitsOf(Weight[k] - 1)
    BY <1>3, <2>1, BitsOfMultiple
  <2> QED
    BY <1>3, <2>2
<1> HIDE DEF m
<1>6. m \in Words
  BY <1>1, <1>2, <1>3, <1>4 DEF Words
<1>7. alignValue(size, align) = WordOf(BitsOf(m))
  BY <1>2, <1>5 DEF alignValue, sum
<1>8. WordOf(BitsOf(m)) = m
  <2>1. \E n \in Words : BitsOf(n) = BitsOf(m)
    BY <1>6
  <2>2. WordOf(BitsOf(m)) \in Words /\ BitsOf(WordOf(BitsOf(m))) = BitsOf(m)
    BY <2>1 DEF WordOf
  <2> QED
    BY <1>6, <2>2, BitsDecide
<1>9. size <= m /\ m < size + align
  BY <1>1, <1>2, <1>3, <1>4 DEF sum
<1> QED
  BY <1>4, <1>7, <1>8, <1>9

-----------------------------------------------------------------------------
(* Versions *)

\* parseModuleVersion() maps versions to numbers in their order, component by
\* component, so that comparing a plugin's number with CompatibilityVersion
\* compares the versions.  The source reads one digit of each.
THEOREM VersionsKeepOrder ==
    ASSUME NEW a \in 0 .. 9, NEW b \in 0 .. 9, NEW c \in 0 .. 9,
           NEW x \in 0 .. 9, NEW y \in 0 .. 9, NEW z \in 0 .. 9
    PROVE  parseModuleVersion(a, b, c) < parseModuleVersion(x, y, z)
               <=> a < x \/ (a = x /\ (b < y \/ (b = y /\ c < z)))
  BY DEF parseModuleVersion

-----------------------------------------------------------------------------
(* Bits *)

\* getBitMask() holds the bits from lo to hi and no others.
LEMMA MaskIsRange ==
    ASSUME NEW hi \in Nat, NEW lo \in Nat, lo <= hi
    PROVE  getBitMask(hi, lo) = lo .. hi
BY DEF getBitMask, getBit, Below

\* What setBitField() puts in, getBitField() takes out, cut to the width of
\* the field; the bits of so that do not fit are lost.
THEOREM FieldRoundTrip ==
    ASSUME W \in Nat, NEW hi \in Bits, NEW lo \in Bits, lo <= hi,
           NEW so \in SUBSET Bits
    PROVE  getBitField(setBitField(so, hi, lo), hi, lo) = so \cap (0 .. hi - lo)
<1>1. getBitMask(hi, lo) = lo .. hi
  BY MaskIsRange DEF Bits
<1>2. setBitField(so, hi, lo) = {b + lo : b \in so \cap (0 .. hi - lo)}
  BY <1>1 DEF setBitField, ShiftLeft, Bits
<1>3. setBitField(so, hi, lo) \cap (lo .. hi) = setBitField(so, hi, lo)
  BY <1>1 DEF setBitField
<1>4. getBitField(setBitField(so, hi, lo), hi, lo)
          = {b - lo : b \in {c + lo : c \in so \cap (0 .. hi - lo)}} \cap Bits
  BY <1>1, <1>2, <1>3 DEF getBitField, ShiftRight
<1> DEFINE Kept == so \cap (0 .. hi - lo)
<1>5. \A c \in Kept : c \in Int /\ (c + lo) - lo = c /\ c \in Bits
  BY DEF Bits
<1>6. lo \in Int
  BY DEF Bits
<1>7. {b - lo : b \in {c + lo : c \in Kept}} = Kept
  <2> HIDE DEF Kept
  <2> QED
    BY <1>5, <1>6
<1>8. Kept \cap Bits = Kept
  BY <1>5
<1> QED
  BY <1>4, <1>7, <1>8

-----------------------------------------------------------------------------
(* The generator *)

\* A word of the generator that is not zero has a lowest bit.
LEMMA LowestBit ==
    ASSUME W \in Nat, NEW x \in SUBSET Bits, x # {}
    PROVE  \E m \in x : \A n \in x : m <= n
<1>1. x \subseteq Nat
  BY DEF Bits
<1> QED
  BY <1>1, LowestNatural

\* And it has a highest one.
LEMMA HighestBit ==
    ASSUME W \in Nat, NEW x \in SUBSET Bits, x # {}
    PROVE  \E m \in x : \A n \in x : n <= m
<1> DEFINE T == {W - 1 - b : b \in x}
<1>1. T \subseteq Nat /\ T # {}
  <2>1. \A b \in x : W - 1 - b \in Nat
    BY DEF Bits
  <2>2. PICK b \in x : TRUE
    OBVIOUS
  <2>3. W - 1 - b \in T
    OBVIOUS
  <2> QED
    BY <2>1, <2>3
<1>2. PICK t \in T : \A n \in T : t <= n
  <2> HIDE DEF T
  <2> QED
    BY <1>1, LowestNatural
<1>3. PICK m \in x : t = W - 1 - m
  OBVIOUS
<1>4. \A n \in x : W - 1 - m <= W - 1 - n
  BY <1>2, <1>3
<1>5. \A n \in x : n <= m
  BY <1>4 DEF Bits
<1> QED
  BY <1>5

\* x ^= x >> n, a step of the generator: the highest bit stays.
LEMMA XorRightKeepsHighest ==
    ASSUME W \in Nat, NEW x \in SUBSET Bits, x # {}, NEW n \in Nat \ {0}
    PROVE  XorRight(x, n) # {} /\ XorRight(x, n) \in SUBSET Bits
<1>1. PICK m \in x : \A b \in x : b <= m
  BY HighestBit
<1>2. m \notin ShiftRight(x, n)
  BY <1>1 DEF ShiftRight, Bits
<1>3. m \in XorRight(x, n)
  BY <1>2 DEF XorRight, Xor
<1>4. XorRight(x, n) \in SUBSET Bits
  BY DEF XorRight, Xor, ShiftRight
<1> QED
  BY <1>3, <1>4

\* x ^= x << n, a step of the generator: the lowest bit stays.
LEMMA XorLeftKeepsLowest ==
    ASSUME W \in Nat, NEW x \in SUBSET Bits, x # {}, NEW n \in Nat \ {0}
    PROVE  XorLeft(x, n) # {} /\ XorLeft(x, n) \in SUBSET Bits
<1>1. PICK m \in x : \A b \in x : m <= b
  BY LowestBit
<1>2. m \notin ShiftLeft(x, n)
  BY <1>1 DEF ShiftLeft, Bits
<1>3. m \in XorLeft(x, n)
  BY <1>2 DEF XorLeft, Xor
<1>4. XorLeft(x, n) \in SUBSET Bits
  BY DEF XorLeft, Xor, ShiftLeft
<1> QED
  BY <1>3, <1>4

\* A generator that was seeded with anything but the salt never gets stuck at
\* zero, from where it would return zero for ever.
THEOREM GeneratorNeverZero ==
    ASSUME W \in Nat, NEW x \in SUBSET Bits, x # {}
    PROVE  generatorRand(x) # {} /\ generatorRand(x) \in SUBSET Bits
<1>1. XorRight(x, 12) # {} /\ XorRight(x, 12) \in SUBSET Bits
  BY XorRightKeepsHighest
<1>2. XorLeft(XorRight(x, 12), 25) # {} /\ XorLeft(XorRight(x, 12), 25) \in SUBSET Bits
  BY <1>1, XorLeftKeepsLowest
<1> QED
  BY <1>2, XorRightKeepsHighest DEF generatorRand

\* The one seed that must not occur: bytes that equal the salt, and the word
\* of a device whose generatorSeed() was never called, stay at zero.
THEOREM ZeroIsStuck == generatorRand({}) = {}
BY DEF generatorRand, XorRight, XorLeft, Xor, ShiftRight, ShiftLeft

-----------------------------------------------------------------------------
(* solveMultiple(): the comparison in unsigned arithmetic *)

\* The sum of two addresses wraps at most once.
LEMMA SumWraps ==
    ASSUME NEW w \in Nat \ {0}, NEW a \in 0 .. (w - 1), NEW b \in 0 .. (w - 1)
    PROVE  (a + b) % w = IF a + b < w THEN a + b ELSE (a + b) - w
<1>1. CASE a + b < w
  BY <1>1
<1>2. CASE a + b >= w
  <2>1. (a + b) - w \in 0 .. (w - 1)
    BY <1>2
  <2>2. a + b = w + ((a + b) - w)
    OBVIOUS
  <2> QED
    BY <1>2, <2>1, <2>2
<1> QED
  BY <1>1, <1>2

\* addr >= start && addr < start + size holds only of addresses in the kext: if
\* start + size wraps, of none at all.
LEMMA InRangeIsInKext ==
    ASSUME range \in Ranges, NEW addr \in Addresses, InRange(addr)
    PROVE  InKext(addr)
<1> USE SolveMultipleAssumption
<1>1. /\ range.start \in 0 .. (Limit - 1) /\ range.size \in 0 .. (Limit - 1)
      /\ Limit \in Nat \ {0} /\ addr \in 0 .. (Limit - 1)
  BY DEF Words
<1>2. (range.start + range.size) % Limit =
          IF range.start + range.size < Limit THEN range.start + range.size
                                             ELSE (range.start + range.size) - Limit
  BY <1>1, SumWraps
<1> HIDE SolveMultipleAssumption
<1> QED
  BY <1>1, <1>2 DEF InRange, InKext

-----------------------------------------------------------------------------
(* Types *)

\* A request the loop is at has a symbol, and the table an address for it.
LEMMA AddrType ==
    ASSUME TypeOK, pc = "solve"
    PROVE  Symbol \in Symbols /\ Addr \in Addresses
BY SolveMultipleAssumption DEF TypeOK, Symbol, Addr, Indices

\* The next index is that of a request.
LEMMA NextRequestType ==
    ASSUME TypeOK, pc \in {"solve", "failed"}, NextRequest
    PROVE  /\ pc' \in {"idle", "solve"} /\ index' \in Nat
           /\ pc' = "solve" => index' \in Indices
BY SolveMultipleAssumption DEF TypeOK, NextRequest, More, Return, Indices

\* The loop of solveMultiple() stays within the request array, and the variables
\* of the plugin hold addresses.
THEOREM TypeCorrect == Spec => []TypeOK
<1> USE SolveMultipleAssumption
<1>1. Init => TypeOK
  BY DEF Init, TypeOK, Indices
<1>2. TypeOK /\ [Next]_vars => TypeOK'
  <2> SUFFICES ASSUME TypeOK, [Next]_vars PROVE TypeOK'
    OBVIOUS
  <2> USE DEF TypeOK
  <2>1. CASE Load
    BY <2>1 DEF Load
  <2>2. ASSUME NEW f \in BOOLEAN, NEW c \in BOOLEAN, Call(f, c) PROVE TypeOK'
    BY <2>2 DEF Call, kext, Indices
  <2>3. CASE Solved
    BY <2>3, AddrType, NextRequestType DEF Solved, kext
  <2>4. CASE OutOfRange
    BY <2>4 DEF OutOfRange, kext
  <2>5. CASE NotFound
    BY <2>5 DEF NotFound, kext
  <2>6. CASE Failed
    <3>1. CASE force
      BY <2>6, <3>1, NextRequestType DEF Failed, kext
    <3>2. CASE ~ force
      BY <2>6, <3>2 DEF Failed, Return, kext
    <3> QED
      BY <3>1, <3>2
  <2>7. CASE UNCHANGED vars
    BY <2>7 DEF vars
  <2> QED
    BY <2>1, <2>2, <2>3, <2>4, <2>5, <2>6, <2>7 DEF Next
<1> QED
  BY <1>1, <1>2, PTL DEF Spec

-----------------------------------------------------------------------------
(* Errors *)

\* The loop is never entered with an error pending.
ErrorIsHandled == pc \in {"idle", "solve"} => code = "NoError"

\* Wherever the loop comes to, clearError() has been called since the last error:
\* no call of solveMultiple() leaves one behind for the next user of the patcher.
THEOREM ErrorsAreCleared == Spec => []NoErrorLeftBehind
<1>1. Init => ErrorIsHandled
  BY DEF Init, ErrorIsHandled
<1>2. ErrorIsHandled /\ [Next]_vars => ErrorIsHandled'
  <2> SUFFICES ASSUME ErrorIsHandled, [Next]_vars PROVE ErrorIsHandled'
    OBVIOUS
  <2> USE DEF ErrorIsHandled
  <2>1. CASE Load \/ \E f, c \in BOOLEAN : Call(f, c)
    BY <2>1 DEF Load, Call
  <2>2. CASE Solved
    BY <2>2 DEF Solved
  <2>3. CASE OutOfRange
    BY <2>3 DEF OutOfRange
  <2>4. CASE NotFound
    BY <2>4 DEF NotFound
  <2>5. CASE Failed
    BY <2>5 DEF Failed
  <2>6. CASE UNCHANGED vars
    BY <2>6 DEF vars
  <2> QED
    BY <2>1, <2>2, <2>3, <2>4, <2>5, <2>6 DEF Next
<1>3. ErrorIsHandled => NoErrorLeftBehind
  BY DEF ErrorIsHandled, NoErrorLeftBehind
<1> QED
  BY <1>1, <1>2, <1>3, PTL DEF Spec

-----------------------------------------------------------------------------
(* Stores *)

\* A store of the loop is of an address in the kext, in the request it is at.
LEMMA StoreInKext ==
    ASSUME TypeOK, Solved
    PROVE  /\ InKext(Addr)
           /\ address' = [address EXCEPT ![index] = Addr]
BY AddrType, InRangeIsInKext DEF Solved, TypeOK

\* No step of solveMultiple() stores an address outside of the kext, even where
\* its end lies at the top of the address space or wraps.
THEOREM StoresAreInKext == Spec => StoresStayInKext
<1>1. TypeOK /\ [Next]_vars =>
        [\A i \in Indices : address'[i] # address[i] => InKext(address'[i])]_vars
  <2> SUFFICES ASSUME TypeOK, [Next]_vars
               PROVE  \/ UNCHANGED vars
                      \/ \A i \in Indices : address'[i] # address[i] => InKext(address'[i])
    OBVIOUS
  <2>1. CASE Solved
    BY <2>1, StoreInKext DEF TypeOK
  <2>2. CASE ~ Solved
    BY <2>2 DEF Next, Load, Call, OutOfRange, NotFound, Failed, vars
  <2> QED
    BY <2>1, <2>2
<1> QED
  BY <1>1, TypeCorrect, PTL DEF Spec, StoresStayInKext

-----------------------------------------------------------------------------
(* Success *)

\* A request the loop has gone past is solved, or force was set and it cannot be; the
\* error branch is for the latter.
SolvedSoFar ==
    /\ pc # "idle" => result = "none"
    /\ pc \in {"solve", "failed"} => \A i \in 1 .. (index - 1) : Answered(i)
    /\ pc = "failed" => ~ Solvable(Requests[index])

CurrentInv == SolvedSoFar /\ TrueMeansCurrent

\* What a request holds depends on the kext, the arguments and its variable only.
LEMMA AnsweredStays ==
    ASSUME UNCHANGED <<table, range, force>>, NEW i, address'[i] = address[i], Answered(i)
    PROVE  Answered(i)'
BY DEF Answered, Current, InKext, Solvable, InRange

\* Solving request `index` completes the requests up to it.
LEMMA SolvedExtends ==
    ASSUME TypeOK, CurrentInv, Solved, TypeOK', NEW i \in 1 .. index
    PROVE  Answered(i)'
<1> USE SolveMultipleAssumption
<1>1. InKext(Addr) /\ address' = [address EXCEPT ![index] = Addr]
  BY StoreInKext
<1>2. /\ table' = table /\ range' = range /\ force' = force
      /\ pc = "solve" /\ index \in Indices
  BY DEF Solved, kext, TypeOK
<1>3. \A a : InKext(a)' <=> InKext(a)
  BY <1>2 DEF InKext
<1>4. i \in Indices
  BY <1>2 DEF Indices
<1>5. CASE i = index
  BY <1>1, <1>2, <1>5 DEF Answered, Current, InKext, Addr, Symbol, TypeOK
<1>6. CASE i # index
  <2>1. Answered(i)
    BY <1>2, <1>6 DEF CurrentInv, SolvedSoFar, Indices
  <2>2. address'[i] = address[i]
    BY <1>1, <1>4, <1>6 DEF TypeOK
  <2> QED
    BY <1>2, <2>1, <2>2, AnsweredStays
<1> QED
  BY <1>5, <1>6

\* Where force passes over request `index`, the requests up to it are answered as well.
LEMMA FailedExtends ==
    ASSUME TypeOK, CurrentInv, Failed, force, NEW i \in 1 .. index
    PROVE  Answered(i)'
<1>1. UNCHANGED <<table, range, force, address>> /\ pc = "failed" /\ index \in Indices
  BY DEF Failed, kext, TypeOK
<1>2. Answered(i)
  BY <1>1 DEF CurrentInv, SolvedSoFar, Answered, Indices
<1> QED
  BY <1>1, <1>2, AnsweredStays

\* Going on with the next request, or returning true behind the last one, is right
\* where the requests so far are answered.
LEMMA NextRequestKept ==
    ASSUME TypeOK, index \in Indices, NextRequest, result = "none",
           \A i \in 1 .. index : Answered(i)'
    PROVE  CurrentInv'
<1> USE DEF CurrentInv, SolvedSoFar, TrueMeansCurrent
<1>1. CASE More(index)
  <2>1. (index' - 1) = index /\ pc' = "solve" /\ result' = "none"
    BY <1>1 DEF NextRequest, Indices
  <2> QED
    BY <2>1
<1>2. CASE ~ More(index)
  <2>1. index = Len(Requests)
    BY <1>2, SolveMultipleAssumption DEF More, Indices
  <2> QED
    BY <1>2, <2>1 DEF NextRequest, Return, Indices
<1> QED
  BY <1>1, <1>2

\* Each step keeps the requests the loop has gone past answered.
LEMMA CurrentKept ==
    ASSUME TypeOK, CurrentInv, [Next]_vars, TypeOK'
    PROVE  CurrentInv'
<1> USE DEF CurrentInv, SolvedSoFar, TrueMeansCurrent
<1>1. CASE Load
  BY <1>1 DEF Load
<1>2. ASSUME NEW f \in BOOLEAN, NEW c \in BOOLEAN, Call(f, c) PROVE CurrentInv'
  <2>1. Requests = << >> => Indices = {}
    BY DEF Indices
  <2> QED
    BY <1>2, <2>1 DEF Call
<1>3. CASE Solved
  BY <1>3, SolvedExtends, NextRequestKept DEF Solved, TypeOK
<1>4. CASE OutOfRange
  <2>1. /\ UNCHANGED <<table, range, force, address, index, result>>
        /\ pc = "solve" /\ pc' \in {"panic", "failed"}
    BY <1>4 DEF OutOfRange, kext
  <2>2. ~ Solvable(Requests[index])'
    BY <1>4, <2>1 DEF OutOfRange, Solvable, InRange, Addr, Symbol
  <2>3. \A i \in 1 .. (index - 1) : Answered(i)'
    BY <2>1, AnsweredStays
  <2> QED
    BY <2>1, <2>2, <2>3
<1>5. CASE NotFound
  <2>1. /\ UNCHANGED <<table, range, force, address, index, result>>
        /\ pc = "solve" /\ pc' = "failed"
    BY <1>5 DEF NotFound, kext
  <2>2. ~ Solvable(Requests[index])'
    BY <1>5, <2>1 DEF NotFound, Solvable, Addr, Symbol
  <2>3. \A i \in 1 .. (index - 1) : Answered(i)'
    BY <2>1, AnsweredStays
  <2> QED
    BY <2>1, <2>2, <2>3
<1>6. CASE Failed
  <2>1. CASE force
    BY <1>6, <2>1, FailedExtends, NextRequestKept DEF Failed, TypeOK
  <2>2. CASE ~ force
    BY <1>6, <2>2 DEF Failed, Return
  <2> QED
    BY <2>1, <2>2
<1>7. CASE UNCHANGED vars
  <2>1. /\ \A i \in Indices : Answered(i)' <=> Answered(i)
        /\ \A i \in 1 .. (index - 1) : Answered(i)' <=> Answered(i)
        /\ Solvable(Requests[index])' <=> Solvable(Requests[index])
    BY <1>7 DEF vars, Answered, Current, InKext, Solvable, InRange
  <2> QED
    BY <1>7, <2>1 DEF vars
<1> QED
  BY <1>1, <1>2, <1>3, <1>4, <1>5, <1>6, <1>7 DEF Next

\* A call that returns true has stored the address of every symbol in the kext that is
\* loaded now, none of them a leftover of an earlier load; with force, of every one
\* that is there and in range.
THEOREM TrueIsCurrent == Spec => []TrueMeansCurrent
<1>1. Init => CurrentInv
  BY DEF Init, CurrentInv, SolvedSoFar, TrueMeansCurrent
<1>2. TypeOK /\ CurrentInv /\ [Next]_vars /\ TypeOK' => CurrentInv'
  BY CurrentKept
<1>3. CurrentInv => TrueMeansCurrent
  BY DEF CurrentInv
<1> QED
  BY <1>1, <1>2, <1>3, TypeCorrect, PTL DEF Spec

-----------------------------------------------------------------------------
(* Keys *)

\* The four bytes of a name, the first one highest.
Reversed(name) == ((name[1] * Base + name[2]) * Base + name[3]) * Base + name[4]

FourBytes == [1 .. 4 -> 0 .. (Base - 1)]

\* What OSSwapInt32 makes of a key is the number that is written as its name.
LEMMA SwapReverses ==
    ASSUME NEW name \in FourBytes
    PROVE  OSSwapInt32(Identifier(name)) = Reversed(name) /\ Reversed(name) \in Nat
<1> DEFINE d4 == name[4]
           d43 == d4 * Base + name[3]
           d432 == d43 * Base + name[2]
           key == d432 * Base + name[1]
<1>0. Base \in Nat \ {0} /\ \A k \in 1 .. 4 : name[k] \in 0 .. (Base - 1)
  BY SmcPluginAssumption DEF FourBytes
<1>d. \A a \in Nat, b \in 0 .. (Base - 1) :
          (a * Base + b) \div Base = a /\ (a * Base + b) % Base = b
  BY <1>0, DigitsApart
<1>n. name[1] \in 0 .. (Base - 1) /\ name[2] \in 0 .. (Base - 1) /\ name[3] \in 0 .. (Base - 1)
  BY <1>0
<1>1. d4 \in Nat /\ d4 \in 0 .. (Base - 1)
  BY <1>0
<1>2. d43 \in Nat
  BY <1>0, <1>1
<1>3. d432 \in Nat
  BY <1>0, <1>2
<1> HIDE DEF d432
<1>4. key \div Base = d432 /\ key % Base = name[1]
  BY <1>3, <1>d, <1>n, Zenon
<1>5. d432 \div Base = d43 /\ d432 % Base = name[2]
  <2> HIDE DEF d43
  <2> QED
    BY <1>2, <1>d, <1>n, Zenon DEF d432
<1>6. d43 \div Base = d4 /\ d43 % Base = name[3]
  <2> HIDE DEF d4
  <2> QED
    BY <1>1, <1>d, <1>n, Zenon
<1>7. d4 % Base = d4
  BY <1>0, <1>1
<1>8. Identifier(name) = key
  BY DEF Identifier, d432
<1>9. OSSwapInt32(Identifier(name))
          = ((name[1] * Base + name[2]) * Base + name[3]) * Base + d4
  <2> HIDE DEF key, d43, d4
  <2> QED
    BY <1>4, <1>5, <1>6, <1>7, <1>8 DEF OSSwapInt32
<1>10. Reversed(name) \in Nat
  BY <1>0 DEF Reversed
<1> QED
  BY <1>9, <1>10 DEF Reversed

\* Numbers written with four digits are in the order of their digits.
LEMMA ReversedOrders ==
    ASSUME NEW m \in FourBytes, NEW n \in FourBytes
    PROVE  /\ Precedes(m, n) => Reversed(m) < Reversed(n)
           /\ m # n => Precedes(m, n) \/ Precedes(n, m)
<1>0. /\ Base \in Nat \ {0}
      /\ \A k \in 1 .. 4 : m[k] \in 0 .. (Base - 1) /\ n[k] \in 0 .. (Base - 1)
  BY SmcPluginAssumption DEF FourBytes
<1> DEFINE m2 == m[1] * Base + m[2]
           n2 == n[1] * Base + n[2]
           m3 == m2 * Base + m[3]
           n3 == n2 * Base + n[3]
<1>1. m[1] \in Nat /\ n[1] \in Nat /\ m2 \in Nat /\ n2 \in Nat
  BY <1>0
<1>2. m3 \in Nat /\ n3 \in Nat
  <2> HIDE DEF m2, n2
  <2> QED
    BY <1>0, <1>1
<1>3. (m[1] < n[1] => m2 < n2) /\ (m[1] = n[1] /\ m[2] < n[2] => m2 < n2)
  <2> DEFINE m1 == m[1]
             n1 == n[1]
  <2>1. m1 \in Nat /\ n1 \in Nat
    BY <1>1
  <2>2. (m1 < n1 => m1 * Base + m[2] < n1 * Base + n[2])
            /\ (m1 = n1 /\ m[2] < n[2] => m1 * Base + m[2] < n1 * Base + n[2])
    <3> HIDE DEF m1, n1
    <3> QED
      BY <1>0, <2>1, UpperDecides
  <2> QED
    BY <2>2
<1>4. (m2 < n2 => m3 < n3) /\ (m2 = n2 /\ m[3] < n[3] => m3 < n3)
  <2> HIDE DEF m2, n2
  <2> QED
    BY <1>0, <1>1, UpperDecides
<1>5. /\ m3 < n3 => m3 * Base + m[4] < n3 * Base + n[4]
      /\ m3 = n3 /\ m[4] < n[4] => m3 * Base + m[4] < n3 * Base + n[4]
  <2> HIDE DEF m3, n3
  <2> QED
    BY <1>0, <1>2, UpperDecides
<1>6. Reversed(m) = m3 * Base + m[4] /\ Reversed(n) = n3 * Base + n[4]
  BY DEF Reversed
<1>7. Precedes(m, n) <=>
          \/ m[1] < n[1]
          \/ m[1] = n[1] /\ m[2] < n[2]
          \/ m[1] = n[1] /\ m[2] = n[2] /\ m[3] < n[3]
          \/ m[1] = n[1] /\ m[2] = n[2] /\ m[3] = n[3] /\ m[4] < n[4]
  BY <1>0 DEF Precedes
<1>8. Precedes(n, m) <=>
          \/ n[1] < m[1]
          \/ n[1] = m[1] /\ n[2] < m[2]
          \/ n[1] = m[1] /\ n[2] = m[2] /\ n[3] < m[3]
          \/ n[1] = m[1] /\ n[2] = m[2] /\ n[3] = m[3] /\ n[4] < m[4]
  BY <1>0 DEF Precedes
<1>9. Precedes(m, n) => Reversed(m) < Reversed(n)
  BY <1>3, <1>4, <1>5, <1>6, <1>7
<1>10. m # n => m[1] # n[1] \/ m[2] # n[2] \/ m[3] # n[3] \/ m[4] # n[4]
  BY DEF FourBytes
<1>11. m # n => Precedes(m, n) \/ Precedes(n, m)
  BY <1>0, <1>7, <1>8, <1>10
<1> QED
  BY <1>9, <1>11

-----------------------------------------------------------------------------
(* The order of the keys *)

KeySet == {Identifier(name) : name \in Names}

\* compare() orders the keys as OSSwapInt32 does, which tells any two apart.
LEMMA CompareOrders ==
    ASSUME NEW a \in KeySet, NEW b \in KeySet
    PROVE  /\ OSSwapInt32(a) \in Nat /\ OSSwapInt32(b) \in Nat
           /\ OSSwapInt32(a) = OSSwapInt32(b) => a = b
           /\ Compare(a, b) \in Int
           /\ Compare(a, b) = 0 <=> a = b
           /\ Compare(a, b) < 0 <=> OSSwapInt32(a) < OSSwapInt32(b)
           /\ Compare(a, b) <= 0 <=> OSSwapInt32(a) <= OSSwapInt32(b)
<1>1. PICK m \in Names : a = Identifier(m)
  BY DEF KeySet
<1>2. PICK n \in Names : b = Identifier(n)
  BY DEF KeySet
<1>3. m \in FourBytes /\ n \in FourBytes
  BY SmcPluginAssumption DEF FourBytes
<1>4. /\ OSSwapInt32(a) = Reversed(m) /\ OSSwapInt32(b) = Reversed(n)
      /\ Reversed(m) \in Nat /\ Reversed(n) \in Nat
  BY <1>1, <1>2, <1>3, SwapReverses
<1>5. m # n => Reversed(m) < Reversed(n) \/ Reversed(n) < Reversed(m)
  BY <1>3, ReversedOrders
<1>6. OSSwapInt32(a) = OSSwapInt32(b) => a = b
  BY <1>1, <1>2, <1>4, <1>5
<1> QED
  BY <1>4, <1>6 DEF Compare

\* A name is found from its key, and a key that comes first has a name that does.
LEMMA NamesFollowKeys ==
    ASSUME NEW a \in KeySet, NEW b \in KeySet, Compare(a, b) < 0
    PROVE  Precedes(NameOf(a), NameOf(b))
<1>1. \A key \in KeySet : NameOf(key) \in Names /\ Identifier(NameOf(key)) = key
  BY DEF KeySet, NameOf
<1> DEFINE m == NameOf(a)
           n == NameOf(b)
<1>2. m \in FourBytes /\ n \in FourBytes /\ a = Identifier(m) /\ b = Identifier(n)
  BY <1>1, SmcPluginAssumption DEF FourBytes
<1> HIDE DEF m, n
<1>3. Reversed(m) < Reversed(n) /\ Reversed(m) \in Nat /\ Reversed(n) \in Nat
  BY <1>2, SwapReverses, CompareOrders
<1>4. m # n
  BY <1>3
<1>5. ~ Precedes(n, m)
  BY <1>2, <1>3, ReversedOrders
<1>6. Precedes(m, n)
  BY <1>2, <1>4, <1>5, ReversedOrders
<1> QED
  BY <1>6 DEF m, n

-----------------------------------------------------------------------------
(* Sorting *)

\* Of finitely many numbers one is the greatest.
LEMMA OneIsGreatest ==
    ASSUME NEW n \in Nat \ {0}, NEW f \in [1 .. n -> Int]
    PROVE  \E m \in 1 .. n : \A i \in 1 .. n : f[i] <= f[m]
<1> DEFINE HasGreatest(k) ==
               \A g \in [1 .. k -> Int] : \E m \in 1 .. k : \A i \in 1 .. k : g[i] <= g[m]
           Bad == {k \in Nat \ {0} : ~ HasGreatest(k)}
<1>1. SUFFICES ASSUME Bad # {} PROVE FALSE
  OBVIOUS
<1>2. PICK k \in Bad : \A j \in Bad : k <= j
  <2>1. Bad \in SUBSET Nat
    OBVIOUS
  <2> HIDE DEF Bad
  <2> QED
    BY <1>1, <2>1, LowestNatural
<1>3. PICK g \in [1 .. k -> Int] : ~ \E m \in 1 .. k : \A i \in 1 .. k : g[i] <= g[m]
  BY <1>2
<1>4. k # 1
  BY <1>3
<1>5. k - 1 \in Nat \ {0} /\ k - 1 \notin Bad
  <2>1. k \in Nat \ {0} /\ k - 1 \in Nat \ {0} /\ ~ (k <= k - 1)
    BY <1>2, <1>4
  <2> HIDE DEF Bad
  <2> QED
    BY <1>2, <2>1
<1>6. [i \in 1 .. k - 1 |-> g[i]] \in [1 .. k - 1 -> Int]
  BY <1>5
<1>7. PICK m \in 1 .. k - 1 : \A i \in 1 .. k - 1 : g[i] <= g[m]
  BY <1>5, <1>6
<1>8. \A i \in 1 .. k : i \in 1 .. k - 1 \/ i = k
  BY <1>5
<1>9. m \in 1 .. k /\ k \in 1 .. k /\ \A i \in 1 .. k : g[i] \in Int
  BY <1>5
<1>10. CASE g[k] <= g[m]
  BY <1>3, <1>7, <1>8, <1>9, <1>10
<1>11. CASE ~ (g[k] <= g[m])
  <2>1. ASSUME NEW i \in 1 .. k PROVE g[i] <= g[k]
    <3>1. g[i] \in Int /\ g[k] \in Int /\ g[m] \in Int
      BY <1>9
    <3>2. i # k => g[i] <= g[m]
      BY <1>7, <1>8
    <3>3. i = k => g[i] <= g[k]
      BY <3>1
    <3>4. g[i] <= g[m] => g[i] <= g[k]
      <4>1. \A x, y, z \in Int : x <= y /\ ~ (z <= y) => x <= z
        OBVIOUS
      <4> QED
        BY <1>11, <3>1, <4>1, Zenon
    <3> QED
      BY <3>2, <3>3, <3>4
  <2> QED
    BY <1>3, <1>9, <2>1
<1> QED
  BY <1>10, <1>11

\* Any sequence of numbers can be sorted.
LEMMA CanBeSorted ==
    ASSUME NEW n \in Nat, NEW f \in [1 .. n -> Int]
    PROVE  \E p \in Bijection(1 .. n, 1 .. n) :
               \A i, j \in 1 .. n : i < j => f[p[i]] <= f[p[j]]
<1> DEFINE Sorts(p, k, g) == \A i, j \in 1 .. k : i < j => g[p[i]] <= g[p[j]]
           Sortable(k) == \A g \in [1 .. k -> Int] :
                              \E p \in Bijection(1 .. k, 1 .. k) : Sorts(p, k, g)
           Bad == {k \in Nat : ~ Sortable(k)}
<1>1. SUFFICES ASSUME Bad # {} PROVE FALSE
  OBVIOUS
<1>2. PICK k \in Bad : \A j \in Bad : k <= j
  <2>1. Bad \in SUBSET Nat
    OBVIOUS
  <2> HIDE DEF Bad
  <2> QED
    BY <1>1, <2>1, LowestNatural
<1>3. PICK g \in [1 .. k -> Int] : ~ \E p \in Bijection(1 .. k, 1 .. k) : Sorts(p, k, g)
  BY <1>2
<1>4. k # 0
  <2>1. SUFFICES ASSUME k = 0 PROVE FALSE
    OBVIOUS
  <2> DEFINE none == [i \in {} |-> i]
  <2>2. none \in Bijection({}, {})
    <3>1. none \in [{} -> {}] /\ DOMAIN none = {}
      OBVIOUS
    <3> HIDE DEF none
    <3> QED
      BY <3>1 DEF Bijection, Injection, Surjection, IsInjective
  <2>3. 1 .. k = {}
    BY <2>1
  <2> QED
    BY <1>3, <2>2, <2>3
<1>5. k \in Nat \ {0} /\ k - 1 \in Nat /\ k - 1 \notin Bad
  <2>1. k \in Nat \ {0} /\ k - 1 \in Nat /\ ~ (k <= k - 1)
    BY <1>2, <1>4
  <2> HIDE DEF Bad
  <2> QED
    BY <1>2, <2>1
\* The greatest of them comes last, and the others are sorted without it.
<1>6. PICK m \in 1 .. k : \A i \in 1 .. k : g[i] <= g[m]
  BY <1>5, OneIsGreatest
<1> DEFINE over(i) == IF i < m THEN i ELSE i + 1
           rest == [i \in 1 .. k - 1 |-> g[over(i)]]
<1>7. /\ \A i \in 1 .. k - 1 : over(i) \in 1 .. k /\ over(i) # m
      /\ \A i, j \in 1 .. k - 1 : over(i) = over(j) => i = j
      /\ \A v \in 1 .. k : v # m => \E i \in 1 .. k - 1 : over(i) = v
  <2>1. \A i \in 1 .. k - 1 : over(i) \in 1 .. k /\ over(i) # m
    BY <1>5
  <2>2. ASSUME NEW i \in 1 .. k - 1, NEW j \in 1 .. k - 1, over(i) = over(j) PROVE i = j
    <3>1. i \in Int /\ j \in Int /\ m \in Int
      BY <1>5
    <3>2. ASSUME NEW a \in Int, NEW b \in Int, NEW c \in Int,
                 (IF a < c THEN a ELSE a + 1) = (IF b < c THEN b ELSE b + 1)
          PROVE  a = b
      <4> HIDE DEF rest
      <4>1. CASE a < c /\ b < c
        BY <3>2, <4>1
      <4>2. CASE ~ (a < c) /\ ~ (b < c)
        BY <3>2, <4>2
      <4>3. CASE (a < c) # (b < c)
        BY <3>2, <4>3
      <4> QED
        BY <4>1, <4>2, <4>3
    <3> QED
      BY <2>2, <3>1, <3>2
  <2>3. \A v \in 1 .. k : v < m => v \in 1 .. k - 1 /\ over(v) = v
    BY <1>5
  <2>4. \A v \in 1 .. k : v > m => v - 1 \in 1 .. k - 1 /\ over(v - 1) = v
    BY <1>5
  <2>5. \A v \in 1 .. k : v = m \/ v < m \/ v > m
    OBVIOUS
  <2>6. \A v \in 1 .. k : v # m => \E i \in 1 .. k - 1 : over(i) = v
    <3> HIDE DEF over
    <3> QED
      BY <2>3, <2>4, <2>5
  <2> HIDE DEF over
  <2> QED
    BY <2>1, <2>2, <2>6
<1> HIDE DEF over
<1>8. rest \in [1 .. k - 1 -> Int]
  BY <1>7
<1>9. PICK q \in Bijection(1 .. k - 1, 1 .. k - 1) : Sorts(q, k - 1, rest)
  BY <1>5, <1>8
<1> DEFINE p == [i \in 1 .. k |-> IF i = k THEN m ELSE over(q[i])]
<1>10. /\ q \in [1 .. k - 1 -> 1 .. k - 1]
       /\ \A i, j \in 1 .. k - 1 : q[i] = q[j] => i = j
       /\ \A v \in 1 .. k - 1 : \E i \in 1 .. k - 1 : q[i] = v
  BY <1>9 DEF Bijection, Injection, Surjection, IsInjective
<1>11. \A i \in 1 .. k : i # k => i \in 1 .. k - 1
  BY <1>5
<1>12. p \in Bijection(1 .. k, 1 .. k)
  <2>1. p \in [1 .. k -> 1 .. k]
    BY <1>7, <1>10, <1>11
  <2>2. \A i, j \in 1 .. k : p[i] = p[j] => i = j
    BY <1>7, <1>10, <1>11
  <2>3. \A v \in 1 .. k : \E i \in 1 .. k : p[i] = v
    <3>1. ASSUME NEW v \in 1 .. k, v # m PROVE \E i \in 1 .. k : p[i] = v
      <4>1. PICK w \in 1 .. k - 1 : over(w) = v
        BY <1>7, <3>1
      <4>2. PICK i \in 1 .. k - 1 : q[i] = w
        BY <1>10
      <4>3. i \in 1 .. k /\ i # k
        BY <1>5
      <4> QED
        BY <4>1, <4>2, <4>3
    <3>2. k \in 1 .. k /\ p[k] = m
      BY <1>5
    <3> QED
      BY <3>1, <3>2
  <2> HIDE DEF p
  <2> QED
    BY <2>1, <2>2, <2>3 DEF Bijection, Injection, Surjection, IsInjective
<1>13. Sorts(p, k, g)
  <2>1. SUFFICES ASSUME NEW i \in 1 .. k, NEW j \in 1 .. k, i < j
                 PROVE  g[p[i]] <= g[p[j]]
    BY DEF Sorts
  <2>2. i \in 1 .. k - 1 /\ i # k
    BY <1>5, <2>1
  <2>3. CASE j = k
    BY <1>6, <1>7, <1>10, <2>2, <2>3
  <2>4. CASE j # k
    <3>1. j \in 1 .. k - 1
      BY <1>11, <2>4
    <3>2. rest[q[i]] <= rest[q[j]]
      BY <1>9, <2>1, <2>2, <3>1
    <3> QED
      BY <1>10, <2>2, <2>4, <3>1, <3>2
  <2> QED
    BY <2>3, <2>4
<1> QED
  BY <1>3, <1>12, <1>13

Distinct(s) == \A i, j \in 1 .. Len(s) : s[i] = s[j] => i = j
InOrder(s) == \A i, j \in 1 .. Len(s) : i < j => Compare(s[i], s[j]) < 0

\* qsort() of any vector of keys has a result: the sort is never stuck.
THEOREM SortHasResult ==
    ASSUME NEW s \in Seq(KeySet)
    PROVE  SortedFrom(s) # {}
<1> DEFINE n == Len(s)
           f == [i \in 1 .. n |-> OSSwapInt32(s[i])]
<1>1. n \in Nat /\ DOMAIN s = 1 .. n /\ \A i \in 1 .. n : s[i] \in KeySet
  OBVIOUS
<1>2. f \in [1 .. n -> Int]
  <2>1. \A a \in KeySet : OSSwapInt32(a) \in Int
    BY CompareOrders
  <2> HIDE DEF n
  <2> QED
    BY <1>1, <2>1
<1>3. PICK p \in Bijection(1 .. n, 1 .. n) : \A i, j \in 1 .. n : i < j => f[p[i]] <= f[p[j]]
  <2> HIDE DEF n, f
  <2> QED
    BY <1>1, <1>2, CanBeSorted
<1>4. p \in [1 .. n -> 1 .. n]
  BY <1>3 DEF Bijection, Injection
<1>5. ASSUME NEW i \in 1 .. n, NEW j \in 1 .. n, i < j
      PROVE  Compare(s[p[i]], s[p[j]]) <= 0
  <2>1. p[i] \in 1 .. n /\ p[j] \in 1 .. n /\ s[p[i]] \in KeySet /\ s[p[j]] \in KeySet
    BY <1>1, <1>4
  <2>2. OSSwapInt32(s[p[i]]) <= OSSwapInt32(s[p[j]])
    BY <1>3, <1>5, <2>1
  <2> DEFINE a == s[p[i]]
             b == s[p[j]]
  <2>3. a \in KeySet /\ b \in KeySet /\ OSSwapInt32(a) <= OSSwapInt32(b)
    BY <2>1, <2>2
  <2>4. Compare(a, b) <= 0
    <3> HIDE DEF a, b
    <3> QED
      BY <2>3, CompareOrders
  <2> QED
    BY <2>4
<1>6. [i \in DOMAIN s |-> s[p[i]]] \in SortedFrom(s)
  <2> HIDE DEF n, f
  <2> QED
    BY <1>1, <1>3, <1>5 DEF SortedFrom
<1> QED
  BY <1>6

\* Whatever qsort() makes of a vector in which no key occurs twice holds the same
\* keys, each behind the smaller ones.
LEMMA SortedIsInOrder ==
    ASSUME NEW s \in Seq(KeySet), Distinct(s), NEW t \in SortedFrom(s)
    PROVE  /\ t \in Seq(KeySet) /\ Len(t) = Len(s)
           /\ Distinct(t) /\ InOrder(t)
<1> DEFINE n == Len(s)
<1>1. n \in Nat /\ DOMAIN s = 1 .. n /\ \A i \in 1 .. n : s[i] \in KeySet
  OBVIOUS
<1>2. PICK p \in Bijection(1 .. n, 1 .. n) :
          /\ \A i, j \in 1 .. n : i < j => Compare(s[p[i]], s[p[j]]) <= 0
          /\ t = [i \in 1 .. n |-> s[p[i]]]
  <2> HIDE DEF n
  <2> QED
    BY <1>1 DEF SortedFrom
<1>3. /\ p \in [1 .. n -> 1 .. n]
      /\ \A i, j \in 1 .. n : p[i] = p[j] => i = j
  BY <1>2 DEF Bijection, Injection, IsInjective
<1>4. t \in [1 .. n -> KeySet]
  BY <1>1, <1>2, <1>3
<1>5. t \in Seq(KeySet) /\ Len(t) = n
  <2> HIDE DEF n
  <2> QED
    BY <1>1, <1>4
<1>6. Distinct(t)
  <2> HIDE DEF n
  <2>1. \A i, j \in 1 .. n : s[i] = s[j] => i = j
    BY DEF Distinct, n
  <2>2. \A i, j \in 1 .. n : t[i] = t[j] => i = j
    BY <1>2, <1>3, <2>1
  <2> QED
    BY <1>5, <2>2 DEF Distinct
<1>7. ASSUME NEW i \in 1 .. n, NEW j \in 1 .. n, i < j
      PROVE  Compare(t[i], t[j]) < 0
  <2>1. t[i] \in KeySet /\ t[j] \in KeySet /\ t[i] # t[j]
    BY <1>4, <1>5, <1>6, <1>7 DEF Distinct
  <2>2. Compare(t[i], t[j]) <= 0
    BY <1>2, <1>7
  <2> DEFINE a == t[i]
             b == t[j]
  <2>3. a \in KeySet /\ b \in KeySet /\ a # b /\ Compare(a, b) <= 0
    BY <2>1, <2>2
  <2>4. Compare(a, b) < 0
    <3> HIDE DEF a, b
    <3> QED
      BY <2>3, CompareOrders
  <2> QED
    BY <2>4
<1> QED
  BY <1>5, <1>6, <1>7 DEF InOrder

-----------------------------------------------------------------------------
(* The vectors of a plugin *)

\* A KeyStorage that grows by one holds exactly the keys that were added.
KeyList(v) ==
    /\ v \in [ptr : Seq(KeySet), cnt : Nat, rsvd : Nat]
    /\ v.cnt = Len(v.ptr) /\ v.rsvd = Len(v.ptr)
    /\ Distinct(v.ptr)

\* All of its array is in use.
LEMMA AllIsStored ==
    ASSUME NEW v, KeyList(v)
    PROVE  /\ V!Stored(v) = v.ptr
           /\ \A key : key \in Range(V!Stored(v)) <=> \E i \in 1 .. Len(v.ptr) : v.ptr[i] = key
<1> DEFINE s == v.ptr
<1>1. s \in Seq(KeySet) /\ V!Stored(v) = SubSeq(s, 1, Len(s))
  BY DEF KeyList, V!Stored
<1>2. SubSeq(s, 1, Len(s)) = s
  <2> HIDE DEF s
  <2> QED
    BY <1>1
<1>3. DOMAIN s = 1 .. Len(s)
  <2> HIDE DEF s
  <2> QED
    BY <1>1
<1> QED
  BY <1>1, <1>2, <1>3 DEF Range

\* addKey() of a key that is not there yet.
LEMMA PushKeeps ==
    ASSUME NEW v, KeyList(v), NEW key \in KeySet, key \notin Range(V!Stored(v))
    PROVE  KeyList(V!PushBack(v, 1, key))
<1> DEFINE s == v.ptr
           n == Len(s)
           w == V!PushBack(v, 1, key)
           t == [i \in 1 .. n + 1 |-> IF i = n + 1 THEN key ELSE s[i]]
<1>1. /\ s \in Seq(KeySet) /\ n \in Nat /\ v.cnt = n /\ v.rsvd = n
      /\ v = [ptr |-> s, cnt |-> n, rsvd |-> n]
      /\ \A i \in 1 .. n : s[i] \in KeySet /\ s[i] # key
      /\ \A i, j \in 1 .. n : s[i] = s[j] => i = j
  BY AllIsStored DEF KeyList, Distinct
<1> HIDE DEF s, n
<1>2. ~ V!Fits(v, n + 1) /\ 1 * (n + 1) = n + 1
  BY <1>1 DEF V!Fits
<1> DEFINE u == [i \in 1 .. n + 1 |-> IF i <= n THEN s[i] ELSE Null]
<1>3. V!Reserve(v, 1, n + 1) = [ptr |-> u, cnt |-> n, rsvd |-> n + 1]
  BY <1>1, <1>2 DEF V!Reserve, s, n
<1> DEFINE r == [ptr |-> u, cnt |-> n, rsvd |-> n + 1]
<1>4. w = [ptr |-> [u EXCEPT ![n + 1] = key], cnt |-> n + 1, rsvd |-> n + 1]
  <2> HIDE DEF u
  <2>1. w = [r EXCEPT !.ptr[n + 1] = key, !.cnt = @ + 1]
    BY <1>1, <1>3 DEF V!PushBack
  <2>2. r = [ptr |-> r.ptr, cnt |-> r.cnt, rsvd |-> r.rsvd]
            /\ r.ptr = u /\ r.cnt = n /\ r.rsvd = n + 1
    OBVIOUS
  <2> HIDE DEF r, w
  <2>3. w.ptr = [r.ptr EXCEPT ![n + 1] = key] /\ w.cnt = r.cnt + 1 /\ w.rsvd = r.rsvd
            /\ w = [ptr |-> w.ptr, cnt |-> w.cnt, rsvd |-> w.rsvd]
    BY <2>1, <2>2
  <2> QED
    BY <2>2, <2>3
<1>5. [u EXCEPT ![n + 1] = key] = t
  <2>1. \A i \in 1 .. n + 1 : i # n + 1 => i <= n
    BY <1>1
  <2>2. \A i \in 1 .. n + 1 : [u EXCEPT ![n + 1] = key][i] = t[i]
    BY <1>1, <2>1
  <2>3. DOMAIN [u EXCEPT ![n + 1] = key] = 1 .. n + 1
    OBVIOUS
  <2> QED
    BY <2>2, <2>3
<1>6. t \in [1 .. n + 1 -> KeySet]
  BY <1>1
<1>7. t \in Seq(KeySet) /\ Len(t) = n + 1
  BY <1>1, <1>6
<1>8. \A i, j \in 1 .. n + 1 : t[i] = t[j] => i = j
  BY <1>1
<1> HIDE DEF t, u
<1>9. w = [ptr |-> t, cnt |-> n + 1, rsvd |-> n + 1]
  BY <1>4, <1>5
<1> HIDE DEF w
<1>10. KeyList(w)
  BY <1>1, <1>7, <1>8, <1>9 DEF KeyList, Distinct
<1> QED
  BY <1>10 DEF w

\* Both vectors hold different keys and are in order once they were sorted.
StorageInv ==
    /\ phase \in {"device", "adding", "sorted", "submitted"}
    /\ DOMAIN storage = Lists
    /\ \A h \in Lists : KeyList(storage[h])
    /\ storage = [h \in Lists |-> storage[h]]
    /\ phase \in {"sorted", "submitted"} => \A h \in Lists : InOrder(storage[h].ptr)

\* Adding keys and sorting them.
LEMMA StorageInvAlways == SmcSpec => []StorageInv
<1>1. SmcInit => StorageInv
  <2>1. KeyList([ptr |-> << >>, cnt |-> 0, rsvd |-> 0])
    BY DEF KeyList, Distinct
  <2>2. V!Empty = [ptr |-> << >>, cnt |-> 0, rsvd |-> 0]
    BY Zenon DEF V!Empty
  <2> QED
    BY <2>1, <2>2 DEF SmcInit, StorageInv
<1>2. StorageInv /\ [SmcNext]_smcvars => StorageInv'
  <2> SUFFICES ASSUME StorageInv, [SmcNext]_smcvars PROVE StorageInv'
    OBVIOUS
  <2> USE DEF StorageInv
  <2>1. ASSUME NEW id \in DOMAIN Buffers, Fill(id) PROVE StorageInv'
    BY <2>1 DEF Fill
  <2>2. CASE Known
    BY <2>2 DEF Known
  <2>3. ASSUME NEW h \in Lists, NEW name \in Names, AddKey(h, name) PROVE StorageInv'
    <3> DEFINE key == Identifier(name)
               pushed == V!PushBack(storage[h], 1, key)
    <3>1. key \in KeySet /\ key \notin Range(V!Stored(storage[h]))
      BY <2>3 DEF AddKey, Keys, KeySet, Lists
    <3>2. KeyList(pushed)
      <4> HIDE DEF key
      <4> QED
        BY <3>1, PushKeeps
    <3>3. phase' = "adding" /\ storage' = [storage EXCEPT ![h] = pushed]
      BY <2>3 DEF AddKey
    <3> HIDE DEF pushed
    <3> QED
      BY <3>2, <3>3
  <2>4. CASE Sort
    <3>1. PICK data \in SortedFrom(storage["data"].ptr),
               hidden \in SortedFrom(storage["dataHidden"].ptr) :
              storage' = [storage EXCEPT !["data"].ptr = data, !["dataHidden"].ptr = hidden]
      BY <2>4 DEF Sort
    <3>2. /\ KeyList([storage["data"] EXCEPT !.ptr = data]) /\ InOrder(data)
          /\ KeyList([storage["dataHidden"] EXCEPT !.ptr = hidden]) /\ InOrder(hidden)
      BY <3>1, SortedIsInOrder DEF KeyList, Lists
    <3>3. storage' = [h \in Lists |-> IF h = "data" THEN [storage["data"] EXCEPT !.ptr = data]
                                      ELSE [storage["dataHidden"] EXCEPT !.ptr = hidden]]
      BY <3>1 DEF Lists
    <3>4. phase' = "sorted"
      BY <2>4 DEF Sort
    <3>5. \A h \in Lists : KeyList(storage'[h]) /\ InOrder(storage'[h].ptr)
      BY <3>2, <3>3 DEF Lists, KeyList
    <3> QED
      BY <3>3, <3>4, <3>5
  <2>5. CASE Submit
    BY <2>5 DEF Submit
  <2>6. ASSUME NEW h \in Lists, NEW name \in Names, Lookup(h, name) PROVE StorageInv'
    BY <2>6 DEF Lookup
  <2>7. CASE Probe
    BY <2>7 DEF Probe
  <2>8. CASE Answer
    BY <2>8 DEF Answer
  <2>9. CASE UNCHANGED smcvars
    BY <2>9 DEF smcvars
  <2> QED
    BY <2>1, <2>2, <2>3, <2>4, <2>5, <2>6, <2>7, <2>8, <2>9 DEF SmcNext
<1> QED
  BY <1>1, <1>2, PTL DEF SmcSpec

-----------------------------------------------------------------------------
(* The lookup *)

\* While a key is looked up, it is nowhere outside lo .. hi - 1, and an answer
\* says whether the vector holds it.
SearchInv ==
    /\ search = [list |-> search.list, key |-> search.key, lo |-> search.lo, hi |-> search.hi,
                 answer |-> search.answer]
    /\ search.list # Null =>
          /\ phase = "submitted" /\ search.list \in Lists
          /\ search.key \in KeySet
          /\ search.lo \in Nat /\ search.hi \in Nat
          /\ search.lo <= search.hi /\ search.hi <= storage[search.list].cnt
          /\ \A i \in 1 .. storage[search.list].cnt :
                storage[search.list].ptr[i] = search.key => search.lo < i /\ i <= search.hi

AnswerInv ==
    /\ search.answer # Null => search.answer = (search.key \in Keys(search.list))
    /\ search.answer # Null => search.list # Null

\* Which half a key is in, if it is in a vector that is in order at all.
LEMMA HalvesAreSound ==
    ASSUME NEW v, KeyList(v), InOrder(v.ptr), NEW key \in KeySet,
           NEW at \in 1 .. Len(v.ptr), NEW i \in 1 .. Len(v.ptr), v.ptr[i] = key
    PROVE  /\ Compare(key, v.ptr[at]) < 0 => i < at
           /\ Compare(key, v.ptr[at]) > 0 => i > at
<1> DEFINE s == v.ptr
           n == Len(s)
           b == s[at]
<1>1. /\ s \in Seq(KeySet) /\ n \in Nat /\ b \in KeySet
      /\ i < at => Compare(key, b) < 0
      /\ at < i => Compare(b, key) < 0
      /\ i = at => key = b
  BY DEF KeyList, InOrder
<1>2. i \in Int /\ at \in Int
  OBVIOUS
<1> HIDE DEF b
<1>3. /\ Compare(key, b) \in Int /\ (Compare(key, b) = 0 <=> key = b)
      /\ ~ (Compare(key, b) < 0 /\ Compare(b, key) < 0)
      /\ Compare(b, key) < 0 => ~ (Compare(key, b) < 0)
  BY <1>1, CompareOrders
<1> QED
  BY <1>1, <1>2, <1>3 DEF b

\* One probe: the half that is given up does not hold the key.
LEMMA ProbeKeeps ==
    ASSUME StorageInv, SearchInv, AnswerInv, Probe
    PROVE  SearchInv' /\ AnswerInv'
<1> DEFINE v == storage[search.list]
           n == Len(v.ptr)
           mid == (search.lo + search.hi) \div 2
           at == mid + 1
           order == Compare(search.key, v.ptr[at])
           found == \E i \in 1 .. n : v.ptr[i] = search.key
<1>1. /\ search.list # Null /\ search.list \in Lists /\ search.answer = Null
      /\ phase = "submitted" /\ phase' = phase /\ storage' = storage
      /\ KeyList(v) /\ InOrder(v.ptr) /\ search.key \in KeySet
  BY DEF Probe, StorageInv, SearchInv
<1>2. /\ n \in Nat /\ storage[search.list].cnt = n
      /\ search.lo \in Nat /\ search.hi \in Nat /\ search.lo <= search.hi /\ search.hi <= n
      /\ \A i \in 1 .. n : v.ptr[i] = search.key => search.lo < i /\ i <= search.hi
  <2>1. n \in Nat /\ storage[search.list].cnt = n
    BY <1>1 DEF KeyList
  <2> QED
    BY <1>1, <2>1 DEF SearchInv
<1>3. search.key \in Keys(search.list) <=> found
  BY <1>1, AllIsStored DEF Keys
<1>4. storage[search.list] = v /\ v.cnt = n /\ \A h : Keys(h)' = Keys(h)
  BY <1>1, <1>2 DEF Keys
<1>s. search = [list |-> search.list, key |-> search.key, lo |-> search.lo, hi |-> search.hi,
                answer |-> search.answer]
  BY DEF SearchInv
<1> HIDE DEF v, n
<1>5. CASE search.lo = search.hi
  <2>1. search' = [search EXCEPT !.answer = FALSE]
    BY <1>5 DEF Probe
  <2>2. ~ found
    BY <1>2, <1>5
  <2>3. search' = [list |-> search.list, key |-> search.key, lo |-> search.lo,
                   hi |-> search.hi, answer |-> FALSE]
    BY <1>s, <2>1
  <2>4. SearchInv'
    BY <1>1, <1>2, <1>4, <2>3 DEF SearchInv
  <2>5. (search.key \in Keys(search.list)) = FALSE
    BY <1>3, <2>2
  <2>6. AnswerInv'
    <3>1. search'.answer = FALSE /\ search'.key = search.key /\ search'.list = search.list
      BY <2>3
    <3> QED
      BY <1>1, <1>4, <2>5, <3>1, Zenon DEF AnswerInv
  <2> QED
    BY <2>4, <2>6
<1>6. CASE search.lo # search.hi
  <2>1. mid \in Nat /\ search.lo <= mid /\ mid < search.hi /\ at \in 1 .. n
    BY <1>2, <1>6
  <2>2. search' = IF order = 0 THEN [search EXCEPT !.answer = TRUE]
                  ELSE IF order < 0 THEN [search EXCEPT !.hi = mid]
                  ELSE [search EXCEPT !.lo = mid + 1]
    BY <1>6 DEF Probe, v
  <2>3. v.ptr[at] \in KeySet
    BY <1>1, <2>1 DEF KeyList, n
  <2>4. order \in Int /\ (order = 0 <=> search.key = v.ptr[at])
    BY <1>1, <2>3, CompareOrders
  <2>5. \A i \in 1 .. n : v.ptr[i] = search.key => (order < 0 => i < at) /\ (order > 0 => i > at)
    BY <1>1, <2>1, HalvesAreSound DEF n
  <2> HIDE DEF order, mid
  <2>6. CASE order = 0
    <3>1. (search.key \in Keys(search.list)) = TRUE
      BY <1>3, <2>1, <2>4, <2>6
    <3>2. search' = [list |-> search.list, key |-> search.key, lo |-> search.lo,
                     hi |-> search.hi, answer |-> TRUE]
      BY <1>s, <2>2, <2>6
    <3>3. SearchInv'
      BY <1>1, <1>2, <1>4, <3>2 DEF SearchInv
    <3>4. search'.answer = TRUE /\ search'.key = search.key /\ search'.list = search.list
      BY <3>2
    <3>5. AnswerInv'
      BY <1>1, <1>4, <3>1, <3>4, Zenon DEF AnswerInv
    <3> QED
      BY <3>3, <3>5
  <2>7. CASE order < 0
    <3>1. \A i \in 1 .. n : v.ptr[i] = search.key => search.lo < i /\ i <= mid
      BY <1>2, <2>1, <2>5, <2>7
    <3>2. search' = [list |-> search.list, key |-> search.key, lo |-> search.lo, hi |-> mid,
                     answer |-> Null]
      BY <1>1, <1>s, <2>2, <2>4, <2>7
    <3>3. SearchInv'
      BY <1>1, <1>2, <1>4, <2>1, <3>1, <3>2 DEF SearchInv
    <3>4. AnswerInv'
      BY <3>2 DEF AnswerInv
    <3> QED
      BY <3>3, <3>4
  <2>8. CASE order > 0
    <3>1. \A i \in 1 .. n : v.ptr[i] = search.key => mid + 1 < i /\ i <= search.hi
      BY <1>2, <2>1, <2>5, <2>8
    <3>2. search' = [list |-> search.list, key |-> search.key, lo |-> mid + 1, hi |-> search.hi,
                     answer |-> Null]
      BY <1>1, <1>s, <2>2, <2>4, <2>8
    <3>3. SearchInv'
      BY <1>1, <1>2, <1>4, <2>1, <3>1, <3>2 DEF SearchInv
    <3>4. AnswerInv'
      BY <3>2 DEF AnswerInv
    <3> QED
      BY <3>3, <3>4
  <2> QED
    BY <2>4, <2>6, <2>7, <2>8
<1> QED
  BY <1>5, <1>6

\* A lookup begins with the whole vector, and no vector changes while it goes on.
LEMMA SearchInvAlways == SmcSpec => [](SearchInv /\ AnswerInv)
<1>1. SmcInit => SearchInv /\ AnswerInv
  BY DEF SmcInit, NoSearch, SearchInv, AnswerInv
<1>2. StorageInv /\ SearchInv /\ AnswerInv /\ [SmcNext]_smcvars => SearchInv' /\ AnswerInv'
  <2> SUFFICES ASSUME StorageInv, SearchInv, AnswerInv, [SmcNext]_smcvars
               PROVE  SearchInv' /\ AnswerInv'
    OBVIOUS
  <2> USE DEF SearchInv, AnswerInv, Keys
  <2>1. ASSUME NEW id \in DOMAIN Buffers, Fill(id) PROVE SearchInv' /\ AnswerInv'
    BY <2>1 DEF Fill
  <2>2. CASE Known
    BY <2>2 DEF Known
  <2>3. ASSUME NEW h \in Lists, NEW name \in Names, AddKey(h, name) PROVE SearchInv' /\ AnswerInv'
    BY <2>3 DEF AddKey
  <2>4. CASE Sort
    BY <2>4 DEF Sort
  <2>5. CASE Submit
    BY <2>5 DEF Submit
  <2>6. ASSUME NEW h \in Lists, NEW name \in Names, Lookup(h, name) PROVE SearchInv' /\ AnswerInv'
    <3>1. /\ search' = [list |-> h, key |-> Identifier(name), lo |-> 0, hi |-> storage[h].cnt,
                        answer |-> Null]
          /\ phase' = phase /\ storage' = storage /\ phase = "submitted"
      BY <2>6 DEF Lookup, NoSearch
    <3>2. storage[h].cnt \in Nat /\ Identifier(name) \in KeySet
      BY DEF StorageInv, KeyList, KeySet
    <3> QED
      BY <3>1, <3>2
  <2>7. CASE Probe
    BY <2>7, ProbeKeeps
  <2>8. CASE Answer
    BY <2>8 DEF Answer, NoSearch
  <2>9. CASE UNCHANGED smcvars
    BY <2>9 DEF smcvars
  <2> QED
    BY <2>1, <2>2, <2>3, <2>4, <2>5, <2>6, <2>7, <2>8, <2>9 DEF SmcNext
<1> QED
  BY <1>1, <1>2, StorageInvAlways, PTL DEF SmcSpec

\* The vectors a plugin submits are in the order of their keys' names, although the
\* machine reads a name's bytes in the other order, and a binary search by compare()
\* finds a key exactly if the plugin has added it to that vector.
THEOREM LookupsFindAddedKeys == SmcSpec => []LookupMatchesNames
<1>1. StorageInv /\ SearchInv /\ AnswerInv => LookupMatchesNames
  <2> SUFFICES ASSUME StorageInv, AnswerInv PROVE LookupMatchesNames
    OBVIOUS
  <2>1. ASSUME phase \in {"sorted", "submitted"}, NEW h \in Lists,
               NEW i \in 1 .. (storage[h].cnt - 1)
        PROVE  Precedes(NameOf(storage[h].ptr[i]), NameOf(storage[h].ptr[i + 1]))
    <3> DEFINE s == storage[h].ptr
    <3>1. s \in Seq(KeySet) /\ storage[h].cnt = Len(s) /\ InOrder(s)
      BY <2>1 DEF StorageInv, KeyList
    <3> HIDE DEF s
    <3>2. i \in 1 .. Len(s) /\ i + 1 \in 1 .. Len(s) /\ i < i + 1
      BY <3>1
    <3>3. s[i] \in KeySet /\ s[i + 1] \in KeySet /\ Compare(s[i], s[i + 1]) < 0
      BY <3>1, <3>2 DEF InOrder
    <3>4. Precedes(NameOf(s[i]), NameOf(s[i + 1]))
      BY <3>3, NamesFollowKeys
    <3> QED
      BY <3>4 DEF s
  <2> QED
    BY <2>1 DEF AnswerInv, LookupMatchesNames
<1> QED
  BY <1>1, StorageInvAlways, SearchInvAlways, PTL

-----------------------------------------------------------------------------
(* SMCInfo *)

\* Where the arrays of SMCInfo begin and how long they are.
LEMMA Layout ==
    /\ DOMAIN Buffers = 1 .. 9
    /\ GetBuffer(1) = 0 /\ GetBuffer(2) = 6 /\ GetBuffer(3) = 12
    /\ GetBuffer(4) = 18 /\ GetBuffer(5) = 26 /\ GetBuffer(6) = 34
    /\ GetBuffer(7) = 98 /\ GetBuffer(8) = 104 /\ GetBuffer(9) = 120
<1> DEFINE offset == <<0, 6, 12, 18, 26, 34, 98, 104, 120>>
           step(f) == [id \in DOMAIN Declared |->
                          IF id = 1 THEN 0 ELSE f[id - 1] + Declared[id - 1]]
<1>1. DOMAIN Buffers = 1 .. 9 /\ DOMAIN Declared = 1 .. 9
  BY DEF Buffers, Declared
<1>2. /\ Declared[1] = 6 /\ Declared[2] = 6 /\ Declared[3] = 6 /\ Declared[4] = 8
      /\ Declared[5] = 8 /\ Declared[6] = 64 /\ Declared[7] = 6 /\ Declared[8] = 16
  BY DEF Declared, RevisionSize, BranchSize, ModelSize, MacSize, SerialSize
<1>3. offset = step(offset)
  <2>1. DOMAIN offset = 1 .. 9
    OBVIOUS
  <2>2. \A id \in 1 .. 9 : offset[id] = IF id = 1 THEN 0 ELSE offset[id - 1] + Declared[id - 1]
    BY <1>2
  <2>3. offset = [id \in 1 .. 9 |-> offset[id]]
    OBVIOUS
  <2> QED
    BY <1>1, <2>1, <2>2, <2>3
<1>4. Offset = CHOOSE f : f = step(f)
  BY DEF Offset
<1>5. Offset = step(Offset)
  <2> HIDE DEF offset, step
  <2> QED
    BY <1>3, <1>4
<1>6. \A id \in 1 .. 9 : Offset[id] = IF id = 1 THEN 0 ELSE Offset[id - 1] + Declared[id - 1]
  BY <1>1, <1>5
<1>7. Offset[1] = 0 /\ Offset[2] = 6 /\ Offset[3] = 12
  BY <1>2, <1>6
<1>8. Offset[4] = 18 /\ Offset[5] = 26 /\ Offset[6] = 34
  BY <1>2, <1>6, <1>7
<1>9. Offset[7] = 98 /\ Offset[8] = 104 /\ Offset[9] = 120
  BY <1>2, <1>6, <1>8
<1> QED
  BY <1>1, <1>7, <1>8, <1>9 DEF GetBuffer

\* getBufferSize() is the length of the array, for each of them.
LEMMA SizesAreDeclared ==
    \A id \in 1 .. 9 : GetBufferSize(id) = Declared[id] /\ Declared[id] \in Nat \ {0}
<1> USE DEF RevisionSize, BranchSize, ModelSize, MacSize, SerialSize, MotherboardSerialSize
<1>1. /\ Declared[1] = 6 /\ Declared[2] = 6 /\ Declared[3] = 6 /\ Declared[4] = 8
      /\ Declared[5] = 8 /\ Declared[6] = 64 /\ Declared[7] = 6 /\ Declared[8] = 16
      /\ Declared[9] = 17
  BY DEF Declared
<1>2. /\ GetBufferSize(1) = 6 /\ GetBufferSize(2) = 6 /\ GetBufferSize(3) = 6
      /\ GetBufferSize(4) = 8 /\ GetBufferSize(5) = 8 /\ GetBufferSize(6) = 64
  BY DEF GetBufferSize, Buffers
<1>3. GetBufferSize(7) = 6 /\ GetBufferSize(8) = 16 /\ GetBufferSize(9) = 17
  BY DEF GetBufferSize, Buffers
<1> QED
  BY <1>1, <1>2, <1>3

\* The bytes that filling a buffer writes are the first and the last byte of that
\* buffer and of no other.
LEMMA FillsOneBuffer ==
    ASSUME NEW id \in 1 .. 9, NEW b \in 1 .. 9
    PROVE  LET written == GetBuffer(id) .. (GetBuffer(id) + GetBufferSize(id) - 1)
           IN  /\ GetBuffer(b) \in written <=> b = id
               /\ GetBuffer(b) + Declared[b] - 1 \in written <=> b = id
<1>1. /\ Declared[1] = 6 /\ Declared[2] = 6 /\ Declared[3] = 6 /\ Declared[4] = 8
      /\ Declared[5] = 8 /\ Declared[6] = 64 /\ Declared[7] = 6 /\ Declared[8] = 16
      /\ Declared[9] = 17
  BY DEF Declared, RevisionSize, BranchSize, ModelSize, MacSize, SerialSize, MotherboardSerialSize
<1>3. \A i, j \in 1 .. 9 : i < j => GetBuffer(i) + Declared[i] <= GetBuffer(j)
  BY <1>1, Layout
<1>4. \A i \in 1 .. 9 : GetBuffer(i) \in Nat /\ Declared[i] \in Nat \ {0} /\ GetBufferSize(i) = Declared[i]
  BY Layout, SizesAreDeclared
<1>5. b = id \/ b < id \/ id < b
  OBVIOUS
<1> QED
  BY <1>3, <1>4, <1>5

\* What is known of a buffer that was filled stays known.
InfoInv ==
    /\ filled \subseteq DOMAIN Buffers
    /\ DOMAIN info = DOMAIN Buffers
    /\ BuffersApart

\* Filling any buffer up to the size it is said to have changes no byte of another,
\* in whichever order VirtualSMC fills them.
THEOREM BuffersStayApart == SmcSpec => []BuffersApart
<1>1. SmcInit => InfoInv
  BY DEF SmcInit, InfoInv, BuffersApart
<1>2. InfoInv /\ [SmcNext]_smcvars => InfoInv'
  <2> SUFFICES ASSUME InfoInv, [SmcNext]_smcvars PROVE InfoInv'
    OBVIOUS
  <2> USE DEF InfoInv, BuffersApart
  <2>1. ASSUME NEW id \in DOMAIN Buffers, Fill(id) PROVE InfoInv'
    <3>1. DOMAIN info = 1 .. 9 /\ id \in 1 .. 9 /\ filled \subseteq 1 .. 9
      BY <2>1, Layout
    <3>2. info' = [b \in 1 .. 9 |-> [first |-> IF b = id THEN id ELSE info[b].first,
                                     last |-> IF b = id THEN id ELSE info[b].last]]
      BY <2>1, <3>1, FillsOneBuffer DEF Fill
    <3>3. filled' = filled \cup {id}
      BY <2>1 DEF Fill
    <3>4. ASSUME NEW b \in filled' PROVE info'[b] = [first |-> b, last |-> b]
      <4>1. b \in 1 .. 9
        BY <3>1, <3>3
      <4>2. CASE b = id
        BY <3>2, <4>1, <4>2
      <4>3. CASE b # id
        <5>1. info[b] = [first |-> b, last |-> b]
          BY <3>3, <4>3
        <5> QED
          BY <3>2, <4>1, <4>3, <5>1
      <4> QED
        BY <4>2, <4>3
    <3> QED
      BY <3>1, <3>2, <3>3, <3>4, Layout
  <2>2. CASE Known
    BY <2>2 DEF Known
  <2>3. ASSUME NEW h \in Lists, NEW name \in Names, AddKey(h, name) PROVE InfoInv'
    BY <2>3 DEF AddKey
  <2>4. CASE Sort
    BY <2>4 DEF Sort
  <2>5. CASE Submit
    BY <2>5 DEF Submit
  <2>6. ASSUME NEW h \in Lists, NEW name \in Names, Lookup(h, name) PROVE InfoInv'
    BY <2>6 DEF Lookup
  <2>7. CASE Probe
    BY <2>7 DEF Probe
  <2>8. CASE Answer
    BY <2>8 DEF Answer
  <2>9. CASE UNCHANGED smcvars
    BY <2>9 DEF smcvars
  <2> QED
    BY <2>1, <2>2, <2>3, <2>4, <2>5, <2>6, <2>7, <2>8, <2>9 DEF SmcNext
<1>3. InfoInv => BuffersApart
  BY DEF InfoInv
<1> QED
  BY <1>1, <1>2, <1>3, PTL DEF SmcSpec
=============================================================================
