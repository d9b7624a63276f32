-------------------------- MODULE InstructionProofs --------------------------
(* Machine-checked proofs about Instructions, for words of every size: the    *)
(* arithmetic of powers of two, of division and of words as sets of bits;     *)
(* what each sequence has in its registers after each instruction, one lemma  *)
(* per kind of sequence; and that this is what the sequence is for.           *)
EXTENDS Instructions, NaturalsInduction, WellFoundedInduction, TLAPS

(* What holds of 0 and passes on from k to k + 1 holds up to n: otherwise     *)
(* there would be a least number of which it does not.                        *)
LEMMA UpTo ==
    ASSUME NEW n \in Nat, NEW S, 0 \in S, \A k \in 0..n-1 : k \in S => k + 1 \in S
    PROVE  \A k \in 0..n : k \in S
<1> DEFINE R == OpToRel(<, Nat)
           bad == {k \in 0..n : k \notin S}
<1> SUFFICES ASSUME bad # {} PROVE FALSE
  OBVIOUS
<1>1. IsWellFoundedOn(R, Nat)
  BY NatLessThanWellFounded
<1>2. \A a, b \in Nat : <<a, b>> \in R <=> a < b
  BY DEF OpToRel
<1>3. bad \in SUBSET Nat
  OBVIOUS
<1> HIDE DEF R
<1>4. PICK k \in bad : \A j \in bad : ~(<<j, k>> \in R)
  <2> HIDE DEF bad
  <2> QED BY <1>1, <1>3, WFMin
<1>5. k \in 0..n /\ k # 0 /\ k \notin S
  BY <1>4
<1>6. k - 1 \in 0..n-1 /\ <<k - 1, k>> \in R
  BY <1>2, <1>5
<1>7. k - 1 \in S
  BY <1>4, <1>6
<1>8. (k - 1) + 1 = k
  BY <1>5
<1> QED BY <1>5, <1>6, <1>7, <1>8

(* The powers of two are what satisfies their equation.                       *)
Doubles(n, f) == f = [k \in 0..n |-> IF k = 0 THEN 1 ELSE 2 * f[k-1]]

LEMMA DoublesExist == ASSUME NEW n \in Nat PROVE \E f : Doubles(n, f)
<1> DEFINE S == {m \in 0..n : \E f : Doubles(m, f)}
<1>1. 0 \in S
  <2> DEFINE f == [k \in 0..0 |-> 1]
  <2>1. Doubles(0, f)
    BY DEF Doubles
  <2> HIDE DEF f
  <2> QED BY <2>1
<1>2. ASSUME NEW m \in 0..n-1, m \in S PROVE m + 1 \in S
  <2>1. PICK f : Doubles(m, f)
    BY <1>2
  <2> DEFINE g == [k \in 0..m+1 |-> IF k = 0 THEN 1 ELSE 2 * f[k-1]]
  <2>2. \A k \in 0..m : g[k] = f[k]
    BY <2>1 DEF Doubles
  <2>3. \A k \in 0..m+1 : g[k] = IF k = 0 THEN 1 ELSE 2 * g[k-1]
    <3>1. ASSUME NEW k \in 0..m+1, k # 0 PROVE g[k] = 2 * g[k-1]
      <4>1. k - 1 \in 0..m
        BY <3>1
      <4>2. g[k] = 2 * f[k-1]
        BY <3>1
      <4> HIDE DEF g
      <4> QED BY <2>2, <4>1, <4>2
    <3>2. g[0] = 1
      OBVIOUS
    <3> HIDE DEF g
    <3> QED BY <3>1, <3>2
  <2>4. g = [k \in 0..m+1 |-> g[k]]
    OBVIOUS
  <2> HIDE DEF g
  <2>5. Doubles(m + 1, g)
    BY <2>3, <2>4 DEF Doubles
  <2>6. m + 1 \in 0..n
    OBVIOUS
  <2> QED BY <2>5, <2>6
<1> HIDE DEF S
<1>3. n \in S
  BY <1>1, <1>2, UpTo
<1> QED BY <1>3 DEF S

TwoGrows == Two[0] = 1 /\ \A k \in 0..2*Width-1 : Two[k+1] = 2 * Two[k]
LEMMA TwoIs == TwoGrows
<1>1. 2 * Width \in Nat
  BY InstructionAssumption
<1>2. Two = CHOOSE f : Doubles(2*Width, f)
  BY DEF Two, Doubles
<1>3. Doubles(2*Width, Two)
  BY <1>1, <1>2, DoublesExist
<1> HIDE DEF Two
<1>4. Two[0] = 1
  BY <1>1, <1>3 DEF Doubles
<1>5. ASSUME NEW k \in 0..2*Width-1 PROVE Two[k+1] = 2 * Two[k]
  <2>1. k + 1 \in 0..2*Width /\ k + 1 # 0 /\ (k + 1) - 1 = k
    BY <1>1
  <2> QED BY <1>3, <2>1 DEF Doubles
<1> QED BY <1>4, <1>5 DEF TwoGrows

LEMMA TwoTypes == \A k \in 0..2*Width : Two[k] \in Nat \ {0}
<1>1. 2 * Width \in Nat
  BY InstructionAssumption
<1> DEFINE S == {k \in 0..2*Width : Two[k] \in Nat \ {0}}
<1>2. 0 \in S
  BY <1>1, TwoIs DEF TwoGrows
<1>3. ASSUME NEW k \in 0..2*Width-1, k \in S PROVE k + 1 \in S
  <2>1. Two[k+1] = 2 * Two[k] /\ k + 1 \in 0..2*Width /\ Two[k] \in Nat \ {0}
    BY <1>1, <1>3, TwoIs DEF TwoGrows
  <2> QED BY <2>1
<1> HIDE DEF S
<1>4. \A k \in 0..2*Width : k \in S
  BY <1>1, <1>2, <1>3, UpTo
<1> QED BY <1>4 DEF S

LEMMA TwoAdds == ASSUME NEW a \in Nat, NEW b \in Nat, a + b <= 2*Width PROVE Two[a+b] = Two[a] * Two[b]
<1>1. 2 * Width \in Nat
  BY InstructionAssumption
<1> DEFINE S == {k \in 0..b : Two[a+k] = Two[a] * Two[k]}
<1>2. 0 \in S
  <2>1. a + 0 = a /\ a \in 0..2*Width /\ 0 \in 0..b
    BY <1>1
  <2>2. Two[a] \in Nat /\ Two[0] = 1
    BY <2>1, TwoTypes, TwoIs DEF TwoGrows
  <2> QED BY <2>1, <2>2
<1>3. ASSUME NEW k \in 0..b-1, k \in S PROVE k + 1 \in S
  <2>1. k + 1 \in 0..b /\ a + k \in 0..2*Width-1 /\ k \in 0..2*Width-1 /\ a + (k + 1) = (a + k) + 1
        /\ a \in 0..2*Width
    BY <1>1
  <2>2. Two[(a+k) + 1] = 2 * Two[a+k] /\ Two[k+1] = 2 * Two[k]
    BY <2>1, TwoIs DEF TwoGrows
  <2>3. Two[a+k] = Two[a] * Two[k]
    BY <1>3
  <2>4. Two[a] \in Nat /\ Two[k] \in Nat
    <3>1. k \in 0..2*Width
      BY <1>1, <2>1
    <3> QED BY <2>1, <3>1, TwoTypes
  <2>5. 2 * (Two[a] * Two[k]) = Two[a] * (2 * Two[k])
    BY <2>4
  <2> QED BY <2>1, <2>2, <2>3, <2>5
<1> HIDE DEF S
<1>4. b \in S
  BY <1>2, <1>3, UpTo
<1> QED BY <1>4 DEF S

(* Quotient and remainder are what satisfies their equation.                  *)
Splits(n, d, q, r) ==
    /\ n \in Int /\ d \in Nat \ {0} /\ q \in Int /\ r \in Int
    /\ n = d * q + r /\ 0 <= r /\ r < d
LEMMA DivModIs ==
    ASSUME NEW n, NEW d, NEW q, NEW r, Splits(n, d, q, r)
    PROVE  n \div d = q /\ n % d = r
<1> USE DEF Splits
<1> DEFINE p == n \div d
           s == n % d
<1>1. p \in Int /\ s \in Int /\ n = d * p + s /\ 0 <= s /\ s < d
  OBVIOUS
<1> HIDE DEF p, s
<1>2. d * (p - q) = r - s
  BY <1>1
<1>3. p = q
  <2>1. CASE p - q >= 1
    <3>1. d * (p - q) >= d
      BY <1>1, <2>1
    <3> QED BY <1>1, <1>2, <3>1
  <2>2. CASE q - p >= 1
    <3>1. d * (q - p) >= d
      BY <1>1, <2>2
    <3>2. d * (q - p) = s - r
      BY <1>1
    <3> QED BY <1>1, <3>1, <3>2
  <2> QED BY <1>1, <2>1, <2>2
<1>4. r = s
  BY <1>1, <1>3
<1> QED BY <1>3, <1>4 DEF p, s

LEMMA DividedIs == ASSUME NEW n \in Int, NEW d \in Nat \ {0}
    PROVE n \div d \in Int /\ n % d \in 0..d-1 /\ n = d * (n \div d) + (n % d)
          /\ (n \in Nat => n \div d \in Nat)
<1>1. n \div d \in Int /\ n % d \in 0..d-1 /\ n = d * (n \div d) + (n % d)
  OBVIOUS
<1>2. ASSUME n \in Nat, n \div d < 0 PROVE FALSE
  <2> DEFINE p == n \div d
  <2>1. p \in Int /\ p <= -1 /\ n = d * p + (n % d) /\ n % d < d /\ n % d \in Int
    BY <1>1, <1>2
  <2> HIDE DEF p
  <2>2. d * (-p) >= d
    BY <2>1
  <2>3. d * p = -(d * (-p))
    BY <2>1
  <2> QED BY <1>2, <2>1, <2>2, <2>3
<1> QED BY <1>1, <1>2

(* Sums of powers: there is a function that satisfies the equation.           *)
Weight(S, k) == IF k \in S THEN Two[k] ELSE 0
SumsTo(n, S, f) == f = [k \in 0..n |-> IF k = 0 THEN 0 ELSE f[k-1] + Weight(S, k-1)]

LEMMA SumsExist == ASSUME NEW n \in Nat, NEW W PROVE \E f : SumsTo(n, W, f)
<1> DEFINE S == {m \in 0..n : \E f : SumsTo(m, W, f)}
<1>1. 0 \in S
  <2> DEFINE f == [k \in 0..0 |-> 0]
  <2>1. SumsTo(0, W, f)
    BY DEF SumsTo
  <2> HIDE DEF f
  <2> QED BY <2>1
<1>2. ASSUME NEW m \in 0..n-1, m \in S PROVE m + 1 \in S
  <2>1. PICK f : SumsTo(m, W, f)
    BY <1>2
  <2> DEFINE g == [k \in 0..m+1 |-> IF k = 0 THEN 0 ELSE f[k-1] + Weight(W, k-1)]
  <2>2. \A k \in 0..m : g[k] = f[k]
    BY <2>1 DEF SumsTo
  <2>3. \A k \in 0..m+1 : g[k] = IF k = 0 THEN 0 ELSE g[k-1] + Weight(W, k-1)
    <3>1. ASSUME NEW k \in 0..m+1, k # 0 PROVE g[k] = g[k-1] + Weight(W, k-1)
      <4>1. k - 1 \in 0..m
        BY <3>1
      <4>2. g[k] = f[k-1] + Weight(W, k-1)
        BY <3>1
      <4> HIDE DEF g
      <4> QED BY <2>2, <4>1, <4>2
    <3>2. g[0] = 0
      OBVIOUS
    <3> HIDE DEF g
    <3> QED BY <3>1, <3>2
  <2>4. g = [k \in 0..m+1 |-> g[k]]
    OBVIOUS
  <2> HIDE DEF g
  <2>5. SumsTo(m + 1, W, g)
    BY <2>3, <2>4 DEF SumsTo
  <2>6. m + 1 \in 0..n
    OBVIOUS
  <2> QED BY <2>5, <2>6
<1> HIDE DEF S
<1>3. n \in S
  BY <1>1, <1>2, UpTo
<1> QED BY <1>3 DEF S

(* What a sum is, and that nothing else satisfies its equation.               *)
Adds(S, f) ==
    /\ f[0] = 0
    /\ \A k \in 0..Width-1 : f[k+1] = f[k] + Weight(S, k)
LEMMA SumIs == ASSUME NEW S PROVE \E f : Adds(S, f) /\ FromBits(S) = f[Width]
<1>1. Width \in Nat
  BY InstructionAssumption
<1> DEFINE f == CHOOSE f : SumsTo(Width, S, f)
<1>2. FromBits(S) = f[Width]
  BY DEF FromBits, SumsTo, Weight
<1>3. SumsTo(Width, S, f)
  BY <1>1, SumsExist
<1> HIDE DEF f
<1>4. Adds(S, f)
  <2>1. f[0] = 0
    BY <1>1, <1>3 DEF SumsTo
  <2>2. ASSUME NEW k \in 0..Width-1 PROVE f[k+1] = f[k] + Weight(S, k)
    <3>1. k + 1 \in 0..Width /\ k + 1 # 0 /\ (k + 1) - 1 = k
      BY <1>1
    <3> QED BY <1>3, <3>1 DEF SumsTo
  <2> QED BY <2>1, <2>2 DEF Adds
<1> QED BY <1>2, <1>4

LEMMA SumIsOnly ==
    ASSUME NEW S, NEW f, Adds(S, f)
    PROVE  FromBits(S) = f[Width]
<1>1. Width \in Nat
  BY InstructionAssumption
<1>2. PICK g : Adds(S, g) /\ FromBits(S) = g[Width]
  BY SumIs
<1> DEFINE E == {k \in 0..Width : f[k] = g[k]}
<1>3. 0 \in E
  BY <1>1, <1>2 DEF Adds
<1>4. ASSUME NEW k \in 0..Width-1, k \in E PROVE k + 1 \in E
  <2>1. k + 1 \in 0..Width
    BY <1>1
  <2> QED BY <1>2, <1>4, <2>1 DEF Adds
<1> HIDE DEF E
<1>5. Width \in E
  BY <1>1, <1>3, <1>4, UpTo
<1> QED BY <1>2, <1>5 DEF E

LEMMA SumTypes == ASSUME NEW S, NEW f, Adds(S, f) PROVE \A k \in 0..Width : f[k] \in 0..Two[k]-1
<1>1. Width \in Nat
  BY InstructionAssumption
<1> DEFINE E == {k \in 0..Width : f[k] \in 0..Two[k]-1}
<1>3. 0 \in E
  BY <1>1, TwoIs DEF Adds, TwoGrows
<1>4. ASSUME NEW k \in 0..Width-1, k \in E PROVE k + 1 \in E
  <2>1. k + 1 \in 0..Width /\ k \in 0..2*Width-1 /\ k \in 0..2*Width
    BY <1>1
  <2>2. Two[k+1] = 2 * Two[k] /\ Two[k] \in Nat
    BY <2>1, TwoIs, TwoTypes DEF TwoGrows
  <2>3. f[k+1] = f[k] + Weight(S, k) /\ Weight(S, k) \in {0, Two[k]}
    BY DEF Adds, Weight
  <2>4. f[k] \in 0..Two[k]-1
    BY <1>4
  <2> QED BY <2>1, <2>2, <2>3, <2>4
<1> HIDE DEF E
<1>5. \A k \in 0..Width : k \in E
  BY <1>1, <1>3, <1>4, UpTo
<1> QED BY <1>5 DEF E

LEMMA SumOfTwo ==
    ASSUME NEW S, NEW T, S \cap T \cap AllBits = {}
    PROVE  FromBits(S \cup T) = FromBits(S) + FromBits(T)
<1>1. Width \in Nat
  BY InstructionAssumption
<1>2. PICK f : Adds(S, f) /\ FromBits(S) = f[Width]
  BY SumIs
<1>3. PICK g : Adds(T, g) /\ FromBits(T) = g[Width]
  BY SumIs
<1> DEFINE h == [k \in 0..Width |-> f[k] + g[k]]
<1>4. h[0] = 0
  BY <1>1, <1>2, <1>3 DEF Adds
<1>5. ASSUME NEW k \in 0..Width-1 PROVE h[k+1] = h[k] + Weight(S \cup T, k)
  <2>1. k + 1 \in 0..Width /\ k \in 0..Width /\ k \in 0..2*Width /\ k \in AllBits
    BY <1>1 DEF AllBits
  <2>2. h[k+1] = f[k+1] + g[k+1] /\ h[k] = f[k] + g[k]
    BY <2>1
  <2>3. f[k] \in Int /\ g[k] \in Int /\ Two[k] \in Int
    <3>1. Two[k] \in Nat
      BY <2>1, TwoTypes
    <3>2. f[k] \in 0..Two[k]-1 /\ g[k] \in 0..Two[k]-1
      BY <1>2, <1>3, <2>1, SumTypes
    <3> QED BY <3>1, <3>2
  <2>4. f[k+1] = f[k] + Weight(S, k) /\ g[k+1] = g[k] + Weight(T, k)
    BY <1>2, <1>3 DEF Adds
  <2>5. Weight(S \cup T, k) = Weight(S, k) + Weight(T, k)
    BY <2>1, <2>3 DEF Weight
  <2>6. Weight(S, k) \in Int /\ Weight(T, k) \in Int
    BY <2>3 DEF Weight
  <2> HIDE DEF h
  <2> QED BY <2>2, <2>3, <2>4, <2>5, <2>6
<1>6. h[Width] = f[Width] + g[Width]
  BY <1>1
<1> HIDE DEF h
<1>7. Adds(S \cup T, h)
  BY <1>4, <1>5 DEF Adds
<1> QED BY <1>2, <1>3, <1>6, <1>7, SumIsOnly

LEMMA SumOnlyOfBits == ASSUME NEW S, NEW T, S \cap AllBits = T \cap AllBits PROVE FromBits(S) = FromBits(T)
<1>1. PICK f : Adds(S, f) /\ FromBits(S) = f[Width]
  BY SumIs
<1>2. ASSUME NEW k \in 0..Width-1 PROVE Weight(S, k) = Weight(T, k)
  BY DEF Weight, AllBits
<1>3. Adds(T, f)
  BY <1>1, <1>2 DEF Adds
<1> QED BY <1>1, <1>3, SumIsOnly

LEMMA WidthIsEnough == Width \in Nat /\ Width >= 4 /\ Width \in 0..2*Width /\ Width - 1 \in 0..2*Width-1
  BY InstructionAssumption

LEMMA SumInValues == ASSUME NEW S PROVE FromBits(S) \in Values
  BY SumIs, SumTypes, WidthIsEnough DEF Values

(* The bits of a word, and the word of the bits.                              *)
LEMMA LowerBit ==
    ASSUME NEW n \in Nat, NEW t \in Nat \ {0}
    PROVE  n % (2 * t) = (n % t) + (IF (n \div t) % 2 = 1 THEN t ELSE 0)
<1> DEFINE q == n \div t
           r == n % t
           p == q \div 2
           b == q % 2
<1>1. q \in Int /\ r \in 0..t-1 /\ n = t * q + r
  BY DividedIs
<1>2. p \in Int /\ b \in 0..1 /\ q = 2 * p + b
  <2> HIDE DEF q
  <2> QED BY <1>1
<1> HIDE DEF q, r, p, b
<1>3. n = ((2 * t) * p) + (t * b + r)
  <2>1. t * q = t * (2 * p + b)
    BY <1>2
  <2>2. t * (2 * p + b) = (2 * t) * p + t * b
    BY <1>1, <1>2
  <2> QED BY <1>1, <1>2, <2>1, <2>2
<1>4. t * b = (IF b = 1 THEN t ELSE 0)
  BY <1>2
<1>5. 0 <= t * b + r /\ t * b + r < 2 * t /\ t * b + r \in Int
  BY <1>1, <1>2, <1>4
<1>6. n % (2 * t) = t * b + r
  <2>1. Splits(n, 2 * t, p, t * b + r)
    BY <1>1, <1>2, <1>3, <1>5 DEF Splits
  <2> QED BY <2>1, DivModIs
<1> QED BY <1>1, <1>2, <1>4, <1>6 DEF q, r, b

LEMMA WordOfItsBits == ASSUME NEW n \in Nat PROVE FromBits(BitsOf(n)) = Wrapped(n)
<1> DEFINE f == [k \in 0..Width |-> n % Two[k]]
<1>1. f[0] = 0
  <2>1. Two[0] = 1 /\ 0 \in 0..Width
    BY TwoIs, WidthIsEnough DEF TwoGrows
  <2> QED BY <2>1
<1>2. ASSUME NEW k \in 0..Width-1 PROVE f[k+1] = f[k] + Weight(BitsOf(n), k)
  <2>1. k + 1 \in 0..Width /\ k \in 0..Width /\ k \in 0..2*Width /\ k \in 0..2*Width-1 /\ k \in AllBits
    BY WidthIsEnough DEF AllBits
  <2>2. Two[k+1] = 2 * Two[k] /\ Two[k] \in Nat \ {0}
    BY <2>1, TwoTypes, TwoIs DEF TwoGrows
  <2>3. f[k+1] = n % (2 * Two[k]) /\ f[k] = n % Two[k]
    BY <2>1, <2>2
  <2>4. Weight(BitsOf(n), k) = IF (n \div Two[k]) % 2 = 1 THEN Two[k] ELSE 0
    BY <2>1 DEF Weight, BitsOf
  <2> HIDE DEF f
  <2> QED BY <2>2, <2>3, <2>4, LowerBit
<1>3. f[Width] = n % Two[Width]
  BY WidthIsEnough
<1> HIDE DEF f
<1>4. Adds(BitsOf(n), f)
  BY <1>1, <1>2 DEF Adds
<1> QED BY <1>3, <1>4, SumIsOnly DEF Wrapped

Beyond(f, k, j) == \E c \in Nat : f[k] = f[j] + Two[j] * c
LEMMA BitsOfAWord == ASSUME NEW S PROVE BitsOf(FromBits(S)) = S \cap AllBits
<1>1. PICK f : Adds(S, f) /\ FromBits(S) = f[Width]
  BY SumIs
<1>2. ASSUME NEW j \in AllBits PROVE (f[Width] \div Two[j]) % 2 = 1 <=> j \in S
  <2>1. j \in 0..Width-1 /\ j \in 0..2*Width-1 /\ j \in 0..2*Width /\ j + 1 \in 0..Width /\ j \in Nat
        /\ j \in 0..Width
    BY WidthIsEnough DEF AllBits
  <2> DEFINE E == {i \in 0..Width-(j+1) : Beyond(f, (j+1) + i, j + 1)}
  <2>2. 0 \in E
    <3>1. f[j+1] = f[j+1] + Two[j+1] * 0 /\ (j + 1) + 0 = j + 1
      <4>1. f[j+1] \in 0..Two[j+1]-1 /\ Two[j+1] \in Nat
        BY <1>1, <2>1, SumTypes, TwoTypes, WidthIsEnough
      <4> QED BY <2>1, <4>1
    <3> QED BY <2>1, <3>1, WidthIsEnough DEF Beyond
  <2>3. ASSUME NEW i \in 0..(Width-(j+1))-1, i \in E PROVE i + 1 \in E
    <3>1. PICK k : k = (j + 1) + i
      OBVIOUS
    <3>2. k \in 0..Width-1 /\ (j + 1) + (i + 1) = k + 1 /\ i \in Nat /\ j + 1 \in Nat
          /\ (j + 1) + i <= 2*Width /\ i \in 0..2*Width /\ j + 1 \in 0..2*Width
      BY <2>1, <3>1, WidthIsEnough
    <3>3. PICK c \in Nat : f[k] = f[j+1] + Two[j+1] * c
      BY <2>3, <3>1 DEF Beyond
    <3>4. Two[k] = Two[j+1] * Two[i]
      BY <3>1, <3>2, TwoAdds
    <3>5. Two[j+1] \in Nat /\ Two[i] \in Nat
      BY <3>2, TwoTypes
    <3>6. f[j+1] \in Int
      <4>1. f[j+1] \in 0..Two[j+1]-1
        BY <1>1, <2>1, SumTypes
      <4> QED BY <3>5, <4>1
    <3>7. f[k+1] = f[k] + Weight(S, k)
      BY <1>1, <3>2 DEF Adds
    <3>8. PICK d \in Nat : Weight(S, k) = Two[j+1] * d
      <4>1. Two[j+1] * 0 = 0
        BY <3>5
      <4> QED BY <3>4, <3>5, <4>1 DEF Weight
    <3>9. f[k+1] = f[j+1] + Two[j+1] * (c + d)
      BY <3>3, <3>5, <3>6, <3>7, <3>8
    <3>10. c + d \in Nat /\ i + 1 \in 0..Width-(j+1)
      BY <2>1, WidthIsEnough
    <3> QED BY <3>2, <3>9, <3>10 DEF Beyond
  <2>4. Width - (j + 1) \in E
    <3> HIDE DEF E
    <3> QED BY <2>1, <2>2, <2>3, UpTo, WidthIsEnough
  <2>5. PICK c \in Nat : f[Width] = f[j+1] + Two[j+1] * c
    <3>1. (j + 1) + (Width - (j + 1)) = Width
      BY <2>1, WidthIsEnough
    <3> QED BY <2>4, <3>1 DEF Beyond
  <2>6. PICK t : t = Two[j]
    OBVIOUS
  <2>7. t \in Nat \ {0} /\ Two[j+1] = 2 * t
    BY <2>1, <2>6, TwoTypes, TwoIs DEF TwoGrows
  <2>8. f[j+1] = f[j] + (IF j \in S THEN t ELSE 0) /\ f[j] \in 0..t-1
    BY <1>1, <2>1, <2>6, SumTypes DEF Adds, Weight
  <2>9. PICK q \in Nat : f[Width] = t * q + f[j] /\ (q % 2 = 1 <=> j \in S)
    <3>1. CASE j \in S
      <4>1. f[Width] = t * (2 * c + 1) + f[j]
        BY <2>5, <2>7, <2>8, <3>1
      <4>2. (2 * c + 1) % 2 = 1 /\ 2 * c + 1 \in Nat
        OBVIOUS
      <4> QED BY <3>1, <4>1, <4>2
    <3>2. CASE j \notin S
      <4>1. f[Width] = t * (2 * c) + f[j]
        BY <2>5, <2>7, <2>8, <3>2
      <4>2. (2 * c) % 2 = 0 /\ 2 * c \in Nat
        OBVIOUS
      <4> QED BY <3>2, <4>1, <4>2
    <3> QED BY <3>1, <3>2
  <2>10. f[Width] \div t = q
    <3>1. f[j] \in Int /\ 0 <= f[j] /\ f[j] < t /\ t * q \in Int
      BY <2>7, <2>8
    <3>2. f[Width] \in Int
      BY <2>9, <3>1
    <3>3. Splits(f[Width], t, q, f[j])
      BY <2>7, <2>9, <3>1, <3>2 DEF Splits
    <3> QED BY <3>3, DivModIs
  <2> QED BY <2>6, <2>9, <2>10
<1>3. BitsOf(FromBits(S)) = {k \in AllBits : (f[Width] \div Two[k]) % 2 = 1}
  BY <1>1 DEF BitsOf
<1> QED BY <1>2, <1>3

(* The operations on bits.                                                    *)
LEMMA ValuesAreWords == ASSUME NEW v \in Values PROVE v \in Nat /\ FromBits(BitsOf(v)) = v /\ Wrapped(v) = v
<1>1. Two[Width] \in Nat \ {0}
  BY TwoTypes, WidthIsEnough
<1>2. v \in Nat /\ Wrapped(v) = v
  BY <1>1 DEF Values, Wrapped
<1> QED BY <1>2, WordOfItsBits

LEMMA BitsOfThese ==
    ASSUME NEW a, NEW b
    PROVE  /\ BitsOf(And(a, b)) = BitsOf(a) \cap BitsOf(b)
           /\ BitsOf(Or(a, b)) = BitsOf(a) \cup BitsOf(b)
           /\ BitsOf(Complement(a)) = AllBits \ BitsOf(a)
           /\ {And(a, b), Or(a, b), Xor(a, b), Complement(a)} \subseteq Values
<1>1. BitsOf(a) \subseteq AllBits /\ BitsOf(b) \subseteq AllBits
  BY DEF BitsOf
<1>2. BitsOf(And(a, b)) = (BitsOf(a) \cap BitsOf(b)) \cap AllBits
  BY BitsOfAWord DEF And
<1>3. BitsOf(Or(a, b)) = (BitsOf(a) \cup BitsOf(b)) \cap AllBits
  BY BitsOfAWord DEF Or
<1>4. BitsOf(Complement(a)) = (AllBits \ BitsOf(a)) \cap AllBits
  BY BitsOfAWord DEF Complement
<1>5. {And(a, b), Or(a, b), Xor(a, b), Complement(a)} \subseteq Values
  BY SumInValues DEF And, Or, Xor, Complement
<1> QED BY <1>1, <1>2, <1>3, <1>4, <1>5

LEMMA SumOfParts ==
    ASSUME NEW S, NEW T
    PROVE  FromBits(S) = FromBits(S \ T) + FromBits(S \cap T)
<1>1. FromBits((S \ T) \cup (S \cap T)) = FromBits(S \ T) + FromBits(S \cap T)
  BY SumOfTwo
<1>2. (S \ T) \cup (S \cap T) = S
  OBVIOUS
<1> QED BY <1>1, <1>2

(* The carries are where both have a bit, the rest is where one has it.       *)
LEMMA SumByBits == ASSUME NEW a \in Values, NEW b \in Values PROVE Xor(a, b) + 2 * And(a, b) = a + b
<1> DEFINE S == BitsOf(a)
           T == BitsOf(b)
<1>1. FromBits(S) = a /\ FromBits(T) = b
  BY ValuesAreWords
<1>2. Xor(a, b) = FromBits((S \cup T) \ (S \cap T)) /\ And(a, b) = FromBits(S \cap T)
  BY DEF Xor, And
<1> HIDE DEF S, T
<1>3. FromBits(S) = FromBits(S \ T) + FromBits(S \cap T)
  BY SumOfParts
<1>4. FromBits(T) = FromBits(T \ S) + FromBits(T \cap S)
  BY SumOfParts
<1>5. FromBits((S \ T) \cup (T \ S)) = FromBits(S \ T) + FromBits(T \ S)
  BY SumOfTwo
<1>6. (S \cup T) \ (S \cap T) = (S \ T) \cup (T \ S) /\ T \cap S = S \cap T
  OBVIOUS
<1>7. FromBits(S \ T) \in Int /\ FromBits(T \ S) \in Int /\ FromBits(S \cap T) \in Int
  BY SumInValues DEF Values
<1>8. Xor(a, b) = FromBits(S \ T) + FromBits(T \ S)
  BY <1>2, <1>5, <1>6, Zenon
<1>9. FromBits(T) = FromBits(T \ S) + FromBits(S \cap T)
  BY <1>4, <1>6, Zenon
<1> QED BY <1>1, <1>2, <1>3, <1>7, <1>8, <1>9

(* Setting bits adds those that were not set, clearing takes those that were. *)
LEMMA SettingAdds ==
    ASSUME NEW c \in Values, NEW m \in Values
    PROVE  Or(c, m) = c + And(m, Complement(c))
<1> DEFINE S == BitsOf(c)
           T == BitsOf(m)
<1>1. FromBits(S) = c /\ T \subseteq AllBits
  BY ValuesAreWords DEF BitsOf
<1>2. Or(c, m) = FromBits(S \cup T) /\ And(m, Complement(c)) = FromBits(T \cap (AllBits \ S))
  BY BitsOfThese DEF Or, And
<1> HIDE DEF S, T
<1>3. S \cup (T \cap (AllBits \ S)) = S \cup T /\ S \cap (T \cap (AllBits \ S)) \cap AllBits = {}
  BY <1>1
<1>4. FromBits(S \cup (T \cap (AllBits \ S))) = FromBits(S) + FromBits(T \cap (AllBits \ S))
  BY <1>3, SumOfTwo
<1> QED BY <1>1, <1>2, <1>3, <1>4

LEMMA ClearingTakes ==
    ASSUME NEW c \in Values, NEW v, BitsOf(c) \subseteq BitsOf(CsrMask)
    PROVE  And(c, Complement(v)) = c - And(And(v, CsrMask), c)
<1> DEFINE S == BitsOf(c)
           T == BitsOf(v)
<1>1. FromBits(S) = c /\ S \subseteq AllBits
  BY ValuesAreWords DEF BitsOf
<1>2. And(c, Complement(v)) = FromBits(S \cap (AllBits \ T))
  BY BitsOfThese DEF And
<1>3. And(And(v, CsrMask), c) = FromBits((T \cap BitsOf(CsrMask)) \cap S)
  <2>1. And(v, CsrMask) = FromBits(T \cap BitsOf(CsrMask))
    BY DEF And
  <2>2. And(And(v, CsrMask), c) = FromBits(BitsOf(And(v, CsrMask)) \cap S)
    BY DEF And
  <2>3. BitsOf(And(v, CsrMask)) = T \cap BitsOf(CsrMask)
    BY BitsOfThese
  <2> QED BY <2>2, <2>3
<1>4. S \subseteq BitsOf(CsrMask)
  OBVIOUS
<1> HIDE DEF S, T
<1>5. S \cap (AllBits \ T) = S \ T /\ (T \cap BitsOf(CsrMask)) \cap S = S \cap T
  BY <1>1, <1>4
<1>6. FromBits(S) = FromBits(S \ T) + FromBits(S \cap T)
  BY SumOfParts
<1>7. FromBits(S \ T) \in Int /\ FromBits(S \cap T) \in Int
  BY SumInValues DEF Values
<1>8. And(c, Complement(v)) = FromBits(S \ T)
  BY <1>2, <1>5, Zenon
<1>9. And(And(v, CsrMask), c) = FromBits(S \cap T)
  BY <1>3, <1>5, Zenon
<1> QED BY <1>1, <1>6, <1>7, <1>8, <1>9

LEMMA MaskKeeps == ASSUME NEW c \in {0, CsrMask}
    PROVE c \in Values /\ BitsOf(c) \subseteq BitsOf(CsrMask) /\ And(c, CsrMask) = c
<1>1. 0 \in Values /\ CsrMask \in Values
  BY InstructionAssumption, TwoTypes, WidthIsEnough DEF Values
<1>2. BitsOf(0) = {}
  <2>1. ASSUME NEW k \in AllBits PROVE (0 \div Two[k]) % 2 # 1
    <3>1. k \in 0..2*Width
      BY WidthIsEnough DEF AllBits
    <3>2. Two[k] \in Nat \ {0}
      BY <3>1, TwoTypes
    <3>3. 0 \div Two[k] = 0
      BY <3>2
    <3> QED BY <3>3
  <2> QED BY <2>1 DEF BitsOf
<1>3. BitsOf(c) \cap BitsOf(CsrMask) = BitsOf(c)
  BY <1>2
<1>4. And(c, CsrMask) = c
  BY <1>1, <1>3, ValuesAreWords DEF And
<1> QED BY <1>1, <1>2, <1>4

-----------------------------------------------------------------------------
(* One instruction, by its operation.                                         *)
Stays == UNCHANGED <<ram, csr, code, before, crashed>>
LEMMA OperateStep ==
    ASSUME InstructionNext, NEW op \in Operations, NEW d, NEW a, NEW b, Instr = <<op, d, a, b>>
    PROVE  /\ ~crashed /\ UNCHANGED <<ram, csr, code, before>>
           /\ IF HostTraps(op, x[a], x[b]) THEN crashed'
              ELSE x' = Put(d, Result(op, x[a], x[b])) /\ at' = at + 1 /\ ~crashed'
<1>1. Instr[1] = op /\ Instr[2] = d /\ Instr[3] = a /\ Instr[4] = b
  OBVIOUS
<1>2. Operate
  BY <1>1 DEF InstructionNext, Operations, Branches, AddImmediate, LoadUpper, Branch, Jump, Load,
     StoreTo, AccessCsr
<1> HIDE DEF Instr
<1>3. ~crashed /\ UNCHANGED <<code, before>>
  BY DEF InstructionNext, Running
<1> QED BY <1>1, <1>2, <1>3 DEF Operate, Advance

LEMMA AddStep ==
    ASSUME InstructionNext, NEW d, NEW a, NEW b, Instr = <<"addi", d, a, b>>
    PROVE  ~crashed /\ Stays /\ x' = Put(d, Wrapped(x[a] + Signed(b, LowBits))) /\ at' = at + 1
<1>1. Instr[1] = "addi" /\ Instr[2] = d /\ Instr[3] = a /\ Instr[4] = b
  OBVIOUS
<1>2. AddImmediate
  BY <1>1 DEF InstructionNext, Operations, Branches, Operate, LoadUpper, Branch, Jump, Load, StoreTo,
     AccessCsr
<1>3. ~crashed /\ UNCHANGED <<code, before>>
  BY DEF InstructionNext, Running
<1> QED BY <1>1, <1>2, <1>3 DEF AddImmediate, Advance, Stays

LEMMA UpperStep ==
    ASSUME InstructionNext, NEW op \in {"lui", "auipc"}, NEW d, NEW a, NEW b, Instr = <<op, d, a, b>>
    PROVE  ~crashed /\ Stays /\ at' = at + 1
           /\ x' = Put(d, Wrapped(b * Two[LowBits] + IF op = "auipc" THEN at ELSE 0))
<1>1. Instr[1] = op /\ Instr[2] = d /\ Instr[3] = a /\ Instr[4] = b
  OBVIOUS
<1>2. LoadUpper
  BY <1>1 DEF InstructionNext, Operations, Branches, Operate, AddImmediate, Branch, Jump, Load,
     StoreTo, AccessCsr
<1>3. ~crashed /\ UNCHANGED <<code, before>>
  BY DEF InstructionNext, Running
<1> QED BY <1>1, <1>2, <1>3 DEF LoadUpper, Advance, Stays

LEMMA BranchStep ==
    ASSUME InstructionNext, NEW op \in Branches, NEW a, NEW b, NEW d, Instr = <<op, a, b, d>>
    PROVE  ~crashed /\ Stays /\ UNCHANGED x /\ at' = IF Taken(op, x[a], x[b]) THEN at + d ELSE at + 1
<1>1. Instr[1] = op /\ Instr[2] = a /\ Instr[3] = b /\ Instr[4] = d
  OBVIOUS
<1>2. Branch
  BY <1>1 DEF InstructionNext, Operations, Branches, Operate, AddImmediate, LoadUpper, Jump, Load,
     StoreTo, AccessCsr
<1>3. ~crashed /\ UNCHANGED <<code, before>>
  BY DEF InstructionNext, Running
<1> QED BY <1>1, <1>2, <1>3 DEF Branch, Stays

LEMMA JumpStep ==
    ASSUME InstructionNext, NEW op \in {"jal", "jalr"}, NEW d, NEW a, NEW b, Instr = <<op, d, a, b>>
    PROVE  ~crashed /\ Stays /\ x' = Put(d, at + 1)
           /\ at' = IF op = "jal" THEN at + b ELSE Wrapped(x[a] + Signed(b, LowBits))
<1>1. Instr[1] = op /\ Instr[2] = d /\ Instr[3] = a /\ Instr[4] = b
  OBVIOUS
<1>2. Jump
  BY <1>1 DEF InstructionNext, Operations, Branches, Operate, AddImmediate, LoadUpper, Branch, Load,
     StoreTo, AccessCsr
<1>3. ~crashed /\ UNCHANGED <<code, before>>
  BY DEF InstructionNext, Running
<1> QED BY <1>1, <1>2, <1>3 DEF Jump, Stays

LEMMA LoadStep ==
    ASSUME InstructionNext, NEW op \in {"lb", "lbu", "lh", "lhu", "lw"}, NEW d, NEW a, NEW b,
           Instr = <<op, d, a, b>>
    PROVE  ~crashed /\ Stays /\ x' = Put(d, Loaded(op, x[a] + b)) /\ at' = at + 1
<1>1. Instr[1] = op /\ Instr[2] = d /\ Instr[3] = a /\ Instr[4] = b
  OBVIOUS
<1>2. Load
  BY <1>1 DEF InstructionNext, Operations, Branches, Operate, AddImmediate, LoadUpper, Branch, Jump,
     StoreTo, AccessCsr
<1>3. ~crashed /\ UNCHANGED <<code, before>>
  BY DEF InstructionNext, Running
<1> QED BY <1>1, <1>2, <1>3 DEF Load, Advance, Stays

LEMMA StoreStep ==
    ASSUME InstructionNext, NEW op \in {"sb", "sh", "sw"}, NEW d, NEW a, NEW b, Instr = <<op, d, a, b>>
    PROVE  ~crashed /\ UNCHANGED <<x, csr, code, before, crashed>> /\ at' = at + 1
           /\ ram' = Stored8(op, x[a] + b, x[d])
<1>1. Instr[1] = op /\ Instr[2] = d /\ Instr[3] = a /\ Instr[4] = b
  OBVIOUS
<1>2. StoreTo
  BY <1>1 DEF InstructionNext, Operations, Branches, Operate, AddImmediate, LoadUpper, Branch, Jump,
     Load, AccessCsr
<1>3. ~crashed /\ UNCHANGED <<code, before>>
  BY DEF InstructionNext, Running
<1> QED BY <1>1, <1>2, <1>3 DEF StoreTo, Advance

ByRegister == {"csrrw", "csrrs", "csrrc"}
LEMMA CsrStep ==
    ASSUME InstructionNext, NEW op \in ByRegister \cup {"csrrwi", "csrrsi", "csrrci"},
           NEW d, d # 0, NEW a, NEW b, Instr = <<op, d, a, b>>
    PROVE  ~crashed /\ UNCHANGED <<ram, code, before, crashed>> /\ at' = at + 1
           /\ x' = Put(d, csr) /\ csr' = CsrChanged(op, IF op \in ByRegister THEN x[a] ELSE b)
<1>1. Instr[1] = op /\ Instr[2] = d /\ Instr[3] = a /\ Instr[4] = b
  OBVIOUS
<1>2. AccessCsr
  BY <1>1 DEF InstructionNext, Operations, Branches, Operate, AddImmediate, LoadUpper, Branch, Jump,
     Load, StoreTo, ByRegister
<1>3. ~crashed /\ UNCHANGED <<code, before>>
  BY DEF InstructionNext, Running
<1> QED BY <1>1, <1>2, <1>3 DEF AccessCsr, Advance, ByRegister

-----------------------------------------------------------------------------
(* What each of the sequences has computed when it is at one of its           *)
(* instructions.                                                              *)
Fixed ==
    /\ x = [r \in 0..4 |-> x[r]] /\ x[0] = 0 /\ x[1] \in Values /\ x[2] \in Values

TwoOps(op1, op2, r, s) == <<<<op1, 3, 1, 2>>, <<op2, 4, r, s>>>>
TwoOpsDone(op1, op2, r, s) ==
    /\ Fixed /\ at \in 0..2
    /\ at >= 1 => x[3] = Result(op1, x[1], x[2]) /\ ~HostTraps(op1, x[1], x[2])
    /\ at = 2 => x[4] = Result(op2, x[r], x[s])
LoadsDone(v) ==
    /\ Fixed /\ at \in 0..2
    /\ at = 1 => x[3] = Wrapped(Upper(v) * Two[LowBits] + 0)
    /\ at = 2 => x[3] = Wrapped(Wrapped(Upper(v) * Two[LowBits] + 0) + Signed(Lower(v), LowBits))
TestDone(op, branch) ==
    /\ Fixed /\ at \in 0..3
    /\ at >= 1 => x[3] = Result(op, x[1], x[2])
    /\ at <= 2 => x[4] = 0
    /\ at = 2 => ~Taken(branch, x[1], x[2])
    /\ at = 3 => x[4] = IF Taken(branch, x[1], x[2]) THEN 0 ELSE 1
NearDone ==
    /\ Fixed
    /\ \/ at = 0
       \/ at = 2 /\ x[4] = 1
       \/ at \in {1, 3, 4} /\ x[3] = 1 /\ x[4] = 1
FarDone ==
    /\ Fixed
    /\ \/ at = 0
       \/ at = 1 /\ x[3] = Wrapped(Upper(3) * Two[LowBits] + 0)
       \/ at = 2 /\ x[3] = 3
       \/ at = 4 /\ x[4] = 3
       \/ at \in {3, 5, 6} /\ x[3] = 1 /\ x[4] = 3
RamIs == ram = [k \in 0..3 |-> ram[k]]
BytesDone(load) ==
    /\ Fixed /\ RamIs /\ at \in 0..3
    /\ at >= 1 => ram[0] = x[1] % Two[Byte]
    /\ at >= 2 => ram[1] = x[2] % Two[Byte]
    /\ at = 3 => x[3] = Loaded(load, 0)
WordsDone(load) ==
    /\ Fixed /\ RamIs /\ at \in 0..4
    /\ at >= 1 => ram[0] = x[1] % Two[Byte] /\ ram[1] = (x[1] \div Two[Byte]) % Two[Byte]
    /\ at >= 2 => ram[2] = x[2] % Two[Byte] /\ ram[3] = (x[2] \div Two[Byte]) % Two[Byte]
    /\ at >= 3 => x[3] = Loaded("lw", 0)
    /\ at = 4 => x[4] = Loaded(load, 2)
Changed(op, c, v) ==
    CASE op \in {"csrrw", "csrrwi"} -> And(v, CsrMask)
      [] op \in {"csrrs", "csrrsi"} -> Or(c, And(v, CsrMask))
      [] op \in {"csrrc", "csrrci"} -> And(c, Complement(v))
CsrDone(op, v) ==
    /\ Fixed /\ at \in 0..2 /\ before \in {0, CsrMask}
    /\ at = 0 => csr = before
    /\ at = 1 => csr = Changed(op, before, v)
    /\ at >= 1 => x[3] = before
    /\ at = 2 => csr = And(before, CsrMask) /\ x[4] = Changed(op, before, v)

(* As long as the sequence c is executed, done describes the registers.       *)
Going(c, done) == code = c /\ ~crashed => done
InstructionInductive ==
    /\ \A op1, op2 \in Operations, r, s \in {1, 2, 3} :
          Going(TwoOps(op1, op2, r, s), TwoOpsDone(op1, op2, r, s))
    /\ \A v \in Values : Going(Li(v), LoadsDone(v))
    /\ \A op \in Operations, b \in Branches : Going(Test(op, b), TestDone(op, b))
    /\ (code = Call1 => NearDone) /\ (code = CallFar => FarDone)
    /\ \A load \in {"lh", "lhu"} : Going(ByteWise(load), BytesDone(load))
    /\ \A load \in {"lh", "lb", "lbu"} : Going(WordWise(load), WordsDone(load))
    /\ \A op \in {"csrrs", "csrrc"} : Going(Masked(op), CsrDone(op, x[1]))
    /\ \A op \in {"csrrsi", "csrrci", "csrrwi"}, u \in Uimms : Going(WithUimm(op, u), CsrDone(op, u))

LEMMA PutKeeps ==
    ASSUME Fixed, NEW d \in {0, 3, 4}, NEW v, x' = Put(d, v)
    PROVE  /\ Fixed' /\ (d # 0 => x'[d] = v) /\ x'[1] = x[1] /\ x'[2] = x[2]
           /\ (d # 3 => x'[3] = x[3]) /\ (d # 4 => x'[4] = x[4])
<1>1. x' = IF d = 0 THEN x ELSE [r \in 0..4 |-> IF r = d THEN v ELSE x[r]]
  BY DEF Put, Fixed
<1> QED BY <1>1 DEF Fixed, Values

LEMMA InstructionsStart == InstructionInit => InstructionInductive
<1> SUFFICES ASSUME InstructionInit PROVE InstructionInductive
  OBVIOUS
<1>1. PICK a \in Values, b \in Values : x = [r \in 0..4 |-> CASE r = 1 -> a [] r = 2 -> b [] OTHER -> 0]
  BY DEF InstructionInit
<1>2. Fixed /\ x[3] = 0 /\ x[4] = 0
  BY <1>1 DEF Fixed
<1>3. at = 0 /\ csr = before /\ before \in {0, CsrMask} /\ RamIs
  BY DEF InstructionInit, RamIs
<1>4. \A op1, op2, r, s : TwoOpsDone(op1, op2, r, s)
  BY <1>2, <1>3 DEF TwoOpsDone
<1>5. \A v : LoadsDone(v)
  BY <1>2, <1>3 DEF LoadsDone
<1>6. \A op, br : TestDone(op, br)
  BY <1>2, <1>3 DEF TestDone
<1>7. NearDone /\ FarDone
  BY <1>2, <1>3 DEF NearDone, FarDone
<1>8. \A load : BytesDone(load) /\ WordsDone(load)
  BY <1>2, <1>3 DEF BytesDone, WordsDone
<1>9. \A op, v : CsrDone(op, v)
  BY <1>2, <1>3 DEF CsrDone
<1> QED BY <1>4, <1>5, <1>6, <1>7, <1>8, <1>9 DEF InstructionInductive, Going

LEMMA RunningIs == ASSUME InstructionNext PROVE at < Len(code) /\ ~crashed /\ code' = code /\ before' = before
  BY DEF InstructionNext, Running

LEMMA TwoOpsKeep ==
    ASSUME InstructionNext, NEW op1 \in Operations, NEW op2 \in Operations, NEW r \in {1, 2, 3},
           NEW s \in {1, 2, 3},
           Going(TwoOps(op1, op2, r, s), TwoOpsDone(op1, op2, r, s))
    PROVE  Going(TwoOps(op1, op2, r, s), TwoOpsDone(op1, op2, r, s))'
<1> SUFFICES ASSUME code = TwoOps(op1, op2, r, s), ~crashed' PROVE TwoOpsDone(op1, op2, r, s)'
  BY RunningIs DEF Going, TwoOps
<1>1. TwoOpsDone(op1, op2, r, s) /\ at \in {0, 1}
  <2>1. at < 2
    BY RunningIs DEF TwoOps
  <2> QED BY <2>1, RunningIs DEF Going, TwoOpsDone
<1>2. CASE at = 0
  <2>1. Instr = <<op1, 3, 1, 2>>
    BY <1>2 DEF Instr, TwoOps
  <2>2. x' = Put(3, Result(op1, x[1], x[2])) /\ at' = 1 /\ ~HostTraps(op1, x[1], x[2])
    BY <1>2, <2>1, OperateStep
  <2>3. Fixed' /\ x'[3] = Result(op1, x[1], x[2]) /\ x'[1] = x[1] /\ x'[2] = x[2]
    BY <1>1, <2>2, PutKeeps DEF TwoOpsDone
  <2> QED BY <2>2, <2>3 DEF TwoOpsDone
<1>3. CASE at = 1
  <2>1. Instr = <<op2, 4, r, s>>
    BY <1>3 DEF Instr, TwoOps
  <2>2. x' = Put(4, Result(op2, x[r], x[s])) /\ at' = 2
    BY <1>3, <2>1, OperateStep
  <2>3. Fixed' /\ x'[4] = Result(op2, x[r], x[s]) /\ x'[1] = x[1] /\ x'[2] = x[2] /\ x'[3] = x[3]
    BY <1>1, <2>2, PutKeeps DEF TwoOpsDone
  <2> QED BY <1>1, <1>3, <2>2, <2>3 DEF TwoOpsDone
<1> QED BY <1>1, <1>2, <1>3

LEMMA LoadsKeep ==
    ASSUME InstructionNext, NEW v, Going(Li(v), LoadsDone(v))
    PROVE  Going(Li(v), LoadsDone(v))'
<1> SUFFICES ASSUME code = Li(v), ~crashed' PROVE LoadsDone(v)'
  BY RunningIs DEF Going, Li, Lower, Upper
<1>1. LoadsDone(v) /\ at \in {0, 1}
  <2>1. at < 2
    BY RunningIs DEF Li
  <2> QED BY <2>1, RunningIs DEF Going, LoadsDone
<1>2. CASE at = 0
  <2>1. Instr = <<"lui", 3, 0, Upper(v)>>
    BY <1>2 DEF Instr, Li
  <2>2. x' = Put(3, Wrapped(Upper(v) * Two[LowBits] + 0)) /\ at' = 1
    BY <1>2, <2>1, UpperStep
  <2>3. Fixed' /\ x'[3] = Wrapped(Upper(v) * Two[LowBits] + 0)
    BY <1>1, <2>2, PutKeeps DEF LoadsDone
  <2> QED BY <2>2, <2>3 DEF LoadsDone
<1>3. CASE at = 1
  <2>1. Instr = <<"addi", 3, 3, Lower(v)>>
    BY <1>3 DEF Instr, Li
  <2>2. x' = Put(3, Wrapped(x[3] + Signed(Lower(v), LowBits))) /\ at' = 2
    BY <1>3, <2>1, AddStep
  <2>3. Fixed' /\ x'[3] = Wrapped(x[3] + Signed(Lower(v), LowBits))
    BY <1>1, <2>2, PutKeeps DEF LoadsDone
  <2> QED BY <1>1, <1>3, <2>2, <2>3 DEF LoadsDone
<1> QED BY <1>1, <1>2, <1>3

LEMMA SmallPowers == Two[0] = 1 /\ Two[1] = 2 /\ Two[2] = 4 /\ Two[3] = 8 /\ Two[4] = 16
<1>1. 0 \in 0..2*Width-1 /\ 1 \in 0..2*Width-1 /\ 2 \in 0..2*Width-1 /\ 3 \in 0..2*Width-1
  BY InstructionAssumption
<1>2. Two[0+1] = 2 * Two[0] /\ Two[1+1] = 2 * Two[1] /\ Two[2+1] = 2 * Two[2] /\ Two[3+1] = 2 * Two[3]
  BY <1>1, TwoIs DEF TwoGrows
<1> QED BY <1>2, TwoIs DEF TwoGrows

LEMMA SmallWords ==
    /\ \A n \in 0..7 : n \in Values /\ Wrapped(n) = n
    /\ Two[LowBits] \in Nat /\ Two[LowBits] >= 4 /\ Two[LowBits] = 2 * Two[LowBits-1]
    /\ Signed(0, LowBits) = 0 /\ Signed(1, LowBits) = 1
<1>1. /\ 2 \in 0..2*Width /\ LowBits - 2 \in 0..2*Width /\ Width - 4 \in 0..2*Width
      /\ LowBits - 2 \in Nat /\ Width - 4 \in Nat
      /\ 2 + (LowBits - 2) = LowBits /\ 4 + (Width - 4) = Width /\ LowBits <= 2*Width /\ Width <= 2*Width
      /\ LowBits - 1 \in 0..2*Width-1 /\ (LowBits - 1) + 1 = LowBits /\ LowBits - 1 \in 0..2*Width
  BY InstructionAssumption
<1>2. Two[1] = 2 /\ Two[2] = 4 /\ Two[3] = 8 /\ Two[4] = 16
  BY SmallPowers
<1>3. Two[2 + (LowBits - 2)] = Two[2] * Two[LowBits - 2]
  BY <1>1, TwoAdds
<1>4. Two[4 + (Width - 4)] = Two[4] * Two[Width - 4]
  BY <1>1, TwoAdds
<1>5. Two[LowBits - 2] \in Nat \ {0} /\ Two[Width - 4] \in Nat \ {0} /\ Two[LowBits - 1] \in Nat \ {0}
  BY <1>1, TwoTypes
<1>6. Two[LowBits] = 4 * Two[LowBits - 2] /\ Two[Width] = 16 * Two[Width - 4]
  BY <1>1, <1>2, <1>3, <1>4
<1>7. Two[LowBits] = 2 * Two[LowBits - 1]
  <2>1. Two[(LowBits - 1) + 1] = 2 * Two[LowBits - 1]
    BY <1>1, TwoIs DEF TwoGrows
  <2> QED BY <1>1, <2>1
<1>8. Two[LowBits] >= 4 /\ Two[LowBits - 1] >= 2 /\ Two[Width] >= 16 /\ Two[Width] \in Nat
      /\ Two[LowBits] \in Nat
  BY <1>5, <1>6, <1>7
<1>9. \A n \in 0..7 : n \in Values /\ Wrapped(n) = n
  BY <1>8 DEF Values, Wrapped
<1>10. Signed(0, LowBits) = 0 /\ Signed(1, LowBits) = 1
  BY <1>5, <1>8 DEF Signed
<1> QED BY <1>7, <1>8, <1>9, <1>10

LEMMA TestKeeps ==
    ASSUME InstructionNext, NEW op \in Operations, NEW b \in Branches, Going(Test(op, b), TestDone(op, b))
    PROVE  Going(Test(op, b), TestDone(op, b))'
<1> SUFFICES ASSUME code = Test(op, b), ~crashed' PROVE TestDone(op, b)'
  BY RunningIs DEF Going, Test
<1>1. TestDone(op, b) /\ at \in {0, 1, 2}
  <2>1. at < 3
    BY RunningIs DEF Test
  <2> QED BY <2>1, RunningIs DEF Going, TestDone
<1>2. CASE at = 0
  <2>1. Instr = <<op, 3, 1, 2>>
    BY <1>2 DEF Instr, Test
  <2>2. x' = Put(3, Result(op, x[1], x[2])) /\ at' = 1
    BY <1>2, <2>1, OperateStep
  <2>3. Fixed' /\ x'[3] = Result(op, x[1], x[2]) /\ x'[1] = x[1] /\ x'[2] = x[2] /\ x'[4] = x[4]
    BY <1>1, <2>2, PutKeeps DEF TestDone
  <2> QED BY <1>1, <1>2, <2>2, <2>3 DEF TestDone
<1>3. CASE at = 1
  <2>1. Instr = <<b, 1, 2, 2>>
    BY <1>3 DEF Instr, Test
  <2>2. x' = x /\ at' = IF Taken(b, x[1], x[2]) THEN 3 ELSE 2
    BY <1>3, <2>1, BranchStep
  <2> QED BY <1>1, <1>3, <2>2 DEF TestDone, Fixed
<1>4. CASE at = 2
  <2>1. Instr = <<"addi", 4, 0, 1>>
    BY <1>4 DEF Instr, Test
  <2>2. x' = Put(4, Wrapped(x[0] + Signed(1, LowBits))) /\ at' = 3
    BY <1>4, <2>1, AddStep
  <2>3. Wrapped(x[0] + Signed(1, LowBits)) = 1
    BY <1>1, SmallWords DEF TestDone, Fixed
  <2>4. Fixed' /\ x'[4] = 1 /\ x'[1] = x[1] /\ x'[2] = x[2] /\ x'[3] = x[3]
    BY <1>1, <2>2, <2>3, PutKeeps DEF TestDone
  <2> QED BY <1>1, <1>4, <2>2, <2>4 DEF TestDone
<1> QED BY <1>1, <1>2, <1>3, <1>4

(* Numbers that differ by a multiple have the same remainder.                 *)
LEMMA SameRest ==
    ASSUME NEW n \in Int, NEW d \in Nat \ {0}, NEW k \in Int
    PROVE  (n + d * k) % d = n % d
<1> DEFINE q == n \div d
           r == n % d
<1>1. q \in Int /\ r \in 0..d-1 /\ n = d * q + r
  BY DividedIs
<1> HIDE DEF q, r
<1>2. Splits(n + d * k, d, q + k, r)
  BY <1>1 DEF Splits
<1>3. (n + d * k) % d = r
  BY <1>2, DivModIs
<1> QED BY <1>3 DEF r

WordSize == Two[Width]
LEMMA WordSizeIs ==
    /\ WordSize \in Nat \ {0} /\ WordSize >= 16 /\ Values = 0..WordSize-1
    /\ \A n : Wrapped(n) = n % WordSize
    /\ WordSize = 2 * Two[Width-1] /\ Two[Width-1] \in Nat \ {0}
<1>1. WordSize \in Nat \ {0}
  BY TwoTypes, WidthIsEnough DEF WordSize
<1>2. 7 \in Values
  BY SmallWords
<1>3. Two[(Width - 1) + 1] = 2 * Two[Width - 1] /\ (Width - 1) + 1 = Width
  BY TwoIs, WidthIsEnough DEF TwoGrows
<1>4. Two[Width - 1] \in Nat \ {0}
  <2>1. Width - 1 \in 0..2*Width
    BY WidthIsEnough
  <2> QED BY <2>1, TwoTypes
<1>5. WordSize >= 16
  <2>1. 4 + (Width - 4) = Width /\ 4 \in Nat /\ Width - 4 \in Nat /\ Width <= 2 * Width
        /\ Width - 4 \in 0..2*Width
    BY WidthIsEnough
  <2>2. Two[4 + (Width - 4)] = Two[4] * Two[Width - 4] /\ Two[Width - 4] \in Nat \ {0}
    BY <2>1, TwoAdds, TwoTypes
  <2>3. Two[4] = 16
    BY SmallPowers
  <2> QED BY <2>1, <2>2, <2>3 DEF WordSize
<1> QED BY <1>1, <1>3, <1>4, <1>5 DEF WordSize, Values, Wrapped

LEMMA WrappedIs ==
    ASSUME NEW n \in Int
    PROVE  /\ Wrapped(n) \in Values /\ (n \in Values => Wrapped(n) = n)
           /\ \E k \in Int : n = Wrapped(n) + WordSize * k
<1>1. n = WordSize * (n \div WordSize) + (n % WordSize) /\ n \div WordSize \in Int
      /\ n % WordSize \in 0..WordSize-1
  <2>1. WordSize \in Nat \ {0}
    BY WordSizeIs
  <2> QED BY <2>1, DividedIs, Zenon
<1>2. Wrapped(n) = n % WordSize /\ Values = 0..WordSize-1
  BY WordSizeIs, Zenon
<1>3. ASSUME n \in 0..WordSize-1 PROVE n % WordSize = n
  <2>1. WordSize \in Nat \ {0}
    BY WordSizeIs
  <2>2. Splits(n, WordSize, 0, n)
    BY <1>3, <2>1 DEF Splits
  <2> QED BY <2>2, DivModIs, Zenon
<1>4. n = (n % WordSize) + WordSize * (n \div WordSize)
  <2>1. PICK w \in Int : w = WordSize * (n \div WordSize)
    <3>1. WordSize \in Int
      BY WordSizeIs
    <3> QED BY <3>1, <1>1
  <2> QED BY <2>1, <1>1
<1> QED BY <1>1, <1>2, <1>3, <1>4, Zenon

LEMMA WrapsOnce ==
    ASSUME NEW n \in Int, NEW c \in Int
    PROVE  Wrapped(Wrapped(n) + c) = Wrapped(n + c)
<1>1. PICK k \in Int : n = Wrapped(n) + WordSize * k
  BY WrappedIs
<1>2. Wrapped(n) \in Int
  BY WrappedIs, WordSizeIs
<1>3. n + c = (Wrapped(n) + c) + WordSize * k
  <2>1. PICK w \in Int : w = WordSize * k
    BY WordSizeIs
  <2>2. n = Wrapped(n) + w
    BY <1>1, <2>1
  <2>3. n + c = (Wrapped(n) + c) + w
    BY <1>2, <2>2
  <2> QED BY <2>1, <2>3
<1>4. ((Wrapped(n) + c) + WordSize * k) % WordSize = (Wrapped(n) + c) % WordSize
  <2>1. Wrapped(n) + c \in Int
    BY <1>2
  <2> QED BY <2>1, SameRest, WordSizeIs
<1> QED BY <1>3, <1>4, WordSizeIs

LEMMA OneMore == \A a, b \in Int : (a + 1) * b = b * a + b
  OBVIOUS
LEMMA UpperIs ==
    ASSUME NEW v \in Nat
    PROVE  Upper(v) \in Nat /\ Signed(Lower(v), LowBits) \in Int
           /\ Upper(v) * Two[LowBits] = v - Signed(Lower(v), LowBits)
<1> DEFINE l == v % Two[LowBits]
           q == v \div Two[LowBits]
<1>1. PICK big, h \in Nat : big = Two[LowBits] /\ h = Two[LowBits-1] /\ big = 2 * h /\ h > 0
  <2>1. Two[LowBits] \in Nat /\ Two[LowBits] >= 4 /\ Two[LowBits] = 2 * Two[LowBits-1]
    BY SmallWords
  <2>2. LowBits - 1 \in 0..2*Width
    BY InstructionAssumption
  <2>3. Two[LowBits-1] \in Nat
    BY <2>2, TwoTypes
  <2> QED BY <2>1, <2>3
<1>2. l \in 0..big-1 /\ q \in Nat /\ v = big * q + l
  <2>1. l = v % big /\ q = v \div big
    BY <1>1
  <2>2. big \in Nat \ {0} /\ v \in Int
    BY <1>1
  <2>3. v \div big \in Int /\ v % big \in 0..big-1 /\ v = big * (v \div big) + (v % big) /\ v \div big \in Nat
    BY <2>2, DividedIs
  <2> HIDE DEF l, q
  <2> QED BY <2>1, <2>3
<1>3. Signed(Lower(v), LowBits) = IF l < h THEN l ELSE l - big
  BY <1>1 DEF Signed, Lower
<1> HIDE DEF l, q
<1>4. CASE l < h
  <2>1. Splits(v + h, big, q, l + h)
    BY <1>1, <1>2, <1>4 DEF Splits
  <2>2. Upper(v) = q
    BY <1>1, <2>1, DivModIs DEF Upper
  <2> QED BY <1>1, <1>2, <1>3, <1>4, <2>2
<1>5. CASE ~(l < h)
  <2>1. Splits(v + h, big, q + 1, l - h)
    BY <1>1, <1>2, <1>5 DEF Splits
  <2>2. Upper(v) = q + 1
    BY <1>1, <2>1, DivModIs DEF Upper
  <2>3. (q + 1) * big = big * q + big
    <3>1. q \in Int /\ big \in Int
      BY <1>1, <1>2
    <3> QED BY <3>1, OneMore, Zenon
  <2> QED BY <1>1, <1>2, <1>3, <1>5, <2>2, <2>3
<1> QED BY <1>4, <1>5

LEMMA ConstantIs ==
    ASSUME NEW v \in Values
    PROVE  Wrapped(Wrapped(Upper(v) * Two[LowBits] + 0) + Signed(Lower(v), LowBits)) = v
<1>1. v \in Nat
  BY WordSizeIs
<1>2. PICK m \in Int, c \in Int : m = Upper(v) * Two[LowBits] + 0 /\ c = Signed(Lower(v), LowBits)
           /\ m + c = v
  <2>1. Upper(v) * Two[LowBits] \in Int
    BY <1>1, UpperIs, SmallWords
  <2> QED BY <1>1, <2>1, UpperIs
<1>3. Wrapped(Wrapped(m) + c) = Wrapped(m + c)
  BY WrapsOnce
<1> QED BY <1>1, <1>2, <1>3, WrappedIs

LEMMA NearKeeps == ASSUME InstructionNext, code = Call1, NearDone PROVE NearDone'
<1>1. at \in {0, 1, 2, 3} /\ Fixed
  <2>1. at < 4
    BY RunningIs DEF Call1
  <2> QED BY <2>1 DEF NearDone
<1>2. CASE at = 0
  <2>1. Instr = <<"jal", 4, 0, 2>>
    BY <1>2 DEF Instr, Call1
  <2>2. x' = Put(4, 1) /\ at' = 2
    BY <1>2, <2>1, JumpStep
  <2>3. Fixed' /\ x'[4] = 1
    BY <1>1, <2>2, PutKeeps
  <2> QED BY <2>2, <2>3 DEF NearDone
<1>3. CASE at = 1
  <2>1. Instr = <<"jal", 0, 0, 3>>
    BY <1>3 DEF Instr, Call1
  <2>2. x' = Put(0, 2) /\ at' = 4
    BY <1>3, <2>1, JumpStep
  <2>3. Fixed' /\ x'[4] = x[4] /\ x'[3] = x[3]
    BY <1>1, <2>2, PutKeeps
  <2> QED BY <1>3, <2>2, <2>3 DEF NearDone
<1>4. CASE at = 2
  <2>1. Instr = <<"addi", 3, 0, 1>>
    BY <1>4 DEF Instr, Call1
  <2>2. x' = Put(3, Wrapped(x[0] + Signed(1, LowBits))) /\ at' = 3
    BY <1>4, <2>1, AddStep
  <2>3. Wrapped(x[0] + Signed(1, LowBits)) = 1
    BY <1>1, SmallWords DEF Fixed
  <2>4. Fixed' /\ x'[3] = 1 /\ x'[4] = x[4]
    BY <1>1, <2>2, <2>3, PutKeeps
  <2> QED BY <1>4, <2>2, <2>4 DEF NearDone
<1>5. CASE at = 3
  <2>1. Instr = <<"jalr", 0, 4, 0>>
    BY <1>5 DEF Instr, Call1
  <2>2. x' = Put(0, 4) /\ at' = Wrapped(x[4] + Signed(0, LowBits))
    BY <1>5, <2>1, JumpStep
  <2>3. at' = 1
    BY <1>5, <2>2, SmallWords DEF NearDone
  <2>4. Fixed' /\ x'[3] = x[3] /\ x'[4] = x[4]
    BY <1>1, <2>2, PutKeeps
  <2> QED BY <1>5, <2>3, <2>4 DEF NearDone
<1> QED BY <1>1, <1>2, <1>3, <1>4, <1>5

LEMMA FarKeeps == ASSUME InstructionNext, code = CallFar, FarDone PROVE FarDone'
<1>1. at \in {0, 1, 2, 3, 4, 5} /\ Fixed
  <2>1. at < 6
    BY RunningIs DEF CallFar
  <2> QED BY <2>1 DEF FarDone
<1>2. CASE at = 0
  <2>1. Instr = <<"auipc", 3, 0, Upper(3)>>
    BY <1>2 DEF Instr, CallFar
  <2>2. x' = Put(3, Wrapped(Upper(3) * Two[LowBits] + 0)) /\ at' = 1
    BY <1>2, <2>1, UpperStep
  <2>3. Fixed' /\ x'[3] = Wrapped(Upper(3) * Two[LowBits] + 0)
    BY <1>1, <2>2, PutKeeps
  <2> QED BY <2>2, <2>3 DEF FarDone
<1>3. CASE at = 1
  <2>1. Instr = <<"addi", 3, 3, Lower(3)>>
    BY <1>3 DEF Instr, CallFar
  <2>2. x' = Put(3, Wrapped(x[3] + Signed(Lower(3), LowBits))) /\ at' = 2
    BY <1>3, <2>1, AddStep
  <2>3. Wrapped(x[3] + Signed(Lower(3), LowBits)) = 3
    <3>1. 3 \in Values
      BY SmallWords
    <3> QED BY <1>3, <3>1, ConstantIs DEF FarDone
  <2>4. Fixed' /\ x'[3] = 3
    BY <1>1, <2>2, <2>3, PutKeeps
  <2> QED BY <2>2, <2>4 DEF FarDone
<1>4. CASE at = 2
  <2>1. Instr = <<"jalr", 4, 3, 1>>
    BY <1>4 DEF Instr, CallFar
  <2>2. x' = Put(4, 3) /\ at' = Wrapped(x[3] + Signed(1, LowBits))
    BY <1>4, <2>1, JumpStep
  <2>3. at' = 4
    BY <1>4, <2>2, SmallWords DEF FarDone
  <2>4. Fixed' /\ x'[4] = 3
    BY <1>1, <2>2, PutKeeps
  <2> QED BY <2>3, <2>4 DEF FarDone
<1>5. CASE at = 3
  <2>1. Instr = <<"jal", 0, 0, 3>>
    BY <1>5 DEF Instr, CallFar
  <2>2. x' = Put(0, 4) /\ at' = 6
    BY <1>5, <2>1, JumpStep
  <2>3. Fixed' /\ x'[4] = x[4] /\ x'[3] = x[3]
    BY <1>1, <2>2, PutKeeps
  <2> QED BY <1>5, <2>2, <2>3 DEF FarDone
<1>6. CASE at = 4
  <2>1. Instr = <<"addi", 3, 0, 1>>
    BY <1>6 DEF Instr, CallFar
  <2>2. x' = Put(3, Wrapped(x[0] + Signed(1, LowBits))) /\ at' = 5
    BY <1>6, <2>1, AddStep
  <2>3. Wrapped(x[0] + Signed(1, LowBits)) = 1
    BY <1>1, SmallWords DEF Fixed
  <2>4. Fixed' /\ x'[3] = 1 /\ x'[4] = x[4]
    BY <1>1, <2>2, <2>3, PutKeeps
  <2> QED BY <1>6, <2>2, <2>4 DEF FarDone
<1>7. CASE at = 5
  <2>1. Instr = <<"jalr", 0, 4, 0>>
    BY <1>7 DEF Instr, CallFar
  <2>2. x' = Put(0, 6) /\ at' = Wrapped(x[4] + Signed(0, LowBits))
    BY <1>7, <2>1, JumpStep
  <2>3. at' = 3
    BY <1>7, <2>2, SmallWords DEF FarDone
  <2>4. Fixed' /\ x'[3] = x[3] /\ x'[4] = x[4]
    BY <1>1, <2>2, PutKeeps
  <2> QED BY <1>7, <2>3, <2>4 DEF FarDone
<1> QED BY <1>1, <1>2, <1>3, <1>4, <1>5, <1>6, <1>7

(* Bytes in the memory.                                                       *)
LEMMA ByteIs == Byte \in Nat \ {0} /\ 4 * Byte = Width /\ Byte * 0 = 0 /\ Byte * 1 = Byte
<1>1. Byte \in Nat \ {0} /\ 4 * Byte = Width
  BY InstructionAssumption DEF Byte
<1> HIDE DEF Byte
<1> QED BY <1>1

LEMMA ByteSize == Two[Byte] \in Nat \ {0}
<1>1. Byte \in 0..2*Width
  <2> HIDE DEF Byte
  <2> QED BY ByteIs
<1> QED BY <1>1, TwoTypes

LEMMA StoredIs ==
    ASSUME RamIs, NEW op \in {"sb", "sh", "sw"}, NEW a \in {0, 1, 2}, NEW v \in Values,
           ram' = Stored8(op, a, v)
    PROVE  /\ RamIs' /\ ram'[a] = v % Two[Byte]
           /\ op # "sb" => ram'[a+1] = (v \div Two[Byte]) % Two[Byte]
           /\ \A k \in 0..3 : k < a \/ k > a + 3 \/ (op = "sb" /\ k > a) => ram'[k] = ram[k]
<1>1. /\ a \in a..a+SizeOf(op)-1 /\ (op # "sb" => a + 1 \in a..a+SizeOf(op)-1)
      /\ \A k \in 0..3 : k < a \/ (op = "sb" /\ k > a) \/ k > a + 3 => k \notin a..a+SizeOf(op)-1
  BY DEF SizeOf
<1>2. a \in 0..3 /\ a + 1 \in 0..3 /\ a - a = 0 /\ (a + 1) - a = 1
  OBVIOUS
<1>3. v \div Two[Byte * (a - a)] = v /\ Two[Byte * ((a + 1) - a)] = Two[Byte]
  <2>1. Byte * (a - a) = 0 /\ Byte * ((a + 1) - a) = Byte
    <3> HIDE DEF Byte
    <3> QED BY <1>2, ByteIs
  <2>2. v \in Nat
    BY WordSizeIs
  <2> HIDE DEF Byte
  <2>3. v \div 1 = v
    BY <2>2
  <2> QED BY <2>1, <2>3, SmallPowers
<1> DEFINE put(k) == (v \div Two[Byte * (k - a)]) % Two[Byte]
<1>4. ram' = [k \in 0..3 |-> IF k \in a..a+SizeOf(op)-1 THEN put(k) ELSE ram[k]]
  BY DEF Stored8
<1>5. put(a) = v % Two[Byte] /\ put(a + 1) = (v \div Two[Byte]) % Two[Byte]
  BY <1>3
<1> HIDE DEF put
<1> QED BY <1>1, <1>2, <1>4, <1>5 DEF RamIs

LoadedStays == \A load \in {"lh", "lhu", "lb", "lbu", "lw"}, a \in {0, 2} : Loaded(load, a)' = Loaded(load, a)
LEMMA LoadsSame == ASSUME UNCHANGED ram PROVE LoadedStays
  BY DEF LoadedStays, Loaded, Assembled

LEMMA BytesKeep ==
    ASSUME InstructionNext, NEW load \in {"lh", "lhu"}, Going(ByteWise(load), BytesDone(load))
    PROVE  Going(ByteWise(load), BytesDone(load))'
<1> SUFFICES ASSUME code = ByteWise(load), ~crashed' PROVE BytesDone(load)'
  BY RunningIs DEF Going, ByteWise
<1>1. BytesDone(load) /\ at \in {0, 1, 2}
  <2>1. at < 3
    BY RunningIs DEF ByteWise
  <2> QED BY <2>1, RunningIs DEF Going, BytesDone
<1>2. CASE at = 0
  <2>1. Instr = <<"sb", 1, 0, 0>>
    BY <1>2 DEF Instr, ByteWise
  <2>2. x' = x /\ at' = 1 /\ ram' = Stored8("sb", x[0] + 0, x[1])
    BY <1>2, <2>1, StoreStep
  <2>3. ram' = Stored8("sb", 0, x[1]) /\ x[1] \in Values
    BY <1>1, <2>2 DEF BytesDone, Fixed
  <2>4. RamIs' /\ ram'[0] = x[1] % Two[Byte]
    BY <1>1, <2>3, StoredIs DEF BytesDone
  <2> QED BY <1>1, <2>2, <2>4 DEF BytesDone, Fixed
<1>3. CASE at = 1
  <2>1. Instr = <<"sb", 2, 0, 1>>
    BY <1>3 DEF Instr, ByteWise
  <2>2. x' = x /\ at' = 2 /\ ram' = Stored8("sb", x[0] + 1, x[2])
    BY <1>3, <2>1, StoreStep
  <2>3. ram' = Stored8("sb", 1, x[2]) /\ x[2] \in Values
    BY <1>1, <2>2 DEF BytesDone, Fixed
  <2>4. RamIs' /\ ram'[1] = x[2] % Two[Byte] /\ ram'[0] = ram[0]
    BY <1>1, <2>3, StoredIs DEF BytesDone
  <2> QED BY <1>1, <1>3, <2>2, <2>4 DEF BytesDone, Fixed
<1>4. CASE at = 2
  <2>1. Instr = <<load, 3, 0, 0>>
    BY <1>4 DEF Instr, ByteWise
  <2>2. x' = Put(3, Loaded(load, x[0] + 0)) /\ at' = 3 /\ ram' = ram
    BY <1>4, <2>1, LoadStep DEF Stays
  <2>3. x' = Put(3, Loaded(load, 0)) /\ Loaded(load, 0)' = Loaded(load, 0)
    BY <1>1, <2>2, LoadsSame DEF BytesDone, Fixed, LoadedStays
  <2>4. Fixed' /\ x'[3] = Loaded(load, 0) /\ x'[1] = x[1] /\ x'[2] = x[2]
    BY <1>1, <2>3, PutKeeps DEF BytesDone
  <2> QED BY <1>1, <1>4, <2>2, <2>3, <2>4 DEF BytesDone, RamIs
<1> QED BY <1>1, <1>2, <1>3, <1>4

LEMMA WordsKeep ==
    ASSUME InstructionNext, NEW load \in {"lh", "lb", "lbu"}, Going(WordWise(load), WordsDone(load))
    PROVE  Going(WordWise(load), WordsDone(load))'
<1> SUFFICES ASSUME code = WordWise(load), ~crashed' PROVE WordsDone(load)'
  BY RunningIs DEF Going, WordWise
<1>1. WordsDone(load) /\ at \in {0, 1, 2, 3}
  <2>1. at < 4
    BY RunningIs DEF WordWise
  <2> QED BY <2>1, RunningIs DEF Going, WordsDone
<1>2. CASE at = 0
  <2>1. Instr = <<"sw", 1, 0, 0>>
    BY <1>2 DEF Instr, WordWise
  <2>2. x' = x /\ at' = 1 /\ ram' = Stored8("sw", x[0] + 0, x[1])
    BY <1>2, <2>1, StoreStep
  <2>3. ram' = Stored8("sw", 0, x[1]) /\ x[1] \in Values
    BY <1>1, <2>2 DEF WordsDone, Fixed
  <2>4. RamIs' /\ ram'[0] = x[1] % Two[Byte] /\ ram'[0+1] = (x[1] \div Two[Byte]) % Two[Byte]
    BY <1>1, <2>3, StoredIs DEF WordsDone
  <2> QED BY <1>1, <2>2, <2>4 DEF WordsDone, Fixed
<1>3. CASE at = 1
  <2>1. Instr = <<"sh", 2, 0, 2>>
    BY <1>3 DEF Instr, WordWise
  <2>2. x' = x /\ at' = 2 /\ ram' = Stored8("sh", x[0] + 2, x[2])
    BY <1>3, <2>1, StoreStep
  <2>3. ram' = Stored8("sh", 2, x[2]) /\ x[2] \in Values
    BY <1>1, <2>2 DEF WordsDone, Fixed
  <2>4. RamIs' /\ ram'[2] = x[2] % Two[Byte] /\ ram'[2+1] = (x[2] \div Two[Byte]) % Two[Byte]
        /\ ram'[0] = ram[0] /\ ram'[1] = ram[1]
    BY <1>1, <2>3, StoredIs DEF WordsDone
  <2> QED BY <1>1, <1>3, <2>2, <2>4 DEF WordsDone, Fixed
<1>4. CASE at = 2
  <2>1. Instr = <<"lw", 3, 0, 0>>
    BY <1>4 DEF Instr, WordWise
  <2>2. x' = Put(3, Loaded("lw", x[0] + 0)) /\ at' = 3 /\ ram' = ram
    BY <1>4, <2>1, LoadStep DEF Stays
  <2>3. x' = Put(3, Loaded("lw", 0)) /\ Loaded("lw", 0)' = Loaded("lw", 0)
    BY <1>1, <2>2, LoadsSame DEF WordsDone, Fixed, LoadedStays
  <2>4. Fixed' /\ x'[3] = Loaded("lw", 0) /\ x'[1] = x[1] /\ x'[2] = x[2]
    BY <1>1, <2>3, PutKeeps DEF WordsDone
  <2> QED BY <1>1, <1>4, <2>2, <2>3, <2>4 DEF WordsDone, RamIs
<1>5. CASE at = 3
  <2>1. Instr = <<load, 4, 0, 2>>
    BY <1>5 DEF Instr, WordWise
  <2>2. x' = Put(4, Loaded(load, x[0] + 2)) /\ at' = 4 /\ ram' = ram
    BY <1>5, <2>1, LoadStep DEF Stays
  <2>3. x' = Put(4, Loaded(load, 2)) /\ Loaded("lw", 0)' = Loaded("lw", 0)
        /\ Loaded(load, 2)' = Loaded(load, 2)
    BY <1>1, <2>2, LoadsSame DEF WordsDone, Fixed, LoadedStays
  <2>4. Fixed' /\ x'[4] = Loaded(load, 2) /\ x'[3] = x[3] /\ x'[1] = x[1] /\ x'[2] = x[2]
    BY <1>1, <2>3, PutKeeps DEF WordsDone
  <2> QED BY <1>1, <1>5, <2>2, <2>3, <2>4 DEF WordsDone, RamIs
<1> QED BY <1>1, <1>2, <1>3, <1>4, <1>5

(* The control register.                                                      *)
LEMMA ChangedIs == \A op, v : CsrChanged(op, v) = Changed(op, csr, v)
  BY DEF CsrChanged, Changed

LEMMA CsrFirst ==
    ASSUME InstructionNext, NEW op \in ByRegister \cup {"csrrwi", "csrrsi", "csrrci"}, NEW a, NEW b,
           at = 0, Instr = <<op, 3, a, b>>, NEW v, CsrDone(op, v), v = IF op \in ByRegister THEN x[a] ELSE b
    PROVE  at' = 1 /\ CsrDone(op, v)' /\ x'[1] = x[1]
<1>1. x' = Put(3, csr) /\ at' = 1 /\ csr' = CsrChanged(op, v) /\ before' = before
  BY CsrStep
<1>2. csr' = Changed(op, before, v) /\ csr = before
  BY <1>1, ChangedIs DEF CsrDone
<1>3. Fixed' /\ x'[3] = before /\ x'[1] = x[1]
  BY <1>1, <1>2, PutKeeps DEF CsrDone
<1> QED BY <1>1, <1>2, <1>3 DEF CsrDone

LEMMA CsrSecond ==
    ASSUME InstructionNext, NEW op, at = 1, Instr = <<"csrrw", 4, 3, 0>>, NEW v, CsrDone(op, v)
    PROVE  at' = 2 /\ CsrDone(op, v)' /\ x'[1] = x[1]
<1>1. x' = Put(4, csr) /\ at' = 2 /\ csr' = CsrChanged("csrrw", x[3]) /\ before' = before
  BY CsrStep DEF ByRegister
<1>2. csr' = And(before, CsrMask) /\ csr = Changed(op, before, v)
  <2>1. csr' = Changed("csrrw", csr, x[3]) /\ x[3] = before /\ csr = Changed(op, before, v)
    BY <1>1, ChangedIs DEF CsrDone
  <2>2. Changed("csrrw", csr, x[3]) = And(x[3], CsrMask)
    BY DEF Changed
  <2> QED BY <2>1, <2>2
<1>3. Fixed' /\ x'[3] = before /\ x'[4] = Changed(op, before, v) /\ x'[1] = x[1]
  BY <1>1, <1>2, PutKeeps DEF CsrDone
<1> QED BY <1>1, <1>2, <1>3 DEF CsrDone

LEMMA MaskedKeeps ==
    ASSUME InstructionNext, NEW op \in {"csrrs", "csrrc"}, Going(Masked(op), CsrDone(op, x[1]))
    PROVE  Going(Masked(op), CsrDone(op, x[1]))'
<1> SUFFICES ASSUME code = Masked(op), ~crashed' PROVE CsrDone(op, x[1])'
  BY RunningIs DEF Going, Masked
<1>1. PICK v : v = x[1]
  OBVIOUS
<1>2. CsrDone(op, v) /\ at \in {0, 1}
  <2>1. at < 2
    BY RunningIs DEF Masked
  <2> QED BY <1>1, <2>1, RunningIs DEF Going, CsrDone
<1>3. CsrDone(op, v)' /\ x'[1] = v
  <2>1. CASE at = 0
    <3>1. Instr = <<op, 3, 1, 0>>
      BY <2>1 DEF Instr, Masked
    <3> QED BY <1>1, <1>2, <2>1, <3>1, CsrFirst DEF ByRegister
  <2>2. CASE at = 1
    <3>1. Instr = <<"csrrw", 4, 3, 0>>
      BY <2>2 DEF Instr, Masked
    <3> QED BY <1>1, <1>2, <2>2, <3>1, CsrSecond
  <2> QED BY <1>2, <2>1, <2>2
<1> QED BY <1>3 DEF CsrDone

LEMMA UimmKeeps ==
    ASSUME InstructionNext, NEW op \in {"csrrsi", "csrrci", "csrrwi"}, NEW u,
           Going(WithUimm(op, u), CsrDone(op, u))
    PROVE  Going(WithUimm(op, u), CsrDone(op, u))'
<1> SUFFICES ASSUME code = WithUimm(op, u), ~crashed' PROVE CsrDone(op, u)'
  BY RunningIs DEF Going, WithUimm
<1>2. CsrDone(op, u) /\ at \in {0, 1}
  <2>1. at < 2
    BY RunningIs DEF WithUimm
  <2> QED BY <2>1, RunningIs DEF Going, CsrDone
<1>3. CASE at = 0
  <2>1. Instr = <<op, 3, 0, u>>
    BY <1>3 DEF Instr, WithUimm
  <2> QED BY <1>2, <1>3, <2>1, CsrFirst DEF ByRegister
<1>4. CASE at = 1
  <2>1. Instr = <<"csrrw", 4, 3, 0>>
    BY <1>4 DEF Instr, WithUimm
  <2> QED BY <1>2, <1>4, <2>1, CsrSecond
<1> QED BY <1>2, <1>3, <1>4

-----------------------------------------------------------------------------
(* What is computed: the arithmetic of each sequence.                         *)
HalfSize == Two[Width-1]
LEMMA SignedIs ==
    ASSUME NEW v \in Values
    PROVE  /\ Signed(v, Width) = (IF v < HalfSize THEN v ELSE v - WordSize)
           /\ Signed(v, Width) \in -HalfSize..HalfSize-1
           /\ (Signed(v, Width) = 0 <=> v = 0)
           /\ \E i \in {0, 1} : Signed(v, Width) = v - WordSize * i
<1>1. Signed(v, Width) = (IF v < HalfSize THEN v ELSE v - WordSize)
  BY DEF Signed, HalfSize, WordSize
<1>2. HalfSize \in Nat \ {0} /\ WordSize = 2 * HalfSize /\ v \in 0..WordSize-1
  BY WordSizeIs DEF HalfSize
<1>3. WordSize * 0 = 0 /\ WordSize * 1 = WordSize
  BY <1>2
<1> QED BY <1>1, <1>2, <1>3

LEMMA SignedWrapped ==
    ASSUME NEW n \in Int, -HalfSize <= n, n < HalfSize
    PROVE  Signed(Wrapped(n), Width) = n
<1>1. HalfSize \in Nat \ {0} /\ WordSize = 2 * HalfSize
  BY WordSizeIs DEF HalfSize
<1>2. CASE n >= 0
  <2>1. Wrapped(n) = n /\ n \in Values
    <3>1. n \in 0..WordSize-1
      BY <1>1, <1>2
    <3>2. n \in Values
      BY <3>1, WordSizeIs
    <3> QED BY <3>2, WrappedIs
  <2> QED BY <1>1, <2>1, SignedIs
<1>3. CASE n < 0
  <2>1. Splits(n, WordSize, -1, n + WordSize)
    BY <1>1, <1>3 DEF Splits
  <2>2. Wrapped(n) = n + WordSize /\ n + WordSize \in Values
    BY <1>1, <1>3, <2>1, DivModIs, WordSizeIs
  <2> QED BY <1>1, <1>3, <2>2, SignedIs
<1> QED BY <1>2, <1>3

LEMMA MinusOne == Wrapped(-1) = WordSize - 1
<1>1. Splits(-1, WordSize, -1, WordSize - 1)
  <2>1. PICK w \in Nat \ {0} : w = WordSize /\ w * (-1) = -w
    BY WordSizeIs
  <2> QED BY <2>1 DEF Splits
<1> QED BY <1>1, DivModIs, WordSizeIs

(* The quotient towards zero, and what it leaves.                             *)
LEMMA QuotientIs ==
    ASSUME NEW s \in Int, NEW t \in Int, t # 0
    PROVE  \E k \in Nat, r \in Nat :
              /\ Magnitude(s) = Magnitude(t) * k + r /\ r < Magnitude(t)
              /\ Quotient(s, t) = (IF (s < 0) = (t < 0) THEN k ELSE -k)
              /\ s - t * Quotient(s, t) = (IF s < 0 THEN -r ELSE r)
<1> DEFINE m == Magnitude(s)
           n == Magnitude(t)
           k == m \div n
           r == m % n
<1>1. m \in Nat /\ n \in Nat \ {0} /\ s = (IF s < 0 THEN -m ELSE m) /\ t = (IF t < 0 THEN -n ELSE n)
  BY DEF Magnitude
<1>2. Quotient(s, t) = (IF (s < 0) = (t < 0) THEN k ELSE -k)
  BY DEF Quotient
<1> HIDE DEF m, n
<1>3. k \in Nat /\ r \in Nat /\ r < n /\ m = n * k + r
  BY <1>1, DividedIs
<1> HIDE DEF k, r
<1>4. s - t * Quotient(s, t) = (IF s < 0 THEN -r ELSE r)
  <2>1. n * k \in Int /\ (-n) * k = -(n * k) /\ n * (-k) = -(n * k) /\ (-n) * (-k) = n * k
    BY <1>1, <1>3
  <2>2. CASE s < 0 /\ t < 0
    BY <1>1, <1>2, <1>3, <2>1, <2>2
  <2>3. CASE s < 0 /\ ~(t < 0)
    BY <1>1, <1>2, <1>3, <2>1, <2>3
  <2>4. CASE ~(s < 0) /\ t < 0
    BY <1>1, <1>2, <1>3, <2>1, <2>4
  <2>5. CASE ~(s < 0) /\ ~(t < 0)
    BY <1>1, <1>2, <1>3, <2>1, <2>5
  <2> QED BY <2>2, <2>3, <2>4, <2>5
<1> QED BY <1>2, <1>3, <1>4 DEF m, n

LEMMA QuotientFits ==
    ASSUME NEW m \in Nat, NEW n \in Nat \ {0}, NEW k \in Nat, NEW r \in Nat, m = n * k + r
    PROVE  k <= m /\ r <= m /\ (k = m => n = 1 \/ m = 0)
<1>1. n * k >= k
  <2>1. n * k = k + (n - 1) * k
    OBVIOUS
  <2>2. (n - 1) * k >= 0
    OBVIOUS
  <2> QED BY <2>1, <2>2
<1>2. k <= m /\ r <= m
  BY <1>1
<1>3. ASSUME k = m, m # 0, n >= 2 PROVE FALSE
  <2>1. n * k = 2 * k + (n - 2) * k
    OBVIOUS
  <2>2. (n - 2) * k >= 0
    BY <1>3
  <2> QED BY <1>3, <2>1, <2>2
<1> QED BY <1>2, <1>3

DivisionHolds(a, b, q, r) ==      \* signed operands, and results
    /\ a = q * b + r
    /\ Magnitude(r) < Magnitude(b)
    /\ r # 0 => (r < 0) = (a < 0)

LEMMA SignedDivision ==
    ASSUME NEW a \in Values, NEW b \in Values, b # 0, ~HostTraps("div", a, b)
    PROVE  DivisionHolds(Signed(a, Width), Signed(b, Width), Signed(Divided("div", a, b), Width),
                         Signed(Divided("rem", a, b), Width))
<1> DEFINE s == Signed(a, Width)
           t == Signed(b, Width)
           q == Quotient(s, t)
<1>1. s \in -HalfSize..HalfSize-1 /\ t \in -HalfSize..HalfSize-1 /\ t # 0
      /\ HalfSize \in Nat \ {0} /\ WordSize = 2 * HalfSize
  BY SignedIs, WordSizeIs DEF HalfSize
<1>2. Divided("div", a, b) = Wrapped(q) /\ Divided("rem", a, b) = Wrapped(s - t * q)
  BY DEF Divided
<1>3. ~(s = -HalfSize /\ t = -1)
  <2> SUFFICES ASSUME s = -HalfSize, t = -1 PROVE FALSE
    OBVIOUS
  <2>1. a = HalfSize /\ b = WordSize - 1
    BY <1>1, SignedIs, WordSizeIs
  <2> QED BY <2>1, MinusOne DEF HostTraps, HalfSize
<1> HIDE DEF s, t
<1>4. PICK k \in Nat, r \in Nat :
          /\ Magnitude(s) = Magnitude(t) * k + r /\ r < Magnitude(t)
          /\ q = (IF (s < 0) = (t < 0) THEN k ELSE -k)
          /\ s - t * q = (IF s < 0 THEN -r ELSE r)
  BY <1>1, QuotientIs
<1> HIDE DEF q
<1>5. PICK m \in Nat, n \in Nat \ {0} : m = Magnitude(s) /\ n = Magnitude(t)
  BY <1>1 DEF Magnitude
<1>6. k <= m /\ r <= m /\ (k = m => n = 1 \/ m = 0)
  BY <1>4, <1>5, QuotientFits
<1>7. m <= HalfSize /\ n <= HalfSize /\ (m = HalfSize => s = -HalfSize) /\ (n = 1 => t \in {-1, 1})
  BY <1>1, <1>5 DEF Magnitude
<1>8. q \in Int /\ -HalfSize <= q /\ q < HalfSize
  BY <1>1, <1>3, <1>4, <1>6, <1>7
<1>9. s - t * q \in Int /\ -HalfSize <= s - t * q /\ s - t * q < HalfSize
  BY <1>1, <1>4, <1>5, <1>7
<1>10. Signed(Wrapped(q), Width) = q /\ Signed(Wrapped(s - t * q), Width) = s - t * q
  BY <1>8, <1>9, SignedWrapped
<1>11. s = q * t + (s - t * q)
  <2>1. PICK p \in Int : p = t * q /\ p = q * t
    BY <1>1, <1>8
  <2> QED BY <1>1, <2>1
<1>12. Magnitude(s - t * q) < Magnitude(t)
  BY <1>4, <1>5 DEF Magnitude
<1>13. s - t * q # 0 => (s - t * q < 0) = (s < 0)
  BY <1>1, <1>4
<1>14. DivisionHolds(s, t, q, s - t * q)
  BY <1>11, <1>12, <1>13 DEF DivisionHolds
<1> QED BY <1>2, <1>10, <1>14 DEF s, t

LEMMA UnsignedDivision ==
    ASSUME NEW a \in Values, NEW b \in Values, b # 0
    PROVE  DivisionHolds(a, b, Divided("divu", a, b), Divided("remu", a, b))
<1> DEFINE q == Quotient(a, b)
<1>1. a \in Nat /\ b \in Nat \ {0} /\ Magnitude(a) = a /\ Magnitude(b) = b
  BY WordSizeIs DEF Magnitude
<1>2. Divided("divu", a, b) = Wrapped(q) /\ Divided("remu", a, b) = Wrapped(a - b * q)
  BY DEF Divided
<1>4. PICK k \in Nat, r \in Nat :
          /\ a = b * k + r /\ r < b /\ q = k /\ a - b * q = r
  <2>1. PICK k \in Nat, r \in Nat :
          /\ Magnitude(a) = Magnitude(b) * k + r /\ r < Magnitude(b)
          /\ q = (IF (a < 0) = (b < 0) THEN k ELSE -k)
          /\ a - b * q = (IF a < 0 THEN -r ELSE r)
    <3>1. a \in Int /\ b \in Int /\ b # 0
      BY <1>1
    <3> QED BY <3>1, QuotientIs, Zenon
  <2>2. ~(a < 0) /\ ~(b < 0)
    BY <1>1
  <2> HIDE DEF q
  <2> QED BY <1>1, <2>1, <2>2
<1> HIDE DEF q
<1>5. k <= a /\ r <= a
  BY <1>1, <1>4, QuotientFits
<1>6. k \in Values /\ r \in Values
  BY <1>4, <1>5, WordSizeIs
<1>7. Wrapped(q) = k /\ Wrapped(a - b * q) = r
  BY <1>4, <1>6, WrappedIs, WordSizeIs
<1>8. b * k = k * b
  BY <1>1
<1>9. DivisionHolds(a, b, k, r)
  BY <1>1, <1>4, <1>8 DEF DivisionHolds, Magnitude
<1> QED BY <1>2, <1>7, <1>9

(* A number of two words.                                                     *)
LEMMA TwoWords ==
    ASSUME NEW p \in Int, NEW w \in Nat \ {0}
    PROVE  p % (w * w) = ((p \div w) % w) * w + (p % w)
<1> DEFINE q == p \div w
           r == p % w
           i == q \div w
           j == q % w
<1>1. q \in Int /\ r \in 0..w-1 /\ p = w * q + r
  BY DividedIs
<1> HIDE DEF q, r
<1>2. i \in Int /\ j \in 0..w-1 /\ q = w * i + j
  BY <1>1, DividedIs
<1> HIDE DEF i, j
<1>3. w * w \in Nat \ {0} /\ j * w \in Nat /\ w * j = j * w /\ (w * w) * i \in Int
  BY <1>2
<1>4. w * q = (w * w) * i + j * w
  BY <1>2
<1>5. j * w + r < w * w
  <2>1. (w - 1 - j) * w >= 0
    BY <1>2
  <2>2. (w - 1 - j) * w = w * w - w - j * w
    BY <1>2
  <2> QED BY <1>1, <1>3, <2>1, <2>2
<1>6. Splits(p, w * w, i, j * w + r)
  BY <1>1, <1>2, <1>3, <1>4, <1>5 DEF Splits
<1>7. p % (w * w) = j * w + r
  BY <1>6, DivModIs
<1> QED BY <1>7 DEF q, r, j

LEMMA DoubleWord == Two[2 * Width] = WordSize * WordSize
<1>1. Width + Width = 2 * Width /\ Width \in Nat /\ Width + Width <= 2 * Width
  BY WidthIsEnough
<1>2. Two[Width + Width] = Two[Width] * Two[Width]
  BY <1>1, TwoAdds
<1> QED BY <1>1, <1>2 DEF WordSize

(* Whether the operands are signed does not matter for the lower word.        *)
LEMMA Expansions ==
    ASSUME NEW a \in Int, NEW b \in Int, NEW w \in Int
    PROVE  /\ a * (b - w) = a * b + w * (-a)
           /\ (a - w) * b = a * b + w * (-b)
           /\ (a - w) * (b - w) = a * b + w * (w - a - b)
  OBVIOUS

LEMMA LowerWord ==
    ASSUME NEW a \in Int, NEW b \in Int, NEW w \in Nat \ {0}, NEW s \in Int, NEW t \in Int,
           s = a \/ s = a - w, t = b \/ t = b - w
    PROVE  (s * t) % w = (a * b) % w
<1>1. \E k \in Int : s * t = a * b + w * k
  <2>1. CASE s = a /\ t = b
    <3>1. a * b \in Int /\ w * 0 = 0 /\ a * b = a * b + 0
      OBVIOUS
    <3> QED BY <2>1, <3>1
  <2>2. CASE s = a /\ t = b - w
    <3>1. -a \in Int
      OBVIOUS
    <3> QED BY <2>2, <3>1, Expansions
  <2>3. CASE s = a - w /\ t = b
    <3>1. -b \in Int
      OBVIOUS
    <3> QED BY <2>3, <3>1, Expansions
  <2>4. CASE s = a - w /\ t = b - w
    <3>1. PICK k \in Int : k = w - a - b
      OBVIOUS
    <3>2. s * t = a * b + w * k
      BY <2>4, <3>1, Expansions
    <3> QED BY <3>2
  <2> QED BY <2>1, <2>2, <2>3, <2>4
<1>2. PICK k \in Int : s * t = a * b + w * k
  BY <1>1
<1>3. a * b \in Int
  OBVIOUS
<1>4. (a * b + w * k) % w = (a * b) % w
  BY <1>3, SameRest
<1> QED BY <1>2, <1>4

(* The product of two words is one of two words. *)
LEMMA ProductFits ==
    ASSUME NEW w \in Nat \ {0}, NEW a \in 0..w-1, NEW b \in 0..w-1
    PROVE  a * b \in Nat /\ (a * b) \div w \in 0..w-1
<1>1. a \in Nat /\ b \in Nat /\ w - 1 - a >= 0 /\ w - b > 0 /\ w - 1 - a \in Int
  OBVIOUS
<1>2. a * b \in Nat
  BY <1>1
<1>3. (w - 1 - a) * w >= 0 /\ a * (w - b) >= 0
  BY <1>1
<1>4. (w - 1 - a) * w = w * w - w - a * w /\ a * (w - b) = a * w - a * b
  BY <1>1
<1>5. a * b < w * w
  <2>1. w * w \in Int /\ a * w \in Int
    BY <1>1
  <2> QED BY <1>1, <1>2, <1>3, <1>4, <2>1
<1>6. PICK q \in Nat, r \in Nat : q = (a * b) \div w /\ a * b = w * q + r
  <2>0. PICK p \in Nat : p = a * b
    BY <1>2
  <2>1. p \div w \in Nat /\ p % w \in 0..w-1 /\ p = w * (p \div w) + (p % w)
    <3>1. p \in Int /\ p \in Nat
      BY <2>0
    <3> QED BY <3>1, DividedIs, Zenon
  <2>2. p % w \in Nat
    BY <2>1
  <2> QED BY <2>0, <2>1, <2>2
<1>7. ~(q >= w)
  <2> SUFFICES ASSUME q >= w PROVE FALSE
    OBVIOUS
  <2>1. w * (q - w) >= 0
    BY <1>6
  <2>2. w * (q - w) = w * q - w * w
    BY <1>6
  <2>3. w * q \in Int /\ w * w \in Int
    BY <1>6
  <2> QED BY <1>2, <1>5, <1>6, <2>1, <2>2, <2>3
<1> QED BY <1>2, <1>6, <1>7

ProductHolds(a, b, low, high) == high * WordSize + low = (a * b) % (WordSize * WordSize)
LEMMA WordsOfProduct ==
    ASSUME NEW a \in Values, NEW b \in Values, NEW s \in Int, NEW t \in Int,
           s = a \/ s = a - WordSize, t = b \/ t = b - WordSize
    PROVE  ProductHolds(s, t, Wrapped(a * b), Wrapped((s * t) \div WordSize))
<1>1. WordSize \in Nat \ {0} /\ a \in Int /\ b \in Int
  BY WordSizeIs
<1>2. (s * t) % WordSize = (a * b) % WordSize
  BY <1>1, LowerWord
<1>3. s * t \in Int
  OBVIOUS
<1>4. (s * t) % (WordSize * WordSize) = (((s * t) \div WordSize) % WordSize) * WordSize + ((s * t) % WordSize)
  BY <1>1, <1>3, TwoWords
<1> QED BY <1>2, <1>4, WordSizeIs DEF ProductHolds

LEMMA ProductIs ==
    ASSUME NEW a \in Values, NEW b \in Values
    PROVE  /\ ProductHolds(Signed(a, Width), Signed(b, Width),
                        Multiplied("mul", a, b), Multiplied("mulh", a, b))
           /\ ProductHolds(Signed(a, Width), b,
                        Multiplied("mul", a, b), Multiplied("mulhsu", a, b))
           /\ ProductHolds(a, b,
                        Multiplied("mul", a, b), Multiplied("mulhu", a, b))
<1> DEFINE s == Signed(a, Width)
           t == Signed(b, Width)
<1>1. /\ s \in Int /\ t \in Int /\ a \in Int /\ b \in Int
      /\ s = a \/ s = a - WordSize
      /\ t = b \/ t = b - WordSize
  <2>1. WordSize \in Int /\ a \in Int /\ b \in Int
    BY WordSizeIs
  <2>2. a - WordSize \in Int /\ b - WordSize \in Int
    BY <2>1
  <2>3. s = (IF a < HalfSize THEN a ELSE a - WordSize) /\ t = (IF b < HalfSize THEN b ELSE b - WordSize)
    BY SignedIs
  <2> HIDE DEF s, t
  <2> QED BY <2>1, <2>2, <2>3
<1>2. Multiplied("mul", a, b) = Wrapped(a * b) /\ Multiplied("mulh", a, b) = Wrapped((s * t) \div WordSize)
      /\ Multiplied("mulhsu", a, b) = Wrapped((s * b) \div WordSize)
      /\ Multiplied("mulhu", a, b) = (a * b) \div WordSize
  BY DEF Multiplied, WordSize
<1> HIDE DEF s, t
<1>3. (a * b) \div WordSize = Wrapped((a * b) \div WordSize)
  <2>1. (a * b) \div WordSize \in Values
    <3>1. WordSize \in Nat \ {0} /\ a \in 0..WordSize-1 /\ b \in 0..WordSize-1
      BY WordSizeIs
    <3>2. (a * b) \div WordSize \in 0..WordSize-1
      BY <3>1, ProductFits, Zenon
    <3> QED BY <3>2, WordSizeIs, Zenon
  <2>2. (a * b) \div WordSize \in Int
    <3>1. \A w \in Values : w \in Int
      BY WordSizeIs
    <3> QED BY <2>1, <3>1, Zenon
  <2> QED BY <2>1, <2>2, WrappedIs, Zenon
<1>4. ProductHolds(s, t, Wrapped(a * b), Wrapped((s * t) \div WordSize))
  BY <1>1, WordsOfProduct
<1>5. ProductHolds(s, b, Wrapped(a * b), Wrapped((s * b) \div WordSize))
  BY <1>1, WordsOfProduct
<1>6. ProductHolds(a, b, Wrapped(a * b), Wrapped((a * b) \div WordSize))
  BY <1>1, WordsOfProduct
<1> QED BY <1>2, <1>3, <1>4, <1>5, <1>6 DEF s, t

(* Shifted to the left and back.                                              *)
LEMMA ShiftedUp ==
    ASSUME NEW big \in Nat \ {0}, NEW low \in Nat \ {0}, NEW q \in Nat, NEW r \in Nat, r < low
    PROVE  ((low * q + r) * big) % (big * low) = big * r /\ big * r \in 0..(big*low)-1
<1>1. (low * q + r) * big = (big * low) * q + big * r
  OBVIOUS
<1>2. big * r < big * low
  <2>1. big * (low - r) > 0
    OBVIOUS
  <2>2. big * (low - r) = big * low - big * r
    OBVIOUS
  <2>3. big * low \in Int /\ big * r \in Int
    OBVIOUS
  <2> QED BY <2>1, <2>2, <2>3
<1>3. big * r \in Nat /\ big * low \in Nat \ {0} /\ (low * q + r) * big \in Int
  OBVIOUS
<1>4. Splits((low * q + r) * big, big * low, q, big * r)
  BY <1>1, <1>2, <1>3 DEF Splits
<1>5. big * r \in 0..(big*low)-1
  BY <1>2, <1>3
<1> QED BY <1>4, <1>5, DivModIs

LEMMA ShiftedDown == ASSUME NEW big \in Nat \ {0}, NEW n \in Int PROVE (big * n) \div big = n
<1>1. big * n \in Int /\ big * n = big * n + 0
  OBVIOUS
<1>2. Splits(big * n, big, n, 0)
  BY <1>1 DEF Splits
<1> QED BY <1>2, DivModIs

(* The sign of what is shifted up is that of the narrow value.                *)
LEMMA SignShifted ==
    ASSUME NEW big \in Nat \ {0}, NEW half \in Nat \ {0}, NEW r \in Int
    PROVE  (big * r < big * half <=> r < half) /\ big * (r - 2 * half) = big * r - big * (2 * half)
<1>1. ASSUME r < half PROVE big * r < big * half
  <2>1. big * (half - r) > 0
    BY <1>1
  <2>2. big * (half - r) = big * half - big * r
    OBVIOUS
  <2>3. big * half \in Int /\ big * r \in Int
    OBVIOUS
  <2> QED BY <2>1, <2>2, <2>3
<1>2. ASSUME ~(r < half) PROVE ~(big * r < big * half)
  <2>1. big * (r - half) >= 0
    BY <1>2
  <2>2. big * (r - half) = big * r - big * half
    OBVIOUS
  <2>3. big * half \in Int /\ big * r \in Int
    OBVIOUS
  <2> QED BY <2>1, <2>2, <2>3
<1>3. big * (r - 2 * half) = big * r - big * (2 * half)
  OBVIOUS
<1> QED BY <1>1, <1>2, <1>3

(* The remainder by a divisor of a remainder.                                 *)
LEMMA RestOfRest ==
    ASSUME NEW big \in Nat \ {0}, NEW low \in Nat \ {0}, NEW n \in Int
    PROVE  (n % (big * low)) % low = n % low
<1>1. big * low \in Nat \ {0}
  OBVIOUS
<1> DEFINE q == n \div (big * low)
           r == n % (big * low)
<1>2. q \in Int /\ r \in Int /\ n = (big * low) * q + r
  <2>1. q \in Int /\ r \in 0..(big*low)-1 /\ n = (big * low) * q + r
    BY <1>1, DividedIs, Zenon
  <2> HIDE DEF q, r
  <2> QED BY <1>1, <2>1
<1> HIDE DEF q, r
<1>3. (big * low) * q = low * (big * q) /\ big * q \in Int
  BY <1>2
<1>4. (r + low * (big * q)) % low = r % low
  BY <1>2, <1>3, SameRest
<1>5. low * (big * q) \in Int /\ n = r + low * (big * q)
  <2>1. PICK k \in Int : k = low * (big * q)
    BY <1>3
  <2> QED BY <1>2, <1>3, <2>1
<1> QED BY <1>4, <1>5 DEF r

NarrowHolds(v, bits, zeros, signs) ==
    /\ zeros = v % Two[bits]
    /\ signs % Two[bits] = v % Two[bits]
    /\ Signed(signs, Width) \in -Two[bits-1]..Two[bits-1]-1
LEMMA NarrowIs ==
    ASSUME NEW v \in Values, NEW b \in Values
    PROVE  NarrowHolds(v, Width - (b % Width), Shifted("srl", Shifted("sll", v, b), b),
                       Shifted("sra", Shifted("sll", v, b), b))
<1> DEFINE n == b % Width
<1>1. n \in 0..Width-1
  <2>1. b \in Int /\ Width \in Nat \ {0}
    BY WidthIsEnough, WordSizeIs
  <2> QED BY <2>1, DividedIs, Zenon
<1> HIDE DEF n
<1> DEFINE big == Two[n]
           low == Two[Width-n]
           half == Two[(Width-n)-1]
<1>2. big \in Nat \ {0} /\ low \in Nat \ {0} /\ half \in Nat \ {0} /\ WordSize = big * low /\ low = 2 * half
  <2>1. n \in 0..2*Width /\ Width - n \in 0..2*Width /\ (Width-n)-1 \in 0..2*Width
        /\ (Width-n)-1 \in 0..2*Width-1
        /\ n \in Nat /\ Width - n \in Nat /\ n + (Width - n) = Width /\ Width <= 2*Width
        /\ ((Width-n)-1) + 1 = Width - n
    BY <1>1, WidthIsEnough
  <2>2. Two[n + (Width - n)] = Two[n] * Two[Width-n]
    BY <2>1, TwoAdds
  <2>3. Two[((Width-n)-1) + 1] = 2 * Two[(Width-n)-1]
    BY <2>1, TwoIs DEF TwoGrows
  <2>4. Two[n] \in Nat \ {0} /\ Two[Width-n] \in Nat \ {0} /\ Two[(Width-n)-1] \in Nat \ {0}
    BY <2>1, TwoTypes
  <2> QED BY <2>1, <2>2, <2>3, <2>4 DEF WordSize
<1>s. /\ \A a : Shifted("sll", a, b) = Wrapped(a * big)
      /\ \A a : Shifted("srl", a, b) = a \div big
      /\ \A a : Shifted("sra", a, b) = Wrapped(Signed(a, Width) \div big)
  BY DEF Shifted, n
<1>3. HalfSize = big * half
  <2>1. big * low = 2 * (big * half) /\ big * half \in Nat
    BY <1>2
  <2>2. WordSize = 2 * HalfSize /\ HalfSize \in Nat
    BY WordSizeIs DEF HalfSize
  <2> HIDE DEF big, low, half
  <2> QED BY <1>2, <2>1, <2>2
<1> HIDE DEF big, low, half
<1>4. PICK q \in Nat, r \in Nat : v = low * q + r /\ r < low /\ r = v % low
  <2>1. v \in Nat /\ v \in Int
    BY WordSizeIs
  <2>2. v \div low \in Nat /\ v % low \in 0..low-1 /\ v = low * (v \div low) + (v % low)
    BY <1>2, <2>1, DividedIs, Zenon
  <2>3. v % low \in Nat /\ v % low < low
    BY <1>2, <2>2
  <2> QED BY <2>2, <2>3
<1>6. Shifted("sll", v, b) = big * r /\ big * r \in Values
  <2>1. ((low * q + r) * big) % (big * low) = big * r /\ big * r \in 0..(big*low)-1
    <3>1. big \in Nat \ {0} /\ low \in Nat \ {0} /\ q \in Nat /\ r \in Nat /\ r < low
      BY <1>2, <1>4
    <3> QED BY <3>1, ShiftedUp, Zenon
  <2>2. Shifted("sll", v, b) = (v * big) % WordSize
    BY <1>s, WordSizeIs
  <2> QED BY <1>2, <1>4, <2>1, <2>2, WordSizeIs
<1>7. Shifted("srl", big * r, b) = r
  BY <1>2, <1>s, ShiftedDown
<1>8. PICK e \in Int : e = (IF r < half THEN r ELSE r - low)
  BY <1>2
<1>9. Shifted("sra", big * r, b) = Wrapped(e)
  <2>1. Signed(big * r, Width) = big * e
    <3>1. Signed(big * r, Width) = (IF big * r < big * half THEN big * r ELSE big * r - big * low)
      BY <1>2, <1>3, <1>6, SignedIs
    <3>2. (big * r < big * half <=> r < half) /\ big * (r - low) = big * r - big * low
      BY <1>2, SignShifted
    <3> QED BY <1>8, <3>1, <3>2
  <2>2. (big * e) \div big = e
    BY <1>2, ShiftedDown
  <2> QED BY <1>s, <2>1, <2>2
<1>10. -half <= e /\ e < half
  BY <1>2, <1>4, <1>8
<1>11. Signed(Wrapped(e), Width) = e
  <2>1. half <= big * half /\ big * half \in Int
    <3>1. (big - 1) * half >= 0
      BY <1>2
    <3>2. (big - 1) * half = big * half - half
      BY <1>2
    <3>3. big * half \in Int
      BY <1>2
    <3> QED BY <1>2, <3>1, <3>2, <3>3
  <2>2. -HalfSize <= e /\ e < HalfSize
    BY <1>2, <1>3, <1>10, <2>1
  <2> QED BY <2>2, SignedWrapped
<1>12. Wrapped(e) % low = r
  <2>1. Wrapped(e) % low = e % low
    <3>1. (e % (big * low)) % low = e % low
      <4>1. e \in Int
        BY <1>8
      <4> QED BY <1>2, <4>1, RestOfRest, Zenon
    <3> QED BY <1>2, <3>1, WordSizeIs
  <2>2. r % low = r
    <3>1. Splits(r, low, 0, r)
      <4>1. low * 0 = 0
        BY <1>2
      <4> QED BY <1>2, <1>4, <4>1 DEF Splits
    <3> QED BY <3>1, DivModIs
  <2>3. ASSUME e = r - low PROVE e % low = r
    <3>1. Splits(e, low, -1, r)
      <4>1. low * (-1) = -low
        BY <1>2
      <4> QED BY <1>2, <1>4, <2>3, <4>1 DEF Splits
    <3> QED BY <3>1, DivModIs
  <2> QED BY <1>8, <2>1, <2>2, <2>3
<1>13. NarrowHolds(v, Width - n, r, Wrapped(e))
  <2>1. r = v % Two[Width-n]
    BY <1>4 DEF low
  <2>2. Wrapped(e) % Two[Width-n] = v % Two[Width-n]
    BY <1>12, <2>1 DEF low
  <2>3. Signed(Wrapped(e), Width) \in -Two[(Width-n)-1]..Two[(Width-n)-1]-1
    BY <1>2, <1>10, <1>11 DEF half
  <2> QED BY <2>1, <2>2, <2>3 DEF NarrowHolds
<1> QED BY <1>6, <1>7, <1>9, <1>13 DEF n

(* The bytes of a word: there is a function that satisfies the equation.      *)
Part(a, k) == ram[a + k - 1] * Two[Byte * (k-1)]
PartsTo(n, a, f) == f = [k \in 0..n |-> IF k = 0 THEN 0 ELSE f[k-1] + Part(a, k)]
LEMMA PartsExist == ASSUME NEW n \in Nat, NEW a PROVE \E f : PartsTo(n, a, f)
<1> DEFINE S == {m \in 0..n : \E f : PartsTo(m, a, f)}
<1>1. 0 \in S
  <2> DEFINE f == [k \in 0..0 |-> 0]
  <2>1. PartsTo(0, a, f)
    BY DEF PartsTo
  <2> HIDE DEF f
  <2> QED BY <2>1
<1>2. ASSUME NEW m \in 0..n-1, m \in S PROVE m + 1 \in S
  <2>1. PICK f : PartsTo(m, a, f)
    BY <1>2
  <2> DEFINE g == [k \in 0..m+1 |-> IF k = 0 THEN 0 ELSE f[k-1] + Part(a, k)]
  <2>2. \A k \in 0..m : g[k] = f[k]
    BY <2>1 DEF PartsTo
  <2>3. \A k \in 0..m+1 : g[k] = IF k = 0 THEN 0 ELSE g[k-1] + Part(a, k)
    <3>1. ASSUME NEW k \in 0..m+1, k # 0 PROVE g[k] = g[k-1] + Part(a, k)
      <4>1. k - 1 \in 0..m
        BY <3>1
      <4>2. g[k] = f[k-1] + Part(a, k)
        BY <3>1
      <4> HIDE DEF g
      <4> QED BY <2>2, <4>1, <4>2
    <3>2. g[0] = 0
      OBVIOUS
    <3> HIDE DEF g
    <3> QED BY <3>1, <3>2
  <2>4. g = [k \in 0..m+1 |-> g[k]]
    OBVIOUS
  <2> HIDE DEF g
  <2>5. PartsTo(m + 1, a, g)
    BY <2>3, <2>4 DEF PartsTo
  <2>6. m + 1 \in 0..n
    OBVIOUS
  <2> QED BY <2>5, <2>6
<1> HIDE DEF S
<1>3. n \in S
  BY <1>1, <1>2, UpTo
<1> QED BY <1>3 DEF S

LEMMA AssembledIs ==
    ASSUME NEW a, NEW n \in Nat
    PROVE  \E f : /\ Assembled(a, n) = f[n] /\ f[0] = 0
                  /\ \A k \in 1..n : f[k] = f[k-1] + Part(a, k)
<1> DEFINE f == CHOOSE f : PartsTo(n, a, f)
<1>1. Assembled(a, n) = f[n]
  BY DEF Assembled, PartsTo, Part
<1>2. PartsTo(n, a, f)
  BY PartsExist
<1> HIDE DEF f
<1>3. f[0] = 0 /\ \A k \in 1..n : f[k] = f[k-1] + Part(a, k)
  BY <1>2 DEF PartsTo
<1> QED BY <1>1, <1>3

LEMMA BytePowers ==
    /\ Two[Byte * 0] = 1 /\ Two[Byte * 1] = Two[Byte] /\ Two[2 * Byte] = Two[Byte] * Two[Byte]
    /\ Two[Byte * 2] = Two[2 * Byte] /\ Two[Byte * 3] = Two[2 * Byte] * Two[Byte]
    /\ WordSize = Two[2 * Byte] * Two[2 * Byte] /\ Two[2 * Byte] \in Nat \ {0}
<1>1. Byte \in Nat /\ Byte + Byte <= 2 * Width /\ 2 * Byte \in Nat /\ 2 * Byte + Byte <= 2 * Width
      /\ 2 * Byte + 2 * Byte <= 2 * Width /\ 2 * Byte \in 0..2 * Width
  BY ByteIs, WidthIsEnough
<1>2. Byte * 0 = 0 /\ Byte * 1 = Byte /\ 2 * Byte = Byte + Byte /\ Byte * 2 = 2 * Byte
      /\ Byte * 3 = 2 * Byte + Byte /\ Width = 2 * Byte + 2 * Byte
  BY <1>1, ByteIs
<1>3. Two[Byte + Byte] = Two[Byte] * Two[Byte] /\ Two[2 * Byte + Byte] = Two[2 * Byte] * Two[Byte]
      /\ Two[2 * Byte + 2 * Byte] = Two[2 * Byte] * Two[2 * Byte]
  BY <1>1, TwoAdds, Zenon
<1>4. Two[2 * Byte] \in Nat \ {0} /\ Two[0] = 1
  BY <1>1, TwoTypes, TwoIs DEF TwoGrows
<1>5. Two[2 * Byte] = Two[Byte] * Two[Byte]
  BY <1>2, <1>3, Zenon
<1>6. Two[Byte * 3] = Two[2 * Byte] * Two[Byte]
  BY <1>2, <1>3, Zenon
<1>7. WordSize = Two[2 * Byte] * Two[2 * Byte]
  BY <1>2, <1>3, Zenon DEF WordSize
<1>8. Two[Byte * 0] = 1 /\ Two[Byte * 1] = Two[Byte] /\ Two[Byte * 2] = Two[2 * Byte]
  BY <1>2, <1>4, Zenon
<1> QED BY <1>4, <1>5, <1>6, <1>7, <1>8, Zenon

(* The bytes from a on, as one, two or four make a number.                    *)
LEMMA PartsAre ==
    ASSUME NEW a \in {0, 2}
    PROVE  /\ ram[a] \in Nat => Assembled(a, 1) = ram[a]
           /\ ram[a] \in Nat /\ ram[a+1] \in Nat => Assembled(a, 2) = ram[a] + ram[a+1] * Two[Byte]
<1>1. a \in Int /\ a + 1 - 1 = a /\ a + 2 - 1 = a + 1 /\ 1 - 1 = 0 /\ 2 - 1 = 1
  OBVIOUS
<1>2. Part(a, 1) = ram[a] * 1 /\ Part(a, 2) = ram[a+1] * Two[Byte]
  <2>1. Part(a, 1) = ram[a + 1 - 1] * Two[Byte * (1 - 1)] /\ Part(a, 2) = ram[a + 2 - 1] * Two[Byte * (2 - 1)]
    BY DEF Part
  <2> QED BY <1>1, <2>1, BytePowers, Zenon
<1>3. ASSUME ram[a] \in Nat PROVE Assembled(a, 1) = ram[a]
  <2>1. PICK f : Assembled(a, 1) = f[1] /\ f[0] = 0 /\ \A k \in 1..1 : f[k] = f[k-1] + Part(a, k)
    BY AssembledIs
  <2>2. f[1] = f[0] + Part(a, 1)
    BY <2>1
  <2> QED BY <1>2, <1>3, <2>1, <2>2
<1>4. ASSUME ram[a] \in Nat, ram[a+1] \in Nat PROVE Assembled(a, 2) = ram[a] + ram[a+1] * Two[Byte]
  <2>1. PICK f : Assembled(a, 2) = f[2] /\ f[0] = 0 /\ \A k \in 1..2 : f[k] = f[k-1] + Part(a, k)
    BY AssembledIs
  <2>2. f[1] = f[0] + Part(a, 1) /\ f[2] = f[1] + Part(a, 2)
    BY <2>1
  <2>3. f[1] = ram[a]
    BY <1>2, <1>4, <2>1, <2>2
  <2> QED BY <1>2, <2>1, <2>2, <2>3
<1> QED BY <1>3, <1>4

LEMMA FourParts ==
    ASSUME \A k \in 0..3 : ram[k] \in Nat
    PROVE  Assembled(0, 4) = (ram[0] + ram[1] * Two[Byte]) + (ram[2] + ram[3] * Two[Byte]) * Two[2 * Byte]
<1>1. PICK f : Assembled(0, 4) = f[4] /\ f[0] = 0 /\ \A k \in 1..4 : f[k] = f[k-1] + Part(0, k)
  BY AssembledIs
<1>2. f[1] = f[0] + Part(0, 1) /\ f[2] = f[1] + Part(0, 2) /\ f[3] = f[2] + Part(0, 3)
      /\ f[4] = f[3] + Part(0, 4)
  BY <1>1
<1>3. Part(0, 1) = ram[0] * 1 /\ Part(0, 2) = ram[1] * Two[Byte] /\ Part(0, 3) = ram[2] * Two[2 * Byte]
      /\ Part(0, 4) = ram[3] * (Two[2 * Byte] * Two[Byte])
  <2>1. /\ Part(0, 1) = ram[0 + 1 - 1] * Two[Byte * (1 - 1)]
        /\ Part(0, 2) = ram[0 + 2 - 1] * Two[Byte * (2 - 1)]
        /\ Part(0, 3) = ram[0 + 3 - 1] * Two[Byte * (3 - 1)]
        /\ Part(0, 4) = ram[0 + 4 - 1] * Two[Byte * (4 - 1)]
    BY DEF Part
  <2>2. 0 + 1 - 1 = 0 /\ 0 + 2 - 1 = 1 /\ 0 + 3 - 1 = 2 /\ 0 + 4 - 1 = 3 /\ 1 - 1 = 0 /\ 2 - 1 = 1
        /\ 3 - 1 = 2 /\ 4 - 1 = 3
    OBVIOUS
  <2> QED BY <2>1, <2>2, BytePowers, Zenon
<1>4. PICK c \in Nat, d \in Nat, e \in Nat, g \in Nat, w \in Nat, h \in Nat :
        c = ram[0] /\ d = ram[1] /\ e = ram[2] /\ g = ram[3] /\ w = Two[Byte] /\ h = Two[2 * Byte]
  <2>1. ram[0] \in Nat /\ ram[1] \in Nat /\ ram[2] \in Nat /\ ram[3] \in Nat
    OBVIOUS
  <2>2. Two[Byte] \in Nat /\ Two[2 * Byte] \in Nat
    BY BytePowers, ByteSize
  <2> QED BY <2>1, <2>2, Zenon
<1>5. (e + g * w) * h = e * h + g * (h * w) /\ e * h \in Nat /\ g * (h * w) \in Nat /\ d * w \in Nat
  BY <1>4
<1>6. f[1] = c
  BY <1>1, <1>2, <1>3, <1>4
<1>7. f[4] = ((c + d * w) + e * h) + g * (h * w)
  BY <1>2, <1>3, <1>4, <1>6
<1>8. ((c + d * w) + e * h) + g * (h * w) = (c + d * w) + (e * h + g * (h * w))
  BY <1>4, <1>5
<1> QED BY <1>1, <1>4, <1>5, <1>7, <1>8

(* A half word is two bytes, a word two halves.                               *)
LEMMA HalfIs ==
    ASSUME NEW v \in Nat
    PROVE  /\ v % Two[2 * Byte] = (v % Two[Byte]) + ((v \div Two[Byte]) % Two[Byte]) * Two[Byte]
           /\ (v % Two[2 * Byte]) % Two[Byte] = v % Two[Byte]
           /\ v % Two[2 * Byte] \in 0..Two[2 * Byte]-1
           /\ v % Two[Byte] \in Nat /\ (v \div Two[Byte]) % Two[Byte] \in Nat
<1> DEFINE w == Two[Byte]
<1>1. w \in Nat \ {0} /\ Two[2 * Byte] = w * w /\ Two[2 * Byte] \in Nat \ {0}
  BY BytePowers, ByteSize
<1> HIDE DEF w
<1>2. v % (w * w) = ((v \div w) % w) * w + (v % w)
  <2>1. v \in Int
    OBVIOUS
  <2> QED BY <1>1, <2>1, TwoWords, Zenon
<1>3. v % w \in Nat /\ (v \div w) % w \in Nat
  <2>0. v \in Int
    OBVIOUS
  <2>1. v % w \in 0..w-1 /\ v \div w \in Int
    BY <1>1, <2>0, DividedIs, Zenon
  <2>2. (v \div w) % w \in 0..w-1
    BY <1>1, <2>1, DividedIs
  <2> QED BY <1>1, <2>1, <2>2
<1>4. v % (w * w) = (v % w) + ((v \div w) % w) * w
  <2>1. PICK c \in Nat, d \in Nat : c = v % w /\ d = (v \div w) % w
    BY <1>3
  <2>2. d * w + c = c + d * w
    BY <1>1
  <2> QED BY <1>2, <2>1, <2>2
<1>5. (v % (w * w)) % w = v % w
  BY <1>1, RestOfRest
<1>6. v % Two[2 * Byte] \in 0..Two[2 * Byte]-1
  <2>1. v \in Int
    OBVIOUS
  <2> QED BY <1>1, <2>1, DividedIs, Zenon
<1> QED BY <1>1, <1>3, <1>4, <1>5, <1>6 DEF w

LEMMA WholeWord ==
    ASSUME NEW c \in 0..Two[2 * Byte]-1, NEW d \in 0..Two[2 * Byte]-1
    PROVE  Wrapped(Signed(c + d * Two[2 * Byte], 4 * Byte)) = c + d * Two[2 * Byte]
<1> DEFINE w == Two[2 * Byte]
<1>1. w \in Nat \ {0} /\ WordSize = w * w
  BY BytePowers
<1> HIDE DEF w
<1>2. c \in Nat /\ d \in Nat /\ c < w /\ d <= w - 1
  BY <1>1 DEF w
<1>3. d * w <= (w - 1) * w
  <2>1. (w - 1 - d) * w >= 0
    BY <1>1, <1>2
  <2>2. (w - 1 - d) * w = (w - 1) * w - d * w
    BY <1>1, <1>2
  <2>3. (w - 1) * w \in Int /\ d * w \in Int
    BY <1>1, <1>2
  <2> QED BY <2>1, <2>2, <2>3
<1>4. (w - 1) * w = w * w - w /\ w * w \in Int /\ d * w \in Nat
  BY <1>1, <1>2
<1>5. c + d * w \in 0..WordSize-1
  BY <1>1, <1>2, <1>3, <1>4
<1>6. c + d * w \in Values
  BY <1>5, WordSizeIs
<1>7. \A v \in Values : Wrapped(Signed(v, Width)) = v
  <2> SUFFICES ASSUME NEW v \in Values PROVE Wrapped(Signed(v, Width)) = v
    OBVIOUS
  <2>1. CASE Signed(v, Width) = v
    BY <2>1, ValuesAreWords
  <2>2. CASE Signed(v, Width) = v - WordSize
    <3>1. v \in Nat /\ v < WordSize /\ WordSize \in Nat \ {0}
      BY WordSizeIs
    <3>2. Splits(v - WordSize, WordSize, -1, v)
      <4>1. WordSize * (-1) = -WordSize
        BY <3>1
      <4> QED BY <3>1, <4>1 DEF Splits
    <3> QED BY <2>2, <3>2, DivModIs, WordSizeIs
  <2> QED BY <2>1, <2>2, SignedIs
<1> QED BY <1>6, <1>7, ByteIs DEF w

(* What the loads give of a word whose bytes are known.                       *)
LEMMA LoadsAre ==
    /\ Loaded("lhu", 0) = Assembled(0, 2) /\ Loaded("lh", 0) = Wrapped(Signed(Assembled(0, 2), 2 * Byte))
    /\ Loaded("lw", 0) = Wrapped(Signed(Assembled(0, 4), 4 * Byte))
    /\ Loaded("lh", 2) = Wrapped(Signed(Assembled(2, 2), 2 * Byte))
    /\ Loaded("lb", 2) = Wrapped(Signed(Assembled(2, 1), Byte)) /\ Loaded("lbu", 2) = Assembled(2, 1)
<1>1. SizeOf("lhu") = 2 /\ SizeOf("lh") = 2 /\ SizeOf("lw") = 4 /\ SizeOf("lb") = 1 /\ SizeOf("lbu") = 1
  BY DEF SizeOf
<1>2. 1 * Byte = Byte
  BY ByteIs
<1> QED BY <1>1, <1>2 DEF Loaded

LEMMA BytesAreRight ==
    ASSUME InstructionInductive
    PROVE  BytesCompose
<1> DEFINE low1 == x[1] % Two[Byte]
           low2 == x[2] % Two[Byte]
           half == x[2] % Two[2 * Byte]
<1>1. ASSUME NEW load \in {"lh", "lhu"}, Runs(ByteWise(load))
      PROVE  x[3] = Loaded(load, 0) /\ Assembled(0, 2) = low1 + low2 * Two[Byte]
  <2>1. BytesDone(load) /\ at = 3
    BY <1>1 DEF InstructionInductive, Going, Runs, Done, ByteWise
  <2>2. x[3] = Loaded(load, 0) /\ ram[0] = low1 /\ ram[1] = low2
    BY <2>1 DEF BytesDone
  <2>3. low1 \in Nat /\ low2 \in Nat
    <3>1. x[1] \in Nat /\ x[2] \in Nat
      BY <2>1, ValuesAreWords DEF BytesDone, Fixed
    <3> QED BY <3>1, HalfIs
  <2> HIDE DEF low1, low2
  <2>4. ram[0] \in Nat /\ ram[0 + 1] \in Nat /\ 0 + 1 = 1
    BY <2>2, <2>3
  <2> QED BY <2>2, <2>4, PartsAre
<1>2. ASSUME NEW load \in {"lh", "lb", "lbu"}, Runs(WordWise(load))
      PROVE  /\ x[3] = (x[1] % Two[2 * Byte]) + half * Two[2 * Byte]
             /\ x[4] = Loaded(load, 2) /\ Assembled(2, 2) = half /\ Assembled(2, 1) = half % Two[Byte]
  <2>1. WordsDone(load) /\ at = 4
    BY <1>2 DEF InstructionInductive, Going, Runs, Done, WordWise
  <2>2. x[3] = Loaded("lw", 0) /\ x[4] = Loaded(load, 2) /\ ram[0] = low1
        /\ ram[1] = (x[1] \div Two[Byte]) % Two[Byte]
        /\ ram[2] = low2 /\ ram[3] = (x[2] \div Two[Byte]) % Two[Byte] /\ x[1] \in Nat /\ x[2] \in Nat
    BY <2>1, ValuesAreWords DEF WordsDone, Fixed
  <2>3. ram[0] \in Nat /\ ram[1] \in Nat /\ ram[2] \in Nat /\ ram[3] \in Nat
    BY <2>2, HalfIs
  <2>4. x[1] % Two[2 * Byte] = ram[0] + ram[1] * Two[Byte] /\ half = ram[2] + ram[3] * Two[Byte]
    BY <2>2, HalfIs
  <2>5. half % Two[Byte] = ram[2]
    BY <2>2, HalfIs
  <2>6. Assembled(2, 1) = ram[2] /\ Assembled(2, 2) = ram[2] + ram[3] * Two[Byte]
    <3>1. 2 + 1 = 3 /\ 2 \in {0, 2}
      OBVIOUS
    <3> QED BY <2>3, <3>1, PartsAre
  <2>7. Assembled(0, 4) = (x[1] % Two[2 * Byte]) + half * Two[2 * Byte]
    <3>1. \A k \in 0..3 : ram[k] \in Nat
      BY <2>3
    <3> HIDE DEF half
    <3> QED BY <2>4, <3>1, FourParts, Zenon
  <2>8. Loaded("lw", 0) = (x[1] % Two[2 * Byte]) + half * Two[2 * Byte]
    <3>1. x[1] % Two[2 * Byte] \in 0..Two[2 * Byte]-1 /\ half \in 0..Two[2 * Byte]-1
      BY <2>2, HalfIs
    <3> HIDE DEF half
    <3> QED BY <2>7, <3>1, WholeWord, LoadsAre, Zenon
  <2> QED BY <2>2, <2>4, <2>5, <2>6, <2>8, Zenon
<1>3. Runs(ByteWise("lhu")) => x[3] = low1 + low2 * Two[Byte]
  BY <1>1, LoadsAre
<1>4. Runs(ByteWise("lh")) => x[3] = Wrapped(Signed(low1 + low2 * Two[Byte], 2 * Byte))
  BY <1>1, LoadsAre
<1>5. ASSUME NEW load \in {"lh", "lb", "lbu"}, Runs(WordWise(load))
      PROVE  /\ x[3] = (x[1] % Two[2 * Byte]) + half * Two[2 * Byte]
             /\ x[4] = CASE load = "lh" -> Wrapped(Signed(half, 2 * Byte))
                         [] load = "lb" -> Wrapped(Signed(half % Two[Byte], Byte))
                         [] load = "lbu" -> half % Two[Byte]
  BY <1>2, <1>5, LoadsAre
<1> QED BY <1>3, <1>4, <1>5 DEF BytesCompose

(* Signed order is the unsigned order of the values moved by half the range.  *)
LEMMA MovedIs == ASSUME NEW v \in Values PROVE Wrapped(v + HalfSize) = Signed(v, Width) + HalfSize
<1>1. HalfSize \in Nat \ {0} /\ WordSize = 2 * HalfSize /\ v \in Nat /\ v < WordSize
  BY WordSizeIs DEF HalfSize
<1>2. CASE v < HalfSize
  <2>1. v + HalfSize \in Values
    BY <1>1, <1>2, WordSizeIs
  <2> QED BY <1>2, <2>1, ValuesAreWords, SignedIs
<1>3. CASE ~(v < HalfSize)
  <2>1. Splits(v + HalfSize, WordSize, 1, v - HalfSize)
    BY <1>1, <1>3 DEF Splits
  <2>2. Wrapped(v + HalfSize) = v - HalfSize
    BY <2>1, DivModIs, WordSizeIs
  <2> QED BY <1>1, <1>3, <2>2, SignedIs
<1> QED BY <1>2, <1>3

LEMMA CarryIs ==
    ASSUME NEW a \in Values, NEW b \in Values
    PROVE  /\ (IF Wrapped(a + b) < a THEN 1 ELSE 0) * WordSize + Wrapped(a + b) = a + b
           /\ Wrapped(a - b) - (IF a < Wrapped(a - b) THEN 1 ELSE 0) * WordSize = a - b
           /\ Wrapped(a - b) = 0 <=> a = b
<1>1. WordSize \in Nat \ {0} /\ a \in Nat /\ b \in Nat /\ a < WordSize /\ b < WordSize
      /\ 1 * WordSize = WordSize /\ 0 * WordSize = 0
  BY WordSizeIs
<1>2. (IF Wrapped(a + b) < a THEN 1 ELSE 0) * WordSize + Wrapped(a + b) = a + b
  <2>1. CASE a + b < WordSize
    <3>1. Wrapped(a + b) = a + b
      <4>1. a + b \in Values
        BY <1>1, <2>1, WordSizeIs
      <4> QED BY <4>1, ValuesAreWords
    <3>2. ~(Wrapped(a + b) < a)
      BY <1>1, <3>1
    <3> QED BY <1>1, <3>1, <3>2
  <2>2. CASE ~(a + b < WordSize)
    <3>1. Splits(a + b, WordSize, 1, a + b - WordSize)
      BY <1>1, <2>2 DEF Splits
    <3>2. Wrapped(a + b) = a + b - WordSize
      BY <3>1, DivModIs, WordSizeIs
    <3>3. Wrapped(a + b) < a
      BY <1>1, <3>2
    <3> QED BY <1>1, <3>2, <3>3
  <2> QED BY <2>1, <2>2
<1>3. /\ Wrapped(a - b) - (IF a < Wrapped(a - b) THEN 1 ELSE 0) * WordSize = a - b
      /\ Wrapped(a - b) = 0 <=> a = b
  <2>1. CASE b <= a
    <3>1. a - b \in Values
      BY <1>1, <2>1, WordSizeIs
    <3>2. Wrapped(a - b) = a - b
      BY <3>1, ValuesAreWords
    <3>3. ~(a < Wrapped(a - b))
      BY <1>1, <3>2
    <3> QED BY <1>1, <3>2, <3>3
  <2>2. CASE ~(b <= a)
    <3>1. Splits(a - b, WordSize, -1, a - b + WordSize)
      <4>1. WordSize * (-1) = -WordSize
        BY <1>1
      <4> QED BY <1>1, <2>2, <4>1 DEF Splits
    <3>2. Wrapped(a - b) = a - b + WordSize
      BY <3>1, DivModIs, WordSizeIs
    <3>3. a < Wrapped(a - b)
      BY <1>1, <3>2
    <3> QED BY <1>1, <2>2, <3>2, <3>3
  <2> QED BY <2>1, <2>2
<1> QED BY <1>2, <1>3

(* Bits that are set are there, bits that are cleared are not.                *)
LEMMA BitsSetOrNot ==
    ASSUME NEW c, NEW m
    PROVE  /\ m \in Values => And(Or(c, m), m) = m
           /\ And(And(c, Complement(m)), m) = 0
<1>1. And(Or(c, m), m) = FromBits((BitsOf(c) \cup BitsOf(m)) \cap BitsOf(m))
  BY BitsOfThese DEF And
<1>2. (BitsOf(c) \cup BitsOf(m)) \cap BitsOf(m) = BitsOf(m)
  OBVIOUS
<1>3. m \in Values => FromBits(BitsOf(m)) = m
  BY ValuesAreWords
<1>4. And(And(c, Complement(m)), m) = FromBits((BitsOf(c) \cap (AllBits \ BitsOf(m))) \cap BitsOf(m))
  <2>1. BitsOf(And(c, Complement(m))) = BitsOf(c) \cap (AllBits \ BitsOf(m))
    <3>1. BitsOf(And(c, Complement(m))) = BitsOf(c) \cap BitsOf(Complement(m))
      BY BitsOfThese
    <3>2. BitsOf(Complement(m)) = AllBits \ BitsOf(m)
      BY BitsOfThese
    <3> QED BY <3>1, <3>2, Zenon
  <2>2. And(And(c, Complement(m)), m) = FromBits(BitsOf(And(c, Complement(m))) \cap BitsOf(m))
    BY DEF And
  <2> QED BY <2>1, <2>2, Zenon
<1>5. (BitsOf(c) \cap (AllBits \ BitsOf(m))) \cap BitsOf(m) = {}
  OBVIOUS
<1>6. FromBits({}) = 0
  <2>1. FromBits({} \cup {}) = FromBits({}) + FromBits({})
    BY SumOfTwo
  <2>2. {} \cup {} = {}
    OBVIOUS
  <2>3. FromBits({}) = FromBits({}) + FromBits({})
    BY <2>1, <2>2, Zenon
  <2>4. FromBits({}) \in Nat
    BY SumInValues, ValuesAreWords
  <2>5. \A n \in Nat : n = n + n => n = 0
    OBVIOUS
  <2> QED BY <2>3, <2>4, <2>5, Zenon
<1>7. And(Or(c, m), m) = FromBits(BitsOf(m))
  BY <1>1, <1>2, Zenon
<1>8. And(And(c, Complement(m)), m) = FromBits({})
  BY <1>4, <1>5, Zenon
<1> QED BY <1>3, <1>6, <1>7, <1>8

-----------------------------------------------------------------------------
(* The sequences compute what they are for.                                   *)
LEMMA TwoOpsDo ==
    ASSUME InstructionInductive, NEW op1 \in Operations, NEW op2 \in Operations,
           NEW r \in {1, 2, 3}, NEW s \in {1, 2, 3}, Runs(TwoOps(op1, op2, r, s))
    PROVE  /\ x[1] \in Values /\ x[2] \in Values /\ ~HostTraps(op1, x[1], x[2])
           /\ x[3] = Result(op1, x[1], x[2]) /\ x[4] = Result(op2, x[r], x[s])
<1>1. TwoOpsDone(op1, op2, r, s) /\ at = 2
  BY DEF InstructionInductive, Going, Runs, Done, TwoOps
<1> QED BY <1>1 DEF TwoOpsDone, Fixed

LEMMA DivisionIsRight == ASSUME InstructionInductive PROVE DivisionExact
<1>1. ASSUME Runs(Pair("div", "rem"))
      PROVE  IF x[2] = 0 THEN x[3] = WordSize - 1 /\ x[4] = x[1]
             ELSE DivisionHolds(Signed(x[1], Width), Signed(x[2], Width),
                                Signed(x[3], Width), Signed(x[4], Width))
  <2>1. Runs(TwoOps("div", "rem", 1, 2))
    BY <1>1 DEF Pair, TwoOps
  <2>2. x[1] \in Values /\ x[2] \in Values /\ ~HostTraps("div", x[1], x[2])
        /\ x[3] = Result("div", x[1], x[2]) /\ x[4] = Result("rem", x[1], x[2])
    <3>1. "div" \in Operations /\ "rem" \in Operations /\ 1 \in {1, 2, 3} /\ 2 \in {1, 2, 3}
      BY DEF Operations
    <3> QED BY <2>1, <3>1, TwoOpsDo, Zenon
  <2>3. x[3] = Divided("div", x[1], x[2]) /\ x[4] = Divided("rem", x[1], x[2])
    BY <2>2 DEF Result
  <2>4. CASE x[2] = 0
    BY <2>3, <2>4, MinusOne DEF Divided
  <2>5. CASE x[2] # 0
    BY <2>2, <2>3, <2>5, SignedDivision
  <2> QED BY <2>4, <2>5
<1>2. ASSUME Runs(Pair("divu", "remu"))
      PROVE  IF x[2] = 0 THEN x[3] = WordSize - 1 /\ x[4] = x[1] ELSE DivisionHolds(x[1], x[2], x[3], x[4])
  <2>1. Runs(TwoOps("divu", "remu", 1, 2))
    BY <1>2 DEF Pair, TwoOps
  <2>2. x[1] \in Values /\ x[2] \in Values
        /\ x[3] = Result("divu", x[1], x[2]) /\ x[4] = Result("remu", x[1], x[2])
    <3>1. "divu" \in Operations /\ "remu" \in Operations /\ 1 \in {1, 2, 3} /\ 2 \in {1, 2, 3}
      BY DEF Operations
    <3> QED BY <2>1, <3>1, TwoOpsDo, Zenon
  <2>3. x[3] = Divided("divu", x[1], x[2]) /\ x[4] = Divided("remu", x[1], x[2])
    BY <2>2 DEF Result
  <2>4. CASE x[2] = 0
    BY <2>3, <2>4, MinusOne DEF Divided
  <2>5. CASE x[2] # 0
    BY <2>2, <2>3, <2>5, UnsignedDivision
  <2> QED BY <2>4, <2>5
<1> QED BY <1>1, <1>2 DEF DivisionExact, DivisionHolds, WordSize

LEMMA ProductIsRight == ASSUME InstructionInductive PROVE ProductExact
<1> SUFFICES ASSUME NEW high \in {"mulh", "mulhsu", "mulhu"}, Runs(Pair("mul", high))
             PROVE  ProductHolds(IF high = "mulhu" THEN x[1] ELSE Signed(x[1], Width),
                                 IF high = "mulh" THEN Signed(x[2], Width) ELSE x[2], x[3], x[4])
  BY DoubleWord DEF ProductExact, ProductHolds, WordSize
<1>1. Runs(TwoOps("mul", high, 1, 2))
  BY DEF Pair, TwoOps
<1>2. x[1] \in Values /\ x[2] \in Values /\ x[3] = Result("mul", x[1], x[2])
      /\ x[4] = Result(high, x[1], x[2])
  <2>1. "mul" \in Operations /\ high \in Operations /\ 1 \in {1, 2, 3} /\ 2 \in {1, 2, 3}
    BY DEF Operations
  <2> QED BY <1>1, <2>1, TwoOpsDo, Zenon
<1>3. x[3] = Multiplied("mul", x[1], x[2]) /\ x[4] = Multiplied(high, x[1], x[2])
  BY <1>2 DEF Result
<1> QED BY <1>2, <1>3, ProductIs

LEMMA ExtensionIsRight == ASSUME InstructionInductive PROVE ExtensionExact
<1>1. ASSUME NEW shift \in {"srl", "sra"}, Runs(Narrow(shift))
      PROVE  x[1] \in Values /\ x[2] \in Values /\ x[4] = Shifted(shift, Shifted("sll", x[1], x[2]), x[2])
  <2>1. Runs(TwoOps("sll", shift, 3, 2))
    BY <1>1 DEF Narrow, TwoOps
  <2>2. x[1] \in Values /\ x[2] \in Values /\ x[3] = Result("sll", x[1], x[2])
        /\ x[4] = Result(shift, x[3], x[2])
    <3>1. "sll" \in Operations /\ shift \in Operations /\ 3 \in {1, 2, 3} /\ 2 \in {1, 2, 3}
      BY DEF Operations
    <3> QED BY <2>1, <3>1, TwoOpsDo, Zenon
  <2> QED BY <2>2 DEF Result
<1>2. ASSUME Runs(Narrow("srl")) PROVE x[4] = x[1] % Two[Width - (x[2] % Width)]
  BY <1>1, <1>2, NarrowIs DEF NarrowHolds
<1>3. ASSUME Runs(Narrow("sra"))
      PROVE  /\ x[4] % Two[Width - (x[2] % Width)] = x[1] % Two[Width - (x[2] % Width)]
             /\ Signed(x[4], Width) \in -Two[(Width - (x[2] % Width))-1]..Two[(Width - (x[2] % Width))-1]-1
  BY <1>1, <1>3, NarrowIs DEF NarrowHolds
<1> QED BY <1>2, <1>3 DEF ExtensionExact

LEMMA TestDoes ==
    ASSUME InstructionInductive, NEW op \in Operations, NEW b \in Branches, Runs(Test(op, b))
    PROVE  /\ x[1] \in Values /\ x[2] \in Values /\ x[3] = Result(op, x[1], x[2])
           /\ x[4] = 1 <=> ~Taken(b, x[1], x[2])
<1>1. TestDone(op, b) /\ at = 3
  BY DEF InstructionInductive, Going, Runs, Done, Test
<1> QED BY <1>1 DEF TestDone, Fixed

LEMMA ComparisonsAreRight == ASSUME InstructionInductive PROVE ComparisonsAgree
<1>1. ASSUME NEW b \in {"blt", "bge"}, Runs(Test("slt", b))
      PROVE  /\ (x[4] = 1 <=> ~Taken(b, x[1], x[2]))
             /\ x[3] = IF Less("slt", x[1], x[2]) THEN 1 ELSE 0
             /\ Less("slt", x[1], x[2]) <=> Wrapped(x[1] + Two[Width-1]) < Wrapped(x[2] + Two[Width-1])
  <2>1. x[1] \in Values /\ x[2] \in Values /\ x[3] = Result("slt", x[1], x[2])
        /\ (x[4] = 1 <=> ~Taken(b, x[1], x[2]))
    <3>1. "slt" \in Operations /\ b \in Branches
      BY DEF Operations, Branches
    <3> QED BY <1>1, <3>1, TestDoes, Zenon
  <2>2. x[3] = IF Less("slt", x[1], x[2]) THEN 1 ELSE 0
    BY <2>1 DEF Result
  <2>3. Less("slt", x[1], x[2]) <=> Signed(x[1], Width) < Signed(x[2], Width)
    BY DEF Less
  <2>4. Wrapped(x[1] + HalfSize) = Signed(x[1], Width) + HalfSize
        /\ Wrapped(x[2] + HalfSize) = Signed(x[2], Width) + HalfSize
    BY <2>1, MovedIs
  <2>5. Signed(x[1], Width) \in Int /\ Signed(x[2], Width) \in Int /\ HalfSize \in Int
    <3>1. HalfSize \in Int
      BY WordSizeIs DEF HalfSize
    <3>2. Signed(x[1], Width) \in -HalfSize..HalfSize-1 /\ Signed(x[2], Width) \in -HalfSize..HalfSize-1
      BY <2>1, SignedIs, Zenon
    <3> QED BY <3>1, <3>2
  <2>6. Signed(x[1], Width) < Signed(x[2], Width) <=> Wrapped(x[1] + HalfSize) < Wrapped(x[2] + HalfSize)
    BY <2>4, <2>5
  <2> QED BY <2>1, <2>2, <2>3, <2>6 DEF HalfSize
<1>2. ASSUME NEW b \in {"bltu", "bgeu"}, Runs(Test("sltu", b))
      PROVE  (x[4] = 1 <=> ~Taken(b, x[1], x[2])) /\ x[3] = IF Less("sltu", x[1], x[2]) THEN 1 ELSE 0
  <2>1. x[3] = Result("sltu", x[1], x[2]) /\ (x[4] = 1 <=> ~Taken(b, x[1], x[2]))
    <3>1. "sltu" \in Operations /\ b \in Branches
      BY DEF Operations, Branches
    <3> QED BY <1>2, <3>1, TestDoes, Zenon
  <2> QED BY <2>1 DEF Result
<1>3. ASSUME NEW b \in {"beq", "bne"}, Runs(Test("sub", b))
      PROVE  (x[4] = 1 <=> ~Taken(b, x[1], x[2])) /\ (x[3] = 0 <=> x[1] = x[2])
  <2>1. x[1] \in Values /\ x[2] \in Values /\ x[3] = Result("sub", x[1], x[2])
        /\ (x[4] = 1 <=> ~Taken(b, x[1], x[2]))
    <3>1. "sub" \in Operations /\ b \in Branches
      BY DEF Operations, Branches
    <3> QED BY <1>3, <3>1, TestDoes, Zenon
  <2>2. x[3] = Wrapped(x[1] - x[2])
    BY <2>1 DEF Result, Combined
  <2> QED BY <2>1, <2>2, CarryIs
<1>4. ASSUME Runs(Carry) PROVE x[4] * WordSize + x[3] = x[1] + x[2]
  <2>1. Runs(TwoOps("add", "sltu", 3, 1))
    BY <1>4 DEF Carry, TwoOps
  <2>2. x[1] \in Values /\ x[2] \in Values /\ x[3] = Result("add", x[1], x[2])
        /\ x[4] = Result("sltu", x[3], x[1])
    <3>1. "add" \in Operations /\ "sltu" \in Operations /\ 1 \in {1, 2, 3} /\ 3 \in {1, 2, 3}
      BY DEF Operations
    <3> QED BY <2>1, <3>1, TwoOpsDo, Zenon
  <2>3. x[3] = Wrapped(x[1] + x[2]) /\ x[4] = IF x[3] < x[1] THEN 1 ELSE 0
    BY <2>2 DEF Result, Combined, Less
  <2> QED BY <2>2, <2>3, CarryIs
<1>5. ASSUME Runs(Borrow) PROVE x[3] - x[4] * WordSize = x[1] - x[2]
  <2>1. Runs(TwoOps("sub", "sltu", 1, 3))
    BY <1>5 DEF Borrow, TwoOps
  <2>2. x[1] \in Values /\ x[2] \in Values /\ x[3] = Result("sub", x[1], x[2])
        /\ x[4] = Result("sltu", x[1], x[3])
    <3>1. "sub" \in Operations /\ "sltu" \in Operations /\ 1 \in {1, 2, 3} /\ 3 \in {1, 2, 3}
      BY DEF Operations
    <3> QED BY <2>1, <3>1, TwoOpsDo, Zenon
  <2>3. x[3] = Wrapped(x[1] - x[2]) /\ x[4] = IF x[1] < x[3] THEN 1 ELSE 0
    BY <2>2 DEF Result, Combined, Less
  <2> QED BY <2>2, <2>3, CarryIs
<1>6. ASSUME Runs(Pair("xor", "and")) PROVE Wrapped(x[3] + 2 * x[4]) = Wrapped(x[1] + x[2])
  <2>1. Runs(TwoOps("xor", "and", 1, 2))
    BY <1>6 DEF Pair, TwoOps
  <2>2. x[1] \in Values /\ x[2] \in Values /\ x[3] = Result("xor", x[1], x[2])
        /\ x[4] = Result("and", x[1], x[2])
    <3>1. "xor" \in Operations /\ "and" \in Operations /\ 1 \in {1, 2, 3} /\ 2 \in {1, 2, 3}
      BY DEF Operations
    <3> QED BY <2>1, <3>1, TwoOpsDo, Zenon
  <2>3. x[3] = Xor(x[1], x[2]) /\ x[4] = And(x[1], x[2])
    BY <2>2 DEF Result, Combined
  <2> QED BY <2>2, <2>3, SumByBits
<1>7. \A a, b : /\ Taken("blt", a, b) <=> Less("blt", a, b)
                /\ Taken("bge", a, b) <=> ~Less("bge", a, b)
                /\ Taken("bltu", a, b) <=> Less("bltu", a, b)
                /\ Taken("bgeu", a, b) <=> ~Less("bgeu", a, b)
                /\ Taken("beq", a, b) <=> a = b
                /\ Taken("bne", a, b) <=> a # b
  BY DEF Taken
<1>8. \A a, b : /\ Less("blt", a, b) <=> Less("slt", a, b)
                /\ Less("bge", a, b) <=> Less("slt", a, b)
                /\ Less("bltu", a, b) <=> Less("sltu", a, b)
                /\ Less("bgeu", a, b) <=> Less("sltu", a, b)
  BY DEF Less
<1>9. Runs(Test("slt", "blt")) => (x[4] = 1 <=> x[3] = 0)
      /\ (x[3] = 1 <=> Wrapped(x[1] + Two[Width-1]) < Wrapped(x[2] + Two[Width-1]))
  BY <1>1, <1>7, <1>8
<1>10. Runs(Test("slt", "bge")) => (x[4] = 1 <=> x[3] = 1)
  BY <1>1, <1>7, <1>8
<1>11. Runs(Test("sltu", "bltu")) => (x[4] = 1 <=> x[3] = 0)
  BY <1>2, <1>7, <1>8
<1>12. Runs(Test("sltu", "bgeu")) => (x[4] = 1 <=> x[3] = 1)
  BY <1>2, <1>7, <1>8
<1>13. Runs(Test("sub", "beq")) => (x[4] = 1 <=> x[3] # 0)
  BY <1>3, <1>7
<1>14. Runs(Test("sub", "bne")) => (x[4] = 1 <=> x[3] = 0)
  BY <1>3, <1>7
<1> QED BY <1>4, <1>5, <1>6, <1>9, <1>10, <1>11, <1>12, <1>13, <1>14 DEF ComparisonsAgree, WordSize

LEMMA ConstantsAreRight == ASSUME InstructionInductive PROVE ConstantLoads
<1> SUFFICES ASSUME NEW v \in Values, Runs(Li(v)) PROVE x[3] = v
  BY DEF ConstantLoads
<1>1. LoadsDone(v) /\ at = 2
  BY DEF InstructionInductive, Going, Runs, Done, Li
<1> QED BY <1>1, ConstantIs DEF LoadsDone

LEMMA CsrIsRight == ASSUME InstructionInductive PROVE CsrHolds
<1>1. ASSUME NEW op, NEW v, CsrDone(op, v), at = 2
      PROVE  /\ x[3] = before /\ csr = before /\ x[4] = Changed(op, before, v)
             /\ before \in {0, CsrMask}
  BY <1>1, MaskKeeps DEF CsrDone
<1>2. ASSUME NEW op \in {"csrrs", "csrrc"}, Runs(Masked(op))
      PROVE  /\ x[3] = before /\ csr = before
             /\ x[4] = before + (IF op = "csrrs" THEN 1 ELSE -1) *
                              And(And(x[1], CsrMask), IF op = "csrrs" THEN Complement(before) ELSE before)
  <2>1. CsrDone(op, x[1]) /\ at = 2
    BY <1>2 DEF InstructionInductive, Going, Runs, Done, Masked
  <2>2. x[3] = before /\ csr = before /\ x[4] = Changed(op, before, x[1]) /\ before \in {0, CsrMask}
    BY <1>1, <2>1
  <2>3. before \in Values /\ BitsOf(before) \subseteq BitsOf(CsrMask) /\ And(x[1], CsrMask) \in Values
    BY <2>2, MaskKeeps, BitsOfThese
  <2>4. \A c, d : And(c, d) \in Int /\ before \in Int
    BY <2>3, BitsOfThese, ValuesAreWords
  <2>5. CASE op = "csrrs"
    <3>1. x[4] = Or(before, And(x[1], CsrMask))
      BY <2>2, <2>5 DEF Changed
    <3>2. x[4] = before + And(And(x[1], CsrMask), Complement(before))
      BY <2>3, <3>1, SettingAdds
    <3>3. PICK d \in Int : d = And(And(x[1], CsrMask), Complement(before)) /\ 1 * d = d
      BY <2>4
    <3> QED BY <2>2, <2>5, <3>2, <3>3
  <2>6. CASE op = "csrrc"
    <3>1. x[4] = And(before, Complement(x[1]))
      BY <2>2, <2>6 DEF Changed
    <3>2. x[4] = before - And(And(x[1], CsrMask), before)
      BY <2>3, <3>1, ClearingTakes
    <3>3. PICK d \in Int : d = And(And(x[1], CsrMask), before) /\ (-1) * d = -d
      BY <2>4
    <3>4. before - d = before + (-1) * d
      BY <2>4, <3>3
    <3> QED BY <2>2, <2>6, <3>2, <3>3, <3>4
  <2> QED BY <2>5, <2>6
<1>3. ASSUME NEW op \in {"csrrsi", "csrrci", "csrrwi"}, NEW u \in Uimms, Runs(WithUimm(op, u))
      PROVE  x[3] = before /\ csr = before /\ x[4] = Changed(op, before, u)
  <2>1. CsrDone(op, u) /\ at = 2
    BY <1>3 DEF InstructionInductive, Going, Runs, Done, WithUimm
  <2> QED BY <1>1, <2>1
<1>4. ASSUME NEW u \in Uimms, Runs(WithUimm("csrrwi", u))
      PROVE x[3] = before /\ csr = before /\ x[4] = And(u, CsrMask)
  BY <1>3, <1>4 DEF Changed
<1>5. ASSUME NEW u \in Uimms, Runs(WithUimm("csrrsi", u))
      PROVE csr = before /\ And(x[4], And(u, CsrMask)) = And(u, CsrMask)
  <2>1. csr = before /\ x[4] = Or(before, And(u, CsrMask))
    BY <1>3, <1>5 DEF Changed
  <2> QED BY <2>1, BitsSetOrNot, BitsOfThese
<1>6. ASSUME NEW u \in Uimms, Runs(WithUimm("csrrci", u)) PROVE csr = before /\ And(x[4], u) = 0
  <2>1. csr = before /\ x[4] = And(before, Complement(u))
    BY <1>3, <1>6 DEF Changed
  <2> QED BY <2>1, BitsSetOrNot
<1> QED BY <1>2, <1>4, <1>5, <1>6 DEF CsrHolds

LEMMA CallsAreRight == ASSUME InstructionInductive PROVE CallReturns
<1>1. Len(Call1) = 4 /\ Len(CallFar) = 6
  BY DEF Call1, CallFar
<1> QED BY <1>1 DEF InstructionInductive, NearDone, FarDone, CallReturns

LEMMA InstructionsAreExact == InstructionInductive => ResultsExact
  BY DivisionIsRight, ProductIsRight, ExtensionIsRight, ComparisonsAreRight, ConstantsAreRight, BytesAreRight,
     CsrIsRight, CallsAreRight DEF ResultsExact

LEMMA InstructionsStep == InstructionInductive /\ [InstructionNext]_instructionVars => InstructionInductive'
<1> SUFFICES ASSUME InstructionInductive, [InstructionNext]_instructionVars PROVE InstructionInductive'
  OBVIOUS
<1>1. CASE InstructionNext
  <2>1. \A op1, op2 \in Operations, r, s \in {1, 2, 3} :
           Going(TwoOps(op1, op2, r, s), TwoOpsDone(op1, op2, r, s))'
    BY <1>1, TwoOpsKeep DEF InstructionInductive
  <2>2. \A v \in Values : Going(Li(v), LoadsDone(v))'
    BY <1>1, LoadsKeep DEF InstructionInductive
  <2>3. \A op \in Operations, b \in Branches : Going(Test(op, b), TestDone(op, b))'
    BY <1>1, TestKeeps DEF InstructionInductive
  <2>4. (code = Call1 => NearDone') /\ (code = CallFar => FarDone') /\ code' = code
    BY <1>1, NearKeeps, FarKeeps, RunningIs DEF InstructionInductive
  <2>5. \A load \in {"lh", "lhu"} : Going(ByteWise(load), BytesDone(load))'
    BY <1>1, BytesKeep DEF InstructionInductive
  <2>6. \A load \in {"lh", "lb", "lbu"} : Going(WordWise(load), WordsDone(load))'
    BY <1>1, WordsKeep DEF InstructionInductive
  <2>7. \A op \in {"csrrs", "csrrc"} : Going(Masked(op), CsrDone(op, x[1]))'
    BY <1>1, MaskedKeeps DEF InstructionInductive
  <2>8. \A op \in {"csrrsi", "csrrci", "csrrwi"}, u \in Uimms : Going(WithUimm(op, u), CsrDone(op, u))'
    BY <1>1, UimmKeeps DEF InstructionInductive
  <2>9. (code' = Call1 => NearDone') /\ (code' = CallFar => FarDone')
    BY <2>4
  <2> QED BY <2>1, <2>2, <2>3, <2>5, <2>6, <2>7, <2>8, <2>9 DEF InstructionInductive, Values, Uimms
<1>2. CASE UNCHANGED instructionVars
  BY <1>2 DEF InstructionInductive, instructionVars, Going, TwoOpsDone, LoadsDone, TestDone, NearDone,
     FarDone, BytesDone, WordsDone, CsrDone, Fixed, RamIs, Loaded, Assembled
<1> QED BY <1>1, <1>2

(* Whatever sequence of instructions compilers build is executed, with words  *)
(* of any size and any operands, its results are those of the guest's         *)
(* arithmetic: quotients and remainders, products of two words, narrow values *)
(* extended, comparisons, carries, constants, bytes put together, control     *)
(* registers changed and restored, calls that return.                         *)
THEOREM InstructionsSafe == InstructionSpec => []ResultsExact
<1>1. InstructionInit => InstructionInductive
  BY InstructionsStart
<1>2. InstructionInductive /\ [InstructionNext]_instructionVars => InstructionInductive'
  BY InstructionsStep
<1>3. InstructionInductive => ResultsExact
  BY InstructionsAreExact
<1> QED BY <1>1, <1>2, <1>3, PTL DEF InstructionSpec
=============================================================================
