-------------------------- MODULE CacheProbeProofs --------------------------
(***************************************************************************)
(* What the cache probe of hw01 measures and finds, for tables of any      *)
(* size: the loads of a measurement go round the words it has linked, and  *)
(* the search ends with the smallest array of all that deviate.            *)
(***************************************************************************)
EXTENDS CacheProbe, NaturalsInduction, WellFoundedInduction, TLAPS

-----------------------------------------------------------------------------
(* Arithmetic                                                              *)

LEMMA Products ==
    /\ \A a, b \in Nat : a * b \in Nat
    /\ \A a, b, c \in Nat : a <= b => a * c <= b * c /\ c * a <= c * b
    /\ \A a, c \in Nat : (a + 1) * c = a * c + c
    /\ \A a \in Int : 0 * a = 0 /\ 1 * a = a
<1>1. \A a, b \in Nat : a * b \in Nat
    OBVIOUS
<1>2. \A a, b, c \in Nat : a <= b => a * c <= b * c /\ c * a <= c * b
    OBVIOUS
<1>3. \A a, c \in Nat : (a + 1) * c = a * c + c
    OBVIOUS
<1>4. \A a \in Int : 0 * a = 0 /\ 1 * a = a
    OBVIOUS
<1> QED
    BY <1>1, <1>2, <1>3, <1>4

\* Going round in an array of m words.
LEMMA Wraps ==
    ASSUME NEW m \in Nat \ {0}, NEW a \in 0 .. m - 1
    PROVE  a % m = a /\ (a + m) % m = a /\ m % m = 0
OBVIOUS

\* A non-empty set of numbers has a least one.
LEMMA Least ==
    ASSUME NEW S \in SUBSET Nat, S # {}
    PROVE  \E i \in S : \A j \in S : i <= j
<1>1. \E i \in S : \A j \in S : ~(<< j, i >> \in OpToRel(<, Nat))
    BY WFMin, NatLessThanWellFounded
<1>2. PICK i \in S : \A j \in S : ~(j < i)
    BY <1>1 DEF OpToRel
<1>3. \A j \in S : i <= j
    BY <1>2
<1> QED
    BY <1>3

\* The strides grow with their numbers.
LEMMA StridesGrow ==
    ASSUME ProbeConstants, NEW b \in 1 .. Bits + 1, NEW c \in 1 .. Bits + 1, b <= c
    PROVE  Stride[b] <= Stride[c] /\ Stride[b] >= 2 /\ Stride[b] \in Nat
<1> DEFINE Bad == {d \in 1 .. Bits + 1 : Stride[d] < 2 \/ (b <= d /\ Stride[d] < Stride[b])}
<1>0. Bits \in Nat /\ Stride \in [1 .. Bits + 1 -> Nat] /\ Stride[1] = 2
    BY DEF ProbeConstants
<1>1. Bad = {}
    <2> SUFFICES ASSUME Bad # {} PROVE FALSE
        OBVIOUS
    <2>1. Bad \subseteq Nat
        BY <1>0
    <2>2. PICK d \in Bad : \A e \in Bad : d <= e
        BY <2>1, Least
    <2>3. CASE d = 1
        <3>1. Stride[d] = 2
            BY <1>0, <2>3
        <3>2. b <= d => b = d
            BY <2>3, <1>0
        <3> QED
            BY <2>2, <3>1, <3>2, <1>0
    <2>4. CASE d # 1
        <3>1. d \in Nat /\ d - 1 \in 1 .. Bits /\ (d - 1) + 1 = d
            BY <2>2, <2>4, <1>0
        <3>2. Stride[d] = 2 * Stride[d - 1] /\ Stride[d - 1] \in Nat
            BY <1>0, <3>1 DEF ProbeConstants
        <3>3. d - 1 \notin Bad
            BY <2>2, <3>1
        <3>4. Stride[d - 1] >= 2 /\ (b <= d - 1 => Stride[d - 1] >= Stride[b])
            BY <3>1, <3>3, <1>0
        <3>5. Stride[d] >= 2 /\ (b <= d - 1 => Stride[d] >= Stride[b]) /\ Stride[b] \in Nat
            BY <3>2, <3>4, <1>0
        <3>6. b <= d => b <= d - 1 \/ b = d
            BY <3>1
        <3>7. Stride[d] >= 2 /\ (b <= d => Stride[d] >= Stride[b]) /\ Stride[d] \in Nat
            BY <1>0, <3>1, <3>2, <3>5, <3>6
        <3> QED
            BY <2>2, <3>5, <3>7
    <2> QED
        BY <2>3, <2>4
<1>2. Stride[b] \in Nat /\ Stride[c] \in Nat
    BY <1>0
<1> QED
    BY <1>1, <1>2

-----------------------------------------------------------------------------
(* The links                                                               *)

\* Spot by spot downwards, and from the first to the last.
LEMMA LinksGoRound ==
    ASSUME NEW apart \in Nat \ {0}, NEW number \in Nat \ {0}
    PROVE  /\ DOMAIN Links(apart, number) = Spots(apart, number)
           /\ Links(apart, number)[0] = (number - 1) * apart
           /\ \A k \in 1 .. number - 1 :
                 Links(apart, number)[k * apart] = (k - 1) * apart
<1> DEFINE m == number * apart
<1>1. DOMAIN Links(apart, number) = Spots(apart, number)
    BY DEF Links
<1>2. number - 1 \in Nat /\ m \in Nat \ {0} /\ m = (number - 1) * apart + apart
      /\ (number - 1) * apart \in Nat
    <2>1. number - 1 \in Nat /\ (number - 1) + 1 = number
        OBVIOUS
    <2>2. m = (number - 1) * apart + apart /\ (number - 1) * apart \in Nat
        BY <2>1, Products
    <2> QED
        BY <2>1, <2>2
<1>3. \A i \in Spots(apart, number) : Links(apart, number)[i] = (i + m - apart) % m
    BY DEF Links
<1>4. Links(apart, number)[0] = (number - 1) * apart
    <2>1. 0 \in Spots(apart, number)
        <3>1. 0 * apart = 0 /\ 0 \in 0 .. number - 1
            BY <1>2, Products
        <3> QED
            BY <3>1 DEF Spots
    <2>2. Links(apart, number)[0] = (0 + m - apart) % m
        BY <1>3, <2>1
    <2> HIDE DEF m
    <2>3. 0 + m - apart = (number - 1) * apart /\ (number - 1) * apart \in 0 .. m - 1
        BY <1>2
    <2> QED
        BY <1>2, <2>2, <2>3, Wraps
<1>5. ASSUME NEW k \in 1 .. number - 1
      PROVE  Links(apart, number)[k * apart] = (k - 1) * apart
    <2>1. k * apart \in Spots(apart, number)
        BY DEF Spots
    <2>2. /\ k - 1 \in Nat /\ (k - 1) + 1 = k /\ k \in Nat /\ k - 1 <= number - 1
          /\ k * apart = (k - 1) * apart + apart
          /\ (k - 1) * apart \in Nat /\ (k - 1) * apart <= (number - 1) * apart
        <3>1. k - 1 \in Nat /\ (k - 1) + 1 = k /\ k \in Nat /\ k - 1 <= number - 1
            BY <1>2
        <3> QED
            BY <1>2, <3>1, Products
    <2>3. Links(apart, number)[k * apart] = (k * apart + m - apart) % m
        BY <1>3, <2>1
    <2> HIDE DEF m
    <2>4. k * apart + m - apart = (k - 1) * apart + m /\ (k - 1) * apart \in 0 .. m - 1
        BY <1>2, <2>2
    <2>5. ((k - 1) * apart + m) % m = (k - 1) * apart
        BY <1>2, <2>4, Wraps
    <2> QED
        BY <2>3, <2>4, <2>5
<1> QED
    BY <1>1, <1>4, <1>5

\* test: the loads touch every spot.
LEMMA ChasedSpots ==
    ASSUME NEW apart \in Nat \ {0}, NEW number \in Nat \ {0}
    PROVE  Chased(Links(apart, number)) = Spots(apart, number)
<1> DEFINE links == Links(apart, number)
           D == Spots(apart, number)
           Goes(S) == 0 \in S /\ \A i \in S : links[i] \in S
<1>1. DOMAIN links = D
    BY LinksGoRound
<1>2. links[0] = (number - 1) * apart
    BY LinksGoRound
<1>3. \A k \in 1 .. number - 1 : links[k * apart] = (k - 1) * apart
    BY LinksGoRound
<1>4. Chased(links) = {i \in D : \A S \in {T \in SUBSET D : Goes(T)} : i \in S}
    BY <1>1 DEF Chased
<1> HIDE DEF links
<1>5. ASSUME NEW S \in SUBSET D, Goes(S), NEW i \in D
      PROVE  i \in S
    <2>1. PICK c \in 0 .. number - 1 : i = c * apart
        BY DEF Spots
    <2> DEFINE Missed == {j \in 0 .. number - 1 : (number - 1 - j) * apart \notin S}
    <2>2. Missed = {}
        <3> SUFFICES ASSUME Missed # {} PROVE FALSE
            OBVIOUS
        <3>1. Missed \subseteq Nat
            OBVIOUS
        <3>2. PICK j \in Missed : \A e \in Missed : j <= e
            BY <3>1, Least
        <3>3. CASE j = 0
            <4>1. number - 1 - j = number - 1
                BY <3>3
            <4> QED
                BY <1>2, <1>5, <3>2, <4>1
        <3>4. CASE j # 0
            <4>1. /\ j - 1 \in 0 .. number - 1 /\ j - 1 < j
                  /\ number - 1 - (j - 1) = number - j
                  /\ number - j \in 1 .. number - 1 /\ number - j - 1 = number - 1 - j
                BY <3>2, <3>4
            <4>2. j - 1 \notin Missed
                BY <3>2, <4>1
            <4>3. (number - j) * apart \in S
                BY <4>1, <4>2
            <4>4. links[(number - j) * apart] = (number - 1 - j) * apart
                BY <1>3, <4>1
            <4> QED
                BY <1>5, <3>2, <4>3, <4>4
        <3> QED
            BY <3>3, <3>4
    <2>3. number - 1 - c \in 0 .. number - 1 /\ number - 1 - (number - 1 - c) = c
        BY <2>1
    <2> QED
        BY <2>1, <2>2, <2>3
<1>6. \A i \in D : \A S \in {T \in SUBSET D : Goes(T)} : i \in S
    BY <1>5
<1> QED
    BY <1>4, <1>6 DEF links

\* While the distance is less than the spots', no word is linked twice.
LEMMA PairsGoRound ==
    ASSUME NEW apart \in Nat \ {0}, NEW number \in Nat \ {0}, NEW line \in 1 .. apart - 1
    PROVE  LET links == LineLinks(line, apart, number)
           IN  /\ DOMAIN links =
                     Spots(apart, number) \cup {i + line : i \in Spots(apart, number)}
               /\ \A k \in 0 .. number - 1 : links[k * apart] = k * apart + line
               /\ \A k \in 1 .. number - 1 : links[(k - 1) * apart + line] = k * apart
<1> DEFINE m == number * apart
           firsts == {i \in Spots(apart, number) : i + line < m}
           seconds == {i + line : i \in firsts}
           links == LineLinks(line, apart, number)
<1>1. number - 1 \in Nat /\ m \in Nat \ {0} /\ m = (number - 1) * apart + apart
      /\ (number - 1) * apart \in Nat
    <2>1. number - 1 \in Nat /\ (number - 1) + 1 = number
        OBVIOUS
    <2>2. m = (number - 1) * apart + apart /\ (number - 1) * apart \in Nat
        BY <2>1, Products
    <2> QED
        BY <2>1, <2>2
<1>2. ASSUME NEW k \in 0 .. number - 1
      PROVE  k * apart \in Nat /\ k * apart <= (number - 1) * apart /\ k * apart + line < m
    <2>1. k \in Nat /\ k <= number - 1
        BY <1>1
    <2>2. k * apart \in Nat /\ k * apart <= (number - 1) * apart
        BY <1>1, <2>1, Products
    <2> HIDE DEF m
    <2> QED
        BY <1>1, <2>2
<1>3. firsts = Spots(apart, number)
    BY <1>2 DEF Spots
<1>4. DOMAIN links = firsts \cup seconds
    BY DEF LineLinks
<1>5. ASSUME NEW k \in 0 .. number - 1
      PROVE  links[k * apart] = k * apart + line
    <2>1. k * apart \in firsts
        BY <1>3 DEF Spots
    <2> QED
        BY <2>1 DEF LineLinks
<1>6. ASSUME NEW k \in 1 .. number - 1
      PROVE  links[(k - 1) * apart + line] = k * apart
    <2>1. /\ k - 1 \in 0 .. number - 1 /\ (k - 1) + 1 = k /\ k - 1 \in Nat /\ k \in Nat
          /\ k \in 0 .. number - 1
        BY <1>1
    <2>2. (k - 1) * apart \in firsts
        BY <1>3, <2>1 DEF Spots
    <2>3. (k - 1) * apart + line \notin firsts
        <3> SUFFICES ASSUME (k - 1) * apart + line \in firsts PROVE FALSE
            OBVIOUS
        <3>1. PICK c \in 0 .. number - 1 : (k - 1) * apart + line = c * apart
            BY DEF Spots
        <3>2. /\ (k - 1) * apart \in Nat /\ k * apart = (k - 1) * apart + apart
              /\ c * apart \in Nat /\ c \in Nat
            BY <1>2, <2>1, <3>1, Products
        <3>3. CASE c <= k - 1
            <4>1. c * apart <= (k - 1) * apart
                BY <2>1, <3>2, <3>3, Products
            <4> QED
                BY <3>1, <3>2, <4>1
        <3>4. CASE k <= c
            <4>1. k * apart <= c * apart
                BY <2>1, <3>2, <3>4, Products
            <4> QED
                BY <3>1, <3>2, <4>1
        <3> QED
            BY <2>1, <3>2, <3>3, <3>4
    <2>4. links[(k - 1) * apart + line] = ((k - 1) * apart + line - line + apart) % m
        BY <2>2, <2>3 DEF LineLinks
    <2>5. k * apart = (k - 1) * apart + apart /\ (k - 1) * apart \in Nat
        BY <2>1, Products
    <2>6. (k - 1) * apart + line - line + apart = k * apart /\ k * apart \in 0 .. m - 1
        <3> HIDE DEF m
        <3> QED
            BY <1>2, <2>1, <2>5, <1>1
    <2>7. (k * apart) % m = k * apart
        <3> HIDE DEF m
        <3> QED
            BY <1>1, <2>6, Wraps
    <2> QED
        BY <2>4, <2>6, <2>7
<1> QED
    BY <1>3, <1>4, <1>5, <1>6

\* test_line_size: the loads touch two words in every spot.
LEMMA ChasedPairs ==
    ASSUME NEW apart \in Nat \ {0}, NEW number \in Nat \ {0}, NEW line \in 1 .. apart - 1
    PROVE  Chased(LineLinks(line, apart, number)) =
               Spots(apart, number) \cup {i + line : i \in Spots(apart, number)}
<1> DEFINE links == LineLinks(line, apart, number)
           D == Spots(apart, number) \cup {i + line : i \in Spots(apart, number)}
           Goes(S) == 0 \in S /\ \A i \in S : links[i] \in S
<1>1. DOMAIN links = D
    BY PairsGoRound
<1>2. \A k \in 0 .. number - 1 : links[k * apart] = k * apart + line
    BY PairsGoRound
<1>3. \A k \in 1 .. number - 1 : links[(k - 1) * apart + line] = k * apart
    BY PairsGoRound
<1>4. Chased(links) = {i \in D : \A S \in {T \in SUBSET D : Goes(T)} : i \in S}
    BY <1>1 DEF Chased
<1> HIDE DEF links
<1>5. ASSUME NEW S \in SUBSET D, Goes(S), NEW i \in D
      PROVE  i \in S
    <2> DEFINE Missed == {k \in 0 .. number - 1 : k * apart \notin S}
    <2>1. ASSUME NEW k \in 0 .. number - 1, k * apart \in S
          PROVE  k * apart + line \in S
        BY <1>2, <1>5, <2>1
    <2>2. Missed = {}
        <3> SUFFICES ASSUME Missed # {} PROVE FALSE
            OBVIOUS
        <3>1. Missed \subseteq Nat
            OBVIOUS
        <3>2. PICK k \in Missed : \A e \in Missed : k <= e
            BY <3>1, Least
        <3>3. CASE k = 0
            <4>1. 0 * apart = 0
                BY Products
            <4> QED
                BY <1>5, <3>2, <3>3, <4>1
        <3>4. CASE k # 0
            <4>1. k - 1 \in 0 .. number - 1 /\ k - 1 < k /\ k \in 1 .. number - 1
                BY <3>2, <3>4
            <4>2. k - 1 \notin Missed
                BY <3>2, <4>1
            <4>3. (k - 1) * apart \in S
                BY <4>1, <4>2
            <4>4. (k - 1) * apart + line \in S
                BY <2>1, <4>1, <4>3
            <4>5. links[(k - 1) * apart + line] = k * apart
                BY <1>3, <4>1
            <4> QED
                BY <1>5, <3>2, <4>4, <4>5
        <3> QED
            BY <3>3, <3>4
    <2>3. CASE i \in Spots(apart, number)
        BY <2>2, <2>3 DEF Spots
    <2>4. CASE i \in {e + line : e \in Spots(apart, number)}
        <3>1. PICK k \in 0 .. number - 1 : i = k * apart + line
            BY <2>4 DEF Spots
        <3> QED
            BY <2>1, <2>2, <3>1
    <2> QED
        BY <2>3, <2>4
<1>6. \A i \in D : \A S \in {T \in SUBSET D : Goes(T)} : i \in S
    BY <1>5
<1> QED
    BY <1>4, <1>6 DEF links

-----------------------------------------------------------------------------
(* The inductive invariant                                                 *)

\* The indices each phase leaves its loops with.
Loops ==
    /\ pc \in {"table", "threshold"} => candidate = Largest
    /\ pc = "search" => spots < MAX_ASSOC /\ \A b \in 1 .. idx_bit - 1 : ~Deviates(b, spots)
    /\ pc = "lines" => cache_line > 0

\* The rows the search has left behind.
Passed == {e \in DeviatingEntries : pc = "search" => e[2] < spots}

\* The candidate is the best of those.
BestOfPassed ==
    pc \notin {"table", "threshold"} =>
        \/ candidate = Largest /\ Passed = {}
        \/ /\ \E e \in Passed : candidate = Found(e[1], e[2])
           /\ \A e \in Passed : Size(candidate) <= Size(Found(e[1], e[2]))

IInv == TypeOK /\ Loops /\ BestOfPassed /\ MeasuresEverySpot /\ StaysInArray

LEMMA Constants ==
    ASSUME ProbeConstants
    PROVE  /\ MAX_ASSOC \in Nat /\ MAX_ASSOC > 1 /\ Bits \in Nat /\ Bits > 1
           /\ \A b \in 1 .. Bits + 1 : Stride[b] \in Nat /\ Stride[b] >= 2
           /\ MAX_STRIDE \in Nat /\ n \in Nat
<1>1. MAX_ASSOC \in Nat /\ MAX_ASSOC > 1 /\ Bits \in Nat /\ Bits > 1
    BY DEF ProbeConstants
<1>2. \A b \in 1 .. Bits + 1 : Stride[b] \in Nat /\ Stride[b] >= 2
    BY <1>1, StridesGrow
<1>3. MAX_STRIDE \in Nat
    BY <1>1, <1>2 DEF MAX_STRIDE
<1> QED
    BY <1>1, <1>2, <1>3, Products DEF n

\* An entry that deviates stands for an array that lies two spots below the
\* largest, and is smaller than it.
LEMMA FoundIsSmaller ==
    ASSUME ProbeConstants, NEW b \in 1 .. Bits, NEW s \in 1 .. MAX_ASSOC - 1
    PROVE  /\ Found(b, s) \in [assoc : Nat, stride : Nat]
           /\ Size(Found(b, s)) = (s - 1) * Stride[b] /\ Size(Found(b, s)) \in Nat
           /\ Size(Found(b, s)) < Size(Largest)
           /\ (Found(b, s).assoc + 2) * Found(b, s).stride <= n
           /\ Found(b, s) # Largest
<1>1. /\ s - 1 \in Nat /\ s - 1 < MAX_ASSOC - 1 /\ s + 1 <= MAX_ASSOC /\ s + 1 \in Nat /\ (s - 1) + 2 = s + 1
      /\ MAX_ASSOC - 1 \in Nat /\ (MAX_ASSOC - 1) + 1 = MAX_ASSOC /\ MAX_ASSOC \in Nat
      /\ s - 1 <= MAX_ASSOC - 1
    BY Constants
<1>2. Stride[b] \in Nat /\ MAX_STRIDE \in Nat /\ Stride[b] <= MAX_STRIDE /\ MAX_STRIDE >= 2
    BY Constants, StridesGrow DEF MAX_STRIDE
<1>3. Size(Found(b, s)) = (s - 1) * Stride[b] /\ Size(Largest) = MAX_ASSOC * MAX_STRIDE
    BY DEF Size, Found, Largest
<1>4. (s - 1) * Stride[b] \in Nat /\ (s - 1) * Stride[b] <= (MAX_ASSOC - 1) * Stride[b]
      /\ (MAX_ASSOC - 1) * Stride[b] \in Nat
      /\ (MAX_ASSOC - 1) * Stride[b] <= (MAX_ASSOC - 1) * MAX_STRIDE
    BY <1>1, <1>2, Products
<1>5. MAX_ASSOC * MAX_STRIDE = (MAX_ASSOC - 1) * MAX_STRIDE + MAX_STRIDE
      /\ (MAX_ASSOC - 1) * MAX_STRIDE \in Nat
    BY <1>1, <1>2, Products
<1>6. Size(Found(b, s)) < Size(Largest)
    BY <1>2, <1>3, <1>4, <1>5
<1>7. (s + 1) * Stride[b] <= MAX_ASSOC * Stride[b] /\ MAX_ASSOC * Stride[b] <= MAX_ASSOC * MAX_STRIDE
      /\ (s + 1) * Stride[b] \in Nat /\ MAX_ASSOC * Stride[b] \in Nat /\ MAX_ASSOC * MAX_STRIDE \in Nat
    BY <1>1, <1>2, Products
<1>8. (Found(b, s).assoc + 2) * Found(b, s).stride <= n
    <2>1. (Found(b, s).assoc + 2) * Found(b, s).stride = (s + 1) * Stride[b]
        BY <1>1 DEF Found
    <2> QED
        BY <2>1, <1>7 DEF n
<1>9. Found(b, s).assoc # Largest.assoc
    BY <1>1 DEF Found, Largest
<1> QED
    BY <1>1, <1>2, <1>3, <1>4, <1>6, <1>8, <1>9 DEF Found

LEMMA Initially == ProbeConstants /\ Init => IInv
<1> SUFFICES ASSUME ProbeConstants, Init PROVE IInv
    OBVIOUS
<1> USE DEF Init
<1>1. TypeOK
    BY Constants DEF TypeOK, Largest
<1>2. MeasuresEverySpot
    <2>1. Spots(0, 0) = {}
        BY DEF Spots
    <2> QED
        BY <2>1 DEF MeasuresEverySpot
<1> QED
    BY <1>1, <1>2 DEF IInv, Loops, BestOfPassed, StaysInArray

LEMMA TestStep == ProbeConstants /\ IInv /\ Test => IInv'
<1> SUFFICES ASSUME ProbeConstants, IInv, Test PROVE IInv'
    OBVIOUS
<1>1. spots \in Nat \ {0} /\ idx_bit \in 1 .. Bits /\ Stride[idx_bit] \in Nat \ {0}
    <2>1. spots \in 1 .. MAX_ASSOC /\ idx_bit \in 1 .. Bits
        BY DEF IInv, TypeOK
    <2>2. idx_bit \in 1 .. Bits + 1
        BY <2>1, Constants
    <2>3. Stride[idx_bit] \in Nat /\ Stride[idx_bit] >= 2
        BY <2>2, Constants
    <2> QED
        BY <2>1, <2>3, Constants
<1>2. chased' = Spots(Stride[idx_bit], spots)
      /\ measured' = [line |-> 0, apart |-> Stride[idx_bit], number |-> spots]
    BY <1>1, ChasedSpots DEF Test
<1>3. Spots(Stride[idx_bit], spots) \subseteq Nat
    BY <1>1, Products DEF Spots
<1>4. TypeOK'
    <2>1. spots' \in 1 .. MAX_ASSOC /\ idx_bit' \in 1 .. Bits /\ pc' \in {"table", "threshold"}
        BY Constants, <1>1 DEF IInv, TypeOK, Test
    <2>2. measured' \in [line : Nat, apart : Nat, number : Nat] /\ chased' \subseteq Nat
        BY <1>1, <1>2, <1>3
    <2>3. UNCHANGED << slow, candidate, cache_line >>
        BY DEF Test
    <2> QED
        BY <2>1, <2>2, <2>3 DEF IInv, TypeOK, Entries, Unwritten
<1>5. Loops' /\ BestOfPassed' /\ StaysInArray'
    BY DEF IInv, Test, Loops, BestOfPassed, StaysInArray
<1>6. MeasuresEverySpot'
    <2>1. {i + 0 : i \in Spots(Stride[idx_bit], spots)} = Spots(Stride[idx_bit], spots)
        BY <1>3
    <2> QED
        BY <1>2, <2>1 DEF MeasuresEverySpot
<1> QED
    BY <1>4, <1>5, <1>6 DEF IInv

LEMMA ThresholdStep == ProbeConstants /\ IInv /\ Threshold => IInv'
<1> SUFFICES ASSUME ProbeConstants, IInv, Threshold PROVE IInv'
    OBVIOUS
<1>1. /\ pc = "threshold" /\ pc' = "search" /\ spots' = 1 /\ idx_bit' = 1
      /\ slow' \subseteq Entries \cup Unwritten
      /\ UNCHANGED << candidate, cache_line, measured, chased >>
    BY DEF Threshold
<1>2. TypeOK' /\ Loops' /\ StaysInArray'
    BY <1>1, Constants DEF IInv, TypeOK, Loops, StaysInArray
<1>3. BestOfPassed'
    <2>1. candidate' = Largest
        BY <1>1 DEF IInv, Loops, Largest
    <2>2. Passed' = {}
        BY <1>1, Constants DEF Passed, DeviatingEntries
    <2> QED
        BY <2>1, <2>2 DEF BestOfPassed, Largest, MAX_STRIDE
<1>4. MeasuresEverySpot'
    BY <1>1 DEF IInv, MeasuresEverySpot
<1> QED
    BY <1>2, <1>3, <1>4 DEF IInv

LEMMA SearchStep == ProbeConstants /\ IInv /\ Search => IInv'
<1> SUFFICES ASSUME ProbeConstants, IInv, Search PROVE IInv'
    OBVIOUS
<1> DEFINE Row == {e \in DeviatingEntries : e[2] = spots}
<1>1. /\ pc = "search" /\ spots \in 1 .. MAX_ASSOC - 1 /\ idx_bit \in 1 .. Bits
      /\ candidate \in [assoc : Nat, stride : Nat]
      /\ \A b \in 1 .. idx_bit - 1 : ~Deviates(b, spots)
      /\ UNCHANGED << slow, cache_line, measured, chased >>
      /\ MAX_ASSOC \in Nat /\ MAX_ASSOC > 1 /\ Bits \in Nat /\ Bits > 1
    BY Constants DEF IInv, TypeOK, Loops, Search
<1>0. spots \in Nat /\ 1 <= spots /\ spots < MAX_ASSOC /\ MAX_ASSOC \in Nat /\ Bits \in Nat /\ 1 < Bits
    BY <1>1
<1>2. DeviatingEntries' = DeviatingEntries
    BY <1>1 DEF DeviatingEntries, Deviates
<1>3. \A e \in DeviatingEntries :
          /\ e[1] \in 1 .. Bits /\ e[2] \in 1 .. MAX_ASSOC - 1 /\ Deviates(e[1], e[2])
          /\ Size(Found(e[1], e[2])) \in Nat /\ Size(Found(e[1], e[2])) < Size(Largest)
    BY FoundIsSmaller DEF DeviatingEntries
<1>4. MeasuresEverySpot' /\ (pc' # "overrun" => StaysInArray')
    <2>1. pc' \in {"search", "base_line"}
        BY <1>1 DEF Search, NextRow
    <2> QED
        BY <1>1, <2>1 DEF IInv, MeasuresEverySpot, StaysInArray
<1>5. pc' \in {"search", "base_line"}
    BY <1>1 DEF Search, NextRow
<1>6. Size(candidate) \in Nat
    BY <1>1, Products DEF Size
<1>7. ASSUME spots' = spots + 1, idx_bit' = 1,
             pc' = IF spots' < MAX_ASSOC THEN "search" ELSE "base_line"
      PROVE  /\ spots' \in 1 .. MAX_ASSOC /\ idx_bit' \in 1 .. Bits
             /\ pc' = "search" => spots' < MAX_ASSOC /\ 1 .. idx_bit' - 1 = {}
             /\ Passed' = Passed \cup Row
    <2>1. spots' = spots + 1 /\ idx_bit' = 1
          /\ pc' = IF spots' < MAX_ASSOC THEN "search" ELSE "base_line"
        BY <1>7
    <2>2. \A e \in DeviatingEntries : (pc' = "search" => e[2] < spots') <=> e[2] < spots \/ e[2] = spots
        <3> SUFFICES ASSUME NEW e \in DeviatingEntries
                     PROVE  (pc' = "search" => e[2] < spots') <=> e[2] < spots \/ e[2] = spots
            OBVIOUS
        <3>1. e[2] \in 1 .. MAX_ASSOC - 1
            BY <1>3
        <3>2. CASE spots + 1 < MAX_ASSOC
            BY <1>0, <2>1, <3>1, <3>2
        <3>3. CASE ~(spots + 1 < MAX_ASSOC)
            <4>1. spots + 1 = MAX_ASSOC
                BY <1>0, <3>3
            <4>2. e[2] < spots \/ e[2] = spots
                BY <1>0, <3>1, <4>1
            <4>3. pc' # "search"
                BY <2>1, <3>3
            <4> QED
                BY <4>2, <4>3
        <3> QED
            BY <3>2, <3>3
    <2>3. Passed' = {e \in DeviatingEntries : pc' = "search" => e[2] < spots'}
        BY <1>2 DEF Passed
    <2>4. Passed = {e \in DeviatingEntries : e[2] < spots}
        BY <1>1 DEF Passed
    <2>5. Passed' = Passed \cup Row
        BY <2>2, <2>3, <2>4
    <2>6. spots' \in 1 .. MAX_ASSOC /\ idx_bit' \in 1 .. Bits /\ 1 .. idx_bit' - 1 = {}
        BY <1>0, <2>1
    <2> QED
        BY <2>1, <2>5, <2>6
<1>8. \/ candidate = Largest /\ Passed = {}
      \/ /\ \E e \in Passed : candidate = Found(e[1], e[2])
         /\ \A e \in Passed : Size(candidate) <= Size(Found(e[1], e[2]))
    BY <1>1 DEF IInv, BestOfPassed
<1>9. Passed \subseteq DeviatingEntries
    BY DEF Passed
<1>10. CASE Deviates(idx_bit, spots)
    <2>1. /\ spots' = spots + 1 /\ idx_bit' = 1
          /\ pc' = IF spots' < MAX_ASSOC THEN "search" ELSE "base_line"
          /\ candidate' = IF IsSmaller THEN Found(idx_bit, spots) ELSE candidate
        BY <1>10 DEF Search, NextRow
    <2> DEFINE here == << idx_bit, spots >>
    <2>2. here \in Row
        BY <1>1, <1>10 DEF DeviatingEntries
    <2>3. ASSUME NEW e \in Row
          PROVE  Size(Found(idx_bit, spots)) <= Size(Found(e[1], e[2]))
        <3>1. e[1] \in 1 .. Bits /\ e[2] = spots /\ Deviates(e[1], spots)
            BY <1>3
        <3>2. idx_bit <= e[1]
            BY <1>1, <3>1
        <3>3. idx_bit \in 1 .. Bits + 1 /\ e[1] \in 1 .. Bits + 1
            BY <1>1, <3>1
        <3>4. Stride[idx_bit] <= Stride[e[1]] /\ Stride[idx_bit] \in Nat /\ Stride[e[1]] \in Nat
            BY <3>2, <3>3, StridesGrow, Constants
        <3>5. spots - 1 \in Nat
            BY <1>1
        <3>6. (spots - 1) * Stride[idx_bit] <= (spots - 1) * Stride[e[1]]
            BY <3>4, <3>5, Products
        <3> QED
            BY <3>1, <3>6 DEF Size, Found
    <2>4. Size(Found(idx_bit, spots)) \in Nat /\ Size(Found(idx_bit, spots)) < Size(Largest)
          /\ Found(idx_bit, spots) \in [assoc : Nat, stride : Nat]
        BY <1>1, FoundIsSmaller
    <2>5. \A e \in Passed \cup Row : Size(Found(e[1], e[2])) \in Nat
        BY <1>3, <1>9
    <2>6. /\ \E e \in Passed' : candidate' = Found(e[1], e[2])
          /\ \A e \in Passed' : Size(candidate') <= Size(Found(e[1], e[2]))
        <3>1. CASE Size(candidate) > Size(Found(idx_bit, spots))
            <4>1. candidate' = Found(idx_bit, spots)
                BY <2>1, <3>1 DEF IsSmaller
            <4>2. \E e \in Passed' : candidate' = Found(e[1], e[2])
                BY <1>7, <2>1, <2>2, <4>1
            <4>3. \A e \in Passed : Size(candidate') <= Size(Found(e[1], e[2]))
                BY <1>6, <1>8, <2>4, <2>5, <3>1, <4>1
            <4> QED
                BY <1>7, <2>1, <2>3, <4>1, <4>2, <4>3
        <3>2. CASE ~(Size(candidate) > Size(Found(idx_bit, spots)))
            <4>1. candidate' = candidate
                BY <2>1, <3>2 DEF IsSmaller
            <4>2. candidate # Largest
                BY <2>4, <3>2
            <4>3. \E e \in Passed : candidate = Found(e[1], e[2])
                BY <1>8, <4>2
            <4>4. \A e \in Passed : Size(candidate) <= Size(Found(e[1], e[2]))
                BY <1>8, <4>2
            <4>5. Size(candidate) <= Size(Found(idx_bit, spots))
                BY <1>6, <2>4, <3>2
            <4>6. \A e \in Row : Size(candidate) <= Size(Found(e[1], e[2]))
                BY <1>6, <2>3, <2>4, <2>5, <4>5
            <4> QED
                BY <1>7, <2>1, <4>1, <4>3, <4>4, <4>6
        <3> QED
            BY <3>1, <3>2
    <2>7. candidate' \in [assoc : Nat, stride : Nat]
        BY <1>1, <2>1, <2>4
    <2>8. BestOfPassed'
        <3>1. \A b, s : Found(b, s)' = Found(b, s)
            BY DEF Found
        <3> QED
            BY <2>6, <3>1 DEF BestOfPassed, Found, Size
    <2> QED
        BY <1>1, <1>4, <1>5, <1>7, <2>1, <2>7, <2>8
        DEF IInv, TypeOK, Loops, Entries, Unwritten
<1>11. CASE ~Deviates(idx_bit, spots) /\ idx_bit < Bits
    <2>1. idx_bit' = idx_bit + 1 /\ UNCHANGED << pc, spots, candidate >>
        BY <1>1, <1>11 DEF Search
    <2>2. \A b \in 1 .. idx_bit' - 1 : ~Deviates(b, spots)
        BY <1>1, <1>11, <2>1
    <2>3. BestOfPassed'
        BY <1>1, <2>1 DEF IInv, BestOfPassed, Passed, DeviatingEntries, Deviates, Found, Size, Largest
    <2>4. TypeOK' /\ Loops'
        BY <1>1, <1>11, <2>1, <2>2 DEF IInv, TypeOK, Loops, Deviates, Entries, Unwritten
    <2> QED
        BY <1>4, <1>5, <2>3, <2>4 DEF IInv
<1>12. CASE ~Deviates(idx_bit, spots) /\ idx_bit = Bits
    <2>1. /\ spots' = spots + 1 /\ idx_bit' = 1
          /\ pc' = IF spots' < MAX_ASSOC THEN "search" ELSE "base_line"
          /\ candidate' = candidate
        BY <1>1, <1>12 DEF Search, NextRow
    <2>2. Row = {}
        BY <1>1, <1>3, <1>12
    <2>3. Passed' = Passed
        BY <1>7, <2>1, <2>2
    <2>4. BestOfPassed'
        BY <1>1, <2>1, <2>3, <1>8 DEF BestOfPassed, Found, Size, Largest
    <2> QED
        BY <1>1, <1>4, <1>5, <1>7, <2>1, <2>4 DEF IInv, TypeOK, Loops, Entries, Unwritten
<1> QED
    BY <1>1, <1>10, <1>11, <1>12

\* Timing a distance, when the candidate is the best of all: the array is left
\* only if there was none.
LEMMA LineSizeStep ==
    ASSUME ProbeConstants, IInv, pc \in {"base_line", "lines"},
           NEW line \in Nat \ {0}, NEW next \in {"lines", "report"},
           cache_line' \in Nat \ {0}
    PROVE  test_line_size(line, next) => IInv'
<1> DEFINE links == LineLinks(line, candidate.stride, Number)
<1> SUFFICES ASSUME /\ measured' = [line |-> line, apart |-> candidate.stride, number |-> Number]
                    /\ UNCHANGED << spots, idx_bit, slow, candidate >>
                    /\ \/ DOMAIN links \subseteq 0 .. n - 1 /\ chased' = Chased(links) /\ pc' = next
                       \/ /\ ~(DOMAIN links \subseteq 0 .. n - 1)
                          /\ pc' = "overrun" /\ UNCHANGED chased
             PROVE  IInv'
    BY DEF test_line_size
<1>1. /\ measured' = [line |-> line, apart |-> candidate.stride, number |-> Number]
      /\ UNCHANGED << spots, idx_bit, slow, candidate >>
      /\ \/ DOMAIN links \subseteq 0 .. n - 1 /\ chased' = Chased(links) /\ pc' = next
         \/ /\ ~(DOMAIN links \subseteq 0 .. n - 1)
            /\ pc' = "overrun" /\ UNCHANGED chased
    OBVIOUS
<1>2. /\ candidate \in [assoc : Nat, stride : Nat] /\ Number \in Nat \ {0}
      /\ candidate.stride \in Nat /\ n \in Nat
    <2>1. candidate \in [assoc : Nat, stride : Nat] /\ n \in Nat
        BY Constants DEF IInv, TypeOK
    <2>2. candidate.assoc \in Nat /\ candidate.stride \in Nat
        BY <2>1
    <2>3. \A a \in Nat : a + 2 \in Nat \ {0}
        OBVIOUS
    <2> QED
        BY <2>1, <2>2, <2>3 DEF Number
<1>3. chased' \subseteq Nat
    <2>1. Chased(links) \subseteq DOMAIN links
        BY DEF Chased
    <2>2. 0 .. n - 1 \subseteq Nat
        OBVIOUS
    <2>3. chased \subseteq Nat
        BY DEF IInv, TypeOK
    <2> HIDE DEF links
    <2> QED
        BY <1>1, <2>1, <2>2, <2>3
<1>4. TypeOK'
    <2>1. measured' \in [line : Nat, apart : Nat, number : Nat]
        BY <1>1, <1>2
    <2> QED
        BY <1>1, <1>3, <2>1 DEF IInv, TypeOK, Entries, Unwritten
<1>5. Passed = DeviatingEntries /\ Passed' = DeviatingEntries /\ DeviatingEntries' = DeviatingEntries
    BY <1>1 DEF Passed, DeviatingEntries, Deviates
<1>6. Loops' /\ BestOfPassed'
    <2> HIDE DEF links
    <2>0. cache_line' > 0
        OBVIOUS
    <2>1. pc' \in {"lines", "report", "overrun"} /\ cache_line' > 0
        BY <1>1, <2>0
    <2>2. Loops'
        BY <2>1 DEF Loops
    <2>3. BestOfPassed
        BY DEF IInv
    <2>4. BestOfPassed'
        BY <1>1, <1>5, <2>1, <2>3 DEF BestOfPassed, Found, Size, Largest
    <2> QED
        BY <2>2, <2>4
<1>7. ASSUME DeviatingEntries # {} PROVE DOMAIN links \subseteq 0 .. n - 1
    <2>1. PICK e \in DeviatingEntries : candidate = Found(e[1], e[2])
        BY <1>5, <1>7 DEF IInv, BestOfPassed
    <2>2. e[1] \in 1 .. Bits /\ e[2] \in 1 .. MAX_ASSOC - 1
        BY DEF DeviatingEntries
    <2>3. (candidate.assoc + 2) * candidate.stride <= n
        BY <2>1, <2>2, FoundIsSmaller
    <2> DEFINE m == Number * candidate.stride
    <2>4. m \in Nat /\ m <= n
        BY <1>2, <2>3, Products DEF Number
    <2>5. DOMAIN links = {i \in Spots(candidate.stride, Number) : i + line < m}
            \cup {i + line : i \in {j \in Spots(candidate.stride, Number) : j + line < m}}
        BY DEF LineLinks
    <2>6. Spots(candidate.stride, Number) \subseteq Nat
        <3>1. \A k \in 0 .. Number - 1 : k \in Nat
            OBVIOUS
        <3>2. candidate.stride \in Nat
            BY <1>2
        <3>3. \A k \in 0 .. Number - 1 : k * candidate.stride \in Nat
            BY <3>1, <3>2, Products
        <3> QED
            BY <3>3 DEF Spots
    <2> HIDE DEF m, links
    <2>7. \A i, j, k, l \in Nat : k <= l /\ i + j < k => i \in 0 .. l - 1 /\ i + j \in 0 .. l - 1
        OBVIOUS
    <2>8. n \in Nat /\ line \in Nat
        BY <1>2
    <2>9. \A i \in Spots(candidate.stride, Number) : i + line < m => i \in 0 .. n - 1 /\ i + line \in 0 .. n - 1
        BY <2>4, <2>6, <2>7, <2>8
    <2> QED
        BY <2>5, <2>9
<1>8. StaysInArray'
    BY <1>1, <1>5, <1>7 DEF StaysInArray
<1>9. MeasuresEverySpot'
    <2> SUFFICES ASSUME pc' # "overrun", line < candidate.stride
                 PROVE  chased' = Spots(candidate.stride, Number)
                            \cup {i + line : i \in Spots(candidate.stride, Number)}
        BY <1>1 DEF MeasuresEverySpot
    <2>1. chased' = Chased(links)
        <3> HIDE DEF links
        <3> QED
            BY <1>1
    <2>0. candidate.stride \in Nat /\ line \in Nat /\ line # 0
        BY <1>2
    <2>2. candidate.stride \in Nat \ {0} /\ line \in 1 .. candidate.stride - 1
        BY <2>0
    <2> QED
        BY <1>2, <2>1, <2>2, ChasedPairs
<1> QED
    BY <1>4, <1>6, <1>8, <1>9 DEF IInv

LEMMA BaseLineStep == ProbeConstants /\ IInv /\ BaseLine => IInv'
<1> SUFFICES ASSUME ProbeConstants, IInv, BaseLine PROVE IInv'
    OBVIOUS
<1>1. pc = "base_line" /\ test_line_size(1, "lines") /\ cache_line' \in Nat \ {0}
    <2>1. cache_line' = 2 /\ 2 \in Nat \ {0}
        BY DEF BaseLine
    <2> QED
        BY <2>1 DEF BaseLine
<1>2. 1 \in Nat \ {0} /\ "lines" \in {"lines", "report"}
    OBVIOUS
<1> QED
    BY <1>1, <1>2, LineSizeStep

LEMMA LineStep == ProbeConstants /\ IInv /\ Line => IInv'
<1> SUFFICES ASSUME ProbeConstants, IInv, Line PROVE IInv'
    OBVIOUS
<1>1. cache_line \in Nat \ {0} /\ pc = "lines" /\ 2 * cache_line \in Nat \ {0}
    BY DEF IInv, TypeOK, Loops, Line
<1> QED
    BY <1>1, LineSizeStep DEF Line

LEMMA NoLineStep == ProbeConstants /\ IInv /\ NoLine => IInv'
<1> SUFFICES ASSUME ProbeConstants, IInv, NoLine PROVE IInv'
    OBVIOUS
<1>1. pc = "lines" /\ pc' = "report"
      /\ UNCHANGED << spots, idx_bit, slow, candidate, cache_line, measured, chased >>
    BY DEF NoLine
<1>2. Passed' = Passed
    BY <1>1 DEF Passed, DeviatingEntries, Deviates
<1>3. TypeOK' /\ Loops' /\ BestOfPassed'
    BY <1>1, <1>2 DEF IInv, TypeOK, Loops, BestOfPassed, Entries, Unwritten, Found, Size, Largest
<1> QED
    BY <1>1, <1>3 DEF IInv, MeasuresEverySpot, StaysInArray

LEMMA StutterStep == IInv /\ UNCHANGED vars => IInv'
<1> SUFFICES ASSUME IInv, UNCHANGED vars PROVE IInv'
    OBVIOUS
<1>1. UNCHANGED << pc, spots, idx_bit, slow, candidate, cache_line, measured, chased >>
    BY DEF vars
<1>2. Passed' = Passed /\ DeviatingEntries' = DeviatingEntries
    BY <1>1 DEF Passed, DeviatingEntries, Deviates
<1> QED
    BY <1>1, <1>2 DEF IInv, TypeOK, Loops, Deviates, BestOfPassed, Entries, Unwritten,
        Found, Size, Largest, MeasuresEverySpot, StaysInArray

LEMMA Inductive == ProbeConstants /\ IInv /\ [Next]_vars => IInv'
BY TestStep, ThresholdStep, SearchStep, BaseLineStep, LineStep, NoLineStep, StutterStep
DEF Next

LEMMA InvariantMeasures == IInv => ProbeMeasures
<1> SUFFICES ASSUME IInv PROVE ProbeMeasures
    OBVIOUS
<1>1. ASSUME pc \in {"base_line", "lines", "report", "overrun"}
      PROVE  Passed = DeviatingEntries
    BY <1>1 DEF Passed
<1>2. SmallestDeviation
    BY <1>1 DEF IInv, BestOfPassed, SmallestDeviation
<1> QED
    BY <1>2 DEF IInv, ProbeMeasures

\* For tables of any size and whatever the times are: every measurement that stays
\* in the array goes round the words it linked, one or two in each spot; the search
\* ends with the smallest array of all that deviate, though it leaves a row at its
\* first; and the array is left only when nothing deviates (main.c:37-68, 110-135).
THEOREM TheProbeMeasures == ASSUME ProbeConstants PROVE Spec => []ProbeMeasures
<1>1. Init => IInv
    BY Initially
<1>2. IInv /\ [Next]_vars => IInv'
    BY Inductive
<1>3. IInv => ProbeMeasures
    BY InvariantMeasures
<1> QED
    BY <1>1, <1>2, <1>3, PTL DEF Spec

=============================================================================
