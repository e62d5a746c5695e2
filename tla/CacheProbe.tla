----------------------------- MODULE CacheProbe -----------------------------
(***************************************************************************)
(* The cache probe of hw01.  It times loads of words that lie `stride'     *)
(* apart, for every stride and number of spots; looks in the table of      *)
(* times for the smallest array at which they rise; and then times the     *)
(* same array with a second word in each spot, at growing distances.       *)
(*                                                                         *)
(* Of a time it only matters here whether it is above the threshold.       *)
(* `measured' and `chased' are history: the last measurement asked for,    *)
(* and the words its million loads touched.                                *)
(***************************************************************************)
EXTENDS Integers

CONSTANTS
    MAX_ASSOC,
    Bits,       \* the largest idx_bit
    Stride      \* 1 << idx_bit

\* What the constants are; who gives them values assumes it.
ProbeConstants ==
    /\ MAX_ASSOC \in Nat \ {0, 1} /\ Bits \in Nat \ {0, 1}
    /\ Stride \in [1 .. Bits + 1 -> Nat]
    /\ Stride[1] = 2
    /\ \A b \in 1 .. Bits : Stride[b + 1] = 2 * Stride[b]

MAX_STRIDE == Stride[Bits]
n == MAX_ASSOC * MAX_STRIDE

VARIABLES
    pc,             \* the phase of main
    spots, idx_bit, \* the indices of its loops
    slow,           \* the entries of ss_table above the threshold
    candidate,
    cache_line,
    measured,
    chased

vars == << pc, spots, idx_bit, slow, candidate, cache_line, measured, chased >>

-----------------------------------------------------------------------------
(* The words of arr that a measurement links, by their indices             *)

Spots(apart, number) == {k * apart : k \in 0 .. number - 1}

\* test: each spot refers to the one before it.
Links(apart, number) ==
    LET m == number * apart
    IN  [i \in Spots(apart, number) |-> (i + m - apart) % m]

\* test_line_size: each spot to the word at a distance, and that to the next spot.
\* Of a word written twice the later link remains.
LineLinks(line, apart, number) ==
    LET m == number * apart
        firsts == {i \in Spots(apart, number) : i + line < m}
        seconds == {i + line : i \in firsts}
    IN  [a \in firsts \cup seconds |-> IF a \in firsts THEN a + line ELSE (a - line + apart) % m]

\* What the loads touch, from arr on: the least set that the links do not leave.
Chased(links) ==
    LET closed == {S \in SUBSET DOMAIN links : 0 \in S /\ \A i \in S : links[i] \in S}
    IN  {i \in DOMAIN links : \A S \in closed : i \in S}

-----------------------------------------------------------------------------
(* The table of times                                                      *)

Test ==
    /\ pc = "table"
    /\ chased' = Chased(Links(Stride[idx_bit], spots))
    /\ measured' = [line |-> 0, apart |-> Stride[idx_bit], number |-> spots]
    /\ \/ idx_bit < Bits /\ idx_bit' = idx_bit + 1 /\ UNCHANGED << pc, spots >>
       \/ /\ idx_bit = Bits /\ spots < MAX_ASSOC
          /\ idx_bit' = 1 /\ spots' = spots + 1
          /\ UNCHANGED pc
       \/ /\ idx_bit = Bits /\ spots = MAX_ASSOC
          /\ pc' = "threshold"
          /\ UNCHANGED << spots, idx_bit >>
    /\ UNCHANGED << slow, candidate, cache_line >>

Entries == (1 .. Bits) \X (1 .. MAX_ASSOC)
\* The column behind the last is read and was never written.
Unwritten == {Bits + 1} \X (1 .. MAX_ASSOC)
Averaged == {e \in Entries : e[1] \in {1, 2} \/ e[2] \in {1, 2}}

\* The threshold lies above the average of some entries, so not all of them
\* are above it.
Threshold ==
    /\ pc = "threshold"
    /\ slow' \in {S \in SUBSET (Entries \cup Unwritten) : ~(Averaged \subseteq S)}
    /\ pc' = "search" /\ spots' = 1 /\ idx_bit' = 1
    /\ UNCHANGED << candidate, cache_line, measured, chased >>

-----------------------------------------------------------------------------
(* The search                                                              *)

Deviates(b, s) == << b, s + 1 >> \in slow /\ << b + 1, s >> \in slow /\ << b, s >> \in slow

Size(c) == c.assoc * c.stride
Found(b, s) == [assoc |-> s - 1, stride |-> Stride[b]]

AnyIsSmaller == TRUE
IsSmaller == Size(candidate) > Size(Found(idx_bit, spots))

NextRow ==
    /\ spots' = spots + 1 /\ idx_bit' = 1
    /\ pc' = IF spots' < MAX_ASSOC THEN "search" ELSE "base_line"

Search ==
    /\ pc = "search"
    /\ \/ /\ Deviates(idx_bit, spots)
          /\ candidate' = IF IsSmaller THEN Found(idx_bit, spots) ELSE candidate
          /\ NextRow
       \/ /\ ~Deviates(idx_bit, spots) /\ idx_bit < Bits
          /\ idx_bit' = idx_bit + 1
          /\ UNCHANGED << pc, spots, candidate >>
       \/ /\ ~Deviates(idx_bit, spots) /\ idx_bit = Bits
          /\ NextRow
          /\ UNCHANGED candidate
    /\ UNCHANGED << slow, cache_line, measured, chased >>

-----------------------------------------------------------------------------
(* The size of a line                                                      *)

Number == candidate.assoc + 2

\* Words beyond the array are whatever the heap has there.
test_line_size(line, next) ==
    LET links == LineLinks(line, candidate.stride, Number)
    IN  /\ measured' = [line |-> line, apart |-> candidate.stride, number |-> Number]
        /\ \/ /\ DOMAIN links \subseteq 0 .. n - 1
              /\ chased' = Chased(links)
              /\ pc' = next
           \/ /\ ~(DOMAIN links \subseteq 0 .. n - 1)
              /\ pc' = "overrun"
              /\ UNCHANGED chased
        /\ UNCHANGED << spots, idx_bit, slow, candidate >>

BaseLine == pc = "base_line" /\ test_line_size(1, "lines") /\ cache_line' = 2

\* The time rises, or the distance doubles.
Line ==
    /\ pc = "lines" /\ cache_line <= candidate.stride
    /\ \/ test_line_size(cache_line, "report") /\ UNCHANGED cache_line
       \/ test_line_size(cache_line, "lines") /\ cache_line' = 2 * cache_line

NoLine ==
    /\ pc = "lines" /\ cache_line > candidate.stride
    /\ pc' = "report"
    /\ UNCHANGED << spots, idx_bit, slow, candidate, cache_line, measured, chased >>

Largest == [assoc |-> MAX_ASSOC, stride |-> MAX_STRIDE]

Init ==
    /\ pc = "table" /\ spots = 1 /\ idx_bit = 1 /\ slow = {}
    /\ candidate = Largest /\ cache_line = 0
    /\ measured = [line |-> 0, apart |-> 0, number |-> 0] /\ chased = {}

Next == Test \/ Threshold \/ Search \/ BaseLine \/ Line \/ NoLine

Spec == Init /\ [][Next]_vars

-----------------------------------------------------------------------------
(* Properties                                                              *)

TypeOK ==
    /\ pc \in {"table", "threshold", "search", "base_line", "lines", "report", "overrun"}
    /\ spots \in 1 .. MAX_ASSOC /\ idx_bit \in 1 .. Bits
    /\ slow \subseteq Entries \cup Unwritten
    /\ candidate \in [assoc : Nat, stride : Nat]
    /\ cache_line \in Nat
    /\ measured \in [line : Nat, apart : Nat, number : Nat]
    /\ chased \subseteq Nat

\* A measurement touches the words it is meant to, all of them and no others: a word
\* in each spot, or two while their distance is less than the spots'.
MeasuresEverySpot ==
    LET s == Spots(measured.apart, measured.number)
    IN  pc # "overrun" /\ (measured.line = 0 \/ measured.line < measured.apart) =>
            chased = s \cup {i + measured.line : i \in s}

\* main.c:110: the search ends with the run that fits into the smallest array of
\* all that deviate, although it looks no further in a row than the first.
DeviatingEntries == {e \in (1 .. Bits) \X (1 .. MAX_ASSOC - 1) : Deviates(e[1], e[2])}

SmallestDeviation ==
    pc \in {"base_line", "lines", "report", "overrun"} =>
        \/ candidate = Largest /\ DeviatingEntries = {}
        \/ /\ \E e \in DeviatingEntries : candidate = Found(e[1], e[2])
           /\ \A e \in DeviatingEntries : Size(candidate) <= Size(Found(e[1], e[2]))

\* No measurement leaves the array, unless there was nothing to be found.
StaysInArray == pc = "overrun" => DeviatingEntries = {}

ProbeMeasures == MeasuresEverySpot /\ SmallestDeviation /\ StaysInArray

=============================================================================
