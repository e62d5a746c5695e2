---------------------------- MODULE LamaAnalyser ----------------------------
(***************************************************************************)
(* The bytecode analyser of hw03_lama_stat_analysis/lamas: it marks what   *)
(* the public entries reach and where control may enter, then counts the   *)
(* instructions and the pairs of instructions that follow one another, and *)
(* prints them from the most to the least frequent.                        *)
(*                                                                         *)
(* The code is a sequence of cells; an opcode is one, and so is a word or  *)
(* a byte of an operand.  Offsets count from 0, as in the code.            *)
(***************************************************************************)
EXTENDS Integers, Sequences, SequencesExt, FiniteSetsExt

CONSTANTS
    Bytecodes,     \* what may be loaded: the code and the public entries
    rare_thresh,   \* 15 in the code: what half a byte of rare_codes holds
    HashRange      \* 2^16 in the code

VARIABLES
    file,
    phase,         \* "marking", "counting", "building", "printing", "done", "failed"
    entries,       \* the public entries still to be marked
    ips_to_process,
    size,          \* bytecode_data: the instruction's size where one is reached, or 0
    cf_entry,      \* the offsets with the entry bit
    n,             \* 1 while single instructions are counted, 2 for pairs
    ip, prev_ip,   \* NoIp where prev_ip has no value
    starts, hashes,
    hist,          \* the frequent idioms, and how many instructions each has
    rare_codes,
    level,         \* the count whose rare idioms are printed next
    printed        \* the arguments of print_opcode

vars == << file, phase, entries, ips_to_process, size, cf_entry, n, ip, prev_ip,
           starts, hashes, hist, rare_codes, level, printed >>

code_size == Len(file.code)
Cell(o) == file.code[o + 1]
InCode(o) == o \in 0 .. code_size - 1
NoIp == -1

-----------------------------------------------------------------------------
(* The encoding *)

BC == [LD |-> 2, LDA |-> 3, ST |-> 4, PATT |-> 6, BINOP |-> 0, STOP |-> 15,
       CONST |-> 16, STRING |-> 17, SEXP |-> 18, STI |-> 19, STA |-> 20, JMP |-> 21,
       END |-> 22, RET |-> 23, DROP |-> 24, DUP |-> 25, SWAP |-> 26, ELEM |-> 27,
       CJMPZ |-> 80, CJMPNZ |-> 81, BEGIN |-> 82, CBEGIN |-> 83, CLOSURE |-> 84,
       CALLC |-> 85, CALL |-> 86, TAG |-> 87, ARRAY |-> 88, FAIL |-> 89, LINE |-> 90,
       PATT_STR |-> 96, LREAD |-> 112, BARRAY |-> 116]

High(x) == x \div 16

\* The opcodes dispatch has cases for: their own, or those of their upper half.
Valid(x) ==
    \/ x \in BC.CONST .. BC.ELEM \cup BC.CJMPZ .. BC.LINE \cup BC.LREAD .. BC.BARRAY
    \/ High(x) \in {BC.BINOP, BC.LD, BC.LDA, BC.ST, BC.PATT, BC.STOP}

TakesOne(x) ==
    \/ x \in {BC.JMP, BC.CJMPZ, BC.CJMPNZ, BC.CONST, BC.STRING, BC.CALLC, BC.ARRAY,
              BC.LINE, BC.BARRAY}
    \/ High(x) \in {BC.LD, BC.LDA, BC.ST}
TakesTwo(x) ==
    x \in {BC.BEGIN, BC.CBEGIN, BC.SEXP, BC.CALL, BC.TAG, BC.FAIL, BC.CLOSURE}

Operands(x) == IF TakesOne(x) THEN 1 ELSE IF TakesTwo(x) THEN 2 ELSE 0

\* A CLOSURE's operands are followed by a type and an index for each value.
opcode_sz(o) ==
    1 + Operands(Cell(o)) + IF Cell(o) = BC.CLOSURE THEN 2 * Cell(o + 2) ELSE 0

\* assert_ip holds for every cell the instruction has.
Decodes(o) ==
    /\ InCode(o) /\ Valid(Cell(o))
    /\ InCode(o + Operands(Cell(o))) /\ InCode(o + opcode_sz(o) - 1)

-----------------------------------------------------------------------------
(* Marking *)

Jumps == {BC.JMP, BC.CJMPZ, BC.CJMPNZ}
Target(o) == Cell(o + 1)

\* Where an instruction sets the entry bit, and where it sends the traversal.
Entered(o) ==
    CASE Cell(o) \in Jumps \cup {BC.CALL, BC.CLOSURE} -> {Target(o)}
      [] Cell(o) = BC.END -> {o + opcode_sz(o)}
      [] OTHER -> {}

Continued(o) ==
    LET next == o + opcode_sz(o)
    IN  CASE Cell(o) = BC.JMP -> << Target(o) >>
          [] Cell(o) \in {BC.CJMPZ, BC.CJMPNZ, BC.CALL, BC.CLOSURE} -> << next, Target(o) >>
          [] Cell(o) = BC.END \/ High(Cell(o)) = BC.STOP -> << >>
          [] OTHER -> << next >>

is_reachable(o) == size[o] # 0

CanMark(offsets) ==
    \A o \in ToSet(offsets) : o \in DOMAIN size /\ (is_reachable(o) \/ Decodes(o))

\* What mark_reachable does for some offsets in turn, on a stack of them.
MarkReachable(offsets, stack) ==
    LET push(s, o) == IF o \in ToSet(s) THEN s ELSE Append(s, o)
        fresh == FoldLeft(push, << >>, SelectSeq(offsets, LAMBDA o : ~is_reachable(o)))
    IN  /\ size' = [o \in DOMAIN size |->
                       IF o \in ToSet(fresh) THEN opcode_sz(o) ELSE size[o]]
        /\ ips_to_process' = stack \o fresh

UnchangedByMarking == UNCHANGED << file, n, ip, prev_ip, starts, hashes, hist,
                                   rare_codes, level, printed >>

MarkPublic ==
    /\ phase = "marking" /\ entries # << >> /\ CanMark(<< Head(entries) >>)
    /\ MarkReachable(<< Head(entries) >>, ips_to_process)
    /\ cf_entry' = cf_entry \cup {Head(entries)}
    /\ entries' = Tail(entries)
    /\ UNCHANGED phase /\ UnchangedByMarking

Traverse ==
    /\ phase = "marking" /\ entries = << >> /\ ips_to_process # << >>
    /\ LET o == Last(ips_to_process)
       IN  /\ CanMark(Continued(o))
           /\ MarkReachable(Continued(o), Front(ips_to_process))
           /\ cf_entry' = cf_entry \cup Entered(o)
    /\ UNCHANGED << phase, entries >> /\ UnchangedByMarking

\* An offset outside the code, or an opcode without a case, ends the program.
Exit ==
    /\ phase = "marking"
    /\ \/ entries # << >> /\ ~CanMark(<< Head(entries) >>)
       \/ entries = << >> /\ ips_to_process # << >> /\ ~CanMark(Continued(Last(ips_to_process)))
    /\ phase' = "failed"
    /\ UNCHANGED << entries, ips_to_process, size, cf_entry >> /\ UnchangedByMarking

StartCounting(k) ==
    /\ phase' = "counting" /\ n' = k
    /\ ip' = 0 /\ prev_ip' = NoIp
    /\ starts' = {} /\ hashes' = [o \in 0 .. code_size - 1 |-> 0]

Marked ==
    /\ phase = "marking" /\ entries = << >> /\ ips_to_process = << >>
    /\ StartCounting(1)
    /\ UNCHANGED << file, entries, ips_to_process, size, cf_entry, hist, rare_codes,
                    level, printed >>

-----------------------------------------------------------------------------
(* Counting: the starts of the instructions, or of the pairs, with the     *)
(* hash of what starts there.                                              *)

SubseqEnd(o) == o + size[o]
take_code_subseq(o, k) ==
    SubSeq(file.code, o + 1, IF k = 1 THEN SubseqEnd(o) ELSE SubseqEnd(SubseqEnd(o)))

CodeHash(o) ==
    FoldLeft(LAMBDA h, cell : (h * 4 + cell) % HashRange, 543, take_code_subseq(o, n))

Start(o) ==
    /\ starts' = starts \cup {o}
    /\ hashes' = [hashes EXCEPT ![o] = CodeHash(o)]

UnchangedByCounting == UNCHANGED << file, phase, entries, ips_to_process, size, cf_entry,
                                    n, hist, rare_codes, level, printed >>

Visiting == phase = "counting" /\ ip < code_size

SkipUnreached ==
    /\ Visiting /\ ~is_reachable(ip)
    /\ ip' = ip + 1 /\ prev_ip' = NoIp
    /\ UNCHANGED << starts, hashes >> /\ UnchangedByCounting

CountInstruction ==
    /\ Visiting /\ is_reachable(ip) /\ n = 1
    /\ Start(ip)
    /\ ip' = ip + size[ip]
    /\ UNCHANGED prev_ip /\ UnchangedByCounting

\* The instruction before, when only that one leads here.
PrevIpAcrossLabels == prev_ip
PrevIp == IF ip \in cf_entry THEN NoIp ELSE prev_ip

CountPair ==
    /\ Visiting /\ is_reachable(ip) /\ n = 2
    /\ IF PrevIp = NoIp THEN UNCHANGED << starts, hashes >> ELSE Start(PrevIp)
    /\ prev_ip' = ip /\ ip' = ip + size[ip]
    /\ UnchangedByCounting

Counted ==
    /\ phase = "counting" /\ ip >= code_size
    /\ phase' = "building"
    /\ UNCHANGED << file, entries, ips_to_process, size, cf_entry, n, ip, prev_ip,
                    starts, hashes, hist, rare_codes, level, printed >>

-----------------------------------------------------------------------------
(* build_hist: the starts are sorted by their hashes, each bucket of equal *)
(* hashes by its code, and equal code is counted.  A count that fits half  *)
(* a byte goes to the offset that happens to come first, a larger one to   *)
(* hist; idiom says in the model what the sign of an offset says there.    *)

Bucket == {o \in starts : \A p \in starts : hashes[p] <= hashes[o]}
Rank(o) == IF n = 2 THEN -o ELSE o

\* The starts of one code in the bucket; which code comes first is of no account.
Equal ==
    LET code == CHOOSE c \in {take_code_subseq(o, n) : o \in Bucket} : TRUE
    IN  {o \in Bucket : take_code_subseq(o, n) = code}

BuildHist ==
    /\ phase = "building" /\ starts # {}
    /\ LET equal == Equal
           count == Cardinality(equal)
       IN  /\ \E first \in equal :
                  IF count <= rare_thresh
                  THEN /\ rare_codes' = [rare_codes EXCEPT ![first][n] = count]
                       /\ UNCHANGED hist
                  ELSE /\ hist' = hist \cup {[offset |-> Rank(first), count |-> count, idiom |-> n]}
                       /\ UNCHANGED rare_codes
           /\ starts' = starts \ equal
    /\ UNCHANGED << file, phase, entries, ips_to_process, size, cf_entry, n, ip, prev_ip,
                    hashes, level, printed >>

CountPairs ==
    /\ phase = "building" /\ starts = {} /\ n = 1
    /\ StartCounting(2)
    /\ UNCHANGED << file, entries, ips_to_process, size, cf_entry, hist, rare_codes,
                    level, printed >>

Built ==
    /\ phase = "building" /\ starts = {} /\ n = 2
    /\ phase' = "printing"
    /\ UNCHANGED << file, entries, ips_to_process, size, cf_entry, n, ip, prev_ip,
                    starts, hashes, hist, rare_codes, level, printed >>

-----------------------------------------------------------------------------
(* Printing: the frequent idioms by their counts, then the rare ones of    *)
(* each count by their offsets.                                            *)

print_opcode(offset, v) == [offset |-> offset, v |-> v]

UnchangedByPrinting == UNCHANGED << file, entries, ips_to_process, size, cf_entry, n, ip,
                                    prev_ip, starts, hashes, rare_codes >>

MostFrequent == {e \in hist : \A f \in hist : f.count <= e.count}

PrintFrequent ==
    /\ phase = "printing"
    /\ \E e \in MostFrequent :
           /\ hist' = hist \ {e}
           /\ IF InCode(e.offset)
              THEN printed' = Append(printed, print_opcode(e.offset, e.count)) /\ UNCHANGED phase
              ELSE phase' = "failed" /\ UNCHANGED printed
    /\ UNCHANGED level /\ UnchangedByPrinting

RareAt(o) ==
    (IF rare_codes[o][2] = level THEN << print_opcode(o, -level) >> ELSE << >>)
    \o (IF rare_codes[o][1] = level THEN << print_opcode(o, level) >> ELSE << >>)

PrintRare ==
    /\ phase = "printing" /\ hist = {} /\ level > 0
    /\ printed' = printed \o FlattenSeq([i \in 1 .. code_size |-> RareAt(i - 1)])
    /\ level' = level - 1
    /\ UNCHANGED << phase, hist >> /\ UnchangedByPrinting

Printed ==
    /\ phase = "printing" /\ hist = {} /\ level = 0
    /\ phase' = "done"
    /\ UNCHANGED << hist, level, printed >> /\ UnchangedByPrinting

-----------------------------------------------------------------------------

Init ==
    /\ file \in Bytecodes
    /\ phase = "marking"
    /\ entries = file.publics /\ ips_to_process = << >>
    /\ size = [o \in 0 .. code_size |-> 0] /\ cf_entry = {}
    /\ n = 1 /\ ip = 0 /\ prev_ip = NoIp
    /\ starts = {} /\ hashes = << >>
    /\ hist = {} /\ rare_codes = [o \in 0 .. code_size - 1 |-> << 0, 0 >>]
    /\ level = rare_thresh /\ printed = << >>

Next ==
    \/ MarkPublic \/ Traverse \/ Exit \/ Marked
    \/ SkipUnreached \/ CountInstruction \/ CountPair \/ Counted
    \/ BuildHist \/ CountPairs \/ Built
    \/ PrintFrequent \/ PrintRare \/ Printed

Spec == Init /\ [][Next]_vars

-----------------------------------------------------------------------------
(* What the report should say, from the meaning of the instructions: where *)
(* each goes when it is run or called.                                     *)

After(o) == o + opcode_sz(o)

Leaves(o) == Cell(o) \in {BC.JMP, BC.END} \/ High(Cell(o)) = BC.STOP
Takes(o) ==
    IF Cell(o) \in {BC.JMP, BC.CJMPZ, BC.CJMPNZ, BC.CALL, BC.CLOSURE}
    THEN {Target(o)} ELSE {}
Successors(o) == Takes(o) \cup IF Leaves(o) THEN {} ELSE {After(o)}

Reached ==
    LET upTo[k \in 0 .. code_size] ==
            IF k = 0 THEN ToSet(file.publics)
            ELSE LET before == upTo[k - 1]
                 IN  before \cup UNION {Successors(o) : o \in {p \in before : Decodes(p)}}
    IN  upTo[code_size]

WellFormed == \A o \in Reached : Decodes(o)

\* The instructions that count, and the pairs of which the second is only ever
\* run after the first.
Idioms(k) ==
    LET reached == Reached
        labels == ToSet(file.publics) \cup UNION {Takes(o) : o \in reached}
    IN  IF k = 1 THEN reached ELSE {o \in reached : ~Leaves(o) /\ After(o) \notin labels}

Text(o, k) == SubSeq(file.code, o + 1, IF k = 1 THEN After(o) ELSE After(After(o)))

\* Each idiom with the number of its occurrences.
Expected(k) ==
    LET idioms == Idioms(k)
        text == [o \in idioms |-> Text(o, k)]
    IN  {[text |-> text[o], count |-> Cardinality({p \in idioms : text[p] = text[o]})] :
            o \in idioms}

FrequentPair == \E e \in Expected(2) : e.count > rare_thresh

\* One line of the report for each idiom.
Reports(lines, k) ==
    /\ {[text |-> Text(l.offset, k), count |-> l.count] : l \in lines} = Expected(k)
    /\ Cardinality(lines) = Cardinality(Expected(k))

InTables(k) ==
    {[offset |-> IF k = 2 THEN -e.offset ELSE e.offset, count |-> e.count] : e \in {f \in hist : f.idiom = k}} \cup
    {[offset |-> o, count |-> rare_codes[o][k]] : o \in {p \in DOMAIN rare_codes : rare_codes[p][k] > 0}}

Count(p) == IF p.v < 0 THEN -p.v ELSE p.v
InPrint(k) ==
    {[offset |-> p.offset, count |-> Count(p)] : p \in {q \in ToSet(printed) : (q.v < 0) = (k = 2)}}

\* The tables hold each instruction and each pair that the program may run one
\* after the other once, with its count, whatever the hashes; unless a pair is
\* frequent they are all printed, the most frequent first.  The analyser gives up
\* on nothing but code that does not decode, and a frequent pair.
ReportExact ==
    /\ (phase = "building" /\ starts = {}) => \A k \in 1 .. n : Reports(InTables(k), k)
    /\ (phase = "done" /\ ~FrequentPair) =>
           /\ Reports(InPrint(1), 1) /\ Reports(InPrint(2), 2)
           /\ Cardinality(ToSet(printed)) = Len(printed)
           /\ \A i, j \in DOMAIN printed : i < j => Count(printed[i]) >= Count(printed[j])
    /\ phase = "failed" => ~WellFormed \/ FrequentPair

\* The comment on the tables (lamas.cpp:324): a value below 0 is a pair's.
PairsBelowZero == \A e \in hist : e.idiom = 2 => e.count < 0

=============================================================================
