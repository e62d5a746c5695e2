---------------------------- MODULE MCSequential ----------------------------
(***************************************************************************)
(* The sequential components for TLC: the Lama runtime library, as pairs   *)
(* of values to apply its functions to, parallel_memcpy without workers,   *)
(* the bytecode analyser, and the Lama implementation on Truffle.  One of  *)
(* them, chosen at the start, takes all the steps.                         *)
(***************************************************************************)
EXTENDS LamaRuntime, LamaAnalyser, FiniteSets, TLC

CONSTANTS Client, Free, MaxCalls, PlainSizes, Trees

VARIABLES
    component,
    left, right,     \* the values the library is applied to
    memcpy_pc, memcpy_mut, memcpy_in_progress, memcpy_stopped, memcpy_job,
    memcpy_task, memcpy_call, memcpy_size, memcpy_dst, memcpy_served,
    tree, outcome

Memcpy == INSTANCE MemcpyProperties WITH
    N <- 0, Sizes <- PlainSizes, pc <- memcpy_pc, mut <- memcpy_mut,
    in_progress <- memcpy_in_progress, stopped <- memcpy_stopped,
    job <- memcpy_job, task <- memcpy_task, call <- memcpy_call,
    size <- memcpy_size, dst <- memcpy_dst, served <- memcpy_served

memcpy_vars ==
    << memcpy_pc, memcpy_mut, memcpy_in_progress, memcpy_stopped, memcpy_job,
       memcpy_task, memcpy_call, memcpy_size, memcpy_dst, memcpy_served >>
operands == << left, right >>

Truffle == INSTANCE MCTruffle
\* The programs do not depend on which of them may be run.
NoTruffle == INSTANCE MCTruffle WITH Trees <- {}
SmallTrees == NoTruffle!SmallTrees
program == << tree, outcome >>

-----------------------------------------------------------------------------
(* Values *)

ConsName == << 3 >>

Half == 2^(WordSize - 3)
AllIntegers == {Integer(i) : i \in -2 * Half .. 2 * Half - 1}

\* Names of up to one character more than a hash covers, some with a character
\* no tag has.
Names == {String(s) : s \in SeqOf(1 .. Radix + 1, TagLimit + 1)}

\* A byte that is negative as a char, and strings that the C library sees the
\* beginning of.
HighByte == 2^CharBits - 2
HoldNul == {<< 2, 0 >>, << 2, 0, 2 >>, << 2, 0, 3 >>}

Simple == {Integer(i) : i \in {-Half, -1, 0, Half - 1}} \cup
          {String(s) : s \in {<< >>, << 2 >>, << 2, 3 >>, << 3 >>, << 2, HighByte >>} \cup
                            HoldNul} \cup
          {Foreign(a) : a \in {2, 4}}
Few == {Integer(0), Integer(1), String(<< 2 >>)}

ConsHash == tag_digits(ConsTag)
ListCell(v, rest) == Sexp(ConsHash, << v, rest >>)
Lists == {ListCell(v, Integer(0)) : v \in Few} \cup
         {ListCell(v, ListCell(w, Integer(0))) : v \in Few, w \in Few}

Flat == {Array(s) : s \in SeqOf(Few, 2)} \cup
        {Sexp(t, s) : t \in {1, 2^(WordSize - 2) - 1}, s \in SeqOf(Few, 2)} \cup
        {Closure(e, s) : e \in {2, 4}, s \in SeqOf(Few, 1)}
Nested == {Array(<< String(s) >>) : s \in HoldNul} \cup
          {Array(<< Array(<< Array(<< Array(<< Array(<< v >>) >>) >>) >>) >>) : v \in Few} \cup
          {Sexp(1, << Array(<< v >>), ListCell(v, Integer(0)) >>) : v \in Few} \cup
          {Closure(2, << ListCell(v, Integer(0)) >>) : v \in Few}

Values == Simple \cup Lists \cup Flat \cup Nested

Pairs == [values |-> Values \X Values, integers |-> AllIntegers \X AllIntegers,
          names |-> Names \X Names]
Library == DOMAIN Pairs

-----------------------------------------------------------------------------
(* Bytecode: a function and what follows it, assembled.  An instruction is *)
(* its cells, and the number of the instruction its first operand names.   *)

Insn(cells) == [cells |-> cells, label |-> 0]
To(op, label, rest) == [cells |-> << op, 0 >> \o rest, label |-> label]

Assemble(insns) ==
    LET Offset(i) == FoldLeft(LAMBDA sum, k : sum + Len(k.cells), 0, SubSeq(insns, 1, i - 1))
        Cells(i) == IF insns[i].label = 0 THEN insns[i].cells
                    ELSE [insns[i].cells EXCEPT ![2] = Offset(insns[i].label)]
    IN  FlattenSeq([i \in DOMAIN insns |-> Cells(i)])

Begin == Insn(<< BC.BEGIN, 0, 0 >>)
End == Insn(<< BC.END >>)
Const == Insn(<< BC.CONST, 1 >>)
Drop == Insn(<< BC.DROP >>)

\* The second function starts at the seventh instruction, where there is one.
Bodies ==
    LET Insns == {Const, Drop, To(BC.JMP, 4, << >>), To(BC.CJMPZ, 2, << >>),
                  To(BC.CJMPZ, 4, << >>)}
        Calls == {To(BC.CALL, 7, << 0 >>), To(BC.CLOSURE, 7, << 1, 0, 2 >>)}
        Tails == [2 .. 4 -> Insns]
    IN  {<< first >> \o << t[2], t[3], t[4] >> : first \in Calls \cup {Const}, t \in Tails} \cup
        {<< Const, Drop, wrong, call >> :
            wrong \in {Insn(<< 91 >>), Insn(<< 16 * BC.LD, 1 >>), Insn(<< 16 * BC.STOP >>),
                       To(BC.JMP, 2, << >>)},
            call \in Calls}

SmallBytecodes ==
    LET second(b, k) ==
            IF \E i \in 1 .. 4 : b[i].label = 7 THEN << Begin, k, Drop, End >> ELSE << >>
    IN  {[code |-> Assemble(<< Begin >> \o b \o << End >> \o second(b, Const)),
          publics |-> << 0 >>] : b \in Bodies} \cup
        {[code |-> Assemble(<< Begin, Const, Drop, Const, Drop, End, Begin >> \o t),
          publics |-> << 0, 8 >>] : t \in {<< End >>, << Const, Drop, End >>, << Const >>}} \cup
        {[code |-> Assemble(<< Begin, k, k, k, k, k, k, End >>),
          publics |-> p] : k \in {Const, Drop}, p \in {<< 0 >>, << 3, 0 >>, << 99 >>}}

\* What is loaded when the analyser does not run.
NoBytecode == CHOOSE b \in Bytecodes : b.publics = << 99 >>

-----------------------------------------------------------------------------

SequentialInit ==
    /\ Init
    /\ component \in {"lamas"} \cup
           IF file = NoBytecode THEN Library \cup {"memcpy", "truffle"} ELSE {}
    /\ \E pair \in IF component \in Library THEN Pairs[component] ELSE {<< 0, 0 >>} :
           left = pair[1] /\ right = pair[2]
    /\ Memcpy!Init
    /\ IF component = "truffle" THEN Truffle!Init ELSE tree = Truffle!Skip /\ outcome = << >>

SequentialNext ==
    /\ UNCHANGED << component, operands >>
    /\ \/ component = "memcpy" /\ Memcpy!Next /\ UNCHANGED << vars, program >>
       \/ component = "lamas" /\ Next /\ UNCHANGED << memcpy_vars, program >>
       \/ component = "truffle" /\ Truffle!Run /\ UNCHANGED << memcpy_vars, vars >>

SequentialSpec ==
    /\ SequentialInit /\ [][SequentialNext]_<< component, operands, memcpy_vars, vars, program >>
    /\ WF_memcpy_vars(component = "memcpy" /\ Memcpy!Running /\ Memcpy!ClientRuns)

-----------------------------------------------------------------------------
(* The runtime library *)

\* What the C library sees of a value's strings, and the same filled up with NULs.
RECURSIVE Shown(_), Padded(_)
Shown(v) == [v EXCEPT !.text = CString(@), !.items = [i \in DOMAIN @ |-> Shown(@[i])]]
Padded(v) ==
    [v EXCEPT !.text = Copied(@, Len(@)), !.items = [i \in DOMAIN @ |-> Padded(@[i])]]

\* 08.standard_library.tex:62 says that compare "determines a linear order relation
\* for every pairs of values".  It does not: any two integers compare as they should
\* exactly if their difference is an integer too.
IntegersOrdered ==
    component = "integers" =>
        LET c == Lcompare(left, right)
            rightly == (c < 0) = (left.n < right.n) /\ (c = 0) = (left.n = right.n)
        IN  rightly = (left.n - right.n \in -2 * Half .. 2 * Half - 1)

\* Of values whose integers are at most half their range apart Lcompare is an order:
\* it is antisymmetric and transitive, and zero exactly for the values that look
\* equal, that is, whose strings are equal up to their first NUL; such values print
\* alike, and have one hash if their strings are also of one length.  LflatCompare of
\* an integer agrees with it.  The lists end in 0, as the compiler's do.
ValuesOrdered ==
    /\ IntegersOrdered
    /\ component = "values" =>
        LET c == Lcompare(left, right)
        IN  /\ (c = 0) = (Shown(left) = Shown(right))
            /\ (c < 0) = (Lcompare(right, left) > 0)
            /\ c <= 0 => \A v \in Values : Lcompare(right, v) <= 0 => Lcompare(left, v) <= 0
            /\ c = 0 => Lstring(left) = Lstring(right)
            /\ Padded(left) = Padded(right) => Lhash(left) = Lhash(right)
            /\ UNBOXED(left) => LflatCompare(left, right) = c

\* A name that LtagHash accepts is the tag of values whose name it is, up to the
\* characters the hash covers: patterns with two names match the same values, and
\* LcompareTags finds them equal, exactly when those characters agree.
TagsNameValues ==
    (component = "names" /\ ReadsBack(left.text) /\ ReadsBack(right.text)) =>
        LET v == Sexp(LtagHash(left.text), << >>)
            w == Sexp(LtagHash(right.text), << >>)
            same == HashedPart(left.text) = HashedPart(right.text)
        IN  /\ de_hash(v.n) = HashedPart(left.text)
            /\ Btag(v, w.n, 0) = same
            /\ (LcompareTags(v, w) = 0) = same
            /\ (LcompareTags(v, w) < 0) = (LcompareTags(w, v) > 0)

\* What is concatenated is found where it was put, and taken out again, if neither
\* string holds a NUL.
Whole(v) == v.kind = "STRING" /\ CString(v.text) = v.text
StringsCompose ==
    (component \in {"values", "names"} /\ Whole(left) /\ Whole(right)) =>
        LET both == Infix_4343(left, right)
        IN  /\ both = Lstringcat(ListCell(left, ListCell(right, Integer(0))))
            /\ Lclone(both) = both
            /\ LmatchSubString(both, left, 0) /\ LmatchSubString(both, right, LEN(left))
            /\ Lsubstring(both, LEN(left), LEN(right)) = right
            /\ LmatchSubString(left, right, LEN(left)) => LEN(right) = 0

\* sprintf prints each argument where its directive stands, after a "%%" too, and as
\* long as it is; without one it leaves the words behind its arguments alone.
Directive(v) == IF UNBOXED(v) THEN "%d" ELSE "%s"
Argument(v) == IF UNBOXED(v) THEN Digits(v.n) ELSE CString(v.text)

FormatsPrint ==
    (component \in {"values", "integers"} /\ {left.kind, right.kind} \subseteq {"UNBOXED", "STRING"}) =>
        LET format == << Directive(left), ",", Directive(right) >>
            words == << left, right, left >>
            text == Argument(left) \o Literal(",") \o Argument(right)
        IN  /\ Lsprintf(format, words) = String(text)
            /\ Lsprintf(<< "%%" >> \o format, words) = String(Literal("%") \o text)
            /\ fix_unboxed(format, words)[3] = left

\* A value's text, collected in one buffer whatever its first size, holds the texts
\* of its items as they print alone, in order; a list prints as the array of its
\* elements, but for the braces.
TextsNest ==
    component = "values" =>
        LET text(v) == Lstring(v).text
            Listed(items) ==
                FoldLeft(LAMBDA t, v : (IF t = << >> THEN t ELSE t \o Literal(", ")) \o text(v),
                         << >>, items)
            Between(open, items, close) == Literal(open) \o Listed(items) \o Literal(close)
        IN  /\ left.kind = "ARRAY" => text(left) = Between("[", left.items, "]")
            /\ IsCons(left) => text(left) = Between("{", Elements(left), "}")
            /\ left.kind = "SEXP" /\ ~IsCons(left) /\ left.items # << >> =>
                   text(left) = de_hash(left.n) \o Between(" (", left.items, ")")

\* An operator means the same captured and applied in place, to any two integers;
\* quotient and remainder fit together however the quotient wraps.
OperatorsAgree ==
    component = "integers" =>
        LET inline(op) == UNBOX(Binop(op, BOX(right.n), BOX(left.n)))
        IN  /\ \A op \in Operators :
                    Traps(op, right.n) \/ Infix(op, left, right) = inline(op)
            /\ right.n # 0 =>
                    Integer(inline("/") * right.n + inline("%")) = left

\* A store into a field is read back from it and from no other, and changes no
\* type pattern's answer; one of these patterns accepts each value.  An integer that
\* is stored into a string is read back only if it is a char: a char that differs
\* from it in the bits above is read; and what was read can be stored again without
\* a change.
Chars == -(2^(CharBits - 1)) .. 2^(CharBits - 1) - 1

TypePatterns(p) ==
    << Bunboxed_patt(p), Bstring_tag_patt(p), Barray_tag_patt(p), Bsexp_tag_patt(p),
       Bclosure_tag_patt(p) >>

StoresAndPatterns ==
    (component = "values" /\ left.kind # "FOREIGN") =>
        /\ \E i \in 1 .. 5 : {j \in 1 .. 5 : TypePatterns(left)[j]} = {i}
        /\ right.kind # "FOREIGN" =>
               (LkindOf(left) = LkindOf(right)) = (TypePatterns(left) = TypePatterns(right))
        /\ Barray_patt(left, LEN(left)) = (TypePatterns(left)[3] /\ Llength(left) = LEN(left))
        /\ Bboxed_patt(left) /\ left.kind # "STRING" =>
               \A i, j \in (IF left.kind = "CLOSURE" THEN 1 ELSE 0) .. LEN(left) - 1 :
                   LET x == Bsta(right, i, left)
                   IN  /\ Belem(x, j) = IF i = j THEN right ELSE Belem(left, j)
                       /\ TypePatterns(x) = TypePatterns(left)
        /\ left.kind = "STRING" =>
               \A i, j \in 0 .. LEN(left) - 1, v \in AllIntegers :
                   LET x == Bsta(v, i, left)
                       read == Belem(x, j).n
                   IN  /\ TypePatterns(x) = TypePatterns(left) /\ LEN(x) = LEN(left)
                       /\ i # j => read = Belem(left, j).n
                       /\ i = j => /\ (read = v.n) = (v.n \in Chars)
                                   /\ read \in Chars /\ (read - v.n) % 2^CharBits = 0
                       /\ Bsta(Belem(left, j), j, left) = left
        /\ right.kind = "STRING" /\ Bstring_patt(left, right) => Lcompare(left, right) = 0
        /\ IsCons(left) => Lhd(left) = Elements(left)[1]

\* The library's functions agree with one another and with the interpreter.
LibraryAgrees ==
    /\ TagsNameValues /\ StoresAndPatterns /\ StringsCompose /\ FormatsPrint
    /\ TextsNest /\ OperatorsAgree

-----------------------------------------------------------------------------
(* parallel_memcpy *)

\* Without workers a call is a copy of the whole buffer, and returns.
PlainCallsCopy ==
    memcpy_pc[Client] = "entry" ~>
        /\ memcpy_pc[Client] = "returning"
        /\ 0 .. memcpy_size - 1 \subseteq memcpy_dst[memcpy_call]

-----------------------------------------------------------------------------
(* Lama on Truffle *)

\* In the programs of Lama on Truffle every name means what it means in the text,
\* whatever activations of its function are under way; the names that functions use
\* from outside are declared once in each program (DeclaresOnce of LamaTruffle).
NamesResolve == Truffle!NamesResolve

\* What a case binds is what its pattern names, and it takes the first branch whose
\* pattern the value fits.
PatternsTakeApart == Truffle!PatternsTakeApart

=============================================================================
