---------------------------- MODULE LamaRuntime ----------------------------
(***************************************************************************)
(* The functions of the Lama runtime library that compute with values and  *)
(* allocate at most a result (hw02_lama_bc_interpeter/runtime/runtime.c;   *)
(* hw03 and hw04 hold the same file): comparing, hashing, printing, the    *)
(* hash of a tag, the patterns and the operators.  What an allocation does *)
(* to the heap is the subject of LamaHeap.                                 *)
(*                                                                         *)
(* A value is a record.  n is an integer, the hash of a tag, the address   *)
(* of a closure's code or of something that is not in the heap; text the   *)
(* bytes of a string, items the fields.  Words have WordSize bits; an      *)
(* integer has one fewer.  A byte is a number below 2^CharBits, the first  *)
(* half of them characters: 0 is NUL, 1 to Radix are those of tags, '_'    *)
(* first, and then come those of Literals.                                 *)
(***************************************************************************)
EXTENDS Integers, Sequences, SequencesExt

CONSTANTS
    WordSize,    \* bits of an int: 32 in the code
    CharBits,    \* bits of a char: 8
    HashBits,    \* bits Lhash keeps: 22
    Radix,       \* the characters a tag may have: 64
    TagLimit,    \* how many of them its hash covers: 5
    ConsTag,     \* the tag "cons"
    STRINGBUF_INIT

ASSUME EvenWord == WordSize \in Nat \ {0} /\ WordSize % 2 = 0
ASSUME CharIsShort == CharBits \in 1 .. WordSize - 1
ASSUME HashIsWord == HashBits \in 0 .. WordSize - 2
ASSUME TagFitsInteger == Radix \in Nat \ {0, 1} /\ TagLimit \in Nat /\
                         Radix^TagLimit <= 2^(WordSize - 2)
ASSUME BufferHoldsNul == STRINGBUF_INIT \in Nat \ {0}

-----------------------------------------------------------------------------
(* Words and values *)

Unsigned(x) == x % 2^WordSize
Signed(x) == ((x + 2^(WordSize - 1)) % 2^WordSize) - 2^(WordSize - 1)
BOX(x) == Signed(2 * x + 1)
UNBOX(w) == w \div 2

Value(kind, n, text, items) == [kind |-> kind, n |-> n, text |-> text, items |-> items]
Integer(i) == Value("UNBOXED", UNBOX(BOX(i)), << >>, << >>)
String(text) == Value("STRING", 0, text, << >>)
Array(items) == Value("ARRAY", 0, << >>, items)
Sexp(tag, items) == Value("SEXP", tag, << >>, items)
Closure(entry, captured) == Value("CLOSURE", entry, << >>, captured)
Foreign(address) == Value("FOREIGN", address, << >>, << >>)

UNBOXED(p) == p.kind = "UNBOXED"
is_valid_heap_pointer(p) == p.kind \notin {"UNBOXED", "FOREIGN"}

TAG == [STRING |-> 1, ARRAY |-> 3, SEXP |-> 5, CLOSURE |-> 7]
LEN(p) == CASE p.kind = "STRING"  -> Len(p.text)
            [] p.kind = "CLOSURE" -> Len(p.items) + 1
            [] OTHER              -> Len(p.items)

LkindOf(p) == IF UNBOXED(p) THEN 9 ELSE TAG[p.kind]
Llength(p) == UNBOX(BOX(LEN(p)))

\* A char is signed.
Char(b) == IF b < 2^(CharBits - 1) THEN b ELSE b - 2^CharBits
Byte(n) == n % 2^CharBits

\* What the C library makes of the bytes of a string.
CString(text) == SubSeq(text, 1, SelectInSeq(text \o << 0 >>, LAMBDA c : c = 0) - 1)

-----------------------------------------------------------------------------
(* Tags.  A name's hash is read back before it is returned: a name that    *)
(* begins with '_', the digit 0, comes back shorter and is refused.        *)

HashedPart(s) == SubSeq(s, 1, IF Len(s) < TagLimit THEN Len(s) ELSE TagLimit)

tag_digits(s) == FoldLeft(LAMBDA h, c : h * Radix + (c - 1), 0, HashedPart(s))

RECURSIVE de_hash(_)
de_hash(n) == IF n = 0 THEN << >> ELSE Append(de_hash(n \div Radix), (n % Radix) + 1)

ReadsBackUnchecked(s) == \A i \in DOMAIN HashedPart(s) : s[i] \in 1 .. Radix
ReadsBack(s) ==
    /\ \A i \in DOMAIN HashedPart(s) : s[i] \in 1 .. Radix
    /\ de_hash(tag_digits(s)) = HashedPart(s)

\* LtagHash's result once it is unboxed, when it returns.
LtagHash(s) == UNBOX(BOX(tag_digits(s)))

LcompareTags(p, q) == UNBOX(BOX(p.n - q.n))

-----------------------------------------------------------------------------
(* Comparing.  A difference is boxed, and loses the highest bit.           *)

Compared(x, y) == UNBOX(BOX(x - y))

\* Only the sign of strcmp's result is known; it compares bytes as unsigned.
strcmp(s, t) ==
    LET a == CString(s) \o << 0 >>
        b == CString(t) \o << 0 >>
        Differ == {i \in DOMAIN a \cap DOMAIN b : a[i] # b[i]}
        i == CHOOSE i \in Differ : \A j \in Differ : i <= j
    IN  IF Differ = {} THEN 0 ELSE IF a[i] < b[i] THEN -1 ELSE 1

\* The first of the tests COMPARE_AND_RETURN that finds a difference.
FirstDifference(tests) ==
    FoldLeft(LAMBDA c, d : IF c # 0 THEN c ELSE d, 0, tests)

RECURSIVE Lcompare(_, _)

ItemTests(p, q) ==
    [i \in 1 .. (IF Len(p.items) < Len(q.items) THEN Len(p.items) ELSE Len(q.items))
        |-> Lcompare(p.items[i], q.items[i])]

LengthsIgnored(p, q) == FirstDifference(<< Compared(p.n, q.n) >> \o ItemTests(p, q))

\* Two values of one kind: entry or tag, number of fields, the fields.
SameKindCompare(p, q) ==
    FirstDifference(<< Compared(p.n, q.n), Compared(LEN(p), LEN(q)) >> \o ItemTests(p, q))

Lcompare(p, q) ==
    CASE p = q                       -> 0
      [] UNBOXED(p) /\ UNBOXED(q)    -> Compared(p.n, q.n)
      [] UNBOXED(p) # UNBOXED(q)     -> IF UNBOXED(p) THEN -1 ELSE 1
      [] is_valid_heap_pointer(p) # is_valid_heap_pointer(q) ->
            IF is_valid_heap_pointer(p) THEN -1 ELSE 1
      [] ~is_valid_heap_pointer(p)   -> Compared(p.n, q.n)
      [] p.kind # q.kind             -> Compared(TAG[p.kind], TAG[q.kind])
      [] p.kind = "STRING"           -> strcmp(p.text, q.text)
      [] OTHER                       -> SameKindCompare(p, q)

\* Of an integer and any value; of others it would compare addresses.
LflatCompare(p, q) == IF UNBOXED(q) THEN Compared(p.n, q.n) ELSE -1

-----------------------------------------------------------------------------
(* Hashing *)

HASH_DEPTH == 3

\* The sum of acc and x with its halves exchanged.
HASH_APPEND(acc, x) ==
    LET sum == Unsigned(acc + x)
        half == 2^(WordSize \div 2)
    IN  (sum % half) * half + sum \div half

Hashed(acc, xs) == FoldLeft(LAMBDA a, x : HASH_APPEND(a, x), acc, xs)

RECURSIVE inner_hash(_, _, _)
inner_hash(depth, acc, p) ==
    LET header == Hashed(acc, << TAG[p.kind], LEN(p) >>)
        fields(from) ==
            FoldLeft(LAMBDA a, item : inner_hash(depth + 1, a, item), from, p.items)
    IN  CASE depth > HASH_DEPTH           -> acc
          [] ~is_valid_heap_pointer(p)    -> HASH_APPEND(acc, p.n)
          [] p.kind = "STRING"            ->
                Hashed(header, [i \in DOMAIN CString(p.text) |-> Char(p.text[i])])
          [] p.kind \in {"CLOSURE", "SEXP"} -> fields(HASH_APPEND(header, p.n))
          [] OTHER                        -> fields(header)

Lhash(p) == inner_hash(0, 0, p) % 2^HashBits

-----------------------------------------------------------------------------
(* Printing.  Each call of printStringBuf prints a text, a sequence of      *)
(* characters.  A literal text is one character, here and in strings that  *)
(* hold it.  Numbers are written to the base Radix, with characters of     *)
(* tags as digits, as the digits are in the code.                          *)

Literals == << ",", "%", "*** invalid ***", ", ", "\"", "-", "0x", "[", "]", "{", "}",
               " (", ")", "<closure ", ">" >>
Literal(t) == << Radix + CHOOSE i \in DOMAIN Literals : Literals[i] = t >>

RECURSIVE Numeral(_)
Numeral(n) == (IF n < Radix THEN << >> ELSE Numeral(n \div Radix)) \o << (n % Radix) + 1 >>
Digits(i) == IF i < 0 THEN Literal("-") \o Numeral(-i) ELSE Numeral(i)

Separated(parts) ==
    FlattenSeq([i \in DOMAIN parts |->
                    parts[i] \o (IF i < Len(parts) THEN << Literal(", ") >> ELSE << >>)])

IsCons(p) == p.kind = "SEXP" /\ de_hash(p.n) = ConsTag

\* The elements of a list: a cell's tail is followed when it is boxed.
RECURSIVE Elements(_)
Elements(cell) ==
    IF LEN(cell) = 0 THEN << >>
    ELSE << cell.items[1] >> \o
         (IF UNBOXED(cell.items[2]) THEN << >> ELSE Elements(cell.items[2]))

\* The texts printed for a value.  The bytes of a string are not escaped.
RECURSIVE printValue(_)
printValue(p) ==
    LET each(items) == [i \in DOMAIN items |-> printValue(items[i])]
        within(open, parts, close) ==
            << Literal(open) >> \o Separated(parts) \o << Literal(close) >>
        address == << Literal("0x") \o Numeral(Unsigned(p.n)) >>
    IN  CASE UNBOXED(p)              -> << Digits(p.n) >>
          [] p.kind = "FOREIGN"      -> address
          [] p.kind = "STRING"       -> << Literal("\"") \o CString(p.text) \o Literal("\"") >>
          [] p.kind = "CLOSURE"      ->
                within("<closure ", << address >> \o each(p.items), ">")
          [] p.kind = "ARRAY"        -> within("[", each(p.items), "]")
          [] IsCons(p)               -> within("{", each(Elements(p)), "}")
          [] OTHER                   ->
                << de_hash(p.n) >> \o
                    (IF LEN(p) = 0 THEN << >> ELSE within(" (", each(p.items), ")"))

-----------------------------------------------------------------------------
(* The buffer text is collected in.  It doubles until what is printed fits *)
(* together with its NUL.                                                  *)

createStringBuf == [contents |-> << >>, len |-> STRINGBUF_INIT]
extendStringBuf(buf) == [buf EXCEPT !.len = 2 * @]

\* What vsnprintf stores of a text, its NUL aside.
Stored(text, rest) == SubSeq(text, 1, IF Len(text) < rest THEN Len(text) ELSE rest - 1)

RECURSIVE vprintStringBuf(_, _)
vprintStringBuf(buf, text) ==
    LET rest == buf.len - Len(buf.contents)
    IN  IF Len(text) >= rest THEN vprintStringBuf(extendStringBuf(buf), text)
        ELSE [buf EXCEPT !.contents = @ \o Stored(text, rest)]

Collected(texts) ==
    FoldLeft(LAMBDA buf, text : vprintStringBuf(buf, text), createStringBuf, texts).contents

-----------------------------------------------------------------------------
(* Strings.  A result is a C string followed by its NUL, which LEN leaves  *)
(* out.  stringcat prints text after text, and words for what is no list   *)
(* of strings.                                                             *)

RECURSIVE stringcat(_)
stringcat(p) ==
    CASE UNBOXED(p)          -> << >>
      [] p.kind = "STRING"   -> << CString(p.text) >>
      [] IsCons(p)           ->
            FlattenSeq([i \in DOMAIN Elements(p) |-> stringcat(Elements(p)[i])])
      [] OTHER               -> << Literal("*** invalid ***") >>

Bstring(text) == String(CString(text))
Lstringcat(p) == Bstring(Collected(stringcat(p)))
Lstring(p) == Bstring(Collected(printValue(p)))
Lclone(p) == IF p.kind = "STRING" THEN Bstring(p.text) ELSE p

\* strncpy stops at a NUL and fills the rest with NULs.
Copied(text, len) ==
    [i \in 1 .. len |-> IF i <= Len(CString(text)) THEN text[i] ELSE 0]

Infix_4343(a, b) == String(Copied(a.text, LEN(a)) \o Copied(b.text, LEN(b)))

\* Where the position is not negative.
Lsubstring(subj, p, l) ==
    String(Copied(SubSeq(subj.text, p + 1, Len(subj.text)), l))

LmatchSubString(subj, patt, pos) ==
    /\ LEN(patt) + pos <= LEN(subj)
    /\ CString(SubSeq(subj.text, pos + 1, pos + LEN(patt))) = CString(patt.text)

-----------------------------------------------------------------------------
(* Formats.  Of a format only the directives "%d", "%s" and "%%" matter,   *)
(* and that something stands between them, here ",".  The words are the    *)
(* arguments and what the caller has behind them on its stack.             *)

Percents(format) ==
    FoldLeft(LAMBDA k, item : k + (CASE item = "%%" -> 2 [] item = "," -> 0 [] OTHER -> 1),
             0, format)

\* Each '%' is taken for an argument, both of "%%" too.
fix_unboxed(format, words) ==
    [i \in DOMAIN words |-> IF i <= Percents(format) /\ UNBOXED(words[i])
                            THEN Foreign(words[i].n) ELSE words[i]]

RECURSIVE formatted(_, _)
formatted(format, words) ==
    LET w == Head(words)
    IN  CASE format = << >>       -> << >>
          [] Head(format) = "%d"  -> Digits(IF UNBOXED(w) THEN BOX(w.n) ELSE w.n) \o
                                     formatted(Tail(format), Tail(words))
          [] Head(format) = "%s"  -> CString(w.text) \o formatted(Tail(format), Tail(words))
          [] Head(format) = "%%"  -> Literal("%") \o formatted(Tail(format), words)
          [] OTHER                -> Literal(",") \o formatted(Tail(format), words)

Lsprintf(format, words) ==
    Bstring(Collected(<< formatted(format, fix_unboxed(format, words)) >>))

-----------------------------------------------------------------------------
(* Patterns and fields *)

Btag(d, t, n) == d.kind = "SEXP" /\ d.n = t /\ LEN(d) = n
Barray_patt(d, n) == d.kind = "ARRAY" /\ LEN(d) = n
Bstring_patt(x, y) == x.kind = "STRING" /\ strcmp(x.text, y.text) = 0
Bclosure_tag_patt(x) == x.kind = "CLOSURE"
Bboxed_patt(x) == ~UNBOXED(x)
Bunboxed_patt(x) == UNBOXED(x)
Barray_tag_patt(x) == x.kind = "ARRAY"
Bstring_tag_patt(x) == x.kind = "STRING"
Bsexp_tag_patt(x) == x.kind = "SEXP"

\* A string's element is a char; a closure's element 0 is the address of its code.
Belem(p, i) ==
    CASE p.kind = "STRING"  -> Integer(Char(p.text[i + 1]))
      [] p.kind = "CLOSURE" -> IF i = 0 THEN Foreign(p.n) ELSE p.items[i]
      [] OTHER              -> p.items[i + 1]

Lhd(v) == Belem(v, 0)
Ltl(v) == Belem(v, 1)

\* The array, or the string, after the store of v at i: of an integer that is
\* stored into a string the lowest bits stay, (char) UNBOX(v).
Bsta(v, i, x) ==
    CASE x.kind = "STRING"  -> [x EXCEPT !.text[i + 1] = Byte(v.n)]
      [] x.kind = "CLOSURE" -> [x EXCEPT !.items[i] = v]
      [] OTHER              -> [x EXCEPT !.items[i + 1] = v]

-----------------------------------------------------------------------------
(* Operators: the library's functions, for an operator that is captured,   *)
(* and the interpreter's own.  C's division truncates.                     *)

Truth(b) == IF b THEN 1 ELSE 0
Magnitude(a) == IF a < 0 THEN -a ELSE a
Quotient(a, b) ==
    (IF (a < 0) = (b < 0) THEN 1 ELSE -1) * (Magnitude(a) \div Magnitude(b))

Arithmetic == {"+", "-", "*", "/", "%"}
Comparisons == {"<", "<=", ">", ">=", "==", "!="}
Connectives == {"&&", "!!"}
Operators == Arithmetic \cup Comparisons \cup Connectives

\* What the C operator makes of two ints; dividing by zero traps.
Traps(op, b) == op \in {"/", "%"} /\ b = 0

Evaluated(op, a, b) ==
    CASE op = "+"  -> Signed(a + b)
      [] op = "-"  -> Signed(a - b)
      [] op = "*"  -> Signed(a * b)
      [] op = "/"  -> Signed(Quotient(a, b))
      [] op = "%"  -> a - b * Quotient(a, b)
      [] op = "<"  -> Truth(a < b)
      [] op = "<=" -> Truth(a <= b)
      [] op = ">"  -> Truth(a > b)
      [] op = ">=" -> Truth(a >= b)
      [] op = "==" -> Truth(a = b)
      [] op = "!=" -> Truth(a # b)
      [] op = "&&" -> Truth(a # 0 /\ b # 0)
      [] op = "!!" -> Truth(a # 0 \/ b # 0)

\* Ls__Infix_...: the operator as a function of two values.  "==" compares the
\* words; the others take integers.
Infix(op, p, q) ==
    IF op = "==" THEN UNBOX(BOX(Truth(p = q))) ELSE UNBOX(BOX(Evaluated(op, p.n, q.n)))

\* The interpreter's BINOP pops the words v, then w, and looks at no tag.
BinopSwapped(op, v, w) == BOX(Evaluated(op, UNBOX(v), UNBOX(w)))
Binop(op, v, w) == BOX(Evaluated(op, UNBOX(w), UNBOX(v)))

=============================================================================
