--------------------------- MODULE MCLamaMachine ---------------------------
(***************************************************************************)
(* Programs for TLC, of the shape the compiler gives them: functions from  *)
(* BEGIN to END, jumps inside a function, calls with as many arguments as  *)
(* the callee's BEGIN declares, no RET.  What stands between is arbitrary. *)
(***************************************************************************)
EXTENDS LamaInterpreters

Op(o) == [op |-> o, n |-> 0, to |-> 0, locals |-> 0, locs |-> << >>]
OpN(o, n) == [Op(o) EXCEPT !.n = n]
Jump(o, to) == [Op(o) EXCEPT !.to = to]
Begin(o, args, locals) == [Op(o) EXCEPT !.n = args, !.locals = locals]
Locate(o, type) == [Op(o) EXCEPT !.locs = << [type |-> type, idx |-> 0] >>]

Program(code, publics) == [code |-> code, publics |-> publics]

\* The compiler's main declares two arguments that nobody pushes.
Main(body) == << Begin("BEGIN", 2, 0) >> \o body \o << Op("END") >>

Constants(k) == [i \in 1 .. k |-> Op("CONST")]

\* Straight code: any two instructions, over as many words as they take or fewer.
Straight ==
    LET Insns == {Op(o) : o \in SimpleOps \cup {"STOP", "FAIL"}} \cup
                 {OpN("SEXP", 2), OpN("BARRAY", 0), Locate("LD", "GLOBAL"),
                  Locate("LDA", "GLOBAL"), Locate("ST", "GLOBAL"), Locate("LD", "LOCAL")}
            Before == {<< >>, Constants(1), << Op("DROP") >>, << Op("DROP"), Op("DROP") >>,
                   << Op("CONST"), Op("DROP"), Op("DROP"), Op("DROP") >>}
    IN  {Program(Main(a \o b), << 1 >>) : a \in Before, b \in [1 .. 2 -> Insns]}

\* Branches and loops.
Branching ==
    LET Insns == {Op("CONST"), Op("DROP"), Jump("CJMPNZ", 3)} \cup
                 {Jump(o, to) : o \in {"JMP", "CJMPZ"}, to \in {2, 4, 6}}
    IN  {Program(Main(b), << 1 >>) : b \in [1 .. 4 -> Insns]}

\* A second function, called or made a closure of by main and by itself: it
\* declares what it likes, and main leaves it enough words or not.  As in the
\* compiler's code every closure of a function captures as many values, and a
\* function that captures some is not the target of a CALL.
Made(captures) == [Op("CLOSURE") EXCEPT !.locs = captures]

\* An operand that names the second function is its offset f.
Resolve(body, f, args) ==
    [i \in DOMAIN body |->
        CASE body[i].op = "CALL"    -> [body[i] EXCEPT !.to = f, !.n = args]
          [] body[i].op = "CALLC"   -> [body[i] EXCEPT !.n = args]
          [] body[i].op = "CLOSURE" -> [body[i] EXCEPT !.to = f]
          [] OTHER                  -> body[i]]

WithFunction(main, function, shape) ==
    LET f == Len(main) + 3
    IN  Program(Main(Resolve(main, f, shape.args))
                    \o << Begin(shape.op, shape.args, shape.locals) >>
                    \o Resolve(function, f, shape.args) \o << Op("END") >>,
                IF shape.public THEN << 1, f >> ELSE << 1 >>)

Shapes ==
    [op : {"BEGIN"}, args : 0 .. 1, locals : 0 .. 1, public : BOOLEAN] \cup
    [op : {"CBEGIN"}, args : 0 .. 1, locals : {1}, public : {FALSE}]

Inside == {Op("CONST"), Op("DROP"), Locate("LD", "ARGUMENT"), Locate("ST", "LOCAL"),
           Locate("LD", "CAPTURED"), OpN("SEXP", 2)}

Calls ==
    LET Uses == {Constants(k) \o << Op("CALL") >> : k \in 0 .. 2} \cup
                {<< Made(<< >>), Op("CALLC") >>,
                 << Made(<< >>), Op("CONST"), Op("CALL"), Op("CALLC") >>}
    IN  {WithFunction(b, c, s) :
            b \in Uses, c \in [1 .. 2 -> Inside \cup {Op("CALL")}], s \in Shapes}

Closures ==
    LET close == Made(<< [type |-> "GLOBAL", idx |-> 0] >>)
        Uses == {<< close >> \o Constants(k) \o << Op("CALLC") >> : k \in 0 .. 2} \cup
                {<< close, Op("DROP"), close, Op("CALLC") >>, << Op("CALLC"), close >>}
    IN  {WithFunction(b, c, s) :
            b \in Uses, c \in [1 .. 2 -> Inside \cup {close, Op("CALLC")}],
            s \in {x \in Shapes : ~x.public}}

\* A call that leaves less than nothing, and an array of nothing that hides it.
Starved ==
    {WithFunction(<< Op("DROP"), Op("DROP"), Op("CALL"), OpN("BARRAY", 0) >> \o Constants(3),
                  Constants(1), [op |-> "BEGIN", args |-> 2, locals |-> 0, public |-> FALSE])}

SmallPrograms == Starved \cup Straight \cup Branching \cup Calls \cup Closures

=============================================================================
