------------------------- MODULE LamaMachineProofs -------------------------
(***************************************************************************)
(* The verifier of hw04 is sound: for every program of the compiler's      *)
(* shape, of any length, the interpreter without checks meets each         *)
(* instruction with the depth the verifier computed for it.                *)
(***************************************************************************)
EXTENDS LamaInterpreters, SequenceTheorems, WellFoundedInduction, TLAPS

-----------------------------------------------------------------------------
(* The inductive invariant.  First what the verifier knows.                *)

Visited(o) == rel_st_size[o] # Unreached

FunctionAt(o) == FunctionOf(program.code, o)

Dispatches ==
    [offset : Offsets, depth : Int, fun : Offsets,
     kind : {"next", "public", "call", "closure"}, captured : Nat]

Functions ==
    [begin : Offsets \cup {0}, args : Nat, locals : Nat, captured : Nat,
     min_rel_st_size : Int, max_rel_st_size : Int]

VerifierTyped ==
    /\ program \in Programs
    /\ pending \in Seq(Dispatches)
    /\ rel_st_size \in [Offsets -> Int \cup {Unreached}]
    /\ funs \in [Offsets -> Functions]
    /\ verdict \in {"verifying", "accepted", "rejected"}

\* A dispatch to be made goes on in a function that has met its BEGIN, or enters
\* one in a way the program allows.
Continues(d) ==
    /\ d.kind = "next" /\ Code(d.offset).op \notin Begins
    /\ FunctionAt(d.offset) = d.fun /\ Visited(d.fun)

Enters(d) ==
    /\ d.kind # "next" /\ Code(d.offset).op \in Begins
    /\ d.fun = d.offset /\ d.depth = 0
    /\ [entry |-> d.offset, captured |-> d.captured] \in Entries(program)

PendingOrderly == \A d \in Range(pending) : Continues(d) \/ Enters(d)

Awaited(o) == \E d \in Range(pending) : d.offset = o

AwaitedWith(o, depth) ==
    \E d \in Range(pending) : d.kind = "next" /\ d.offset = o /\ d.depth = depth

\* Where control can go from what is visited is visited, or still to be.
Followed ==
    /\ Visited(1) \/ Awaited(1)
    /\ \A o \in Offsets : Visited(o) =>
        /\ \A s \in Successors(Code(o), o) :
            \/ rel_st_size[s] = After(Code(o), rel_st_size[o])
            \/ AwaitedWith(s, After(Code(o), rel_st_size[o]))
        /\ Code(o).op \in {"CALL", "CLOSURE"} => Visited(Code(o).to) \/ Awaited(Code(o).to)

LimitIn(f, type) ==
    IF type = "GLOBAL" THEN Globals
    ELSE IF type = "LOCAL" THEN funs[f].locals
    ELSE IF type = "ARGUMENT" THEN funs[f].args
    ELSE funs[f].captured

\* The record of a function knows its BEGIN and every instruction visited in it.
RecordOf(f) ==
    /\ Visited(f) /\ funs[f].begin # 0
    /\ funs[f].args = Code(f).n /\ funs[f].locals = Code(f).locals
    /\ [entry |-> f, captured |-> funs[f].captured] \in Entries(program)

Known(o, f) ==
    /\ funs[f].min_rel_st_size <= Lowest(Code(o), rel_st_size[o])
    /\ Code(o).op = "END" => rel_st_size[o] - 1 = Code(f).n
    /\ \A i \in DOMAIN Code(o).locs : Code(o).locs[i].idx < LimitIn(f, Code(o).locs[i].type)

Recorded ==
    \A o \in Offsets : Visited(o) =>
        /\ RecordOf(FunctionAt(o))
        /\ Code(o).op \in Begins => rel_st_size[o] = 0
        /\ Code(o).op \notin Begins => Known(o, FunctionAt(o))

Judged ==
    verdict = "accepted" =>
        /\ pending = << >>
        /\ \A f \in Offsets : funs[f].begin # 0 => funs[f].min_rel_st_size >= 0

VerifierInv == VerifierTyped /\ PendingOrderly /\ Followed /\ Recorded /\ Judged

-----------------------------------------------------------------------------
(* Then what the interpreter relies on.                                    *)

FrameSet ==
    [fn : Offsets, base : Int, locals : Nat, args : Nat, closure : {0, 1}, captured : Nat,
     ret : Nat]

MachineTyped ==
    /\ ip \in Offsets /\ height \in Int
    /\ frames \in Seq(FrameSet) /\ Len(frames) \in 1 .. MaxFrames
    /\ \A c \in made : c.entry \in Offsets
    /\ status \in {"running", "stopped", "failed", "type error"}

\* Nothing runs before the verdict.
AtRest ==
    verdict # "accepted" =>
        /\ ip = 1 /\ height = Globals /\ made = {} /\ status = "running"
        /\ Len(frames) = 1 /\ frames[1].base = Globals /\ frames[1].locals = 0

MainFirst ==
    /\ frames[1].fn = 1 /\ frames[1].base = Globals
    /\ frames[1].args = 0 /\ frames[1].captured = 0 /\ frames[1].closure = 0

\* The caller of each frame waits behind a call the verifier has seen, with the
\* words it computed for that call.
Suspended(caller, callee) ==
    LET call == callee.ret - 1
    IN  /\ call \in Offsets /\ Visited(call) /\ FunctionAt(call) = caller.fn
        /\ Code(call).op = IF callee.closure = 0 THEN "CALL" ELSE "CALLC"
        /\ Code(call).n = callee.args
        /\ caller.locals = Code(caller.fn).locals
        /\ rel_st_size[call] = callee.base - caller.base - caller.locals + Code(caller.fn).n

Entered(fr) ==
    /\ fr.args = Code(fr.fn).n
    /\ [entry |-> fr.fn, captured |-> fr.captured] \in Entries(program)

FramesLinked ==
    \A i \in 2 .. Len(frames) : Suspended(frames[i - 1], frames[i]) /\ Entered(frames[i])

ClosuresKnown ==
    \A c \in made : c \in Entries(program) /\ Visited(c.entry)

\* The running function is where the verifier has been, with the words it counted.
RunsOn ==
    status = "running" =>
        /\ FunctionAt(ip) = cur_frame.fn
        /\ Insn.op \in Begins => cur_frame.locals = 0 /\ height = cur_frame.base
        /\ Insn.op \notin Begins =>
            /\ cur_frame.locals = Code(cur_frame.fn).locals
            /\ rel_st_size[ip] =
                height - cur_frame.base - cur_frame.locals + Code(cur_frame.fn).n

Tracks ==
    verdict = "accepted" => Visited(ip) /\ FramesLinked /\ ClosuresKnown /\ RunsOn

MachineInv == MachineTyped /\ AtRest /\ MainFirst /\ Tracks

-----------------------------------------------------------------------------
(* Numbers                                                                 *)

\* A non-empty set of numbers has a least one.
LEMMA Least ==
    ASSUME NEW S \in SUBSET Nat, S # {}
    PROVE  \E i \in S : \A j \in S : i <= j
<1>1. \E i \in S : \A j \in S : ~(<< j, i >> \in OpToRel(<, Nat))
    BY WFMin, NatLessThanWellFounded
<1>2. PICK i \in S : \A j \in S : ~(j < i)
    BY <1>1 DEF OpToRel
<1>3. \A j \in S : i <= j
    BY <1>2
<1> QED
    BY <1>3

-----------------------------------------------------------------------------
(* The shape of the code, in the verifier's terms                          *)

LEMMA LastBegin ==
    ASSUME NEW o \in Offsets, Code(1).op \in Begins
    PROVE  /\ FunctionAt(o) \in 1 .. o /\ Code(FunctionAt(o)).op \in Begins
           /\ Code(o).op \in Begins => FunctionAt(o) = o
<1> DEFINE Back == {n \in 0 .. o - 1 : Code(o - n).op \in Begins}
<1>1. o \in Nat /\ o >= 1
    BY DEF Offsets
<1>2. o - 1 \in Back /\ Back \subseteq Nat
    BY <1>1
<1>3. \E m \in Back : \A k \in Back : ~(<< k, m >> \in OpToRel(<, Nat))
    BY <1>2, WFMin, NatLessThanWellFounded
<1>4. PICK m \in Back : \A k \in Back : ~(k < m)
    BY <1>2, <1>3 DEF OpToRel
<1>5. /\ o - m \in 1 .. o /\ Code(o - m).op \in Begins
      /\ \A g \in (o - m) + 1 .. o : Code(g).op \notin Begins
    <2>1. ASSUME NEW g \in (o - m) + 1 .. o PROVE Code(g).op \notin Begins
        <3>1. o - g < m /\ o - (o - g) = g /\ o - g \in 0 .. o - 1
            BY <1>1, <1>4
        <3> QED
            BY <1>4, <3>1
    <2> QED
        BY <1>1, <1>4, <2>1
<1>6. /\ FunctionAt(o) \in 1 .. o /\ Code(FunctionAt(o)).op \in Begins
      /\ \A g \in FunctionAt(o) + 1 .. o : Code(g).op \notin Begins
    BY <1>5 DEF FunctionAt, FunctionOf, Code
<1>7. Code(o).op \in Begins => FunctionAt(o) = o
    BY <1>1, <1>6
<1> QED
    BY <1>6, <1>7

\* The facts about the code the proofs use.
Shape ==
    /\ DOMAIN program.code = Offsets /\ 1 \in Offsets /\ Code(1).op \in Begins
    /\ program.publics \in Seq(Offsets)
    /\ \E i \in DOMAIN program.publics : program.publics[i] = 1
    /\ \A o \in Offsets :
        /\ Code(o) \in Instructions /\ Code(o).op # "RET"
        /\ FunctionAt(o) \in Offsets /\ Code(FunctionAt(o)).op \in Begins
        /\ Code(o).op \in Begins => FunctionAt(o) = o
        /\ \A s \in Successors(Code(o), o) :
            s \in Offsets /\ Code(s).op \notin Begins /\ FunctionAt(s) = FunctionAt(o)
        /\ Code(o).op = "CALL" => Code(o).n = Code(Code(o).to).n
        /\ FunctionAt(o) = 1 =>
            \A i \in DOMAIN Code(o).locs : Code(o).locs[i].type # "ARGUMENT"
        /\ Code(o).op = "CALL" => [entry |-> Code(o).to, captured |-> 0] \in Entries(program)
        /\ Code(o).op = "CLOSURE" =>
            [entry |-> Code(o).to, captured |-> Len(Code(o).locs)] \in Entries(program)
    /\ \A i \in DOMAIN program.publics :
        [entry |-> program.publics[i], captured |-> 0] \in Entries(program)
    /\ \A e \in Entries(program) : e.entry \in Offsets /\ Code(e.entry).op \in Begins
    /\ \A e, f \in Entries(program) : e.entry = f.entry => e = f

LEMMA ProgramShape == program \in Programs => Shape
<1> SUFFICES ASSUME program \in Programs PROVE Shape
    OBVIOUS
<1>1. Compiled(program)
    BY ProgramsAreCompiled
<1>2. /\ program.code \in Seq(Instructions) /\ program.code # << >>
      /\ DOMAIN program.code = Offsets /\ 1 \in Offsets
      /\ \A o \in Offsets : Code(o) \in Instructions
    BY <1>1 DEF Compiled, Offsets, Code
<1>3. Code(1).op \in Begins
    BY <1>1 DEF Compiled, Code
<1>4. \A o \in Offsets :
        /\ FunctionAt(o) \in Offsets /\ Code(FunctionAt(o)).op \in Begins
        /\ Code(o).op \in Begins => FunctionAt(o) = o
    <2> TAKE o \in Offsets
    <2> QED
        BY <1>3, LastBegin DEF Offsets
<1>5. \A o \in Offsets :
        /\ Code(o).op # "RET"
        /\ \A s \in Successors(Code(o), o) :
            s \in Offsets /\ Code(s).op \notin Begins /\ FunctionAt(s) = FunctionAt(o)
        /\ Code(o).op = "CALL" => Code(o).n = Code(Code(o).to).n
        /\ FunctionAt(o) = 1 =>
            \A i \in DOMAIN Code(o).locs : Code(o).locs[i].type # "ARGUMENT"
    BY <1>1, <1>2 DEF Compiled, Code, FunctionAt
<1>6. /\ program.publics \in Seq(Offsets)
      /\ \E i \in DOMAIN program.publics : program.publics[i] = 1
    BY <1>1, <1>2 DEF Compiled
<1>7. \A o \in Offsets :
        /\ Code(o).op = "CALL" => [entry |-> Code(o).to, captured |-> 0] \in Entries(program)
        /\ Code(o).op = "CLOSURE" =>
            [entry |-> Code(o).to, captured |-> Len(Code(o).locs)] \in Entries(program)
    BY <1>2 DEF Entries, Code
<1>8. \A i \in DOMAIN program.publics :
        [entry |-> program.publics[i], captured |-> 0] \in Entries(program)
    BY DEF Entries
<1>9. /\ \A e \in Entries(program) : e.entry \in Offsets /\ Code(e.entry).op \in Begins
      /\ \A e, f \in Entries(program) : e.entry = f.entry => e = f
    BY <1>1, <1>2 DEF Compiled, Code
<1> QED
    BY <1>2, <1>3, <1>4, <1>5, <1>6, <1>7, <1>8, <1>9 DEF Shape

-----------------------------------------------------------------------------
(* The tables                                                              *)

Ops == DOMAIN Delta \cup BlockOps \cup Begins

\* What the verifier adds for an instruction is what the interpreter pushes more
\* than it pops, and what it takes for the lowest depth what is left then.
LEMMA TablesAgree ==
    \A op \in SimpleOps \cup LocOps :
        /\ Pops[op] \in Nat /\ Pushes[op] \in Nat
        /\ Delta[op] = Pushes[op] - Pops[op] /\ Overflow[op] = -Pops[op]
BY DEF SimpleOps, LocOps, Delta, Overflow, Pops, Pushes

LEMMA OneWordMore ==
    \A op \in SimpleOps \cup LocOps : Pushes[op] <= Pops[op] + 1 \/ op = "LDA"
BY DEF SimpleOps, LocOps, Pops, Pushes

LEMMA TablesTyped ==
    \A op \in DOMAIN Delta :
        Delta[op] \in Int /\ Overflow[op] \in Int /\ op \notin BlockOps \cup Begins
BY DEF Delta, Overflow, BlockOps, Begins

LEMMA DepthsTyped ==
    ASSUME NEW in \in Instructions, NEW d \in Int
    PROVE  /\ After(in, d) \in Int
           /\ in.op \notin Begins => Lowest(in, d) \in Int /\ Highest(in, d) \in Int
<1>1. in.n \in Nat /\ in.op \in Ops
    BY DEF Instructions, Ops
<1>2. in.op \in DOMAIN Delta => Delta[in.op] \in Int /\ Overflow[in.op] \in Int
    BY TablesTyped
<1>3. After(in, d) \in Int
    <2>1. in.op \notin Begins \cup BlockOps => in.op \in DOMAIN Delta
        BY <1>1 DEF Ops
    <2> QED
        BY <1>1, <1>2, <2>1 DEF After, AfterCall
<1> QED
    BY <1>1, <1>2, <1>3 DEF Lowest, Highest, Ops

LEMMA MinOfTwo ==
    ASSUME NEW a \in Int, NEW b \in Int
    PROVE  Min({a, b}) \in Int /\ Min({a, b}) <= a /\ Min({a, b}) <= b
<1>1. \E x \in {a, b} : \A y \in {a, b} : x <= y
    BY a <= b \/ b <= a
<1>2. Min({a, b}) \in {a, b} /\ \A y \in {a, b} : Min({a, b}) <= y
    BY <1>1 DEF Min
<1> QED
    BY <1>2

LEMMA MaxOfTwo ==
    ASSUME NEW a \in Int, NEW b \in Int
    PROVE  Max({a, b}) \in Int /\ Max({a, b}) >= a /\ Max({a, b}) >= b
<1>1. \E x \in {a, b} : \A y \in {a, b} : x >= y
    BY a <= b \/ b <= a
<1>2. Max({a, b}) \in {a, b} /\ \A y \in {a, b} : Max({a, b}) >= y
    BY <1>1 DEF Max
<1> QED
    BY <1>2

-----------------------------------------------------------------------------
(* One dispatch                                                            *)

LEMMA NowIsPending ==
    ASSUME VerifierTyped, Verifying
    PROVE  /\ Now \in Dispatches /\ Tail(pending) \in Seq(Dispatches)
           /\ Range(pending) = {Now} \cup Range(Tail(pending))
<1>1. pending \in Seq(Dispatches) /\ pending # << >>
    BY DEF VerifierTyped, Verifying
<1>2. /\ Now \in Dispatches /\ Tail(pending) \in Seq(Dispatches)
      /\ Len(Tail(pending)) = Len(pending) - 1 /\ Len(pending) \in Nat \ {0}
      /\ \A i \in 1 .. Len(Tail(pending)) : Tail(pending)[i] = pending[i + 1]
    BY <1>1, HeadTailProperties, EmptySeq, LenProperties DEF Now
<1>3. Now = pending[1]
    BY <1>1 DEF Now
<1>4. /\ Range(pending) = {pending[i] : i \in 1 .. Len(pending)}
      /\ Range(Tail(pending)) = {Tail(pending)[i] : i \in 1 .. Len(Tail(pending))}
    BY <1>1, <1>2, RangeEquality
<1>5. ASSUME NEW i \in 1 .. Len(pending)
      PROVE  pending[i] = Now \/ \E j \in 1 .. Len(Tail(pending)) : pending[i] = Tail(pending)[j]
    <2>1. CASE i = 1
        BY <1>3, <2>1
    <2>2. CASE i # 1
        <3>1. i - 1 \in 1 .. Len(Tail(pending)) /\ (i - 1) + 1 = i
            BY <1>2, <2>2
        <3> QED
            BY <1>2, <3>1
    <2> QED
        BY <2>1, <2>2
<1>6. ASSUME NEW j \in 1 .. Len(Tail(pending))
      PROVE  \E i \in 1 .. Len(pending) : Tail(pending)[j] = pending[i]
    <2>1. j + 1 \in 1 .. Len(pending)
        BY <1>2
    <2> QED
        BY <1>2, <2>1
<1>7. 1 \in 1 .. Len(pending)
    BY <1>2
<1>8. Range(pending) = {Now} \cup Range(Tail(pending))
    BY <1>3, <1>4, <1>5, <1>6, <1>7
<1> QED
    BY <1>2, <1>8

LEMMA EmptyRange == Range(<< >>) = {}
<1>1. << >> \in Seq({}) /\ Len(<< >>) = 0
    OBVIOUS
<1>2. Range(<< >>) = {<< >>[i] : i \in 1 .. 0}
    BY <1>1, RangeEquality
<1> QED
    BY <1>2

Entering ==
    IF In.op = "CALL" THEN {Entry(In.to, "call", 0)}
    ELSE IF In.op = "CLOSURE" THEN {Entry(In.to, "closure", Len(In.locs))}
    ELSE {}

\* What a visit dispatches: each successor in its function, and what is entered.
LEMMA DispatchedRange ==
    ASSUME Shape, Now \in Dispatches
    PROVE  /\ Dispatched \in Seq(Dispatches)
           /\ Range(Dispatched) =
                {Continue(s) : s \in Successors(In, Now.offset)} \cup Entering
<1>1. Now.offset \in Offsets /\ Now.depth \in Int /\ Now.fun \in Offsets
    BY DEF Dispatches
<1>2. In \in Instructions /\ In.op # "RET"
    BY <1>1 DEF Shape, In
<1>3. Here \in Int /\ After(In, Here) \in Int
    BY <1>1, <1>2, DepthsTyped DEF Here
<1>4. \A s \in Offsets : Continue(s) \in Dispatches
    BY <1>1, <1>3 DEF Continue, Dispatches
<1>5. \A s \in Successors(In, Now.offset) : Continue(s) \in Dispatches
    BY <1>1, <1>4 DEF Shape, In
<1>6. In.op = "CALL" => Entry(In.to, "call", 0) \in Dispatches
    <2>1. In.op = "CALL" => [entry |-> In.to, captured |-> 0] \in Entries(program)
        BY <1>1 DEF Shape, In
    <2>2. In.op = "CALL" => In.to \in Offsets
        BY <2>1 DEF Shape
    <2> QED
        BY <2>2 DEF Entry, Dispatches
<1>7. In.op = "CLOSURE" => Entry(In.to, "closure", Len(In.locs)) \in Dispatches
    <2>1. Len(In.locs) \in Nat
        BY <1>2, LenProperties DEF Instructions
    <2>2. In.op = "CLOSURE" =>
            [entry |-> In.to, captured |-> Len(In.locs)] \in Entries(program)
        BY <1>1 DEF Shape, In
    <2>3. In.op = "CLOSURE" => In.to \in Offsets
        BY <2>2 DEF Shape
    <2> QED
        BY <2>1, <2>3 DEF Entry, Dispatches
<1>8. ASSUME NEW x \in Dispatches
      PROVE  << x >> \in Seq(Dispatches) /\ Range(<< x >>) = {x}
    <2>1. << x >> \in Seq(Dispatches) /\ Len(<< x >>) = 1 /\ << x >>[1] = x
        BY <1>8
    <2>2. Range(<< x >>) = {<< x >>[i] : i \in 1 .. 1}
        BY <2>1, RangeEquality
    <2> QED
        BY <2>1, <2>2
<1>9. ASSUME NEW x \in Dispatches, NEW y \in Dispatches
      PROVE  << x, y >> \in Seq(Dispatches) /\ Range(<< x, y >>) = {x, y}
    <2>1. << x, y >> \in Seq(Dispatches) /\ Len(<< x, y >>) = 2
        BY <1>9
    <2>2. Range(<< x, y >>) = {<< x, y >>[i] : i \in 1 .. 2}
        BY <2>1, RangeEquality
    <2>3. 1 .. 2 = {1, 2}
        OBVIOUS
    <2> QED
        BY <2>1, <2>2, <2>3
<1>10. CASE In.op \in {"STOP", "FAIL", "END"}
    <2>1. Dispatched = << >> /\ Successors(In, Now.offset) = {} /\ Entering = {}
        BY <1>10 DEF Dispatched, Successors, Entering, CondJumps
    <2>2. << >> \in Seq(Dispatches) /\ Range(<< >>) = {}
        BY EmptySeq, EmptyRange
    <2> QED
        BY <2>1, <2>2
<1>11. CASE In.op = "JMP"
    <2>1. /\ Dispatched = << Continue(In.to) >> /\ Successors(In, Now.offset) = {In.to}
          /\ Entering = {}
        BY <1>11 DEF Dispatched, Successors, Entering, CondJumps
    <2> QED
        BY <2>1, <1>5, <1>8
<1>12. CASE In.op \in CondJumps
    <2>1. /\ Dispatched = << Continue(In.to), Following >>
          /\ Successors(In, Now.offset) = {In.to, Now.offset + 1}
          /\ Entering = {}
        BY <1>12 DEF Dispatched, Successors, Entering, CondJumps
    <2> QED
        BY <2>1, <1>5, <1>9 DEF Following
<1>13. CASE In.op = "CALL"
    <2>1. /\ Dispatched = << Following, Entry(In.to, "call", 0) >>
          /\ Successors(In, Now.offset) = {Now.offset + 1}
          /\ Entering = {Entry(In.to, "call", 0)}
        BY <1>13 DEF Dispatched, Successors, Entering, CondJumps
    <2> QED
        BY <2>1, <1>5, <1>6, <1>9, <1>13 DEF Following
<1>14. CASE In.op = "CLOSURE"
    <2>1. /\ Dispatched = << Following, Entry(In.to, "closure", Len(In.locs)) >>
          /\ Successors(In, Now.offset) = {Now.offset + 1}
          /\ Entering = {Entry(In.to, "closure", Len(In.locs))}
        BY <1>14 DEF Dispatched, Successors, Entering, CondJumps
    <2> QED
        BY <2>1, <1>5, <1>7, <1>9, <1>14 DEF Following
<1>15. CASE In.op \notin {"STOP", "FAIL", "END", "JMP", "CALL", "CLOSURE"} \cup CondJumps
    <2>1. /\ Dispatched = << Following >> /\ Successors(In, Now.offset) = {Now.offset + 1}
          /\ Entering = {}
        BY <1>15 DEF Dispatched, Successors, Entering, CondJumps
    <2> QED
        BY <2>1, <1>5, <1>8 DEF Following
<1> QED
    BY <1>10, <1>11, <1>12, <1>13, <1>14, <1>15

LEMMA NowIsOrderly ==
    ASSUME VerifierInv, Shape, Verifying
    PROVE  /\ Now \in Dispatches /\ Now.offset \in Offsets /\ Now.fun \in Offsets
           /\ In = Code(Now.offset) /\ In \in Instructions /\ Here \in Int
           /\ After(In, Here) \in Int /\ Now.fun = FunctionAt(Now.offset)
           /\ Continues(Now) \/ Enters(Now)
<1>1. Now \in Dispatches /\ Now \in Range(pending)
    BY NowIsPending DEF VerifierInv
<1>2. Continues(Now) \/ Enters(Now)
    BY <1>1 DEF VerifierInv, PendingOrderly
<1>3. Now.offset \in Offsets /\ Now.fun \in Offsets /\ Now.depth \in Int
    BY <1>1 DEF Dispatches
<1>4. In = Code(Now.offset) /\ In \in Instructions
    BY <1>3 DEF In, Shape
<1>5. Here \in Int /\ After(In, Here) \in Int
    BY <1>3, <1>4, DepthsTyped DEF Here
<1>6. Now.fun = FunctionAt(Now.offset)
    BY <1>2, <1>3 DEF Continues, Enters, Shape
<1> QED
    BY <1>1, <1>2, <1>3, <1>4, <1>5, <1>6

-----------------------------------------------------------------------------
(* The verifier's invariant                                                *)

LEMMA VerifierStarts == VerifierInit => VerifierInv
<1> SUFFICES ASSUME VerifierInit PROVE VerifierInv
    OBVIOUS
<1>1. Shape
    BY ProgramShape DEF VerifierInit
<1>2. /\ \A i \in DOMAIN program.publics : Entry(program.publics[i], "public", 0) \in Dispatches
      /\ DOMAIN program.publics = 1 .. Len(program.publics) /\ Len(program.publics) \in Nat
    <2>1. program.publics \in Seq(Offsets)
        BY <1>1 DEF Shape
    <2>2. \A o \in Offsets : Entry(o, "public", 0) \in Dispatches
        BY DEF Entry, Dispatches
    <2> QED
        BY <2>1, <2>2
<1>3. pending \in Seq(Dispatches)
    <2>1. pending \in [1 .. Len(program.publics) -> Dispatches]
        BY <1>2 DEF VerifierInit
    <2> QED
        BY <1>2, <2>1, SeqDef
<1>4. Range(pending) = {Entry(program.publics[i], "public", 0) : i \in DOMAIN program.publics}
    BY DEF Range, VerifierInit
<1>5. VerifierTyped
    <2>1. \A o \in Offsets : Fresh(0) \in Functions
        BY DEF Fresh, Functions
    <2> QED
        BY <1>3, <2>1 DEF VerifierTyped, VerifierInit
<1>6. PendingOrderly
    <2>1. ASSUME NEW i \in DOMAIN program.publics
          PROVE  Enters(Entry(program.publics[i], "public", 0))
        <3>1. [entry |-> program.publics[i], captured |-> 0] \in Entries(program)
            BY <1>1 DEF Shape
        <3>2. Code(program.publics[i]).op \in Begins
            BY <1>1, <3>1 DEF Shape
        <3> QED
            BY <3>1, <3>2 DEF Enters, Entry
    <2> QED
        BY <1>4, <2>1 DEF PendingOrderly
<1>7. \A o \in Offsets : ~Visited(o)
    BY DEF Visited, VerifierInit
<1>8. Followed
    <2>1. PICK i \in DOMAIN program.publics : program.publics[i] = 1
        BY <1>1 DEF Shape
    <2>2. Entry(1, "public", 0) \in Range(pending) /\ Entry(1, "public", 0).offset = 1
        BY <1>4, <2>1 DEF Entry
    <2>3. Awaited(1)
        BY <2>2 DEF Awaited
    <2> QED
        BY <1>7, <2>3 DEF Followed
<1>9. Recorded /\ Judged
    BY <1>7 DEF Recorded, Judged, VerifierInit
<1> QED
    BY <1>5, <1>6, <1>8, <1>9 DEF VerifierInv

\* The loaded program does not change.
LEMMA SameProgram ==
    ASSUME program' = program
    PROVE  /\ \A o : Code(o)' = Code(o) /\ FunctionAt(o)' = FunctionAt(o)
           /\ Offsets' = Offsets /\ Entries(program)' = Entries(program)
           /\ Dispatches' = Dispatches /\ Functions' = Functions
BY DEF Code, FunctionAt, Offsets, Dispatches, Functions

LEMMA VerifierSkips == VerifierInv /\ Shape /\ Skip => VerifierInv'
<1> SUFFICES ASSUME VerifierInv, Shape, Skip PROVE VerifierInv'
    OBVIOUS
<1> USE DEF VerifierInv
<1>1. /\ Verifying /\ pending' = Tail(pending) /\ rel_st_size[Now.offset] = Here
      /\ program' = program /\ rel_st_size' = rel_st_size /\ funs' = funs /\ verdict' = verdict
    BY DEF Skip, SameDepth
<1>2. /\ Range(pending) = {Now} \cup Range(pending') /\ pending' \in Seq(Dispatches)
    BY <1>1, NowIsPending
<1>3. Now.offset \in Offsets /\ Here \in Int /\ (Continues(Now) \/ Enters(Now))
    BY <1>1, NowIsOrderly
<1>4. /\ \A o : Code(o)' = Code(o) /\ FunctionAt(o)' = FunctionAt(o)
      /\ Offsets' = Offsets /\ Entries(program)' = Entries(program)
      /\ Dispatches' = Dispatches /\ Functions' = Functions
    BY <1>1, SameProgram
<1>5. VerifierTyped'
    BY <1>1, <1>2, <1>4 DEF VerifierTyped
<1>6. \A o : Visited(o)' = Visited(o)
    BY <1>1 DEF Visited
<1>7. PendingOrderly'
    <2>1. ASSUME NEW d \in Range(pending') PROVE Continues(d)' \/ Enters(d)'
        <3>1. Continues(d) \/ Enters(d)
            BY <1>2 DEF PendingOrderly
        <3> QED
            BY <1>4, <1>6, <3>1 DEF Continues, Enters
    <2> QED
        BY <2>1 DEF PendingOrderly
<1>8. Visited(Now.offset)
    BY <1>1, <1>3, UnreachedIsNoDepth DEF Visited
<1>9. \A x : Awaited(x) => rel_st_size[x] # Unreached \/ \E d \in Range(pending') : d.offset = x
    BY <1>2, <1>8 DEF Awaited, Visited
<1>10. \A o, d : AwaitedWith(o, d) =>
            \/ rel_st_size[o] = d
            \/ (\E e \in Range(pending') : e.kind = "next" /\ e.offset = o /\ e.depth = d)
    <2> TAKE o, d
    <2>1. CASE Now.kind = "next" /\ Now.offset = o /\ Now.depth = d
        <3>1. Here = d
            BY <1>3, <2>1 DEF Continues, Enters, Here, In
        <3> QED
            BY <1>1, <2>1, <3>1
    <2> QED
        BY <1>2, <2>1 DEF AwaitedWith
<1>11. Followed'
    <2>1. rel_st_size[1] # Unreached \/ \E d \in Range(pending') : d.offset = 1
        BY <1>9 DEF Followed, Visited
    <2>2. ASSUME NEW o \in Offsets, rel_st_size[o] # Unreached
          PROVE  /\ \A s \in Successors(Code(o), o) :
                    \/ rel_st_size[s] = After(Code(o), rel_st_size[o])
                    \/ (\E d \in Range(pending') : /\ d.kind = "next" /\ d.offset = s
                                                 /\ d.depth = After(Code(o), rel_st_size[o]))
                 /\ Code(o).op \in {"CALL", "CLOSURE"} =>
                        \/ rel_st_size[Code(o).to] # Unreached
                        \/ \E d \in Range(pending') : d.offset = Code(o).to
        <3>1. ASSUME NEW s \in Successors(Code(o), o)
              PROVE  \/ rel_st_size[s] = After(Code(o), rel_st_size[o])
                     \/ AwaitedWith(s, After(Code(o), rel_st_size[o]))
            BY <2>2, <3>1 DEF Followed, Visited
        <3>2. Code(o).op \in {"CALL", "CLOSURE"} =>
                rel_st_size[Code(o).to] # Unreached \/ Awaited(Code(o).to)
            BY <2>2 DEF Followed, Visited
        <3> QED
            BY <1>9, <1>10, <3>1, <3>2
    <2> QED
        BY <1>1, <1>4, <2>1, <2>2 DEF Followed, AwaitedWith, Awaited, Visited
<1>12. Recorded'
    <2>1. \A f, type : LimitIn(f, type)' = LimitIn(f, type)
        BY <1>1 DEF LimitIn
    <2> QED
        BY <1>1, <1>4, <1>6, <2>1 DEF Recorded, RecordOf, Known
<1>13. Judged'
    BY <1>1 DEF Judged, Verifying
<1> QED
    BY <1>5, <1>7, <1>11, <1>12, <1>13

LEMMA VerifierRejects == VerifierInv /\ Shape /\ (Reject \/ Judge) => VerifierInv'
<1> SUFFICES ASSUME VerifierInv, Shape, Reject \/ Judge PROVE VerifierInv'
    OBVIOUS
<1> USE DEF VerifierInv
<1>1. /\ program' = program /\ rel_st_size' = rel_st_size /\ funs' = funs
      /\ pending' = pending /\ verdict' \in {"rejected", "accepted"}
    BY DEF Reject, Judge
<1>2. /\ \A o : Code(o)' = Code(o) /\ FunctionAt(o)' = FunctionAt(o)
      /\ Offsets' = Offsets /\ Entries(program)' = Entries(program)
      /\ Dispatches' = Dispatches /\ Functions' = Functions
    BY <1>1, SameProgram
<1>3. \A o : Visited(o)' = Visited(o) /\ Awaited(o)' = Awaited(o)
    BY <1>1 DEF Visited, Awaited
<1>4. \A o, d : AwaitedWith(o, d)' = AwaitedWith(o, d)
    BY <1>1 DEF AwaitedWith
<1>5. VerifierTyped'
    BY <1>1, <1>2 DEF VerifierTyped
<1>6. PendingOrderly'
    BY <1>1, <1>2, <1>3 DEF PendingOrderly, Continues, Enters
<1>7. Followed'
    BY <1>1, <1>2, <1>3, <1>4 DEF Followed
<1>8. Recorded'
    <2>1. \A f, type : LimitIn(f, type)' = LimitIn(f, type)
        BY <1>1 DEF LimitIn
    <2> QED
        BY <1>1, <1>2, <1>3, <2>1 DEF Recorded, RecordOf, Known
<1>9. Judged'
    <2>1. ASSUME verdict' = "accepted"
          PROVE  /\ pending = << >>
                 /\ \A f \in Offsets : funs[f].begin # 0 => funs[f].min_rel_st_size >= 0
        <3>1. pending = << >> /\ ~Underflows
            BY <2>1 DEF Reject, Judge
        <3>2. \A f \in Offsets : funs[f].min_rel_st_size \in Int
            BY DEF VerifierTyped, Functions
        <3> QED
            BY <3>1, <3>2 DEF Underflows
    <2> QED
        BY <1>1, <1>2, <2>1 DEF Judged
<1> QED
    BY <1>5, <1>6, <1>7, <1>8, <1>9

LEMMA FilledTyped ==
    ASSUME VerifierInv, Shape, Verifying
    PROVE  cur_fun \in Functions /\ Filled \in Functions
<1>1. /\ Now \in Dispatches /\ In \in Instructions /\ Here \in Int
      /\ Now.offset \in Offsets /\ Now.fun \in Offsets
    BY NowIsOrderly
<1>2. cur_fun \in Functions
    <2>1. funs[Now.fun] \in Functions
        BY <1>1 DEF VerifierInv, VerifierTyped
    <2>2. Fresh(Now.captured) \in Functions
        BY <1>1 DEF Fresh, Functions, Dispatches
    <2> QED
        BY <2>1, <2>2 DEF cur_fun
<1>3. CASE In.op \in Begins
    <2>1. In.n \in Nat /\ In.locals \in Nat
        BY <1>1 DEF Instructions
    <2> QED
        BY <1>1, <1>2, <1>3, <2>1 DEF Filled, Functions
<1>4. CASE In.op \notin Begins
    <2>1. Lowest(In, Here) \in Int /\ Highest(In, Here) \in Int
        BY <1>1, <1>4, DepthsTyped
    <2>2. cur_fun.min_rel_st_size \in Int /\ cur_fun.max_rel_st_size \in Int
        BY <1>2 DEF Functions
    <2>3. /\ Min({cur_fun.min_rel_st_size, Lowest(In, Here)}) \in Int
          /\ Max({cur_fun.max_rel_st_size, Highest(In, Here)}) \in Int
        BY <2>1, <2>2, MinOfTwo, MaxOfTwo
    <2> QED
        BY <1>2, <1>4, <2>3 DEF Filled, Functions
<1> QED
    BY <1>2, <1>3, <1>4

\* What a visit leaves to be dispatched is in order, and nothing is forgotten.
LEMMA VisitQueues ==
    ASSUME VerifierInv, Shape, Visit
    PROVE  /\ pending' \in Seq(Dispatches)
           /\ Range(pending') =
                {Continue(s) : s \in Successors(In, Now.offset)} \cup Entering
                    \cup Range(Tail(pending))
           /\ Range(pending) = {Now} \cup Range(Tail(pending))
<1>1. Verifying /\ pending' = Dispatched \o Tail(pending)
    BY DEF Visit
<1>2. Now \in Dispatches /\ Tail(pending) \in Seq(Dispatches)
      /\ Range(pending) = {Now} \cup Range(Tail(pending))
    BY <1>1, NowIsPending DEF VerifierInv
<1>3. /\ Dispatched \in Seq(Dispatches)
      /\ Range(Dispatched) = {Continue(s) : s \in Successors(In, Now.offset)} \cup Entering
    BY <1>2, DispatchedRange
<1>4. Dispatched \o Tail(pending) \in Seq(Dispatches)
    BY <1>2, <1>3, ConcatProperties
<1>5. Range(Dispatched \o Tail(pending)) = Range(Dispatched) \cup Range(Tail(pending))
    <2>1. Dispatched \in Seq(Dispatches) /\ Tail(pending) \in Seq(Dispatches)
        BY <1>2, <1>3
    <2> QED
        BY <2>1, RangeConcatenation
<1> QED
    BY <1>1, <1>2, <1>3, <1>4, <1>5

LEMMA VisitMarks ==
    ASSUME VerifierInv, Shape, Visit
    PROVE  /\ program' = program /\ verdict' = verdict /\ verdict = "verifying"
           /\ rel_st_size' = [rel_st_size EXCEPT ![Now.offset] = Here]
           /\ rel_st_size'[Now.offset] = Here /\ Here # Unreached
           /\ \A o \in Offsets : o # Now.offset => rel_st_size'[o] = rel_st_size[o]
           /\ \A o \in Offsets : rel_st_size[o] # Unreached => rel_st_size'[o] # Unreached
           /\ rel_st_size[Now.offset] = Unreached
           /\ funs' = [funs EXCEPT ![Now.fun] = Filled]
           /\ \A f \in Offsets : f # Now.fun => funs'[f] = funs[f]
           /\ funs'[Now.fun] = Filled
<1>1. /\ Verifying /\ rel_st_size[Now.offset] = Unreached /\ program' = program
      /\ verdict' = verdict /\ rel_st_size' = [rel_st_size EXCEPT ![Now.offset] = Here]
      /\ funs' = [funs EXCEPT ![Now.fun] = Filled]
    BY DEF Visit, Reachable, Marked
<1>2. Now.offset \in Offsets /\ Now.fun \in Offsets /\ Here \in Int
    BY <1>1, NowIsOrderly
<1>3. Here # Unreached
    BY <1>2, UnreachedIsNoDepth
<1>4. DOMAIN rel_st_size = Offsets /\ DOMAIN funs = Offsets
    BY DEF VerifierInv, VerifierTyped
<1> QED
    BY <1>1, <1>2, <1>3, <1>4 DEF Verifying

LEMMA VisitKeepsOrder == VerifierInv /\ Shape /\ Visit => PendingOrderly'
<1> SUFFICES ASSUME VerifierInv, Shape, Visit PROVE PendingOrderly'
    OBVIOUS
<1>1. Verifying
    BY DEF Visit
<1>2. /\ Now.offset \in Offsets /\ Now.fun \in Offsets /\ In = Code(Now.offset)
      /\ Now.fun = FunctionAt(Now.offset) /\ (Continues(Now) \/ Enters(Now))
    BY <1>1, NowIsOrderly
<1>3. /\ \A o : Code(o)' = Code(o) /\ FunctionAt(o)' = FunctionAt(o)
      /\ Entries(program)' = Entries(program)
    BY VisitMarks, SameProgram
<1>4. ASSUME NEW d \in Range(pending')
      PROVE  \/ /\ d.kind = "next" /\ Code(d.offset).op \notin Begins
                /\ FunctionAt(d.offset) = d.fun /\ rel_st_size'[d.fun] # Unreached
             \/ Enters(d)
    <2>1. CASE d \in Range(Tail(pending))
        <3>1. Continues(d) \/ Enters(d)
            BY <2>1, VisitQueues DEF VerifierInv, PendingOrderly
        <3>2. CASE Continues(d)
            <4>1. d \in Dispatches
                BY <2>1, <1>1, NowIsPending, RangeOfSeq DEF VerifierInv
            <4>2. d.fun \in Offsets
                BY <4>1 DEF Dispatches
            <4> QED
                BY <3>2, <4>2, VisitMarks DEF Continues, Visited
        <3> QED
            BY <3>1, <3>2
    <2>2. CASE d \in {Continue(s) : s \in Successors(In, Now.offset)}
        <3>1. PICK s \in Successors(In, Now.offset) : d = Continue(s)
            BY <2>2
        <3>2. /\ s \in Offsets /\ Code(s).op \notin Begins
              /\ FunctionAt(s) = FunctionAt(Now.offset)
            <4>1. s \in Successors(Code(Now.offset), Now.offset) /\ Now.offset \in Offsets
                BY <1>2, <3>1
            <4> QED
                BY <4>1 DEF Shape
        <3>3. d.kind = "next" /\ d.offset = s /\ d.fun = Now.fun
            BY <3>1 DEF Continue
        <3>4. rel_st_size'[Now.fun] # Unreached
            BY <1>2, VisitMarks DEF Continues, Enters, Visited
        <3> QED
            BY <1>2, <3>2, <3>3, <3>4
    <2>3. CASE d \in Entering
        <3>1. \/ In.op = "CALL" /\ d = Entry(In.to, "call", 0)
              \/ In.op = "CLOSURE" /\ d = Entry(In.to, "closure", Len(In.locs))
            BY <2>3 DEF Entering
        <3>2. /\ [entry |-> d.offset, captured |-> d.captured] \in Entries(program)
              /\ d.kind # "next" /\ d.fun = d.offset /\ d.depth = 0
            <4>1. CASE In.op = "CALL" /\ d = Entry(In.to, "call", 0)
                <5>1. [entry |-> In.to, captured |-> 0] \in Entries(program)
                    BY <1>2, <4>1 DEF Shape
                <5> QED
                    BY <4>1, <5>1 DEF Entry
            <4>2. CASE In.op = "CLOSURE" /\ d = Entry(In.to, "closure", Len(In.locs))
                <5>1. [entry |-> In.to, captured |-> Len(In.locs)] \in Entries(program)
                    BY <1>2, <4>2 DEF Shape
                <5> QED
                    BY <4>2, <5>1 DEF Entry
            <4> QED
                BY <3>1, <4>1, <4>2
        <3>3. Code(d.offset).op \in Begins
            BY <3>2 DEF Shape
        <3> QED
            BY <3>2, <3>3 DEF Enters
    <2> QED
        BY <2>1, <2>2, <2>3, VisitQueues
<1> QED
    BY <1>3, <1>4 DEF PendingOrderly, Continues, Enters, Visited

LEMMA VisitFollows == VerifierInv /\ Shape /\ Visit => Followed'
<1> SUFFICES ASSUME VerifierInv, Shape, Visit PROVE Followed'
    OBVIOUS
<1> DEFINE Waits(x) == \E d \in Range(pending') : d.offset = x
           WaitsWith(x, depth) ==
                \E d \in Range(pending') : d.kind = "next" /\ d.offset = x /\ d.depth = depth
<1>1. Verifying
    BY DEF Visit
<1>2. /\ Now.offset \in Offsets /\ In = Code(Now.offset)
      /\ (Continues(Now) \/ Enters(Now))
    BY <1>1, NowIsOrderly
<1>3. /\ \A o : Code(o)' = Code(o) /\ Offsets' = Offsets
    BY VisitMarks, SameProgram
<1>4. \A x : Awaited(x) => x = Now.offset \/ Waits(x)
    BY VisitQueues DEF Awaited
<1>5. \A x, depth : AwaitedWith(x, depth) =>
            (x = Now.offset /\ depth = Here) \/ WaitsWith(x, depth)
    <2> TAKE x, depth
    <2>1. CASE Now.kind = "next" /\ Now.offset = x /\ Now.depth = depth
        BY <1>2, <2>1 DEF Continues, Enters, Here
    <2> QED
        BY <2>1, VisitQueues DEF AwaitedWith
<1>6. rel_st_size'[1] # Unreached \/ Waits(1)
    <2>1. 1 \in Offsets
        BY DEF Shape
    <2> QED
        BY <1>4, <2>1, VisitMarks DEF VerifierInv, Followed, Visited
<1>7. ASSUME NEW o \in Offsets, rel_st_size'[o] # Unreached, NEW s \in Successors(Code(o), o)
      PROVE  \/ rel_st_size'[s] = After(Code(o), rel_st_size'[o])
             \/ WaitsWith(s, After(Code(o), rel_st_size'[o]))
    <2>1. CASE o = Now.offset
        <3>1. Continue(s) \in Range(pending') /\ rel_st_size'[o] = Here
            BY <1>2, <1>7, <2>1, VisitQueues, VisitMarks
        <3>2. /\ Continue(s).kind = "next" /\ Continue(s).offset = s
              /\ Continue(s).depth = After(In, Here)
            BY DEF Continue
        <3> QED
            BY <1>2, <2>1, <3>1, <3>2
    <2>2. CASE o # Now.offset
        <3>1. rel_st_size'[o] = rel_st_size[o] /\ Visited(o)
            BY <1>7, <2>2, VisitMarks DEF Visited
        <3>2. \/ rel_st_size[s] = After(Code(o), rel_st_size[o])
              \/ AwaitedWith(s, After(Code(o), rel_st_size[o]))
            BY <1>7, <3>1 DEF VerifierInv, Followed
        <3>3. After(Code(o), rel_st_size[o]) \in Int
            <4>1. Code(o) \in Instructions
                BY DEF Shape
            <4>2. rel_st_size[o] \in Int
                BY <3>1 DEF VerifierInv, VerifierTyped, Visited
            <4> QED
                BY <4>1, <4>2, DepthsTyped
        <3>4. s \in Offsets
            BY <1>7 DEF Shape
        <3>5. CASE rel_st_size[s] = After(Code(o), rel_st_size[o])
            <4>1. rel_st_size[s] # Unreached
                BY <3>3, <3>5, UnreachedIsNoDepth
            <4> QED
                BY <3>1, <3>4, <3>5, <4>1, VisitMarks
        <3>6. CASE AwaitedWith(s, After(Code(o), rel_st_size[o]))
            BY <1>5, <3>1, <3>6, VisitMarks
        <3> QED
            BY <3>2, <3>5, <3>6
    <2> QED
        BY <2>1, <2>2
<1>8. ASSUME NEW o \in Offsets, rel_st_size'[o] # Unreached,
             Code(o).op \in {"CALL", "CLOSURE"}
      PROVE  rel_st_size'[Code(o).to] # Unreached \/ Waits(Code(o).to)
    <2>1. CASE o = Now.offset
        <3>1. \E d \in Entering : d.offset = Code(o).to
            BY <1>2, <1>8, <2>1 DEF Entering, Entry
        <3> QED
            BY <3>1, VisitQueues
    <2>2. CASE o # Now.offset
        <3>1. rel_st_size'[o] = rel_st_size[o] /\ Visited(o)
            BY <1>8, <2>2, VisitMarks DEF Visited
        <3>2. Visited(Code(o).to) \/ Awaited(Code(o).to)
            BY <1>8, <3>1 DEF VerifierInv, Followed
        <3>3. Code(o).to \in Offsets
            <4>1. \E c : [entry |-> Code(o).to, captured |-> c] \in Entries(program)
                BY <1>8 DEF Shape
            <4> QED
                BY <4>1 DEF Shape
        <3> QED
            BY <1>4, <3>2, <3>3, VisitMarks DEF Visited
    <2> QED
        BY <2>1, <2>2
<1> QED
    BY <1>3, <1>6, <1>7, <1>8 DEF Followed, Visited, Awaited, AwaitedWith

LocationTypes == {"GLOBAL", "LOCAL", "ARGUMENT", "CAPTURED"}

LEMMA LocationsTyped ==
    ASSUME NEW in \in Instructions, NEW i \in DOMAIN in.locs
    PROVE  in.locs[i].type \in LocationTypes /\ in.locs[i].idx \in Nat
<1> DEFINE Locations == [type : LocationTypes, idx : Nat]
<1>1. in.locs \in Seq(Locations)
    BY DEF Instructions, LocationTypes
<1>2. in.locs[i] \in Locations
    BY <1>1, ElementOfSeq, LenProperties
<1> QED
    BY <1>2

LEMMA VisitRecords == VerifierInv /\ Shape /\ Visit => Recorded'
<1> SUFFICES ASSUME VerifierInv, Shape, Visit PROVE Recorded'
    OBVIOUS
<1> DEFINE off == Now.offset
           fun == Now.fun
<1>1. Verifying /\ ArgumentsLeft /\ check_loc
    BY DEF Visit
<1>2. /\ off \in Offsets /\ fun \in Offsets /\ In = Code(off) /\ In \in Instructions
      /\ Here \in Int /\ fun = FunctionAt(off) /\ (Continues(Now) \/ Enters(Now))
    BY <1>1, NowIsOrderly
<1>3. /\ \A o : Code(o)' = Code(o) /\ FunctionAt(o)' = FunctionAt(o)
      /\ Offsets' = Offsets /\ Entries(program)' = Entries(program)
    BY VisitMarks, SameProgram
<1>4. cur_fun \in Functions /\ Filled \in Functions
    BY <1>1, FilledTyped
<1> DEFINE Limited(rec, type) ==
                IF type = "GLOBAL" THEN Globals
                ELSE IF type = "LOCAL" THEN rec.locals
                ELSE IF type = "ARGUMENT" THEN rec.args
                ELSE rec.captured
           Records(rec, f) ==
                /\ rec.begin # 0 /\ rec.args = Code(f).n /\ rec.locals = Code(f).locals
                /\ [entry |-> f, captured |-> rec.captured] \in Entries(program)
           Knows(rec, f, o, d) ==
                /\ rec.min_rel_st_size <= Lowest(Code(o), d)
                /\ Code(o).op = "END" => d - 1 = Code(f).n
                /\ \A i \in DOMAIN Code(o).locs :
                        Code(o).locs[i].idx < Limited(rec, Code(o).locs[i].type)
<1>5. \A f, type : LimitIn(f, type) = Limited(funs[f], type)
    BY DEF LimitIn
<1>6. ASSUME NEW o \in Offsets, rel_st_size[o] # Unreached
      PROVE  /\ FunctionAt(o) \in Offsets /\ rel_st_size[FunctionAt(o)] # Unreached
             /\ Records(funs[FunctionAt(o)], FunctionAt(o))
             /\ Code(o).op \in Begins => rel_st_size[o] = 0
             /\ Code(o).op \notin Begins =>
                    Knows(funs[FunctionAt(o)], FunctionAt(o), o, rel_st_size[o])
    <2>1. FunctionAt(o) \in Offsets
        BY DEF Shape
    <2> QED
        BY <1>5, <1>6, <2>1 DEF VerifierInv, Recorded, RecordOf, Known, Visited
<1>7. ASSUME NEW o \in Offsets, rel_st_size'[o] # Unreached
      PROVE  /\ rel_st_size'[FunctionAt(o)] # Unreached
             /\ Records(funs'[FunctionAt(o)], FunctionAt(o))
             /\ Code(o).op \in Begins => rel_st_size'[o] = 0
             /\ Code(o).op \notin Begins =>
                    Knows(funs'[FunctionAt(o)], FunctionAt(o), o, rel_st_size'[o])
    <2>0. FunctionAt(o) \in Offsets
        BY DEF Shape
    <2>1. CASE Enters(Now)
        <3>1. /\ In.op \in Begins /\ fun = off /\ Now.kind # "next"
              /\ [entry |-> off, captured |-> Now.captured] \in Entries(program)
            BY <1>2, <2>1 DEF Enters
        <3>2. /\ Filled.begin = off /\ Filled.args = In.n /\ Filled.locals = In.locals
              /\ Filled.captured = Now.captured
            BY <3>1 DEF Filled, cur_fun, Fresh
        <3>3. Here = 0 /\ off # 0
            BY <1>2, <3>1 DEF Here, Offsets
        <3>4. CASE o = off
            <4>1. FunctionAt(o) = off
                BY <1>2, <3>1, <3>4 DEF Shape
            <4>2. funs'[off] = Filled /\ rel_st_size'[off] = 0 /\ rel_st_size'[off] # Unreached
                BY <3>1, <3>3, VisitMarks
            <4>3. Records(Filled, off)
                BY <1>2, <3>1, <3>2, <3>3
            <4> HIDE DEF Records, Knows
            <4> QED
                BY <1>2, <3>1, <3>4, <4>1, <4>2, <4>3
        <3>5. CASE o # off
            <4>1. rel_st_size'[o] = rel_st_size[o] /\ rel_st_size[o] # Unreached
                BY <1>7, <3>5, VisitMarks
            <4>2. FunctionAt(o) # off
                BY <1>6, <4>1, VisitMarks
            <4>3. /\ funs'[FunctionAt(o)] = funs[FunctionAt(o)]
                  /\ rel_st_size'[FunctionAt(o)] = rel_st_size[FunctionAt(o)]
                BY <2>0, <3>1, <4>2, VisitMarks
            <4> HIDE DEF Records, Knows
            <4> QED
                BY <1>6, <4>1, <4>3
        <3> QED
            BY <3>4, <3>5
    <2>2. CASE Continues(Now)
        <3>1. /\ In.op \notin Begins /\ Now.kind = "next" /\ rel_st_size[fun] # Unreached
            BY <1>2, <2>2 DEF Continues, Visited
        <3>2. FunctionAt(fun) = fun
            BY <1>2 DEF Shape
        <3>3. Records(funs[fun], fun)
            BY <1>2, <1>6, <3>1, <3>2
        <3>4. cur_fun = funs[fun]
            BY <3>1 DEF cur_fun
        <3>5. Lowest(In, Here) \in Int /\ Highest(In, Here) \in Int
            BY <1>2, <3>1, DepthsTyped
        <3>6. /\ Filled.begin = cur_fun.begin /\ Filled.args = cur_fun.args
              /\ Filled.locals = cur_fun.locals /\ Filled.captured = cur_fun.captured
              /\ Filled.min_rel_st_size = Min({cur_fun.min_rel_st_size, Lowest(In, Here)})
            BY <1>4, <3>1 DEF Filled, Functions
        <3>7. /\ Filled.min_rel_st_size <= Lowest(In, Here)
              /\ Filled.min_rel_st_size <= cur_fun.min_rel_st_size
              /\ Filled.min_rel_st_size \in Int /\ cur_fun.min_rel_st_size \in Int
            <4>1. cur_fun.min_rel_st_size \in Int
                BY <1>4 DEF Functions
            <4> QED
                BY <3>5, <3>6, <4>1, MinOfTwo
        <3>8. \A type : Limited(Filled, type) = Limited(funs[fun], type)
            BY <3>4, <3>6
        <3>9. Records(Filled, fun)
            BY <3>3, <3>4, <3>6
        <3>10. funs'[fun] = Filled
            BY VisitMarks
        <3>11. rel_st_size'[FunctionAt(o)] # Unreached
            <4>1. rel_st_size[FunctionAt(o)] # Unreached
                <5>1. CASE o = off
                    BY <1>2, <3>1, <5>1
                <5>2. CASE o # off
                    BY <1>6, <1>7, <5>2, VisitMarks
                <5> QED
                    BY <5>1, <5>2
            <4> QED
                BY <2>0, <4>1, VisitMarks
        <3>12. CASE o = off
            <4>1. FunctionAt(o) = fun /\ rel_st_size'[o] = Here
                BY <1>2, <3>12, VisitMarks
            <4>2. Knows(Filled, fun, off, Here)
                <5>1. In.op = "END" => Here - 1 = Code(fun).n
                    BY <1>1, <3>3, <3>4 DEF ArgumentsLeft
                <5>2. ASSUME NEW i \in DOMAIN In.locs
                      PROVE  In.locs[i].idx < Limited(Filled, In.locs[i].type)
                    <6>1. In.locs[i].idx < Limit(In.locs[i].type)
                        BY <1>1 DEF check_loc
                    <6>2. In.locs[i].type \in LocationTypes
                        BY <1>2, LocationsTyped
                    <6>3. Limit(In.locs[i].type) = Limited(cur_fun, In.locs[i].type)
                        BY <6>2 DEF Limit, LocationTypes
                    <6> QED
                        BY <3>4, <3>8, <6>1, <6>3
                <5> QED
                    BY <1>2, <3>7, <5>1, <5>2
            <4> HIDE DEF Records, Knows
            <4> QED
                BY <1>2, <3>1, <3>9, <3>10, <3>11, <3>12, <4>1, <4>2
        <3>13. CASE o # off /\ FunctionAt(o) = fun
            <4>1. rel_st_size'[o] = rel_st_size[o] /\ rel_st_size[o] # Unreached
                BY <1>7, <3>13, VisitMarks
            <4>2. Code(o).op \notin Begins => Knows(funs[fun], fun, o, rel_st_size[o])
                BY <1>6, <3>13, <4>1
            <4>3. Code(o).op \notin Begins => Knows(Filled, fun, o, rel_st_size[o])
                <5>1. Code(o) \in Instructions /\ rel_st_size[o] \in Int
                    BY <4>1 DEF Shape, VerifierInv, VerifierTyped
                <5>2. Code(o).op \notin Begins => Lowest(Code(o), rel_st_size[o]) \in Int
                    BY <5>1, DepthsTyped
                <5>3. ASSUME Code(o).op \notin Begins
                      PROVE  Filled.min_rel_st_size <= Lowest(Code(o), rel_st_size[o])
                    <6>1. funs[fun].min_rel_st_size <= Lowest(Code(o), rel_st_size[o])
                        BY <4>2, <5>3
                    <6> QED
                        BY <3>4, <3>7, <5>2, <5>3, <6>1
                <5> QED
                    BY <3>8, <4>2, <5>3
            <4> HIDE DEF Records, Knows
            <4> QED
                BY <1>6, <3>9, <3>10, <3>11, <3>13, <4>1, <4>3
        <3>14. CASE o # off /\ FunctionAt(o) # fun
            <4>1. /\ rel_st_size'[o] = rel_st_size[o] /\ rel_st_size[o] # Unreached
                  /\ funs'[FunctionAt(o)] = funs[FunctionAt(o)]
                BY <1>7, <2>0, <3>14, VisitMarks
            <4> HIDE DEF Records, Knows
            <4> QED
                BY <1>6, <3>11, <4>1
        <3> QED
            BY <3>12, <3>13, <3>14
    <2> QED
        BY <1>2, <2>1, <2>2
<1>8. \A f, type : LimitIn(f, type)' = Limited(funs'[f], type)
    BY DEF LimitIn
<1>9. ASSUME NEW o \in Offsets, rel_st_size'[o] # Unreached
      PROVE  /\ RecordOf(FunctionAt(o))'
             /\ Code(o).op \in Begins => rel_st_size'[o] = 0
             /\ Code(o).op \notin Begins => Known(o, FunctionAt(o))'
    BY <1>3, <1>7, <1>8, <1>9 DEF RecordOf, Known, Visited
<1> QED
    BY <1>3, <1>9 DEF Recorded, Visited

LEMMA VerifierVisits == VerifierInv /\ Shape /\ Visit => VerifierInv'
<1> SUFFICES ASSUME VerifierInv, Shape, Visit PROVE VerifierInv'
    OBVIOUS
<1>1. VerifierTyped'
    <2>1. Here \in Int /\ Filled \in Functions
        BY NowIsOrderly, FilledTyped DEF Visit
    <2>2. /\ program' \in Programs /\ verdict' \in {"verifying", "accepted", "rejected"}
          /\ rel_st_size' \in [Offsets -> Int \cup {Unreached}]
          /\ funs' \in [Offsets -> Functions]
        BY <2>1, VisitMarks DEF VerifierInv, VerifierTyped
    <2> QED
        BY <2>2, VisitQueues, VisitMarks, SameProgram DEF VerifierTyped
<1>2. Judged'
    BY VisitMarks DEF Judged
<1> QED
    BY <1>1, <1>2, VisitKeepsOrder, VisitFollows, VisitRecords DEF VerifierInv

\* Each step of the verification keeps what it knows.
LEMMA VerifierStays == VerifierInv /\ Verify => VerifierInv'
<1>1. VerifierInv => Shape
    BY ProgramShape DEF VerifierInv, VerifierTyped
<1> QED
    BY <1>1, VerifierSkips, VerifierRejects, VerifierVisits DEF Verify

-----------------------------------------------------------------------------
(* The interpreter's invariant                                             *)

LEMMA MachineStarts == Init => MachineInv
<1> SUFFICES ASSUME Init PROVE MachineInv
    OBVIOUS
<1>1. 1 \in Offsets /\ verdict = "verifying"
    BY ProgramShape DEF Init, VerifierInit, Shape
<1> DEFINE main == [fn |-> 1, base |-> Globals, locals |-> 0, args |-> 0,
                    closure |-> 0, captured |-> 0, ret |-> 0]
<1>2. main \in FrameSet
    BY <1>1, GlobalsIsNatural DEF FrameSet
<1>3. /\ frames = << main >> /\ frames \in Seq(FrameSet) /\ Len(frames) = 1
      /\ frames[1] = main
    BY <1>2 DEF Init
<1>4. MachineTyped
    BY <1>1, <1>3, FrameBound, GlobalsIsNatural DEF Init, MachineTyped
<1> QED
    BY <1>1, <1>3, <1>4 DEF Init, MachineInv, AtRest, MainFirst, Tracks

\* An accepted program can be followed: nothing is left to be dispatched.
LEMMA Accepted ==
    ASSUME VerifierInv, Shape, verdict = "accepted"
    PROVE  /\ Visited(1)
           /\ \A o \in Offsets : Visited(o) =>
                /\ rel_st_size[o] \in Int
                /\ FunctionAt(o) \in Offsets /\ RecordOf(FunctionAt(o))
                /\ Code(o).op \notin Begins =>
                        Known(o, FunctionAt(o)) /\ funs[FunctionAt(o)].min_rel_st_size >= 0
                /\ Code(o).op \in Begins => rel_st_size[o] = 0
                /\ \A s \in Successors(Code(o), o) :
                    /\ s \in Offsets /\ Visited(s) /\ Code(s).op \notin Begins
                    /\ FunctionAt(s) = FunctionAt(o)
                    /\ rel_st_size[s] = After(Code(o), rel_st_size[o])
                /\ Code(o).op \in {"CALL", "CLOSURE"} =>
                        Code(o).to \in Offsets /\ Visited(Code(o).to)
<1>1. Range(pending) = {}
    BY EmptyRange DEF VerifierInv, Judged
<1>2. Visited(1)
    BY <1>1 DEF VerifierInv, Followed, Awaited
<1>3. ASSUME NEW o \in Offsets, Visited(o)
      PROVE  /\ rel_st_size[o] \in Int
             /\ FunctionAt(o) \in Offsets /\ RecordOf(FunctionAt(o))
             /\ Code(o).op \notin Begins =>
                    Known(o, FunctionAt(o)) /\ funs[FunctionAt(o)].min_rel_st_size >= 0
             /\ Code(o).op \in Begins => rel_st_size[o] = 0
    <2>1. rel_st_size[o] \in Int
        BY <1>3 DEF VerifierInv, VerifierTyped, Visited
    <2>2. /\ FunctionAt(o) \in Offsets /\ RecordOf(FunctionAt(o))
          /\ Code(o).op \notin Begins => Known(o, FunctionAt(o))
          /\ Code(o).op \in Begins => rel_st_size[o] = 0
        BY <1>3 DEF VerifierInv, Recorded, Shape
    <2>3. funs[FunctionAt(o)].min_rel_st_size >= 0
        BY <2>2 DEF VerifierInv, Judged, RecordOf
    <2> QED
        BY <2>1, <2>2, <2>3
<1>4. ASSUME NEW o \in Offsets, Visited(o), NEW s \in Successors(Code(o), o)
      PROVE  /\ s \in Offsets /\ Visited(s) /\ Code(s).op \notin Begins
             /\ FunctionAt(s) = FunctionAt(o)
             /\ rel_st_size[s] = After(Code(o), rel_st_size[o])
    <2>1. rel_st_size[s] = After(Code(o), rel_st_size[o])
        BY <1>1, <1>4 DEF VerifierInv, Followed, AwaitedWith
    <2>2. After(Code(o), rel_st_size[o]) \in Int
        BY <1>3, <1>4, DepthsTyped DEF Shape
    <2>3. Visited(s)
        BY <2>1, <2>2, UnreachedIsNoDepth DEF Visited
    <2> QED
        BY <1>4, <2>1, <2>3 DEF Shape
<1>5. ASSUME NEW o \in Offsets, Visited(o), Code(o).op \in {"CALL", "CLOSURE"}
      PROVE  Code(o).to \in Offsets /\ Visited(Code(o).to)
    <2>1. \E c : [entry |-> Code(o).to, captured |-> c] \in Entries(program)
        BY <1>5 DEF Shape
    <2>2. Code(o).to \in Offsets
        BY <2>1 DEF Shape
    <2>3. Visited(Code(o).to) \/ Awaited(Code(o).to)
        BY <1>5 DEF VerifierInv, Followed
    <2> QED
        BY <1>1, <2>2, <2>3 DEF Awaited
<1> QED
    BY <1>2, <1>3, <1>4, <1>5

\* While the verifier works, the interpreter waits at main.
LEMMA MachineWaits ==
    VerifierInv /\ MachineInv /\ Verify /\ UNCHANGED machine => MachineInv'
<1> SUFFICES ASSUME VerifierInv, MachineInv, Verify, UNCHANGED machine PROVE MachineInv'
    OBVIOUS
<1>1. VerifierInv' /\ Shape /\ verdict = "verifying" /\ program' = program
    BY VerifierStays, ProgramShape
    DEF VerifierInv, VerifierTyped, Verify, Reject, Skip, Visit, Judge, Verifying
<1>2. /\ \A o : Code(o)' = Code(o) /\ FunctionAt(o)' = FunctionAt(o)
      /\ Offsets' = Offsets
    BY <1>1, SameProgram
<1>3. /\ ip' = ip /\ height' = height /\ frames' = frames /\ made' = made /\ status' = status
      /\ ip = 1 /\ height = Globals /\ made = {} /\ status = "running" /\ Len(frames) = 1
      /\ frames[1].base = Globals /\ frames[1].locals = 0 /\ frames[1].fn = 1
    BY <1>1 DEF MachineInv, AtRest, MainFirst, machine
<1>4. MachineTyped' /\ MainFirst' /\ AtRest'
    BY <1>1, <1>2, <1>3 DEF MachineInv, MachineTyped, MainFirst, AtRest, FrameSet
<1>5. ASSUME verdict' = "accepted" PROVE rel_st_size'[1] # Unreached
    <2>1. pending = << >> /\ rel_st_size' = rel_st_size
        BY <1>1, <1>5 DEF Verify, Reject, Skip, Visit, Judge
    <2> QED
        BY <2>1, EmptyRange DEF VerifierInv, Followed, Awaited, Visited
<1>6. FunctionAt(1) = 1 /\ Code(1).op \in Begins
    BY <1>1 DEF Shape
<1>7. Tracks'
    BY <1>2, <1>3, <1>5, <1>6
    DEF Tracks, Visited, FramesLinked, ClosuresKnown, RunsOn, Insn, cur_frame
<1> QED
    BY <1>4, <1>7 DEF MachineInv

Running == VerifierInv /\ Shape /\ MachineInv /\ verdict = "accepted" /\ status = "running"

\* What the running program's state says of the instruction at ip.
LEMMA RunningHere ==
    ASSUME Running
    PROVE  /\ ip \in Offsets /\ height \in Int /\ Insn = Code(ip) /\ Insn \in Instructions
           /\ Visited(ip) /\ rel_st_size[ip] \in Int
           /\ Len(frames) \in 1 .. MaxFrames /\ cur_frame = frames[Len(frames)]
           /\ cur_frame \in FrameSet /\ FunctionAt(ip) = cur_frame.fn
           /\ FramesLinked /\ ClosuresKnown
           /\ Insn.op \in Begins =>
                cur_frame.locals = 0 /\ height = cur_frame.base /\ ip = cur_frame.fn
           /\ Insn.op \notin Begins =>
                /\ cur_frame.locals = Code(cur_frame.fn).locals
                /\ rel_st_size[ip] =
                    height - cur_frame.base - cur_frame.locals + Code(cur_frame.fn).n
<1> USE DEF Running
<1>1. /\ ip \in Offsets /\ height \in Int /\ Len(frames) \in 1 .. MaxFrames
      /\ frames \in Seq(FrameSet)
    BY DEF MachineInv, MachineTyped
<1>2. Insn = Code(ip) /\ Insn \in Instructions
    BY <1>1 DEF Insn, Shape
<1>3. Len(frames) \in 1 .. Len(frames)
    BY <1>1
<1>4. cur_frame = frames[Len(frames)] /\ cur_frame \in FrameSet
    BY <1>1, <1>3, ElementOfSeq DEF cur_frame
<1>5. Visited(ip) /\ FramesLinked /\ ClosuresKnown /\ RunsOn
    BY DEF MachineInv, Tracks
<1>6. rel_st_size[ip] \in Int
    BY <1>1, <1>5, Accepted
<1>7. Insn.op \in Begins => FunctionAt(ip) = ip
    BY <1>1, <1>2 DEF Shape
<1> QED
    BY <1>1, <1>2, <1>4, <1>5, <1>6, <1>7 DEF RunsOn

\* The verifier's knowledge is the same after a step of the interpreter.
LEMMA VerifierUnmoved ==
    ASSUME UNCHANGED verifier
    PROVE  /\ program' = program /\ rel_st_size' = rel_st_size /\ verdict' = verdict
           /\ \A o : /\ Code(o)' = Code(o) /\ FunctionAt(o)' = FunctionAt(o)
                     /\ Visited(o)' = Visited(o)
           /\ Offsets' = Offsets /\ Entries(program)' = Entries(program)
           /\ FrameSet' = FrameSet
           /\ \A a, b : Suspended(a, b)' = Suspended(a, b)
           /\ \A a : Entered(a)' = Entered(a)
BY DEF verifier, Code, FunctionAt, Visited, Offsets, FrameSet, Suspended, Entered

LEMMA LinksUnmoved ==
    ASSUME FramesLinked, UNCHANGED << verifier, frames >>
    PROVE  FramesLinked'
<1>1. ASSUME NEW i \in 2 .. Len(frames)
      PROVE  Suspended(frames[i - 1], frames[i])' /\ Entered(frames[i])'
    <2>1. Suspended(frames[i - 1], frames[i]) /\ Entered(frames[i])
        BY DEF FramesLinked
    <2>2. Suspended(frames[i - 1], frames[i])'
        BY <2>1, VerifierUnmoved DEF Suspended, Visited
    <2> QED
        BY <2>1, <2>2, VerifierUnmoved DEF Entered
<1> QED
    BY <1>1 DEF FramesLinked

\* A step within a function: on to a successor, with the depth the verifier gave it.
LEMMA StepsWithin ==
    ASSUME Running, UNCHANGED verifier, frames' = frames, status' = status,
           Insn.op \notin Begins, ip' \in Successors(Insn, ip),
           height' \in Int, height' - height = After(Insn, rel_st_size[ip]) - rel_st_size[ip],
           \A c \in made' : c \in Entries(program) /\ Visited(c.entry)
    PROVE  MachineInv'
<1>1. /\ ip \in Offsets /\ height \in Int /\ Insn = Code(ip) /\ Insn \in Instructions
      /\ Visited(ip) /\ rel_st_size[ip] \in Int /\ cur_frame \in FrameSet
      /\ FramesLinked /\ FunctionAt(ip) = cur_frame.fn
      /\ cur_frame.locals = Code(cur_frame.fn).locals
      /\ rel_st_size[ip] = height - cur_frame.base - cur_frame.locals + Code(cur_frame.fn).n
    BY RunningHere
<1>2. /\ ip' \in Offsets /\ Visited(ip') /\ Code(ip').op \notin Begins
      /\ FunctionAt(ip') = FunctionAt(ip)
      /\ rel_st_size[ip'] = After(Insn, rel_st_size[ip])
    BY <1>1, Accepted DEF Running
<1>3. After(Insn, rel_st_size[ip]) \in Int
    BY <1>1, DepthsTyped
<1>4. Code(cur_frame.fn).n \in Nat /\ cur_frame.base \in Int /\ cur_frame.locals \in Nat
    BY <1>1 DEF FrameSet, Shape, Running, Instructions
<1>5. rel_st_size[ip'] = height' - cur_frame.base - cur_frame.locals + Code(cur_frame.fn).n
    BY <1>1, <1>2, <1>3, <1>4
<1>6. cur_frame' = cur_frame /\ Insn' = Code(ip')
    BY VerifierUnmoved DEF cur_frame, Insn, Code
<1>7. MachineTyped'
    <2>1. \A c \in made' : c.entry \in Offsets
        BY DEF Running, Shape
    <2> QED
        BY <1>2, <2>1, VerifierUnmoved DEF Running, MachineInv, MachineTyped
<1>8. AtRest' /\ MainFirst'
    BY VerifierUnmoved DEF Running, MachineInv, AtRest, MainFirst
<1>9. FramesLinked'
    BY <1>1, LinksUnmoved
<1>10. ClosuresKnown'
    BY VerifierUnmoved DEF ClosuresKnown, Visited
<1>11. RunsOn'
    BY <1>1, <1>2, <1>5, <1>6, VerifierUnmoved DEF RunsOn, FunctionAt, Code
<1>12. Visited(ip)'
    BY <1>2, VerifierUnmoved DEF Visited
<1> QED
    BY <1>7, <1>8, <1>9, <1>10, <1>11, <1>12 DEF MachineInv, Tracks

\* A step that ends the run.
LEMMA StepsOut ==
    ASSUME Running, UNCHANGED << verifier, ip, frames, made >>, height' \in Int,
           status' \in {"stopped", "failed", "type error"}
    PROVE  MachineInv'
<1>1. Visited(ip) /\ FramesLinked /\ ClosuresKnown
    BY RunningHere
<1>2. MachineTyped'
    BY VerifierUnmoved DEF Running, MachineInv, MachineTyped
<1>3. AtRest' /\ MainFirst'
    BY VerifierUnmoved DEF Running, MachineInv, AtRest, MainFirst
<1>4. FramesLinked'
    BY <1>1, LinksUnmoved
<1>5. Visited(ip)' /\ ClosuresKnown' /\ RunsOn'
    BY <1>1, VerifierUnmoved DEF ClosuresKnown, Visited, RunsOn
<1> QED
    BY <1>2, <1>3, <1>4, <1>5 DEF MachineInv, Tracks

LEMMA WithinFunction ==
    ASSUME Running, UNCHANGED verifier,
           RunSimple \/ RunBlock \/ RunJump \/ RunCondJump \/ RunClosure
    PROVE  MachineInv'
<1> DEFINE d == rel_st_size[ip]
<1>1. /\ height \in Int /\ Insn \in Instructions /\ d \in Int /\ ClosuresKnown
      /\ Insn = Code(ip) /\ ip \in Offsets /\ Visited(ip) /\ Insn.n \in Nat
    BY RunningHere DEF Instructions
<1>2. \A c \in made : c \in Entries(program) /\ Visited(c.entry)
    BY <1>1 DEF ClosuresKnown
<1>3. CASE RunSimple
    <2>1. /\ Insn.op \in SimpleOps \cup LocOps /\ ip' = ip + 1
          /\ height' = height - Pops[Insn.op] + Pushes[Insn.op]
          /\ frames' = frames /\ made' = made /\ status' = status
        BY <1>3 DEF RunSimple, At
    <2>2. /\ Pops[Insn.op] \in Nat /\ Pushes[Insn.op] \in Nat
          /\ Delta[Insn.op] = Pushes[Insn.op] - Pops[Insn.op]
        BY <2>1, TablesAgree
    <2>3. /\ Insn.op \notin Begins /\ Successors(Insn, ip) = {ip + 1}
          /\ After(Insn, d) = d + Delta[Insn.op]
        BY <2>1
        DEF Successors, After, SimpleOps, LocOps, Begins, BlockOps, CondJumps
    <2>4. height' \in Int /\ height' - height = After(Insn, d) - d
        BY <1>1, <2>1, <2>2, <2>3
    <2> QED
        BY <1>2, <2>1, <2>3, <2>4, StepsWithin
<1>4. CASE RunBlock
    <2>1. /\ Insn.op \in BlockOps /\ ip' = ip + 1 /\ height' = height - Insn.n + 1
          /\ frames' = frames /\ made' = made /\ status' = status
        BY <1>4 DEF RunBlock, At
    <2>2. /\ Insn.op \notin Begins /\ Successors(Insn, ip) = {ip + 1}
          /\ After(Insn, d) = d - Insn.n + 1
        BY <2>1 DEF Successors, After, Begins, BlockOps, CondJumps
    <2>3. height' \in Int /\ height' - height = After(Insn, d) - d
        BY <1>1, <2>1, <2>2
    <2> QED
        BY <1>2, <2>1, <2>2, <2>3, StepsWithin
<1>5. CASE RunJump
    <2>1. /\ Insn.op = "JMP" /\ ip' = Insn.to /\ height' = height
          /\ frames' = frames /\ made' = made /\ status' = status
        BY <1>5 DEF RunJump, At
    <2>2. /\ Insn.op \notin Begins /\ Successors(Insn, ip) = {Insn.to}
          /\ After(Insn, d) = d + 0
        BY <2>1 DEF Successors, After, Begins, BlockOps, CondJumps, Delta
    <2>3. height' \in Int /\ height' - height = After(Insn, d) - d
        BY <1>1, <2>1, <2>2
    <2> QED
        BY <1>2, <2>1, <2>2, <2>3, StepsWithin
<1>6. CASE RunCondJump
    <2>1. /\ Insn.op \in CondJumps /\ ip' \in {Insn.to, ip + 1} /\ height' = height - 1
          /\ frames' = frames /\ made' = made /\ status' = status
        BY <1>6 DEF RunCondJump, At
    <2>2. /\ Insn.op \notin Begins /\ Successors(Insn, ip) = {Insn.to, ip + 1}
          /\ After(Insn, d) = d + -1
        BY <2>1 DEF Successors, After, Begins, BlockOps, CondJumps, Delta
    <2>3. height' \in Int /\ height' - height = After(Insn, d) - d
        BY <1>1, <2>1, <2>2
    <2> QED
        BY <1>2, <2>1, <2>2, <2>3, StepsWithin
<1>7. CASE RunClosure
    <2>1. /\ Insn.op = "CLOSURE" /\ ip' = ip + 1 /\ height' = height + 1
          /\ made' = made \cup {[entry |-> Insn.to, captured |-> Len(Insn.locs)]}
          /\ frames' = frames /\ status' = status
        BY <1>7 DEF RunClosure, At
    <2>2. /\ Insn.op \notin Begins /\ Successors(Insn, ip) = {ip + 1}
          /\ After(Insn, d) = d + 1
        BY <2>1 DEF Successors, After, Begins, BlockOps, CondJumps, Delta
    <2>3. height' \in Int /\ height' - height = After(Insn, d) - d
        BY <1>1, <2>1, <2>2
    <2>4. /\ [entry |-> Insn.to, captured |-> Len(Insn.locs)] \in Entries(program)
          /\ Visited(Insn.to)
        BY <1>1, <2>1, Accepted DEF Running, Shape
    <2>5. \A c \in made' : c \in Entries(program) /\ Visited(c.entry)
        BY <1>2, <2>1, <2>4
    <2> QED
        BY <2>1, <2>2, <2>3, <2>5, StepsWithin
<1> QED
    BY <1>3, <1>4, <1>5, <1>6, <1>7

LEMMA EntryRecords ==
    ASSUME Shape, NEW e \in Entries(program)
    PROVE  e = [entry |-> e.entry, captured |-> e.captured] /\ e.captured \in Nat
<1>1. CASE e \in {[entry |-> program.publics[i], captured |-> 0] : i \in DOMAIN program.publics}
    BY <1>1
<1>2. CASE e \in {[entry |-> program.code[o].to, captured |-> 0] :
                    o \in {x \in DOMAIN program.code : program.code[x].op = "CALL"}}
    BY <1>2
<1>3. CASE e \in {[entry |-> program.code[o].to, captured |-> Len(program.code[o].locs)] :
                    o \in {x \in DOMAIN program.code : program.code[x].op = "CLOSURE"}}
    <2>1. PICK o \in DOMAIN program.code :
            e = [entry |-> program.code[o].to, captured |-> Len(program.code[o].locs)]
        BY <1>3
    <2>2. Code(o) \in Instructions
        BY DEF Shape
    <2>3. Len(program.code[o].locs) \in Nat
        BY <2>2, LenProperties DEF Instructions, Code
    <2> QED
        BY <2>1, <2>3
<1> QED
    BY <1>1, <1>2, <1>3 DEF Entries

\* A call: the callee's frame is linked to the caller's.
LEMMA EntersFunction ==
    ASSUME Running, UNCHANGED verifier,
           NEW dest \in Offsets, NEW closure \in {0, 1}, NEW captured \in Nat,
           Insn.op = IF closure = 0 THEN "CALL" ELSE "CALLC",
           Enter(dest, Insn.n, closure, captured),
           [entry |-> dest, captured |-> captured] \in Entries(program),
           Visited(dest), Code(dest).n = Insn.n
    PROVE  MachineInv'
<1>1. /\ ip \in Offsets /\ height \in Int /\ Insn = Code(ip) /\ Insn \in Instructions
      /\ Visited(ip) /\ rel_st_size[ip] \in Int /\ Len(frames) \in 1 .. MaxFrames
      /\ cur_frame = frames[Len(frames)] /\ cur_frame \in FrameSet
      /\ FunctionAt(ip) = cur_frame.fn /\ FramesLinked /\ ClosuresKnown
      /\ frames \in Seq(FrameSet)
    BY RunningHere DEF Running, MachineInv, MachineTyped
<1>2. Insn.op \notin Begins
    BY DEF Begins
<1>3. /\ cur_frame.locals = Code(cur_frame.fn).locals
      /\ rel_st_size[ip] = height - cur_frame.base - cur_frame.locals + Code(cur_frame.fn).n
    BY <1>2, RunningHere
<1> DEFINE callee == [fn |-> dest, base |-> height, locals |-> 0, args |-> Insn.n,
                      closure |-> closure, captured |-> captured, ret |-> ip + 1]
           n == Len(frames)
<1>4. /\ n < MaxFrames /\ frames' = Append(frames, callee) /\ ip' = dest
      /\ height' = height /\ made' = made /\ status' = status
    BY DEF Enter
<1>5. callee \in FrameSet
    BY <1>1 DEF FrameSet, Instructions, Offsets
<1>6. /\ frames' \in Seq(FrameSet) /\ Len(frames') = n + 1 /\ frames'[n + 1] = callee
      /\ \A i \in 1 .. n : frames'[i] = frames[i]
    BY <1>1, <1>4, <1>5, AppendProperties
<1>7. Suspended(cur_frame, callee) /\ Entered(callee)
    <2>1. callee.ret - 1 = ip
        BY <1>1 DEF Offsets
    <2> QED
        BY <1>1, <1>3, <2>1 DEF Suspended, Entered
<1>8. ASSUME NEW i \in 2 .. n + 1
      PROVE  Suspended(frames'[i - 1], frames'[i]) /\ Entered(frames'[i])
    <2>1. CASE i = n + 1
        <3>1. i - 1 = n /\ frames'[i] = callee /\ frames'[i - 1] = cur_frame
            BY <1>1, <1>6, <2>1
        <3> QED
            BY <1>7, <3>1
    <2>2. CASE i # n + 1
        <3>1. i \in 2 .. n /\ i \in 1 .. n /\ i - 1 \in 1 .. n
            BY <1>1, <2>2
        <3> QED
            BY <1>1, <1>6, <3>1 DEF FramesLinked
    <2> QED
        BY <2>1, <2>2
<1>9. FramesLinked'
    <2>1. ASSUME NEW i \in 2 .. n + 1
          PROVE  Suspended(frames[i - 1], frames[i])' /\ Entered(frames[i])'
        <3>1. Suspended(frames'[i - 1], frames'[i]) /\ Entered(frames'[i])
            BY <1>8
        <3>2. Suspended(frames[i - 1], frames[i])'
            BY <3>1, VerifierUnmoved DEF Suspended, Visited
        <3> QED
            BY <3>1, <3>2, VerifierUnmoved DEF Entered
    <2> QED
        BY <1>6, <2>1 DEF FramesLinked
<1>10. Code(dest).op \in Begins /\ FunctionAt(dest) = dest
    BY DEF Running, Shape
<1>11. cur_frame' = callee /\ Insn' = Code(dest)
    BY <1>4, <1>6, VerifierUnmoved DEF cur_frame, Insn, Code
<1>12. RunsOn'
    BY <1>4, <1>10, <1>11, VerifierUnmoved DEF RunsOn, FunctionAt
<1>13. ClosuresKnown' /\ Visited(ip)'
    BY <1>1, <1>4, VerifierUnmoved DEF ClosuresKnown, Visited
<1>14. MachineTyped'
    <2>1. Len(frames') \in 1 .. MaxFrames
        BY <1>1, <1>4, <1>6, FrameBound
    <2> QED
        BY <1>1, <1>4, <1>6, <2>1, VerifierUnmoved DEF Running, MachineInv, MachineTyped
<1>15. AtRest'
    BY VerifierUnmoved DEF Running, AtRest
<1>16. MainFirst'
    BY <1>1, <1>6 DEF Running, MachineInv, MainFirst
<1> QED
    BY <1>9, <1>12, <1>13, <1>14, <1>15, <1>16 DEF MachineInv, Tracks

LEMMA CallsAndReturns ==
    ASSUME Running, UNCHANGED verifier, RunCall \/ RunCallc
    PROVE  MachineInv'
<1>1. /\ ip \in Offsets /\ height \in Int /\ Insn = Code(ip) /\ Insn \in Instructions
      /\ Visited(ip) /\ ClosuresKnown
    BY RunningHere
<1>2. CASE RunCall
    <2>1. Insn.op = "CALL" /\ Enter(Insn.to, Insn.n, 0, 0)
        BY <1>2 DEF RunCall, At
    <2>2. Insn.to \in Offsets /\ Visited(Insn.to)
        BY <1>1, <2>1, Accepted DEF Running
    <2>3. /\ [entry |-> Insn.to, captured |-> 0] \in Entries(program)
          /\ Code(Insn.to).n = Insn.n
        BY <1>1, <2>1 DEF Running, Shape
    <2> QED
        BY <2>1, <2>2, <2>3, EntersFunction
<1>3. CASE RunCallc
    <2>1. CASE \E c \in Applicable : Enter(c.entry, Insn.n, 1, c.captured)
        <3>1. PICK c \in Applicable : Enter(c.entry, Insn.n, 1, c.captured)
            BY <2>1
        <3>2. c \in Entries(program) /\ Visited(c.entry) /\ Code(c.entry).n = Insn.n
            BY <1>1, <3>1 DEF Applicable, ClosuresKnown
        <3>3. /\ c.entry \in Offsets /\ c.captured \in Nat
              /\ [entry |-> c.entry, captured |-> c.captured] \in Entries(program)
            BY <3>2, EntryRecords DEF Running, Shape
        <3>4. Insn.op = "CALLC"
            BY <1>3 DEF RunCallc, At
        <3> QED
            BY <3>1, <3>2, <3>3, <3>4, EntersFunction
    <2>2. CASE status' = "type error" /\ UNCHANGED << ip, height, frames, made >>
        BY <1>1, <2>2, StepsOut
    <2> QED
        BY <1>3, <2>1, <2>2 DEF RunCallc
<1> QED
    BY <1>2, <1>3

LEMMA BeginsBody ==
    ASSUME Running, UNCHANGED verifier, RunBegin
    PROVE  MachineInv'
<1>1. Insn.op \in Begins /\ height' = height + Insn.locals /\ made' = made
    BY DEF RunBegin, At
<1>2. /\ ip \in Offsets /\ height \in Int /\ Insn = Code(ip) /\ Insn \in Instructions
      /\ Visited(ip) /\ rel_st_size[ip] \in Int /\ Len(frames) \in 1 .. MaxFrames
      /\ cur_frame = frames[Len(frames)] /\ cur_frame \in FrameSet
      /\ FunctionAt(ip) = cur_frame.fn /\ FramesLinked /\ ClosuresKnown
      /\ cur_frame.locals = 0 /\ height = cur_frame.base /\ ip = cur_frame.fn
      /\ frames \in Seq(FrameSet)
    BY <1>1, RunningHere DEF Running, MachineInv, MachineTyped
<1>3. Insn.n \in Nat /\ Insn.locals \in Nat /\ height' \in Int
    BY <1>1, <1>2 DEF Instructions
<1>4. CASE status' = "failed" /\ UNCHANGED << ip, frames >>
    BY <1>1, <1>3, <1>4, StepsOut
<1>5. CASE /\ frames' = [frames EXCEPT ![Len(frames)].locals = Insn.locals]
           /\ ip' = ip + 1 /\ status' = status
    <2> DEFINE n == Len(frames)
               top == [cur_frame EXCEPT !.locals = Insn.locals]
    <2>1. /\ top \in FrameSet /\ top.locals = Insn.locals
          /\ top.fn = cur_frame.fn /\ top.base = cur_frame.base /\ top.args = cur_frame.args
          /\ top.closure = cur_frame.closure /\ top.captured = cur_frame.captured
          /\ top.ret = cur_frame.ret
        BY <1>2, <1>3 DEF FrameSet
    <2>2. frames' = [frames EXCEPT ![n] = top] /\ n \in 1 .. n
        <3>1. n \in 1 .. n
            BY <1>2
        <3>2. top = [frames[n] EXCEPT !.locals = Insn.locals]
            BY <1>2
        <3>3. frames' = [frames EXCEPT ![n] = [frames[n] EXCEPT !.locals = Insn.locals]]
            BY <1>5
        <3> QED
            BY <3>1, <3>2, <3>3
    <2>3. /\ frames' \in Seq(FrameSet) /\ Len(frames') = n
          /\ \A i \in 1 .. n : frames'[i] = IF i = n THEN top ELSE frames[i]
        BY <1>2, <2>1, <2>2, ExceptSeq
    <2>4. ASSUME NEW i \in 2 .. n
          PROVE  Suspended(frames'[i - 1], frames'[i]) /\ Entered(frames'[i])
        <3>1. i \in 1 .. n /\ i - 1 \in 1 .. n /\ i - 1 # n
            BY <1>2
        <3>2. Suspended(frames[i - 1], frames[i]) /\ Entered(frames[i])
            BY <1>2 DEF FramesLinked
        <3>3. frames'[i - 1] = frames[i - 1]
            BY <2>3, <3>1
        <3>4. CASE i = n
            <4>1. frames'[i] = top /\ frames[i] = cur_frame
                BY <1>2, <2>3, <3>1, <3>4
            <4> QED
                BY <2>1, <3>2, <3>3, <4>1 DEF Suspended, Entered
        <3>5. CASE i # n
            BY <2>3, <3>1, <3>2, <3>3, <3>5
        <3> QED
            BY <3>4, <3>5
    <2>5. FramesLinked'
        <3>1. ASSUME NEW i \in 2 .. n
              PROVE  Suspended(frames[i - 1], frames[i])' /\ Entered(frames[i])'
            <4>1. Suspended(frames'[i - 1], frames'[i]) /\ Entered(frames'[i])
                BY <2>4
            <4>2. Suspended(frames[i - 1], frames[i])'
                BY <4>1, VerifierUnmoved DEF Suspended, Visited
            <4> QED
                BY <4>1, <4>2, VerifierUnmoved DEF Entered
        <3> QED
            BY <2>3, <3>1 DEF FramesLinked
    <2>6. /\ ip + 1 \in Offsets /\ Visited(ip + 1) /\ Code(ip + 1).op \notin Begins
          /\ FunctionAt(ip + 1) = ip /\ rel_st_size[ip + 1] = Insn.n
        <3>1. ip + 1 \in Successors(Insn, ip)
            BY <1>1 DEF Successors, Begins, CondJumps
        <3>2. After(Insn, rel_st_size[ip]) = Insn.n
            BY <1>1 DEF After
        <3> QED
            BY <1>2, <3>1, <3>2, Accepted DEF Running
    <2>7. cur_frame' = top /\ Insn' = Code(ip + 1)
        BY <1>2, <1>5, <2>3, VerifierUnmoved DEF cur_frame, Insn, Code
    <2>8. Code(top.fn) = Insn
        BY <1>2, <2>1
    <2>9. RunsOn'
        <3>1. rel_st_size[ip + 1] = height' - top.base - top.locals + Code(top.fn).n
            BY <1>1, <1>2, <1>3, <2>1, <2>6, <2>8
        <3> QED
            BY <1>2, <1>5, <2>1, <2>6, <2>7, <2>8, <3>1, VerifierUnmoved
            DEF RunsOn, FunctionAt, Code
    <2>10. ClosuresKnown' /\ Visited(ip)'
        BY <1>1, <1>2, <1>5, <2>6, VerifierUnmoved DEF ClosuresKnown, Visited
    <2>11. MachineTyped'
        BY <1>1, <1>2, <1>3, <1>5, <2>3, <2>6, VerifierUnmoved
        DEF Running, MachineInv, MachineTyped
    <2>12. AtRest'
        BY VerifierUnmoved DEF Running, AtRest
    <2>13. MainFirst'
        <3>1. frames'[1].fn = frames[1].fn /\ frames'[1].args = frames[1].args
              /\ frames'[1].base = frames[1].base
              /\ frames'[1].captured = frames[1].captured
              /\ frames'[1].closure = frames[1].closure
            <4>1. 1 \in 1 .. n
                BY <1>2
            <4>2. frames'[1] = IF n = 1 THEN top ELSE frames[1]
                BY <2>3, <4>1
            <4>3. n = 1 => frames[1] = cur_frame
                BY <1>2
            <4> QED
                BY <2>1, <4>2, <4>3
        <3> QED
            BY <3>1 DEF Running, MachineInv, MainFirst
    <2> QED
        BY <2>5, <2>9, <2>10, <2>11, <2>12, <2>13 DEF MachineInv, Tracks
<1> QED
    BY <1>4, <1>5 DEF RunBegin

LEMMA ReturnsToCaller ==
    ASSUME Running, UNCHANGED verifier, RunReturn
    PROVE  MachineInv'
<1>1. Insn.op \in Ends /\ height' = height - 1 - Truncated + 1 /\ made' = made
    BY DEF RunReturn, At
<1>2. /\ ip \in Offsets /\ height \in Int /\ Insn = Code(ip) /\ Insn \in Instructions
      /\ Visited(ip) /\ rel_st_size[ip] \in Int /\ Len(frames) \in 1 .. MaxFrames
      /\ cur_frame = frames[Len(frames)] /\ cur_frame \in FrameSet
      /\ FunctionAt(ip) = cur_frame.fn /\ FramesLinked /\ ClosuresKnown
      /\ frames \in Seq(FrameSet)
    BY RunningHere DEF Running, MachineInv, MachineTyped
<1>3. Insn.op = "END" /\ Insn.op \notin Begins
    BY <1>1, <1>2 DEF Ends, Begins, Running, Shape
<1>4. rel_st_size[ip] = height - cur_frame.base - cur_frame.locals + Code(cur_frame.fn).n
    BY <1>3, RunningHere
<1>5. rel_st_size[ip] - 1 = Code(cur_frame.fn).n
    BY <1>2, <1>3, Accepted DEF Running, Known
<1>6. /\ cur_frame.base \in Int /\ cur_frame.locals \in Nat /\ cur_frame.args \in Nat
      /\ cur_frame.closure \in {0, 1} /\ cur_frame.fn \in Offsets
    BY <1>2 DEF FrameSet
<1>7. Code(cur_frame.fn).n \in Nat
    BY <1>6 DEF Running, Shape, Instructions
<1>8. height' = height - 1 - (cur_frame.locals + cur_frame.args + cur_frame.closure) + 1
    BY <1>1 DEF Truncated
<1>9. height' = cur_frame.base + 1 - cur_frame.args - cur_frame.closure /\ height' \in Int
    <2>1. cur_frame.closure \in Int
        BY <1>6
    <2>2. height' \in Int
        BY <1>2, <1>6, <1>8, <2>1
    <2> QED
        <3>1. height \in Int /\ rel_st_size[ip] \in Int
            BY <1>2
        <3> HIDE DEF cur_frame
        <3>2. height = cur_frame.base + cur_frame.locals + 1
            BY <1>4, <1>5, <1>6, <1>7, <3>1
        <3> QED
            BY <1>6, <1>8, <2>1, <2>2, <3>1, <3>2
<1>10. CASE status' = "stopped" /\ UNCHANGED << ip, frames >>
    BY <1>1, <1>9, <1>10, StepsOut
<1>11. CASE /\ Len(frames) > 1 /\ ip' = cur_frame.ret /\ status' = status
            /\ frames' = SubSeq(frames, 1, Len(frames) - 1)
    <2> DEFINE n == Len(frames)
               caller == frames[n - 1]
               call == cur_frame.ret - 1
    <2>1. n \in Nat /\ n - 1 \in 1 .. n /\ n \in 2 .. n /\ n - 1 \in Nat
        BY <1>2, <1>11
    <2>2. /\ frames' \in Seq(FrameSet) /\ Len(frames') = n - 1
          /\ \A i \in 1 .. n - 1 : frames'[i] = frames[i]
        <3>1. \A i \in 1 .. n - 1 : frames[i] \in FrameSet
            BY <1>2, <2>1, ElementOfSeq
        <3>2. /\ SubSeq(frames, 1, n - 1) \in Seq(FrameSet)
              /\ Len(SubSeq(frames, 1, n - 1)) = IF 1 <= n - 1 THEN (n - 1) - 1 + 1 ELSE 0
              /\ \A i \in 1 .. (n - 1) - 1 + 1 : SubSeq(frames, 1, n - 1)[i] = frames[1 + i - 1]
            BY <2>1, <3>1, SubSeqProperties
        <3> QED
            BY <1>11, <2>1, <3>2
    <2>3. Suspended(caller, cur_frame)
        BY <1>2, <2>1 DEF FramesLinked
    <2>4. caller \in FrameSet
        BY <1>2, <2>1, ElementOfSeq
    <2>5. /\ call \in Offsets /\ Visited(call) /\ FunctionAt(call) = caller.fn
          /\ Code(call).op = IF cur_frame.closure = 0 THEN "CALL" ELSE "CALLC"
          /\ Code(call).n = cur_frame.args
          /\ caller.locals = Code(caller.fn).locals
          /\ rel_st_size[call] = cur_frame.base - caller.base - caller.locals + Code(caller.fn).n
        BY <2>3 DEF Suspended
    <2>6. cur_frame.ret = call + 1 /\ cur_frame.ret \in Nat
        BY <1>2 DEF FrameSet
    <2>7. /\ call + 1 \in Offsets /\ Visited(call + 1) /\ Code(call + 1).op \notin Begins
          /\ FunctionAt(call + 1) = caller.fn
          /\ rel_st_size[call + 1] = After(Code(call), rel_st_size[call])
        <3>1. call + 1 \in Successors(Code(call), call)
            BY <2>5 DEF Successors, CondJumps
        <3> QED
            BY <2>5, <3>1, Accepted DEF Running
    <2>8. After(Code(call), rel_st_size[call]) =
            rel_st_size[call] - cur_frame.args + 1 - cur_frame.closure
        <3>1. rel_st_size[call] \in Int
            BY <2>5, Accepted DEF Running
        <3> QED
            BY <1>6, <2>5, <3>1 DEF After, AfterCall, Begins, BlockOps
    <2>9. /\ caller.base \in Int /\ caller.locals \in Nat /\ Code(caller.fn).n \in Nat
        BY <2>4 DEF FrameSet, Running, Shape, Instructions
    <2>10. rel_st_size[call + 1] = height' - caller.base - caller.locals + Code(caller.fn).n
        <3>1. rel_st_size[call] \in Int
            BY <2>5, Accepted DEF Running
        <3>2. rel_st_size[call] - cur_frame.args + 1 - cur_frame.closure =
                height' - caller.base - caller.locals + Code(caller.fn).n
            <4>1. rel_st_size[call] =
                    cur_frame.base - caller.base - caller.locals + Code(caller.fn).n
                BY <2>5
            <4>2. height' \in Int /\ cur_frame.closure \in Int
                BY <1>6, <1>9
            <4>3. height' = cur_frame.base + 1 - cur_frame.args - cur_frame.closure
                BY <1>9
            <4> HIDE DEF call, caller
            <4> QED
                BY <1>6, <2>9, <3>1, <4>1, <4>2, <4>3
        <3> QED
            BY <2>7, <2>8, <3>2
    <2>11. cur_frame' = caller /\ Insn' = Code(call + 1)
        BY <1>11, <2>1, <2>2, <2>6, VerifierUnmoved DEF cur_frame, Insn, Code
    <2>12. RunsOn'
        BY <1>11, <2>5, <2>6, <2>7, <2>10, <2>11, VerifierUnmoved DEF RunsOn, FunctionAt, Code
    <2>13. FramesLinked'
        <3>1. ASSUME NEW i \in 2 .. n - 1
              PROVE  Suspended(frames[i - 1], frames[i])' /\ Entered(frames[i])'
            <4>1. i \in 2 .. n /\ i \in 1 .. n - 1 /\ i - 1 \in 1 .. n - 1
                BY <2>1
            <4>2. Suspended(frames'[i - 1], frames'[i]) /\ Entered(frames'[i])
                BY <1>2, <2>2, <4>1 DEF FramesLinked
            <4>3. Suspended(frames[i - 1], frames[i])'
                BY <4>2, VerifierUnmoved DEF Suspended, Visited
            <4> QED
                BY <4>2, <4>3, VerifierUnmoved DEF Entered
        <3> QED
            BY <2>2, <3>1 DEF FramesLinked
    <2>14. ClosuresKnown' /\ Visited(ip)'
        BY <1>1, <1>2, <1>11, <2>6, <2>7, VerifierUnmoved DEF ClosuresKnown, Visited
    <2>15. MachineTyped'
        <3>1. Len(frames') \in 1 .. MaxFrames
            BY <1>2, <2>1, <2>2, FrameBound
        <3> QED
            BY <1>1, <1>9, <1>11, <2>2, <2>6, <2>7, <3>1, VerifierUnmoved
            DEF Running, MachineInv, MachineTyped
    <2>16. AtRest'
        BY VerifierUnmoved DEF Running, AtRest
    <2>17. MainFirst'
        <3>1. frames'[1] = frames[1]
            BY <2>1, <2>2
        <3> QED
            BY <3>1 DEF Running, MachineInv, MainFirst
    <2> QED
        BY <2>12, <2>13, <2>14, <2>15, <2>16, <2>17 DEF MachineInv, Tracks
<1> QED
    BY <1>10, <1>11 DEF RunReturn

LEMMA MachineRuns == VerifierInv /\ MachineInv /\ Run /\ UNCHANGED verifier => MachineInv'
<1> SUFFICES ASSUME VerifierInv, MachineInv, Run, UNCHANGED verifier PROVE MachineInv'
    OBVIOUS
<1>1. verdict = "accepted" /\ status = "running"
    BY DEF Run, RunSimple, RunBlock, RunJump, RunCondJump, RunClosure, RunCall, RunCallc,
           RunBegin, RunReturn, RunHalt, At
<1>2. Running
    BY <1>1, ProgramShape DEF Running, VerifierInv, VerifierTyped
<1>3. CASE RunHalt
    <2>1. height' \in Int
        BY <1>2, <1>3, RunningHere DEF RunHalt
    <2> QED
        BY <1>2, <1>3, <2>1, StepsOut DEF RunHalt
<1> QED
    BY <1>2, <1>3, WithinFunction, CallsAndReturns, BeginsBody, ReturnsToCaller DEF Run

Inv == VerifierInv /\ MachineInv

LEMMA InvInitially == Init => Inv
BY VerifierStarts, MachineStarts DEF Init, Inv

LEMMA VerifierStill == VerifierInv /\ UNCHANGED verifier => VerifierInv'
<1> SUFFICES ASSUME VerifierInv, UNCHANGED verifier PROVE VerifierInv'
    OBVIOUS
<1> USE DEF VerifierInv
<1>1. /\ program' = program /\ rel_st_size' = rel_st_size /\ funs' = funs
      /\ pending' = pending /\ verdict' = verdict
    BY DEF verifier
<1>2. /\ \A o : Code(o)' = Code(o) /\ FunctionAt(o)' = FunctionAt(o)
      /\ Offsets' = Offsets /\ Entries(program)' = Entries(program)
      /\ Dispatches' = Dispatches /\ Functions' = Functions
    BY <1>1, SameProgram
<1>3. \A o : Visited(o)' = Visited(o) /\ Awaited(o)' = Awaited(o)
    BY <1>1 DEF Visited, Awaited
<1>4. \A o, d : AwaitedWith(o, d)' = AwaitedWith(o, d)
    BY <1>1 DEF AwaitedWith
<1>5. \A f, type : LimitIn(f, type)' = LimitIn(f, type)
    BY <1>1 DEF LimitIn
<1>6. VerifierTyped' /\ PendingOrderly' /\ Followed' /\ Judged'
    BY <1>1, <1>2, <1>3, <1>4
    DEF VerifierTyped, PendingOrderly, Continues, Enters, Followed, Judged
<1>7. Recorded'
    BY <1>1, <1>2, <1>3, <1>5 DEF Recorded, RecordOf, Known
<1> QED
    BY <1>6, <1>7

LEMMA MachineStill == MachineInv /\ UNCHANGED vars => MachineInv'
<1> SUFFICES ASSUME MachineInv, UNCHANGED vars PROVE MachineInv'
    OBVIOUS
<1>1. /\ UNCHANGED verifier /\ ip' = ip /\ height' = height /\ frames' = frames
      /\ made' = made /\ status' = status
    BY DEF vars, machine
<1>2. verdict' = verdict /\ cur_frame' = cur_frame /\ Insn' = Insn
    BY <1>1, VerifierUnmoved DEF cur_frame, Insn, Code
<1>3. MachineTyped' /\ AtRest' /\ MainFirst'
    BY <1>1, VerifierUnmoved DEF MachineInv, MachineTyped, AtRest, MainFirst
<1>4. verdict = "accepted" => FramesLinked'
    BY <1>1, LinksUnmoved DEF MachineInv, Tracks
<1>5. RunsOn => RunsOn'
    BY <1>1, <1>2, VerifierUnmoved DEF RunsOn, FunctionAt, Code
<1>6. /\ Visited(ip) => Visited(ip)'
      /\ ClosuresKnown => ClosuresKnown'
    BY <1>1, VerifierUnmoved DEF Visited, ClosuresKnown
<1> QED
    BY <1>2, <1>3, <1>4, <1>5, <1>6 DEF MachineInv, Tracks

LEMMA InvStays == Inv /\ [Next]_vars => Inv'
<1>1. Inv /\ Verify /\ UNCHANGED machine => Inv'
    BY VerifierStays, MachineWaits DEF Inv
<1>2. Inv /\ Run /\ UNCHANGED verifier => Inv'
    BY MachineRuns, VerifierStill DEF Inv
<1>3. Inv /\ UNCHANGED vars => Inv'
    BY MachineStill, VerifierStill DEF Inv, vars
<1> QED
    BY <1>1, <1>2, <1>3 DEF Next

-----------------------------------------------------------------------------
(* What follows from the invariant                                         *)

LEMMA InvTyped == Inv => TypeOK
<1> SUFFICES ASSUME Inv PROVE TypeOK
    OBVIOUS
<1> USE DEF Inv, VerifierInv, MachineInv
<1>1. ASSUME NEW i \in DOMAIN pending
      PROVE  pending[i].offset \in Offsets /\ pending[i].fun \in Offsets
    <2>1. pending[i] \in Dispatches
        BY ElementOfSeq, LenProperties DEF VerifierTyped
    <2> QED
        BY <2>1 DEF Dispatches
<1>2. \A f \in Offsets : funs[f].begin \in Offsets \cup {0}
    BY DEF VerifierTyped, Functions
<1>3. ASSUME NEW i \in DOMAIN frames PROVE frames[i].fn \in Offsets
    <2>1. frames[i] \in FrameSet
        BY ElementOfSeq, LenProperties DEF MachineTyped
    <2> QED
        BY <2>1 DEF FrameSet
<1> QED
    BY <1>1, <1>2, <1>3 DEF TypeOK, VerifierTyped, MachineTyped

LEMMA InvTracks == Inv => RunsAsVerified
<1> SUFFICES ASSUME Inv PROVE RunsAsVerified
    OBVIOUS
<1>1. verdict = "accepted" => Visited(ip)
    BY DEF Inv, MachineInv, Tracks
<1>2. ASSUME InBody PROVE rel_st_size[ip] = Words(cur_frame)
    <2>1. Running /\ Insn.op \notin Begins
        BY <1>2, ProgramShape DEF InBody, Running, Inv, VerifierInv, VerifierTyped
    <2>2. /\ rel_st_size[ip] =
                height - cur_frame.base - cur_frame.locals + Code(cur_frame.fn).n
          /\ ip \in Offsets /\ Visited(ip) /\ FunctionAt(ip) = cur_frame.fn
        BY <2>1, RunningHere
    <2>3. funs[cur_frame.fn].args = Code(cur_frame.fn).n
        BY <2>1, <2>2, Accepted DEF Running, RecordOf
    <2> QED
        BY <2>2, <2>3 DEF Words
<1> QED
    BY <1>1, <1>2 DEF RunsAsVerified, Visited

\* An instruction that is accepted starts with no less than nothing, but for an
\* array or an S-expression of nothing, which may start with a word less.
LEMMA AcceptedDepth ==
    ASSUME VerifierInv, Shape, verdict = "accepted",
           NEW o \in Offsets, Visited(o), Code(o).op \notin Begins
    PROVE  /\ rel_st_size[o] \in Int /\ Lowest(Code(o), rel_st_size[o]) >= 0
           /\ rel_st_size[o] >= -1
<1> DEFINE in == Code(o)
           d == rel_st_size[o]
<1>1. /\ d \in Int /\ in \in Instructions /\ in.n \in Nat
      /\ Known(o, FunctionAt(o)) /\ funs[FunctionAt(o)].min_rel_st_size >= 0
      /\ FunctionAt(o) \in Offsets
    BY Accepted DEF Shape, Instructions
<1>2. funs[FunctionAt(o)].min_rel_st_size \in Int
    BY <1>1 DEF VerifierInv, VerifierTyped, Functions
<1>3. Lowest(in, d) \in Int
    BY <1>1, DepthsTyped
<1>4. Lowest(in, d) >= 0
    BY <1>1, <1>2, <1>3 DEF Known
<1>5. CASE in.op \in BlockOps
    <2>1. Lowest(in, d) = d - in.n + 1
        BY <1>5 DEF Lowest, After, BlockOps, Begins
    <2> QED
        BY <1>1, <1>4, <2>1
<1>6. CASE in.op \notin BlockOps
    <2>1. Lowest(in, d) = d + Overflow[in.op]
        BY <1>6 DEF Lowest
    <2>2. in.op \in DOMAIN Delta
        BY <1>1, <1>6 DEF Instructions
    <2>3. Overflow[in.op] \in Int /\ Overflow[in.op] <= 0
        BY <2>2 DEF Overflow, Delta
    <2> QED
        BY <1>1, <1>4, <2>1, <2>3
<1> QED
    BY <1>1, <1>4, <1>5, <1>6

LEMMA EnoughWords ==
    ASSUME VerifierInv, Shape, verdict = "accepted",
           NEW o \in Offsets, Visited(o), Code(o).op \notin Begins
    PROVE  Touches(Code(o)) <= rel_st_size[o] + MayReachBelow(Code(o).op)
<1> DEFINE in == Code(o)
           d == rel_st_size[o]
<1>1. d \in Int /\ d >= -1 /\ Lowest(in, d) >= 0
    BY AcceptedDepth
<1>2. in \in Instructions /\ in.n \in Nat /\ in.op # "RET"
    BY DEF Shape, Instructions
<1>3. in.op \notin BlockOps => Lowest(in, d) = d + Overflow[in.op]
    BY DEF Lowest
<1>4. CASE in.op \in SimpleOps \cup LocOps
    <2>1. in.op \notin BlockOps \cup {"CALL", "CALLC"}
        BY <1>4 DEF SimpleOps, LocOps, BlockOps
    <2>2. Pops[in.op] \in Nat /\ Overflow[in.op] = -Pops[in.op]
        BY <1>4, TablesAgree
    <2>3. Pops[in.op] <= d
        BY <1>1, <1>3, <2>1, <2>2
    <2>4. CASE in.op \in {"DUP", "ST"}
        <3>1. Touches(in) = 1 /\ MayReachBelow(in.op) = 1
            BY <2>4 DEF Touches, MayReachBelow, SimpleOps, LocOps, BlockOps, CondJumps, Ends
        <3> QED
            BY <1>1, <2>2, <2>3, <3>1
    <2>5. CASE in.op \notin {"DUP", "ST"}
        <3>1. Touches(in) = Pops[in.op] /\ MayReachBelow(in.op) = 0
            BY <1>4, <2>1, <2>5
            DEF Touches, MayReachBelow, SimpleOps, LocOps, BlockOps, CondJumps, Ends
        <3> QED
            BY <1>1, <2>3, <3>1
    <2> QED
        BY <2>4, <2>5
<1>5. CASE in.op \in BlockOps
    <2>1. Lowest(in, d) = d - in.n + 1
        BY <1>5 DEF Lowest, After, BlockOps, Begins
    <2>2. Touches(in) = in.n /\ MayReachBelow(in.op) = 1
        BY <1>5 DEF Touches, MayReachBelow, SimpleOps, LocOps, BlockOps, CondJumps, Ends
    <2> QED
        BY <1>1, <1>2, <2>1, <2>2
<1>6. CASE in.op \in {"CALL", "CALLC"}
    <2>1. o + 1 \in Successors(in, o)
        BY <1>6 DEF Successors, CondJumps
    <2>2. /\ o + 1 \in Offsets /\ Visited(o + 1) /\ Code(o + 1).op \notin Begins
          /\ rel_st_size[o + 1] = After(in, d)
        BY <2>1, Accepted
    <2>3. After(in, d) >= -1
        BY <2>2, AcceptedDepth
    <2>4. CASE in.op = "CALL"
        <3>1. After(in, d) = d - in.n + 1
            BY <2>4 DEF After, AfterCall, Begins, BlockOps
        <3>2. Touches(in) = in.n /\ MayReachBelow(in.op) = 2
            BY <2>4 DEF Touches, MayReachBelow, SimpleOps, LocOps, BlockOps, CondJumps, Ends
        <3> QED
            BY <1>1, <1>2, <2>3, <3>1, <3>2
    <2>5. CASE in.op = "CALLC"
        <3>1. After(in, d) = d - in.n
            BY <2>5 DEF After, Begins, BlockOps
        <3>2. Touches(in) = in.n + 1 /\ MayReachBelow(in.op) = 2
            BY <2>5 DEF Touches, MayReachBelow, SimpleOps, LocOps, BlockOps, CondJumps, Ends
        <3> QED
            BY <1>1, <1>2, <2>3, <3>1, <3>2
    <2> QED
        BY <1>6, <2>4, <2>5
<1>7. CASE in.op \in CondJumps \cup {"FAIL"}
    <2>1. Overflow[in.op] = -1 /\ in.op \notin BlockOps
        BY <1>7 DEF Overflow, CondJumps, BlockOps
    <2>2. Touches(in) = 1 /\ MayReachBelow(in.op) = 0
        BY <1>7 DEF Touches, MayReachBelow, SimpleOps, LocOps, BlockOps, CondJumps, Ends
    <2> QED
        BY <1>1, <1>3, <2>1, <2>2
<1>8. CASE in.op = "END"
    <2>1. d - 1 = Code(FunctionAt(o)).n /\ FunctionAt(o) \in Offsets
        BY <1>8, Accepted DEF Known
    <2>2. Code(FunctionAt(o)).n \in Nat
        BY <2>1 DEF Shape, Instructions
    <2>3. Touches(in) = 1 /\ MayReachBelow(in.op) = 0
        BY <1>8 DEF Touches, MayReachBelow, SimpleOps, LocOps, BlockOps, CondJumps, Ends
    <2> QED
        BY <1>1, <2>1, <2>2, <2>3
<1>9. CASE in.op \in {"JMP", "CLOSURE", "STOP"}
    <2>1. Overflow[in.op] = 0 /\ in.op \notin BlockOps
        BY <1>9 DEF Overflow, BlockOps
    <2>2. Touches(in) = 0 /\ MayReachBelow(in.op) = 0
        BY <1>9 DEF Touches, MayReachBelow, SimpleOps, LocOps, BlockOps, CondJumps, Ends
    <2> QED
        BY <1>1, <1>3, <2>1, <2>2
<1> QED
    BY <1>2, <1>4, <1>5, <1>6, <1>7, <1>8, <1>9
    DEF Instructions, Delta, SimpleOps, LocOps, BlockOps, CondJumps, Begins

LEMMA InvResolves == Inv => OperandsExist
<1> SUFFICES ASSUME Inv, InBody PROVE
        /\ Touches(Insn) <= Words(cur_frame) + MayReachBelow(Insn.op)
        /\ \A i \in DOMAIN Insn.locs :
                resolve_loc(Insn.locs[i]) \in Block(Insn.locs[i].type)
    BY DEF OperandsExist
<1>1. Running /\ Insn.op \notin Begins
    BY ProgramShape DEF InBody, Running, Inv, VerifierInv, VerifierTyped
<1>2. /\ ip \in Offsets /\ Insn = Code(ip) /\ Insn \in Instructions /\ Visited(ip)
      /\ FunctionAt(ip) = cur_frame.fn /\ cur_frame = frames[Len(frames)]
      /\ Len(frames) \in 1 .. MaxFrames /\ FramesLinked
      /\ cur_frame.locals = Code(cur_frame.fn).locals
    BY <1>1, RunningHere
<1>3. rel_st_size[ip] = Words(cur_frame)
    BY InvTracks DEF RunsAsVerified
<1>4. Touches(Insn) <= Words(cur_frame) + MayReachBelow(Insn.op)
    BY <1>1, <1>2, <1>3, EnoughWords DEF Running
<1> DEFINE f == cur_frame.fn
<1>5. /\ funs[f].args = Code(f).n /\ funs[f].locals = Code(f).locals
      /\ [entry |-> f, captured |-> funs[f].captured] \in Entries(program)
      /\ Known(ip, f)
    BY <1>1, <1>2, Accepted DEF Running, RecordOf
<1>6. /\ [entry |-> f, captured |-> cur_frame.captured] \in Entries(program)
      /\ f # 1 => cur_frame.args = Code(f).n
    <2>1. CASE Len(frames) = 1
        <3>1. f = 1 /\ cur_frame.captured = 0
            BY <1>2, <2>1 DEF Inv, MachineInv, MainFirst
        <3>2. PICK i \in DOMAIN program.publics : program.publics[i] = 1
            BY <1>1 DEF Running, Shape
        <3>3. [entry |-> program.publics[i], captured |-> 0] \in Entries(program)
            BY <1>1 DEF Running, Shape
        <3> QED
            BY <3>1, <3>2, <3>3
    <2>2. CASE Len(frames) # 1
        <3>1. Len(frames) \in 2 .. Len(frames)
            <4>1. Len(frames) \in Nat /\ Len(frames) >= 1
                BY <1>2, FrameBound
            <4> QED
                BY <2>2, <4>1
        <3> QED
            BY <1>2, <3>1 DEF FramesLinked, Entered
    <2> QED
        BY <2>1, <2>2
<1>7. cur_frame.captured = funs[f].captured
    <2>1. [entry |-> f, captured |-> cur_frame.captured] =
            [entry |-> f, captured |-> funs[f].captured]
        BY <1>1, <1>5, <1>6 DEF Running, Shape
    <2> QED
        BY <2>1
<1>8. ASSUME NEW i \in DOMAIN Insn.locs
      PROVE  resolve_loc(Insn.locs[i]) \in Block(Insn.locs[i].type)
    <2> DEFINE loc == Insn.locs[i]
    <2>1. loc.type \in LocationTypes /\ loc.idx \in Nat
        BY <1>2, LocationsTyped
    <2>2. loc.idx < LimitIn(f, loc.type)
        BY <1>2, <1>5 DEF Known
    <2>3. /\ cur_frame.base \in Int /\ cur_frame.locals \in Nat
          /\ cur_frame.args \in Nat /\ cur_frame.captured \in Nat
        BY <1>1, RunningHere DEF FrameSet
    <2>4. CASE loc.type = "GLOBAL"
        <3>1. loc.idx < Globals
            BY <2>2, <2>4 DEF LimitIn
        <3>2. resolve_loc(loc) = loc.idx + 1 /\ Block(loc.type) = 1 .. Globals
            BY <2>4 DEF resolve_loc, Block
        <3> QED
            BY <2>1, <3>1, <3>2, GlobalsIsNatural
    <2>5. CASE loc.type = "LOCAL"
        <3>1. loc.idx < cur_frame.locals
            BY <1>2, <1>5, <2>2, <2>5 DEF LimitIn
        <3>2. /\ resolve_loc(loc) = cur_frame.base + 1 + loc.idx
              /\ Block(loc.type) = cur_frame.base + 1 .. cur_frame.base + cur_frame.locals
            BY <2>5 DEF resolve_loc, Block
        <3> QED
            BY <2>1, <2>3, <3>1, <3>2
    <2>6. CASE loc.type = "ARGUMENT"
        <3>1. f = 1 => loc.type # "ARGUMENT"
            <4>1. /\ FunctionAt(ip) = 1 =>
                        \A j \in DOMAIN Code(ip).locs : Code(ip).locs[j].type # "ARGUMENT"
                  /\ ip \in Offsets
                BY <1>1, <1>2 DEF Running, Shape
            <4>2. FunctionAt(ip) = f /\ i \in DOMAIN Code(ip).locs /\ Insn = Code(ip)
                BY <1>2
            <4> QED
                BY <4>1, <4>2
        <3>2. cur_frame.args = Code(f).n
            BY <1>6, <2>6, <3>1
        <3>3. loc.idx < cur_frame.args
            BY <1>5, <2>2, <2>6, <3>2 DEF LimitIn
        <3>4. /\ resolve_loc(loc) = cur_frame.base + 1 - cur_frame.args + loc.idx
              /\ Block(loc.type) = cur_frame.base - cur_frame.args + 1 .. cur_frame.base
            BY <2>6 DEF resolve_loc, Block
        <3> QED
            BY <2>1, <2>3, <3>3, <3>4
    <2>7. CASE loc.type = "CAPTURED"
        <3>1. loc.idx < cur_frame.captured
            BY <1>7, <2>2, <2>7 DEF LimitIn
        <3>2. resolve_loc(loc) = 1 + loc.idx /\ Block(loc.type) = 1 .. cur_frame.captured
            BY <2>7 DEF resolve_loc, Block
        <3> QED
            BY <2>1, <2>3, <3>1, <3>2
    <2> QED
        BY <2>1, <2>4, <2>5, <2>6, <2>7 DEF LocationTypes
<1> QED
    BY <1>4, <1>8

-----------------------------------------------------------------------------
(* hw02's interpreter keeps to its stack, whatever the verdict             *)

LamaiFrames == [base : Int, locals : Nat, args : Nat, closure : {0, 1}, ret : Int]

LamaiInv ==
    /\ program \in Programs /\ Lamai!StaysInStack
    /\ lamai_frames \in Seq(LamaiFrames)
    /\ \A i \in 2 .. Len(lamai_frames) : Lamai!InCode(lamai_frames[i].ret)

LEMMA LamaiStarts == Init /\ Lamai!Init(Globals) => LamaiInv
<1> SUFFICES ASSUME Init, Lamai!Init(Globals) PROVE LamaiInv
    OBVIOUS
<1>1. program \in Programs /\ Shape
    BY ProgramShape DEF Init, VerifierInit
<1> DEFINE main == [base |-> Globals, locals |-> 0, args |-> 0, closure |-> 0, ret |-> 0]
<1>2. /\ lamai_frames = << main >> /\ main \in LamaiFrames
      /\ lamai_ip = 1 /\ lamai_height = Globals /\ lamai_status = "running"
    BY GlobalsIsNatural DEF Lamai!Init, LamaiFrames
<1>3. /\ lamai_frames \in Seq(LamaiFrames) /\ Len(lamai_frames) = 1
      /\ lamai_frames[1] = main
    BY <1>2
<1>4. Globals \in -1 .. SmallStack
    BY GlobalsIsNatural, GlobalsFit
<1>5. Lamai!InCode(1)
    BY <1>1 DEF Shape, Offsets, Lamai!InCode
<1>6. Lamai!StaysInStack
    BY <1>2, <1>3, <1>4, <1>5, FrameBound DEF Lamai!StaysInStack, Lamai!InCode
<1> QED
    BY <1>1, <1>3, <1>6 DEF LamaiInv

LEMMA LamaiSettled ==
    ASSUME LamaiInv, program' = program
    PROVE  /\ Shape
           /\ lamai_ip \in Offsets /\ Lamai!Insn = Code(lamai_ip)
           /\ Lamai!Insn \in Instructions
           /\ lamai_height \in -1 .. SmallStack /\ lamai_height \in Int /\ SmallStack \in Nat
           /\ Len(lamai_frames) \in 1 .. MaxFrames /\ Len(lamai_frames) \in Nat
           /\ Lamai!cur_frame = lamai_frames[Len(lamai_frames)]
           /\ Lamai!cur_frame \in LamaiFrames
           /\ \A o : Lamai!InCode(o) <=> o \in Offsets
           /\ \A o : Lamai!InCode(o)' <=> o \in Offsets
<1>1. Shape
    BY ProgramShape DEF LamaiInv
<1>2. \A o : (Lamai!InCode(o) <=> o \in Offsets) /\ (Lamai!InCode(o)' <=> o \in Offsets)
    BY DEF Lamai!InCode, Offsets
<1>3. /\ lamai_ip \in Offsets /\ lamai_height \in -1 .. SmallStack
      /\ Len(lamai_frames) \in 1 .. MaxFrames
    BY <1>2 DEF LamaiInv, Lamai!StaysInStack
<1>4. lamai_height \in Int /\ SmallStack \in Nat /\ Len(lamai_frames) \in Nat
    BY <1>3, GlobalsFit, FrameBound
<1>5. Lamai!Insn = Code(lamai_ip) /\ Lamai!Insn \in Instructions
    BY <1>1, <1>3 DEF Lamai!Insn, Code, Shape
<1>6. lamai_frames[Len(lamai_frames)] \in LamaiFrames
    <2>1. Len(lamai_frames) \in 1 .. Len(lamai_frames)
        BY <1>3, <1>4, FrameBound
    <2> QED
        BY <2>1, ElementOfSeq DEF LamaiInv
<1> QED
    BY <1>1, <1>2, <1>3, <1>4, <1>5, <1>6 DEF Lamai!cur_frame

\* A step that leaves the frames alone.
LEMMA LamaiSame ==
    ASSUME LamaiInv, program' = program, lamai_frames' = lamai_frames,
           lamai_ip' \in Offsets, lamai_height' \in -1 .. SmallStack,
           lamai_status' \in {"running", "stopped", "failed", "undefined"}
    PROVE  LamaiInv'
<1>1. /\ \A o : Lamai!InCode(o) <=> o \in Offsets
      /\ \A o : Lamai!InCode(o)' <=> o \in Offsets
    BY LamaiSettled
<1>2. Lamai!StaysInStack'
    BY <1>1 DEF LamaiInv, Lamai!StaysInStack, Lamai!InCode, Offsets
<1>3. (\A i \in 2 .. Len(lamai_frames) : Lamai!InCode(lamai_frames[i].ret))'
    BY DEF LamaiInv, Lamai!InCode
<1> QED
    BY <1>2, <1>3 DEF LamaiInv, LamaiFrames

LEMMA LamaiFails ==
    ASSUME LamaiInv, program' = program, NEW how \in {"stopped", "failed", "undefined"},
           Lamai!Fails(how)
    PROVE  LamaiInv'
<1>1. /\ lamai_frames' = lamai_frames /\ lamai_ip' = lamai_ip
      /\ lamai_height' = lamai_height /\ lamai_status' = how
    BY DEF Lamai!Fails
<1> QED
    BY <1>1, LamaiSettled, LamaiSame

LEMMA LamaiExchanges ==
    ASSUME LamaiInv, program' = program, NEW n \in Nat, NEW m \in Nat, Lamai!Exchange(n, m),
           lamai_ip + 1 \in Offsets
    PROVE  LamaiInv'
<1>1. CASE Lamai!Fails("failed")
    BY <1>1, LamaiFails
<1>2. CASE /\ Lamai!CanPop(lamai_height, n) /\ Lamai!CanPush(lamai_height - n, m)
           /\ lamai_height' = lamai_height - n + m /\ lamai_ip' = lamai_ip + 1
           /\ lamai_frames' = lamai_frames /\ lamai_status' = lamai_status
    <2>1. lamai_height \in Int /\ SmallStack \in Nat /\ lamai_height >= -1
          /\ lamai_height <= SmallStack
        BY LamaiSettled
    <2>2. n > 0 => lamai_height - n >= -1
        BY <1>2 DEF Lamai!CanPop, Lamai!CHECK_UNDERFLOW
    <2>3. m > 0 => lamai_height - n + m - 1 < SmallStack
        BY <1>2 DEF Lamai!CanPush, Lamai!CHECK_OVERFLOW
    <2>4. lamai_height - n + m \in -1 .. SmallStack
        <3>1. lamai_height - n + m >= -1
            BY <2>1, <2>2
        <3>2. lamai_height - n + m <= SmallStack
            BY <2>1, <2>3
        <3> QED
            BY <2>1, <3>1, <3>2
    <2>5. lamai_status \in {"running", "stopped", "failed", "undefined"}
        BY DEF LamaiInv, Lamai!StaysInStack
    <2> QED
        BY <1>2, <2>4, <2>5, LamaiSame
<1> QED
    BY <1>1, <1>2 DEF Lamai!Exchange

\* A call, with the frame it pushes.
LEMMA LamaiEnters ==
    ASSUME LamaiInv, program' = program, NEW dest, NEW closure \in {0, 1},
           Lamai!Enter(dest, Lamai!Insn.n, closure), lamai_ip + 1 \in Offsets
    PROVE  LamaiInv'
<1> DEFINE n == Len(lamai_frames)
           top == [base |-> lamai_height, locals |-> 0, args |-> Lamai!Insn.n,
                   closure |-> closure, ret |-> lamai_ip + 1]
<1>1. /\ n \in 1 .. MaxFrames /\ n \in Nat /\ lamai_height \in Int
      /\ lamai_height \in -1 .. SmallStack /\ lamai_ip \in Offsets
      /\ Lamai!Insn \in Instructions
      /\ \A o : Lamai!InCode(o) <=> o \in Offsets
      /\ \A o : Lamai!InCode(o)' <=> o \in Offsets
    BY LamaiSettled
<1>2. CASE Lamai!Fails("failed")
    BY <1>2, LamaiFails
<1>3. CASE /\ n < MaxFrames /\ Lamai!InCode(dest) /\ lamai_ip' = dest
           /\ lamai_height' = lamai_height /\ lamai_frames' = Append(lamai_frames, top)
           /\ lamai_status' = lamai_status
    <2>1. top \in LamaiFrames
        BY <1>1 DEF LamaiFrames, Instructions, Offsets
    <2>2. /\ lamai_frames' \in Seq(LamaiFrames) /\ Len(lamai_frames') = n + 1
          /\ \A i \in 1 .. n : lamai_frames'[i] = lamai_frames[i]
          /\ lamai_frames'[n + 1] = top
        BY <1>3, <2>1, AppendProperties DEF LamaiInv
    <2>3. ASSUME NEW i \in 1 .. n + 1 PROVE lamai_frames'[i].base \in -1 .. SmallStack
        <3>1. CASE i = n + 1
            BY <1>1, <2>2, <3>1
        <3>2. CASE i # n + 1
            <4>1. i \in 1 .. n /\ i \in DOMAIN lamai_frames
                BY <1>1, <3>2 DEF LamaiInv
            <4> QED
                BY <2>2, <4>1 DEF LamaiInv, Lamai!StaysInStack
        <3> QED
            BY <3>1, <3>2
    <2>4. ASSUME NEW i \in 2 .. n + 1 PROVE lamai_frames'[i].ret \in Offsets
        <3>1. CASE i = n + 1
            BY <2>2, <3>1
        <3>2. CASE i # n + 1
            <4>1. i \in 1 .. n /\ i \in 2 .. n
                BY <1>1, <3>2
            <4> QED
                BY <1>1, <2>2, <4>1 DEF LamaiInv
        <3> QED
            BY <3>1, <3>2
    <2>5. n + 1 \in 1 .. MaxFrames /\ dest \in Offsets
        BY <1>1, <1>3, FrameBound
    <2>6. lamai_status \in {"running", "stopped", "failed", "undefined"}
        BY DEF LamaiInv, Lamai!StaysInStack
    <2>7. Lamai!StaysInStack'
        <3>1. DOMAIN lamai_frames' = 1 .. n + 1
            BY <2>2
        <3> QED
            BY <1>1, <1>3, <2>2, <2>3, <2>5, <2>6, <3>1
            DEF Lamai!StaysInStack, Lamai!InCode, Offsets
    <2>8. (\A i \in 2 .. Len(lamai_frames) : Lamai!InCode(lamai_frames[i].ret))'
        BY <1>1, <2>2, <2>4 DEF Lamai!InCode, Offsets
    <2> QED
        BY <2>2, <2>7, <2>8 DEF LamaiInv, LamaiFrames
<1> QED
    BY <1>2, <1>3 DEF Lamai!Enter, Lamai!MAKE_JUMP, Lamai!Frame

LEMMA LamaiBegins ==
    ASSUME LamaiInv, program' = program, Lamai!BEGIN, lamai_ip + 1 \in Offsets
    PROVE  LamaiInv'
<1> DEFINE n == Len(lamai_frames)
           top == [Lamai!cur_frame EXCEPT !.locals = Lamai!Insn.locals]
<1>1. /\ n \in 1 .. MaxFrames /\ n \in Nat /\ lamai_height \in Int /\ lamai_height >= -1
      /\ Lamai!cur_frame = lamai_frames[n] /\ Lamai!cur_frame \in LamaiFrames
      /\ Lamai!Insn \in Instructions /\ SmallStack \in Nat
      /\ \A o : Lamai!InCode(o) <=> o \in Offsets
      /\ \A o : Lamai!InCode(o)' <=> o \in Offsets
    BY LamaiSettled
<1>2. CASE Lamai!Fails("failed")
    BY <1>2, LamaiFails
<1>3. CASE /\ Lamai!CanAlloc(lamai_height, Lamai!Insn.locals)
           /\ lamai_height' = lamai_height + Lamai!Insn.locals /\ lamai_ip' = lamai_ip + 1
           /\ lamai_frames' = [lamai_frames EXCEPT ![n].locals = Lamai!Insn.locals]
           /\ lamai_status' = lamai_status
    <2>1. Lamai!Insn.locals \in Nat
        BY <1>1 DEF Instructions
    <2>2. lamai_height' \in -1 .. SmallStack
        BY <1>1, <1>3, <2>1 DEF Lamai!CanAlloc, Lamai!CHECK_OVERFLOW
    <2>3. n \in 1 .. n
        BY <1>1, FrameBound
    <2>4. /\ top \in LamaiFrames /\ top.base = lamai_frames[n].base
          /\ top.ret = lamai_frames[n].ret
        BY <1>1, <2>1 DEF LamaiFrames
    <2>5. lamai_frames' = [lamai_frames EXCEPT ![n] = top]
        <3>1. top = [lamai_frames[n] EXCEPT !.locals = Lamai!Insn.locals]
            BY <1>1
        <3>2. lamai_frames' =
                [lamai_frames EXCEPT ![n] = [lamai_frames[n] EXCEPT !.locals = Lamai!Insn.locals]]
            BY <1>3
        <3> QED
            BY <3>1, <3>2
    <2>6. /\ lamai_frames' \in Seq(LamaiFrames) /\ Len(lamai_frames') = n
          /\ \A i \in 1 .. n : lamai_frames'[i] = IF i = n THEN top ELSE lamai_frames[i]
        <3> HIDE DEF top
        <3> QED
            BY <2>3, <2>4, <2>5, ExceptSeq DEF LamaiInv
    <2>7. \A i \in 1 .. n : /\ lamai_frames'[i].base = lamai_frames[i].base
                            /\ lamai_frames'[i].ret = lamai_frames[i].ret
        BY <2>4, <2>6
    <2>8. lamai_status \in {"running", "stopped", "failed", "undefined"}
        BY DEF LamaiInv, Lamai!StaysInStack
    <2>9. Lamai!StaysInStack'
        <3>1. DOMAIN lamai_frames' = 1 .. n /\ DOMAIN lamai_frames = 1 .. n
            BY <2>6 DEF LamaiInv
        <3>2. \A i \in 1 .. n : lamai_frames'[i].base \in -1 .. SmallStack
            BY <2>7, <3>1 DEF LamaiInv, Lamai!StaysInStack
        <3> QED
            BY <1>1, <1>3, <2>2, <2>6, <2>8, <3>1, <3>2
            DEF Lamai!StaysInStack, Lamai!InCode, Offsets
    <2>10. (\A i \in 2 .. Len(lamai_frames) : Lamai!InCode(lamai_frames[i].ret))'
        <3>1. ASSUME NEW i \in 2 .. n PROVE lamai_frames'[i].ret \in Offsets
            BY <1>1, <2>7 DEF LamaiInv
        <3> QED
            BY <2>6, <3>1 DEF Lamai!InCode, Offsets
    <2> QED
        BY <2>6, <2>9, <2>10 DEF LamaiInv, LamaiFrames
<1> QED
    BY <1>2, <1>3 DEF Lamai!BEGIN

LEMMA LamaiReturns ==
    ASSUME LamaiInv, program' = program, Lamai!END
    PROVE  LamaiInv'
<1> DEFINE n == Len(lamai_frames)
<1>1. /\ n \in 1 .. MaxFrames /\ n \in Nat /\ lamai_height \in Int /\ lamai_height <= SmallStack
      /\ Lamai!cur_frame = lamai_frames[n] /\ Lamai!cur_frame \in LamaiFrames
      /\ lamai_ip \in Offsets /\ SmallStack \in Nat
      /\ \A o : Lamai!InCode(o) <=> o \in Offsets
      /\ \A o : Lamai!InCode(o)' <=> o \in Offsets
    BY LamaiSettled
<1>2. CASE Lamai!Fails("failed")
    BY <1>2, LamaiFails
<1>3. CASE Lamai!CanReturn /\ lamai_height' = lamai_height - Lamai!Dropped
    <2>1. Lamai!Dropped \in Nat
        <3>1. /\ Lamai!cur_frame.locals \in Nat /\ Lamai!cur_frame.args \in Nat
              /\ Lamai!cur_frame.closure \in Nat
            BY <1>1 DEF LamaiFrames
        <3> QED
            BY <3>1 DEF Lamai!Dropped
    <2>2. lamai_height' \in -1 .. SmallStack
        BY <1>1, <1>3, <2>1 DEF Lamai!CanReturn, Lamai!CHECK_UNDERFLOW
    <2>3. lamai_status \in {"running", "stopped", "failed", "undefined"}
        BY DEF LamaiInv, Lamai!StaysInStack
    <2>4. CASE lamai_status' = "stopped" /\ lamai_ip' = lamai_ip /\ lamai_frames' = lamai_frames
        BY <1>1, <2>2, <2>4, LamaiSame
    <2>5. CASE /\ n > 1 /\ lamai_ip' = Lamai!cur_frame.ret
               /\ lamai_frames' = SubSeq(lamai_frames, 1, n - 1)
               /\ lamai_status' = lamai_status
        <3>1. n \in 2 .. n /\ n - 1 \in Nat /\ n - 1 \in 1 .. MaxFrames
            BY <1>1, <2>5, FrameBound
        <3>2. Lamai!cur_frame.ret \in Offsets
            BY <1>1, <3>1 DEF LamaiInv
        <3>3. /\ lamai_frames' \in Seq(LamaiFrames) /\ Len(lamai_frames') = n - 1
              /\ \A i \in 1 .. n - 1 : lamai_frames'[i] = lamai_frames[i]
            <4>1. \A i \in 1 .. n - 1 : lamai_frames[i] \in LamaiFrames
                BY <3>1, ElementOfSeq DEF LamaiInv
            <4>2. /\ SubSeq(lamai_frames, 1, n - 1) \in Seq(LamaiFrames)
                  /\ Len(SubSeq(lamai_frames, 1, n - 1)) =
                        IF 1 <= n - 1 THEN (n - 1) - 1 + 1 ELSE 0
                  /\ \A i \in 1 .. (n - 1) - 1 + 1 :
                        SubSeq(lamai_frames, 1, n - 1)[i] = lamai_frames[1 + i - 1]
                BY <3>1, <4>1, SubSeqProperties
            <4> QED
                BY <2>5, <3>1, <4>2
        <3>4. Lamai!StaysInStack'
            <4>1. DOMAIN lamai_frames' = 1 .. n - 1
                BY <3>3
            <4>2. ASSUME NEW i \in 1 .. n - 1 PROVE lamai_frames'[i].base \in -1 .. SmallStack
                <5>1. i \in DOMAIN lamai_frames
                    BY <3>1 DEF LamaiInv
                <5> QED
                    BY <3>3, <5>1 DEF LamaiInv, Lamai!StaysInStack
            <4> QED
                BY <1>1, <2>2, <2>3, <2>5, <3>1, <3>2, <3>3, <4>1, <4>2
                DEF Lamai!StaysInStack, Lamai!InCode, Offsets
        <3>5. (\A i \in 2 .. Len(lamai_frames) : Lamai!InCode(lamai_frames[i].ret))'
            <4>1. ASSUME NEW i \in 2 .. n - 1 PROVE lamai_frames'[i].ret \in Offsets
                <5>1. i \in 2 .. n /\ i \in 1 .. n - 1
                    BY <3>1
                <5> QED
                    BY <1>1, <3>3, <5>1 DEF LamaiInv
            <4> QED
                BY <3>3, <4>1 DEF Lamai!InCode, Offsets
        <3> QED
            BY <3>3, <3>4, <3>5 DEF LamaiInv, LamaiFrames
    <2> QED
        BY <1>3, <2>4, <2>5 DEF Lamai!END, Lamai!Fails
<1> QED
    BY <1>2, <1>3 DEF Lamai!END

LEMMA LamaiStays == LamaiInv /\ Lamai!Next /\ program' = program => LamaiInv'
<1> SUFFICES ASSUME LamaiInv, Lamai!Next, program' = program PROVE LamaiInv'
    OBVIOUS
<1> DEFINE in == Lamai!Insn
<1>1. /\ Shape /\ lamai_ip \in Offsets /\ in = Code(lamai_ip) /\ in \in Instructions
      /\ lamai_height \in -1 .. SmallStack /\ lamai_height \in Int /\ SmallStack \in Nat
      /\ \A o : Lamai!InCode(o) <=> o \in Offsets
    BY LamaiSettled
<1>2. in.op \notin {"STOP", "FAIL", "END", "RET", "JMP"} => lamai_ip + 1 \in Offsets
    <2>1. in.op \notin {"STOP", "FAIL", "END", "RET", "JMP"} =>
            lamai_ip + 1 \in Successors(in, lamai_ip)
        BY DEF Successors
    <2> QED
        BY <1>1, <2>1 DEF Shape
<1>3. lamai_status \in {"running", "stopped", "failed", "undefined"}
    BY DEF LamaiInv, Lamai!StaysInStack
<1>4. CASE Lamai!Plain
    <2>1. in.op \in DOMAIN Lamai!Pops /\ Lamai!Exchange(Lamai!Pops[in.op], Lamai!Pushes[in.op])
        BY <1>4 DEF Lamai!Plain, Lamai!At
    <2>2. Lamai!Pops[in.op] \in Nat /\ Lamai!Pushes[in.op] \in Nat
        BY <2>1 DEF Lamai!Pops, Lamai!Pushes
    <2>3. in.op \notin {"STOP", "FAIL", "END", "RET", "JMP"}
        BY <2>1 DEF Lamai!Pops
    <2> QED
        BY <1>2, <2>1, <2>2, <2>3, LamaiExchanges
<1>5. CASE Lamai!SEXP \/ Lamai!BARRAY
    <2>1. in.op \in {"SEXP", "BARRAY"} /\ Lamai!Exchange(in.n, 1) /\ in.n \in Nat
        BY <1>1, <1>5 DEF Lamai!SEXP, Lamai!BARRAY, Lamai!At, Instructions
    <2> QED
        BY <1>2, <2>1, LamaiExchanges
<1>6. CASE Lamai!JMP
    <2>1. CASE Lamai!Fails("failed")
        BY <2>1, LamaiFails
    <2>2. CASE /\ Lamai!InCode(in.to) /\ lamai_ip' = in.to /\ lamai_height' = lamai_height
               /\ lamai_frames' = lamai_frames /\ lamai_status' = lamai_status
        BY <1>1, <1>3, <2>2, LamaiSame
    <2> QED
        BY <1>6, <2>1, <2>2 DEF Lamai!JMP, Lamai!MAKE_JUMP
<1>7. CASE Lamai!CJMP
    <2>1. CASE Lamai!Exchange(1, 0)
        <3>1. in.op \in {"CJMPZ", "CJMPNZ"}
            BY <1>7 DEF Lamai!CJMP, Lamai!At
        <3> QED
            BY <1>2, <2>1, <3>1, LamaiExchanges
    <2>2. CASE Lamai!Fails("failed")
        BY <2>2, LamaiFails
    <2>3. CASE /\ Lamai!CanPop(lamai_height, 1)
               /\ Lamai!InCode(in.to) /\ lamai_ip' = in.to /\ lamai_height' = lamai_height - 1
               /\ lamai_frames' = lamai_frames /\ lamai_status' = lamai_status
        <3>1. lamai_height' \in -1 .. SmallStack
            BY <1>1, <2>3 DEF Lamai!CanPop, Lamai!CHECK_UNDERFLOW
        <3> QED
            BY <1>1, <1>3, <2>3, <3>1, LamaiSame
    <2> QED
        BY <1>7, <2>1, <2>2, <2>3 DEF Lamai!CJMP, Lamai!MAKE_JUMP
<1>8. CASE Lamai!CLOSURE
    <2>1. CASE Lamai!Fails("failed")
        BY <2>1, LamaiFails
    <2>2. CASE /\ Lamai!CanPush(lamai_height, 1)
               /\ lamai_height' = lamai_height + 1 /\ lamai_ip' = lamai_ip + 1
               /\ lamai_frames' = lamai_frames /\ lamai_status' = lamai_status
        <3>1. lamai_height' \in -1 .. SmallStack
            BY <1>1, <2>2 DEF Lamai!CanPush, Lamai!CHECK_OVERFLOW
        <3>2. in.op = "CLOSURE"
            BY <1>8 DEF Lamai!CLOSURE, Lamai!At
        <3> QED
            BY <1>2, <1>3, <2>2, <3>1, <3>2, LamaiSame
    <2> QED
        BY <1>8, <2>1, <2>2 DEF Lamai!CLOSURE
<1>9. CASE Lamai!CALL
    <2>1. in.op = "CALL" /\ Lamai!Enter(in.to, in.n, 0)
        BY <1>9 DEF Lamai!CALL, Lamai!At
    <2> QED
        BY <1>2, <2>1, LamaiEnters
<1>10. CASE Lamai!CALLC
    <2>1. CASE Lamai!Fails("undefined")
        BY <2>1, LamaiFails
    <2>2. CASE \E c \in lamai_made : Lamai!Enter(c.entry, in.n, 1)
        <3>1. PICK c \in lamai_made : Lamai!Enter(c.entry, in.n, 1)
            BY <2>2
        <3>2. in.op = "CALLC"
            BY <1>10 DEF Lamai!CALLC, Lamai!At
        <3> QED
            BY <1>2, <3>1, <3>2, LamaiEnters
    <2> QED
        BY <1>10, <2>1, <2>2 DEF Lamai!CALLC
<1>11. CASE Lamai!BEGIN
    <2>1. in.op \in {"BEGIN", "CBEGIN"}
        BY <1>11 DEF Lamai!BEGIN, Lamai!At
    <2> QED
        BY <1>2, <1>11, <2>1, LamaiBegins
<1>12. CASE Lamai!END
    BY <1>12, LamaiReturns
<1>13. CASE Lamai!STOP \/ Lamai!FAIL
    BY <1>13, LamaiFails DEF Lamai!STOP, Lamai!FAIL
<1> QED
    BY <1>4, <1>5, <1>6, <1>7, <1>8, <1>9, <1>10, <1>11, <1>12, <1>13 DEF Lamai!Next

-----------------------------------------------------------------------------
(* What hw02's checks would find in code hw04 has accepted                 *)

\* No frame begins under the stack's bottom, its arguments and closure included,
\* and none has been counted more words than there are.
Based(fr) ==
    fr.base - fr.args - fr.closure >= 0 /\ fr.base - Code(fr.fn).n >= 0

LEMMA FrameTyped ==
    ASSUME NEW fr \in FrameSet
    PROVE  /\ fr.fn \in Offsets /\ fr.base \in Int /\ fr.locals \in Nat /\ fr.args \in Nat
           /\ fr.closure \in {0, 1} /\ fr.captured \in Nat /\ fr.ret \in Nat
BY DEF FrameSet

\* If the caller's frame has a bottom, so has the frame of what it called.
LEMMA BasesStack ==
    ASSUME Running, NEW caller \in FrameSet, NEW callee \in FrameSet,
           Suspended(caller, callee), Entered(callee), rel_st_size[callee.ret] > 0,
           Based(caller)
    PROVE  Based(callee)
<1> DEFINE call == callee.ret - 1
<1>1. /\ call \in Offsets /\ Visited(call)
      /\ Code(call).op = IF callee.closure = 0 THEN "CALL" ELSE "CALLC"
      /\ Code(call).n = callee.args /\ callee.args = Code(callee.fn).n
      /\ rel_st_size[call] =
            callee.base - caller.base - caller.locals + Code(caller.fn).n
    BY DEF Suspended, Entered
<1>2. /\ caller.base \in Int /\ caller.locals \in Nat /\ caller.fn \in Offsets
      /\ callee.base \in Int /\ callee.args \in Nat /\ callee.closure \in {0, 1}
      /\ callee.ret \in Nat
    BY FrameTyped
<1>3. call + 1 = callee.ret /\ call + 1 \in Successors(Code(call), call)
    <2>1. Code(call).op \in {"CALL", "CALLC"}
        BY <1>1
    <2>2. call + 1 \in Successors(Code(call), call)
        BY <2>1 DEF Successors, CondJumps
    <2> QED
        BY <1>2, <2>2
<1>4. /\ rel_st_size[call] \in Int
      /\ rel_st_size[callee.ret] = After(Code(call), rel_st_size[call])
    BY <1>1, <1>3, Accepted DEF Running
<1>5. Code(caller.fn).n \in Nat
    BY <1>2 DEF Running, Shape, Instructions
<1>6. After(Code(call), rel_st_size[call]) =
            rel_st_size[call] - callee.args - callee.closure + 1
    <2>1. CASE callee.closure = 0
        BY <1>1, <1>2, <1>4, <2>1 DEF After, AfterCall, Begins, BlockOps
    <2>2. CASE callee.closure = 1
        BY <1>1, <1>2, <1>4, <2>2 DEF After, Begins, BlockOps
    <2> QED
        BY <1>2, <2>1, <2>2
<1>7. rel_st_size[call] - callee.args - callee.closure >= 0
    BY <1>2, <1>4, <1>6
<1>8. caller.base - Code(caller.fn).n >= 0
    BY DEF Based
<1>9. callee.base - callee.args - callee.closure >= 0
    BY <1>1, <1>2, <1>5, <1>7, <1>8
<1>10. callee.base - callee.args >= 0
    BY <1>2, <1>9
<1> QED
    BY <1>1, <1>9, <1>10 DEF Based

LEMMA MainIsBased ==
    ASSUME Running, CallsLeaveTheirResult
    PROVE  Based(frames[1])
<1>1. /\ frames[1].fn = 1 /\ frames[1].base = Globals
      /\ frames[1].args = 0 /\ frames[1].closure = 0
    BY DEF Running, MachineInv, MainFirst
<1>2. Code(1).n <= Globals /\ Code(1).n \in Nat
    BY DEF CallsLeaveTheirResult, Running, Shape, Instructions
<1> QED
    BY <1>1, <1>2, GlobalsIsNatural DEF Based

\* Of the frames without a bottom there would be a lowest, which cannot be main's
\* nor lie on another.
LEMMA AllBased ==
    ASSUME Running, CallsLeaveTheirResult
    PROVE  \A i \in 1 .. Len(frames) : Based(frames[i])
<1> DEFINE Bad == {i \in 1 .. Len(frames) : ~Based(frames[i])}
<1>1. /\ Len(frames) \in Nat /\ frames \in Seq(FrameSet) /\ FramesLinked
    BY RunningHere, FrameBound DEF Running, MachineInv, MachineTyped
<1>2. Bad \in SUBSET Nat
    BY <1>1
<1>3. Bad = {}
    <2> SUFFICES ASSUME Bad # {} PROVE FALSE
        OBVIOUS
    <2>1. PICK i \in Bad : \A j \in Bad : i <= j
        BY <1>2, Least
    <2>2. i \in 1 .. Len(frames) /\ ~Based(frames[i])
        BY <2>1
    <2>3. i # 1
        BY <2>2, MainIsBased
    <2>4. i \in 2 .. Len(frames) /\ i - 1 \in 1 .. Len(frames) /\ ~(i <= i - 1)
        BY <1>1, <2>2, <2>3
    <2>5. Based(frames[i - 1])
        BY <2>1, <2>4
    <2>6. frames[i] \in FrameSet /\ frames[i - 1] \in FrameSet
        BY <1>1, <2>2, <2>4, ElementOfSeq
    <2>7. /\ Suspended(frames[i - 1], frames[i]) /\ Entered(frames[i])
          /\ rel_st_size[frames[i].ret] > 0
        BY <1>1, <2>4 DEF FramesLinked, CallsLeaveTheirResult
    <2> QED
        BY <2>2, <2>5, <2>6, <2>7, BasesStack
<1> QED
    BY <1>3

\* So the stack holds at least the words the verifier has counted.
LEMMA DepthIsThere ==
    ASSUME Running, CallsLeaveTheirResult, Insn.op \notin Begins
    PROVE  height >= rel_st_size[ip]
<1>1. /\ cur_frame = frames[Len(frames)] /\ Len(frames) \in 1 .. MaxFrames
      /\ cur_frame \in FrameSet /\ height \in Int /\ rel_st_size[ip] \in Int
      /\ rel_st_size[ip] =
            height - cur_frame.base - cur_frame.locals + Code(cur_frame.fn).n
    BY RunningHere
<1>2. Len(frames) \in 1 .. Len(frames)
    BY <1>1, FrameBound
<1>3. cur_frame.base - Code(cur_frame.fn).n >= 0
    BY <1>1, <1>2, AllBased DEF Based
<1>4. /\ cur_frame.base \in Int /\ cur_frame.locals \in Nat /\ cur_frame.fn \in Offsets
    BY <1>1 DEF FrameSet
<1>5. Code(cur_frame.fn).n \in Nat
    BY <1>4 DEF Running, Shape, Instructions
<1> QED
    BY <1>1, <1>3, <1>4, <1>5

\* A step of lamav seen as one of lamai's interpreter: the frames as it has them.
LEMMA SeenTyped ==
    ASSUME NEW fs \in Seq(FrameSet)
    PROVE  SeenAll(fs) \in Seq(LamaiFrames) /\ Len(SeenAll(fs)) = Len(fs)
<1>1. Len(fs) \in Nat /\ DOMAIN fs = 1 .. Len(fs)
    BY LenProperties
<1>2. ASSUME NEW i \in 1 .. Len(fs) PROVE SeenAll(fs)[i] \in LamaiFrames
    <2>1. fs[i] \in FrameSet
        BY <1>2, ElementOfSeq
    <2> QED
        BY <1>1, <2>1, FrameTyped DEF SeenAll, Seen, LamaiFrames
<1>3. DOMAIN SeenAll(fs) = 1 .. Len(fs)
    BY <1>1 DEF SeenAll
<1>4. SeenAll(fs) \in [1 .. Len(fs) -> LamaiFrames]
    BY <1>2, <1>3 DEF SeenAll
<1> QED
    BY <1>1, <1>4, <1>3, SeqDef, LenProperties

LEMMA SeenGrows ==
    ASSUME NEW fs \in Seq(FrameSet), NEW fr \in FrameSet
    PROVE  SeenAll(Append(fs, fr)) = Append(SeenAll(fs), Seen(fr))
<1>1. /\ Len(fs) \in Nat /\ DOMAIN fs = 1 .. Len(fs)
      /\ Append(fs, fr) \in Seq(FrameSet) /\ Len(Append(fs, fr)) = Len(fs) + 1
      /\ DOMAIN Append(fs, fr) = 1 .. Len(fs) + 1
      /\ \A i \in 1 .. Len(fs) : Append(fs, fr)[i] = fs[i]
      /\ Append(fs, fr)[Len(fs) + 1] = fr
    BY LenProperties, AppendProperties
<1>2. /\ SeenAll(fs) \in Seq(LamaiFrames) /\ Len(SeenAll(fs)) = Len(fs)
      /\ Seen(fr) \in LamaiFrames
    BY SeenTyped, FrameTyped DEF Seen, LamaiFrames
<1>3. /\ SeenAll(Append(fs, fr)) \in Seq(LamaiFrames)
      /\ Len(SeenAll(Append(fs, fr))) = Len(fs) + 1
    BY <1>1, SeenTyped
<1>4. /\ Append(SeenAll(fs), Seen(fr)) \in Seq(LamaiFrames)
      /\ Len(Append(SeenAll(fs), Seen(fr))) = Len(fs) + 1
      /\ \A i \in 1 .. Len(fs) : Append(SeenAll(fs), Seen(fr))[i] = SeenAll(fs)[i]
      /\ Append(SeenAll(fs), Seen(fr))[Len(fs) + 1] = Seen(fr)
    BY <1>2, AppendProperties
<1>5. ASSUME NEW i \in 1 .. Len(fs) + 1
      PROVE  SeenAll(Append(fs, fr))[i] = Append(SeenAll(fs), Seen(fr))[i]
    <2>1. SeenAll(Append(fs, fr))[i] = Seen(Append(fs, fr)[i])
        BY <1>1 DEF SeenAll
    <2>2. CASE i = Len(fs) + 1
        BY <1>1, <1>4, <2>1, <2>2
    <2>3. CASE i \in 1 .. Len(fs)
        <3>1. SeenAll(fs)[i] = Seen(fs[i])
            BY <1>1, <2>3 DEF SeenAll
        <3> QED
            BY <1>1, <1>4, <2>1, <2>3, <3>1
    <2>4. Len(fs) \in Nat => i = Len(fs) + 1 \/ i \in 1 .. Len(fs)
        BY <1>5
    <2> QED
        BY <1>1, <2>2, <2>3, <2>4
<1> QED
    BY <1>3, <1>4, <1>5, SeqEqual

LEMMA SeenShrinks ==
    ASSUME NEW fs \in Seq(FrameSet), Len(fs) > 1
    PROVE  SeenAll(SubSeq(fs, 1, Len(fs) - 1)) = SubSeq(SeenAll(fs), 1, Len(fs) - 1)
<1>1. Len(fs) \in Nat /\ DOMAIN fs = 1 .. Len(fs)
    BY LenProperties
<1> DEFINE n == Len(fs) - 1
<1>2. /\ n \in Nat /\ 1 .. n \subseteq 1 .. Len(fs)
      /\ SeenAll(fs) \in Seq(LamaiFrames) /\ Len(SeenAll(fs)) = Len(fs)
    BY <1>1, SeenTyped
<1>3. SubSeq(fs, 1, n) = [i \in 1 .. n |-> fs[i]]
    BY <1>1, <1>2
<1>4. SubSeq(SeenAll(fs), 1, n) = [i \in 1 .. n |-> SeenAll(fs)[i]]
    BY <1>1, <1>2
<1>5. SeenAll(SubSeq(fs, 1, n)) = [i \in 1 .. n |-> Seen(fs[i])]
    BY <1>3 DEF SeenAll
<1>6. \A i \in 1 .. n : SeenAll(fs)[i] = Seen(fs[i])
    BY <1>1, <1>2 DEF SeenAll
<1> QED
    BY <1>4, <1>5, <1>6

LEMMA SeenWithLocals ==
    ASSUME NEW fs \in Seq(FrameSet), Len(fs) > 0, NEW locals \in Nat
    PROVE  SeenAll([fs EXCEPT ![Len(fs)].locals = locals]) =
            [SeenAll(fs) EXCEPT ![Len(fs)].locals = locals]
<1>1. Len(fs) \in Nat /\ DOMAIN fs = 1 .. Len(fs) /\ Len(fs) \in DOMAIN fs
    BY LenProperties
<1>2. fs[Len(fs)] \in FrameSet
    BY <1>1, ElementOfSeq
<1>3. Seen([fs[Len(fs)] EXCEPT !.locals = locals]) =
            [Seen(fs[Len(fs)]) EXCEPT !.locals = locals]
    BY <1>2 DEF FrameSet, Seen
<1> DEFINE n == Len(fs)
           after == [fs EXCEPT ![n].locals = locals]
<1>4. /\ DOMAIN after = DOMAIN fs /\ after[n] = [fs[n] EXCEPT !.locals = locals]
      /\ \A i \in DOMAIN fs : i # n => after[i] = fs[i]
    BY <1>1
<1>5. SeenAll(after) = [i \in DOMAIN fs |-> Seen(after[i])]
    BY <1>4 DEF SeenAll
<1>6. SeenAll(fs) = [i \in DOMAIN fs |-> Seen(fs[i])]
    BY DEF SeenAll
<1>7. [SeenAll(fs) EXCEPT ![n].locals = locals] = [i \in DOMAIN fs |-> Seen(after[i])]
    <2> HIDE DEF after, n
    <2>1. ASSUME NEW i \in DOMAIN fs
          PROVE  [SeenAll(fs) EXCEPT ![n].locals = locals][i] = Seen(after[i])
        <3>1. CASE i = n
            BY <1>3, <1>4, <1>6, <3>1 DEF n
        <3>2. CASE i # n
            BY <1>4, <1>6, <3>2
        <3> QED
            BY <3>1, <3>2
    <2> QED
        BY <1>6, <2>1
<1> QED
    BY <1>5, <1>7

\* lamai's interpreter in the state lamav's is in.
LEMMA CheckedHere ==
    ASSUME Running
    PROVE  /\ Checked!Insn = Insn /\ \A ops : Insn.op \in ops => Checked!At(ops)
           /\ \A o \in Offsets : Checked!InCode(o)
           /\ frames \in Seq(FrameSet) /\ Len(SeenAll(frames)) = Len(frames)
           /\ Len(frames) \in Nat /\ Len(frames) > 0
           /\ Checked!cur_frame = Seen(cur_frame)
<1>1. /\ Len(frames) \in 1 .. MaxFrames /\ frames \in Seq(FrameSet)
    BY DEF Running, MachineInv, MachineTyped
<1>2. Len(frames) \in Nat /\ Len(frames) > 0 /\ Len(frames) \in DOMAIN frames
    BY <1>1, FrameBound, LenProperties
<1>3. Len(SeenAll(frames)) = Len(frames)
    BY <1>1, SeenTyped
<1>4. Checked!cur_frame = Seen(cur_frame)
    BY <1>2, <1>3 DEF Checked!cur_frame, SeenAll, cur_frame
<1>5. Checked!Insn = Insn
    BY DEF Checked!Insn, Insn, Code
<1>6. \A ops : Insn.op \in ops => Checked!At(ops)
    BY <1>5 DEF Checked!At, Running
<1>7. \A o \in Offsets : Checked!InCode(o)
    BY DEF Checked!InCode, Offsets
<1> QED
    BY <1>1, <1>2, <1>3, <1>4, <1>5, <1>6, <1>7

LEMMA ExchangeSpared ==
    ASSUME Running, NEW n \in Nat, NEW m \in Nat,
           n > 0 => height - n >= -1, m > 0 => height - n + m - 1 < MaxVstack,
           height' = height - n + m, ip' = ip + 1, UNCHANGED << frames, made, status >>
    PROVE  Checked!Exchange(n, m)
<1>1. Checked!CanPop(height, n)
    BY DEF Checked!CanPop, Checked!CHECK_UNDERFLOW
<1>2. Checked!CanPush(height - n, m)
    BY DEF Checked!CanPush, Checked!CHECK_OVERFLOW
<1> QED
    BY <1>1, <1>2 DEF Checked!Exchange, SeenAll

LEMMA RoomForOne ==
    ASSUME Running, RoomOnStack, Insn.op \notin Begins
    PROVE  /\ height + 1 <= MaxVstack
           /\ Insn.op = "LDA" => height + 2 <= MaxVstack
           /\ Insn.op = "CLOSURE" => height + Len(Insn.locs) <= MaxVstack
<1>1. /\ height \in Int /\ MaxVstack \in Nat /\ Insn \in Instructions
    BY RunningHere, StackSize
<1>2. CASE Insn.op = "CLOSURE"
    <2>1. Len(Insn.locs) \in Int /\ 1 \in Int
        BY <1>1, LenProperties DEF Instructions
    <2>2. Needed(Insn) = Max({1, Len(Insn.locs)})
        BY <1>2 DEF Needed, Begins
    <2> DEFINE captured == Len(Insn.locs)
    <2>3. Max({1, captured}) >= 1 /\ Max({1, captured}) >= captured /\ Max({1, captured}) \in Int
        <3> HIDE DEF captured
        <3> QED
            BY <2>1, MaxOfTwo DEF captured
    <2>4. /\ Needed(Insn) \in Int /\ Needed(Insn) >= 1
          /\ Needed(Insn) >= Len(Insn.locs)
        BY <2>2, <2>3
    <2> QED
        BY <1>1, <1>2, <2>1, <2>4 DEF RoomOnStack
<1>3. CASE Insn.op = "LDA"
    <2>1. Needed(Insn) = 2
        BY <1>3 DEF Needed, Begins
    <2> QED
        BY <1>1, <1>3, <2>1 DEF RoomOnStack
<1>4. CASE Insn.op \notin {"CLOSURE", "LDA"}
    <2>1. Needed(Insn) = 1
        BY <1>4 DEF Needed
    <2> QED
        BY <1>1, <1>4, <2>1 DEF RoomOnStack
<1> QED
    BY <1>2, <1>3, <1>4

LEMMA SimpleSpared ==
    ASSUME Running, CallsLeaveTheirResult, RoomOnStack, RunSimple
    PROVE  Checked!Next
<1> DEFINE op == Insn.op
           d == rel_st_size[ip]
<1>1. /\ op \in SimpleOps \cup LocOps /\ height' = height - Pops[op] + Pushes[op]
      /\ ip' = ip + 1 /\ UNCHANGED << frames, made, status >>
    BY DEF RunSimple, At
<1>2. op \notin Begins \cup BlockOps
    BY <1>1 DEF SimpleOps, LocOps, Begins, BlockOps
<1>3. /\ height \in Int /\ d \in Int /\ height >= d /\ Insn = Code(ip)
      /\ Lowest(Insn, d) >= 0
    BY <1>2, RunningHere, DepthIsThere, AcceptedDepth DEF Running
<1>4. /\ Pops[op] \in Nat /\ Pushes[op] \in Nat /\ Overflow[op] = -Pops[op]
    BY <1>1, TablesAgree
<1>5. height - Pops[op] >= 0
    BY <1>2, <1>3, <1>4 DEF Lowest
<1>6. height - Pops[op] + Pushes[op] - 1 < MaxVstack
    <2>1. Pushes[op] <= Pops[op] + 1 \/ op = "LDA"
        BY <1>1, OneWordMore
    <2>2. op = "LDA" => Pushes[op] = 2 /\ Pops[op] = 0
        BY DEF Pushes, Pops
    <2>3. height + 1 <= MaxVstack /\ (op = "LDA" => height + 2 <= MaxVstack)
        BY <1>2, RoomForOne
    <2> QED
        BY <1>3, <1>4, <2>1, <2>2, <2>3, StackSize
<1>7. Checked!Exchange(Pops[op], Pushes[op])
    BY <1>1, <1>3, <1>4, <1>5, <1>6, ExchangeSpared
<1>8. /\ op \in DOMAIN Checked!Pops
      /\ Checked!Pops[op] = Pops[op] /\ Checked!Pushes[op] = Pushes[op]
    BY <1>1 DEF Checked!Pops, Checked!Pushes, Pops, Pushes, SimpleOps, LocOps
<1> QED
    BY <1>7, <1>8, CheckedHere DEF Checked!Next, Checked!Plain

LEMMA BlockSpared ==
    ASSUME Running, CallsLeaveTheirResult, RoomOnStack, RunBlock
    PROVE  Checked!Next
<1> DEFINE d == rel_st_size[ip]
<1>1. /\ Insn.op \in BlockOps /\ height' = height - Insn.n + 1
      /\ ip' = ip + 1 /\ UNCHANGED << frames, made, status >>
    BY DEF RunBlock, At
<1>2. Insn.op \notin Begins
    BY <1>1 DEF Begins, BlockOps
<1>3. /\ height \in Int /\ d \in Int /\ height >= d /\ Insn = Code(ip)
      /\ Insn \in Instructions /\ Lowest(Insn, d) >= 0
    BY <1>2, RunningHere, DepthIsThere, AcceptedDepth DEF Running
<1>4. Insn.n \in Nat
    BY <1>3 DEF Instructions
<1>5. Lowest(Insn, d) = d - Insn.n + 1
    BY <1>1, <1>2 DEF Lowest, After
<1>6. height - Insn.n >= -1
    BY <1>3, <1>4, <1>5
<1>7. height - Insn.n + 1 - 1 < MaxVstack
    BY <1>2, <1>3, <1>4, RoomForOne, StackSize
<1>8. Checked!Exchange(Insn.n, 1)
    BY <1>1, <1>3, <1>4, <1>6, <1>7, ExchangeSpared
<1> QED
    BY <1>1, <1>8, CheckedHere DEF Checked!Next, Checked!SEXP, Checked!BARRAY, BlockOps

\* A jump of lamav's stays in the function it is in, so that lamai would make it.
LEMMA JumpsAreInCode ==
    ASSUME Running, Insn.op \in {"JMP"} \cup CondJumps
    PROVE  Checked!InCode(Insn.to)
<1>1. ip \in Offsets /\ Insn = Code(ip)
    BY RunningHere
<1>2. Insn.to \in Successors(Insn, ip)
    BY DEF Successors, CondJumps
<1>3. Insn.to \in Offsets
    BY <1>1, <1>2 DEF Running, Shape
<1> QED
    BY <1>3, CheckedHere

LEMMA JumpsSpared ==
    ASSUME Running, CallsLeaveTheirResult, RunJump \/ RunCondJump
    PROVE  Checked!Next
<1>1. CASE RunJump
    <2>1. Insn.op = "JMP" /\ ip' = Insn.to /\ UNCHANGED << height, frames, made, status >>
        BY <1>1 DEF RunJump, At
    <2>2. Checked!MAKE_JUMP(Insn.to, height, SeenAll(frames))
        BY <2>1, JumpsAreInCode DEF Checked!MAKE_JUMP, SeenAll
    <2> QED
        BY <2>1, <2>2, CheckedHere DEF Checked!Next, Checked!JMP
<1>2. CASE RunCondJump
    <2>1. /\ Insn.op \in CondJumps /\ height' = height - 1 /\ ip' \in {Insn.to, ip + 1}
          /\ UNCHANGED << frames, made, status >>
        BY <1>2 DEF RunCondJump, At
    <2>2. Insn.op \notin Begins \cup BlockOps /\ Overflow[Insn.op] = -1
        BY <2>1 DEF Begins, BlockOps, CondJumps, Overflow
    <2>3. /\ height \in Int /\ rel_st_size[ip] \in Int /\ height >= rel_st_size[ip]
          /\ Insn = Code(ip) /\ Lowest(Insn, rel_st_size[ip]) >= 0
        BY <2>2, RunningHere, DepthIsThere, AcceptedDepth DEF Running
    <2>4. height - 1 >= 0
        BY <2>2, <2>3 DEF Lowest
    <2>5. CASE ip' = ip + 1
        <3>1. Checked!Exchange(1, 0)
            BY <2>1, <2>3, <2>4, <2>5, ExchangeSpared
        <3> QED
            BY <2>1, <3>1, CheckedHere DEF Checked!Next, Checked!CJMP, CondJumps
    <2>6. CASE ip' = Insn.to
        <3>1. Checked!CanPop(height, 1)
            BY <2>3, <2>4 DEF Checked!CanPop, Checked!CHECK_UNDERFLOW
        <3>2. Checked!MAKE_JUMP(Insn.to, height - 1, SeenAll(frames))
            BY <2>1, <2>6, JumpsAreInCode DEF Checked!MAKE_JUMP, SeenAll
        <3> QED
            BY <2>1, <3>1, <3>2, CheckedHere DEF Checked!Next, Checked!CJMP, CondJumps
    <2> QED
        BY <2>1, <2>5, <2>6
<1> QED
    BY <1>1, <1>2

LEMMA ClosureSpared ==
    ASSUME Running, RoomOnStack, RunClosure
    PROVE  Checked!Next
<1>1. /\ Insn.op = "CLOSURE"
      /\ made' = made \cup {[entry |-> Insn.to, captured |-> Len(Insn.locs)]}
      /\ height' = height + 1 /\ ip' = ip + 1 /\ UNCHANGED << frames, status >>
    BY DEF RunClosure, At
<1>2. height \in Int /\ Insn \in Instructions
    BY RunningHere
<1>3. height + 1 <= MaxVstack /\ height + Len(Insn.locs) <= MaxVstack
    BY <1>1, RoomForOne DEF Begins
<1>4. Len(Insn.locs) \in Nat
    BY <1>2, LenProperties DEF Instructions
<1>5. Checked!CanPush(height, Len(Insn.locs)) /\ Checked!CanPush(height, 1)
    BY <1>2, <1>3, <1>4, StackSize DEF Checked!CanPush, Checked!CHECK_OVERFLOW
<1> QED
    BY <1>1, <1>5, CheckedHere DEF Checked!Next, Checked!CLOSURE, SeenAll

LEMMA EnterSpared ==
    ASSUME Running, NEW dest \in Offsets, NEW captured \in Nat, NEW closure \in {0, 1},
           Enter(dest, Insn.n, closure, captured)
    PROVE  Checked!Enter(dest, Insn.n, closure)
<1> DEFINE callee == [fn |-> dest, base |-> height, locals |-> 0, args |-> Insn.n,
                      closure |-> closure, captured |-> captured, ret |-> ip + 1]
<1>1. /\ Len(frames) < MaxFrames /\ frames' = Append(frames, callee)
      /\ ip' = dest /\ UNCHANGED << height, made, status >>
    BY DEF Enter
<1>2. callee \in FrameSet
    <2>1. height \in Int /\ ip \in Offsets /\ Insn \in Instructions
        BY RunningHere
    <2> QED
        BY <2>1 DEF FrameSet, Instructions, Offsets
<1>3. Seen(callee) = Checked!Frame(Insn.n, closure)
    BY DEF Seen, Checked!Frame
<1>4. SeenAll(frames') = Append(SeenAll(frames), Checked!Frame(Insn.n, closure))
    BY <1>1, <1>2, <1>3, CheckedHere, SeenGrows
<1>5. Len(SeenAll(frames)) < MaxFrames
    BY <1>1, CheckedHere
<1>6. SeenAll(frames)' = SeenAll(frames')
    BY DEF SeenAll, Seen
<1>7. Checked!MAKE_JUMP(dest, height, Append(SeenAll(frames), Checked!Frame(Insn.n, closure)))
    BY <1>1, <1>4, <1>6, CheckedHere DEF Checked!MAKE_JUMP
<1> QED
    BY <1>5, <1>7 DEF Checked!Enter

LEMMA CallsSpared ==
    ASSUME Running, RunCall \/ RunCallc
    PROVE  Checked!Next
<1>1. Insn = Code(ip) /\ ip \in Offsets
    BY RunningHere
<1>2. CASE RunCall
    <2>1. Insn.op = "CALL" /\ Enter(Insn.to, Insn.n, 0, 0)
        BY <1>2 DEF RunCall, At
    <2>2. [entry |-> Insn.to, captured |-> 0] \in Entries(program)
        BY <1>1, <2>1 DEF Running, Shape
    <2>3. Insn.to \in Offsets
        BY <2>2 DEF Running, Shape
    <2>4. Checked!Enter(Insn.to, Insn.n, 0)
        BY <2>1, <2>3, EnterSpared
    <2> QED
        BY <2>1, <2>4, CheckedHere DEF Checked!Next, Checked!CALL
<1>3. CASE RunCallc
    <2>1. Insn.op = "CALLC"
        BY <1>3 DEF RunCallc, At
    <2>2. ASSUME NEW c \in Applicable, Enter(c.entry, Insn.n, 1, c.captured)
          PROVE  Checked!CALLC
        <3>1. c \in made /\ c \in Entries(program)
            BY <2>2, RunningHere DEF Applicable, ClosuresKnown
        <3>2. c.entry \in Offsets /\ c.captured \in Nat
            <4>1. Shape
                BY DEF Running
            <4>2. c.captured \in Nat
                BY <3>1, <4>1, EntryRecords
            <4> QED
                BY <3>1, <4>1, <4>2 DEF Shape
        <3>3. Checked!Enter(c.entry, Insn.n, 1)
            BY <2>2, <3>2, EnterSpared
        <3> QED
            BY <2>1, <3>1, <3>3, CheckedHere DEF Checked!CALLC
    <2>3. ASSUME status' = "type error", UNCHANGED << ip, height, frames, made >>
          PROVE  Checked!CALLC
        BY <2>1, <2>3, CheckedHere DEF Checked!CALLC, Checked!Fails, SeenAll
    <2> QED
        BY <1>3, <2>2, <2>3 DEF RunCallc, Checked!Next
<1> QED
    BY <1>2, <1>3

LEMMA BeginSpared ==
    ASSUME Running, RoomOnStack, RunBegin
    PROVE  Checked!Next \/ (Insn.op \in Begins /\ status' = "failed")
<1>1. Insn.op \in Begins /\ height' = height + Insn.locals /\ made' = made
    BY DEF RunBegin, At
<1>2. SUFFICES ASSUME frames' = [frames EXCEPT ![Len(frames)].locals = Insn.locals],
                      ip' = ip + 1, status' = status
               PROVE  Checked!Next
    BY <1>1 DEF RunBegin
<1>3. height \in Int /\ Insn \in Instructions /\ Insn.locals \in Nat
    BY RunningHere DEF Instructions
<1>4. Needed(Insn) = Insn.locals + 1
    BY <1>1 DEF Needed
<1>5. Checked!CanAlloc(height, Insn.locals)
    BY <1>3, <1>4, StackSize DEF Checked!CanAlloc, Checked!CHECK_OVERFLOW, RoomOnStack
<1>6. SeenAll(frames') = [SeenAll(frames) EXCEPT ![Len(frames)].locals = Insn.locals]
    BY <1>2, <1>3, CheckedHere, SeenWithLocals
<1>7. SeenAll(frames)' = SeenAll(frames')
    BY DEF SeenAll, Seen
<1> QED
    BY <1>1, <1>2, <1>5, <1>6, <1>7, CheckedHere DEF Checked!Next, Checked!BEGIN, Begins

\* The verifier's demand that only the arguments and the result are left at END is
\* what makes the frame's words all there.
LEMMA ReturnSpared ==
    ASSUME Running, CallsLeaveTheirResult, RunReturn
    PROVE  Checked!Next
<1>1. Insn.op \in Ends /\ height' = height - 1 - Truncated + 1 /\ made' = made
    BY DEF RunReturn, At
<1>2. /\ ip \in Offsets /\ height \in Int /\ Insn = Code(ip) /\ rel_st_size[ip] \in Int
      /\ cur_frame = frames[Len(frames)] /\ cur_frame \in FrameSet
      /\ FunctionAt(ip) = cur_frame.fn /\ Visited(ip)
    BY RunningHere
<1>3. Insn.op = "END"
    BY <1>1, <1>2 DEF Ends, Running, Shape
<1>4. rel_st_size[ip] - 1 = Code(cur_frame.fn).n
    <2>1. VerifierInv /\ Shape /\ verdict = "accepted"
        BY DEF Running
    <2>2. Code(ip).op = "END" /\ Code(ip).op \notin Begins
        BY <1>2, <1>3 DEF Begins
    <2>3. Known(ip, FunctionAt(ip))
        BY <1>2, <2>1, <2>2, Accepted
    <2> QED
        BY <1>2, <2>2, <2>3 DEF Known
<1>5. rel_st_size[ip] = height - cur_frame.base - cur_frame.locals + Code(cur_frame.fn).n
    BY <1>3, RunningHere DEF Begins
<1>6. /\ cur_frame.fn \in Offsets /\ cur_frame.base \in Int /\ cur_frame.locals \in Nat
      /\ cur_frame.args \in Nat /\ cur_frame.closure \in {0, 1}
    BY <1>2, FrameTyped
<1>7. Code(cur_frame.fn).n \in Nat
    BY <1>6 DEF Running, Shape, Instructions
<1>8. cur_frame.base - cur_frame.args - cur_frame.closure >= 0
    <2>1. Len(frames) \in 1 .. Len(frames)
        BY CheckedHere
    <2> QED
        BY <1>2, <2>1, AllBased DEF Based
<1>9. height = cur_frame.base + cur_frame.locals + 1
    <2>1. height \in Int
        BY <1>2
    <2> QED
        BY <1>4, <1>5, <1>6, <1>7, <2>1
<1>10. Checked!Dropped = Truncated /\ Truncated \in Nat
    BY <1>6, CheckedHere DEF Checked!Dropped, Truncated, Seen
<1>11. height - 1 >= -1 /\ height - 1 - Truncated >= -1
    BY <1>6, <1>8, <1>9 DEF Truncated
<1>12. Checked!CanReturn
    BY <1>10, <1>11 DEF Checked!CanReturn, Checked!CanPop, Checked!CHECK_UNDERFLOW
<1>13. height' = height - Truncated
    BY <1>1, <1>2, <1>10
<1>14. CASE Len(frames) = 1 /\ status' = "stopped" /\ UNCHANGED << ip, frames >>
    <2>1. SeenAll(frames)' = SeenAll(frames) /\ Len(SeenAll(frames)) = 1
        BY <1>14, CheckedHere DEF SeenAll
    <2>2. Checked!END
        BY <1>1, <1>3, <1>10, <1>12, <1>13, <1>14, <2>1, CheckedHere DEF Checked!END
    <2> QED
        BY <2>2 DEF Checked!Next
<1>15. CASE /\ Len(frames) > 1 /\ ip' = cur_frame.ret
            /\ frames' = SubSeq(frames, 1, Len(frames) - 1) /\ UNCHANGED status
    <2>1. /\ SeenAll(frames') = SubSeq(SeenAll(frames), 1, Len(SeenAll(frames)) - 1)
          /\ Len(SeenAll(frames)) > 1
        BY <1>15, CheckedHere, SeenShrinks
    <2>2. SeenAll(frames)' = SeenAll(frames')
        BY DEF SeenAll, Seen
    <2>3. ip' = Checked!cur_frame.ret
        BY <1>15, CheckedHere DEF Seen
    <2>4. Checked!END
        BY <1>1, <1>3, <1>10, <1>12, <1>13, <1>15, <2>1, <2>2, <2>3, CheckedHere
        DEF Checked!END
    <2> QED
        BY <2>4 DEF Checked!Next
<1> QED
    BY <1>14, <1>15 DEF RunReturn

LEMMA HaltSpared ==
    ASSUME Running, RunHalt
    PROVE  Checked!Next
<1>1. /\ Insn.op \in {"STOP", "FAIL"}
      /\ status' = IF Insn.op = "STOP" THEN "stopped" ELSE "failed"
      /\ UNCHANGED << ip, height, frames, made >>
    BY DEF RunHalt, At
<1>2. SeenAll(frames)' = SeenAll(frames)
    BY <1>1 DEF SeenAll
<1> QED
    BY <1>1, <1>2, CheckedHere DEF Checked!Next, Checked!STOP, Checked!FAIL, Checked!Fails

LEMMA RunSpared ==
    Inv /\ Run /\ CallsLeaveTheirResult /\ RoomOnStack =>
        Checked!Next \/ (Insn.op \in Begins /\ status' = "failed")
<1> SUFFICES ASSUME Inv, Run, CallsLeaveTheirResult, RoomOnStack
             PROVE  Checked!Next \/ (Insn.op \in Begins /\ status' = "failed")
    OBVIOUS
<1>1. verdict = "accepted" /\ status = "running"
    BY DEF Run, RunSimple, RunBlock, RunJump, RunCondJump, RunClosure, RunCall, RunCallc,
           RunBegin, RunReturn, RunHalt, At
<1>2. Running
    BY <1>1, ProgramShape DEF Inv, VerifierInv, VerifierTyped, Running
<1> QED
    BY <1>2, SimpleSpared, BlockSpared, JumpsSpared, ClosureSpared, CallsSpared,
       BeginSpared, ReturnSpared, HaltSpared DEF Run

-----------------------------------------------------------------------------
(* The theorems                                                            *)

BothInv == Inv /\ LamaiInv

LEMMA BothInitially == BothInit => BothInv
BY InvInitially, LamaiStarts DEF BothInit, BothInv

LEMMA BothStays ==
    BothInv /\ [BothNext]_<< interpreter, vars, lamai_vars >> => BothInv'
<1> SUFFICES ASSUME BothInv, [BothNext]_<< interpreter, vars, lamai_vars >> PROVE BothInv'
    OBVIOUS
<1>1. ASSUME UNCHANGED lamai_vars, program' = program PROVE LamaiInv'
    <2>1. /\ lamai_ip' = lamai_ip /\ lamai_height' = lamai_height
          /\ lamai_frames' = lamai_frames /\ lamai_status' = lamai_status
        BY <1>1 DEF lamai_vars
    <2>2. /\ lamai_ip \in Offsets /\ lamai_height \in -1 .. SmallStack
          /\ lamai_status \in {"running", "stopped", "failed", "undefined"}
        BY <1>1, LamaiSettled DEF BothInv, LamaiInv, Lamai!StaysInStack
    <2> QED
        BY <1>1, <2>1, <2>2, LamaiSame DEF BothInv
<1>2. CASE Next /\ UNCHANGED lamai_vars
    <2>1. program' = program
        BY <1>2 DEF Next, Verify, Reject, Skip, Visit, Judge, verifier
    <2> QED
        BY <1>1, <1>2, <2>1, InvStays DEF BothInv
<1>3. CASE Lamai!Next /\ UNCHANGED vars
    <2>1. program' = program
        BY <1>3 DEF vars, verifier
    <2> QED
        BY <1>3, <2>1, InvStays, LamaiStays DEF BothInv
<1>4. CASE UNCHANGED << interpreter, vars, lamai_vars >>
    <2>1. program' = program
        BY <1>4 DEF vars, verifier
    <2> QED
        BY <1>1, <1>4, <2>1, InvStays DEF BothInv
<1> QED
    BY <1>2, <1>3, <1>4 DEF BothNext

\* For any programs of the compiler's shape, neither interpreter's state is ever
\* but of its type, and lamai's stack height stays within its stack.
THEOREM BothWellTyped == BothSpec => []BothTyped
<1>1. BothInv => BothTyped
    BY InvTyped DEF BothInv, BothTyped, LamaiInv
<1> QED
    BY <1>1, BothInitially, BothStays, PTL DEF BothSpec

\* lamav's interpreter, without a check of its own, meets each instruction with the
\* depth the verifier computed for it, in whatever function and however it came there.
THEOREM VerifierIsSound == BothSpec => []RunsAsVerified
<1>1. BothInv => RunsAsVerified
    BY InvTracks DEF BothInv
<1> QED
    BY <1>1, BothInitially, BothStays, PTL DEF BothSpec

\* What an accepted instruction reads is there, but for the words the tables miss,
\* and so is every location it names.
THEOREM OperandsAreThere == BothSpec => []OperandsExist
<1>1. BothInv => OperandsExist
    BY InvResolves DEF BothInv
<1> QED
    BY <1>1, BothInitially, BothStays, PTL DEF BothSpec

\* The checks hw02 makes and hw04 leaves out would not fail in code that is accepted:
\* while calls leave their results and the stack has room, each step of lamav's
\* interpreter is the one lamai's takes in that state.
THEOREM ChecksAreSpared == BothSpec => ChecksSpared
<1>1. BothInv =>
        (Run /\ CallsLeaveTheirResult /\ RoomOnStack =>
            Checked!Next \/ (Insn.op \in Begins /\ status' = "failed"))
    BY RunSpared DEF BothInv
<1> QED
    BY <1>1, BothInitially, BothStays, PTL DEF BothSpec, ChecksSpared

=============================================================================
