---------------------------- MODULE LamaVerifier ----------------------------
(***************************************************************************)
(* The bytecode verifier of hw04_lama_bc_verificator/lamav.  It follows    *)
(* the code from the public entry points depth first, gives every          *)
(* instruction it meets the number of stack words the function has there,  *)
(* its arguments included and its locals not, and keeps each function's    *)
(* lowest and highest number.  The calls of the C++ recursion that are     *)
(* still to be made are the sequence pending.                              *)
(*                                                                         *)
(* An offset is the number of an instruction in the code, an operand the   *)
(* field n, to or locs of its record.                                      *)
(***************************************************************************)
EXTENDS Integers, Sequences, FiniteSetsExt

CONSTANTS
    Programs,    \* what may be loaded: the code and the public entries
    Globals,     \* global_area_size
    Unreached

ASSUME GlobalsIsNatural == Globals \in Nat
ASSUME UnreachedIsNoDepth == Unreached \notin Int

VARIABLES
    program,
    pending,       \* the dispatches still to be made, the next one first
    rel_st_size,   \* bc_data: each instruction's depth, or Unreached
    funs,          \* for each entry dispatched, the BcFunction filled from it
    verdict        \* "verifying", "accepted" or "rejected"

verifier == <<program, pending, rel_st_size, funs, verdict>>

Code(o) == program.code[o]
Offsets == 1 .. Len(program.code)

-----------------------------------------------------------------------------
(* The tables: what an instruction adds to the stack, and how far it pops. *)
(* RET is in neither.                                                      *)

SimpleOps == {"CONST", "STRING", "STI", "STA", "DROP", "DUP", "SWAP", "ELEM",
              "TAG", "ARRAY", "LINE", "LREAD", "LWRITE", "LLENGTH", "LSTRING",
              "PATT_STR", "BINOP", "PATT"}
LocOps == {"LD", "LDA", "ST"}
BlockOps == {"SEXP", "BARRAY"}
CondJumps == {"CJMPZ", "CJMPNZ"}
Begins == {"BEGIN", "CBEGIN"}
Ends == {"END", "RET"}

Delta == [CONST |-> 1, STRING |-> 1, STI |-> -1, STA |-> -2, JMP |-> 0,
          END |-> 0, RET |-> 0, DROP |-> -1, DUP |-> 1, SWAP |-> 0, ELEM |-> -1,
          CJMPZ |-> -1, CJMPNZ |-> -1, CLOSURE |-> 1, CALLC |-> 0, CALL |-> 0,
          TAG |-> 0, ARRAY |-> 0, FAIL |-> -1, LINE |-> 0, LREAD |-> 1,
          LWRITE |-> 0, LLENGTH |-> 0, LSTRING |-> 0, PATT_STR |-> -1,
          BINOP |-> -1, LD |-> 1, LDA |-> 2, ST |-> 0, PATT |-> 0, STOP |-> 0]

Overflow == [CONST |-> 0, STRING |-> 0, STI |-> -2, STA |-> -3, JMP |-> 0,
             END |-> 0, RET |-> 0, DROP |-> -1, DUP |-> 0, SWAP |-> -2, ELEM |-> -2,
             CJMPZ |-> -1, CJMPNZ |-> -1, CLOSURE |-> 0, CALLC |-> 0, CALL |-> 0,
             TAG |-> -1, ARRAY |-> -1, FAIL |-> -1, LINE |-> 0, LREAD |-> 0,
             LWRITE |-> -1, LLENGTH |-> -1, LSTRING |-> -1, PATT_STR |-> -2,
             BINOP |-> -2, LD |-> 0, LDA |-> 0, ST |-> 0, PATT |-> -1, STOP |-> 0]

-----------------------------------------------------------------------------
(* What may be loaded is code of the shape the compiler gives it.  Neither *)
(* its depths nor the locations it names are assumed to be right.          *)

Instructions ==
    [op : DOMAIN Delta \cup BlockOps \cup Begins, n : Nat, to : Nat, locals : Nat,
     locs : Seq([type : {"GLOBAL", "LOCAL", "ARGUMENT", "CAPTURED"}, idx : Nat])]

\* Where control can go from the instruction at o, calls aside.
Successors(in, o) ==
    IF in.op \in {"STOP", "FAIL", "END"} THEN {}
    ELSE IF in.op = "JMP" THEN {in.to}
    ELSE IF in.op \in CondJumps THEN {in.to, o + 1}
    ELSE {o + 1}

\* The function whose code o belongs to: the last BEGIN up to there.
FunctionOf(code, o) ==
    CHOOSE f \in 1 .. o :
        code[f].op \in Begins /\ \A g \in f + 1 .. o : code[g].op \notin Begins

\* Every way into a function, with the number of values captured for it.
Entries(p) ==
    {[entry |-> p.publics[i], captured |-> 0] : i \in DOMAIN p.publics} \cup
    {[entry |-> p.code[o].to, captured |-> 0] :
        o \in {x \in DOMAIN p.code : p.code[x].op = "CALL"}} \cup
    {[entry |-> p.code[o].to, captured |-> Len(p.code[o].locs)] :
        o \in {x \in DOMAIN p.code : p.code[x].op = "CLOSURE"}}

\* Functions one after the other, from BEGIN to END, and never a RET; a jump stays
\* in its function; what is entered is a BEGIN, by a CALL with as many arguments
\* as that declares and with the same number of captured values each time; the
\* first function is main, which is public and names no argument.
Compiled(p) ==
    /\ p.code \in Seq(Instructions) /\ p.publics \in Seq(DOMAIN p.code)
    /\ p.code # << >> /\ p.code[1].op \in Begins
    /\ \E i \in DOMAIN p.publics : p.publics[i] = 1
    /\ \A o \in DOMAIN p.code :
        /\ p.code[o].op # "RET"
        /\ \A s \in Successors(p.code[o], o) :
            /\ s \in DOMAIN p.code /\ p.code[s].op \notin Begins
            /\ FunctionOf(p.code, s) = FunctionOf(p.code, o)
        /\ p.code[o].op = "CALL" => p.code[o].n = p.code[p.code[o].to].n
        /\ FunctionOf(p.code, o) = 1 =>
            \A i \in DOMAIN p.code[o].locs : p.code[o].locs[i].type # "ARGUMENT"
    /\ \A e \in Entries(p) : e.entry \in DOMAIN p.code /\ p.code[e.entry].op \in Begins
    /\ \A e, f \in Entries(p) : e.entry = f.entry => e = f

ASSUME ProgramsAreCompiled == \A p \in Programs : Compiled(p)

-----------------------------------------------------------------------------
(* One dispatch *)

Now == Head(pending)
In == Code(Now.offset)

\* The depth an instruction is marked with, and its successor's.
Here == IF In.op \in Begins THEN 0 ELSE Now.depth

AfterCallWithoutResult(d, args) == d - args
AfterCall(d, args) == d - args + 1

After(in, d) ==
    IF in.op \in Begins THEN in.n
    ELSE IF in.op \in BlockOps THEN d - in.n + 1
    ELSE IF in.op = "CALL" THEN AfterCall(d, in.n)
    ELSE IF in.op = "CALLC" THEN d - in.n
    ELSE d + Delta[in.op]

\* What the instruction contributes to its function's extremes.
Lowest(in, d) == IF in.op \in BlockOps THEN After(in, d) ELSE d + Overflow[in.op]
Highest(in, d) == IF in.op \in BlockOps THEN After(in, d) ELSE d + Delta[in.op]

Entry(o, kind, captured) ==
    [offset |-> o, depth |-> 0, fun |-> o, kind |-> kind, captured |-> captured]

Continue(o) ==
    [offset |-> o, depth |-> After(In, Here), fun |-> Now.fun, kind |-> "next", captured |-> 0]

Following == Continue(Now.offset + 1)

DispatchedPastEnd ==
    CASE In.op = "JMP"      -> << Continue(In.to) >>
      [] OTHER              -> << Following >>

\* The recursive calls the instruction makes, in their order.
Dispatched ==
    CASE In.op \in {"STOP", "FAIL", "END"} -> << >>
      [] In.op = "JMP"      -> << Continue(In.to) >>
      [] In.op \in CondJumps -> << Continue(In.to), Following >>
      [] In.op = "CALL"     -> << Following, Entry(In.to, "call", 0) >>
      [] In.op = "CLOSURE"  -> << Following, Entry(In.to, "closure", Len(In.locs)) >>
      [] OTHER              -> << Following >>

Fresh(captured) ==
    [begin |-> 0, args |-> 0, locals |-> 0, captured |-> captured,
     min_rel_st_size |-> 0, max_rel_st_size |-> 0]

\* An entry brings a function record of its own.
cur_fun == IF Now.kind = "next" THEN funs[Now.fun] ELSE Fresh(Now.captured)

Filled ==
    IF In.op \in Begins
    THEN [cur_fun EXCEPT !.begin = Now.offset, !.args = In.n, !.locals = In.locals]
    ELSE [cur_fun EXCEPT
             !.min_rel_st_size = Min({@, Lowest(In, Here)}),
             !.max_rel_st_size = Max({@, Highest(In, Here)})]

Limit(type) == CASE type = "GLOBAL"   -> Globals
                 [] type = "LOCAL"    -> cur_fun.locals
                 [] type = "ARGUMENT" -> cur_fun.args
                 [] type = "CAPTURED" -> cur_fun.captured

check_locOneOver ==
    \A i \in DOMAIN In.locs : In.locs[i].idx <= Limit(In.locs[i].type)

check_loc == \A i \in DOMAIN In.locs : In.locs[i].idx < Limit(In.locs[i].type)

MarkedUnlessJump ==
    IF In.op = "JMP" THEN rel_st_size ELSE [rel_st_size EXCEPT ![Now.offset] = Here]
Marked == [rel_st_size EXCEPT ![Now.offset] = Here]

Reachable == rel_st_size[Now.offset] # Unreached

\* check_reachable's test, CALL's test of its target, END's of the arguments.
SameDepth == rel_st_size[Now.offset] = Here
TargetBegins == Now.kind = "call" => In.op = "BEGIN"
ArgumentsLeft == In.op = "END" => Here - 1 = cur_fun.args

Verifying == verdict = "verifying" /\ pending # << >>

Reject ==
    /\ Verifying
    /\ \/ ~TargetBegins
       \/ Reachable /\ ~SameDepth
       \/ ~Reachable /\ ~(ArgumentsLeft /\ check_loc)
    /\ verdict' = "rejected"
    /\ UNCHANGED <<program, pending, rel_st_size, funs>>

Skip ==
    /\ Verifying
    /\ TargetBegins /\ Reachable /\ SameDepth
    /\ pending' = Tail(pending)
    /\ UNCHANGED <<program, rel_st_size, funs, verdict>>

Visit ==
    /\ Verifying
    /\ TargetBegins /\ ~Reachable /\ ArgumentsLeft /\ check_loc
    /\ rel_st_size' = Marked
    /\ funs' = [funs EXCEPT ![Now.fun] = Filled]
    /\ pending' = Dispatched \o Tail(pending)
    /\ UNCHANGED <<program, verdict>>

\* main's loop over the functions that met their BEGIN.
UnderflowsAtEnd ==
    \E f \in Offsets : funs[f].begin # 0 /\ funs[f].max_rel_st_size < 0
Underflows == \E f \in Offsets : funs[f].begin # 0 /\ funs[f].min_rel_st_size < 0

Judge ==
    /\ verdict = "verifying" /\ pending = << >>
    /\ verdict' = IF Underflows THEN "rejected" ELSE "accepted"
    /\ UNCHANGED <<program, pending, rel_st_size, funs>>

VerifierInit ==
    /\ program \in Programs
    /\ pending = [i \in DOMAIN program.publics |-> Entry(program.publics[i], "public", 0)]
    /\ rel_st_size = [o \in Offsets |-> Unreached]
    /\ funs = [o \in Offsets |-> Fresh(0)]
    /\ verdict = "verifying"

Verify == Reject \/ Skip \/ Visit \/ Judge

=============================================================================
