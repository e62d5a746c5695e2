-------------------------- MODULE LamaInterpreter --------------------------
(***************************************************************************)
(* The bytecode interpreter of hw02_lama_bc_interpeter/lamai.  It trusts   *)
(* nobody: each push and pop compares the stack's top with the ends of     *)
(* vstack, each jump its target with the code's.  The virtual stack is its *)
(* height in words, a location or a value what an instruction makes of it; *)
(* a CALLC finds any closure made so far, or no closure at all, and what   *)
(* happens then is "undefined".                                            *)
(***************************************************************************)
EXTENDS Integers, Sequences

CONSTANTS
    MAX_VSTACK_SZ,
    FrameBound     \* bound: the depth of calls, 10000 in the code, where no test is

VARIABLES
    program,
    ip,
    height,        \* __gc_stack_bottom - __gc_stack_top - 1
    frames,        \* the frame stack, main's frame first
    made,          \* the closures made so far
    status         \* "running", "stopped", "failed" or "undefined"

machine == << ip, height, frames, made, status >>

Insn == program.code[ip]
cur_frame == frames[Len(frames)]
InCode(o) == o \in 1 .. Len(program.code)

\* What each instruction pops, and pushes afterwards.
Pops == [CONST |-> 0, STRING |-> 0, STI |-> 2, STA |-> 3, DROP |-> 1, DUP |-> 0,
         SWAP |-> 2, ELEM |-> 2, TAG |-> 1, ARRAY |-> 1, LINE |-> 0, LREAD |-> 0,
         LWRITE |-> 1, LLENGTH |-> 1, LSTRING |-> 1, PATT_STR |-> 2, BINOP |-> 2,
         PATT |-> 1, LD |-> 0, LDA |-> 0, ST |-> 0]
Pushes == [CONST |-> 1, STRING |-> 1, STI |-> 1, STA |-> 1, DROP |-> 0, DUP |-> 1,
           SWAP |-> 2, ELEM |-> 1, TAG |-> 1, ARRAY |-> 1, LINE |-> 0, LREAD |-> 1,
           LWRITE |-> 1, LLENGTH |-> 1, LSTRING |-> 1, PATT_STR |-> 1, BINOP |-> 1,
           PATT |-> 1, LD |-> 1, LDA |-> 2, ST |-> 0]

-----------------------------------------------------------------------------
(* The virtual stack.  POP and TRUNC lower it first and refuse what is more *)
(* than one word under the bottom; PUSH asks for room before it writes, and *)
(* ALLOC after it, for one word more.                                       *)

CHECK_UNDERFLOW(h) == h >= -1
CHECK_OVERFLOW(h) == h < MAX_VSTACK_SZ

CanPop(h, n) == n > 0 => CHECK_UNDERFLOW(h - n)
CanPush(h, n) == n > 0 => CHECK_OVERFLOW(h + n - 1)
CanAlloc(h, n) == CHECK_OVERFLOW(h + n)

-----------------------------------------------------------------------------

At(ops) == status = "running" /\ Insn.op \in ops

Fails(how) == status' = how /\ UNCHANGED << ip, height, frames, made >>

\* n words popped, then m pushed.
Exchange(n, m) ==
    \/ /\ CanPop(height, n) /\ CanPush(height - n, m)
       /\ height' = height - n + m /\ ip' = ip + 1
       /\ UNCHANGED << frames, made, status >>
    \/ /\ ~(CanPop(height, n) /\ CanPush(height - n, m))
       /\ Fails("failed")

Plain == At(DOMAIN Pops) /\ Exchange(Pops[Insn.op], Pushes[Insn.op])

SEXP == At({"SEXP"}) /\ Exchange(Insn.n, 1)
BARRAY == At({"BARRAY"}) /\ Exchange(Insn.n, 1)

MAKE_JUMP(o, h, fs) ==
    \/ InCode(o) /\ ip' = o /\ height' = h /\ frames' = fs /\ UNCHANGED << made, status >>
    \/ ~InCode(o) /\ Fails("failed")

JMP == At({"JMP"}) /\ MAKE_JUMP(Insn.to, height, frames)

CJMP ==
    /\ At({"CJMPZ", "CJMPNZ"})
    /\ \/ Exchange(1, 0)
       \/ CanPop(height, 1) /\ MAKE_JUMP(Insn.to, height - 1, frames)

\* The captured values are pushed one by one, and popped into the closure.
CLOSURE ==
    /\ At({"CLOSURE"})
    /\ \/ /\ CanPush(height, Len(Insn.locs)) /\ CanPush(height, 1)
          /\ made' = made \cup {[entry |-> Insn.to, captured |-> Len(Insn.locs)]}
          /\ height' = height + 1 /\ ip' = ip + 1
          /\ UNCHANGED << frames, status >>
       \/ /\ ~(CanPush(height, Len(Insn.locs)) /\ CanPush(height, 1))
          /\ Fails("failed")

Frame(args, closure) ==
    [base |-> height, locals |-> 0, args |-> args, closure |-> closure, ret |-> ip + 1]

Enter(dest, args, closure) ==
    /\ Len(frames) < FrameBound
    /\ MAKE_JUMP(dest, height, Append(frames, Frame(args, closure)))

CALL == At({"CALL"}) /\ Enter(Insn.to, Insn.n, 0)

\* The word under the arguments is read without a check.
CALLC ==
    /\ At({"CALLC"})
    /\ \/ \E c \in made : Enter(c.entry, Insn.n, 1)
       \/ Fails("undefined")

BEGIN ==
    /\ At({"BEGIN", "CBEGIN"})
    /\ \/ /\ CanAlloc(height, Insn.locals)
          /\ height' = height + Insn.locals /\ ip' = ip + 1
          /\ frames' = [frames EXCEPT ![Len(frames)].locals = Insn.locals]
          /\ UNCHANGED << made, status >>
       \/ ~CanAlloc(height, Insn.locals) /\ Fails("failed")

\* The result is popped, the frame's words are dropped, the result is pushed.
Dropped == cur_frame.locals + cur_frame.args + cur_frame.closure
CanReturn == CanPop(height, 1) /\ CHECK_UNDERFLOW(height - 1 - Dropped)

END ==
    /\ At({"END", "RET"})
    /\ \/ /\ CanReturn /\ height' = height - Dropped
          /\ \/ Len(frames) = 1 /\ status' = "stopped" /\ UNCHANGED << ip, frames >>
             \/ /\ Len(frames) > 1
                /\ ip' = cur_frame.ret /\ frames' = SubSeq(frames, 1, Len(frames) - 1)
                /\ UNCHANGED status
          /\ UNCHANGED made
       \/ ~CanReturn /\ Fails("failed")

STOP == At({"STOP"}) /\ Fails("stopped")

\* Bmatch_failure ends the process, whatever was popped for it.
FAIL == At({"FAIL"}) /\ Fails("failed")

Init(area) ==
    /\ ip = 1 /\ height = area
    /\ frames = << [base |-> area, locals |-> 0, args |-> 0, closure |-> 0, ret |-> 0] >>
    /\ made = {} /\ status = "running"

Next ==
    \/ Plain \/ SEXP \/ BARRAY \/ JMP \/ CJMP \/ CLOSURE \/ CALL \/ CALLC \/ BEGIN
    \/ END \/ STOP \/ FAIL

-----------------------------------------------------------------------------

\* Whatever the code is, a running program's stack lies in vstack, but for the
\* one word under the bottom that the checks do not see.
StaysInStack ==
    /\ height \in -1 .. MAX_VSTACK_SZ
    /\ InCode(ip) /\ Len(frames) \in 1 .. FrameBound
    /\ \A i \in DOMAIN frames : frames[i].base \in -1 .. MAX_VSTACK_SZ
    /\ status \in {"running", "stopped", "failed", "undefined"}

=============================================================================
