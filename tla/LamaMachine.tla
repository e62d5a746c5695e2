---------------------------- MODULE LamaMachine ----------------------------
(***************************************************************************)
(* lamav as a whole: the program is verified, the stack space each         *)
(* function needs is written into its BEGIN, and the interpreter runs the  *)
(* code without checks of its own.  The virtual stack is its height in     *)
(* words; of the values only the closures matter, and the word a CALLC     *)
(* finds is any closure made so far that takes as many arguments: the      *)
(* source language, not the bytecode, says which.                          *)
(***************************************************************************)
EXTENDS LamaVerifier

CONSTANTS
    MaxVstack,   \* MAX_VSTACK_SZ
    MaxFrames    \* bound: the depth of calls

ASSUME StackSize == MaxVstack \in Nat
ASSUME FrameBound == MaxFrames \in Nat \ {0}

VARIABLES
    ip,
    height,      \* the words on the virtual stack
    frames,      \* the frame stack, main's frame first
    made,        \* the closures made so far: their entry and captured values
    status       \* "running", or how the interpreter ended

machine == <<ip, height, frames, made, status>>
vars == <<verifier, machine>>

Insn == Code(ip)
cur_frame == frames[Len(frames)]

\* What an instruction pops, and pushes afterwards.
Pops == [CONST |-> 0, STRING |-> 0, STI |-> 2, STA |-> 3, DROP |-> 1, DUP |-> 0,
         SWAP |-> 2, ELEM |-> 2, TAG |-> 1, ARRAY |-> 1, LINE |-> 0, LREAD |-> 0,
         LWRITE |-> 1, LLENGTH |-> 1, LSTRING |-> 1, PATT_STR |-> 2, BINOP |-> 2,
         PATT |-> 1, LD |-> 0, LDA |-> 0, ST |-> 0]
Pushes == [CONST |-> 1, STRING |-> 1, STI |-> 1, STA |-> 1, DROP |-> 0, DUP |-> 1,
           SWAP |-> 2, ELEM |-> 1, TAG |-> 1, ARRAY |-> 1, LINE |-> 0, LREAD |-> 1,
           LWRITE |-> 1, LLENGTH |-> 1, LSTRING |-> 1, PATT_STR |-> 1, BINOP |-> 1,
           PATT |-> 1, LD |-> 1, LDA |-> 2, ST |-> 0]

\* How many of the topmost words an instruction reads.
Touches(in) ==
    IF in.op \in {"DUP", "ST", "FAIL"} \cup CondJumps \cup Ends THEN 1
    ELSE IF in.op \in SimpleOps \cup LocOps THEN Pops[in.op]
    ELSE IF in.op \in BlockOps \cup {"CALL"} THEN in.n
    ELSE IF in.op = "CALLC" THEN in.n + 1
    ELSE 0

\* The word a location names, counted from the bottom of the stack; in the running
\* closure, from the word behind its entry.
resolve_loc(loc) ==
    CASE loc.type = "GLOBAL"   -> loc.idx + 1
      [] loc.type = "LOCAL"    -> cur_frame.base + 1 + loc.idx
      [] loc.type = "ARGUMENT" -> cur_frame.base + 1 - cur_frame.args + loc.idx
      [] loc.type = "CAPTURED" -> 1 + loc.idx

-----------------------------------------------------------------------------

At(ops) == verdict = "accepted" /\ status = "running" /\ Insn.op \in ops

RunSimple ==
    /\ At(SimpleOps \cup LocOps)
    /\ height' = height - Pops[Insn.op] + Pushes[Insn.op] /\ ip' = ip + 1
    /\ UNCHANGED <<frames, made, status>>

RunBlock ==
    /\ At(BlockOps)
    /\ height' = height - Insn.n + 1 /\ ip' = ip + 1
    /\ UNCHANGED <<frames, made, status>>

RunJump ==
    /\ At({"JMP"})
    /\ ip' = Insn.to
    /\ UNCHANGED <<height, frames, made, status>>

RunCondJump ==
    /\ At(CondJumps)
    /\ height' = height - 1 /\ ip' \in {Insn.to, ip + 1}
    /\ UNCHANGED <<frames, made, status>>

\* The captured values are pushed, and popped into the closure.
RunClosure ==
    /\ At({"CLOSURE"})
    /\ made' = made \cup {[entry |-> Insn.to, captured |-> Len(Insn.locs)]}
    /\ height' = height + 1 /\ ip' = ip + 1
    /\ UNCHANGED <<frames, status>>

Enter(dest, args, closure, captured) ==
    /\ Len(frames) < MaxFrames
    /\ frames' = Append(frames, [fn |-> dest, base |-> height, locals |-> 0, args |-> args,
                                 closure |-> closure, captured |-> captured, ret |-> ip + 1])
    /\ ip' = dest
    /\ UNCHANGED <<height, made, status>>

RunCall == At({"CALL"}) /\ Enter(Insn.to, Insn.n, 0, 0)

Applicable == {c \in made : Code(c.entry).n = Insn.n}

RunCallc ==
    /\ At({"CALLC"})
    /\ \/ \E c \in Applicable : Enter(c.entry, Insn.n, 1, c.captured)
       \/ /\ Applicable = {}
          /\ status' = "type error"
          /\ UNCHANGED <<ip, height, frames, made>>

\* main stores a short at begin + 2, over bits 8 to 23 of the operand args; the
\* interpreter takes the upper half of the result, in place.
Written(args, extra) == (args % 2^8) + (extra % 2^16) * 2^8
stack_bloating(f) == (Written(f.args, f.max_rel_st_size - f.args) \div 2^16) * 2^16

RunBegin ==
    /\ At(Begins)
    /\ height' = height + Insn.locals
    /\ \/ /\ stack_bloating(funs[ip]) > MaxVstack - height'
          /\ status' = "failed"
          /\ UNCHANGED <<ip, frames>>
       \/ /\ stack_bloating(funs[ip]) <= MaxVstack - height'
          /\ frames' = [frames EXCEPT ![Len(frames)].locals = Insn.locals]
          /\ ip' = ip + 1
          /\ UNCHANGED status
    /\ UNCHANGED made

Truncated == cur_frame.locals + cur_frame.args + cur_frame.closure

\* END and RET: the result replaces the locals, the arguments and the closure.
RunReturn ==
    /\ At(Ends)
    /\ height' = height - 1 - Truncated + 1
    /\ \/ /\ Len(frames) = 1
          /\ status' = "stopped"
          /\ UNCHANGED <<ip, frames>>
       \/ /\ Len(frames) > 1
          /\ ip' = cur_frame.ret
          /\ frames' = SubSeq(frames, 1, Len(frames) - 1)
          /\ UNCHANGED status
    /\ UNCHANGED made

RunHalt ==
    /\ At({"STOP", "FAIL"})
    /\ status' = IF Insn.op = "STOP" THEN "stopped" ELSE "failed"
    /\ UNCHANGED <<ip, height, frames, made>>

Run ==
    \/ RunSimple \/ RunBlock \/ RunJump \/ RunCondJump \/ RunClosure
    \/ RunCall \/ RunCallc \/ RunBegin \/ RunReturn \/ RunHalt

Init ==
    /\ VerifierInit
    /\ ip = 1 /\ height = Globals
    /\ frames = << [fn |-> 1, base |-> Globals, locals |-> 0, args |-> 0,
                    closure |-> 0, captured |-> 0, ret |-> 0] >>
    /\ made = {} /\ status = "running"

Next ==
    \/ Verify /\ UNCHANGED machine
    \/ Run /\ UNCHANGED verifier

Spec == Init /\ [][Next]_vars /\ WF_vars(Verify /\ UNCHANGED machine)

-----------------------------------------------------------------------------
(* Properties *)

TypeOK ==
    /\ \A i \in DOMAIN pending : pending[i].offset \in Offsets /\ pending[i].fun \in Offsets
    /\ rel_st_size \in [Offsets -> Int \cup {Unreached}]
    /\ \A f \in Offsets : funs[f].begin \in Offsets \cup {0}
    /\ verdict \in {"verifying", "accepted", "rejected"}
    /\ ip \in Offsets /\ height \in Int
    /\ Len(frames) \in 1 .. MaxFrames
    /\ \A i \in DOMAIN frames : frames[i].fn \in Offsets
    /\ \A c \in made : c.entry \in Offsets
    /\ status \in {"running", "stopped", "failed", "type error"}

InBody == verdict = "accepted" /\ status = "running" /\ Insn.op \notin Begins

\* The words of the running function as the verifier counts them: above its
\* locals, its arguments' number included.
Words(fr) == height - fr.base - fr.locals + funs[fr.fn].args

\* The unchecked interpreter only executes instructions the verifier has seen,
\* each with the number of words the verifier computed for it, whatever calls,
\* jumps and returns lead to it.
RunsAsVerified ==
    /\ verdict = "accepted" => rel_st_size[ip] # Unreached
    /\ InBody => rel_st_size[ip] = Words(cur_frame)

\* What the verifier has computed for one instruction is enough for it: an
\* accepted function takes no word that its caller keeps, and every location it
\* names is one of the globals or of the running frame's own words.  The
\* exceptions: DUP and ST read without popping, S-expressions and arrays are judged
\* by the depth they leave, and the depth a call leaves by the next instruction,
\* which may be an array of nothing.
MayReachBelow(op) ==
    IF op \in {"CALL", "CALLC"} THEN 2
    ELSE IF op \in BlockOps \cup {"DUP", "ST"} THEN 1
    ELSE 0

Block(type) ==
    CASE type = "GLOBAL"   -> 1 .. Globals
      [] type = "LOCAL"    -> cur_frame.base + 1 .. cur_frame.base + cur_frame.locals
      [] type = "ARGUMENT" -> cur_frame.base - cur_frame.args + 1 .. cur_frame.base
      [] type = "CAPTURED" -> 1 .. cur_frame.captured

OperandsExist ==
    InBody =>
        /\ Touches(Insn) <= Words(cur_frame) + MayReachBelow(Insn.op)
        /\ \A i \in DOMAIN Insn.locs :
                resolve_loc(Insn.locs[i]) \in Block(Insn.locs[i].type)

\* The verifier comes to a verdict about every program, loops included.
VerdictReached == <>(verdict # "verifying")

=============================================================================
