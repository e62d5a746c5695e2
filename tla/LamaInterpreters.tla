-------------------------- MODULE LamaInterpreters --------------------------
(***************************************************************************)
(* The two interpreters of Lama's bytecode on the same programs: hw04's    *)
(* runs what its verifier has accepted, hw02's whatever it is given.       *)
(***************************************************************************)
EXTENDS LamaMachine

CONSTANT SmallStack   \* the stack hw02's interpreter has here

\* The interpreter starts by allocating the global area, or it does not start.
ASSUME GlobalsFit == SmallStack \in Nat /\ Globals <= SmallStack

VARIABLES
    interpreter,      \* "lamav" or "lamai": which program runs the code
    lamai_ip, lamai_height, lamai_frames, lamai_made, lamai_status

-----------------------------------------------------------------------------
(* hw02's interpreter on the same programs, accepted or not.               *)

Lamai == INSTANCE LamaInterpreter WITH
    MAX_VSTACK_SZ <- SmallStack, FrameBound <- MaxFrames, ip <- lamai_ip,
    height <- lamai_height, frames <- lamai_frames, made <- lamai_made,
    status <- lamai_status

lamai_vars == << lamai_ip, lamai_height, lamai_frames, lamai_made, lamai_status >>

BothInit == interpreter \in {"lamav", "lamai"} /\ Init /\ Lamai!Init(Globals)

BothNext ==
    /\ UNCHANGED interpreter
    /\ \/ interpreter = "lamav" /\ Next /\ UNCHANGED lamai_vars
       \/ interpreter = "lamai" /\ Lamai!Next /\ UNCHANGED vars

Verifies == interpreter = "lamav" /\ Verify /\ UNCHANGED << interpreter, machine, lamai_vars >>

BothSpec ==
    /\ BothInit /\ [][BothNext]_<< interpreter, vars, lamai_vars >>
    /\ WF_verifier(Verifies)

BothTyped == TypeOK /\ Lamai!StaysInStack

\* The verifier's verdict, when there is to be one.
VerdictOnAll == interpreter = "lamav" => VerdictReached

-----------------------------------------------------------------------------
(* hw04's interpreter as hw02's.                                           *)

\* hw02's frame does not know its function, nor how many values are captured.
Seen(fr) ==
    [base |-> fr.base, locals |-> fr.locals, args |-> fr.args, closure |-> fr.closure,
     ret |-> fr.ret]
SeenAll(fs) == [i \in DOMAIN fs |-> Seen(fs[i])]

Checked == INSTANCE LamaInterpreter WITH
    MAX_VSTACK_SZ <- MaxVstack, FrameBound <- MaxFrames, frames <- SeenAll(frames),
    status <- IF status = "type error" THEN "undefined" ELSE status

\* The result of a call belongs to its caller.  hw04 also accepts a call that takes
\* words its caller does not have, when the caller makes good for them before its
\* end; and main declares two arguments that are never pushed.
CallsLeaveTheirResult ==
    /\ Code(1).n <= Globals
    /\ \A i \in 2 .. Len(frames) : rel_st_size[frames[i].ret] > 0

\* What hw02's PUSH and ALLOC ask for.
Needed(in) ==
    IF in.op \in Begins THEN in.locals + 1
    ELSE IF in.op = "CLOSURE" THEN Max({1, Len(in.locs)})
    ELSE IF in.op = "LDA" THEN 2
    ELSE 1

RoomOnStack == height + Needed(Insn) <= MaxVstack

\* The checks hw04 leaves out would not fail in code it has accepted: while calls
\* leave their results and the stack has room, for which only BEGIN has a test of
\* its own, each step of its interpreter is the step hw02's takes.
ChecksSpared ==
    [][Run /\ CallsLeaveTheirResult /\ RoomOnStack =>
        Checked!Next \/ (Insn.op \in Begins /\ status' = "failed")]_machine

=============================================================================
