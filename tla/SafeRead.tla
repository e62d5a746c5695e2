------------------------------- MODULE SafeRead -------------------------------
(***************************************************************************)
(* safe_read_uint8t of hw09_read_byte/test.cpp: it reads a byte that may   *)
(* not be there, with handlers of its own for SIGSEGV and SIGBUS while it  *)
(* does.  One call runs at a time; between its steps the rest of the       *)
(* process, an unrelated signal's handler say, may fault on its own        *)
(* account, at the address of this read, of an earlier one or at another.  *)
(***************************************************************************)
Signals == {"SIGSEGV", "SIGBUS"}
ItsOwn == {"default", "ignore", "user"}
Dispositions == ItsOwn \cup {"safe_read_handler"}

\* One address of each kind: of a byte, null, 1, which like null is in no page, of
\* a page behind the end of its file, and one that is not canonical on x86_64.
\* Null and 1 are what SIG_DFL and SIG_IGN are as addresses.
Addresses == {"byte", "null", "one", "truncated", "noncanonical"}
Elsewhere == "elsewhere"    \* any other address, which no call reads
Readable(p) == p = "byte"
Raises(p) == IF p = "truncated" THEN "SIGBUS" ELSE "SIGSEGV"
nullopt == "nullopt"
NoTarget == "none"

VARIABLES
    pc,             \* "client", or where the call is
    address,        \* the call's argument
    result,         \* the call's result so far; the last one's between calls
    target,
    prev,           \* prev_sigsegv_handler and prev_sigbus_handler
    disposition,    \* the process's
    found,          \* history: the dispositions when the last call began, or
                    \* that the process has arranged since
    former,         \* history: the target when the last call began
    mistaken,       \* history: in this call or the last one, a fault of the rest
                    \* of the process was taken for the read's
    process         \* "running", or whose fault ended it

call == << pc, address, result >>
history == << found, former, mistaken >>
vars == << call, target, prev, disposition, history, process >>

Go(from, to) == process = "running" /\ pc = from /\ pc' = to

\* For these the kernel gives the handler no address: si_addr is null.
BetweenSegments(p) == p = "noncanonical"
si_addr(p) == IF BetweenSegments(p) THEN "null" ELSE p

\* Between calls the process may arrange for its signals anew.
Arrange(sig, d) ==
    /\ Go("client", "client")
    /\ disposition' = [disposition EXCEPT ![sig] = d] /\ found' = disposition'
    /\ UNCHANGED << address, result, target, prev, former, mistaken, process >>

Call(p) ==
    /\ Go("client", IF BetweenSegments(p) THEN "client" ELSE "SIGSEGV")
    /\ address' = p /\ result' = nullopt
    /\ found' = disposition /\ former' = target /\ mistaken' = FALSE
    /\ UNCHANGED << target, prev, disposition, process >>

\* sigaction(sig, &cur_handler, &prev_sig_handler)
Register(sig, next) ==
    /\ Go(sig, next)
    /\ prev' = [prev EXCEPT ![sig] = disposition[sig]]
    /\ disposition' = [disposition EXCEPT ![sig] = "safe_read_handler"]
    /\ UNCHANGED << address, result, target, history, process >>

NewTarget == address

SetTarget ==
    /\ Go("target", "read")
    /\ target' = NewTarget
    /\ UNCHANGED << address, result, prev, disposition, history, process >>

\* A bug: any fault is taken for the one that is waited for.
AnyFault(p) == TRUE

Expected(p) == target = p

\* What deals with a fault at p: the process's own handler, the jump back into
\* the call, or nothing, and it is fatal.  safe_read_handler calls the saved
\* sa_sigaction whatever it is; a call of SIG_DFL is a SIGSEGV at null, one of
\* SIG_IGN at 1, and a signal is blocked in its own handler.
Segv(p) ==
    IF disposition["SIGSEGV"] # "safe_read_handler" THEN disposition["SIGSEGV"]
    ELSE IF Expected(p) THEN "jump"
    ELSE prev["SIGSEGV"]
Bus(p) ==
    IF disposition["SIGBUS"] # "safe_read_handler" THEN disposition["SIGBUS"]
    ELSE IF Expected(p) THEN "jump"
    ELSE IF prev["SIGBUS"] = "default" THEN Segv("null")
    ELSE IF prev["SIGBUS"] = "ignore" THEN Segv("one")
    ELSE prev["SIGBUS"]
DealtWithBy(sig, p) ==
    LET handler == IF sig = "SIGSEGV" THEN Segv(p) ELSE Bus(p)
    IN  IF handler \in {"user", "jump"} THEN handler ELSE "killed"

\* siglongjmp(buf, 1)
Jump == pc' = "dereg SIGSEGV" /\ result' = nullopt /\ UNCHANGED << address, process >>

\* res = *p
Read ==
    /\ process = "running" /\ pc = "read"
    /\ IF Readable(address)
       THEN /\ pc' = "dereg SIGSEGV" /\ result' = address
            /\ UNCHANGED << address, process >>
       ELSE IF DealtWithBy(Raises(address), si_addr(address)) = "jump" THEN Jump
            ELSE process' = "read" /\ UNCHANGED call
    /\ UNCHANGED << target, prev, disposition, history >>

\* The rest of the process may fault at any address: at a byte it may not write,
\* at one that is read here too.
MayFault(sig, p) == p = Elsewhere \/ sig = Raises(p)

\* One that the process's own handler deals with changes nothing.
Fault(sig, p) ==
    /\ process = "running" /\ MayFault(sig, p)
    /\ \/ /\ DealtWithBy(sig, si_addr(p)) = "jump"
          /\ Jump /\ mistaken' = TRUE
       \/ /\ DealtWithBy(sig, si_addr(p)) = "killed"
          /\ process' = "elsewhere" /\ UNCHANGED << call, mistaken >>
    /\ UNCHANGED << target, prev, disposition, found, former >>

\* sigaction(sig, &prev_sig_handler, NULL)
Deregister(sig, from, next) ==
    /\ Go(from, next)
    /\ disposition' = [disposition EXCEPT ![sig] = prev[sig]]
    /\ UNCHANGED << address, result, target, prev, history, process >>

Init ==
    /\ found \in [Signals -> ItsOwn]
    /\ disposition = found
    /\ prev = [sig \in Signals |-> "default"]
    /\ pc = "client" /\ address = "byte" /\ result = "byte" /\ target = NoTarget
    /\ former = NoTarget /\ mistaken = FALSE /\ process = "running"

\* A bug: SIGBUS keeps the handler.
DeregisterSegvOnly == Deregister("SIGSEGV", "dereg SIGSEGV", "client")
DeregisterBoth ==
    \/ Deregister("SIGSEGV", "dereg SIGSEGV", "dereg SIGBUS")
    \/ Deregister("SIGBUS", "dereg SIGBUS", "client")

Next ==
    \/ \E sig \in Signals, d \in ItsOwn : Arrange(sig, d)
    \/ \E p \in Addresses : Call(p)
    \/ Register("SIGSEGV", "SIGBUS") \/ Register("SIGBUS", "target")
    \/ SetTarget \/ Read \/ DeregisterBoth
    \/ \E sig \in Signals, p \in Addresses \cup {Elsewhere} : Fault(sig, p)

Spec == Init /\ [][Next]_vars

-----------------------------------------------------------------------------
(* Properties *)

\* test.cpp:74-81: a call returns the byte if there is one, and otherwise
\* nullopt, whatever the process does with the signals and whatever was read
\* before; the read itself never ends the process.  A fault of the rest of the
\* process that was taken for the read's can make the answer nullopt, no other
\* byte.  test.cpp:95: between calls both signals are handled as before the call,
\* SIGSEGV even after such a fault; SIGBUS may then have got a disposition that an
\* earlier call has saved.
ReadsSafely ==
    /\ pc = "client" => result = IF Readable(address) /\ ~mistaken THEN address ELSE nullopt
    /\ process # "read"
    /\ pc = "client" => disposition["SIGSEGV"] = found["SIGSEGV"]
    /\ pc = "client" /\ ~mistaken => disposition = found

\* Where a fault is the read's by its address: the read's own, and before the
\* target is set that of the call before.
Sought ==
    IF pc \in {"SIGSEGV", "SIGBUS", "target"} THEN {former}
    ELSE IF pc = "read" THEN {address}
    ELSE {address, former}

\* The handler that deals with a SIGBUS calls SIG_DFL, or SIG_IGN, where it was
\* the process's disposition, and that is a fault at null, or at 1.
CalledAddress == IF found["SIGBUS"] = "default" THEN "null" ELSE "one"

\* Whatever fault the rest of the process causes at any moment of a call, at
\* another address than is sought: it reaches the process's handler of its
\* signal, and a fatal SIGSEGV stays fatal.  A SIGBUS the process has no handler
\* for is fatal too, but for the case that the address the handler calls is sought.
\* At an address that is sought a fault may be mistaken: target is that of the
\* last read until it is set anew, and after the read until the handlers are gone.
FaultsElsewhereHandedOver ==
    pc # "client" =>
        \A sig \in Signals, p \in Addresses \cup {Elsewhere} :
            MayFault(sig, p) /\ si_addr(p) \notin Sought =>
                LET by == DealtWithBy(sig, si_addr(p))
                IN  IF found[sig] = "user" THEN by = "user"
                    ELSE \/ by = "killed"
                         \/ sig = "SIGBUS" /\ CalledAddress \in Sought
                         \/ sig = "SIGBUS" /\ found["SIGSEGV"] = "user" /\ by = "user"

-----------------------------------------------------------------------------
(* The inductive invariant.                                                *)

Locations == {"client", "SIGSEGV", "SIGBUS", "target", "read", "dereg SIGSEGV", "dereg SIGBUS"}

TypeOK ==
    /\ pc \in Locations
    /\ address \in Addresses /\ result \in Addresses \cup {nullopt}
    /\ target \in Addresses \cup {NoTarget} /\ former \in Addresses \cup {NoTarget}
    /\ prev \in [Signals -> ItsOwn] /\ disposition \in [Signals -> Dispositions]
    /\ found \in [Signals -> ItsOwn]
    /\ mistaken \in BOOLEAN /\ process \in {"running", "read", "elsewhere"}

\* The signal has the call's handler, and what was there before is saved.
Installed(sig) == disposition[sig] = "safe_read_handler" /\ prev[sig] = found[sig]
AsFound(sig) == disposition[sig] = found[sig]

\* A jump from between the two registrations, or from between the two
\* restorings, has the restorings done with one of the handlers not in place.
SegvInPlace ==
    CASE pc \in {"client", "SIGSEGV"}          -> AsFound("SIGSEGV")
      [] pc \in {"SIGBUS", "target", "read"}   -> Installed("SIGSEGV")
      [] pc = "dereg SIGSEGV"                  ->
            Installed("SIGSEGV") \/ (AsFound("SIGSEGV") /\ prev["SIGSEGV"] = found["SIGSEGV"])
      [] OTHER                                 ->
            AsFound("SIGSEGV") /\ prev["SIGSEGV"] = found["SIGSEGV"]
BusInPlace ==
    CASE pc = "client"                         ->
            /\ mistaken \/ AsFound("SIGBUS")
            /\ disposition["SIGBUS"] # "safe_read_handler"
      [] pc \in {"SIGSEGV", "SIGBUS"}          -> AsFound("SIGBUS")
      [] pc \in {"target", "read"}             -> Installed("SIGBUS")
      [] OTHER                                 ->
            Installed("SIGBUS") \/ (mistaken /\ AsFound("SIGBUS"))

\* The target is one of the addresses that are sought.
TargetIsSought == pc # "client" => target \in Sought

\* A call that does anything is about an address the kernel reports.
ReadIsCanonical == pc # "client" => ~BetweenSegments(address)

\* A fault that was taken for the read's ended the read.
JumpsEndReads == pc \in {"SIGSEGV", "SIGBUS", "target", "read"} => ~mistaken

ResultStands ==
    pc \in {"client", "dereg SIGSEGV", "dereg SIGBUS"} =>
        result = IF Readable(address) /\ ~mistaken THEN address ELSE nullopt

IInv ==
    /\ TypeOK /\ SegvInPlace /\ BusInPlace /\ TargetIsSought /\ ReadIsCanonical
    /\ JumpsEndReads /\ ResultStands /\ process # "read"

=============================================================================
