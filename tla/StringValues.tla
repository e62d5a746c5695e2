---------------------------- MODULE StringValues ----------------------------
(***************************************************************************)
(* What a string library promises: every object holds a value of its own,  *)
(* copying and moving carry the value over, and only the object that is    *)
(* assigned, moved from or destroyed changes.                              *)
(***************************************************************************)
CONSTANTS Objects, Strings, Empty, Dead, Unspecified

VARIABLE value

Readable(o) == value[o] \notin {Dead, Unspecified}

Make(o) == value[o] = Dead /\ value' = [value EXCEPT ![o] = Empty]

Put(o, s) == value' = [value EXCEPT ![o] = s]

Copy(o, src) == Readable(src) /\ value' = [value EXCEPT ![o] = value[src]]

Move(o, src) ==
    /\ o # src /\ Readable(src)
    /\ value' = [value EXCEPT ![o] = value[src], ![src] = Unspecified]

Destroy(o) == value[o] # Dead /\ value' = [value EXCEPT ![o] = Dead]

Init == value = [o \in Objects |-> Dead]

Next ==
    \E o \in Objects :
        \/ Make(o) \/ Destroy(o)
        \/ \E s \in Strings : Put(o, s)
        \/ \E src \in Objects : Copy(o, src) \/ Move(o, src)

Spec == Init /\ [][Next]_value

=============================================================================
