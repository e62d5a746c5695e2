------------------------------ MODULE LamaStore ------------------------------
(***************************************************************************)
(* What Lama values promise: objects with an identity that live as long as *)
(* something refers to them and change only by an assignment.  Nothing is  *)
(* ever moved or collected; an object that nothing refers to is forgotten. *)
(*                                                                         *)
(* A value is an odd integer as in HeapLayout, 2 * id for the object id,   *)
(* or a negative even number for the address of one of its words.          *)
(***************************************************************************)
EXTENDS HeapLayout, SequencesExt, FiniteSets, TLC

CONSTANTS
    Words,      \* the integers, boxed, that programs use
    Chunks,     \* the contents of strings, four characters in a word
    Heads       \* tags and entries

VARIABLES
    operands,   \* the stack of values, the top first
    objects,    \* from identities to [header, body]
    count       \* objects made so far

Reference(id) == 2 * id
IsReference(v) == v > 0 /\ ~UNBOXED(v)
Identity(v) == v \div 2
Place(id, k) == -2 * (8 * id + k)
IsPlace(v) == v < 0 /\ ~UNBOXED(v)
PlaceOf(v) == [id |-> ((-v) \div 2) \div 8, k |-> ((-v) \div 2) % 8]

Has(v, tag) == IsReference(v) /\ TAG(objects[Identity(v)].header) = tag
Object(v) == objects[Identity(v)]

\* The entries of an object's body that are values.
FirstValue(object) ==
    CASE TAG(object.header) = STRING_TAG             -> Len(object.body) + 1
      [] TAG(object.header) \in {SEXP_TAG, CLOSURE_TAG} -> 2
      [] OTHER                                       -> 1
ValueEntries(object) == FirstValue(object) .. Len(object.body)

Identities(values) ==
    {Identity(v) : v \in {w \in values : IsReference(w)}} \cup
    {PlaceOf(v).id : v \in {w \in values : IsPlace(w)}}

\* The objects that the values of s reach.
Live(s, objs) ==
    LET Reached[n \in 0 .. Cardinality(DOMAIN objs)] ==
            IF n = 0
            THEN Identities(ToSet(s)) \cap DOMAIN objs
            ELSE Reached[n - 1] \cup
                 UNION {Identities({objs[id].body[k] : k \in ValueEntries(objs[id])}) :
                            id \in Reached[n - 1]}
        live == Reached[Cardinality(DOMAIN objs)]
    IN  [id \in live |-> objs[id]]

Become(s, objs) ==
    /\ operands' = s
    /\ objects' = Live(s, objs)

Below(n) == SubSeq(operands, n + 1, Len(operands))

\* A new object takes the place of the top n values.
New(n, header, body) ==
    /\ count' = count + 1
    /\ Become(<< Reference(count') >> \o Below(n),
              count' :> [header |-> header, body |-> body] @@ objects)

Arguments(n) == Reverse(SubSeq(operands, 1, n))

StringObject(n, chunks) ==
    New(n, DataHeader(STRING_TAG, WordBytes * Len(chunks)), Append(chunks, 0))
Text(v) == Front(Object(v).body)

-----------------------------------------------------------------------------
Push(w) == Become(<< w >> \o operands, objects) /\ UNCHANGED count
Copy(i) == i \in DOMAIN operands /\ Push(operands[i])
Overwrite(i) ==
    /\ i \in DOMAIN operands
    /\ Become([operands EXCEPT ![i] = operands[1]], objects)
    /\ UNCHANGED count
Drop == operands # << >> /\ Become(Below(1), objects) /\ UNCHANGED count

Element ==
    /\ operands # << >> /\ IsReference(operands[1])
    /\ \E k \in ValueEntries(Object(operands[1])) :
          Become(<< Object(operands[1]).body[k] >> \o Below(1), objects)
    /\ UNCHANGED count

\* The value on the top is assigned to an entry of the object below it ...
AssignElement ==
    /\ Len(operands) > 1 /\ IsReference(operands[2])
    /\ \E k \in ValueEntries(Object(operands[2])) :
          Become(<< operands[1] >> \o Below(2),
                 [objects EXCEPT ![Identity(operands[2])].body[k] = operands[1]])
    /\ UNCHANGED count

\* ... or to the place whose address is below it twice.
CapturedPlace(i) ==
    /\ i \in DOMAIN operands /\ Has(operands[i], CLOSURE_TAG)
    /\ \E k \in ValueEntries(Object(operands[i])) :
          LET place == Place(Identity(operands[i]), k - 1)
          IN  Become(<< place, place >> \o operands, objects)
    /\ UNCHANGED count
AssignPlace ==
    /\ Len(operands) > 2 /\ IsPlace(operands[2]) /\ operands[2] = operands[3]
    /\ LET place == PlaceOf(operands[3])
       IN  Become(<< operands[1] >> \o Below(3),
                  [objects EXCEPT ![place.id].body[place.k + 1] = operands[1]])
    /\ UNCHANGED count

MakeArray(n) == n <= Len(operands) /\ New(n, DataHeader(ARRAY_TAG, n), Arguments(n))
MakeSexp(n) ==
    /\ n <= Len(operands)
    /\ \E tag \in Heads : New(n, DataHeader(SEXP_TAG, n), << tag >> \o Arguments(n))
MakeClosure(n) ==
    /\ n <= Len(operands)
    /\ \E entry \in Heads : New(n, DataHeader(CLOSURE_TAG, n + 1), << entry >> \o Arguments(n))
MakeString == \E c \in Chunks : StringObject(0, << c >>)

\* The string that shows a value; what it says is no concern of this module.
Show == operands # << >> /\ \E c \in Chunks : StringObject(1, << c >>)

Clone ==
    /\ operands # << >> /\ IsReference(operands[1])
    /\ New(1, Object(operands[1]).header, Object(operands[1]).body)
Concatenate ==
    /\ Len(operands) > 1 /\ \A i \in 1 .. 2 : Has(operands[i], STRING_TAG)
    /\ StringObject(2, Text(operands[2]) \o Text(operands[1]))
Substring ==
    /\ operands # << >> /\ Has(operands[1], STRING_TAG)
    /\ LET text == Text(operands[1])
       IN  \E i \in 0 .. Len(text) : \E j \in i .. Len(text) :
              StringObject(1, SubSeq(text, i + 1, j))
MakeCons ==
    /\ Len(operands) > 1
    /\ \E tag \in Heads : New(2, DataHeader(SEXP_TAG, 2), << tag >> \o Arguments(2))

Init == operands = << >> /\ objects = << >> /\ count = 0

Next ==
    \/ \E w \in Words : Push(w)
    \/ \E i \in DOMAIN operands : Copy(i) \/ Overwrite(i) \/ CapturedPlace(i)
    \/ Drop \/ Element \/ AssignElement \/ AssignPlace
    \/ \E n \in 0 .. Len(operands) : MakeArray(n) \/ MakeSexp(n) \/ MakeClosure(n)
    \/ MakeString \/ Show \/ Clone \/ Concatenate \/ Substring \/ MakeCons

Spec == Init /\ [][Next]_<< operands, objects, count >>

=============================================================================
