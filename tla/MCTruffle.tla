------------------------------ MODULE MCTruffle ------------------------------
(***************************************************************************)
(* Lama programs for TLC.                                                  *)
(***************************************************************************)
EXTENDS LamaTruffle

Write(site, e) == Call(site, "write", << e >>)
Nested(defs, e) == Scope(defs, << >>, e)
Less(a, b) == BinopNode("<", a, b)
Plus(a, b) == BinopNode("+", a, b)
SkipScope == Nested(<< >>, Skip)

\* The function's argument is n, x is global, g global or the function's own.
\* Each place has call nodes of its own.
Statements(place) ==
    LET site(k) == 10 * place + k
        recurse == Call(site(1), "f", << Plus(Read("n"), Neg(Const(1))) >>)
        when(defs, e) == If(Read("n"), Nested(defs, e), SkipScope)
        i == Read("i")
    IN  {Write(site(2), Read("x")),
         Assign(RefVar("x"), Plus(Read("x"), Read("n"))),
         when(<< Def("x", Read("n")) >>, recurse),
         when(<< Def("y", Read("x")) >>, Seq2(recurse, Write(site(2), Read("y")))),
         Call(site(3), "h", << >>),
         Call(site(4), "g", << Read("n") >>),
         when(<< >>, Seq2(recurse, Call(site(4), "g", << Read("n") >>))),
         Case(ArrCreate(<< Read("n"), Read("x") >>),
              << ArrayPattern(<< IntPattern(0), BindPattern("a", Wildcard) >>),
                 BindPattern("b", ArrayPattern(<< Wildcard, BindPattern("x", Wildcard) >>)) >>,
              << Nested(<< >>, Write(site(5), Read("a"))),
                 Nested(<< >>, Seq2(recurse, Write(site(6), Index(Read("b"), Const(1))))) >>),
         For(Nested(<< Def("i", Const(0)) >>, Skip), createBinop(">", Read("n"), i),
             Assign(RefVar("i"), Plus(i, Const(1))), Nested(<< Def("z", i) >>, Write(site(7), Read("z")))),
         DoWhile(Less(Read("z"), Const(2)),
                 Nested(<< Def("z", Plus(Read("x"), Read("n"))) >>,
                        Seq2(Assign(RefVar("x"), Plus(Read("x"), Const(1))), Write(site(8), Read("z"))))),
         Nested(<< Def("a", ArrCreate(<< Read("n"), Read("x") >>)) >>,
                Seq2(Assign(WeakArr(RefVar("a"), Const(0)), Call(site(9), "length", << Read("a") >>)),
                     Write(site(0), Index(Read("a"), Const(0))))),
         Assign(RefIf(Read("n"), RefVar("n"), RefVar("x")), Const(0))}

Own == createFunDef("g", << "k" >>,
           Nested(<< >>, Seq2(Write(31, Plus(Read("k"), Read("n"))),
                              If(Read("k"), Nested(<< >>, Call(32, "g", << Plus(Read("k"), Neg(Const(1))) >>)),
                                 SkipScope))))
Global == createFunDef("g", << "k" >>, Nested(<< >>, Write(33, Read("k"))))
Helper == createFunDef("h", << >>, Nested(<< >>, Write(41, Read("x"))))

Programs(body, own, global) ==
    LET f == createFunDef("f", << "n" >>, Scope(<< >>, own, body))
    IN  Scope(<< Def("x", Const(1)) >>, << Helper >> \o global \o << f >>,
              Seq2(Call(51, "f", << Const(2) >>), Write(52, Read("x"))))

RecursivePrograms ==
    {Programs(Seq2(a, b), own[1], own[2]) : a \in Statements(1), b \in Statements(2),
        own \in {<< << >>, << Global >> >>, << << Own >>, << >> >>, << << Own >>, << Global >> >>}}

-----------------------------------------------------------------------------
(* Values taken apart by patterns: a literal, and a pattern made from the  *)
(* same or another one by naming some of its parts.                        *)

Numbers == {Const(0), Const(1)}
Holding(parts) ==
    {Make(k[1], k[2], s) : k \in {<< "array", "" >>, << "sexp", "A" >>, << "sexp", "B" >>, << "list", "" >>},
                           s \in parts}
Literals ==
    LET small == Holding({<< >>, << Const(0) >>})
        inner == {e \in small : e.kind = "list" \/ (e.ident # "B" /\ e.parts # << >>)}
    IN  Numbers \cup small \cup Holding({<< a, Const(0) >> : a \in Numbers}) \cup
        Holding({<< Const(1), e >> : e \in inner})

Rest(e) == [e EXCEPT !.parts = Tail(@)]

\* The name of a part is its place.
RECURSIVE PatternsOf(_, _)
PatternsOf(e, place) ==
    LET Of(s, i) == PatternsOf(s[i], 3 * place + i)
        Each(s) == {t \in [DOMAIN s -> UNION {Of(s, i) : i \in DOMAIN s}] :
                        \A i \in DOMAIN s : t[i] \in Of(s, i)}
        Conses(s) == IF s = << >> THEN {}
                     ELSE {ConsPattern(h, t) : h \in Of(s, 1),
                                               t \in PatternsOf(Rest(e), 3 * place + 2)}
    IN  {BindPattern(place, Wildcard)} \cup
        IF e.node = "int" THEN {IntPattern(e.value)}
        ELSE CASE e.kind = "array" -> {ArrayPattern(s) : s \in Each(e.parts)}
               [] e.kind = "sexp"  -> {SexpPattern(e.ident, s) : s \in Each(e.parts)}
               [] e.kind = "list"  -> {ListPattern(s) : s \in Each(e.parts)} \cup Conses(e.parts) \cup
                                      {BindPattern(place, c) : c \in Conses(e.parts)}

RECURSIVE Rebuild(_)
Rebuild(p) ==
    LET parts == [i \in DOMAIN p.subs |-> Rebuild(p.subs[i])]
    IN  CASE p.pattern = "bind"  -> Read(p.sym)
          [] p.pattern = "int"   -> Const(p.x)
          [] p.pattern = "array" -> ArrCreate(parts)
          [] p.pattern = "sexp"  -> SexprCreate(p.ident, parts)
          [] p.pattern = "list"  -> ListCreate(parts)
          [] p.pattern = "cons"  -> ListCons(parts[1], parts[2])

CasePrograms ==
    LET patterns == UNION {PatternsOf(e, 1) : e \in Literals}
    IN  {Nested(<< >>, Case(e, << p, Wildcard >>,
                            << Nested(<< >>, Rebuild(p)), Nested(<< >>, Neg(Const(1))) >>)) :
            e \in Literals, p \in patterns}

SmallTrees == RecursivePrograms \cup CasePrograms

\* One value and another that was built from the names of a pattern; a pattern of
\* an array matches an S-expression and a string too.
RECURSIVE SameParts(_, _, _, _)
SameParts(m, v, n, w) ==
    /\ \/ v.kind = w.kind /\ v.ident = w.ident
       \/ IsArray(v) /\ w.kind = "array"
    /\ v.value = w.value /\ Len(v.els) = Len(w.els)
    /\ \A i \in DOMAIN v.els : SameParts(m, getEl(m, v, i), n, getEl(n, w, i))

\* The names of a pattern that matched, put back in their places, give the value
\* again; a pattern made from a value by naming parts of it matches the value.
PatternsTakeApart ==
    (outcome # << >> /\ tree.expr.node = "case") =>
        LET literal == tree.expr.parts[1]
            whole == execute(literal, createContext)
            r == outcome[1]
        IN  \/ r.value = Number(-1) /\ tree.expr.patterns[1] \notin PatternsOf(literal, 1)
            \/ SameParts(whole.m, whole.value, r.m, r.value)

=============================================================================
