----------------------------- MODULE LamaTruffle -----------------------------
(***************************************************************************)
(* The Lama implementation of hw05_lama_graalvm: a tree of nodes that      *)
(* execute themselves.  Names are looked up when a node runs: a function   *)
(* definition makes one LamaFrame, a stack of scopes that all activations  *)
(* of the function push to and search from the top down, and afterwards    *)
(* the frame the definition was executed in.                               *)
(*                                                                         *)
(* The machine m is what running changes: the cells references point to,   *)
(* the frames, the functions defined so far, the target each call node     *)
(* keeps, and the output.  Beside it runs what the language means by a     *)
(* name, the innermost declaration around it in the text: the fields text, *)
(* scope and agrees.                                                       *)
(***************************************************************************)
EXTENDS Integers, Sequences, SequencesExt, FiniteSetsExt, TLC

CONSTANT Trees    \* the programs that may be run

VARIABLES
    tree,
    outcome       \* << >>, and the result of the run in a sequence afterwards

-----------------------------------------------------------------------------
(* Trees *)

Skip == [node |-> "int", value |-> 0]
Const(v) == [node |-> "int", value |-> v]
Read(sym) == [node |-> "read", sym |-> sym]
ReadArg(i) == [node |-> "arg", index |-> i]
RefVar(sym) == [node |-> "ref", sym |-> sym]
RefIf(p, a, b) == [node |-> "ref if", parts |-> << p, a, b >>]
WeakArr(r, i) == [node |-> "ref element", parts |-> << r, i >>]
Assign(ref, e) == [node |-> "assign", parts |-> << ref, e >>]
Seq2(a, b) == [node |-> "seq", parts |-> << a, b >>]
BinopNode(op, a, b) == [node |-> "binop", op |-> op, parts |-> << a, b >>]
While(p, body) == [node |-> "while", parts |-> << p, body >>]
If(p, s, t) == [node |-> "if", parts |-> << p, s, t >>]
Call(site, sym, args) == [node |-> "call", site |-> site, sym |-> sym, parts |-> args]
Neg(e) == [node |-> "neg", parts |-> << e >>]
Make(kind, ident, els) == [node |-> "make", kind |-> kind, ident |-> ident, parts |-> els]
ArrCreate(els) == Make("array", "", els)
SexprCreate(ident, args) == Make("sexp", ident, args)
ListCreate(els) == Make("list", "", els)
ListCons(h, t) == [node |-> "cons", parts |-> << h, t >>]
Index(a, i) == [node |-> "index", parts |-> << a, i >>]
Case(e, patterns, branches) ==
    [node |-> "case", parts |-> << e >>, patterns |-> patterns, branches |-> branches]

Def(sym, e) == [sym |-> sym, expr |-> e]
FunDefNode(sym, body) == [sym |-> sym, body |-> body]
Scope(defs, funDefs, e) == [node |-> "scope", defs |-> defs, funDefs |-> funDefs, expr |-> e]

concat(s, tail) == [s EXCEPT !.expr = Seq2(@, tail)]

\* The body's variables are assigned, not defined again.
defsToAssigns(s) ==
    LET assigns == [i \in DOMAIN s.defs |-> Assign(RefVar(s.defs[i].sym), s.defs[i].expr)]
        all == IF assigns = << >> THEN Skip ELSE FoldLeft(Seq2, Head(assigns), Tail(assigns))
    IN  Scope(<< >>, s.funDefs, Seq2(all, s.expr))

DoWhile(p, body) == concat(body, While(p, defsToAssigns(body)))
For(init, p, iter, body) == concat(init, While(p, concat(body, iter)))

createFunDef(sym, args, body) ==
    FunDefNode(sym, Scope([i \in DOMAIN args |-> Def(args[i], ReadArg(i))], << >>, body))

createBinop(op, a, b) ==
    CASE op = ">"  -> BinopNode("<", b, a)
      [] op = ">=" -> BinopNode("<=", b, a)
      [] OTHER     -> BinopNode(op, a, b)

-----------------------------------------------------------------------------
(* LamaFrame *)

NoNames == << >>
NewFrame(root) == [vars |-> << NoNames >>, funcs |-> << NoNames >>, root |-> root]

Declaring(stack, sym) == {i \in DOMAIN stack : sym \in DOMAIN stack[i]}

Innermost(stack, sym) == Max(Declaring(stack, sym))

RECURSIVE lookup(_, _, _, _)
lookup(m, f, names, sym) ==
    LET stack == m.frames[f][names]
    IN  IF Declaring(stack, sym) # {} THEN stack[Innermost(stack, sym)][sym]
        ELSE lookup(m, m.frames[f].root, names, sym)

getVarRef(m, f, sym) == lookup(m, f, "vars", sym)
getFun(m, f, sym) == lookup(m, f, "funcs", sym)

\* The declarations of the text: each scope with the scope around it.
NewScope(parent) == [vars |-> NoNames, funcs |-> NoNames, parent |-> parent]

RECURSIVE Around(_, _, _, _)
Around(m, s, names, sym) ==
    IF sym \in DOMAIN m.text[s][names] THEN m.text[s][names][sym]
    ELSE Around(m, m.text[s].parent, names, sym)

VarInText(m, sym) == Around(m, m.scope, "vars", sym)
FunInText(m, sym) == Around(m, m.scope, "funcs", sym)

pushScope(m) ==
    [m EXCEPT !.frames[m.cur].vars = Append(@, NoNames),
              !.frames[m.cur].funcs = Append(@, NoNames),
              !.text = Append(@, NewScope(m.scope)), !.scope = Len(m.text) + 1]

\* Mutant: the variables of a scope outlive it.
popFunctions(m) ==
    [m EXCEPT !.frames[m.cur].funcs = Front(@), !.scope = m.text[m.scope].parent]
popScope(m) ==
    [m EXCEPT !.frames[m.cur].vars = Front(@), !.frames[m.cur].funcs = Front(@),
              !.scope = m.text[m.scope].parent]

Put(names, sym, x) == (sym :> x) @@ names

defVar(m, sym, v) ==
    LET cell == Len(m.cells) + 1
        top == Len(m.frames[m.cur].vars)
    IN  [m EXCEPT !.cells = Append(@, v),
                  !.frames[m.cur].vars[top] = Put(@, sym, cell),
                  !.text[m.scope].vars = Put(@, sym, cell)]

\* Executing a definition makes the function and the frame it runs in.
defFun(m, def) ==
    LET target == Len(m.targets) + 1
        top == Len(m.frames[m.cur].funcs)
    IN  [m EXCEPT !.targets = Append(@, [def |-> def, frame |-> Len(m.frames) + 1, scope |-> m.scope]),
                  !.frames = Append([@ EXCEPT ![m.cur].funcs[top] = Put(@, def.sym, target)],
                                    NewFrame(m.cur)),
                  !.text[m.scope].funcs = Put(@, def.sym, target)]

\* A call node keeps the first target it finds.
dispatch(m, site, sym) == IF site \in DOMAIN m.cache THEN m.cache[site] ELSE getFun(m, m.cur, sym)

-----------------------------------------------------------------------------
(* Values: an integer, or cells with the kind of what holds them.  Strings *)
(* and S-expressions are arrays too.                                       *)

Number(v) == [kind |-> "int", ident |-> "", value |-> v, els |-> << >>]
Null == [kind |-> "null", ident |-> "", value |-> 0, els |-> << >>]
IsArray(v) == v.kind \in {"array", "sexp", "string"}

NewCells(m, n) == [i \in 1 .. n |-> Len(m.cells) + i]
getEl(m, v, i) == m.cells[v.els[i]]
tail(v) == [v EXCEPT !.els = Tail(@)]

Truth(b) == IF b THEN 1 ELSE 0
Magnitude(a) == IF a < 0 THEN -a ELSE a
JavaDiv(a, b) ==
    LET q == Magnitude(a) \div Magnitude(b) IN IF (a < 0) = (b < 0) THEN q ELSE -q
execInt(op, a, b) ==
    CASE op = "+"  -> a + b
      [] op = "-"  -> a - b
      [] op = "*"  -> a * b
      [] op = "/"  -> JavaDiv(a, b)
      [] op = "%"  -> a - b * JavaDiv(a, b)
      [] op = "==" -> Truth(a = b)
      [] op = "!=" -> Truth(a # b)
      [] op = "<"  -> Truth(a < b)
      [] op = "<=" -> Truth(a <= b)
      [] op = "&&" -> Truth(a # 0 /\ b # 0)
      [] op = "!!" -> Truth(a # 0 \/ b # 0)

-----------------------------------------------------------------------------
(* Patterns *)

Pattern(kind, x, subs) == [pattern |-> kind, x |-> x, subs |-> subs]
Wildcard == Pattern("_", 0, << >>)
IntPattern(v) == Pattern("int", v, << >>)
BindPattern(sym, p) == [pattern |-> "bind", sym |-> sym, subs |-> << p >>]
ArrayPattern(ps) == Pattern("array", 0, ps)
SexpPattern(ident, ps) == [pattern |-> "sexp", ident |-> ident, subs |-> ps]
ListPattern(ps) == Pattern("list", 0, ps)
ConsPattern(h, t) == Pattern("cons", 0, << h, t >>)

RECURSIVE checkMatch(_, _, _)
checkMatch(m, p, v) ==
    LET each == /\ Len(v.els) = Len(p.subs)
                /\ \A i \in DOMAIN p.subs : checkMatch(m, p.subs[i], getEl(m, v, i))
    IN  CASE p.pattern = "_"     -> TRUE
          [] p.pattern = "int"   -> v = Number(p.x)
          [] p.pattern = "bind"  -> checkMatch(m, p.subs[1], v)
          [] p.pattern = "array" -> IsArray(v) /\ each
          [] p.pattern = "sexp"  -> v.kind = "sexp" /\ v.ident = p.ident /\ each
          [] p.pattern = "list"  -> v.kind = "list" /\ each
          [] p.pattern = "cons"  -> /\ v.kind = "list" /\ v.els # << >>
                                    /\ checkMatch(m, p.subs[1], getEl(m, v, 1))
                                    /\ checkMatch(m, p.subs[2], tail(v))

RECURSIVE collectBindings(_, _, _)
collectBindings(m, p, v) ==
    CASE p.pattern \in {"_", "int"} -> << >>
      [] p.pattern = "bind" -> Append(collectBindings(m, p.subs[1], v), [sym |-> p.sym, value |-> v])
      [] p.pattern = "cons" -> collectBindings(m, p.subs[1], getEl(m, v, 1))
                                   \o collectBindings(m, p.subs[2], tail(v))
      [] OTHER -> FlattenSeq([i \in DOMAIN p.subs |->
                                  collectBindings(m, p.subs[i], getEl(m, v, i))])

Matching(m, e, v) == {i \in DOMAIN e.patterns : checkMatch(m, e.patterns[i], v)}

\* Mutant: the branches after the first that matches are not left out.
TakenLast(matching) == Max(matching)
Taken(matching) == Min(matching)

Bound(m, bindings) == FoldLeft(LAMBDA x, b : defVar(x, b.sym, b.value), m, bindings)

-----------------------------------------------------------------------------
(* Execution.  A node's result is a value, or the cell a reference is, and *)
(* the machine afterwards.                                                 *)

Result(v, m) == [value |-> v, m |-> m]

Agreeing(m, b) == [m EXCEPT !.agrees = @ /\ b]

RECURSIVE execute(_, _), executeAll(_, _), loop(_, _)

\* Several nodes in turn, and the sequence of their results.
executeAll(es, m) ==
    FoldLeft(LAMBDA done, e : LET r == execute(e, done.m)
                              IN  Result(Append(done.value, r.value), r.m),
             Result(<< >>, m), es)

executeScope(s, m) ==
    LET define(x, d) == LET r == execute(d.expr, x) IN defVar(r.m, d.sym, r.value)
        entered == FoldLeft(define, pushScope(m), s.defs)
        r == execute(s.expr, FoldLeft(defFun, entered, s.funDefs))
    IN  Result(r.value, popScope(r.m))

\* The function's frame is current until it returns, and so is the scope of its
\* text; the builtins write and length end here.
executeCall(site, sym, args, m) ==
    LET target == dispatch(m, site, sym)
        f == m.targets[target]
        called == [Agreeing(m, f.def = m.targets[FunInText(m, sym)].def) EXCEPT
                       !.cache = Put(@, site, target), !.cur = f.frame, !.args = args,
                       !.scope = m.targets[FunInText(m, sym)].scope]
        r == CASE f.def.sym = "write"  -> Result(Number(0), [called EXCEPT !.output = Append(@, args[1])])
               [] f.def.sym = "length" -> Result(Number(Len(args[1].els)), called)
               [] OTHER                -> executeScope(f.def.body, called)
    IN  Result(r.value, [r.m EXCEPT !.cur = m.cur, !.args = m.args, !.scope = m.scope])

executeCase(e, m) ==
    LET scrut == execute(e.parts[1], m)
        entered == pushScope(scrut.m)
        matching == Matching(entered, e, scrut.value)
        i == Taken(matching)
        r == IF matching = {} THEN Result(Null, entered)
             ELSE executeScope(e.branches[i],
                      Bound(entered, collectBindings(entered, e.patterns[i], scrut.value)))
    IN  Result(r.value, popScope(r.m))

loop(e, m) ==
    LET p == execute(e.parts[1], m)
    IN  IF p.value.value = 0 THEN Result(Number(0), p.m)
        ELSE loop(e, execute(e.parts[2], p.m).m)

\* A node whose children are executed first, on their results.
Apply(e, v, m) ==
    CASE e.node = "ref if"  -> Result(IF v[1].value # 0 THEN v[2] ELSE v[3], m)
      [] e.node = "ref element" -> Result(m.cells[v[1]].els[v[2].value + 1], m)
      [] e.node = "assign"  -> Result(v[2], [m EXCEPT !.cells[v[1]] = v[2]])
      [] e.node = "seq"     -> Result(v[2], m)
      [] e.node = "binop"   -> Result(Number(execInt(e.op, v[1].value, v[2].value)), m)
      [] e.node = "neg"     -> Result(Number(-v[1].value), m)
      [] e.node = "call"    -> executeCall(e.site, e.sym, v, m)
      [] e.node = "make"    -> Result([kind |-> e.kind, ident |-> e.ident, value |-> 0,
                                       els |-> NewCells(m, Len(v))],
                                      [m EXCEPT !.cells = @ \o v])
      [] e.node = "cons"    -> Result([v[2] EXCEPT !.els = NewCells(m, 1) \o @],
                                      [m EXCEPT !.cells = Append(@, v[1])])
      [] e.node = "index"   -> Result(getEl(m, v[1], v[2].value + 1), m)

execute(e, m) ==
    CASE e.node = "int"   -> Result(Number(e.value), m)
      [] e.node = "read"  -> LET cell == getVarRef(m, m.cur, e.sym)
                             IN  Result(m.cells[cell], Agreeing(m, cell = VarInText(m, e.sym)))
      [] e.node = "ref"   -> LET cell == getVarRef(m, m.cur, e.sym)
                             IN  Result(cell, Agreeing(m, cell = VarInText(m, e.sym)))
      [] e.node = "arg"   -> Result(m.args[e.index], m)
      [] e.node = "scope" -> executeScope(e, m)
      [] e.node = "case"  -> executeCase(e, m)
      [] e.node = "while" -> loop(e, m)
      [] e.node = "if"    -> LET p == execute(e.parts[1], m)
                             IN  execute(e.parts[IF p.value.value # 0 THEN 2 ELSE 3], p.m)
      [] OTHER            -> LET r == executeAll(e.parts, m) IN Apply(e, r.value, r.m)

\* The context before a program runs, with the functions of the language.
createContext ==
    LET empty == [cells |-> << >>, frames |-> << NewFrame(0) >>, cur |-> 1, args |-> << >>,
                  targets |-> << >>, cache |-> NoNames, text |-> << NewScope(0) >>, scope |-> 1,
                  agrees |-> TRUE, output |-> << >>]
    IN  FoldLeft(LAMBDA m, sym : defFun(m, FunDefNode(sym, Scope(<< >>, << >>, Skip))),
                 empty, << "write", "length" >>)

-----------------------------------------------------------------------------

Init == tree \in Trees /\ outcome = << >>

\* LamaRootNode
Run ==
    /\ outcome = << >>
    /\ outcome' = << execute(tree, createContext) >>
    /\ UNCHANGED tree

Spec == Init /\ [][Run]_<< tree, outcome >>

-----------------------------------------------------------------------------
(* Programs in which the names a function uses from outside are declared   *)
(* once.                                                                   *)

Subtrees(e) ==
    IF e.node = "scope"
    THEN [i \in DOMAIN e.defs |-> e.defs[i].expr] \o
         [i \in DOMAIN e.funDefs |-> e.funDefs[i].body] \o << e.expr >>
    ELSE (IF "parts" \in DOMAIN e THEN e.parts ELSE << >>) \o
         (IF e.node = "case" THEN e.branches ELSE << >>)

RECURSIVE PatternNames(_)
PatternNames(p) ==
    (IF p.pattern = "bind" THEN {p.sym} ELSE {}) \cup
    UNION {PatternNames(p.subs[i]) : i \in DOMAIN p.subs}

Variable(sym) == << "variable", sym >>
Function(sym) == << "function", sym >>

DeclaredBy(e) ==
    CASE e.node = "scope" -> {Variable(d.sym) : d \in ToSet(e.defs)} \cup
                             {Function(d.sym) : d \in ToSet(e.funDefs)}
      [] e.node = "case"  -> {Variable(x) : x \in UNION {PatternNames(p) : p \in ToSet(e.patterns)}}
      [] OTHER            -> {}

RECURSIVE FreeNames(_), Declarations(_, _), Functions(_)
FreeNames(e) ==
    LET inside == UNION {FreeNames(Subtrees(e)[i]) : i \in DOMAIN Subtrees(e)}
    IN  CASE e.node \in {"read", "ref"} -> {Variable(e.sym)}
          [] e.node = "call"            -> inside \cup {Function(e.sym)}
          [] OTHER                      -> inside \ DeclaredBy(e)

Declarations(e, name) ==
    FoldLeft(LAMBDA sum, s : sum + Declarations(s, name),
             IF name \in DeclaredBy(e) THEN 1 ELSE 0, Subtrees(e))

Functions(e) ==
    (IF e.node = "scope" THEN ToSet(e.funDefs) ELSE {}) \cup
    UNION {Functions(Subtrees(e)[i]) : i \in DOMAIN Subtrees(e)}

DeclaresOnce ==
    \A d \in Functions(tree) : \A name \in FreeNames(d.body) : Declarations(tree, name) <= 1

\* Although the activations of a function share a frame, and call nodes keep the
\* first function they find, every name means what it means in the text, when the
\* names that functions use from outside have one declaration.  Every scope that
\* was entered has been left.
NamesResolve ==
    outcome # << >> =>
        LET m == outcome[1].m
        IN  /\ DeclaresOnce => m.agrees
            /\ m.cur = 1 /\ m.scope = 1
            /\ \A f \in DOMAIN m.frames : Len(m.frames[f].vars) = 1 /\ Len(m.frames[f].funcs) = 1

=============================================================================
