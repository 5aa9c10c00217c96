------------------------------ MODULE MCCompile ------------------------------
EXTENDS InstrSel

p == Name("p")
x == Name("x")
OneParam   == <<"p">>
OneArg     == {<<0>>, <<1>>, <<2>>}
TwoValues  == {<<0>>, <<2>>}
MCConds    == {Bin("CmpLt", p, Lit(1))}
MCExprs    == {Atom(Lit(2)), Bin("Sub", x, x), Bin("Mul", x, Lit(2)), Call(p)}

\* Functions with loops: an accumulator over a parameter's range, a product the
\* induction variable pass takes apart, a call in the body, an idle loop and an
\* idle loop in a loop.
s == Name("s")
t == Name("t")
i == Name("i")
Lit0 == Atom(Lit(0))
UpTo(v, n, body) == For(v, Lit0, n, body)
Accumulate == UpTo("i", Atom(p), <<Stmt("assign", "s", Bin("Add", s, i))>>)
Previous   == UpTo("i", Atom(p), <<Stmt("let", "u", Atom(s)), Stmt("assign", "s", Bin("Add", s, t)),
                                   Stmt("assign", "t", Atom(Name("u")))>>)
Scaled     == UpTo("i", Atom(p), <<Stmt("let", "u", Bin("Mul", i, Lit(3))), Stmt("assign", "s", Bin("Sub", s, Name("u")))>>)
Calling    == UpTo("i", Atom(p), <<Stmt("assign", "s", Call(s)), Stmt("expr", "s", Call(i))>>)
Idle       == UpTo("i", Atom(Lit(2)), << >>)
IdleNest   == UpTo("i", Atom(Lit(2)), UpTo("j", Atom(Lit(2)), << >>))
Nested     == UpTo("i", Atom(p), UpTo("j", Atom(i), <<Stmt("assign", "s", Bin("Sub", Name("j"), s))>>))
MCLoops    == {Accumulate, Previous, Scaled, Calling, Idle, IdleNest, Nested}
LoopExprs  == {Lit0, Bin("Add", s, p), Call(p)}

\* For the runs that show a disagreement: a Fibonacci loop and a call in an inner
\* loop.
NoConds    == {}
Fibonacci  == UpTo("i", Atom(p), <<Stmt("let", "u", Bin("Add", s, t)), Stmt("assign", "s", Atom(t)),
                                   Stmt("assign", "t", Atom(Name("u")))>>)
FibLoops   == {Fibonacci}
InnerCall  == UpTo("i", Atom(p), UpTo("j", Atom(Lit(2)), <<Stmt("expr", "s", Call(p))>>))
NestLoops  == {InnerCall}
FibExprs   == {Atom(s), Atom(Lit(1)), Atom(t)}
=============================================================================
