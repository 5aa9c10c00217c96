----------------------------- MODULE MCLowering -----------------------------
EXTENDS Lowering

p == Name("p")
x == Name("x")
y == Name("y")
i == Name("i")
j == Name("j")
MCExprs == {Atom(Lit(1)), Bin("Add", x, p), Bin("Sub", p, x), Bin("Sub", x, p), Call(x)}
MCConds == {Bin("CmpLt", p, Lit(1))}
MCParams == {<<0>>, <<2>>}
MCParamNames == <<"p">>

\* An accumulator; a local, a swap through it and a call; a loop in a loop.
UpToP(v, body) == For(v, Atom(Lit(0)), Atom(p), body)
MCLoops ==
  {UpToP("i", <<Stmt("assign", "x", Bin("Add", x, i))>>),
   UpToP("i", <<Stmt("let", "y", Call(x)), Stmt("assign", "x", Bin("Sub", y, i))>>),
   UpToP("i", <<Stmt("expr", "x", Call(i))>> \o
              For("j", Atom(i), Bin("Add", p, Lit(1)),
                  <<Stmt("assign", "x", Bin("Sub", j, x)), Stmt("assign", "y", Bin("Add", x, y))>>))}
=============================================================================
