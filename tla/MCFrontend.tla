----------------------------- MODULE MCFrontend -----------------------------
EXTENDS Frontend

Ident(x)     == Node("ident", x, << >>)
Literal(v)   == Node("literal", v, << >>)
Binary(o, l, r) == Node(IF o \in AssignOps THEN "assign" ELSE "binary", o, <<l, r>>)
Not(e)       == Node("unary", "!", <<e>>)
CallOf(f, args) == Node("call", "", <<f>> \o args)
FieldOf(e)   == Node("field of", "m", <<e>>)
IndexOf(e, i) == Node("index", "", <<e, i>>)
Path         == Node("path", "x", <<Node("segment", "y", << >>), Node("segment", "z", << >>)>>)

\* One operator of each precedence, two of one; trees of two operators, and
\* every form of primary and postfix under and above an operator.
Ops   == {"*", "-", "+", "<<", "&", "<", "&&", "||", "=", "+="}
Atoms == {Ident("a"), Literal("1")}
One   == {Binary(o, l, r) : o \in Ops, l \in {Ident("a")}, r \in {Ident("b")}}
         \cup {Not(Ident("a")), Path, CallOf(Ident("f"), << >>), FieldOf(Ident("a")), IndexOf(Ident("a"), Ident("b")),
               Node("block", "", <<Binary("=", Ident("a"), Ident("b"))>>)}
Two   == {Binary(o, l, r) : o \in Ops, l \in One \cup Atoms, r \in One \cup Atoms}
         \cup {Not(e) : e \in One} \cup {FieldOf(e) : e \in One} \cup {IndexOf(e, Ident("a")) : e \in One}
         \cup {CallOf(e, <<e>>) : e \in One} \cup {CallOf(Ident("f"), <<e, Ident("a")>>) : e \in One}
Deep  == {Binary(o, l, Binary("-", Ident("a"), Ident("b"))) : o \in Ops, l \in {Binary(x, Not(Ident("a")), Ident("b")) : x \in Ops}}

Block1(ss)   == Node("block", "", ss)
Use(e)       == IF e.k = "assign" THEN e ELSE Node("expr stmt", "", <<e>>)
Bound(t, e)  == Node("let", "x", <<t, e>>)
Cond(e, f)   == Node("if", "", <<e, Block1(<<Use(Ident("b"))>>), f>>)
Loop(lo, b)  == Node("for", "i", <<lo, Ident("n"), Block1(b)>>)
Pats         == {Node("ident pat", "p", << >>), Node("member pat", "m", <<Node("ident pat", "p", << >>)>>),
                 Node("path pat", "x", <<Node("segment", "q", << >>), Node("member pat", "m", << >>)>>)}
MatchOf(e, p) == Node("match", "", <<e, Node("arm", "", <<p, e>>), Node("arm", "", <<Node("ident pat", "_", << >>), Ident("a")>>)>>)
Stmts == {Bound(Absent, e) : e \in Two} \cup {Bound(Ident("i32"), Absent), Node("var", "x", <<Absent, Absent>>)}
         \cup {Use(e) : e \in Deep} \cup {Node("return", "", <<e>>) : e \in One \cup {Absent}}
         \cup {Cond(e, f) : e \in One \cup Atoms, f \in {Absent, Block1(<< >>)}}
         \cup {Loop(e, << >>) : e \in One \cup Atoms} \cup {Loop(Literal("0"), <<Loop(Literal("0"), << >>), Use(Ident("a"))>>)}
         \cup {MatchOf(e, p) : e \in Atoms \cup {Not(Ident("a"))}, p \in Pats}
         \cup {Block1(<<Use(Ident("a")), Ident("b")>>)}
Fn(s)    == Node("fn", "f", <<Absent, Block1(<<s, Use(Ident("a"))>>)>>)
Others   == {Node("pub fn", "f", <<Node("param", "a", <<Ident("i32")>>), Node("mut param", "b", <<Path>>), Ident("i64"), Block1(<< >>)>>),
             Node("struct", "s", <<Node("field", "m", <<Ident("i32")>>), Node("field", "n", <<Path>>)>>),
             Node("enum", "e", <<Node("variant", "a", << >>), Node("variant", "b", <<Ident("i32"), Ident("bool")>>)>>)}
MCItems  == {Fn(s) : s \in Stmts} \cup Others
MCBefore == <<"fn", "f", "(", ")", "{">>
MCAfter  == <<"}">>
MCWords  == {"a", "=", "+", "(", ")", "{", "}", ";", ",", "let", "if", ":", "."}
MCChars  == {"1", "0", "x", "e", ".", "+", "=", " ", Quote}
=============================================================================
