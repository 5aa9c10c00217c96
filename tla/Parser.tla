------------------------------- MODULE Parser -------------------------------
(* The parser (frontend/Parser.cpp): recursive descent for declarations,       *)
(* statements and patterns, precedence climbing for expressions.  A tree is    *)
(* [k, v, c]: the kind of node, its name or operator, its children in order.   *)
(* A parser is [toks, pos, errs, ok, c]: the tokens and the next one, the      *)
(* errors reported so far, whether parsing goes on, the children of the node   *)
(* being parsed; a parse_* function that returns an error leaves ok = FALSE.   *)
EXTENDS Lexer

Node(k, v, c) == [k |-> k, v |-> v, c |-> c]
Absent == Node("absent", "", << >>)

Start(toks) == [toks |-> toks, pos |-> 1, errs |-> 0, ok |-> TRUE, c |-> << >>]
Peek(s)     == s.toks[IF s.pos > Len(s.toks) THEN Len(s.toks) ELSE s.pos]
At(s, kind) == Peek(s).kind = kind
Skip(s)     == [s EXCEPT !.pos = @ + 1]
Report(s)   == [s EXCEPT !.errs = @ + 1]
Fail(s)     == [Report(s) EXCEPT !.ok = FALSE]
Child(s, n) == [s EXCEPT !.c = Append(@, n)]
Consume(s, kind) == IF s.ok /\ At(s, kind) THEN Skip(s) ELSE s

ExpectSkips(s, kind) ==                               \* mutant: whatever is there is taken for it
  IF s.ok THEN Skip(s) ELSE s

(* expect reports a token that is not there, and parsing goes on without it.   *)
Expect(s, kind) ==
  CASE s.ok /\ At(s, kind) -> Skip(s)
    [] s.ok /\ ~ At(s, kind) -> Report(s)
    [] OTHER -> s

(* A function that has parsed its parts becomes the next child of its caller s.*)
Closed(s, r, k, v) == [r EXCEPT !.c = Append(s.c, Node(k, v, r.c))]
Open(s) == [s EXCEPT !.c = << >>]
LastChild(s) == Last(s.c)

-----------------------------------------------------------------------------
(* binary_op_kind and precedence.                                              *)
AssignOps == {"=", "+=", "-=", "*="}
Precedence(op) ==
  CASE op \in {"*", "/", "%"} -> 13
    [] op \in {"+", "-"} -> 12
    [] op \in {"<<", ">>"} -> 11
    [] op \in {"&", "^", "|"} -> 10
    [] op \in {"==", "!=", "<", "<=", ">", ">="} -> 9
    [] op = "&&" -> 5
    [] op = "||" -> 4
    [] op \in AssignOps -> 2
BinaryOps == {"*", "/", "%", "+", "-", "<<", ">>", "&", "^", "|", "==", "!=", "<", "<=", ">", ">=", "&&", "||"} \cup AssignOps

RhsAlwaysTighter(op) == Precedence(op) + 1            \* mutant: assignments associate to the left
RhsPrecedence(op) == IF op \in AssignOps THEN Precedence(op) ELSE Precedence(op) + 1

(* The grammar: Parse(what, s) is parse_what.  Many is the loop over the items *)
(* of a list up to a closing token: after an item, "," ends or continues it,   *)
(* "," may be there, or nothing is.                                            *)
RECURSIVE Parse(_, _), Many(_, _, _, _), Climb(_, _), Postfix(_), Segments(_)
Many(s, what, close, sep) ==
  LET r == Parse(what, s)
  IN  CASE ~ s.ok \/ At(s, close) \/ At(s, "eof") -> s
        [] s.ok /\ ~ At(s, close) /\ ~ At(s, "eof") /\ r.ok ->
             CASE sep = "list" /\ ~ At(r, ",") -> r
               [] OTHER -> Many(IF sep = "none" THEN r ELSE Consume(r, ","), what, close, sep)
        [] OTHER -> r
IfConsumed(s, token, what) ==
  IF s.ok /\ At(s, token) THEN Parse(what, Skip(s)) ELSE Child(s, Absent)
Name(s) == Peek(s).text

FnDecl(s, k) ==
  LET named  == Expect(Open(s), "fn")
      params == Expect(Many(Expect(Expect(named, "Ident"), "("), "param", ")", "list"), ")")
  IN  Closed(s, Parse("block", IfConsumed(params, "->", "expr")), k, Name(named))
Param(s) ==
  LET named == Consume(Open(s), "mut")
  IN  Closed(s, Parse("expr", Expect(Expect(named, "Ident"), ":")), IF At(s, "mut") THEN "mut param" ELSE "param", Name(named))
Field(s)   == Closed(s, Parse("expr", Expect(Expect(Open(s), "Ident"), ":")), "field", Name(s))
Variant(s) ==
  LET named == Expect(Open(s), "Ident")
      r == IF named.ok /\ At(named, "(") THEN Expect(Many(Skip(named), "expr", ")", "list"), ")") ELSE named
  IN  Closed(s, r, "variant", Name(s))
Listed(s, keyword, item) ==
  LET named == Expect(Open(s), keyword)
  IN  Closed(s, Expect(Many(Expect(Expect(named, "Ident"), "{"), item, "}", "list"), "}"), keyword, Name(named))
TopLevelItem(s) ==
  CASE At(s, "fn")  -> FnDecl(s, "fn")
    [] At(s, "pub") -> IF At(Skip(s), "fn") THEN FnDecl(Skip(s), "pub fn") ELSE Fail(Skip(s))
    [] At(s, "struct") -> Listed(s, "struct", "field")
    [] At(s, "enum")   -> Listed(s, "enum", "variant")
    [] OTHER -> Fail(s)

Block(s) == Closed(s, Expect(Many(Expect(Open(s), "{"), "stmt", "}", "none"), "}"), "block", "")
Let(s) ==
  LET named == Skip(Open(s))
  IN  Closed(s, Consume(IfConsumed(IfConsumed(Expect(named, "Ident"), ":", "expr"), "=", "expr"), ";"),
             Peek(s).kind, Name(named))
Return(s) ==
  LET r == Skip(Open(s))
  IN  Closed(s, Consume(IF Peek(r).kind \in {";", "}", "eof"} THEN Child(r, Absent) ELSE Parse("expr", r), ";"), "return", "")
If(s) == Closed(s, IfConsumed(Parse("block", Parse("expr", Skip(Open(s)))), "else", "block"), "if", "")
For(s) ==
  LET named == Skip(Open(s))
      range == Parse("expr", Expect(Parse("expr", Expect(Expect(named, "Ident"), "in")), ".."))
  IN  Closed(s, Parse("block", range), "for", Name(named))
Match(s) ==
  Closed(s, Expect(Many(Expect(Parse("expr", Skip(Open(s))), "{"), "arm", "}", "maybe"), "}"), "match", "")
Arm(s) == Closed(s, Parse("expr", Expect(Parse("pattern", Open(s)), "=>")), "arm", "")

(* An assignment is a statement as it is; a semicolon makes any other          *)
(* expression one.                                                             *)
ExprStmt(s) ==
  LET r == Parse("expr", s)
  IN  CASE ~ r.ok -> r
        [] r.ok /\ (LastChild(r).k = "assign" \/ ~ At(r, ";")) -> Consume(r, ";")
        [] OTHER -> Skip([r EXCEPT !.c = Append(s.c, Node("expr stmt", "", <<LastChild(r)>>))])
Stmt(s) ==
  CASE Peek(s).kind \in {"let", "var"} -> Let(s)
    [] At(s, "return") -> Return(s)
    [] At(s, "if")     -> If(s)
    [] At(s, "for")    -> For(s)
    [] At(s, "match")  -> Match(s)
    [] At(s, "{")      -> Block(s)
    [] OTHER -> ExprStmt(s)

(* A path: names joined by "::", the first one already taken.                  *)
Segments(s) ==
  IF At(s, "::") THEN Segments(Expect(Child(Skip(s), Node("segment", Name(Skip(s)), << >>)), "Ident")) ELSE s
SubPattern(s) == IF s.ok /\ At(s, "(") THEN Expect(Parse("pattern", Skip(s)), ")") ELSE s
Pattern(s) ==
  LET member == Expect(Skip(Open(s)), "Ident")
  IN  CASE At(s, ".") -> Closed(s, SubPattern(member), "member pat", Name(Skip(s)))
        [] At(s, "Ident") /\ At(Skip(s), "::") -> Closed(s, SubPattern(Segments(Skip(Open(s)))), "path pat", Name(s))
        [] At(s, "Ident") /\ ~ At(Skip(s), "::") -> Closed(s, Skip(Open(s)), "ident pat", Name(s))
        [] OTHER -> Fail(s)

(* parse_expr: after its first operand, every operator strong enough.          *)
Climb(l, least) ==
  LET op  == Peek(l).kind
      rhs == Climb(Parse("unary", Skip(l)), RhsPrecedence(op))
      both == SubSeq(rhs.c, Len(rhs.c) - 1, Len(rhs.c))
  IN  CASE ~ l.ok \/ op \notin BinaryOps -> l
        [] l.ok /\ op \in BinaryOps ->
             CASE Precedence(op) < least -> l
               [] Precedence(op) >= least /\ ~ rhs.ok -> rhs
               [] OTHER -> Climb([rhs EXCEPT !.c = Append(SubSeq(@, 1, Len(@) - 2),
                                    Node(IF op \in AssignOps THEN "assign" ELSE "binary", op, both))], least)
Unary(s) ==
  IF Peek(s).kind \in {"-", "!", "~"} THEN Closed(s, Parse("unary", Skip(Open(s))), "unary", Peek(s).kind)
  ELSE Postfix(Parse("primary", s))
Primary(s) ==
  LET inner == Expect(Parse("expr", Skip(s)), ")")
  IN  CASE Peek(s).kind \in {"IntLit", "FloatLit", "StrLit", "true", "false"} -> Child(Skip(s), Node("literal", Name(s), << >>))
        [] At(s, "Ident") /\ At(Skip(s), "::") -> Closed(s, Segments(Skip(Open(s))), "path", Name(s))
        [] (At(s, "Ident") /\ ~ At(Skip(s), "::")) \/ Peek(s).kind \in TypeWords -> Child(Skip(s), Node("ident", Name(s), << >>))
        [] At(s, "(") -> inner
        [] At(s, "{") -> Block(s)
        [] OTHER -> Fail(s)
(* parse_postfix: calls, fields and indices on what was parsed last.           *)
Postfix(s) ==
  LET base == [s EXCEPT !.c = <<LastChild(s)>>]
      outer == [s EXCEPT !.c = Front(@)]
      r == CASE At(s, "(") -> Closed(outer, Expect(Many(Skip(base), "expr", ")", "list"), ")"), "call", "")
             [] At(s, ".") -> Closed(outer, Expect(Skip(base), "Ident"), "field of", Name(Skip(s)))
             [] At(s, "[") -> Closed(outer, Expect(Parse("expr", Skip(base)), "]"), "index", "")
  IN  IF ~ s.ok \/ Peek(s).kind \notin {"(", ".", "["} THEN s ELSE Postfix(r)

Parse(what, s) ==
  IF ~ s.ok THEN s
  ELSE CASE what = "item"    -> TopLevelItem(s)
         [] what = "param"   -> Param(s)
         [] what = "field"   -> Field(s)
         [] what = "variant" -> Variant(s)
         [] what = "block"   -> Block(s)
         [] what = "stmt"    -> Stmt(s)
         [] what = "arm"     -> Arm(s)
         [] what = "pattern" -> Pattern(s)
         [] what = "expr"    -> Climb(Unary(s), 0)
         [] what = "unary"   -> Unary(s)
         [] what = "primary" -> Primary(s)

ParseModule(toks) == Many(Start(toks), "item", "eof", "none")
=============================================================================
