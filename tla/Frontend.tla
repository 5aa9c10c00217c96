------------------------------ MODULE Frontend ------------------------------
(* The front of the compiler, Lexer and Parser one after the other, on three   *)
(* kinds of source text: modules printed from their trees, item by item; texts *)
(* of free tokens between fixed ones; texts of free characters.                    *)
(* Bounds: MaxItems items, MaxWords tokens, MaxChars characters.               *)
EXTENDS Parser

CONSTANTS Items,     \* top-level items a module may consist of
          Before, After,  \* the tokens around the free ones
          Words,     \* free tokens
          Chars,     \* free characters
          MaxItems, MaxWords, MaxChars

ASSUME FrontendAssumption == {MaxItems, MaxWords, MaxChars} \subseteq Nat

VARIABLES items, words, chars
fvars == <<items, words, chars>>

-----------------------------------------------------------------------------
(* The text of a tree, with the parentheses it needs and a semicolon after     *)
(* every statement that may have one.                                          *)
Strength(n) ==
  CASE n.k \in {"assign", "binary"} -> Precedence(n.v)
    [] n.k = "unary" -> 14
    [] OTHER -> 15

RECURSIVE Printed(_, _)
Printed(n, least) ==
  LET kids == n.c
      text(m) == Printed(m, 0)
      all(ms) == FlattenSeq([i \in DOMAIN ms |-> text(ms[i])])
      list(ms) == FlattenSeq([i \in DOMAIN ms |-> text(ms[i]) \o (IF i < Len(ms) THEN <<",">> ELSE << >>)])
      stmt(m) == IF m.k = "assign" THEN text(m) \o <<";">> ELSE text(m)
      opt(mark, m) == IF m = Absent THEN << >> ELSE mark \o text(m)
      path(ms) == <<n.v>> \o FlattenSeq([i \in DOMAIN ms |-> <<"::", ms[i].v>>])
      pat(ms)  == IF ms = << >> THEN << >> ELSE <<"(">> \o text(ms[1]) \o <<")">>
      segs == SelectSeq(kids, LAMBDA m : m.k = "segment")
      own ==
        CASE n.k \in {"literal", "ident", "ident pat"} -> <<n.v>>
          [] n.k = "path" -> path(kids)
          [] n.k = "binary" -> Printed(kids[1], Strength(n)) \o <<n.v>> \o Printed(kids[2], Strength(n) + 1)
          [] n.k = "assign" -> Printed(kids[1], Strength(n) + 1) \o <<n.v>> \o Printed(kids[2], Strength(n))
          [] n.k = "unary" -> <<n.v>> \o Printed(kids[1], 14)
          [] n.k = "call" -> Printed(kids[1], 15) \o <<"(">> \o list(Tail(kids)) \o <<")">>
          [] n.k = "field of" -> Printed(kids[1], 15) \o <<".", n.v>>
          [] n.k = "index" -> Printed(kids[1], 15) \o <<"[">> \o text(kids[2]) \o <<"]">>
          [] n.k = "block" -> <<"{">> \o FlattenSeq([i \in DOMAIN kids |-> stmt(kids[i])]) \o <<"}">>
          [] n.k = "expr stmt" -> text(kids[1]) \o <<";">>
          [] n.k \in {"let", "var"} -> <<n.k, n.v>> \o opt(<<":">>, kids[1]) \o opt(<<"=">>, kids[2]) \o <<";">>
          [] n.k = "return" -> <<"return">> \o opt(<< >>, kids[1]) \o <<";">>
          [] n.k = "if" -> <<"if">> \o all(SubSeq(kids, 1, 2)) \o opt(<<"else">>, kids[3])
          [] n.k = "for" -> <<"for", n.v, "in">> \o text(kids[1]) \o <<"..">> \o all(Tail(kids))
          [] n.k = "match" -> <<"match">> \o text(kids[1]) \o <<"{">> \o list(Tail(kids)) \o <<"}">>
          [] n.k = "arm" -> text(kids[1]) \o <<"=>">> \o text(kids[2])
          [] n.k = "member pat" -> <<".", n.v>> \o pat(kids)
          [] n.k = "path pat" -> path(segs) \o pat(SubSeq(kids, Len(segs) + 1, Len(kids)))
          [] n.k = "param" -> <<n.v, ":">> \o text(kids[1])
          [] n.k = "mut param" -> <<"mut", n.v, ":">> \o text(kids[1])
          [] n.k = "field" -> <<n.v, ":">> \o text(kids[1])
          [] n.k = "variant" -> <<n.v>> \o (IF kids = << >> THEN << >> ELSE <<"(">> \o list(kids) \o <<")">>)
          [] n.k \in {"struct", "enum"} -> <<n.k, n.v, "{">> \o list(kids) \o <<"}">>
          [] n.k \in {"fn", "pub fn"} ->
               (IF n.k = "fn" THEN <<"fn", n.v, "(">> ELSE <<"pub", "fn", n.v, "(">>)
                 \o list(SubSeq(kids, 1, Len(kids) - 2)) \o <<")">>
                 \o opt(<<"->">>, kids[Len(kids) - 1]) \o text(Last(kids))
  IN  IF Strength(n) < least THEN <<"(">> \o own \o <<")">> ELSE own

TextOf(trees) == FlattenSeq([i \in DOMAIN trees |-> Printed(trees[i], 0)])
Spelled(tokens) == FoldLeft(LAMBDA src, t : src \o t \o " ", "", tokens)
Parsed(tokens) == ParseModule(Tokenize(Spelled(tokens)).toks)

-----------------------------------------------------------------------------
Write(item) ==
  /\ words = << >> /\ chars = "" /\ Len(items) < MaxItems
  /\ items' = Append(items, item)
  /\ UNCHANGED <<words, chars>>
Say(word) ==
  /\ items = << >> /\ chars = "" /\ Len(words) < MaxWords
  /\ words' = Append(words, word)
  /\ UNCHANGED <<items, chars>>
Type(char) ==
  /\ items = << >> /\ words = << >> /\ Len(chars) < MaxChars
  /\ chars' = chars \o char
  /\ UNCHANGED <<items, words>>

FrontendInit == items = << >> /\ words = << >> /\ chars = ""
FrontendNext == (\E i \in Items : Write(i)) \/ (\E w \in Words : Say(w)) \/ (\E c \in Chars : Type(c))
FrontendSpec == FrontendInit /\ [][FrontendNext]_fvars

-----------------------------------------------------------------------------
(* Every tree is parsed from its own text: the parser accepts each sentence of *)
(* the language and groups its operators, branches, lists and items as meant.  *)
RoundTrip ==
  LET r == Parsed(TextOf(items)) IN r.ok /\ r.errs = 0 /\ r.c = items

(* Where the parser reports nothing, its tree is the text: apart from brackets *)
(* and separators no token is dropped, none invented, none read twice - though *)
(* expect goes on without the token it wants, and a list ends where it may.    *)
Essential(tokens) == SelectSeq(tokens, LAMBDA t : t \notin {"(", ")", ",", ";"})
AcceptedTextIsKept ==
  LET text == Before \o words \o After
      r    == Parsed(text)
  IN  r.ok /\ r.errs = 0 => Essential(TextOf(r.c)) = Essential(text)

(* The tokens of a text are the longest ones from left to right, and the first *)
(* character that begins none is the lexer's error.                            *)
LexesLongest ==
  LET lexed == Tokenize(chars)
      texts == [i \in DOMAIN lexed.toks |-> lexed.toks[i].text]
  IN  LongestTokens(chars) = IF lexed.ok THEN Front(texts) ELSE Append(texts, "error")
=============================================================================
