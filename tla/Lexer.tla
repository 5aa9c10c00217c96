------------------------------- MODULE Lexer -------------------------------
(* Lexer::tokenize (frontend/Lexer.cpp): from a source text to its tokens.  A  *)
(* token is [kind, text]; the kind of a keyword or an operator is its text.    *)
(* Lines and columns are left out, and of the characters the capital letters,  *)
(* @ and ?.                                                                    *)
EXTENDS Integers, Sequences, FiniteSets, SequencesExt

Digits    == {"0", "1", "2", "3", "4", "5", "6", "7", "8", "9"}
HexDigits == Digits \cup {"a", "b", "c", "d", "e", "f"}
Letters   == (HexDigits \ Digits)
               \cup {"g", "h", "i", "j", "k", "l", "m", "n", "o", "p", "q", "r", "s", "t", "u", "v", "w", "x", "y", "z", "_"}
Blanks    == {" ", "\n", "\t"}
Quote     == "\""
Keywords  == {"let", "var", "fn", "return", "if", "else", "match", "struct", "enum", "alloc", "stack", "for", "in",
              "pub", "mut", "true", "false"}
TypeWords == {"i8", "i16", "i32", "i64", "u8", "u16", "u32", "u64", "f32", "f64", "bool", "str"}
Pairs     == {"+=", "->", "-=", "*=", "!=", "==", "=>", "<<", "<=", ">>", ">=", "&&", "||", "::", ".."}
Singles   == {"+", "-", "*", "/", "%", "~", "!", "=", "<", ">", "&", "|", "^", "(", ")", "{", "}", "[", "]",
              ",", ";", ":", "."}

Token(kind, text) == [kind |-> kind, text |-> text]
Eof == Token("eof", "")

-----------------------------------------------------------------------------
(* Positions count from 1; a position past the end reads as no character.      *)
CharAt(src, i)    == IF i \in 1 .. Len(src) THEN SubSeq(src, i, i) ELSE ""
TwoAt(src, i)     == IF i < Len(src) THEN SubSeq(src, i, i + 1) ELSE ""
FirstFrom(src, i, Stop(_)) ==
  LET at == {j \in i .. Len(src) : Stop(j)} IN IF at = {} THEN Len(src) + 1 ELSE CHOOSE j \in at : \A k \in at : j =< k
RunEnd(src, i, chars) == FirstFrom(src, i, LAMBDA j : CharAt(src, j) \notin chars)

(* skip_ws_and_comments.  An unterminated block comment ends before the last   *)
(* character of the text.                                                      *)
CommentEnd(src, i) ==
  LET close == FirstFrom(src, i + 2, LAMBDA j : j = Len(src) \/ TwoAt(src, j) = "*/")
  IN  IF close < Len(src) THEN close + 2 ELSE close
RECURSIVE SkipBlanks(_, _)
SkipBlanks(src, i) ==
  CASE CharAt(src, i) \in Blanks -> SkipBlanks(src, i + 1)
    [] TwoAt(src, i) = "//" -> SkipBlanks(src, FirstFrom(src, i, LAMBDA j : CharAt(src, j) = "\n"))
    [] TwoAt(src, i) = "/*" -> SkipBlanks(src, CommentEnd(src, i))
    [] OTHER -> i

FractionAtAnyDot(src, i) ==                           \* mutant: a range's dots belong to its lower bound
  IF CharAt(src, i) = "." THEN RunEnd(src, i + 1, Digits) ELSE i

(* lex_number: digits, a fraction if a digit follows the dot, an exponent.     *)
FractionEnd(src, i) ==
  IF CharAt(src, i) = "." /\ CharAt(src, i + 1) \in Digits THEN RunEnd(src, i + 1, Digits) ELSE i
ExponentEnd(src, i) ==
  CASE CharAt(src, i) # "e" -> i
    [] CharAt(src, i) = "e" -> RunEnd(src, IF CharAt(src, i + 1) \in {"+", "-"} THEN i + 2 ELSE i + 1, Digits)
Number(src, i) ==
  LET int == RunEnd(src, i, Digits)
      end == ExponentEnd(src, FractionEnd(src, int))
  IN  IF TwoAt(src, i) = "0x" THEN [kind |-> "IntLit", end |-> RunEnd(src, i + 2, HexDigits)]
      ELSE [kind |-> IF end = int THEN "IntLit" ELSE "FloatLit", end |-> end]

(* lex_string_lit: up to the closing quote, a backslash hides one character.   *)
RECURSIVE StringEnd(_, _)
StringEnd(src, i) ==
  CASE CharAt(src, i) = Quote -> i + 1
    [] CharAt(src, i) = "\\" /\ i < Len(src) -> StringEnd(src, i + 2)
    [] i > Len(src) -> 0
    [] OTHER -> StringEnd(src, i + 1)

Scan(src, i) ==
  LET c    == CharAt(src, i)
      word == RunEnd(src, i, Letters \cup Digits)
      name == SubSeq(src, i, word - 1)
      pair == TwoAt(src, i)
  IN  CASE c \in Letters -> [kind |-> IF name \in Keywords \cup TypeWords THEN name ELSE "Ident", end |-> word]
        [] c \in Digits  -> Number(src, i)
        [] c = Quote     -> [kind |-> "StrLit", end |-> StringEnd(src, i + 1)]
        [] pair \in Pairs -> [kind |-> pair, end |-> i + 2]
        [] pair \notin Pairs /\ c \in Singles -> [kind |-> c, end |-> i + 1]
        [] OTHER -> [kind |-> "", end |-> 0]

(* The tokens up to the first error, an end mark if there is none.             *)
RECURSIVE LexFrom(_, _, _)
LexFrom(src, from, out) ==
  LET i == SkipBlanks(src, from)
      t == Scan(src, i)
  IN  CASE i > Len(src) -> [ok |-> TRUE, toks |-> Append(out, Eof)]
        [] i =< Len(src) /\ t.end = 0 -> [ok |-> FALSE, toks |-> out]
        [] OTHER -> LexFrom(src, t.end, Append(out, Token(t.kind, SubSeq(src, i, t.end - 1))))
Tokenize(src) == LexFrom(src, 1, << >>)

-----------------------------------------------------------------------------
(* The reference: which texts are tokens, said without scanning.               *)
AllIn(t, chars) == \A i \in 1 .. Len(t) : CharAt(t, i) \in chars
IsDigits(t)   == t # "" /\ AllIn(t, Digits)
IsExponent(t) ==
  \/ t = ""
  \/ CharAt(t, 1) = "e" /\ LET rest == SubSeq(t, 2, Len(t))
                          IN  AllIn(rest, Digits) \/ (CharAt(rest, 1) \in {"+", "-"} /\ AllIn(SubSeq(rest, 2, Len(rest)), Digits))
IsNumber(t) ==
  \/ TwoAt(t, 1) = "0x" /\ AllIn(SubSeq(t, 3, Len(t)), HexDigits)
  \/ \E i, j \in 0 .. Len(t) :
       /\ i =< j /\ IsDigits(SubSeq(t, 1, i)) /\ IsExponent(SubSeq(t, j + 1, Len(t)))
       /\ i = j \/ (CharAt(t, i + 1) = "." /\ IsDigits(SubSeq(t, i + 2, j)))
IsString(t) ==
  /\ Len(t) > 1 /\ CharAt(t, 1) = Quote /\ CharAt(t, Len(t)) = Quote
  /\ \A i \in 2 .. Len(t) - 1 : CharAt(t, i) # Quote
IsToken(t) ==
  \/ AllIn(t, Letters \cup Digits) /\ CharAt(t, 1) \in Letters
  \/ IsNumber(t) \/ IsString(t) \/ t \in Pairs \cup Singles

(* Without comments and escapes: the tokens of src are the longest ones, left  *)
(* to right, and nothing but blanks is lost between them.                      *)
RECURSIVE LongestTokens(_)
LongestTokens(src) ==
  LET ends == {j \in 1 .. Len(src) : IsToken(SubSeq(src, 1, j))}
      end  == CHOOSE j \in ends : \A k \in ends : k =< j
  IN  CASE src = "" -> << >>
        [] CharAt(src, 1) \in Blanks -> LongestTokens(SubSeq(src, 2, Len(src)))
        [] src # "" /\ CharAt(src, 1) \notin Blanks /\ ends = {} -> << "error" >>
        [] OTHER -> << SubSeq(src, 1, end) >> \o LongestTokens(SubSeq(src, end + 1, Len(src)))
=============================================================================
