---------------------------- MODULE MCExecEncoder ----------------------------
(* Machine functions of the shapes the instruction selector emits: one region  *)
(* per select, one label ... jmp per loop.  All but the last three sets conform. *)
EXTENDS ExecEncoder

MCArgRegs == <<2, 1, Rdx, 0>>

I(op, d, u, imm) == [op |-> op, def |-> d, uses |-> u, imm |-> imm]
P(k)       == I("param", k, << >>, k)
Imm(d)     == I("mov_imm", d, << >>, 0)
Alu(d, u)  == I("alu", d, u, 0)
Cmp(d, u)  == I("cmp", d, u, 0)
CallTo(d, u) == I("call", d, u, 0)
MovTo(d, s) == I("mov", d, <<s>>, 0)
LabelOf(l) == I("label", NoVReg, << >>, l)
JmpTo(l)   == I("jmp", NoVReg, << >>, l)
JzTo(v, l) == I("jz", NoVReg, <<v>>, l)
RetOf(v)   == I("ret", NoVReg, <<v>>, 0)

AllRead(f) == \A i \in DOMAIN f : f[i].def = NoVReg \/ \E j \in i + 1 .. Len(f) : f[i].def \in Uses(f, j)
InOrder(f) == \A i \in DOMAIN f : \A v \in Uses(f, i) : \E j \in 1 .. i - 1 : f[j].def = v

FirstParams(n) == [k \in 1 .. n |-> P(k - 1)]
Straight ==
  {f \in {FirstParams(n) \o <<I(op, 10, u, 0), CallTo(11, c), Alu(12, r), Alu(13, <<s, 12>>), RetOf(13)>> :
            n \in 1 .. 4, op \in {"alu", "div"},
            u \in {<<0, 0>>, <<0, 1>>, <<1, 0>>, <<1, 3>>, <<2, 3>>},
            c \in {<<10>>, <<1, 10>>, <<10, 0>>, <<3, 1>>, <<0, 1>>, <<1, 3, 10>>, <<1, 0, 10>>, <<2, 0, 1>>},
            r \in {<<0, 11>>, <<10, 11>>, <<11, 1>>, <<11, 3>>},
            s \in {0, 2, 3, 12}} : InOrder(f) /\ AllRead(f)}
\* Six values alive at once, and one across a call.
Crowded ==
  {<<P(0), P(1)>> \o <<Alu(2, <<0, 1>>), Alu(3, <<0, 2>>), Cmp(4, <<1, 2>>)>> \o x
     \o <<Alu(7, <<a, 6>>), Alu(8, <<7, b>>), Alu(9, <<8, c>>), Alu(10, <<9, d>>), RetOf(10)>> :
     x \in {<<Alu(5, <<3, 4>>), Alu(6, <<5, 0>>)>>, <<Alu(5, <<3, 4>>), CallTo(6, <<5>>)>>},
     a \in {0, 1}, b \in {2, 3}, c \in {4, 5}, d \in {1, 3}}
Branches ==
  {<<P(0), Imm(1), Cmp(2, <<0, 1>>), JzTo(2, 0), Alu(3, <<0, a>>), MovTo(9, 3), JmpTo(1), LabelOf(0)>> \o e
     \o <<MovTo(9, 7), LabelOf(1), Alu(10, <<9, r>>), RetOf(10)>> :
     a \in {0, 1}, r \in {0, 9},
     e \in {<<Imm(5), Alu(7, <<0, 5>>)>>, <<CallTo(5, <<0>>), CallTo(6, <<0>>), Alu(7, <<5, 6>>)>>}}
Loops ==
  {<<P(0), Imm(1), Imm(2), LabelOf(0)>> \o c \o <<Imm(4), Alu(5, <<1, 4>>), Alu(6, <<2, y>>), Cmp(7, <<1, 0>>),
     JzTo(7, 1), MovTo(1, 5), MovTo(2, 6), JmpTo(0), LabelOf(1), Alu(8, <<z, 2>>), RetOf(8)>> :
     c \in {<< >>, <<CallTo(3, <<1>>)>>, <<CallTo(3, <<0, 2>>)>>}, y \in {0, 1}, z \in {0, 1}}
CountTo(w, x, y, z) ==
  <<P(0), P(1), P(2), P(3), Imm(11), Alu(12, <<x, 11>>), LabelOf(0), Imm(4), Alu(5, <<11, 4>>), Alu(6, <<12, y>>),
    Cmp(7, <<11, w>>), JzTo(7, 1), MovTo(11, 5), MovTo(12, 6), JmpTo(0), LabelOf(1), Alu(8, <<z, 12>>), RetOf(8)>>
FourParams == {f \in {CountTo(w, x, y, z) : w, x, y, z \in 0 .. 3} : AllRead(f)}
Nested ==
  {<<P(0), Imm(1), LabelOf(0), Alu(6, <<1, 0>>), MovTo(3, 1), LabelOf(2), Alu(5, <<3, k>>), Cmp(7, <<5, 0>>), JzTo(7, 3),
     MovTo(3, 5), JmpTo(2), LabelOf(3)>> \o <<Alu(8, <<6, 3>>), Cmp(9, <<8, m>>), JzTo(9, 1), MovTo(1, 8), JmpTo(0), LabelOf(1), RetOf(1)>> :
     k \in {0, 1, 3, 6}, m \in {0, 1}}

\* Parameters that only an arm reads stand in the arm; a loop keeps those nothing reads.
ParamsInArms ==
  {<<P(0), Imm(1), Cmp(2, <<0, 1>>), JzTo(2, 0), I("param", 3, << >>, 1), MovTo(9, 3), JmpTo(1), LabelOf(0),
     I("param", 4, << >>, 2), MovTo(9, b), LabelOf(1)>> \o e \o <<RetOf(9)>> :
     b \in {0, 4}, e \in {<< >>, <<CallTo(5, <<9, 0>>), Alu(6, <<5, 9>>)>>}}
UnreadParams ==
  {<<P(0), P(1), P(2), Imm(4), LabelOf(0)>> \o c \o <<Imm(5), Alu(6, <<4, 5>>), Cmp(7, <<6, x>>), JzTo(7, 1), MovTo(4, 6),
     JmpTo(0), LabelOf(1), RetOf(4)>> : x \in {0, 1, 2}, c \in {<< >>, <<CallTo(8, <<4, 0>>)>>}}

\* A value both arms read is computed in the first.
SharedByArms ==
  {<<P(0), Imm(1), Cmp(2, <<0, 1>>), JzTo(2, 0), Alu(3, <<0, 1>>), Alu(4, <<3, 0>>), MovTo(9, 4), JmpTo(1), LabelOf(0),
     Alu(5, <<3, a>>), MovTo(9, 5), LabelOf(1), RetOf(9)>> : a \in {0, 1}}

AllFunctions ==
  Straight \cup Crowded \cup Branches \cup Loops \cup FourParams \cup Nested \cup ParamsInArms \cup UnreadParams \cup SharedByArms
=============================================================================
