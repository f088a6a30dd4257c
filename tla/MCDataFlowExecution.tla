-------------------------- MODULE MCDataFlowExecution --------------------------
(***************************************************************************)
(* Functions of one block with up to three instructions before the return, *)
(* and of three and four blocks: an if without else, an if with one, and a *)
(* loop, with one or two instructions in each block; one block that jumps  *)
(* back to itself.  Functions with products, quotients and the stack are a *)
(* family of their own.                                                    *)
(***************************************************************************)
EXTENDS DataFlowExecution, TLC

R(r) == <<"register", r>>
C(c) == <<"immediate", c>>
M(d) == <<"memory", d>>

I(code, operands) ==
  [code |-> code, condition |-> "", operands |-> operands, target |-> 0, read |-> {}, written |-> {}]
\* An instruction that is not lifted, such as inc, not, xchg or leave.
Other(read, written) == [I("unknown", <<>>) EXCEPT !.read = read, !.written = written]
If(code, condition, operands) == [I(code, operands) EXCEPT !.condition = condition]
To(code, condition, target) == [If(code, condition, <<>>) EXCEPT !.target = target]
Ret == I("ret", <<>>)

MCRegisters == {"rax", "rdi", "rsi", "rdx", "rbp", "rsp"}
MCParameterRegisters == <<"rdi", "rsi", "rdx">>
MCOffsets == {-4, 8, 16}

Moves ==
  {I("mov", <<R("rax"), R("rdi")>>), I("mov", <<R("rdi"), C(7)>>), I("mov", <<M(-4), R("rax")>>),
   I("mov", <<R("rax"), M(-4)>>), I("mov", <<M(16), R("rax")>>), I("mov", <<R("rax"), M(16)>>)}

Operations ==
  {I("add", <<R("rax"), R("rsi")>>), I("add", <<M(16), C(1)>>), I("xor", <<R("rax"), R("rax")>>),
   I("neg", <<R("rax")>>), I("lea", <<R("rax"), R("rdi"), R("rsi")>>)}

Comparisons ==
  {I("cmp", <<R("rax"), R("rdi")>>), I("test", <<R("rdi"), R("rdi")>>), I("cmp", <<M(-4), C(5)>>)}

Selections ==
  {If("set", "l", <<R("rax")>>), If("cmov", "s", <<R("rax"), R("rdi")>>), If("cmov", "e", <<R("rdi"), R("rsi")>>)}

Others == {I("call", <<>>)}

Rare ==
  {I("movzx", <<R("rax"), R("rax")>>), I("sub", <<R("rsp"), C(8)>>), I("sub", <<R("rax"), R("rdi")>>),
   I("mov", <<R("rax"), M(8)>>), I("mov", <<M(8), R("rdi")>>), I("and", <<M(-4), R("rsi")>>),
   If("set", "o", <<M(16)>>), If("set", "e", <<M(-4)>>), If("set", "e", <<M(8)>>),
   If("cmov", "l", <<R("rsp"), R("rax")>>), I("mov", <<R("rsp"), C(1)>>),
   I("mov", <<R("rax"), R("rsp")>>), I("frame", <<>>), I("nop", <<>>), I("mov", <<R("rbp"), C(1)>>),
   Other({R("rax")}, {R("rax")}), Other({R("rax"), R("rdi")}, {R("rax"), R("rdi")}),
   Other({M(-4)}, {M(-4)}), Other({R("rsi")}, {}), Other({R("rbp")}, {R("rbp"), R("rsp")}),
   [I("call", <<>>) EXCEPT !.read = {R("rsi")}]}

Common == Moves \cup Operations \cup Comparisons \cup Selections \cup Others

MCOneBlock ==
  {<< <<i, j, k, Ret>> >> : i \in Common, j \in Common, k \in Common}
    \cup {<< <<i, j, Ret>> >> : i \in Common \cup Rare, j \in Common \cup Rare}

\* Products, quotients and the stack.
Wide ==
  {I("mov", <<R("rax"), R("rdi")>>), I("cdq", <<>>), I("idiv", <<R("rsi")>>), I("mul", <<R("rdi")>>),
   I("mov", <<R("rax"), R("rdx")>>), I("mov", <<R("rdx"), C(3)>>), I("push", <<R("rdi")>>),
   I("push", <<R("rax")>>), I("pop", <<R("rax")>>), I("pop", <<R("rdi")>>),
   I("imul", <<R("rax"), R("rsi")>>), I("imul3", <<R("rax"), R("rdi"), C(3)>>),
   I("or", <<R("rax"), R("rdi")>>), I("shl", <<R("rax"), C(2)>>), I("cmp", <<R("rax"), R("rdi")>>),
   If("set", "e", <<R("rax")>>), I("call", <<>>), Other({R("rax")}, {R("rax")}), I("sub", <<R("rsp"), C(8)>>)}

MCWide ==
  {<< <<i, j, k, Ret>> >> : i \in Wide, j \in Wide, k \in Wide}
    \cup {<< <<i, j, k, l, Ret>> >> :
            i \in {I("mov", <<R("rax"), R("rdi")>>), I("push", <<R("rdi")>>)},
            j \in {I("cdq", <<>>), I("push", <<R("rsi")>>)},
            k \in {I("idiv", <<R("rsi")>>), I("pop", <<R("rsi")>>), I("call", <<>>)},
            l \in {I("mov", <<R("rax"), R("rdx")>>), I("pop", <<R("rax")>>), I("call", <<>>)}}
    \cup {<< <<i, To("jcc", "e", 3)>>, <<j>>, <<k, Ret>> >> :
            i \in {I("cmp", <<R("rdi"), R("rsi")>>), I("push", <<R("rdi")>>), I("mov", <<R("rdx"), C(3)>>)},
            j \in Wide, k \in Wide}

\* One block that is executed again and again.
MCOneLoop ==
  {<< <<i, j, To("jmp", "", 1)>> >> : i \in Common, j \in Common}
    \cup {<< <<i, To("jcc", "e", 1)>> >> : i \in Common}

\* In several blocks.
Body == Moves \cup {I("add", <<R("rax"), R("rsi")>>), I("cmp", <<R("rax"), R("rdi")>>),
                    If("cmov", "e", <<R("rdi"), R("rsi")>>), I("call", <<>>)}

MCIfThen ==
  {<< <<i, j, To("jcc", "e", 3)>>, <<k>>, <<l, Ret>> >> : i \in Comparisons \cup Others, j \in Body, k \in Body, l \in Body}

MCIfElse ==
  {<< <<i, To("jcc", "l", 3)>>, <<j, To("jmp", "", 4)>>, <<k>>, <<l, Ret>> >> :
     i \in Comparisons, j \in Body, k \in Body, l \in Body}

MCLoop ==
  {<< <<i>>, <<j, I("cmp", <<R("rax"), R("rdi")>>), k, To("jcc", "s", 2)>>, <<l, Ret>> >> :
     i \in Body, j \in Body, k \in Body, l \in {I("nop", <<>>), I("call", <<>>), I("mov", <<R("rax"), M(16)>>)}}

\* absolute_value of the sample: x if x < 0 is false, else -x.
MCAbsoluteValue ==
  {<< <<I("mov", <<R("rax"), R("rdi")>>), I("neg", <<R("rax")>>),
        If("cmov", "s", <<R("rax"), R("rdi")>>), Ret>> >>}

\* A longer function for each of the other lapses: shadowed, loop, overwritten, other
\* block, flags, unnamed (a remainder, an instruction that is not lifted, a parameter
\* that is written on the other path), stack and unlifted.
Return(r) == <<I("mov", <<R("rax"), R(r)>>), Ret>>

MCLapses ==
  LET Nops == [k \in 1 .. 4 |-> I("nop", <<>>)]
  IN  {[p EXCEPT ![1] = Nops \o p[1]] : p \in
         {<< <<I("cmp", <<R("rdi"), R("rsi")>>), If("set", "e", <<R("rax")>>)>> \o Return("rdi")>>,
          << <<I("mov", <<M(-4), R("rdi")>>), I("add", <<R("rdi"), R("rsi")>>), To("jmp", "", 1)>> >>,
          << <<I("mov", <<R("rax"), M(-4)>>), I("mov", <<M(-4), R("rdi")>>), Ret>> >>,
          << <<I("cmp", <<R("rdi"), R("rsi")>>), To("jcc", "e", 3)>>, <<I("mov", <<M(16), R("rdi")>>)>>,
             <<I("mov", <<R("rax"), M(16)>>), Ret>> >>,
          << <<I("cmp", <<R("rdi"), R("rsi")>>), I("add", <<R("rdi"), R("rsi")>>),
               If("set", "e", <<R("rax")>>), Ret>> >>,
          << <<I("mov", <<R("rax"), R("rdx")>>), I("cdq", <<>>), I("idiv", <<R("rsi")>>)>> \o Return("rdx")>>,
          << <<Other({R("rdi")}, {R("rdi")})>> \o Return("rdi")>>,
          << <<I("cmp", <<R("rsi"), C(5)>>), To("jcc", "e", 3)>>, <<I("mov", <<R("rdi"), C(7)>>)>>, Return("rdi")>>,
          << <<I("push", <<R("rdi")>>), I("push", <<R("rsi")>>), I("pop", <<R("rax")>>), I("pop", <<R("rax")>>), Ret>> >>,
          << <<Other({M(-4)}, {M(-4)}), I("mov", <<R("rax"), M(-4)>>), Ret>> >>}}

MCNotRecovered == MCAbsoluteValue \cup MCLapses

MCPrograms == MCOneBlock \cup MCOneLoop \cup MCWide \cup MCIfThen \cup MCIfElse \cup MCLoop

================================================================================
