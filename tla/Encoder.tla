--------------------------------- MODULE Encoder ---------------------------------
(***************************************************************************)
(* The syntax of statements (the compile_ functions and compilationTable   *)
(* of src/compiler.c) and their encoding (src/codegen_neovm.c), as a       *)
(* function from a source and a place in it to what the statement there    *)
(* makes the compiler do.                                                  *)
(***************************************************************************)
EXTENDS Scanner, Numbers

-----------------------------------------------------------------------------
(* compilationTable: which operands a mnemonic takes.                       *)

NoOperand ==
  {"cma", "cmc", "daa", "hlt", "nop", "pchl", "ral", "rar", "rc", "ret", "rlc",
   "rm", "rnc", "rnz", "rp", "rpe", "rpo", "rrc", "rz", "sphl", "stc", "xchg",
   "xthl"}
Hex8 == {"aci", "adi", "ani", "cpi", "in", "ori", "out", "sbi", "sui", "xri"}
Hex16 ==
  {"call", "cc", "cm", "cnc", "cnz", "cp", "cpe", "cpo", "cz", "jc", "jm", "jmp",
   "jnc", "jnz", "jp", "jpe", "jpo", "jz", "lda", "lhld", "shld", "sta"}
RegOrMem == {"adc", "add", "ana", "cmp", "dcr", "inr", "ora", "sbb", "sub", "xra"}
PairOrSp == {"dad", "dcx", "inx"}
PairOrPsw == {"pop", "push"}
PairBOrD == {"ldax", "stax"}

-----------------------------------------------------------------------------
(* The bytes of an instruction.                                             *)

codegen_get_opcode ==
  [aci |-> \hCE, adi |-> \hC6, ani |-> \hE6, call |-> \hCD, cc |-> \hDC,
   cm |-> \hFC, cma |-> \h2F, cmc |-> \h3F, cnc |-> \hD4, cnz |-> \hC4,
   cp |-> \hF4, cpe |-> \hEC, cpi |-> \hFE, cpo |-> \hE4, cz |-> \hCC,
   daa |-> \h27, hlt |-> \h76, in |-> \hDB, jc |-> \hDA, jm |-> \hFA,
   jmp |-> \hC3, jnc |-> \hD2, jnz |-> \hC2, jp |-> \hF2, jpe |-> \hEA,
   jpo |-> \hE2, jz |-> \hCA, lda |-> \h3A, lhld |-> \h2A, nop |-> \h00,
   ori |-> \hF6, out |-> \hD3, pchl |-> \hE9, ral |-> \h17, rar |-> \h1F,
   rc |-> \hD8, ret |-> \hC9, rlc |-> \h07, rm |-> \hF8, rnc |-> \hD0,
   rnz |-> \hC0, rp |-> \hF0, rpe |-> \hE8, rpo |-> \hE0, rrc |-> \h0F,
   rz |-> \hC8, sbi |-> \hDE, shld |-> \h22, sphl |-> \hF9, sta |-> \h32,
   stc |-> \h37, sui |-> \hD6, xchg |-> \hEB, xri |-> \hEE, xthl |-> \hE3]

\* The seven registers, and M, whose number the callers give.
codegen_get_reg_number ==
  [a |-> 7, b |-> 0, c |-> 1, d |-> 2, e |-> 3, h |-> 4, l |-> 5, m |-> 6]

codegen_write_reg_or_mem(mnemonic, num) ==
  CASE mnemonic = "dcr" -> \h05 + 8 * num
    [] mnemonic = "inr" -> \h04 + 8 * num
    [] mnemonic = "mvi" -> \h06 + 8 * num
    [] OTHER -> num + [adc |-> \h88, add |-> \h80, ana |-> \hA0, cmp |-> \hB8,
                       ora |-> \hB0, sbb |-> \h98, sub |-> \h90,
                       xra |-> \hA8][mnemonic]

codegen_write_regpair(mnemonic, reg) ==
  16 * reg + [dad |-> \h09, dcx |-> \h0B, inx |-> \h03, ldax |-> \h0A,
              lxi |-> \h01, pop |-> \hC1, push |-> \hC5, stax |-> \h02][mnemonic]

\* sp and psw stand for the fourth pair.
PairNumber(name) ==
  IF name \in {"sp", "psw"} THEN 3 ELSE codegen_get_reg_number[name] \div 2

\* Mutant of codegen_mov: destination and source are swapped.
codegen_mov_swapped(dest, source) ==
  \h40 + codegen_get_reg_number[dest] + 8 * codegen_get_reg_number[source]

codegen_mov(dest, source) ==
  \h40 + 8 * codegen_get_reg_number[dest] + codegen_get_reg_number[source]

-----------------------------------------------------------------------------
(* Operands, as they are spelled.                                           *)

Pairs == {"b", "d", "h"}

\* Mutant of Registers: the accumulator is no operand.
RegistersOfPairs == {"b", "c", "d", "e", "h", "l"}

Registers == {"a", "b", "c", "d", "e", "h", "l"}

Spells(token, names) == \E name \in names : token.text = Chars(name)
Spelled(token, names) == CHOOSE name \in names : token.text = Chars(name)

-----------------------------------------------------------------------------
(* What a statement does: it stores its bytes; or some bytes before an      *)
(* error is found; or it declares or uses a label; or there is none left.   *)

Effect(kind, bytes, label, last) ==
  [kind |-> kind, bytes |-> bytes, label |-> label,
   current |-> Stop(last), line |-> last.line]

Stores(bytes, last) == Effect("stores", bytes, <<>>, last)
Fails(bytes, last) == Effect("fails", bytes, <<>>, last)

\* The bytes of a number, the low one first.
Little(number, width) ==
  IF width = 1 THEN <<Word16(number)>>
               ELSE <<Word16(number) % 256, Word16(number) \div 256>>

\* compile_hex, after the opcode has been stored: x and y are the next tokens.
compile_hex(opcode, x, y, width) ==
  CASE x.type = "TOKEN_IDENTIFIER" /\ width = 2 ->
         Effect("uses", <<opcode>>, x.text, x)
    [] /\ x.type = "TOKEN_NUMBER"
       /\ y.type = "TOKEN_IDENTIFIER" /\ y.text = <<"h">>
       /\ Below(CompiledNumber(x.text), 2 * width) ->
         Stores(<<opcode>> \o Little(CompiledNumber(x.text), width), y)
    [] OTHER -> Fails(<<opcode>>, x)

\* compile_mov stores nothing before it has seen all.
compile_mov(a, b, c) ==
  LET sources == IF Spells(a, {"m"}) THEN Registers ELSE Registers \cup {"m"}
  IN IF /\ Spells(a, Registers \cup {"m"})
        /\ b.type = "TOKEN_COMMA"
        /\ Spells(c, sources)
       THEN Stores(<<codegen_mov(Spelled(a, Registers \cup {"m"}),
                                 Spelled(c, sources))>>, c)
       ELSE Fails(<<>>, a)

\* A register, M or a pair: an operand among names.
Encoded(op, name) ==
  IF op \in RegOrMem \cup {"mvi"}
    THEN codegen_write_reg_or_mem(op, codegen_get_reg_number[name])
    ELSE codegen_write_regpair(op, PairNumber(name))

compile_operand(op, a, names) ==
  IF Spells(a, names) THEN Stores(<<Encoded(op, Spelled(a, names))>>, a)
                      ELSE Fails(<<>>, a)

\* mvi and lxi: a comma and a number behind the operand just stored.
compile_second(first, b, c, d, width) ==
  CASE first.kind = "fails" -> first
    [] first.kind = "stores" /\ b.type # "TOKEN_COMMA" -> Fails(first.bytes, b)
    [] OTHER -> compile_hex(first.bytes[1], c, d, width)

\* The statement that begins with token t; a, b, c and d are the tokens that
\* advance() gives after it.
Compiled(t, a, b, c, d) ==
  LET op == t.type
      onOperand == compile_operand(op, a, Registers \cup {"m"})
      onPair(names) == compile_operand(op, a, names)
  IN CASE op = "TOKEN_EOF" -> Effect("ends", <<>>, <<>>, t)
       [] op = "TOKEN_IDENTIFIER" ->
            IF a.type = "TOKEN_COLON" THEN Effect("declares", <<>>, t.text, a)
                                      ELSE Fails(<<>>, a)
       [] op \in NoOperand -> Stores(<<codegen_get_opcode[op]>>, t)
       [] op \in Hex8 -> compile_hex(codegen_get_opcode[op], a, b, 1)
       [] op \in Hex16 -> compile_hex(codegen_get_opcode[op], a, b, 2)
       [] op \in RegOrMem -> onOperand
       [] op \in PairOrSp -> onPair(Pairs \cup {"sp"})
       [] op \in PairOrPsw -> onPair(Pairs \cup {"psw"})
       [] op \in PairBOrD -> onPair({"b", "d"})
       [] op = "mov" -> compile_mov(a, b, c)
       [] op = "mvi" -> compile_second(onOperand, b, c, d, 1)
       [] op = "lxi" -> compile_second(onPair(Pairs \cup {"sp"}), b, c, d, 2)
       [] OTHER -> Fails(<<>>, t)

\* The statement in a source from a place and a line on.
Statement(source, from, line) ==
  LET following(token) == scanToken(source, Stop(token), token.line)
      t == scanToken(source, from, line)
      a == following(t)
      b == following(a)
      c == following(b)
  IN Compiled(t, a, b, c, following(c))
==================================================================================
