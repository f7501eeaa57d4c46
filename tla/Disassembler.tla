------------------------------- MODULE Disassembler -------------------------------
(***************************************************************************)
(* bytecode_disassemble of src/neobytecode.c: what its switch shows for    *)
(* each opcode, in the order of its cases, and what one call of it prints  *)
(* and where it leaves intrpointer.  Colours and columns are left out; a   *)
(* register is shown by its name and a number by its value.                *)
(***************************************************************************)
EXTENDS AddressSpace, Sequences

Shown(code, mnemonic, operands, width) ==
  [code |-> code,
   mnemonic |-> mnemonic,
   operands |-> operands,   (* the names printed                             *)
   width |-> width]         (* the bytes of the number printed behind them   *)

\* The cases of one mnemonic: an opcode alone, or with a byte or a word.
Alone(mnemonic, code) == {Shown(code, mnemonic, <<>>, 0)}
WithByte(mnemonic, code) == {Shown(code, mnemonic, <<>>, 1)}
WithWord(mnemonic, code) == {Shown(code, mnemonic, <<>>, 2)}

\* One case per name, the opcodes stride apart.
PerName(mnemonic, names, first, stride, width) ==
  {Shown(first + stride * (n - 1), mnemonic, <<names[n]>>, width) :
     n \in DOMAIN names}

RegisterOrder == <<"b", "c", "d", "e", "h", "l", "m", "a">>
PairOrder == <<"b", "d", "h", "sp">>
RestartOrder == <<"0", "1", "2", "3", "4", "5", "6", "7">>

OnRegister(mnemonic, first) == PerName(mnemonic, RegisterOrder, first, 1, 0)
OnEighth(mnemonic, first, width) ==
  PerName(mnemonic, RegisterOrder, first, 8, width)
OnPair(mnemonic, first, width) == PerName(mnemonic, PairOrder, first, 16, width)
OnStackPair(mnemonic, first) ==
  PerName(mnemonic, [PairOrder EXCEPT ![4] = "psw"], first, 16, 0)

\* The moves to one operand; a move from memory to memory is the hlt.
MovesTo(dest) ==
  LET d == CHOOSE i \in 1 .. 8 : RegisterOrder[i] = dest
      code(n) == \h40 + 8 * (d - 1) + n - 1
  IN {Shown(code(n), "mov", <<dest, RegisterOrder[n]>>, 0) :
        n \in {i \in 1 .. 8 : code(i) # \h76}}

CasesAciToCmc ==
  WithByte("aci", \hCE) \cup OnRegister("adc", \h88)
    \cup OnRegister("add", \h80) \cup WithByte("adi", \hC6)
    \cup OnRegister("ana", \hA0) \cup WithByte("ani", \hE6)
    \cup WithWord("call", \hCD) \cup WithWord("cc", \hDC)
    \cup WithWord("cm", \hFC) \cup Alone("cma", \h2F) \cup Alone("cmc", \h3F)

CasesCmpToDcx ==
  OnRegister("cmp", \hB8) \cup WithWord("cnc", \hD4) \cup WithWord("cnz", \hC4)
    \cup WithWord("cp", \hF4) \cup WithWord("cpe", \hEC)
    \cup WithByte("cpi", \hFE) \cup WithWord("cpo", \hE4)
    \cup WithWord("cz", \hCC) \cup Alone("daa", \h27)
    \cup OnPair("dad", \h09, 0) \cup OnEighth("dcr", \h05, 0)
    \cup OnPair("dcx", \h0B, 0)

\* Mutant of CasesDiToJz: the port of 'in' is forgotten.
CasesDiToJzNoPort ==
  Alone("di", \hF3) \cup Alone("ei", \hFB) \cup Alone("hlt", \h76)
    \cup Alone("in", \hDB) \cup OnEighth("inr", \h04, 0)
    \cup OnPair("inx", \h03, 0) \cup WithWord("jc", \hDA)
    \cup WithWord("jm", \hFA) \cup WithWord("jmp", \hC3)
    \cup WithWord("jnc", \hD2) \cup WithWord("jnz", \hC2)
    \cup WithWord("jp", \hF2) \cup WithWord("jpe", \hEA)
    \cup WithWord("jpo", \hE2) \cup WithWord("jz", \hCA)

CasesDiToJz ==
  Alone("di", \hF3) \cup Alone("ei", \hFB) \cup Alone("hlt", \h76)
    \cup WithByte("in", \hDB) \cup OnEighth("inr", \h04, 0)
    \cup OnPair("inx", \h03, 0) \cup WithWord("jc", \hDA)
    \cup WithWord("jm", \hFA) \cup WithWord("jmp", \hC3)
    \cup WithWord("jnc", \hD2) \cup WithWord("jnz", \hC2)
    \cup WithWord("jp", \hF2) \cup WithWord("jpe", \hEA)
    \cup WithWord("jpo", \hE2) \cup WithWord("jz", \hCA)

CasesLdaToLxi ==
  WithWord("lda", \h3A) \cup PerName("ldax", <<"b", "d">>, \h0A, 16, 0)
    \cup WithWord("lhld", \h2A) \cup OnPair("lxi", \h01, 2)

CasesMovToA == MovesTo("a")
CasesMovToBCD == MovesTo("b") \cup MovesTo("c") \cup MovesTo("d")
CasesMovToEH == MovesTo("e") \cup MovesTo("h")
CasesMovToLM == MovesTo("l") \cup MovesTo("m")

CasesMviToPush ==
  OnEighth("mvi", \h06, 1) \cup Alone("nop", \h00) \cup OnRegister("ora", \hB0)
    \cup WithByte("ori", \hF6) \cup WithByte("out", \hD3)
    \cup Alone("pchl", \hE9) \cup OnStackPair("pop", \hC1)
    \cup OnStackPair("push", \hC5)

CasesRalToRz ==
  Alone("ral", \h17) \cup Alone("rar", \h1F) \cup Alone("rc", \hD8)
    \cup Alone("ret", \hC9) \cup Alone("rim", \h20) \cup Alone("rlc", \h07)
    \cup Alone("rm", \hF8) \cup Alone("rnc", \hD0) \cup Alone("rnz", \hC0)
    \cup Alone("rp", \hF0) \cup Alone("rpe", \hE8) \cup Alone("rpo", \hE0)
    \cup Alone("rrc", \h0F) \cup PerName("rst", RestartOrder, \hC7, 8, 0)
    \cup Alone("rz", \hC8)

CasesSbbToStc ==
  OnRegister("sbb", \h98) \cup WithByte("sbi", \hDE) \cup WithWord("shld", \h22)
    \cup Alone("sim", \h30) \cup Alone("sphl", \hF9) \cup WithWord("sta", \h32)
    \cup PerName("stax", <<"b", "d">>, \h02, 16, 0) \cup Alone("stc", \h37)

CasesSubToXthl ==
  OnRegister("sub", \h90) \cup WithByte("sui", \hD6) \cup Alone("xchg", \hEB)
    \cup OnRegister("xra", \hA8) \cup WithByte("xri", \hEE)
    \cup Alone("xthl", \hE3)

Cases ==
  CasesAciToCmc \cup CasesCmpToDcx \cup CasesDiToJz \cup CasesLdaToLxi
    \cup CasesMovToA \cup CasesMovToBCD \cup CasesMovToEH \cup CasesMovToLM
    \cup CasesMviToPush \cup CasesRalToRz \cup CasesSbbToStc \cup CasesSubToXthl

\* The ten opcodes without a case print nothing in the column of the mnemonic.
Decoded ==
  [code \in Byte |->
     IF \E shown \in Cases : shown.code = code
       THEN CHOOSE shown \in Cases : shown.code = code
       ELSE Shown(code, "", <<>>, 0)]

(***************************************************************************)
(* One call, over the bytes of the memory: a word is printed with its      *)
(* second byte first.  intrpointer, a u16, goes round after the last       *)
(* address; the bytes in the last column, bak + i below intrpointer, are   *)
(* then not printed.                                                       *)
(***************************************************************************)
bytecode_disassemble(bytes, pointer) ==
  LET shown == Decoded[bytes[pointer]]
      intrpointer == Wrap(pointer + 1 + shown.width)
      first == bytes[Wrap(pointer + 1)]
      number == CASE shown.width = 0 -> <<>>
                  [] shown.width = 1 -> <<first>>
                  [] OTHER -> <<AsWord(bytes[Wrap(pointer + 1) + 1], first)>>
  IN [at |-> pointer,
      mnemonic |-> shown.mnemonic,
      operands |-> shown.operands,
      number |-> number,
      width |-> shown.width,
      bytes |-> [i \in {k \in 0 .. 2 : pointer + k < intrpointer} |->
                   bytes[pointer + i]],
      intrpointer |-> intrpointer]
===================================================================================
