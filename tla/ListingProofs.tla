----------------------------- MODULE ListingProofs -----------------------------
(***************************************************************************)
(* The loops of 'show' and 'dis', for every memory and every two addresses *)
(* the user may type.                                                      *)
(***************************************************************************)
EXTENDS Listing, TLAPS

-----------------------------------------------------------------------------
(* The lengths of the disassembler are those of the machine.                *)

\* The instructions with an operand behind them, one by one.
LongCodes ==
  {\h01, \h11, \h21, \h31, \h22, \h2A, \h32, \h3A, \hC3, \hCD,
   \hC2, \hCA, \hD2, \hDA, \hE2, \hEA, \hF2, \hFA,
   \hC4, \hCC, \hD4, \hDC, \hE4, \hEC, \hF4, \hFC}
MiddleCodes ==
  {\h06, \h0E, \h16, \h1E, \h26, \h2E, \h36, \h3E,
   \hC6, \hCE, \hD6, \hDE, \hE6, \hEE, \hF6, \hFE, \hD3, \hDB}

\* Those that a case of its own shows without an operand.
ShortCodes ==
  {\h00, \h07, \h0F, \h17, \h1F, \h20, \h27, \h2F,
   \h30, \h37, \h3F, \h76, \hC0, \hC8, \hC9, \hD0,
   \hD8, \hE0, \hE3, \hE8, \hE9, \hEB, \hF0, \hF3,
   \hF8, \hF9, \hFB}

LEMMA OperandCodes == ThreeByteCodes = LongCodes /\ TwoByteCodes = MiddleCodes
<1>1. /\ LoadPairCodes = {\h01, \h11, \h21, \h31}
      /\ JumpCodes = {\hC2, \hCA, \hD2, \hDA, \hE2, \hEA, \hF2, \hFA}
      /\ CallCodes = {\hC4, \hCC, \hD4, \hDC, \hE4, \hEC, \hF4, \hFC}
      /\ MoveImmediateCodes = {\h06, \h0E, \h16, \h1E, \h26, \h2E, \h36, \h3E}
      /\ ImmediateCodes = {\hC6, \hCE, \hD6, \hDE, \hE6, \hEE, \hF6, \hFE}
  BY DEF LoadPairCodes, JumpCodes, CallCodes, MoveImmediateCodes, ImmediateCodes,
         EveryEighth, EverySixteenth
<1>2. ThreeByteCodes = LongCodes
  BY <1>1 DEF ThreeByteCodes, LongCodes
<1>3. TwoByteCodes = MiddleCodes
  BY <1>1 DEF TwoByteCodes, MiddleCodes
<1> QED BY <1>2, <1>3

LEMMA LengthsOfCodes ==
  /\ \A code \in LongCodes : Length(code) = 3
  /\ \A code \in MiddleCodes : Length(code) = 2
  /\ \A code : code \notin LongCodes \cup MiddleCodes => Length(code) = 1
  /\ \A code \in ShortCodes : Length(code) = 1
<1>1. \A code \in MiddleCodes : code \notin LongCodes
  BY DEF MiddleCodes, LongCodes
<1>2. \A code \in ShortCodes : code \notin LongCodes \cup MiddleCodes
  BY DEF ShortCodes, MiddleCodes, LongCodes
<1> QED BY <1>1, <1>2, OperandCodes DEF Length

\* A case of the switch that steps as far as the machine does.
Agrees(shown) ==
  shown.width \in 0 .. 2 /\ Length(shown.code) = shown.width + 1

LEMMA ShownAgrees ==
  ASSUME NEW code, NEW mnemonic, NEW operands, NEW width \in 0 .. 2,
         Length(code) = width + 1
  PROVE  Agrees(Shown(code, mnemonic, operands, width))
BY DEF Agrees, Shown

LEMMA SingleCasesAgree ==
  ASSUME NEW mnemonic
  PROVE  /\ \A code \in ShortCodes :
              \A shown \in Alone(mnemonic, code) : Agrees(shown)
         /\ \A code \in MiddleCodes :
              \A shown \in WithByte(mnemonic, code) : Agrees(shown)
         /\ \A code \in LongCodes :
              \A shown \in WithWord(mnemonic, code) : Agrees(shown)
BY LengthsOfCodes, ShownAgrees DEF Alone, WithByte, WithWord

LEMMA PerNameAgrees ==
  ASSUME NEW mnemonic, NEW names, NEW first, NEW stride, NEW width \in 0 .. 2,
         \A n \in DOMAIN names : Length(first + stride * (n - 1)) = width + 1
  PROVE  \A shown \in PerName(mnemonic, names, first, stride, width) : Agrees(shown)
BY ShownAgrees DEF PerName

LEMMA OrderDomains ==
  /\ DOMAIN RegisterOrder = 1 .. 8
  /\ DOMAIN PairOrder = 1 .. 4
  /\ DOMAIN [PairOrder EXCEPT ![4] = "psw"] = 1 .. 4
  /\ DOMAIN RestartOrder = 1 .. 8
  /\ DOMAIN <<"b", "d">> = 1 .. 2
BY DEF RegisterOrder, PairOrder, RestartOrder

LEMMA FamiliesAgree ==
  ASSUME NEW mnemonic
  PROVE  /\ \A first \in {\h80, \h88, \h90, \h98, \hA0, \hA8, \hB0, \hB8} :
              \A shown \in OnRegister(mnemonic, first) : Agrees(shown)
         /\ \A first \in {\h04, \h05} :
              \A shown \in OnEighth(mnemonic, first, 0) : Agrees(shown)
         /\ \A shown \in OnEighth(mnemonic, \h06, 1) : Agrees(shown)
         /\ \A first \in {\h03, \h09, \h0B} :
              \A shown \in OnPair(mnemonic, first, 0) : Agrees(shown)
         /\ \A shown \in OnPair(mnemonic, \h01, 2) : Agrees(shown)
         /\ \A first \in {\hC1, \hC5} :
              \A shown \in OnStackPair(mnemonic, first) : Agrees(shown)
         /\ \A first \in {\h02, \h0A} :
              \A shown \in PerName(mnemonic, <<"b", "d">>, first, 16, 0) : Agrees(shown)
         /\ \A shown \in PerName(mnemonic, RestartOrder, \hC7, 8, 0) : Agrees(shown)
<1>1. ASSUME NEW first \in {\h80, \h88, \h90, \h98, \hA0, \hA8, \hB0, \hB8},
             NEW n \in 1 .. 8
      PROVE  Length(first + 1 * (n - 1)) = 0 + 1
  <2>1. first + 1 * (n - 1) \notin LongCodes \cup MiddleCodes
    BY DEF LongCodes, MiddleCodes
  <2> QED BY <2>1, LengthsOfCodes
<1>2. ASSUME NEW first \in {\h04, \h05}, NEW n \in 1 .. 8
      PROVE  Length(first + 8 * (n - 1)) = 0 + 1
  <2>1. first + 8 * (n - 1) \notin LongCodes \cup MiddleCodes
    BY DEF LongCodes, MiddleCodes
  <2> QED BY <2>1, LengthsOfCodes
<1>3. ASSUME NEW n \in 1 .. 8 PROVE Length(\h06 + 8 * (n - 1)) = 1 + 1
  <2>1. \h06 + 8 * (n - 1) \in MiddleCodes
    BY DEF MiddleCodes
  <2> QED BY <2>1, LengthsOfCodes
<1>4. ASSUME NEW first \in {\h03, \h09, \h0B, \hC1, \hC5}, NEW n \in 1 .. 4
      PROVE  Length(first + 16 * (n - 1)) = 0 + 1
  <2>1. first + 16 * (n - 1) \notin LongCodes \cup MiddleCodes
    BY DEF LongCodes, MiddleCodes
  <2> QED BY <2>1, LengthsOfCodes
<1>5. ASSUME NEW n \in 1 .. 4 PROVE Length(\h01 + 16 * (n - 1)) = 2 + 1
  <2>1. \h01 + 16 * (n - 1) \in LongCodes
    BY DEF LongCodes
  <2> QED BY <2>1, LengthsOfCodes
<1>6. ASSUME NEW first \in {\h02, \h0A}, NEW n \in 1 .. 2
      PROVE  Length(first + 16 * (n - 1)) = 0 + 1
  <2>1. first + 16 * (n - 1) \notin LongCodes \cup MiddleCodes
    BY DEF LongCodes, MiddleCodes
  <2> QED BY <2>1, LengthsOfCodes
<1>7. ASSUME NEW n \in 1 .. 8 PROVE Length(\hC7 + 8 * (n - 1)) = 0 + 1
  <2>1. \hC7 + 8 * (n - 1) \notin LongCodes \cup MiddleCodes
    BY DEF LongCodes, MiddleCodes
  <2> QED BY <2>1, LengthsOfCodes
<1>8. \A first \in {\h80, \h88, \h90, \h98, \hA0, \hA8, \hB0, \hB8} :
        \A shown \in OnRegister(mnemonic, first) : Agrees(shown)
  BY <1>1, OrderDomains, PerNameAgrees DEF OnRegister
<1>9. /\ \A first \in {\h04, \h05} :
           \A shown \in OnEighth(mnemonic, first, 0) : Agrees(shown)
      /\ \A shown \in OnEighth(mnemonic, \h06, 1) : Agrees(shown)
  BY <1>2, <1>3, OrderDomains, PerNameAgrees DEF OnEighth
<1>10. /\ \A first \in {\h03, \h09, \h0B} :
            \A shown \in OnPair(mnemonic, first, 0) : Agrees(shown)
       /\ \A shown \in OnPair(mnemonic, \h01, 2) : Agrees(shown)
  BY <1>4, <1>5, OrderDomains, PerNameAgrees DEF OnPair
<1>11. \A first \in {\hC1, \hC5} :
         \A shown \in OnStackPair(mnemonic, first) : Agrees(shown)
  <2> DEFINE names == [PairOrder EXCEPT ![4] = "psw"]
  <2>1. DOMAIN names = 1 .. 4
    BY OrderDomains
  <2>2. \A first : OnStackPair(mnemonic, first)
                     = PerName(mnemonic, names, first, 16, 0)
    BY DEF OnStackPair
  <2> HIDE DEF names
  <2> QED BY <1>4, <2>1, <2>2, PerNameAgrees
<1>12. \A first \in {\h02, \h0A} :
         \A shown \in PerName(mnemonic, <<"b", "d">>, first, 16, 0) : Agrees(shown)
  BY <1>6, OrderDomains, PerNameAgrees
<1>13. \A shown \in PerName(mnemonic, RestartOrder, \hC7, 8, 0) : Agrees(shown)
  BY <1>7, OrderDomains, PerNameAgrees
<1> QED BY <1>8, <1>9, <1>10, <1>11, <1>12, <1>13

LEMMA MovesAgree ==
  ASSUME NEW i \in 1 .. 8
  PROVE  \A shown \in MovesTo(RegisterOrder[i]) : Agrees(shown)
<1> DEFINE d == CHOOSE j \in 1 .. 8 : RegisterOrder[j] = RegisterOrder[i]
           code(n) == \h40 + 8 * (d - 1) + n - 1
<1>1. d \in 1 .. 8
  OBVIOUS
<1>2. ASSUME NEW n \in 1 .. 8 PROVE Length(code(n)) = 0 + 1
  <2>1. code(n) \in 64 .. 127
    BY <1>1
  <2> HIDE DEF d, code
  <2>2. code(n) \notin LongCodes \cup MiddleCodes
    BY <2>1 DEF LongCodes, MiddleCodes
  <2> QED BY <2>2, LengthsOfCodes
<1>3. MovesTo(RegisterOrder[i]) =
        {Shown(code(n), "mov", <<RegisterOrder[i], RegisterOrder[n]>>, 0) :
           n \in {k \in 1 .. 8 : code(k) # \h76}}
  BY DEF MovesTo
<1> HIDE DEF d, code
<1>4. \A n \in 1 .. 8 :
        Agrees(Shown(code(n), "mov", <<RegisterOrder[i], RegisterOrder[n]>>, 0))
  BY <1>2, ShownAgrees
<1> QED BY <1>3, <1>4

LEMMA RegisterNumbers ==
  \A dest \in {"a", "b", "c", "d", "e", "h", "l", "m"} :
    \E i \in 1 .. 8 : RegisterOrder[i] = dest
<1>1. /\ RegisterOrder[8] = "a" /\ RegisterOrder[1] = "b" /\ RegisterOrder[2] = "c"
      /\ RegisterOrder[3] = "d" /\ RegisterOrder[4] = "e" /\ RegisterOrder[5] = "h"
      /\ RegisterOrder[6] = "l" /\ RegisterOrder[7] = "m"
  BY DEF RegisterOrder
<1> QED BY <1>1

LEMMA CasesAgree == \A shown \in Cases : Agrees(shown)
<1>1. \A shown \in CasesAciToCmc : Agrees(shown)
  <2>1. \A mnemonic : \A code \in {\h2F, \h3F} :
          \A shown \in Alone(mnemonic, code) : Agrees(shown)
    BY SingleCasesAgree DEF ShortCodes
  <2>2. \A mnemonic : \A code \in {\hCE, \hC6, \hE6} :
          \A shown \in WithByte(mnemonic, code) : Agrees(shown)
    BY SingleCasesAgree DEF MiddleCodes
  <2>3. \A mnemonic : \A code \in {\hCD, \hDC, \hFC} :
          \A shown \in WithWord(mnemonic, code) : Agrees(shown)
    BY SingleCasesAgree DEF LongCodes
  <2> QED BY <2>1, <2>2, <2>3, FamiliesAgree DEF CasesAciToCmc
<1>2. \A shown \in CasesCmpToDcx : Agrees(shown)
  <2>1. \A mnemonic : \A code \in {\h27} :
          \A shown \in Alone(mnemonic, code) : Agrees(shown)
    BY SingleCasesAgree DEF ShortCodes
  <2>2. \A mnemonic : \A code \in {\hFE} :
          \A shown \in WithByte(mnemonic, code) : Agrees(shown)
    BY SingleCasesAgree DEF MiddleCodes
  <2>3. \A mnemonic : \A code \in {\hD4, \hC4, \hF4, \hEC, \hE4, \hCC} :
          \A shown \in WithWord(mnemonic, code) : Agrees(shown)
    BY SingleCasesAgree DEF LongCodes
  <2> QED BY <2>1, <2>2, <2>3, FamiliesAgree DEF CasesCmpToDcx
<1>3. \A shown \in CasesDiToJz : Agrees(shown)
  <2>1. \A mnemonic : \A code \in {\hF3, \hFB, \h76} :
          \A shown \in Alone(mnemonic, code) : Agrees(shown)
    BY SingleCasesAgree DEF ShortCodes
  <2>2. \A mnemonic : \A code \in {\hDB} :
          \A shown \in WithByte(mnemonic, code) : Agrees(shown)
    BY SingleCasesAgree DEF MiddleCodes
  <2>3. \A mnemonic : \A code \in {\hDA, \hFA, \hC3, \hD2, \hC2, \hF2,
                                       \hEA, \hE2, \hCA} :
          \A shown \in WithWord(mnemonic, code) : Agrees(shown)
    BY SingleCasesAgree DEF LongCodes
  <2> QED BY <2>1, <2>2, <2>3, FamiliesAgree DEF CasesDiToJz
<1>4. \A shown \in CasesLdaToLxi : Agrees(shown)
  <2>1. \A mnemonic : \A code \in {\h3A, \h2A} :
          \A shown \in WithWord(mnemonic, code) : Agrees(shown)
    BY SingleCasesAgree DEF LongCodes
  <2> QED BY <2>1, FamiliesAgree DEF CasesLdaToLxi
<1>5. \A shown \in CasesMovToA \cup CasesMovToBCD \cup CasesMovToEH
                     \cup CasesMovToLM : Agrees(shown)
  <2>1. \A dest \in {"a", "b", "c", "d", "e", "h", "l", "m"} :
          \A shown \in MovesTo(dest) : Agrees(shown)
    BY MovesAgree, RegisterNumbers
  <2> QED BY <2>1 DEF CasesMovToA, CasesMovToBCD, CasesMovToEH, CasesMovToLM
<1>6. \A shown \in CasesMviToPush : Agrees(shown)
  <2>1. \A mnemonic : \A code \in {\h00, \hE9} :
          \A shown \in Alone(mnemonic, code) : Agrees(shown)
    BY SingleCasesAgree DEF ShortCodes
  <2>2. \A mnemonic : \A code \in {\hF6, \hD3} :
          \A shown \in WithByte(mnemonic, code) : Agrees(shown)
    BY SingleCasesAgree DEF MiddleCodes
  <2> QED BY <2>1, <2>2, FamiliesAgree DEF CasesMviToPush
<1>7. \A shown \in CasesRalToRz : Agrees(shown)
  <2>1. \A mnemonic : \A code \in {\h17, \h1F, \hD8, \hC9, \h20, \h07, \hF8,
                                       \hD0, \hC0, \hF0, \hE8, \hE0, \h0F, \hC8} :
          \A shown \in Alone(mnemonic, code) : Agrees(shown)
    BY SingleCasesAgree DEF ShortCodes
  <2> QED BY <2>1, FamiliesAgree DEF CasesRalToRz
<1>8. \A shown \in CasesSbbToStc : Agrees(shown)
  <2>1. \A mnemonic : \A code \in {\h30, \hF9, \h37} :
          \A shown \in Alone(mnemonic, code) : Agrees(shown)
    BY SingleCasesAgree DEF ShortCodes
  <2>2. \A mnemonic : \A code \in {\hDE} :
          \A shown \in WithByte(mnemonic, code) : Agrees(shown)
    BY SingleCasesAgree DEF MiddleCodes
  <2>3. \A mnemonic : \A code \in {\h22, \h32} :
          \A shown \in WithWord(mnemonic, code) : Agrees(shown)
    BY SingleCasesAgree DEF LongCodes
  <2> QED BY <2>1, <2>2, <2>3, FamiliesAgree DEF CasesSbbToStc
<1>9. \A shown \in CasesSubToXthl : Agrees(shown)
  <2>1. \A mnemonic : \A code \in {\hEB, \hE3} :
          \A shown \in Alone(mnemonic, code) : Agrees(shown)
    BY SingleCasesAgree DEF ShortCodes
  <2>2. \A mnemonic : \A code \in {\hD6, \hEE} :
          \A shown \in WithByte(mnemonic, code) : Agrees(shown)
    BY SingleCasesAgree DEF MiddleCodes
  <2> QED BY <2>1, <2>2, FamiliesAgree DEF CasesSubToXthl
<1> QED BY <1>1, <1>2, <1>3, <1>4, <1>5, <1>6, <1>7, <1>8, <1>9 DEF Cases

\* No instruction with an operand lacks a case.
Covers(cases, codes) == \A code \in codes : \E shown \in cases : shown.code = code

LEMMA SingleCasesCover ==
  ASSUME NEW mnemonic, NEW code
  PROVE  /\ \E shown \in WithByte(mnemonic, code) : shown.code = code
         /\ \E shown \in WithWord(mnemonic, code) : shown.code = code
BY DEF WithByte, WithWord, Shown

LEMMA PerNameCovers ==
  ASSUME NEW mnemonic, NEW names, NEW first, NEW stride, NEW width,
         NEW n \in DOMAIN names
  PROVE  \E shown \in PerName(mnemonic, names, first, stride, width) :
           shown.code = first + stride * (n - 1)
<1> DEFINE case == Shown(first + stride * (n - 1), mnemonic, <<names[n]>>, width)
<1>1. case \in PerName(mnemonic, names, first, stride, width)
  BY DEF PerName
<1>2. case.code = first + stride * (n - 1)
  BY DEF Shown
<1> HIDE DEF case
<1> QED BY <1>1, <1>2

LEMMA OperandsCovered == Covers(Cases, LongCodes \cup MiddleCodes)
<1>1. Covers(CasesAciToCmc, {\hCE, \hC6, \hE6, \hCD, \hDC, \hFC})
  BY SingleCasesCover DEF CasesAciToCmc, Covers
<1>2. Covers(CasesCmpToDcx,
             {\hD4, \hC4, \hF4, \hEC, \hFE, \hE4, \hCC})
  BY SingleCasesCover DEF CasesCmpToDcx, Covers
<1>3. Covers(CasesDiToJz,
             {\hDB, \hDA, \hFA, \hC3, \hD2, \hC2, \hF2, \hEA, \hE2, \hCA})
  BY SingleCasesCover DEF CasesDiToJz, Covers
<1>4. Covers(CasesLdaToLxi, {\h3A, \h2A, \h01, \h11, \h21, \h31})
  <2>1. Covers(CasesLdaToLxi, {\h3A, \h2A})
    BY SingleCasesCover DEF CasesLdaToLxi, Covers
  <2>2. \A n \in 1 .. 4 : \E shown \in OnPair("lxi", \h01, 2) :
          shown.code = \h01 + 16 * (n - 1)
    <3>1. DOMAIN PairOrder = 1 .. 4
      BY OrderDomains
    <3>2. OnPair("lxi", \h01, 2) = PerName("lxi", PairOrder, \h01, 16, 2)
      BY DEF OnPair
    <3>3. ASSUME NEW n \in DOMAIN PairOrder
          PROVE  \E shown \in PerName("lxi", PairOrder, \h01, 16, 2) :
                   shown.code = \h01 + 16 * (n - 1)
      BY PerNameCovers
    <3> QED BY <3>1, <3>2, <3>3
  <2>3. \A code \in {\h01, \h11, \h21, \h31} :
          \E n \in 1 .. 4 : code = \h01 + 16 * (n - 1)
    OBVIOUS
  <2> QED BY <2>1, <2>2, <2>3 DEF CasesLdaToLxi, Covers
<1>5. Covers(CasesMviToPush,
             {\h06, \h0E, \h16, \h1E, \h26, \h2E, \h36, \h3E, \hF6, \hD3})
  <2>1. Covers(CasesMviToPush, {\hF6, \hD3})
    BY SingleCasesCover DEF CasesMviToPush, Covers
  <2>2. \A n \in 1 .. 8 : \E shown \in OnEighth("mvi", \h06, 1) :
          shown.code = \h06 + 8 * (n - 1)
    <3>1. DOMAIN RegisterOrder = 1 .. 8
      BY OrderDomains
    <3>2. OnEighth("mvi", \h06, 1) = PerName("mvi", RegisterOrder, \h06, 8, 1)
      BY DEF OnEighth
    <3>3. ASSUME NEW n \in DOMAIN RegisterOrder
          PROVE  \E shown \in PerName("mvi", RegisterOrder, \h06, 8, 1) :
                   shown.code = \h06 + 8 * (n - 1)
      BY PerNameCovers
    <3> QED BY <3>1, <3>2, <3>3
  <2>3. \A code \in {\h06, \h0E, \h16, \h1E, \h26, \h2E, \h36, \h3E} :
          \E n \in 1 .. 8 : code = \h06 + 8 * (n - 1)
    OBVIOUS
  <2> QED BY <2>1, <2>2, <2>3 DEF CasesMviToPush, Covers
<1>6. Covers(CasesSbbToStc, {\hDE, \h22, \h32})
  BY SingleCasesCover DEF CasesSbbToStc, Covers
<1>7. Covers(CasesSubToXthl, {\hD6, \hEE})
  BY SingleCasesCover DEF CasesSubToXthl, Covers
<1> QED BY <1>1, <1>2, <1>3, <1>4, <1>5, <1>6, <1>7
        DEF Cases, Covers, LongCodes, MiddleCodes

LEMMA DecodedLength ==
  ASSUME NEW code \in Byte
  PROVE  Decoded[code].width \in 0 .. 2 /\ Decoded[code].width + 1 = Length(code)
<1>1. CASE \E shown \in Cases : shown.code = code
  <2>1. Decoded[code] \in Cases /\ Decoded[code].code = code
    BY <1>1 DEF Decoded
  <2> QED BY <2>1, CasesAgree DEF Agrees
<1>2. CASE ~\E shown \in Cases : shown.code = code
  <2>1. Decoded[code] = Shown(code, "", <<>>, 0)
    BY <1>2 DEF Decoded
  <2>2. \A mnemonic : Shown(code, mnemonic, <<>>, 0).width = 0
    BY DEF Shown
  <2>3. Decoded[code].width = 0
    BY <2>1, <2>2, Zenon
  <2>4. code \notin LongCodes \cup MiddleCodes
    BY <1>2, OperandsCovered DEF Covers
  <2> QED BY <2>3, <2>4, LengthsOfCodes
<1> QED BY <1>1, <1>2

\* Where a call leaves intrpointer: one to three addresses on, and round.
LEMMA DisassembledLength ==
  ASSUME DisLine, ListingTypeOK, memory \in [Cells -> Byte]
  PROVE  \E n \in 1 .. 3 : listPointer' = Wrap(listPointer + n)
<1>1. PICK outside \in OutsideBytes :
        printed' = bytecode_disassemble(ReadAs(outside), listPointer)
  BY DEF DisLine
<1> DEFINE code == ReadAs(outside)[listPointer]
<1>2. code \in Byte
  <2>1. listPointer \in 0 .. MemSize + 2
    BY AddrModAssumption DEF ListingTypeOK, Word, MemSize
  <2>2. code = IF listPointer \in Cells THEN memory[listPointer] ELSE outside
    BY <2>1 DEF ReadAs
  <2> QED BY <2>2, OutsideAssumption
<1>3. printed'.intrpointer = Wrap(listPointer + 1 + Decoded[code].width)
  BY <1>1 DEF bytecode_disassemble
<1>4. listPointer' = Wrap(listPointer + 1 + Decoded[code].width)
  BY <1>3 DEF DisLine
<1>5. Decoded[code].width \in 0 .. 2
  BY <1>2, DecodedLength
<1> HIDE DEF code
<1> DEFINE n == 1 + Decoded[code].width
<1>6. n \in 1 .. 3 /\ listPointer + 1 + Decoded[code].width = listPointer + n
  BY <1>5 DEF ListingTypeOK, Word
<1>7. listPointer' = Wrap(listPointer + n)
  BY <1>4, <1>6
<1> HIDE DEF n
<1> QED BY <1>6, <1>7

-----------------------------------------------------------------------------
(* The invariant.                                                           *)

ListingInv == ListingTypeOK /\ memory \in [Cells -> Byte]

\* What a u16 becomes is a u16.
LEMMA WrapIsWord == ASSUME NEW w \in Int PROVE Wrap(w) \in Word
BY AddrModAssumption DEF Wrap, Word

LEMMA ListingInvInductive ==
  ASSUME ListingInv, [ListingNext /\ UNCHANGED memory]_<<listingVars, memory>>
  PROVE  ListingInv'
<1> USE DEF ListingInv, ListingTypeOK
<1>1. CASE \E start, end \in Word : Show(start, end) \/ Dis(start, end)
  BY <1>1 DEF Show, Dis, Begin, ListingNext, listingVars
<1>2. CASE ShowLine /\ UNCHANGED memory
  <2>1. listPointer + 1 \in Int
    BY DEF Word
  <2> QED BY <1>2, <2>1, WrapIsWord DEF ShowLine
<1>3. CASE DisLine /\ UNCHANGED memory
  <2>1. PICK n \in 1 .. 3 : listPointer' = Wrap(listPointer + n)
    BY <1>3, DisassembledLength DEF DisLine
  <2>2. listPointer + n \in Int
    BY DEF Word
  <2> QED BY <1>3, <2>1, <2>2, WrapIsWord DEF DisLine
<1>4. CASE EndListing /\ UNCHANGED memory
  BY <1>4 DEF EndListing
<1>5. CASE UNCHANGED <<listingVars, memory>>
  BY <1>5 DEF listingVars
<1> QED BY <1>1, <1>2, <1>3, <1>4, <1>5 DEF ListingNext, ListingTurn

LEMMA ListingInvHolds == ListingSpec => []ListingInv
<1>1. ListingInit /\ memory \in [Cells -> Byte] => ListingInv
  BY AddrModAssumption DEF ListingInit, ListingInv, ListingTypeOK, Word
<1> QED BY <1>1, ListingInvInductive, PTL DEF ListingSpec

(***************************************************************************)
(* The counter and the last address of 'show' and 'dis' stay u16, whatever *)
(* the memory holds and wherever the commands begin and end.               *)
(***************************************************************************)
THEOREM ListingTypeCorrect == ListingSpec => []ListingTypeOK
BY ListingInvHolds, PTL DEF ListingInv

-----------------------------------------------------------------------------
(* The way to a safe end.                                                   *)

\* Once round the addresses, and not once.
LEMMA WrapRound ==
  ASSUME NEW w \in 0 .. 2 * AddrMod - 1
  PROVE  Wrap(w) = IF w < AddrMod THEN w ELSE w - AddrMod
<1>1. ASSUME NEW b \in Nat \ {0}, NEW v \in 0 .. b - 1 PROVE v % b = v
  BY <1>1
<1>2. ASSUME NEW b \in Nat \ {0}, NEW v \in b .. 2 * b - 1 PROVE v % b = v - b
  BY <1>2
<1>3. AddrMod \in Nat \ {0}
  BY AddrModAssumption
<1>4. CASE w < AddrMod
  BY <1>1, <1>3, <1>4 DEF Wrap
<1>5. CASE w >= AddrMod
  BY <1>2, <1>3, <1>5 DEF Wrap
<1> QED BY <1>3, <1>4, <1>5

\* The steps of a loop that goes on.
LEMMA GoesOn ==
  ASSUME [ListingNext /\ UNCHANGED memory]_<<listingVars, memory>>,
         listing # "none", listing' = listing, listingVars' # listingVars
  PROVE  ShowLine \/ DisLine
BY DEF ListingNext, ListingTurn, Show, Dis, Begin, EndListing, listingVars

LEMMA ShowApproaches ==
  ASSUME ListingInv, ShowLine, Safe
  PROVE  Remaining \in Nat /\ Remaining' = Remaining - 1 /\ Remaining' \in Nat
<1>1. /\ listing = "show" /\ listing' = "show" /\ upto' = upto
      /\ listPointer' = Wrap(listPointer + 1)
      /\ listPointer # upto + 1 /\ upto # AddrMod - 1
      /\ listPointer \in 0 .. AddrMod - 1 /\ upto \in 0 .. AddrMod - 1
  BY DEF ShowLine, ShowGoesOn, Safe, LastAddress, ListingInv, ListingTypeOK, Word
<1>2. listPointer' = IF listPointer = AddrMod - 1 THEN 0 ELSE listPointer + 1
  <2>1. listPointer + 1 \in 0 .. 2 * AddrMod - 1
    BY <1>1, AddrModAssumption
  <2> DEFINE w == listPointer + 1
  <2>2. Wrap(w) = IF w < AddrMod THEN w ELSE w - AddrMod
    BY <2>1, WrapRound
  <2> QED BY <1>1, <2>2, AddrModAssumption
<1>3. ASSUME NEW p \in 0 .. AddrMod - 1
      PROVE  Wrap(upto + 1 - p + AddrMod)
               = IF p <= upto + 1 THEN upto + 1 - p ELSE upto + 1 - p + AddrMod
  <2>1. upto + 1 - p + AddrMod \in 0 .. 2 * AddrMod - 1
    BY <1>1, AddrModAssumption
  <2> DEFINE w == upto + 1 - p + AddrMod
  <2>2. Wrap(w) = IF w < AddrMod THEN w ELSE w - AddrMod
    BY <2>1, WrapRound
  <2> QED BY <1>1, <2>2, AddrModAssumption
<1>4. /\ Remaining = Wrap(upto + 1 - listPointer + AddrMod)
      /\ Remaining' = Wrap(upto + 1 - listPointer' + AddrMod)
  BY <1>1 DEF Remaining
<1>5. listPointer' \in 0 .. AddrMod - 1
  <2> DEFINE w == listPointer + 1
  <2>1. w \in Int
    BY <1>1
  <2> HIDE DEF w
  <2>2. Wrap(w) \in Word
    BY <2>1, WrapIsWord
  <2> QED BY <1>1, <2>2 DEF w, Word
<1>6. /\ Remaining = IF listPointer <= upto + 1
                       THEN upto + 1 - listPointer
                       ELSE upto + 1 - listPointer + AddrMod
      /\ Remaining' = IF listPointer' <= upto + 1
                        THEN upto + 1 - listPointer'
                        ELSE upto + 1 - listPointer' + AddrMod
  BY <1>1, <1>3, <1>4, <1>5
<1>7. CASE listPointer = AddrMod - 1
  <2>1. listPointer' = 0 /\ listPointer > upto + 1
    BY <1>1, <1>2, <1>7
  <2>2. Remaining = upto + 2 /\ Remaining' = upto + 1
    BY <1>1, <1>6, <1>7, <2>1, AddrModAssumption
  <2> QED BY <1>1, <2>2
<1>8. CASE listPointer # AddrMod - 1
  <2>1. listPointer' = listPointer + 1
    BY <1>2, <1>8
  <2>2. CASE listPointer <= upto
    <3>1. Remaining = upto + 1 - listPointer /\ Remaining' = upto - listPointer
      BY <1>1, <1>6, <2>1, <2>2
    <3> QED BY <1>1, <2>2, <3>1
  <2>3. CASE listPointer > upto + 1
    <3>1. /\ Remaining = upto + 1 - listPointer + AddrMod
          /\ Remaining' = upto - listPointer + AddrMod
      BY <1>1, <1>6, <2>1, <2>3, AddrModAssumption
    <3>2. listPointer <= AddrMod - 2
      BY <1>1, <1>8, AddrModAssumption
    <3> QED BY <1>1, <3>1, <3>2, AddrModAssumption
  <2> QED BY <1>1, <2>2, <2>3
<1> QED BY <1>7, <1>8

LEMMA DisApproaches ==
  ASSUME ListingInv, DisLine, Safe
  PROVE  /\ listing = "dis"
         /\ Remaining \in Nat /\ Remaining' \in Nat
         /\ Remaining - Remaining' \in 1 .. 3
<1>1. /\ listing = "dis" /\ listing' = "dis" /\ upto' = upto
      /\ listPointer <= upto /\ upto + 3 <= AddrMod - 1
      /\ listPointer \in Nat /\ upto \in Nat
  BY DEF DisLine, DisGoesOn, Safe, LastAddress, ListingInv, ListingTypeOK, Word
<1>2. PICK n \in 1 .. 3 : listPointer' = Wrap(listPointer + n)
  BY DisassembledLength DEF ListingInv
<1>3. listPointer' = listPointer + n
  <2>1. listPointer + n \in 0 .. 2 * AddrMod - 1 /\ listPointer + n < AddrMod
    BY <1>1, AddrModAssumption
  <2> QED BY <1>2, <2>1, WrapRound
<1>4. Remaining = upto + 3 - listPointer /\ Remaining' = upto + 3 - listPointer'
  BY <1>1 DEF Remaining
<1> QED BY <1>1, <1>2, <1>3, <1>4

LEMMA StepApproaches ==
  ASSUME ListingInv, [ListingNext /\ UNCHANGED memory]_<<listingVars, memory>>,
         listingVars' # listingVars,
         listing # "none", Safe, listing' = listing
  PROVE  /\ Remaining' \in 0 .. Remaining - 1
         /\ Remaining - Remaining' <= 3
         /\ listing = "show" => Remaining - Remaining' = 1
<1>1. CASE ShowLine
  BY <1>1, ShowApproaches
<1>2. CASE DisLine
  BY <1>2, DisApproaches
<1> QED BY <1>1, <1>2, GoesOn

(***************************************************************************)
(* Each line of 'show' or 'dis' brings a safe end nearer: 'dis' cannot     *)
(* step over its end, for no instruction has more than three bytes.        *)
(***************************************************************************)
THEOREM ListingApproaches == ListingSpec => Approaches
<1>1. ListingInv /\ [ListingNext /\ UNCHANGED memory]_<<listingVars, memory>>
        => [listing # "none" /\ Safe /\ listing' = listing
              => /\ Remaining' \in 0 .. Remaining - 1
                 /\ Remaining - Remaining' <= 3
                 /\ listing = "show" => Remaining - Remaining' = 1]_listingVars
  BY StepApproaches
<1> QED BY <1>1, ListingInvHolds, PTL DEF ListingSpec, Approaches

-----------------------------------------------------------------------------
(* 'dis' steps as the machine does.                                          *)

LEMMA DisLineStepsLikeMachine ==
  ASSUME ListingInv, DisLine, UNCHANGED memory PROVE StepsLikeMachine'
<1>1. PICK outside \in OutsideBytes :
        printed' = bytecode_disassemble(ReadAs(outside), listPointer)
  BY DEF DisLine
<1>2. /\ printed'.at = listPointer
      /\ printed'.intrpointer =
           Wrap(listPointer + 1 + Decoded[ReadAs(outside)[listPointer]].width)
  BY <1>1 DEF bytecode_disassemble
<1>3. listPointer' = printed'.intrpointer
  BY DEF DisLine
<1>4. ASSUME listPointer \in Cells
      PROVE  listPointer' = Wrap(listPointer + Length(memory[listPointer]))
  <2>1. ReadAs(outside)[listPointer] = memory[listPointer]
    BY <1>4, AddrModAssumption DEF ReadAs, Cells, MemSize
  <2>2. memory[listPointer] \in Byte
    BY <1>4 DEF ListingInv
  <2> DEFINE shown == Decoded[memory[listPointer]]
  <2>3. shown.width + 1 = Length(memory[listPointer]) /\ shown.width \in 0 .. 2
    BY <2>2, DecodedLength
  <2>4. listPointer' = Wrap(listPointer + 1 + shown.width)
    BY <1>2, <1>3, <2>1
  <2> HIDE DEF shown
  <2>5. listPointer + 1 + shown.width = listPointer + Length(memory[listPointer])
    BY <2>3, <1>4 DEF Cells
  <2> QED BY <2>4, <2>5
<1> QED BY <1>2, <1>4 DEF StepsLikeMachine

(***************************************************************************)
(* 'dis' goes from one instruction to the next as the machine does, over   *)
(* every memory: the switch of bytecode_disassemble and the one of run()   *)
(* agree on the length of all 256 opcodes, those without a case included.  *)
(***************************************************************************)
THEOREM ListingStepsLikeMachine == ListingSpec => []StepsLikeMachine
<1>1. ListingInit => StepsLikeMachine
  BY DEF ListingInit, StepsLikeMachine
<1>2. ASSUME ListingInv, StepsLikeMachine,
             [ListingNext /\ UNCHANGED memory]_<<listingVars, memory>>
      PROVE  StepsLikeMachine'
  <2>1. CASE \E start, end \in Word : Show(start, end) \/ Dis(start, end)
    BY <2>1 DEF Show, Dis, Begin, StepsLikeMachine
  <2>2. CASE ShowLine
    BY <2>2 DEF ShowLine, StepsLikeMachine
  <2>3. CASE DisLine /\ UNCHANGED memory
    BY <1>2, <2>3, DisLineStepsLikeMachine
  <2>4. CASE EndListing
    BY <2>4 DEF EndListing, StepsLikeMachine
  <2>5. CASE UNCHANGED <<listingVars, memory>>
    BY <1>2, <2>5 DEF listingVars, StepsLikeMachine
  <2> QED BY <1>2, <2>1, <2>2, <2>3, <2>4, <2>5 DEF ListingNext, ListingTurn
<1> QED BY <1>1, <1>2, ListingInvHolds, PTL DEF ListingSpec
================================================================================
