-------------------------------- MODULE Keywords --------------------------------
(***************************************************************************)
(* The keywords of the assembler (src/instruction.h) and the search for a  *)
(* word among them: get_string_index of src/util.c.                        *)
(***************************************************************************)
EXTENDS Text

Mnemonics ==
  <<"aci", "adc", "add", "adi", "ana", "ani", "call", "cc", "cm", "cma", "cmc",
    "cmp", "cnc", "cnz", "cp", "cpe", "cpi", "cpo", "cz", "daa", "dad", "dcr",
    "dcx", "hlt", "in", "inr", "inx", "jc", "jm", "jmp", "jnc", "jnz", "jp",
    "jpe", "jpo", "jz", "lda", "ldax", "lhld", "lxi", "mov", "mvi", "nop", "ora",
    "ori", "out", "pchl", "pop", "push", "ral", "rar", "rc", "ret", "rlc", "rm",
    "rnc", "rnz", "rp", "rpe", "rpo", "rrc", "rz", "sbb", "sbi", "shld", "sphl",
    "sta", "stax", "stc", "sub", "sui", "xchg", "xra", "xri", "xthl">>

MnemonicSet == {Mnemonics[i] : i \in DOMAIN Mnemonics}
instruction_keywords == [i \in DOMAIN Mnemonics |-> Chars(Mnemonics[i])]

numKeywords == Len(instruction_keywords)

\* The order of a dictionary.
Precedes(v, w) ==
  \E k \in 1 .. Len(w) :
    /\ k <= Len(v) + 1
    /\ \A h \in 1 .. k - 1 : v[h] = w[h]
    /\ k <= Len(v) => Before(v[k], w[k])

\* src/instruction.h:1: the list must be alphabetically sorted.
ASSUME KeywordsAssumption ==
  /\ instruction_keywords \in Seq(Seq(LowerCase) \ {<<>>})
  /\ \A i, j \in 1 .. numKeywords :
       i < j => Precedes(instruction_keywords[i], instruction_keywords[j])

None == 0

\* The first index from which on the condition of a while loop fails.
FirstFrom(i, stops) ==
  LET all == {j \in i .. numKeywords : stops[j]}
  IN IF all = {} THEN numKeywords + 1
                 ELSE CHOOSE j \in all : \A k \in all : j <= k

\* Mutant of IsPast: the comparison is the wrong way round.
IsPastReversed(letter, wanted) == Before(letter, wanted)

\* The keywords are sorted: none from one with this letter on has the wanted.
IsPast(letter, wanted) == Before(wanted, letter)

(***************************************************************************)
(* The search goes letter by letter through the keywords with the first    *)
(* letter and the length of the word, the first of which is start.  When a *)
(* letter is not that of the keyword at temp it goes on to the next        *)
(* keyword, with the same letter: the letters before are not compared      *)
(* again.                                                                  *)
(***************************************************************************)
SearchBetween(word, start, end) ==
  LET keyword(i) == instruction_keywords[i]
      next(temp) ==
        FirstFrom(temp + 1, [i \in DOMAIN Mnemonics |->
                               i >= end \/ Len(keyword(i)) = Len(word)])
      search[s \in [temp : 1 .. numKeywords + 1, matching : 1 .. Len(word)]] ==
        CASE s.matching = Len(word) -> s.temp
          [] s.matching < Len(word) /\ s.temp >= end -> None
          [] OTHER ->
               LET c == keyword(s.temp)[s.matching + 1]
                   d == word[s.matching + 1]
               IN CASE c = d -> search[[s EXCEPT !.matching = @ + 1]]
                    [] IsPast(c, d) -> None
                    [] OTHER -> search[[s EXCEPT !.temp = next(@)]]
  IN search[[temp |-> start, matching |-> 1]]

\* The two bounds of the search: one behind the last keyword with the letter.
SearchFrom(word, start) ==
  LET isOther(i) == instruction_keywords[i][1] # word[1]
      end == FirstFrom(start, [i \in DOMAIN Mnemonics |-> isOther(i)])
  IN IF start > numKeywords \/ isOther(start)
       THEN None
       ELSE SearchBetween(word, start, end)

get_string_index(word) ==
  LET initial(i) == instruction_keywords[i][1]
  IN SearchFrom(word,
       FirstFrom(1, [i \in DOMAIN Mnemonics |->
                       ~ \/ Before(initial(i), word[1])
                         \/ /\ initial(i) = word[1]
                            /\ Len(instruction_keywords[i]) # Len(word)]))

-----------------------------------------------------------------------------

IsKeyword(word) == \E i \in 1 .. numKeywords : instruction_keywords[i] = word

(***************************************************************************)
(* Every keyword is found, under its own index.                            *)
(***************************************************************************)
FindsKeyword(word) ==
  IsKeyword(word) => /\ get_string_index(word) # None
                     /\ instruction_keywords[get_string_index(word)] = word

(***************************************************************************)
(* A word taken for a keyword has its length and its first and last        *)
(* letters: of the letters between, each is only known to be that of some  *)
(* keyword before it.  (Of two letters, it is the keyword.)                *)
(***************************************************************************)
ResemblesFound(word) ==
  get_string_index(word) # None =>
    LET found == instruction_keywords[get_string_index(word)]
    IN /\ Len(found) = Len(word)
       /\ found[1] = word[1]
       /\ found[Len(word)] = word[Len(word)]
       /\ \A k \in 1 .. Len(word) :
            \E i \in 1 .. get_string_index(word) :
              /\ instruction_keywords[i][1] = word[1]
              /\ Len(instruction_keywords[i]) = Len(word)
              /\ instruction_keywords[i][k] = word[k]
=================================================================================
