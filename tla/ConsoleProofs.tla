------------------------------- MODULE ConsoleProofs -------------------------------
(***************************************************************************)
(* What holds of the console whatever is typed.  Its parts are the search  *)
(* for keywords, the scanner, the encoder, the refinement of the assembler *)
(* of statements by the compiler of sources, and last the session, where   *)
(* the assembler, 'set' and the listings share one memory.  The searching  *)
(* and skipping functions are loops written as recursion: TailRecursion    *)
(* shows that they exist, TailEnds what they return.                       *)
(***************************************************************************)
EXTENDS Console, ListingProofs, SequenceTheorems, FiniteSetTheorems, WellFoundedInduction

-----------------------------------------------------------------------------
(* Least elements, and functions that call themselves last.                 *)

SmallerPairs == {ss \in Nat \X Nat : ss[1] < ss[2]}

\* Of natural numbers there is always a least.
LEMMA SmallerWellFounded == IsWellFoundedOn(SmallerPairs, Nat)
<1>1. OpToRel(<, Nat) = SmallerPairs
  BY Zenon DEF OpToRel, SmallerPairs
<1> QED BY <1>1, NatLessThanWellFounded, Zenon

\* That is, in every set of them.
LEMMA LeastOf ==
  ASSUME NEW X, X \subseteq Nat, X # {}
  PROVE  \E x \in X : \A y \in X : x <= y
<1>1. PICK x \in X : \A y \in X : ~(<<y, x>> \in SmallerPairs)
  BY SmallerWellFounded, WFMin, Zenon
<1>2. ASSUME NEW y \in X PROVE x <= y
  <2>1. x \in Nat /\ y \in Nat /\ <<y, x>> \notin SmallerPairs
    BY <1>1
  <2>2. ~(y < x)
    BY <2>1 DEF SmallerPairs
  <2> QED BY <2>1, <2>2
<1> QED BY <1>2

\* A recursive function whose call is the last thing it does, as a loop.
CallsItselfLast(f, D, stops, val, next) ==
  f = [x \in D |-> IF x \in stops THEN val[x] ELSE f[next[x]]]

\* Such a function exists, whether or not it ends everywhere.
LEMMA TailRecursion ==
  ASSUME NEW D, NEW stops \in SUBSET D, NEW val, NEW next \in [D -> D]
  PROVE  \E f : CallsItselfLast(f, D, stops, val, next)
<1> DEFINE Closed(T, x) == x \in T /\ \A y \in T \ stops : next[y] \in T
           Ends(x) == {y \in stops : \A T \in SUBSET D : Closed(T, x) => y \in T}
           f == [x \in D |-> val[CHOOSE y \in Ends(x) : TRUE]]
<1>1. ASSUME NEW x \in stops PROVE f[x] = val[x]
  <2>1. Ends(x) = {x}
    <3>1. Closed({x}, x)
      BY <1>1
    <3> QED BY <3>1
  <2>2. (CHOOSE y \in {x} : TRUE) = x
    OBVIOUS
  <2> QED BY <2>1, <2>2
<1>2. ASSUME NEW x \in D \ stops PROVE f[x] = f[next[x]]
  <2>1. next[x] \in D
    BY <1>2
  <2>2. ASSUME NEW y \in Ends(x) PROVE y \in Ends(next[x])
    <3>1. ASSUME NEW T \in SUBSET D, Closed(T, next[x]) PROVE y \in T
      <4>1. Closed(T \cup {x}, x)
        BY <3>1
      <4>2. y \in T \cup {x}
        BY <4>1, <2>2
      <4> QED BY <4>2, <2>2, <1>2
    <3> QED BY <3>1, <2>2
  <2>3. ASSUME NEW y \in Ends(next[x]) PROVE y \in Ends(x)
    <3>1. ASSUME NEW T \in SUBSET D, Closed(T, x) PROVE y \in T
      BY <3>1, <2>3, <1>2
    <3> QED BY <3>1, <2>3
  <2>4. Ends(x) = Ends(next[x])
    BY <2>2, <2>3
  <2> HIDE DEF Ends
  <2> QED BY <2>1, <2>4, <1>2
<1>3. f = [x \in D |-> IF x \in stops THEN val[x] ELSE f[next[x]]]
  <2> HIDE DEF f, Ends
  <2>1. f = [x \in D |-> f[x]]
    BY DEF f
  <2> QED BY <2>1, <1>1, <1>2
<1> QED BY <1>3 DEF CallsItselfLast

\* Each call brings the end nearer.
Falls(measure, D, stops, next) ==
  /\ measure \in [D -> Nat]
  /\ \A x \in D \ stops : measure[next[x]] < measure[x]

ClosedUnder(I, stops, next) == \A x \in I \ stops : next[x] \in I

EndsWithin(I, f, stops, val) == \A x \in I : \E y \in I \cap stops : f[x] = val[y]

\* Where a measure falls it ends, in a state that any set closed under its
\* steps contains.
LEMMA TailEnds ==
  ASSUME NEW D, NEW stops \in SUBSET D, NEW val, NEW next \in [D -> D],
         NEW f, CallsItselfLast(f, D, stops, val, next),
         NEW measure, Falls(measure, D, stops, next),
         NEW I \in SUBSET D, ClosedUnder(I, stops, next)
  PROVE  EndsWithin(I, f, stops, val)
<1> USE DEF Falls, ClosedUnder, EndsWithin
<1> DEFINE Good(x) == \E y \in I \cap stops : f[x] = val[y]
           bad == {measure[x] : x \in {y \in I : ~Good(y)}}
<1>1. SUFFICES ASSUME NEW x0 \in I, ~Good(x0) PROVE FALSE
  OBVIOUS
<1>2. bad \subseteq Nat /\ bad # {}
  BY <1>1
<1>3. PICK m \in bad : \A n \in bad : m <= n
  <2> HIDE DEF bad
  <2> QED BY <1>2, LeastOf
<1>4. PICK x \in I : ~Good(x) /\ measure[x] = m
  BY <1>3
<1>5. CASE x \in stops
  BY <1>4, <1>5 DEF CallsItselfLast
<1>6. CASE x \notin stops
  <2>1. next[x] \in I /\ f[x] = f[next[x]] /\ measure[next[x]] < measure[x]
    BY <1>6 DEF CallsItselfLast
  <2>2. ~Good(next[x])
    BY <2>1, <1>4
  <2>3. measure[next[x]] \in bad
    BY <2>1, <2>2
  <2>4. m <= measure[next[x]] /\ m \in Nat /\ measure[next[x]] \in Nat
    BY <2>3, <1>2, <1>3
  <2> QED BY <2>1, <2>4, <1>4
<1> QED BY <1>5, <1>6

-----------------------------------------------------------------------------
(* The search for keywords.                                                 *)

\* What the list of keywords is.
LEMMA KeywordFacts ==
  /\ numKeywords \in Nat /\ DOMAIN Mnemonics = 1 .. numKeywords
  /\ \A i \in 1 .. numKeywords :
       /\ instruction_keywords[i] \in Seq(LowerCase)
       /\ Len(instruction_keywords[i]) \in Nat \ {0}
<1>1. instruction_keywords \in Seq(Seq(LowerCase) \ {<<>>})
  BY KeywordsAssumption
<1>2. DOMAIN instruction_keywords = DOMAIN Mnemonics
  BY DEF instruction_keywords
<1>3. DOMAIN instruction_keywords = 1 .. numKeywords /\ numKeywords \in Nat
  BY <1>1 DEF numKeywords
<1>4. ASSUME NEW i \in 1 .. numKeywords
      PROVE  /\ instruction_keywords[i] \in Seq(LowerCase)
             /\ Len(instruction_keywords[i]) \in Nat \ {0}
  <2>1. instruction_keywords[i] \in Seq(LowerCase) \ {<<>>}
    BY <1>1, <1>3
  <2> QED BY <2>1, EmptySeq
<1> QED BY <1>2, <1>3, <1>4

\* The codes of two characters are comparable, and equal only if they are.
LEMMA CodeFacts ==
  /\ \A c \in CharAt(1, 63) : Code[c] \in Nat /\ Code[c] \in 1 .. 63 /\ Ordered[Code[c]] = c
  /\ \A c \in LowerCase \cup Alpha \cup Digit : c \in CharAt(1, 63) /\ Code[c] \in Nat
<1>1. ASSUME NEW c \in CharAt(1, 63)
      PROVE  Code[c] \in Nat /\ Code[c] \in 1 .. 63 /\ Ordered[Code[c]] = c
  BY DEF Code, CharAt
<1> HIDE DEF Ordered
<1>2. \A c \in LowerCase \cup Alpha \cup Digit : c \in CharAt(1, 63)
  BY DEF LowerCase, Alpha, Digit, Decimal, CharAt
<1> QED BY <1>1, <1>2

\* The first index at which a loop stops, or the one behind the last.
LEMMA FirstFromIs ==
  ASSUME NEW i \in 1 .. numKeywords + 1, NEW stops
  PROVE  /\ FirstFrom(i, stops) \in i .. numKeywords + 1
         /\ FirstFrom(i, stops) <= numKeywords => stops[FirstFrom(i, stops)]
         /\ \A j \in i .. numKeywords : stops[j] => FirstFrom(i, stops) <= j
<1> DEFINE all == {j \in i .. numKeywords : stops[j]}
<1>1. numKeywords \in Nat
  BY KeywordFacts
<1>2. CASE all = {}
  BY <1>1, <1>2 DEF FirstFrom
<1>3. CASE all # {}
  <2>1. all \subseteq Nat
    BY <1>1
  <2>2. \E m \in all : \A k \in all : m <= k
    <3> HIDE DEF all
    <3> QED BY <2>1, <1>3, LeastOf
  <2>3. FirstFrom(i, stops) = CHOOSE j \in all : \A k \in all : j <= k
    BY <1>3 DEF FirstFrom
  <2>4. FirstFrom(i, stops) \in all /\ \A k \in all : FirstFrom(i, stops) <= k
    <3> HIDE DEF all
    <3> QED BY <2>2, <2>3
  <2> QED BY <2>4, <1>1
<1> QED BY <1>2, <1>3

Character == CharAt(1, 63)
keyword(i) == instruction_keywords[i]

\* A keyword between two that agree on their first letters agrees with them.
LEMMA Between ==
  ASSUME NEW i \in 1 .. numKeywords, NEW j \in 1 .. numKeywords,
         NEW k \in 1 .. numKeywords, i <= j, j <= k,
         NEW m \in Nat, m <= Len(keyword(i)), m <= Len(keyword(j)), m <= Len(keyword(k)),
         \A h \in 1 .. m : keyword(i)[h] = keyword(k)[h]
  PROVE  \A h \in 1 .. m : keyword(j)[h] = keyword(i)[h]
<1>1. CASE i = j \/ j = k
  BY <1>1
<1>2. CASE i < j /\ j < k
  <2>1. /\ Precedes(keyword(i), keyword(j))
        /\ Precedes(keyword(j), keyword(k))
    BY <1>2, KeywordsAssumption DEF keyword
  <2>2. PICK p \in 1 .. Len(keyword(j)) :
          /\ p <= Len(keyword(i)) + 1
          /\ \A h \in 1 .. p - 1 : keyword(i)[h] = keyword(j)[h]
          /\ p <= Len(keyword(i)) => Before(keyword(i)[p], keyword(j)[p])
    BY <2>1 DEF Precedes
  <2>3. PICK q \in 1 .. Len(keyword(k)) :
          /\ q <= Len(keyword(j)) + 1
          /\ \A h \in 1 .. q - 1 : keyword(j)[h] = keyword(k)[h]
          /\ q <= Len(keyword(j)) => Before(keyword(j)[q], keyword(k)[q])
    BY <2>1 DEF Precedes
  <2>4. /\ Len(keyword(i)) \in Nat /\ Len(keyword(j)) \in Nat /\ Len(keyword(k)) \in Nat
        /\ \A h \in 1 .. m : /\ Code[keyword(i)[h]] \in Int
                             /\ Code[keyword(j)[h]] \in Int
    <3>1. \A h \in 1 .. m : keyword(i)[h] \in LowerCase /\ keyword(j)[h] \in LowerCase
      BY KeywordFacts DEF keyword
    <3>2. \A c \in LowerCase : Code[c] \in Int
      BY CodeFacts
    <3> QED BY <3>1, <3>2, KeywordFacts DEF keyword
  <2>5. CASE p <= m
    <3>1. p \in 1 .. m /\ Before(keyword(i)[p], keyword(j)[p]) /\ keyword(i)[p] = keyword(k)[p]
      BY <2>2, <2>4, <2>5
    <3>2. CASE q <= p
      <4>1. q \in 1 .. m /\ Before(keyword(j)[q], keyword(k)[q]) /\ keyword(i)[q] = keyword(k)[q]
        BY <2>3, <2>4, <2>5, <3>2
      <4>2. q < p => keyword(i)[q] = keyword(j)[q]
        BY <2>2, <2>3, <4>1
      <4>3. CASE q < p
        BY <4>1, <4>2, <4>3, <2>4 DEF Before
      <4>4. CASE q = p
        <5>1. /\ Code[keyword(i)[p]] < Code[keyword(j)[p]]
              /\ Code[keyword(j)[p]] < Code[keyword(i)[p]]
          BY <3>1, <4>1, <4>4 DEF Before
        <5> QED BY <3>1, <5>1, <2>4
      <4> QED BY <3>1, <3>2, <4>1, <4>3, <4>4
    <3>3. CASE q > p
      <4>1. keyword(j)[p] = keyword(k)[p]
        BY <2>3, <3>3, <3>1
      <4> QED BY <3>1, <4>1, <2>4 DEF Before
    <3> QED BY <3>2, <3>3, <2>2, <2>3
  <2>6. CASE p > m
    BY <2>2, <2>6
  <2> QED BY <2>5, <2>6, <2>2
<1> QED BY <1>1, <1>2

-----------------------------------------------------------------------------
(* The loop of the search, as steps between states.                         *)

SearchStates(word) == [temp : 1 .. numKeywords + 1, matching : 1 .. Len(word)]

OfKeyword(s) == keyword(s.temp)[s.matching + 1]
OfWord(word, s) == word[s.matching + 1]

SearchStops(word, end) ==
  {s \in SearchStates(word) :
     \/ s.matching = Len(word)
     \/ s.temp >= end
     \/ OfKeyword(s) # OfWord(word, s) /\ IsPast(OfKeyword(s), OfWord(word, s))}

NextOfLength(word, end, temp) ==
  FirstFrom(temp + 1, [i \in DOMAIN Mnemonics |->
                         i >= end \/ Len(keyword(i)) = Len(word)])

SearchNext(word, end) ==
  [s \in SearchStates(word) |->
     IF s \in SearchStops(word, end) THEN s
     ELSE IF OfKeyword(s) = OfWord(word, s)
       THEN [s EXCEPT !.matching = s.matching + 1]
       ELSE [s EXCEPT !.temp = NextOfLength(word, end, s.temp)]]

SearchResult(word) ==
  [s \in SearchStates(word) |-> IF s.matching = Len(word) THEN s.temp ELSE None]

\* The next keyword, or the one behind the last.
LEMMA NextFacts ==
  ASSUME NEW word, NEW end \in 1 .. numKeywords + 1, NEW temp \in 1 .. end - 1
  PROVE  LET n == NextOfLength(word, end, temp)
         IN /\ n \in temp + 1 .. end
            /\ n < end => Len(keyword(n)) = Len(word)
            /\ \A j \in temp + 1 .. end - 1 : Len(keyword(j)) = Len(word) => n <= j
<1> DEFINE stops == [i \in DOMAIN Mnemonics |-> i >= end \/ Len(keyword(i)) = Len(word)]
           n == NextOfLength(word, end, temp)
<1>1. numKeywords \in Nat /\ DOMAIN Mnemonics = 1 .. numKeywords
  BY KeywordFacts
<1>2. temp + 1 \in 1 .. numKeywords + 1 /\ n = FirstFrom(temp + 1, stops)
  BY <1>1 DEF NextOfLength
<1>3. /\ n \in temp + 1 .. numKeywords + 1
      /\ n <= numKeywords => stops[n]
      /\ \A j \in temp + 1 .. numKeywords : stops[j] => n <= j
  <2> HIDE DEF stops, n
  <2> QED BY <1>2, FirstFromIs
<1>4. ASSUME NEW j \in temp + 1 .. numKeywords
      PROVE  stops[j] <=> (j >= end \/ Len(keyword(j)) = Len(word))
  <2>1. j \in DOMAIN Mnemonics
    BY <1>1
  <2> QED BY <2>1, Zenon
<1> HIDE DEF stops, n
<1>5. n <= end
  <2>1. CASE end <= numKeywords
    <3>1. end \in temp + 1 .. numKeywords
      BY <1>1, <2>1
    <3>2. stops[end]
      BY <3>1, <1>4
    <3> QED BY <3>1, <3>2, <1>3
  <2>2. CASE end = numKeywords + 1
    BY <2>2, <1>3
  <2> QED BY <2>1, <2>2, <1>1
<1> QED BY <1>1, <1>3, <1>4, <1>5 DEF n

\* A turn of the search stays among its states.
LEMMA SearchNextType ==
  ASSUME NEW word, Len(word) \in Nat, NEW end \in 1 .. numKeywords + 1
  PROVE  /\ SearchStops(word, end) \in SUBSET SearchStates(word)
         /\ SearchNext(word, end) \in [SearchStates(word) -> SearchStates(word)]
<1>1. numKeywords \in Nat
  BY KeywordFacts
<1>2. SearchStops(word, end) \in SUBSET SearchStates(word)
  BY DEF SearchStops
<1>3. ASSUME NEW s \in SearchStates(word) PROVE SearchNext(word, end)[s] \in SearchStates(word)
  <2>1. CASE s \in SearchStops(word, end)
    BY <2>1 DEF SearchNext
  <2>2. CASE s \notin SearchStops(word, end)
    <3>1. s.temp \in 1 .. end - 1 /\ s.matching \in 1 .. Len(word) - 1
      BY <2>2, <1>1 DEF SearchStops, SearchStates
    <3>2. NextOfLength(word, end, s.temp) \in 1 .. numKeywords + 1
      BY <3>1, <1>1, NextFacts
    <3> QED BY <3>1, <3>2, <2>2 DEF SearchNext, SearchStates
  <2> QED BY <2>1, <2>2
<1> QED BY <1>2, <1>3 DEF SearchNext

\* The search ends in a state which any set closed under its steps contains.
LEMMA SearchEnds ==
  ASSUME NEW word \in Seq(Character), NEW end \in 1 .. numKeywords + 1, NEW start,
         NEW I \in SUBSET SearchStates(word),
         \A s \in I \ SearchStops(word, end) : SearchNext(word, end)[s] \in I,
         [temp |-> start, matching |-> 1] \in I
  PROVE  \E s \in I \cap SearchStops(word, end) :
           SearchBetween(word, start, end) =
             IF s.matching = Len(word) THEN s.temp ELSE None
<1> DEFINE D == SearchStates(word)
           stops == SearchStops(word, end)
           next == SearchNext(word, end)
           val == SearchResult(word)
           measure == [s \in D |-> numKeywords + 1 - s.temp + Len(word) - s.matching]
           Search(f) == f = [s \in D |->
             CASE s.matching = Len(word) -> s.temp
               [] s.matching < Len(word) /\ s.temp >= end -> None
               [] OTHER ->
                    CASE OfKeyword(s) = OfWord(word, s) -> f[[s EXCEPT !.matching = s.matching + 1]]
                      [] IsPast(OfKeyword(s), OfWord(word, s)) -> None
                      [] OTHER -> f[[s EXCEPT !.temp = NextOfLength(word, end, s.temp)]]]
           search == CHOOSE f : Search(f)
<1>0. Len(word) \in Nat /\ \A k \in 1 .. Len(word) : word[k] \in Character
  OBVIOUS
<1>1. SearchBetween(word, start, end) = search[[temp |-> start, matching |-> 1]]
  BY DEF SearchBetween, SearchStates, OfKeyword, OfWord, NextOfLength, keyword
<1>2. numKeywords \in Nat
  BY KeywordFacts
<1>3. stops \in SUBSET D /\ next \in [D -> D]
  BY <1>0, SearchNextType
<1>4. PICK f : CallsItselfLast(f, D, stops, val, next)
  <2> HIDE DEF D, stops, next, val
  <2> QED BY <1>3, TailRecursion
<1>5. ASSUME NEW s \in D, s \notin stops
      PROVE  /\ s.temp \in 1 .. end - 1 /\ s.matching \in 1 .. Len(word) - 1
             /\ ~(OfKeyword(s) # OfWord(word, s) /\ IsPast(OfKeyword(s), OfWord(word, s)))
  BY <1>0, <1>2, <1>5 DEF SearchStops, SearchStates
<1> DEFINE Turn(g, s) ==
             CASE s.matching = Len(word) -> s.temp
               [] s.matching < Len(word) /\ s.temp >= end -> None
               [] OTHER ->
                    CASE OfKeyword(s) = OfWord(word, s) -> g[[s EXCEPT !.matching = s.matching + 1]]
                      [] IsPast(OfKeyword(s), OfWord(word, s)) -> None
                      [] OTHER -> g[[s EXCEPT !.temp = NextOfLength(word, end, s.temp)]]
<1>6. ASSUME NEW g, NEW s \in D
      PROVE  Turn(g, s) = IF s \in stops THEN val[s] ELSE g[next[s]]
  <2>1. CASE s.matching = Len(word)
    BY <2>1 DEF SearchStops, SearchResult
  <2>2. CASE s.matching # Len(word) /\ s.temp >= end
    BY <2>2 DEF SearchStops, SearchResult, SearchStates
  <2>3. CASE s.matching # Len(word) /\ ~(s.temp >= end) /\ OfKeyword(s) = OfWord(word, s)
    <3>1. s \notin stops /\ next[s] = [s EXCEPT !.matching = s.matching + 1]
      BY <2>3 DEF SearchStops, SearchNext
    <3>2. ~IsPast(OfKeyword(s), OfWord(word, s))
      <4>1. s.matching + 1 \in 1 .. Len(word)
        BY <2>3, <1>0 DEF SearchStates
      <4>2. Code[OfWord(word, s)] \in Nat
        BY <4>1, <1>0, CodeFacts DEF OfWord, Character
      <4> QED BY <4>2, <2>3 DEF IsPast, Before
    <3> QED BY <3>1, <3>2, <2>3
  <2>4. CASE /\ s.matching # Len(word) /\ ~(s.temp >= end)
             /\ OfKeyword(s) # OfWord(word, s) /\ IsPast(OfKeyword(s), OfWord(word, s))
    BY <2>4 DEF SearchStops, SearchResult
  <2>5. CASE /\ s.matching # Len(word) /\ ~(s.temp >= end)
             /\ OfKeyword(s) # OfWord(word, s) /\ ~IsPast(OfKeyword(s), OfWord(word, s))
    <3>1. s \notin stops /\ next[s] = [s EXCEPT !.temp = NextOfLength(word, end, s.temp)]
      BY <2>5 DEF SearchStops, SearchNext
    <3> QED BY <3>1, <2>5
  <2> QED BY <2>1, <2>2, <2>3, <2>4, <2>5
<1> HIDE DEF D, stops, next, val, Turn
<1>7. \A g : Search(g) <=> CallsItselfLast(g, D, stops, val, next)
  <2> SUFFICES ASSUME NEW g
               PROVE  Search(g) <=> CallsItselfLast(g, D, stops, val, next)
    OBVIOUS
  <2>1. Search(g) <=> g = [s \in D |-> Turn(g, s)]
    BY DEF Turn
  <2>2. [s \in D |-> Turn(g, s)] = [s \in D |-> IF s \in stops THEN val[s] ELSE g[next[s]]]
    BY <1>6
  <2> QED BY <2>1, <2>2 DEF CallsItselfLast
<1>8. CallsItselfLast(search, D, stops, val, next)
  <2>1. Search(f)
    BY <1>4, <1>7
  <2>2. Search(search)
    <3> HIDE DEF Search
    <3> QED BY <2>1
  <2> HIDE DEF search, Search
  <2> QED BY <2>2, <1>7
<1>9m. \A s \in D : measure[s] = numKeywords + 1 - s.temp + Len(word) - s.matching
  OBVIOUS
<1>9. measure \in [D -> Nat]
  BY <1>0, <1>2 DEF D, SearchStates
<1>10. \A s \in D \ stops : measure[next[s]] < measure[s]
  <2> SUFFICES ASSUME NEW s \in D, s \notin stops PROVE measure[next[s]] < measure[s]
    OBVIOUS
  <2>1. s.temp \in 1 .. end - 1 /\ s.matching \in 1 .. Len(word) - 1 /\ next[s] \in D
    BY <1>3, <1>5
  <2>2. /\ measure[s] = numKeywords + 1 - s.temp + Len(word) - s.matching
        /\ measure[next[s]] = numKeywords + 1 - next[s].temp + Len(word) - next[s].matching
    <3> HIDE DEF measure
    <3> QED BY <2>1, <1>9m
  <2>3. \/ next[s].temp = s.temp /\ next[s].matching = s.matching + 1
        \/ next[s].temp \in s.temp + 1 .. end /\ next[s].matching = s.matching
    <3>1. NextOfLength(word, end, s.temp) \in s.temp + 1 .. end
      BY <2>1, NextFacts
    <3> QED BY <3>1, <2>1 DEF next, SearchNext, D, stops, SearchStates
  <2> DEFINE a == s.temp
             b == s.matching
             c == next[s].temp
             d == next[s].matching
             n == Len(word)
  <2>4. a \in Int /\ b \in Int /\ c \in Int /\ d \in Int /\ n \in Int /\ numKeywords \in Int
    BY <2>1, <1>0, <1>2 DEF D, SearchStates
  <2>5. \/ c = a /\ d = b + 1
        \/ c > a /\ d = b
    <3>1. c \in a + 1 .. end => c > a
      BY <2>4
    <3> QED BY <2>3, <3>1
  <2>6. numKeywords + 1 - c + n - d < numKeywords + 1 - a + n - b
    <3> HIDE DEF a, b, c, d, n
    <3> QED BY <2>4, <2>5
  <2> HIDE DEF measure
  <2> QED BY <2>2, <2>6
<1>11. I \in SUBSET D /\ ClosedUnder(I, stops, next)
  BY DEF D, stops, next, ClosedUnder
<1>12. EndsWithin(I, search, stops, val)
  <2> HIDE DEF search, measure
  <2>1. Falls(measure, D, stops, next)
    BY <1>9, <1>10 DEF Falls
  <2> QED BY <2>1, <1>3, <1>8, <1>11, TailEnds
<1>13. PICK y \in I \cap stops : search[[temp |-> start, matching |-> 1]] = val[y]
  BY <1>12 DEF EndsWithin
<1>14. val[y] = IF y.matching = Len(word) THEN y.temp ELSE None
  BY <1>13, <1>11 DEF val, SearchResult, D
<1> HIDE DEF search
<1> QED BY <1>1, <1>13, <1>14 DEF stops

\* Of two keywords with the same first letters the earlier does not have the
\* later letter behind them.
LEMMA InOrder ==
  ASSUME NEW i \in 1 .. numKeywords, NEW j \in 1 .. numKeywords, i <= j,
         NEW m \in Nat, m < Len(keyword(i)), m < Len(keyword(j)),
         \A h \in 1 .. m : keyword(i)[h] = keyword(j)[h]
  PROVE  /\ ~Before(keyword(j)[m + 1], keyword(i)[m + 1])
         /\ keyword(i)[m + 1] = keyword(j)[m + 1] \/ Before(keyword(i)[m + 1], keyword(j)[m + 1])
<1>1. /\ Len(keyword(i)) \in Nat /\ Len(keyword(j)) \in Nat
      /\ \A h \in 1 .. m + 1 : Code[keyword(i)[h]] \in Int /\ Code[keyword(j)[h]] \in Int
  <2>1. \A h \in 1 .. m + 1 : keyword(i)[h] \in LowerCase /\ keyword(j)[h] \in LowerCase
    BY KeywordFacts DEF keyword
  <2>2. \A c \in LowerCase : Code[c] \in Int
    BY CodeFacts
  <2> QED BY <2>1, <2>2, KeywordFacts DEF keyword
<1>2. CASE i = j
  BY <1>1, <1>2 DEF Before
<1>3. CASE i < j
  <2>1. Precedes(keyword(i), keyword(j))
    BY <1>3, KeywordsAssumption DEF keyword
  <2>2. PICK p \in 1 .. Len(keyword(j)) :
          /\ p <= Len(keyword(i)) + 1
          /\ \A h \in 1 .. p - 1 : keyword(i)[h] = keyword(j)[h]
          /\ p <= Len(keyword(i)) => Before(keyword(i)[p], keyword(j)[p])
    BY <2>1 DEF Precedes
  <2>3. CASE p <= m
    <3>1. p \in 1 .. m /\ Before(keyword(i)[p], keyword(j)[p]) /\ keyword(i)[p] = keyword(j)[p]
      BY <2>2, <2>3, <1>1
    <3> QED BY <3>1, <1>1 DEF Before
  <2>4. CASE p = m + 1
    <3>1. Before(keyword(i)[m + 1], keyword(j)[m + 1])
      BY <2>2, <2>4, <1>1
    <3> QED BY <3>1, <1>1 DEF Before
  <2>5. CASE p > m + 1
    <3>1. keyword(i)[m + 1] = keyword(j)[m + 1]
      BY <2>2, <2>5
    <3> QED BY <3>1, <1>1 DEF Before
  <2> QED BY <2>2, <2>3, <2>4, <2>5
<1> QED BY <1>2, <1>3

-----------------------------------------------------------------------------
(* The bounds of a search, from the loops that find them.                   *)

FirstWith(word) ==
  FirstFrom(1, [i \in DOMAIN Mnemonics |->
                  ~ \/ Before(keyword(i)[1], word[1])
                    \/ /\ keyword(i)[1] = word[1]
                       /\ Len(keyword(i)) # Len(word)])

EndFrom(word, start) ==
  FirstFrom(start, [i \in DOMAIN Mnemonics |-> keyword(i)[1] # word[1]])

Starts(word, start) == start <= numKeywords /\ keyword(start)[1] = word[1]

\* get_string_index is the search between these bounds.
LEMMA IndexIs ==
  ASSUME NEW word
  PROVE  LET start == FirstWith(word)
         IN get_string_index(word) =
              IF Starts(word, start) THEN SearchBetween(word, start, EndFrom(word, start))
                                     ELSE None
<1>1. FirstWith(word) \in Nat /\ numKeywords \in Nat
  BY FirstFromIs, KeywordFacts DEF FirstWith
<1>2. get_string_index(word) = SearchFrom(word, FirstWith(word))
  BY DEF get_string_index, FirstWith, keyword
<1>3. ASSUME NEW start \in Nat
      PROVE  SearchFrom(word, start) =
               IF Starts(word, start) THEN SearchBetween(word, start, EndFrom(word, start))
                                      ELSE None
  BY <1>1 DEF SearchFrom, Starts, EndFrom, keyword
<1> QED BY <1>1, <1>2, <1>3

\* Where the search starts: no keyword before it has the letter and the length.
LEMMA FirstWithIs ==
  ASSUME NEW word
  PROVE  LET start == FirstWith(word)
         IN /\ start \in 1 .. numKeywords + 1
            /\ start <= numKeywords =>
                 /\ ~Before(keyword(start)[1], word[1])
                 /\ keyword(start)[1] = word[1] => Len(keyword(start)) = Len(word)
            /\ \A j \in 1 .. numKeywords :
                 keyword(j)[1] = word[1] /\ Len(keyword(j)) = Len(word)
                   /\ ~Before(keyword(j)[1], word[1]) => start <= j
<1> DEFINE stops == [i \in DOMAIN Mnemonics |->
                  ~ \/ Before(keyword(i)[1], word[1])
                    \/ /\ keyword(i)[1] = word[1]
                       /\ Len(keyword(i)) # Len(word)]
           start == FirstWith(word)
<1>1. numKeywords \in Nat /\ DOMAIN Mnemonics = 1 .. numKeywords
  BY KeywordFacts
<1>2. 1 \in 1 .. numKeywords + 1 /\ start = FirstFrom(1, stops)
  BY <1>1 DEF FirstWith
<1>3. /\ start \in 1 .. numKeywords + 1
      /\ start <= numKeywords => stops[start]
      /\ \A j \in 1 .. numKeywords : stops[j] => start <= j
  <2> HIDE DEF stops, start
  <2> QED BY <1>2, FirstFromIs
<1>4. ASSUME NEW j \in 1 .. numKeywords
      PROVE  stops[j] <=> (~ \/ Before(keyword(j)[1], word[1])
                             \/ /\ keyword(j)[1] = word[1]
                                /\ Len(keyword(j)) # Len(word))
  <2>1. j \in DOMAIN Mnemonics
    BY <1>1
  <2> QED BY <2>1, Zenon
<1> HIDE DEF stops, start
<1>5. start <= numKeywords => start \in 1 .. numKeywords
  BY <1>3, <1>1
<1> QED BY <1>3, <1>4, <1>5, Zenon DEF start

\* Where it ends: at the first keyword behind it with another letter.
LEMMA EndFromIs ==
  ASSUME NEW word, NEW start \in 1 .. numKeywords, keyword(start)[1] = word[1]
  PROVE  LET end == EndFrom(word, start)
         IN /\ end \in start + 1 .. numKeywords + 1
            /\ end <= numKeywords => keyword(end)[1] # word[1]
            /\ \A j \in start .. end - 1 : keyword(j)[1] = word[1]
<1> DEFINE stops == [i \in DOMAIN Mnemonics |-> keyword(i)[1] # word[1]]
           end == EndFrom(word, start)
<1>1. numKeywords \in Nat /\ DOMAIN Mnemonics = 1 .. numKeywords
  BY KeywordFacts
<1>2. start \in 1 .. numKeywords + 1 /\ end = FirstFrom(start, stops)
  BY <1>1 DEF EndFrom
<1>3. /\ end \in start .. numKeywords + 1
      /\ end <= numKeywords => stops[end]
      /\ \A j \in start .. numKeywords : stops[j] => end <= j
  <2> HIDE DEF stops, end
  <2> QED BY <1>2, FirstFromIs
<1>4. \A j \in 1 .. numKeywords : stops[j] <=> keyword(j)[1] # word[1]
  <2> SUFFICES ASSUME NEW j \in 1 .. numKeywords
               PROVE  stops[j] <=> keyword(j)[1] # word[1]
    OBVIOUS
  <2>1. j \in DOMAIN Mnemonics
    BY <1>1
  <2> QED BY <2>1, Zenon
<1> HIDE DEF stops, end
<1>5. end <= numKeywords => end \in 1 .. numKeywords
  BY <1>3, <1>1
<1>6. end # start
  <2> SUFFICES ASSUME end = start PROVE FALSE
    OBVIOUS
  <2>1. stops[start]
    BY <1>3
  <2> QED BY <2>1, <1>4
<1>7. ASSUME NEW j \in start .. end - 1 PROVE keyword(j)[1] = word[1]
  <2>1. j \in start .. numKeywords /\ j \in 1 .. numKeywords /\ ~(end <= j)
    BY <1>3, <1>1
  <2>2. ~stops[j]
    BY <2>1, <1>3
  <2> QED BY <2>1, <2>2, <1>4
<1> QED BY <1>1, <1>3, <1>4, <1>5, <1>6, <1>7 DEF end

\* Where a search stops.
LEMMA StopsAt ==
  ASSUME NEW word, NEW end, NEW s \in SearchStates(word)
  PROVE  s \in SearchStops(word, end) <=>
           \/ s.matching = Len(word)
           \/ s.temp >= end
           \/ OfKeyword(s) # OfWord(word, s) /\ IsPast(OfKeyword(s), OfWord(word, s))
  BY DEF SearchStops

\* Where it goes on from the others.
LEMMA SearchTurn ==
  ASSUME NEW word \in Seq(Character), NEW end \in 1 .. numKeywords + 1,
         NEW s \in SearchStates(word), s \notin SearchStops(word, end),
         NEW t, t = SearchNext(word, end)[s]
  PROVE  /\ s.temp \in 1 .. end - 1 /\ s.matching \in 1 .. Len(word) - 1
         /\ t \in SearchStates(word)
         /\ \/ /\ OfKeyword(s) = OfWord(word, s)
               /\ t.temp = s.temp /\ t.matching = s.matching + 1
            \/ /\ OfKeyword(s) # OfWord(word, s)
               /\ ~IsPast(OfKeyword(s), OfWord(word, s))
               /\ t.temp = NextOfLength(word, end, s.temp) /\ t.matching = s.matching
<1>7. Len(word) \in Nat /\ numKeywords \in Nat
  BY KeywordFacts
<1>1. s.temp \in 1 .. end - 1 /\ s.matching \in 1 .. Len(word) - 1
  BY <1>7, StopsAt DEF SearchStates
<1>2. t \in SearchStates(word)
  BY <1>7, SearchNextType
<1>3. t =
        IF OfKeyword(s) = OfWord(word, s)
          THEN [s EXCEPT !.matching = s.matching + 1]
          ELSE [s EXCEPT !.temp = NextOfLength(word, end, s.temp)]
  BY DEF SearchNext
<1>4. OfKeyword(s) # OfWord(word, s) => ~IsPast(OfKeyword(s), OfWord(word, s))
  BY StopsAt
<1>5. CASE OfKeyword(s) = OfWord(word, s)
  BY <1>1, <1>2, <1>3, <1>5 DEF SearchStates
<1>6. CASE OfKeyword(s) # OfWord(word, s)
  <2>1. t = [s EXCEPT !.temp = NextOfLength(word, end, s.temp)]
    BY <1>3, <1>6
  <2> QED BY <1>1, <1>2, <1>4, <1>6, <2>1 DEF SearchStates
<1> QED BY <1>5, <1>6

(***************************************************************************)
(* get_string_index finds every keyword, under its own index, in any       *)
(* sorted list of words: the loop that skips to the length of the word and *)
(* the two that compare cannot step over it.                               *)
(***************************************************************************)
THEOREM EveryKeywordIsFound ==
  ASSUME NEW word \in Seq(Character), word # <<>>
  PROVE  FindsKeyword(word)
<1> SUFFICES ASSUME NEW k \in 1 .. numKeywords, keyword(k) = word
             PROVE  /\ get_string_index(word) # None
                    /\ keyword(get_string_index(word)) = word
  BY DEF FindsKeyword, IsKeyword, keyword
<1> DEFINE start == FirstWith(word)
           end == EndFrom(word, start)
           stops == SearchStops(word, end)
<1>0. /\ Len(word) \in Nat \ {0} /\ numKeywords \in Nat
      /\ \A j \in 1 .. numKeywords : Len(keyword(j)) \in Nat \ {0}
  BY KeywordFacts DEF keyword
<1>0a. \A h \in 1 .. Len(word) : word[h] \in LowerCase /\ Code[word[h]] \in Int
  <2>1. \A h \in 1 .. Len(word) : word[h] \in LowerCase
    BY KeywordFacts DEF keyword
  <2>2. \A c \in LowerCase : Code[c] \in Int
    BY CodeFacts
  <2> QED BY <2>1, <2>2
<1>1. start \in 1 .. numKeywords /\ start <= k
  <2>1. ~Before(word[1], word[1])
    BY <1>0, <1>0a DEF Before
  <2>2. start <= k
    BY <2>1, <1>0, FirstWithIs
  <2> QED BY <2>2, <1>0, FirstWithIs
<1>2. keyword(start)[1] = word[1] /\ Len(keyword(start)) = Len(word)
  <2>1. \/ keyword(start)[1] = keyword(k)[1]
        \/ Before(keyword(start)[1], keyword(k)[1])
    <3>1. 0 < Len(keyword(start)) /\ 0 < Len(keyword(k))
      BY <1>0, <1>1
    <3>2. \A h \in 1 .. 0 : keyword(start)[h] = keyword(k)[h]
      OBVIOUS
    <3>3. 0 \in Nat /\ 0 + 1 = 1
      OBVIOUS
    <3>4. \/ keyword(start)[0 + 1] = keyword(k)[0 + 1]
          \/ Before(keyword(start)[0 + 1], keyword(k)[0 + 1])
      <4> HIDE DEF start
      <4> QED BY <3>1, <3>2, <1>1, InOrder
    <3> QED BY <3>3, <3>4
  <2> QED BY <2>1, <1>1, FirstWithIs
<1>3. /\ end \in start + 1 .. numKeywords + 1
      /\ end <= numKeywords => keyword(end)[1] # word[1]
      /\ \A j \in start .. end - 1 : keyword(j)[1] = word[1]
  BY <1>1, <1>2, EndFromIs
<1> HIDE DEF end, start
<1>4. k < end
  <2> SUFFICES ASSUME end <= k PROVE FALSE
    BY <1>3, <1>0, <1>1
  <2>1. end \in 1 .. numKeywords /\ start <= end
    BY <1>0, <1>1, <1>3
  <2>2. \A h \in 1 .. 1 : keyword(end)[h] = keyword(start)[h]
    <3>1. \A h \in 1 .. 1 : keyword(start)[h] = keyword(k)[h]
      BY <1>2
    <3>2. \A j \in {start, end, k} : j \in 1 .. numKeywords /\ 1 <= Len(keyword(j))
      <4>1. \A n \in Nat \ {0} : 1 <= n
        OBVIOUS
      <4> HIDE DEF start, end
      <4> QED BY <2>1, <1>1, <1>0, <4>1
    <3>3. 1 \in Nat /\ start <= end /\ end <= k
      BY <2>1
    <3> HIDE DEF start, end
    <3> QED BY <3>1, <3>2, <3>3, Between
  <2> QED BY <2>1, <2>2, <1>2, <1>3
<1>5. get_string_index(word) = SearchBetween(word, start, end)
  BY <1>0, <1>1, <1>2, IndexIs DEF start, end, Starts
<1> DEFINE I == {s \in SearchStates(word) :
                   /\ s.temp <= k /\ Len(keyword(s.temp)) = Len(word)
                   /\ \A h \in 1 .. s.matching : keyword(s.temp)[h] = word[h]}
<1>6. end \in 1 .. numKeywords + 1
  BY <1>0, <1>1, <1>3
<1>7. I \in SUBSET SearchStates(word) /\ [temp |-> start, matching |-> 1] \in I
  <2>1. [temp |-> start, matching |-> 1] \in SearchStates(word)
    BY <1>0, <1>1 DEF SearchStates
  <2> QED BY <2>1, <1>1, <1>2
<1>8. ASSUME NEW s \in I, s \notin stops
      PROVE  SearchNext(word, end)[s] \in I
  <2> DEFINE t == SearchNext(word, end)[s]
             m == s.matching
             i == s.temp
  <2>1. /\ i \in 1 .. end - 1 /\ m \in 1 .. Len(word) - 1
        /\ t \in SearchStates(word)
        /\ \/ /\ OfKeyword(s) = OfWord(word, s)
              /\ t.temp = i /\ t.matching = m + 1
           \/ /\ OfKeyword(s) # OfWord(word, s)
              /\ ~IsPast(OfKeyword(s), OfWord(word, s))
              /\ t.temp = NextOfLength(word, end, i) /\ t.matching = m
    <3>1. s \in SearchStates(word)
      OBVIOUS
    <3> HIDE DEF I, t, m, i
    <3>2. t = SearchNext(word, end)[s]
      BY DEF t
    <3> QED BY <1>8, <1>6, <3>1, <3>2, SearchTurn DEF m, i
  <2>2. CASE OfKeyword(s) = OfWord(word, s) /\ t.temp = i /\ t.matching = m + 1
    <3>1. keyword(i)[m + 1] = word[m + 1]
      BY <2>2 DEF OfKeyword, OfWord
    <3>2. \A h \in 1 .. m + 1 : keyword(i)[h] = word[h]
      BY <3>1, <2>1
    <3> HIDE DEF t
    <3>3. /\ t.temp <= k /\ Len(keyword(t.temp)) = Len(word)
          /\ \A h \in 1 .. t.matching : keyword(t.temp)[h] = word[h]
      BY <3>2, <2>2
    <3>9. t \in I
      BY <2>1, <3>3
    <3> QED BY <3>9 DEF t
  <2>3. CASE OfKeyword(s) # OfWord(word, s) /\ t.temp = NextOfLength(word, end, i) /\ t.matching = m
    <3> DEFINE n == NextOfLength(word, end, i)
    <3>1. i # k
      BY <2>3 DEF OfKeyword, OfWord
    <3>2. i \in 1 .. numKeywords /\ i < k /\ k \in i + 1 .. end - 1
      BY <3>1, <2>1, <1>4, <1>6, <1>0
    <3>3. n \in i + 1 .. k /\ Len(keyword(n)) = Len(word)
      BY <3>2, <2>1, <1>6, <1>4, <1>0, NextFacts
    <3> HIDE DEF n
    <3>4. \A h \in 1 .. m : keyword(i)[h] = keyword(k)[h]
      OBVIOUS
    <3>5. \A h \in 1 .. m : keyword(n)[h] = keyword(i)[h]
      <4>1. /\ n \in 1 .. numKeywords /\ i <= n /\ n <= k
            /\ m \in Nat /\ m <= Len(keyword(i))
            /\ m <= Len(keyword(n)) /\ m <= Len(keyword(k))
        BY <3>2, <3>3, <2>1, <1>0
      <4> QED BY <4>1, <3>2, <3>4, Between
    <3>6. t.temp = n /\ t.matching = m
      BY <2>3 DEF n
    <3> HIDE DEF t
    <3>7. \A h \in 1 .. m : keyword(n)[h] = word[h]
      BY <3>5
    <3>8. n <= k
      BY <3>3, <3>2
    <3>9. t \in I
      BY <2>1, <3>3, <3>6, <3>7, <3>8
    <3> QED BY <3>9 DEF t
  <2> QED BY <2>1, <2>2, <2>3
<1>9. PICK s \in I \cap stops :
        SearchBetween(word, start, end) = IF s.matching = Len(word) THEN s.temp ELSE None
  <2> HIDE DEF I
  <2>1. \A s \in I \ SearchStops(word, end) : SearchNext(word, end)[s] \in I
    BY <1>7, <1>8
  <2> QED BY <2>1, <1>6, <1>7, SearchEnds
<1>10. s.temp \in 1 .. k /\ s.matching \in 1 .. Len(word)
  BY <1>0 DEF SearchStates
<1>11. s.matching = Len(word)
  <2> SUFFICES ASSUME s.matching # Len(word) PROVE FALSE
    OBVIOUS
  <2> DEFINE m == s.matching
             i == s.temp
  <2>1. m \in Nat /\ m < Len(word) /\ i \in 1 .. numKeywords /\ i <= k
    BY <1>10, <1>0
  <2>2. IsPast(OfKeyword(s), OfWord(word, s))
    BY StopsAt, <1>9, <1>10, <1>4, <1>6, <1>0
  <2>3. ~Before(keyword(k)[m + 1], keyword(i)[m + 1])
    BY <2>1, <1>9, InOrder
  <2> QED BY <2>2, <2>3 DEF IsPast, OfKeyword, OfWord
<1>12. keyword(s.temp) = word
  <2>1. keyword(s.temp) \in Seq(LowerCase) /\ word \in Seq(LowerCase)
    BY <1>10, <1>0, KeywordFacts DEF keyword
  <2> QED BY <2>1, <1>11, <1>9, SeqEqual
<1> QED BY <1>5, <1>9, <1>10, <1>11, <1>12 DEF None

\* What a search has seen: each letter it matched was that of some keyword.
LEMMA FoundResembles ==
  ASSUME NEW word \in Seq(Character), word # <<>>, NEW found,
         found = get_string_index(word), found # None
  PROVE  /\ found \in 1 .. numKeywords
         /\ Len(keyword(found)) = Len(word)
         /\ keyword(found)[1] = word[1]
         /\ keyword(found)[Len(word)] = word[Len(word)]
         /\ \A h \in 1 .. Len(word) :
              \E i \in 1 .. found : /\ keyword(i)[1] = word[1]
                                    /\ Len(keyword(i)) = Len(word)
                                    /\ keyword(i)[h] = word[h]
<1> DEFINE Seen(i, h) == /\ keyword(i)[1] = word[1]
                         /\ Len(keyword(i)) = Len(word)
                         /\ keyword(i)[h] = word[h]
<1> DEFINE start == FirstWith(word)
           end == EndFrom(word, start)
           stops == SearchStops(word, end)
<1>0. Len(word) \in Nat \ {0} /\ numKeywords \in Nat
  BY KeywordFacts
<1>1. /\ Starts(word, start)
      /\ get_string_index(word) = SearchBetween(word, start, end)
  BY IndexIs
<1>2. /\ start \in 1 .. numKeywords
      /\ keyword(start)[1] = word[1] /\ Len(keyword(start)) = Len(word)
  BY <1>0, <1>1, FirstWithIs DEF Starts
<1>3. /\ end \in start + 1 .. numKeywords + 1
      /\ \A j \in start .. end - 1 : keyword(j)[1] = word[1]
  BY <1>2, EndFromIs
<1> HIDE DEF end, start
<1>4. end \in 1 .. numKeywords + 1
  BY <1>0, <1>2, <1>3
<1> DEFINE I == {s \in SearchStates(word) :
                   /\ s.temp \in start .. end
                   /\ s.temp < end => Len(keyword(s.temp)) = Len(word)
                   /\ \A h \in 1 .. s.matching : \E i \in 1 .. s.temp : Seen(i, h)
                   /\ s.matching = Len(word) =>
                        s.temp < end /\ keyword(s.temp)[s.matching] = word[s.matching]}
<1> HIDE DEF Seen
<1>5. I \in SUBSET SearchStates(word) /\ [temp |-> start, matching |-> 1] \in I
  <2>1. [temp |-> start, matching |-> 1] \in SearchStates(word)
    BY <1>0, <1>2 DEF SearchStates
  <2>2. Seen(start, 1)
    BY <1>2 DEF Seen
  <2> QED BY <2>1, <2>2, <1>2, <1>3
<1>6. ASSUME NEW s \in I, s \notin stops
      PROVE  SearchNext(word, end)[s] \in I
  <2> DEFINE t == SearchNext(word, end)[s]
             m == s.matching
             i == s.temp
  <2>1. /\ i \in 1 .. end - 1 /\ m \in 1 .. Len(word) - 1
        /\ t \in SearchStates(word)
        /\ \/ /\ OfKeyword(s) = OfWord(word, s)
              /\ t.temp = i /\ t.matching = m + 1
           \/ /\ OfKeyword(s) # OfWord(word, s)
              /\ ~IsPast(OfKeyword(s), OfWord(word, s))
              /\ t.temp = NextOfLength(word, end, i) /\ t.matching = m
    <3>1. s \in SearchStates(word)
      OBVIOUS
    <3> HIDE DEF I, t, m, i
    <3>2. t = SearchNext(word, end)[s]
      BY DEF t
    <3> QED BY <1>6, <1>4, <3>1, <3>2, SearchTurn DEF m, i
  <2>2. CASE OfKeyword(s) = OfWord(word, s) /\ t.temp = i /\ t.matching = m + 1
    <3>1. keyword(i)[m + 1] = word[m + 1]
      BY <2>2 DEF OfKeyword, OfWord
    <3>2. Seen(i, m + 1)
      BY <3>1, <2>1, <1>3 DEF Seen
    <3> HIDE DEF t
    <3>3. \A h \in 1 .. t.matching : \E j \in 1 .. t.temp : Seen(j, h)
      BY <3>2, <2>1, <2>2, <1>2
    <3>4. /\ t.temp \in start .. end /\ t.temp < end
          /\ Len(keyword(t.temp)) = Len(word)
          /\ keyword(t.temp)[t.matching] = word[t.matching]
      BY <3>1, <2>1, <2>2, <1>2, <1>4
    <3>9. t \in I
      BY <3>3, <3>4, <2>1
    <3> QED BY <3>9 DEF t
  <2>3. CASE t.temp = NextOfLength(word, end, i) /\ t.matching = m
    <3> DEFINE n == NextOfLength(word, end, i)
    <3>1. n \in i + 1 .. end /\ (n < end => Len(keyword(n)) = Len(word))
      BY <2>1, <1>4, NextFacts
    <3>2. t.temp = n /\ t.matching = m
      BY <2>3
    <3> HIDE DEF n, t
    <3>3. \A h \in 1 .. m : \E j \in 1 .. n : Seen(j, h)
      BY <3>1, <2>1
    <3>4. n \in start .. end /\ m # Len(word)
      BY <3>1, <2>1, <1>2, <1>4, <1>0
    <3>9. t \in I
      BY <3>1, <3>2, <3>3, <3>4, <2>1
    <3> QED BY <3>9 DEF t
  <2> QED BY <2>1, <2>2, <2>3
<1>7. PICK s \in I \cap stops :
        SearchBetween(word, start, end) = IF s.matching = Len(word) THEN s.temp ELSE None
  <2> HIDE DEF I
  <2>1. \A s \in I \ SearchStops(word, end) : SearchNext(word, end)[s] \in I
    BY <1>5, <1>6
  <2> QED BY <2>1, <1>4, <1>5, SearchEnds
<1>8. s.matching = Len(word) /\ get_string_index(word) = s.temp
  BY <1>1, <1>7
<1>9. s.temp \in start .. end - 1
  BY <1>7, <1>8, <1>2, <1>4
<1>10. found \in 1 .. numKeywords
  BY <1>0, <1>2, <1>3, <1>8, <1>9
<1> QED BY <1>3, <1>7, <1>8, <1>9, <1>10 DEF Seen

(***************************************************************************)
(* What get_string_index takes for a keyword has the length and the first  *)
(* and last letters of the keyword it returns, and each letter between is  *)
(* that of some keyword before: the promise of the search is no more than  *)
(* this, for every word.                                                   *)
(***************************************************************************)
THEOREM EveryFindResembles ==
  ASSUME NEW word \in Seq(Character), word # <<>>
  PROVE  ResemblesFound(word)
  BY FoundResembles DEF ResemblesFound, keyword

-----------------------------------------------------------------------------
(* The characters of a source, and its tokens.                              *)

\* The provers do not know that a literal is in STRING.
AnyCharacter == STRING \cup {Space}

\* The first of some places, or the end.
LEMMA FirstOfPlaces ==
  ASSUME NEW p \in Nat, NEW n \in Nat, p <= n + 1, NEW all \in SUBSET (p .. n), NEW q,
         q = IF all = {} THEN n + 1 ELSE CHOOSE r \in all : \A s \in all : r <= s
  PROVE  /\ q \in p .. n + 1
         /\ q <= n => q \in all
         /\ \A r \in all : ~(r < q)
<1>1. CASE all = {}
  BY <1>1
<1>2. CASE all # {}
  <2>1. all \subseteq Nat
    OBVIOUS
  <2>2. \E m \in all : \A k \in all : m <= k
    BY <2>1, <1>2, LeastOf
  <2>3. q \in all /\ \A k \in all : q <= k
    BY <2>2, <1>2
  <2>4. ASSUME NEW r \in all PROVE ~(r < q)
    <3>1. r \in p .. n /\ q \in p .. n /\ q <= r
      BY <2>3
    <3> QED BY <3>1
  <2>5. q \in p .. n
    BY <2>3
  <2> QED BY <2>3, <2>4, <2>5
<1> QED BY <1>1, <1>2

\* The end of the characters of a class.
LEMMA PastIs ==
  ASSUME NEW text \in Seq(AnyCharacter), NEW start \in 1 .. Len(text), NEW class, NEW q,
         q = Past(text, start, class)
  PROVE  /\ q \in start + 1 .. Len(text) + 1
         /\ \A r \in start + 1 .. q - 1 : text[r] \in class
<1> DEFINE p == start + 1
<1> DEFINE all == {r \in p .. Len(text) : text[r] \notin class}
<1>1. Len(text) \in Nat /\ p \in 1 .. Len(text) + 1
  OBVIOUS
<1>2. q = IF all = {} THEN Len(text) + 1 ELSE CHOOSE r \in all : \A s \in all : r <= s
  BY Zenon DEF FirstPlace, Past
<1>3. all \in SUBSET (p .. Len(text))
  OBVIOUS
<1> HIDE DEF p
<1>4. q \in p .. Len(text) + 1 /\ \A r \in all : ~(r < q)
  <2> HIDE DEF all
  <2>1. p \in Nat /\ p <= Len(text) + 1
    BY <1>1
  <2> QED BY <2>1, <1>1, <1>2, <1>3, FirstOfPlaces
<1>5. ASSUME NEW r \in p .. q - 1 PROVE text[r] \in class
  <2>1. r \in p .. Len(text) /\ r < q
    BY <1>1, <1>4
  <2>2. r \notin all
    BY <2>1, <1>4
  <2> QED BY <2>1, <2>2
<1> QED BY <1>4, <1>5 DEF p

\* Where a comment ends.
LEMMA EndOfCommentIs ==
  ASSUME NEW text \in Seq(AnyCharacter), NEW p \in 1 .. Len(text) + 1, NEW q,
         q = EndOfComment(text, p)
  PROVE  /\ q \in p .. Len(text) + 1
         /\ \A r \in p .. q - 1 : text[r] # Newline
<1> DEFINE all == {r \in p .. Len(text) : text[r] = Newline}
<1>1. Len(text) \in Nat
  OBVIOUS
<1>2. q = IF all = {} THEN Len(text) + 1 ELSE CHOOSE r \in all : \A s \in all : r <= s
  BY Zenon DEF FirstPlace, EndOfComment
<1>3. all \in SUBSET (p .. Len(text))
  OBVIOUS
<1>4. q \in p .. Len(text) + 1 /\ \A r \in all : ~(r < q)
  <2> HIDE DEF all
  <2>1. p \in Nat /\ p <= Len(text) + 1
    BY <1>1
  <2> QED BY <2>1, <1>1, <1>2, <1>3, FirstOfPlaces
<1>5. ASSUME NEW r \in p .. q - 1 PROVE text[r] # Newline
  <2>1. r \notin all /\ r \in p .. Len(text)
    BY <1>1, <1>4
  <2> QED BY <2>1
<1> QED BY <1>4, <1>5

\* The characters of words and numbers, but for the underscore.
Letters == {"0", "1", "2", "3", "4", "5", "6", "7", "8", "9",
            "A", "B", "C", "D", "E", "F", "G", "H", "I", "J", "K", "L", "M",
            "N", "O", "P", "Q", "R", "S", "T", "U", "V", "W", "X", "Y", "Z",
            "a", "b", "c", "d", "e", "f", "g", "h", "i", "j", "k", "l", "m",
            "n", "o", "p", "q", "r", "s", "t", "u", "v", "w", "x", "y", "z"}

\* The underscore, the comma and the end of a text are none of them.
LEMMA OthersDiffer ==
  /\ Underscore \notin Letters /\ Comma \notin Letters /\ EndOfText \notin Letters
  /\ Underscore # "\n" /\ Underscore # ":" /\ Underscore # Comma
  /\ Underscore # EndOfText /\ Comma # EndOfText /\ Comma # ":" /\ EndOfText # ":"
  BY Zenon DEF Underscore, Comma, EndOfText, Letters

\* No character stands twice in the order of their codes.
LEMMA OrderedOnce ==
  /\ \A i, j \in 1 .. 63 : Ordered[i] = Ordered[j] => i = j
  /\ \A i \in 1 .. 63 : Ordered[i] \notin {Newline, ":", Comma, EndOfText}
<1>1. ASSUME NEW i \in 1 .. 63, NEW j \in 1 .. 63, Ordered[i] = Ordered[j]
      PROVE  i = j
  BY <1>1, OthersDiffer, SMTT(60) DEF Ordered, Letters
<1>2. ASSUME NEW i \in 1 .. 63
      PROVE  Ordered[i] \notin {Newline, ":", Comma, EndOfText}
  <2>1. Ordered[i] # "\n"
    BY OthersDiffer, SMTT(60) DEF Ordered
  <2>2. Ordered[i] # ":"
    BY OthersDiffer, SMTT(60) DEF Ordered
  <2>3. Ordered[i] # Comma
    BY OthersDiffer, SMTT(60) DEF Ordered, Letters
  <2>4. Ordered[i] # EndOfText
    BY OthersDiffer, SMTT(60) DEF Ordered, Letters
  <2> QED BY <2>1, <2>2, <2>3, <2>4 DEF Newline
<1> HIDE DEF Ordered
<1> QED BY <1>1, <1>2

\* No character belongs to two classes.
LEMMA ClassesDisjoint ==
  /\ Alpha \cap Decimal = {}
  /\ \A c \in Alpha \cup Digit : c \notin {Newline, ":", Comma, EndOfText}
<1> HIDE DEF Ordered
<1>1. ASSUME NEW i \in 11 .. 63, NEW j \in 1 .. 10 PROVE Ordered[i] # Ordered[j]
  <2>1. i \in 1 .. 63 /\ j \in 1 .. 63 /\ i # j
    OBVIOUS
  <2> QED BY <2>1, OrderedOnce
<1>2. Alpha \cap Decimal = {}
  BY <1>1 DEF Alpha, Decimal, CharAt
<1>3. \A c \in Alpha \cup Digit : \E i \in 1 .. 63 : c = Ordered[i]
  BY DEF Alpha, Digit, Decimal, CharAt
<1> QED BY <1>2, <1>3, OrderedOnce

\* A token by its parts.
Token(type, start, at, word) == [type |-> type, start |-> start, line |-> at, text |-> word]

\* The token at a place, case by case of its first character.
LEMMA TokenCases ==
  ASSUME NEW text \in Seq(AnyCharacter), NEW start \in 1 .. Len(text) + 1, NEW at
  PROVE  LET t == TokenAt(text, start, at)
             word == SubSeq(text, start, Past(text, start, Alpha \cup Digit) - 1)
         IN \/ /\ start = Len(text) + 1
               /\ t = Token("TOKEN_EOF", start, at, SubSeq(text, start, start - 1))
            \/ /\ start <= Len(text) /\ text[start] \in Alpha
               /\ t = Token(identifierType(word), start, at, word)
            \/ /\ start <= Len(text) /\ text[start] \in Decimal
               /\ t = Token("TOKEN_NUMBER", start, at,
                            SubSeq(text, start, Past(text, start, Digit) - 1))
            \/ /\ start <= Len(text)
               /\ \E type \in {"TOKEN_COLON", "TOKEN_COMMA", "TOKEN_ERROR"} :
                    /\ t = Token(type, start, at, SubSeq(text, start, start + 1 - 1))
                    /\ text[start] = ":" \/ text[start] = Comma \/ type = "TOKEN_ERROR"
<1> DEFINE t == TokenAt(text, start, at)
           word == SubSeq(text, start, Past(text, start, Alpha \cup Digit) - 1)
           c == Peek(text, start)
<1>4. c \in Alpha \/ c \in Decimal => c \notin {":", Comma, EndOfText}
  BY ClassesDisjoint DEF Digit
<1>5. ~(c \in Alpha /\ c \in Decimal)
  BY ClassesDisjoint
<1>6. start > Len(text) => c = EndOfText
  BY DEF Peek
<1>2. start <= Len(text) => c = text[start]
  BY DEF Peek
<1>3. start > Len(text) => start = Len(text) + 1
  OBVIOUS
<1> HIDE DEF word, c
<1> DEFINE one == SubSeq(text, start, start + 1 - 1)
<1> HIDE DEF one
<1>7. CASE start > Len(text)
  <2>1. t = Token("TOKEN_EOF", start, at, SubSeq(text, start, start - 1))
    <3>1. c = EndOfText /\ c \notin Alpha /\ c \notin Decimal /\ c # ":" /\ c # Comma
      BY <1>4, <1>6, <1>7, OthersDiffer
    <3> QED BY <3>1, <1>7 DEF TokenAt, Token, c
  <2> QED BY <2>1, <1>3, <1>7
<1>8. CASE start <= Len(text) /\ c \in Alpha
  <2>1. t = Token(identifierType(word), start, at, word)
    BY <1>4, <1>5, <1>8 DEF TokenAt, Token, c, word
  <2> QED BY <2>1, <1>2, <1>8 DEF word
<1>9. CASE start <= Len(text) /\ c \in Decimal
  <2>1. t = Token("TOKEN_NUMBER", start, at,
                  SubSeq(text, start, Past(text, start, Digit) - 1))
    BY <1>4, <1>5, <1>9 DEF TokenAt, Token, c
  <2> QED BY <2>1, <1>2, <1>9
<1>10. CASE start <= Len(text) /\ c \notin Alpha /\ c \notin Decimal
  <2>1. c = ":" => t = Token("TOKEN_COLON", start, at, one)
    BY <1>10, OthersDiffer DEF TokenAt, Token, c, one
  <2>2. c = Comma => t = Token("TOKEN_COMMA", start, at, one)
    BY <1>10, OthersDiffer DEF TokenAt, Token, c, one
  <2>3. c # ":" /\ c # Comma => t = Token("TOKEN_ERROR", start, at, one)
    BY <1>10 DEF TokenAt, Token, c, one
  <2>4. text[start] = c
    BY <1>2, <1>10
  <2>5. \E type \in {"TOKEN_COLON", "TOKEN_COMMA", "TOKEN_ERROR"} :
          /\ t = Token(type, start, at, one)
          /\ text[start] = ":" \/ text[start] = Comma \/ type = "TOKEN_ERROR"
    <3> HIDE DEF Token, t
    <3> QED BY <2>1, <2>2, <2>3, <2>4
  <2> QED BY <1>10, <2>5 DEF one
<1> QED BY <1>7, <1>8, <1>9, <1>10

\* The types of the tokens that are not words.
OtherTypes == {"TOKEN_COLON", "TOKEN_COMMA", "TOKEN_ERROR", "TOKEN_EOF", "TOKEN_NUMBER"}

\* No word has one of them.
LEMMA TypesDiffer ==
  \A type \in OtherTypes : type \notin {"TOKEN_IDENTIFIER"} \cup MnemonicSet
<1>1. ASSUME NEW i \in DOMAIN Mnemonics
      PROVE  Mnemonics[i] \notin OtherTypes
  BY SMTT(60) DEF Mnemonics, OtherTypes
<1>2. "TOKEN_IDENTIFIER" \notin OtherTypes
  BY DEF OtherTypes
<1> QED BY <1>1, <1>2 DEF MnemonicSet

\* Sequences over a set are sequences over a larger one.
LEMMA SeqOfSubset ==
  ASSUME NEW A, NEW B, A \subseteq B, NEW w \in Seq(A)
  PROVE  w \in Seq(B)
  OBVIOUS

\* What stands between two places.
LEMMA PartOf ==
  ASSUME NEW C, NEW text \in Seq(C), NEW p \in 1 .. Len(text), NEW q \in p + 1 .. Len(text) + 1
  PROVE  /\ SubSeq(text, p, q - 1) \in Seq(C) /\ Len(SubSeq(text, p, q - 1)) = q - p
         /\ \A i \in 1 .. q - p : SubSeq(text, p, q - 1)[i] = text[p + i - 1]
  OBVIOUS

\* Part of a source whose characters are of one class.
LEMMA PartOfClass ==
  ASSUME NEW C, NEW text \in Seq(C), NEW p \in 1 .. Len(text), NEW q \in p + 1 .. Len(text) + 1,
         NEW class, text[p] \in class, \A r \in p + 1 .. q - 1 : text[r] \in class
  PROVE  SubSeq(text, p, q - 1) \in Seq(class) /\ SubSeq(text, p, q - 1) # <<>>
<1> DEFINE w == SubSeq(text, p, q - 1)
<1>1. /\ w \in Seq(C) /\ Len(w) = q - p
      /\ \A i \in 1 .. q - p : w[i] = text[p + i - 1]
  BY PartOf
<1> HIDE DEF w
<1>2. ASSUME NEW i \in 1 .. q - p PROVE w[i] \in class
  <2>1. p + i - 1 = p \/ p + i - 1 \in p + 1 .. q - 1
    OBVIOUS
  <2> QED BY <1>1, <2>1
<1>3. w \in Seq(class)
  BY <1>1, <1>2
<1>4. w # <<>>
  BY <1>1
<1> QED BY <1>3, <1>4 DEF w

\* A word is read up to the first character that does not belong to it.
LEMMA WordOf ==
  ASSUME NEW text \in Seq(AnyCharacter), NEW p \in 1 .. Len(text), text[p] \in Alpha, NEW w,
         w = SubSeq(text, p, Past(text, p, Alpha \cup Digit) - 1)
  PROVE  w \in Seq(Character) /\ w # <<>>
<1> DEFINE q == Past(text, p, Alpha \cup Digit)
<1>1. /\ q \in p + 1 .. Len(text) + 1
      /\ \A r \in p + 1 .. q - 1 : text[r] \in Alpha \cup Digit
  BY PastIs
<1>2. w = SubSeq(text, p, q - 1)
  OBVIOUS
<1> HIDE DEF q
<1>3. w \in Seq(Alpha \cup Digit) /\ w # <<>>
  BY <1>1, <1>2, PartOfClass
<1>4. Alpha \cup Digit \subseteq Character
  BY CodeFacts DEF Character
<1> HIDE DEF Character
<1> QED BY <1>3, <1>4, SeqOfSubset

\* Words have the types of words.
LEMMA WordTypes ==
  ASSUME NEW word \in Seq(Character), word # <<>>
  PROVE  identifierType(word) \in {"TOKEN_IDENTIFIER"} \cup MnemonicSet
<1> DEFINE i == get_string_index(word)
<1>1. CASE i = None
  BY <1>1 DEF identifierType, KeywordType
<1>2. CASE i # None
  <2>1. i \in DOMAIN Mnemonics
    BY <1>2, FoundResembles, KeywordFacts
  <2>2. identifierType(word) = Mnemonics[i]
    BY <1>2 DEF identifierType, KeywordType
  <2> HIDE DEF i
  <2> QED BY <2>1, <2>2 DEF MnemonicSet
<1> QED BY <1>1, <1>2

\* Every word of any text.
LEMMA WordsFoundIn ==
  ASSUME NEW text \in Seq(AnyCharacter), NEW p \in 1 .. Len(text), NEW at, NEW t,
         t = TokenAt(text, p, at), t.type \in {"TOKEN_IDENTIFIER"} \cup MnemonicSet
  PROVE  FindsKeyword(t.text) /\ ResemblesFound(t.text)
<1> DEFINE w == SubSeq(text, p, Past(text, p, Alpha \cup Digit) - 1)
<1>1. t.text = w /\ text[p] \in Alpha
  <2>1. p \in 1 .. Len(text) + 1 /\ p # Len(text) + 1
    OBVIOUS
  <2>2. \/ text[p] \in Alpha /\ t = Token(identifierType(w), p, at, w)
        \/ \E type \in OtherTypes : \E word : t = Token(type, p, at, word)
    BY <2>1, TokenCases DEF OtherTypes
  <2>3. ~ \E type \in OtherTypes : \E word : t = Token(type, p, at, word)
    BY TypesDiffer DEF Token
  <2> HIDE DEF w
  <2> QED BY <2>2, <2>3 DEF Token
<1> HIDE DEF w
<1>2. w \in Seq(Character) /\ w # <<>>
  BY <1>1, WordOf DEF w
<1> QED BY <1>1, <1>2, EveryKeywordIsFound, EveryFindResembles

-----------------------------------------------------------------------------
(* Lines.                                                                   *)

\* How many lines end before a place.
Ends(text, p) == {q \in 1 .. p - 1 : text[q] = Newline}
LinesBefore(text, p) == Cardinality(Ends(text, p))

\* There are no more ends of lines than characters.
LEMMA LinesFinite ==
  ASSUME NEW text, NEW p \in Nat \ {0}
  PROVE  IsFiniteSet(Ends(text, p)) /\ LinesBefore(text, p) \in 0 .. p - 1
<1>1. IsFiniteSet(1 .. p - 1) /\ Cardinality(1 .. p - 1) = p - 1
  <2>1. IsFiniteSet(1 .. p - 1) /\ Cardinality(1 .. p - 1) = IF 1 <= p - 1 THEN p - 1 - 1 + 1 ELSE 0
    <3>1. 1 \in Int /\ p - 1 \in Int
      OBVIOUS
    <3> QED BY <3>1, FS_Interval
  <2> QED BY <2>1
<1>2. Ends(text, p) \subseteq 1 .. p - 1
  BY DEF Ends
<1>3. IsFiniteSet(Ends(text, p)) /\ Cardinality(Ends(text, p)) <= Cardinality(1 .. p - 1)
  BY <1>1, <1>2, FS_Subset
<1>4. Cardinality(Ends(text, p)) \in Nat
  BY <1>3, FS_CardinalityType
<1> QED BY <1>1, <1>3, <1>4 DEF LinesBefore

\* Between two places without an end of a line the count stays.
LEMMA LinesBetween ==
  ASSUME NEW text, NEW p \in Nat \ {0}, NEW q \in Nat, p <= q,
         \A r \in p .. q - 1 : text[r] # Newline
  PROVE  LinesBefore(text, q) = LinesBefore(text, p)
<1>1. Ends(text, q) = Ends(text, p)
  BY DEF Ends
<1> QED BY <1>1 DEF LinesBefore

\* Behind the end of a line it is one more.
LEMMA LineEnds ==
  ASSUME NEW text, NEW p \in Nat \ {0}, text[p] = Newline
  PROVE  LinesBefore(text, p + 1) = LinesBefore(text, p) + 1
<1>1. Ends(text, p + 1) = Ends(text, p) \cup {p} /\ p \notin Ends(text, p)
  BY DEF Ends
<1>2. IsFiniteSet(Ends(text, p))
  BY LinesFinite
<1>3. Cardinality(Ends(text, p) \cup {p}) = Cardinality(Ends(text, p)) + 1
  BY <1>1, <1>2, FS_AddElement
<1> QED BY <1>1, <1>3 DEF LinesBefore

-----------------------------------------------------------------------------
(* The loop of skipWhitespace.                                              *)

SkipStates(text) == [current : 1 .. Len(text) + 1, line : Nat]
SkipNext(text) == [s \in SkipStates(text) |-> Skipped(text, s)]
SkipStops(text) == {s \in SkipStates(text) : Skipped(text, s) = s}
Itself(text) == [s \in SkipStates(text) |-> s]

\* No blank is the end of a line.
LEMMA BlanksDiffer ==
  /\ EndOfText \notin Blank /\ EndOfText # "/" /\ EndOfText # Newline
  /\ Newline \notin Blank /\ Newline # "/" /\ "/" \notin Blank
  BY Zenon DEF EndOfText, Blank, Space, Newline

\* What a turn does.
LEMMA SkipTurn ==
  ASSUME NEW text \in Seq(AnyCharacter), NEW s \in SkipStates(text), NEW t, t = Skipped(text, s)
  PROVE  /\ t \in SkipStates(text)
         /\ t # s => /\ s.current <= Len(text) /\ s.current < t.current
         /\ \/ /\ Peek(text, s.current) # Newline
               /\ t.line = s.line
               /\ \A r \in s.current .. t.current - 1 : text[r] # Newline
            \/ /\ text[s.current] = Newline
               /\ t.line = s.line + 1 /\ t.current = s.current + 1
<1> DEFINE c == Peek(text, s.current)
           end == EndOfComment(text, s.current)
<1>1. /\ Len(text) \in Nat /\ s.current \in 1 .. Len(text) + 1 /\ s.line \in Nat
      /\ s = [current |-> s.current, line |-> s.line]
  BY DEF SkipStates
<1>2. s.current <= Len(text) => c = text[s.current]
  BY DEF Peek
<1>3. s.current = Len(text) + 1 => c = EndOfText
  BY <1>1 DEF Peek
<1> HIDE DEF c
<1>4. CASE c \in Blank
  <2>1. c # Newline /\ c # EndOfText /\ ~(c = "/" /\ Peek(text, s.current + 1) = "/")
    BY <1>4, BlanksDiffer
  <2>2. t = [s EXCEPT !.current = s.current + 1]
    BY <1>4, <2>1 DEF Skipped, c
  <2>3. s.current <= Len(text) /\ text[s.current] # Newline
    BY <2>1, <1>1, <1>2, <1>3
  <2>4. t.line = s.line /\ t.current = s.current + 1 /\ t \in SkipStates(text)
    BY <1>1, <2>2, <2>3 DEF SkipStates
  <2>5. \A r \in s.current .. t.current - 1 : text[r] # Newline
    BY <1>1, <2>3, <2>4
  <2> QED BY <1>1, <2>1, <2>3, <2>4, <2>5 DEF c
<1>5. CASE c = Newline
  <2>1. c \notin Blank /\ c # EndOfText /\ c # "/"
    BY <1>5, BlanksDiffer
  <2>2. t = [current |-> s.current + 1, line |-> s.line + 1]
    BY <1>5, <2>1 DEF Skipped, c
  <2>3. s.current <= Len(text) /\ text[s.current] = Newline
    BY <2>1, <1>5, <1>1, <1>2, <1>3
  <2> QED BY <1>1, <2>2, <2>3 DEF SkipStates
<1>6. CASE c = "/" /\ Peek(text, s.current + 1) = "/"
  <2>1. c # Newline /\ c \notin Blank /\ c # EndOfText
    BY <1>6, BlanksDiffer
  <2>2. t = [s EXCEPT !.current = end]
    BY <1>6, <2>1 DEF Skipped, c
  <2>3. s.current <= Len(text) /\ text[s.current] # Newline
    BY <2>1, <1>1, <1>2, <1>3
  <2>4. /\ end \in s.current .. Len(text) + 1
        /\ \A r \in s.current .. end - 1 : text[r] # Newline
    BY <1>1, EndOfCommentIs
  <2> HIDE DEF end
  <2>5. t = [current |-> end, line |-> s.line]
    BY <1>1, <2>2
  <2>6. t # s => end # s.current
    BY <1>1, <2>5
  <2> QED BY <1>1, <2>1, <2>3, <2>4, <2>5, <2>6 DEF SkipStates, c
<1>7. CASE c \notin Blank /\ c # Newline /\ ~(c = "/" /\ Peek(text, s.current + 1) = "/")
  <2>1. t = s
    BY <1>7 DEF Skipped, c
  <2>2. t.line = s.line /\ \A r \in s.current .. t.current - 1 : text[r] # Newline
    BY <1>1, <2>1
  <2> QED BY <1>1, <1>7, <2>1, <2>2 DEF c
<1> QED BY <1>4, <1>5, <1>6, <1>7

\* The loop ends in a state which any set closed under its turns contains.
LEMMA SkipEnds ==
  ASSUME NEW text \in Seq(AnyCharacter), NEW from \in 1 .. Len(text) + 1, NEW at \in Nat,
         NEW I \in SUBSET SkipStates(text),
         \A s \in I : Skipped(text, s) \in I,
         [current |-> from, line |-> at] \in I
  PROVE  /\ skipWhitespace(text, from, at) \in I
         /\ Peek(text, skipWhitespace(text, from, at).current) # Newline
<1> DEFINE D == SkipStates(text)
           stops == SkipStops(text)
           next == SkipNext(text)
           val == Itself(text)
           measure == [s \in D |-> Len(text) + 1 - s.current]
           Skip(f) == f = [s \in D |->
             LET t == Skipped(text, s) IN IF t = s THEN s ELSE f[t]]
           skip == CHOOSE f : Skip(f)
           s0 == [current |-> from, line |-> at]
<1>1. skipWhitespace(text, from, at) = skip[s0]
  BY DEF skipWhitespace, SkipStates
<1>2. Len(text) \in Nat
  OBVIOUS
<1>3. stops \in SUBSET D /\ next \in [D -> D]
  BY SkipTurn DEF SkipStops, SkipNext
<1>4. PICK f : CallsItselfLast(f, D, stops, val, next)
  <2> HIDE DEF D, stops, next, val
  <2> QED BY <1>3, TailRecursion
<1>5. \A g : Skip(g) <=> CallsItselfLast(g, D, stops, val, next)
  <2> SUFFICES ASSUME NEW g
               PROVE  Skip(g) <=> CallsItselfLast(g, D, stops, val, next)
    OBVIOUS
  <2>1. ASSUME NEW s \in D
        PROVE  (IF Skipped(text, s) = s THEN s ELSE g[Skipped(text, s)])
                 = (IF s \in stops THEN val[s] ELSE g[next[s]])
    BY DEF SkipStops, Itself, SkipNext
  <2> HIDE DEF D, stops, next, val
  <2>2. [s \in D |-> IF Skipped(text, s) = s THEN s ELSE g[Skipped(text, s)]]
          = [s \in D |-> IF s \in stops THEN val[s] ELSE g[next[s]]]
    BY <2>1
  <2> QED BY <2>2 DEF CallsItselfLast
<1>6. CallsItselfLast(skip, D, stops, val, next)
  <2> HIDE DEF D, stops, next, val
  <2>1. Skip(f)
    BY <1>4, <1>5
  <2>2. Skip(skip)
    <3> HIDE DEF Skip
    <3> QED BY <2>1
  <2> HIDE DEF skip, Skip
  <2> QED BY <2>2, <1>5
<1>7. Falls(measure, D, stops, next)
  <2>1. measure \in [D -> Nat]
    BY <1>2 DEF SkipStates
  <2>2. ASSUME NEW s \in D \ stops PROVE measure[next[s]] < measure[s]
    <3> DEFINE t == Skipped(text, s)
    <3>1. t \in D /\ t # s /\ next[s] = t
      BY SkipTurn DEF SkipStops, SkipNext
    <3>2. s.current < t.current
      BY <3>1, SkipTurn
    <3> HIDE DEF t
    <3>3. measure[t] = Len(text) + 1 - t.current /\ measure[s] = Len(text) + 1 - s.current
      BY <3>1
    <3>4. t.current \in Nat /\ s.current \in Nat
      BY <3>1 DEF SkipStates
    <3> HIDE DEF measure
    <3> QED BY <1>2, <3>1, <3>2, <3>3, <3>4
  <2> HIDE DEF measure, D, stops, next
  <2> QED BY <2>1, <2>2 DEF Falls
<1>8. I \in SUBSET D /\ ClosedUnder(I, stops, next)
  BY DEF ClosedUnder, SkipNext
<1>9. EndsWithin(I, skip, stops, val)
  <2> HIDE DEF skip, measure, D, stops, next, val
  <2> QED BY <1>3, <1>6, <1>7, <1>8, TailEnds
<1>10. PICK y \in I \cap stops : skip[s0] = val[y]
  <2> HIDE DEF skip, stops, val
  <2> QED BY <1>9 DEF EndsWithin
<1>11. skip[s0] = y
  <2> HIDE DEF skip
  <2> QED BY <1>10, <1>8 DEF Itself
<1>12. Peek(text, y.current) # Newline
  <2>1. y \in SkipStates(text) /\ Skipped(text, y) = y
    BY <1>10 DEF SkipStops
  <2>2. /\ Len(text) \in Nat /\ y.current \in Nat /\ y.line \in Nat
    BY <2>1 DEF SkipStates
  <2> QED BY <2>1, <2>2, SkipTurn DEF Peek
<1> HIDE DEF skip
<1> QED BY <1>1, <1>10, <1>11, <1>12

\* skipWhitespace counts the lines it goes over.
LEMMA SkipCounts ==
  ASSUME NEW text \in Seq(AnyCharacter), NEW from \in 1 .. Len(text) + 1, NEW s,
         s = skipWhitespace(text, from, 1 + LinesBefore(text, from))
  PROVE  /\ s.current \in from .. Len(text) + 1
         /\ s.line = 1 + LinesBefore(text, s.current)
         /\ Peek(text, s.current) # Newline
<1> DEFINE at == 1 + LinesBefore(text, from)
           I == {r \in SkipStates(text) : /\ from <= r.current
                                          /\ r.line = 1 + LinesBefore(text, r.current)}
<1>1. Len(text) \in Nat /\ at \in Nat
  BY LinesFinite
<1>2. ASSUME NEW r \in I PROVE Skipped(text, r) \in I
  <2> DEFINE t == Skipped(text, r)
  <2>1. /\ r \in SkipStates(text) /\ from <= r.current
        /\ r.line = 1 + LinesBefore(text, r.current)
    OBVIOUS
  <2>2. /\ t \in SkipStates(text)
        /\ t # r => /\ r.current <= Len(text) /\ r.current < t.current
        /\ \/ /\ t.line = r.line
              /\ \A q \in r.current .. t.current - 1 : text[q] # Newline
           \/ /\ text[r.current] = Newline
              /\ t.line = r.line + 1 /\ t.current = r.current + 1
    BY <2>1, SkipTurn
  <2> HIDE DEF I, t
  <2>3. /\ t.current \in Nat /\ r.current \in Nat \ {0} /\ r.current <= t.current
    BY <2>1, <2>2, <1>1 DEF SkipStates
  <2>4. t.line = 1 + LinesBefore(text, t.current)
    <3>1. CASE t.line = r.line /\ \A q \in r.current .. t.current - 1 : text[q] # Newline
      <4>1. LinesBefore(text, t.current) = LinesBefore(text, r.current)
        BY <3>1, <2>3, LinesBetween
      <4> QED BY <4>1, <3>1, <2>1
    <3>2. CASE text[r.current] = Newline /\ t.line = r.line + 1 /\ t.current = r.current + 1
      <4>1. LinesBefore(text, r.current + 1) = LinesBefore(text, r.current) + 1
        BY <3>2, <2>3, LineEnds
      <4>2. LinesBefore(text, r.current) \in Nat
        BY <2>3, LinesFinite
      <4> QED BY <4>1, <4>2, <3>2, <2>1
    <3> QED BY <2>2, <3>1, <3>2
  <2>5. from <= t.current
    BY <2>1, <2>3
  <2> QED BY <2>2, <2>4, <2>5 DEF I, t
<1>3. [current |-> from, line |-> at] \in I
  BY <1>1 DEF SkipStates
<1>4. s \in I /\ Peek(text, s.current) # Newline
  <2>1. I \in SUBSET SkipStates(text) /\ s = skipWhitespace(text, from, at)
    OBVIOUS
  <2> HIDE DEF I, at
  <2> QED BY <2>1, <1>1, <1>2, <1>3, SkipEnds
<1> QED BY <1>4 DEF SkipStates

\* The token, where it stops and in which line.
TokenIn(text, t) ==
  /\ t.start \in 1 .. Len(text) + 1
  /\ Stop(t) \in t.start .. Len(text) + 1
  /\ t.line = 1 + LinesBefore(text, Stop(t))
  /\ t.type = "TOKEN_NUMBER" => t.text \in Seq(Digit) /\ t.text # <<>>
  /\ t.type = "TOKEN_IDENTIFIER" => t.text \in Seq(Character)

\* The token at the end of a source has no characters.
LEMMA EmptyText ==
  ASSUME NEW text \in Seq(AnyCharacter)
  PROVE  Len(SubSeq(text, Len(text) + 1, Len(text))) = 0
  OBVIOUS

\* A token lies within the source, on one line.
LEMMA TokenAtIs ==
  ASSUME NEW text \in Seq(AnyCharacter), NEW p \in 1 .. Len(text) + 1,
         Peek(text, p) # Newline, NEW t,
         t = TokenAt(text, p, 1 + LinesBefore(text, p))
  PROVE  TokenIn(text, t) /\ t.start = p
<1> DEFINE at == 1 + LinesBefore(text, p)
           w == SubSeq(text, p, Past(text, p, Alpha \cup Digit) - 1)
           n == SubSeq(text, p, Past(text, p, Digit) - 1)
<1>1. Len(text) \in Nat
  OBVIOUS
<1>2. ASSUME NEW q \in p .. Len(text) + 1, NEW type, NEW word, Len(word) = q - p,
             \A r \in p .. q - 1 : text[r] # Newline,
             t = Token(type, p, at, word),
             type = "TOKEN_NUMBER" => word \in Seq(Digit) /\ word # <<>>,
             type = "TOKEN_IDENTIFIER" => word \in Seq(Character)
      PROVE  TokenIn(text, t) /\ t.start = p
  <2>1. /\ t.start = p /\ t.line = at /\ t.type = type /\ t.text = word /\ Stop(t) = q
    BY <1>1, <1>2 DEF Token, Stop
  <2>2. LinesBefore(text, q) = LinesBefore(text, p)
    BY <1>1, <1>2, LinesBetween
  <2> QED BY <2>1, <2>2, <1>1, <1>2 DEF TokenIn
<1>3. CASE p = Len(text) + 1 /\ t = Token("TOKEN_EOF", p, at, SubSeq(text, p, p - 1))
  <2>1. Len(SubSeq(text, p, p - 1)) = p - p
    <3>1. p - 1 = Len(text)
      BY <1>3, <1>1
    <3> QED BY <3>1, <1>3, <1>1, EmptyText
  <2> DEFINE none == SubSeq(text, p, p - 1)
  <2>2. t = Token("TOKEN_EOF", p, at, none)
    BY <1>3
  <2>3. p \in p .. Len(text) + 1 /\ \A r \in p .. p - 1 : text[r] # Newline
    BY <1>1
  <2> HIDE DEF at, none
  <2>4. Len(none) = p - p
    BY <2>1 DEF none
  <2> QED BY <1>2, <2>2, <2>3, <2>4
<1>4. CASE p <= Len(text) /\ text[p] \in Alpha /\ t = Token(identifierType(w), p, at, w)
  <2>0. p \in 1 .. Len(text)
    BY <1>1, <1>4
  <2> DEFINE q == Past(text, p, Alpha \cup Digit)
  <2>1. /\ q \in p + 1 .. Len(text) + 1
        /\ \A r \in p + 1 .. q - 1 : text[r] \in Alpha \cup Digit
    BY <1>4, PastIs
  <2>2. w = SubSeq(text, p, q - 1)
    OBVIOUS
  <2>3. w \in Seq(Character) /\ w # <<>>
    <3> HIDE DEF at
    <3> QED BY <1>4, <2>0, WordOf
  <2> HIDE DEF q, w, at
  <2>4. Len(w) = q - p
    BY <2>0, <2>1, <2>2, PartOf
  <2>5. \A r \in p .. q - 1 : text[r] # Newline
    BY <1>4, <2>1, ClassesDisjoint
  <2>6. identifierType(w) # "TOKEN_NUMBER"
    <3>1. identifierType(w) \in {"TOKEN_IDENTIFIER"} \cup MnemonicSet
      BY <2>3, WordTypes
    <3> QED BY <3>1, TypesDiffer DEF OtherTypes
  <2> QED BY <1>1, <1>2, <1>4, <2>1, <2>3, <2>4, <2>5, <2>6
<1>5. CASE p <= Len(text) /\ text[p] \in Decimal /\ t = Token("TOKEN_NUMBER", p, at, n)
  <2>0. p \in 1 .. Len(text)
    BY <1>1, <1>5
  <2> DEFINE q == Past(text, p, Digit)
  <2>1. /\ q \in p + 1 .. Len(text) + 1
        /\ \A r \in p + 1 .. q - 1 : text[r] \in Digit
    BY <1>5, PastIs
  <2>2. n = SubSeq(text, p, q - 1)
    OBVIOUS
  <2> HIDE DEF q, n, at
  <2>3. text[p] \in Digit
    BY <1>5 DEF Digit
  <2>4. Len(n) = q - p
    BY <2>0, <2>1, <2>2, PartOf
  <2>5. \A r \in p .. q - 1 : text[r] # Newline
    BY <2>1, <2>3, ClassesDisjoint
  <2>6. n \in Seq(Digit) /\ n # <<>>
    BY <2>0, <2>1, <2>2, <2>3, PartOfClass
  <2> QED BY <1>1, <1>2, <1>5, <2>1, <2>4, <2>5, <2>6
<1>6. ASSUME p <= Len(text), NEW type \in {"TOKEN_COLON", "TOKEN_COMMA", "TOKEN_ERROR"},
             t = Token(type, p, at, SubSeq(text, p, p + 1 - 1))
      PROVE  TokenIn(text, t) /\ t.start = p
  <2> DEFINE q == p + 1
             one == SubSeq(text, p, q - 1)
  <2>1. q \in p + 1 .. Len(text) + 1 /\ p \in 1 .. Len(text)
    BY <1>1, <1>6
  <2> HIDE DEF q
  <2>2. Len(one) = q - p
    BY <2>1, PartOf
  <2> HIDE DEF one, at
  <2>3. \A r \in p .. q - 1 : text[r] # Newline
    BY <1>6 DEF Peek, q
  <2>4. t = Token(type, p, at, one)
    BY <1>6 DEF q, one
  <2> QED BY <1>1, <1>2, <1>6, <2>1, <2>2, <2>3, <2>4
<1>7. \/ p = Len(text) + 1 /\ t = Token("TOKEN_EOF", p, at, SubSeq(text, p, p - 1))
      \/ p <= Len(text) /\ text[p] \in Alpha /\ t = Token(identifierType(w), p, at, w)
      \/ p <= Len(text) /\ text[p] \in Decimal /\ t = Token("TOKEN_NUMBER", p, at, n)
      \/ /\ p <= Len(text)
         /\ \E type \in {"TOKEN_COLON", "TOKEN_COMMA", "TOKEN_ERROR"} :
              t = Token(type, p, at, SubSeq(text, p, p + 1 - 1))
  BY TokenCases
<1> HIDE DEF w, n, at
<1> QED BY <1>3, <1>4, <1>5, <1>6, <1>7

\* So does the next one, from wherever the last ended.
LEMMA ScanIs ==
  ASSUME NEW text \in Seq(AnyCharacter), NEW from \in 1 .. Len(text) + 1, NEW t,
         t = scanToken(text, from, 1 + LinesBefore(text, from))
  PROVE  TokenIn(text, t) /\ from <= Stop(t)
<1> DEFINE s == skipWhitespace(text, from, 1 + LinesBefore(text, from))
<1>1. /\ s.current \in from .. Len(text) + 1
      /\ s.line = 1 + LinesBefore(text, s.current)
      /\ Peek(text, s.current) # Newline
  BY SkipCounts
<1>2. t = TokenAt(text, s.current, 1 + LinesBefore(text, s.current))
  BY <1>1 DEF scanToken
<1> HIDE DEF s
<1>3. TokenIn(text, t) /\ t.start = s.current
  <2>1. s.current \in 1 .. Len(text) + 1
    BY <1>1
  <2> QED BY <1>1, <1>2, <2>1, TokenAtIs
<1>4. from <= s.current /\ s.current <= Stop(t)
  BY <1>1, <1>3 DEF TokenIn
<1>5. Stop(t) \in Nat /\ s.current \in Nat
  BY <1>1, <1>3 DEF TokenIn
<1> QED BY <1>3, <1>4, <1>5

-----------------------------------------------------------------------------
(* The bytes of instructions.                                               *)

\* An opcode is a byte.
LEMMA OpcodeBytes ==
  \A op \in NoOperand \cup Hex8 \cup Hex16 : codegen_get_opcode[op] \in Byte
<1>1. \A op \in NoOperand : codegen_get_opcode[op] \in Byte
  BY DEF codegen_get_opcode, NoOperand, Byte
<1>2. \A op \in Hex8 : codegen_get_opcode[op] \in Byte
  BY DEF codegen_get_opcode, Hex8, Byte
<1>3. \A op \in Hex16 : codegen_get_opcode[op] \in Byte
  BY DEF codegen_get_opcode, Hex16, Byte
<1> QED BY <1>1, <1>2, <1>3

\* The numbers of registers.
LEMMA NumberOfRegister ==
  /\ \A name \in Registers \cup {"m"} : codegen_get_reg_number[name] \in 0 .. 7
  /\ \A name \in Pairs \cup {"sp", "psw"} : PairNumber(name) \in 0 .. 3
<1>1. \A name \in Registers \cup {"m"} : codegen_get_reg_number[name] \in 0 .. 7
  BY DEF codegen_get_reg_number, Registers
<1>2. \A name \in Pairs \cup {"sp", "psw"} : PairNumber(name) \in 0 .. 3
  BY DEF PairNumber, Pairs, codegen_get_reg_number
<1> QED BY <1>1, <1>2

\* The opcodes of register pairs.
OfPairs == PairOrSp \cup PairOrPsw \cup PairBOrD \cup {"lxi"}

\* The byte of an instruction with an operand.
LEMMA EncodedByte ==
  /\ \A op \in RegOrMem \cup {"mvi"}, name \in Registers \cup {"m"} : Encoded(op, name) \in Byte
  /\ \A op \in OfPairs, name \in Pairs \cup {"sp", "psw"} : Encoded(op, name) \in Byte
<1>1. ASSUME NEW op \in RegOrMem \cup {"mvi"}, NEW num \in 0 .. 7
      PROVE  codegen_write_reg_or_mem(op, num) \in Byte
  BY DEF codegen_write_reg_or_mem, RegOrMem, Byte
<1>2. ASSUME NEW op \in OfPairs, NEW num \in 0 .. 3
      PROVE  codegen_write_regpair(op, num) \in Byte
  BY DEF codegen_write_regpair, OfPairs, PairOrSp, PairOrPsw, PairBOrD, Byte
<1>3. \A op \in OfPairs : op \notin RegOrMem \cup {"mvi"}
  BY DEF OfPairs, PairOrSp, PairOrPsw, PairBOrD, RegOrMem
<1>4. ASSUME NEW op \in RegOrMem \cup {"mvi"}, NEW name \in Registers \cup {"m"}
      PROVE  Encoded(op, name) \in Byte
  BY <1>1, NumberOfRegister DEF Encoded
<1>5. ASSUME NEW op \in OfPairs, NEW name \in Pairs \cup {"sp", "psw"}
      PROVE  Encoded(op, name) \in Byte
  BY <1>2, <1>3, NumberOfRegister DEF Encoded
<1> QED BY <1>4, <1>5

\* The byte of mov.
LEMMA MovByte ==
  \A d, s \in Registers \cup {"m"} : codegen_mov(d, s) \in Byte
  BY NumberOfRegister DEF codegen_mov, Byte

-----------------------------------------------------------------------------
(* Numbers.                                                                 *)

\* Where digits and letters begin in the order of the codes.
LEMMA FirstLetters ==
  /\ Ordered[1] = "0" /\ Ordered[11] = "A" /\ Ordered[38] = "a"
  /\ "0" \in CharAt(1, 63) /\ "A" \in CharAt(1, 63) /\ "a" \in CharAt(1, 63)
  /\ "0" \in Digit
<1>1. Ordered[1] = "0" /\ Ordered[11] = "A" /\ Ordered[38] = "a"
  BY DEF Ordered
<1> HIDE DEF Ordered
<1> QED BY <1>1 DEF CharAt, Digit, Decimal

\* The letters by their codes.
LEMMA CodeOf ==
  \A i \in 1 .. 63 : Code[Ordered[i]] = i
<1> HIDE DEF Ordered
<1> SUFFICES ASSUME NEW i \in 1 .. 63 PROVE Code[Ordered[i]] = i
  OBVIOUS
<1>1. Ordered[i] \in CharAt(1, 63)
  BY DEF CharAt
<1>2. Code[Ordered[i]] \in 1 .. 63 /\ Ordered[Code[Ordered[i]]] = Ordered[i]
  BY <1>1, CodeFacts
<1> QED BY <1>2, OrderedOnce

\* The digits have their values, and the letters too.
LEMMA DigitValues ==
  /\ \A i \in 1 .. 10 : DigitValue(Ordered[i]) = i - 1
  /\ \A i \in 11 .. 36 : DigitValue(Ordered[i]) = i - 1
  /\ \A i \in 38 .. 63 : DigitValue(Ordered[i]) = i - 28
<1> HIDE DEF Ordered
<1>1. Code["0"] = 1 /\ Code["A"] = 11 /\ Code["a"] = 38
  BY FirstLetters, CodeOf
<1>2. \A i \in 1 .. 63 : /\ Ordered[i] \in Decimal <=> i \in 1 .. 10
                         /\ Ordered[i] \in UpperCase <=> i \in 11 .. 36
  BY OrderedOnce DEF Decimal, UpperCase, CharAt
<1>3. \A i \in 1 .. 10 : DigitValue(Ordered[i]) = i - 1
  BY <1>1, <1>2, CodeOf DEF DigitValue, Place
<1>4. \A i \in 11 .. 36 : DigitValue(Ordered[i]) = i - 1
  BY <1>1, <1>2, CodeOf DEF DigitValue, Place
<1>5. \A i \in 38 .. 63 : DigitValue(Ordered[i]) = i - 28
  BY <1>1, <1>2, CodeOf DEF DigitValue, Place
<1> QED BY <1>3, <1>4, <1>5

\* The digit that fills the places to the left.
LEMMA ZeroIsLow == "0" \notin UpperCase /\ DigitValue("0") = 0
<1> HIDE DEF Ordered
<1>1. Ordered[1] \notin UpperCase
  BY OrderedOnce DEF UpperCase, CharAt
<1>2. DigitValue(Ordered[1]) = 0
  <2>1. 1 \in 1 .. 10 /\ 1 - 1 = 0
    OBVIOUS
  <2> QED BY <2>1, DigitValues
<1> QED BY <1>1, <1>2, FirstLetters, Zenon

\* The value of a digit in either case.
LEMMA DigitNibble ==
  \A c \in Digit : /\ DigitValue(c) \in Nibble
                   /\ CompiledDigit(c) = IF c \in UpperCase THEN DigitValue(c) + 7
                                                            ELSE DigitValue(c)
<1> HIDE DEF Ordered
<1> SUFFICES ASSUME NEW c \in Digit
             PROVE  /\ DigitValue(c) \in Nibble
                    /\ CompiledDigit(c) = IF c \in UpperCase THEN DigitValue(c) + 7
                                                             ELSE DigitValue(c)
  OBVIOUS
<1>1. PICK i \in (1 .. 10) \cup (11 .. 16) \cup (38 .. 43) : c = Ordered[i]
  BY DEF Digit, Decimal, CharAt
<1>2. c \in UpperCase <=> i \in 11 .. 16
  BY <1>1, OrderedOnce DEF UpperCase, CharAt
<1>3. Place(c, "A") = i - 11
  BY <1>1, FirstLetters, CodeOf DEF Place
<1>4. DigitValue(c) = IF i \in 38 .. 43 THEN i - 28 ELSE i - 1
  BY <1>1, DigitValues
<1> QED BY <1>1, <1>2, <1>3, <1>4 DEF CompiledDigit, Nibble

\* The digits of a number from its end, zeros before the first.
LEMMA DigitAtIs ==
  ASSUME NEW digits \in Seq(Digit), NEW p \in Places
  PROVE  DigitAt(digits, p) \in Digit
  BY FirstLetters DEF DigitAt, Places

\* The nibbles that compile_hex joins, whatever a shift too far leaves.
LEMMA CompiledNibbles ==
  ASSUME NEW digits \in Seq(Digit)
  PROVE  CompiledNumber(digits) \in [Places -> Nibble]
  BY DEF CompiledNumber, Nibble

\* A number of four digits.
LEMMA SmallSum ==
  ASSUME NEW a \in Nibble, NEW b \in Nibble, NEW c \in Nibble, NEW d \in Nibble
  PROVE  /\ a + 16 * b + 256 * c + 4096 * d \in Nat
         /\ a + 16 * b + 256 * c + 4096 * d < 65536
         /\ c = 0 /\ d = 0 => a + 16 * b + 256 * c + 4096 * d < 256
<1>1. /\ 16 * b \in Int /\ 0 <= 16 * b /\ 16 * b <= 240
      /\ 256 * c \in Int /\ 0 <= 256 * c /\ 256 * c <= 3840
      /\ 4096 * d \in Int /\ 0 <= 4096 * d /\ 4096 * d <= 61440
      /\ c = 0 => 256 * c = 0
      /\ d = 0 => 4096 * d = 0
  BY DEF Nibble
<1>2. a \in Int /\ 0 <= a /\ a <= 15
  BY DEF Nibble
<1> DEFINE x == 16 * b
           y == 256 * c
           z == 4096 * d
<1> HIDE DEF x, y, z
<1> QED BY <1>1, <1>2 DEF x, y, z

\* The word of eight nibbles is the word of the last four.
LEMMA WordOfNibbles ==
  ASSUME NEW number \in [Places -> Nibble]
  PROVE  /\ Word16(number) \in Nat /\ Word16(number) < 65536
         /\ Below(number, 2) => Word16(number) \in Byte
<1> DEFINE a == number[0]
           b == number[1]
           c == number[2]
           d == number[3]
<1>1. a \in Nibble /\ b \in Nibble /\ c \in Nibble /\ d \in Nibble
  BY DEF Places
<1>2. Below(number, 2) => c = 0 /\ d = 0
  BY DEF Below, Places
<1>3. Word16(number) = a + 16 * b + 256 * c + 4096 * d
  BY DEF Word16
<1> HIDE DEF a, b, c, d
<1> DEFINE w == a + 16 * b + 256 * c + 4096 * d
<1>4. w \in Nat /\ w < 65536 /\ (c = 0 /\ d = 0 => w < 256)
  BY <1>1, SmallSum
<1> HIDE DEF w
<1>5. Word16(number) = w
  BY <1>3 DEF w
<1> QED BY <1>2, <1>4, <1>5 DEF Byte

\* A word and its halves.
LEMMA WordHalves ==
  ASSUME NEW w \in Nat, w < 65536
  PROVE  w % 256 \in Byte /\ w \div 256 \in Byte
BY SMT DEF Byte

\* The bytes of a word, low byte first.
LEMMA LittleBytes ==
  ASSUME NEW number \in [Places -> Nibble], NEW width \in {1, 2}, Below(number, 2 * width)
  PROVE  Little(number, width) \in Seq(Byte)
<1>1. Word16(number) \in Nat /\ Word16(number) < 65536
  BY WordOfNibbles
<1>2. CASE width = 1
  <2>1. Word16(number) \in Byte
    BY <1>2, WordOfNibbles DEF Byte
  <2> QED BY <1>2, <2>1 DEF Little
<1>3. CASE width = 2
  <2> DEFINE w == Word16(number)
  <2>1. w % 256 \in Byte /\ w \div 256 \in Byte
    BY <1>1, WordHalves
  <2>2. Little(number, width) = <<w % 256, w \div 256>>
    BY <1>3 DEF Little
  <2> HIDE DEF w
  <2>3. \A x, y \in Byte : <<x, y>> \in Seq(Byte)
    OBVIOUS
  <2> QED BY <2>1, <2>2, <2>3
<1> QED BY <1>2, <1>3

\* A digit is joined from its bits.
LEMMA BitsOfDigit ==
  ASSUME NEW n \in 0 .. 22
  PROVE  LET bit(w) == IF (n \div w) % 2 = 1 THEN w ELSE 0
         IN /\ bit(8) + bit(4) + bit(2) + bit(1) = n % 16
            /\ ((n \div 16) % 2 = 1) <=> n >= 16
            /\ bit(8) = 0 <=> n % 16 < 8
  BY SMT

(***************************************************************************)
(* A number of at most eight digits, which is all that compile_hex has     *)
(* room for, is read as it is written if and only if it has no upper-case  *)
(* letter.                                                                 *)
(***************************************************************************)
THEOREM OnlyLowerCaseIsRead ==
  ASSUME NEW digits \in Seq(Digit), Len(digits) <= 8
  PROVE  CompiledNumber(digits) = Numeral(digits)
           <=> \A i \in DOMAIN digits : digits[i] \notin UpperCase
<1> DEFINE c(p) == DigitAt(digits, p)
           compiled == CompiledNumber(digits)
           numeral == Numeral(digits)
           read(p) == CompiledDigit(c(p))
           one(p, bit) == (read(p) \div bit) % 2 = 1
           part(p, bit) == IF one(p, bit) THEN bit ELSE 0
           low(p) == IF one(p, 1) \/ (p > 0 /\ one(p - 1, 16)) THEN 1 ELSE 0
<1>1. \A p \in Places : /\ DigitValue(c(p)) \in 0 .. 15
                        /\ read(p) = IF c(p) \in UpperCase THEN DigitValue(c(p)) + 7
                                                           ELSE DigitValue(c(p))
  BY DigitAtIs, DigitNibble DEF Nibble
<1>2. \A p \in Places : c(p) \in UpperCase => DigitValue(c(p)) >= 10
  <2> HIDE DEF Ordered
  <2> SUFFICES ASSUME NEW p \in Places, c(p) \in UpperCase PROVE DigitValue(c(p)) >= 10
    OBVIOUS
  <2>1. PICK i \in 11 .. 36 : c(p) = Ordered[i]
    BY DEF UpperCase, CharAt
  <2>2. DigitValue(Ordered[i]) = i - 1
    BY DigitValues
  <2> HIDE DEF c
  <2> QED BY <2>1, <2>2
<1>3. \A p \in Places : p >= Len(digits) => read(p) = 0
  <2>1. "0" \notin UpperCase /\ DigitValue("0") = 0
    BY ZeroIsLow
  <2>2. \A p \in Places : p >= Len(digits) => c(p) = "0"
    BY DEF DigitAt, Places
  <2> HIDE DEF c
  <2> QED BY <1>1, <2>1, <2>2
<1>4. \A p \in Places :
        /\ numeral[p] = DigitValue(c(p))
        /\ compiled[p] = part(p, 8) + part(p, 4) + part(p, 2) + low(p)
  <2> DEFINE falls(p) ==
               {q \in 0 .. Len(digits) - 1 : q = p \/ (ShiftWraps /\ q % 8 = p)}
             has(p, bit) == \E q \in falls(p) : one(q, bit)
  <2>1. \A q \in 0 .. 7 : q % 8 = q
    OBVIOUS
  <2>2. /\ \A p \in Places : falls(p) = {p} \cap (0 .. Len(digits) - 1)
        /\ falls(0 - 1) = {}
    BY <2>1 DEF Places
  <2>3. ASSUME NEW p \in Places, NEW bit \in {1, 2, 4, 8, 16}
        PROVE  has(p, bit) <=> one(p, bit)
    <3>1. CASE p < Len(digits)
      <4>1. falls(p) = {p}
        BY <2>2, <3>1 DEF Places
      <4> HIDE DEF falls, one
      <4> QED BY <4>1
    <3>2. CASE p >= Len(digits)
      <4>1. falls(p) = {}
        BY <2>2, <3>2 DEF Places
      <4>2. read(p) = 0
        BY <1>3, <3>2
      <4>3. ~one(p, bit)
        <5> HIDE DEF read
        <5> QED BY <4>2
      <4> HIDE DEF falls, one
      <4> QED BY <4>1, <4>3
    <3> QED BY <3>1, <3>2 DEF Places
  <2>4. ASSUME NEW p \in Places
        PROVE  has(p - 1, 16) <=> p > 0 /\ one(p - 1, 16)
    <3>1. CASE p = 0
      <4> HIDE DEF one
      <4> QED BY <2>2, <3>1
    <3>2. CASE p > 0
      <4>1. p - 1 \in Places
        BY <3>2 DEF Places
      <4> HIDE DEF has, one
      <4> QED BY <2>3, <3>2, <4>1
    <3> QED BY <3>1, <3>2 DEF Places
  <2>5. ASSUME NEW p \in Places
        PROVE  compiled[p] =
                 LET sum(bit) == IF has(p, bit) \/ (bit = 1 /\ has(p - 1, 16)) THEN bit ELSE 0
                 IN sum(8) + sum(4) + sum(2) + sum(1)
    BY DEF CompiledNumber
  <2> HIDE DEF has, one, compiled
  <2>6. \A p \in Places : compiled[p] = part(p, 8) + part(p, 4) + part(p, 2) + low(p)
    BY <2>3, <2>4, <2>5
  <2> QED BY <2>6 DEF Numeral
<1>5. /\ compiled = [p \in Places |-> compiled[p]]
      /\ numeral = [p \in Places |-> numeral[p]]
  BY DEF Numeral, CompiledNumber
<1>6. \A p \in Places : read(p) \in 0 .. 22
  <2> HIDE DEF read, c
  <2> QED BY <1>1
<1>7. \A p \in Places :
        /\ part(p, 8) + part(p, 4) + part(p, 2) + part(p, 1) = read(p) % 16
        /\ one(p, 16) <=> read(p) >= 16
        /\ part(p, 8) = 0 <=> read(p) % 16 < 8
  <2> HIDE DEF read
  <2> QED BY <1>6, BitsOfDigit
<1> HIDE DEF compiled, numeral, c, read
<1>8. ASSUME \A p \in Places : c(p) \notin UpperCase PROVE compiled = numeral
  <2>1. ASSUME NEW p \in Places PROVE compiled[p] = numeral[p]
    <3>1. p > 0 => p - 1 \in Places
      BY DEF Places
    <3>2. p > 0 => ~one(p - 1, 16)
      BY <1>1, <1>7, <1>8, <3>1
    <3>3. \A n \in 0 .. 15 : n % 16 = n
      OBVIOUS
    <3>4. low(p) = part(p, 1)
      BY <3>2
    <3>5. read(p) % 16 = numeral[p]
      BY <1>1, <1>4, <1>8, <3>3
    <3> HIDE DEF part, low, one
    <3> QED BY <1>4, <1>7, <3>4, <3>5
  <2> QED BY <1>5, <2>1
<1>9. ASSUME NEW p \in Places, c(p) \in UpperCase PROVE compiled # numeral
  <2>1. read(p) \in 17 .. 22 /\ numeral[p] \in 10 .. 15
    BY <1>1, <1>2, <1>4, <1>9
  <2>2. \A n \in 17 .. 22 : n % 16 < 8
    OBVIOUS
  <2>3. part(p, 8) = 0
    BY <1>7, <2>1, <2>2
  <2>4. part(p, 4) \in 0 .. 4 /\ part(p, 2) \in 0 .. 2 /\ low(p) \in 0 .. 1
    OBVIOUS
  <2> HIDE DEF part, low
  <2>5. compiled[p] < 8
    BY <1>4, <2>3, <2>4
  <2> QED BY <2>1, <2>5
<1>10. (\A p \in Places : c(p) \notin UpperCase)
         <=> \A i \in DOMAIN digits : digits[i] \notin UpperCase
  <2>1. ASSUME NEW p \in Places, c(p) \in UpperCase
        PROVE  \E i \in DOMAIN digits : digits[i] \in UpperCase
    <3>1. p < Len(digits)
      <4>1. "0" \notin UpperCase
        BY ZeroIsLow
      <4> QED BY <2>1, <4>1 DEF c, DigitAt
    <3>2. digits[Len(digits) - p] \in UpperCase /\ Len(digits) - p \in 1 .. Len(digits)
      BY <2>1, <3>1 DEF c, DigitAt, Places
    <3> QED BY <3>2
  <2>2. ASSUME NEW i \in DOMAIN digits, digits[i] \in UpperCase
        PROVE  \E p \in Places : c(p) \in UpperCase
    <3> DEFINE p == Len(digits) - i
    <3>1. p \in Places /\ p < Len(digits) /\ Len(digits) - p = i
      BY DEF Places
    <3> QED BY <2>2, <3>1 DEF c, DigitAt
  <2> QED BY <2>1, <2>2
<1> QED BY <1>8, <1>9, <1>10 DEF compiled, numeral

-----------------------------------------------------------------------------
(* The effect of a statement.                                               *)

\* The token behind a token.
LEMMA FollowingIs ==
  ASSUME NEW text \in Seq(AnyCharacter), NEW t, TokenIn(text, t), NEW u,
         u = scanToken(text, Stop(t), t.line)
  PROVE  TokenIn(text, u) /\ Stop(t) <= Stop(u)
<1>1. Stop(t) \in 1 .. Len(text) + 1 /\ t.line = 1 + LinesBefore(text, Stop(t))
  BY DEF TokenIn
<1> QED BY <1>1, ScanIs

\* What a statement does, and where it ends.
EffectOn(text, from, s) ==
  /\ s.current \in from .. Len(text) + 1
  /\ s.line = 1 + LinesBefore(text, s.current)
  /\ s.kind = "stores" => s.bytes \in Seq(Byte) \ {<<>>}
  /\ s.kind = "fails" => s.bytes \in Seq(Byte)
  /\ s.kind = "uses" => s.bytes[1] \in Byte /\ s.label \in Seq(Character)
  /\ s.kind = "declares" => s.label \in Seq(Character)

\* A token at or behind a place.
Behind(text, from, t) == TokenIn(text, t) /\ from <= Stop(t)

\* The kinds of effects a statement can have.
LEMMA EffectIs ==
  ASSUME NEW text \in Seq(AnyCharacter), NEW from \in 1 .. Len(text) + 1,
         NEW last, Behind(text, from, last)
  PROVE  /\ \A bytes \in Seq(Byte) : EffectOn(text, from, Fails(bytes, last))
         /\ \A bytes \in Seq(Byte) \ {<<>>} : EffectOn(text, from, Stores(bytes, last))
         /\ \A label : EffectOn(text, from, Effect("ends", <<>>, label, last))
         /\ \A label \in Seq(Character) :
              EffectOn(text, from, Effect("declares", <<>>, label, last))
         /\ \A code \in Byte, label \in Seq(Character) :
              EffectOn(text, from, Effect("uses", <<code>>, label, last))
<1>1. Stop(last) \in from .. Len(text) + 1 /\ last.line = 1 + LinesBefore(text, Stop(last))
  BY DEF Behind, TokenIn
<1> DEFINE at == Stop(last)
           l == last.line
<1>2. \A kind, bytes, label :
        Effect(kind, bytes, label, last)
          = [kind |-> kind, bytes |-> bytes, label |-> label, current |-> at, line |-> l]
  BY DEF Effect
<1>3. ASSUME NEW kind, NEW bytes, NEW label,
             kind = "stores" => bytes \in Seq(Byte) \ {<<>>},
             kind = "fails" => bytes \in Seq(Byte),
             kind = "uses" => bytes[1] \in Byte /\ label \in Seq(Character),
             kind = "declares" => label \in Seq(Character)
      PROVE  EffectOn(text, from, Effect(kind, bytes, label, last))
  <2> DEFINE s == Effect(kind, bytes, label, last)
  <2>1. s.current = at /\ s.line = l /\ s.kind = kind /\ s.bytes = bytes /\ s.label = label
    BY <1>2
  <2> HIDE DEF s
  <2> QED BY <1>1, <1>3, <2>1 DEF EffectOn, s
<1> HIDE DEF at, l
<1>4. \A bytes \in Seq(Byte) : EffectOn(text, from, Fails(bytes, last))
  BY <1>3 DEF Fails
<1>5. \A bytes \in Seq(Byte) \ {<<>>} : EffectOn(text, from, Stores(bytes, last))
  BY <1>3 DEF Stores
<1>6. /\ \A label : EffectOn(text, from, Effect("ends", <<>>, label, last))
      /\ \A label \in Seq(Character) :
              EffectOn(text, from, Effect("declares", <<>>, label, last))
  BY <1>3
<1>7. \A code \in Byte, label \in Seq(Character) :
              EffectOn(text, from, Effect("uses", <<code>>, label, last))
  <2>1. \A code \in Byte : <<code>>[1] \in Byte
    OBVIOUS
  <2> QED BY <1>3, <2>1
<1> QED BY <1>4, <1>5, <1>6, <1>7

\* An operand that is a number.
LEMMA HexEffect ==
  ASSUME NEW text \in Seq(AnyCharacter), NEW from \in 1 .. Len(text) + 1,
         NEW x, Behind(text, from, x), NEW y, Behind(text, from, y),
         NEW code \in Byte, NEW width \in {1, 2}, NEW s, s = compile_hex(code, x, y, width)
  PROVE  EffectOn(text, from, s)
<1>1. CASE x.type = "TOKEN_IDENTIFIER" /\ width = 2
  <2>1. x.text \in Seq(Character)
    BY <1>1 DEF Behind, TokenIn
  <2>2. s = Effect("uses", <<code>>, x.text, x)
    BY <1>1 DEF compile_hex
  <2> QED BY <2>1, <2>2, EffectIs
<1> DEFINE read == /\ x.type = "TOKEN_NUMBER"
                   /\ y.type = "TOKEN_IDENTIFIER" /\ y.text = <<"h">>
                   /\ Below(CompiledNumber(x.text), 2 * width)
           little == Little(CompiledNumber(x.text), width)
<1>2. CASE read
  <2>1. x.text \in Seq(Digit)
    BY <1>2 DEF Behind, TokenIn
  <2>2. little \in Seq(Byte)
    BY <1>2, <2>1, CompiledNibbles, LittleBytes
  <2>3. s = Stores(<<code>> \o little, y)
    BY <1>2 DEF compile_hex
  <2> HIDE DEF little
  <2>4. <<code>> \o little \in Seq(Byte) \ {<<>>}
    BY <2>2
  <2> QED BY <2>3, <2>4, EffectIs
<1>3. CASE ~(x.type = "TOKEN_IDENTIFIER" /\ width = 2) /\ ~read
  <2>1. s = Fails(<<code>>, x)
    BY <1>3 DEF compile_hex
  <2>2. <<code>> \in Seq(Byte)
    OBVIOUS
  <2> QED BY <2>1, <2>2, EffectIs
<1> QED BY <1>1, <1>2, <1>3

\* An operand that is a name.
LEMMA SpelledIs ==
  ASSUME NEW t, NEW names, Spells(t, names)
  PROVE  Spelled(t, names) \in names
  BY DEF Spells, Spelled

\* A statement with an operand.
LEMMA OperandEffect ==
  ASSUME NEW text \in Seq(AnyCharacter), NEW from \in 1 .. Len(text) + 1,
         NEW a, Behind(text, from, a), NEW op, NEW names, NEW s, s = compile_operand(op, a, names),
         \/ op \in RegOrMem \cup {"mvi"} /\ names = Registers \cup {"m"}
         \/ op \in OfPairs /\ names \subseteq Pairs \cup {"sp", "psw"}
  PROVE  EffectOn(text, from, s) /\ s.kind \in {"stores", "fails"}
<1>1. CASE Spells(a, names)
  <2>1. Spelled(a, names) \in names
    BY <1>1, SpelledIs
  <2>2. Encoded(op, Spelled(a, names)) \in Byte
    BY <2>1, EncodedByte
  <2>3. s = Stores(<<Encoded(op, Spelled(a, names))>>, a)
    BY <1>1 DEF compile_operand
  <2> DEFINE e == Encoded(op, Spelled(a, names))
  <2> HIDE DEF e
  <2>4. <<e>> \in Seq(Byte) \ {<<>>}
    BY <2>2 DEF e
  <2>5. s.kind = "stores"
    BY <2>3 DEF Stores, Effect
  <2> QED BY <2>3, <2>4, <2>5, EffectIs DEF e
<1>2. CASE ~Spells(a, names)
  <2>1. s = Fails(<<>>, a)
    BY <1>2 DEF compile_operand
  <2>2. s.kind = "fails"
    BY <2>1 DEF Fails, Effect
  <2>3. <<>> \in Seq(Byte)
    OBVIOUS
  <2> QED BY <2>1, <2>2, <2>3, EffectIs
<1> QED BY <1>1, <1>2

\* A statement of mov.
LEMMA MovEffect ==
  ASSUME NEW text \in Seq(AnyCharacter), NEW from \in 1 .. Len(text) + 1,
         NEW a, Behind(text, from, a), NEW b, NEW c, Behind(text, from, c),
         NEW s, s = compile_mov(a, b, c)
  PROVE  EffectOn(text, from, s)
<1> DEFINE sources == IF Spells(a, {"m"}) THEN Registers ELSE Registers \cup {"m"}
           names == Registers \cup {"m"}
           spelled == Spells(a, names) /\ b.type = "TOKEN_COMMA" /\ Spells(c, sources)
           byte == codegen_mov(Spelled(a, names), Spelled(c, sources))
<1>1. s = IF spelled THEN Stores(<<byte>>, c) ELSE Fails(<<>>, a)
  BY DEF compile_mov
<1>2. spelled => byte \in Byte
  <2>1. sources \subseteq names
    OBVIOUS
  <2> HIDE DEF sources, names
  <2>2. spelled => Spelled(a, names) \in names /\ Spelled(c, sources) \in names
    BY <2>1, SpelledIs
  <2> QED BY <2>2, MovByte DEF names
<1> HIDE DEF spelled, byte
<1>3. spelled => <<byte>> \in Seq(Byte) \ {<<>>}
  BY <1>2
<1>4. <<>> \in Seq(Byte)
  OBVIOUS
<1> QED BY <1>1, <1>3, <1>4, EffectIs

\* A statement with a second operand.
LEMMA SecondEffect ==
  ASSUME NEW text \in Seq(AnyCharacter), NEW from \in 1 .. Len(text) + 1,
         NEW first, EffectOn(text, from, first), first.kind \in {"stores", "fails"},
         NEW b, Behind(text, from, b), NEW c, Behind(text, from, c), NEW d, Behind(text, from, d),
         NEW width \in {1, 2}, NEW s, s = compile_second(first, b, c, d, width)
  PROVE  EffectOn(text, from, s)
<1>1. CASE first.kind = "fails"
  BY <1>1 DEF compile_second
<1>2. CASE first.kind = "stores"
  <2>1. first.bytes \in Seq(Byte) \ {<<>>} /\ first.bytes[1] \in Byte
    BY <1>2 DEF EffectOn
  <2>2. s = IF b.type # "TOKEN_COMMA" THEN Fails(first.bytes, b)
                                      ELSE compile_hex(first.bytes[1], c, d, width)
    BY <1>2 DEF compile_second
  <2>3. EffectOn(text, from, Fails(first.bytes, b))
    BY <2>1, EffectIs
  <2>4. EffectOn(text, from, compile_hex(first.bytes[1], c, d, width))
    BY <2>1, HexEffect
  <2> QED BY <2>2, <2>3, <2>4
<1> QED BY <1>1, <1>2

\* Whatever the first tokens are, the statement has one of the effects.
LEMMA CompiledEffect ==
  ASSUME NEW text \in Seq(AnyCharacter), NEW from \in 1 .. Len(text) + 1,
         NEW t, Behind(text, from, t), NEW a, Behind(text, from, a), NEW b, Behind(text, from, b),
         NEW c, Behind(text, from, c), NEW d, Behind(text, from, d),
         NEW s, s = Compiled(t, a, b, c, d)
  PROVE  EffectOn(text, from, s)
<1> DEFINE op == t.type
           names == Registers \cup {"m"}
           pairs == Pairs \cup {"sp"}
           Holds(e) == EffectOn(text, from, e)
<1>1. op \in NoOperand => Holds(Stores(<<codegen_get_opcode[op]>>, t))
  <2>1. op \in NoOperand => codegen_get_opcode[op] \in Byte
    BY OpcodeBytes
  <2> DEFINE byte == codegen_get_opcode[op]
  <2> HIDE DEF byte
  <2>2. op \in NoOperand => <<byte>> \in Seq(Byte) \ {<<>>}
    BY <2>1 DEF byte
  <2> QED BY <2>2, EffectIs DEF byte
<1>2. /\ op \in Hex8 => Holds(compile_hex(codegen_get_opcode[op], a, b, 1))
      /\ op \in Hex16 => Holds(compile_hex(codegen_get_opcode[op], a, b, 2))
  <2>1. op \in Hex8 \cup Hex16 => codegen_get_opcode[op] \in Byte
    BY OpcodeBytes
  <2> QED BY <2>1, HexEffect
<1>3. op \in RegOrMem \cup {"mvi"} =>
        /\ Holds(compile_operand(op, a, names))
        /\ compile_operand(op, a, names).kind \in {"stores", "fails"}
  BY OperandEffect
<1>4. /\ op \in PairOrSp \cup {"lxi"} =>
           /\ Holds(compile_operand(op, a, pairs))
           /\ compile_operand(op, a, pairs).kind \in {"stores", "fails"}
      /\ op \in PairOrPsw => Holds(compile_operand(op, a, Pairs \cup {"psw"}))
      /\ op \in PairBOrD => Holds(compile_operand(op, a, {"b", "d"}))
  <2>1. {"b", "d"} \subseteq Pairs
    BY DEF Pairs
  <2>2. op \in PairOrSp \cup {"lxi"} =>
           /\ Holds(compile_operand(op, a, pairs))
           /\ compile_operand(op, a, pairs).kind \in {"stores", "fails"}
    BY OperandEffect DEF OfPairs
  <2>3. op \in PairOrPsw => Holds(compile_operand(op, a, Pairs \cup {"psw"}))
    BY OperandEffect DEF OfPairs
  <2>4. op \in PairBOrD => Holds(compile_operand(op, a, {"b", "d"}))
    BY <2>1, OperandEffect DEF OfPairs
  <2> QED BY <2>2, <2>3, <2>4
<1>5. Holds(compile_mov(a, b, c))
  BY MovEffect
<1>6. op = "mvi" => Holds(compile_second(compile_operand(op, a, names), b, c, d, 1))
  BY <1>3, SecondEffect
<1>7. op = "lxi" => Holds(compile_second(compile_operand(op, a, pairs), b, c, d, 2))
  BY <1>4, SecondEffect
<1>8. /\ Holds(Effect("ends", <<>>, <<>>, t))
      /\ Holds(Fails(<<>>, a)) /\ Holds(Fails(<<>>, t))
  <2>1. <<>> \in Seq(Byte)
    OBVIOUS
  <2> QED BY <2>1, EffectIs
<1>9. op = "TOKEN_IDENTIFIER" => Holds(Effect("declares", <<>>, t.text, a))
  <2>1. op = "TOKEN_IDENTIFIER" => t.text \in Seq(Character)
    BY DEF Behind, TokenIn
  <2> QED BY <2>1, EffectIs
<1>10. \/ op = "TOKEN_EOF" /\ s = Effect("ends", <<>>, <<>>, t)
       \/ op = "TOKEN_IDENTIFIER" /\ s = Effect("declares", <<>>, t.text, a)
       \/ s = Fails(<<>>, a)
       \/ op \in NoOperand /\ s = Stores(<<codegen_get_opcode[op]>>, t)
       \/ op \in Hex8 /\ s = compile_hex(codegen_get_opcode[op], a, b, 1)
       \/ op \in Hex16 /\ s = compile_hex(codegen_get_opcode[op], a, b, 2)
       \/ op \in RegOrMem /\ s = compile_operand(op, a, names)
       \/ op \in PairOrSp /\ s = compile_operand(op, a, pairs)
       \/ op \in PairOrPsw /\ s = compile_operand(op, a, Pairs \cup {"psw"})
       \/ op \in PairBOrD /\ s = compile_operand(op, a, {"b", "d"})
       \/ s = compile_mov(a, b, c)
       \/ op = "mvi" /\ s = compile_second(compile_operand(op, a, names), b, c, d, 1)
       \/ op = "lxi" /\ s = compile_second(compile_operand(op, a, pairs), b, c, d, 2)
       \/ s = Fails(<<>>, t)
  <2>1. s = CASE op = "TOKEN_EOF" -> Effect("ends", <<>>, <<>>, t)
              [] op = "TOKEN_IDENTIFIER" ->
                   IF a.type = "TOKEN_COLON" THEN Effect("declares", <<>>, t.text, a)
                                             ELSE Fails(<<>>, a)
              [] op \in NoOperand -> Stores(<<codegen_get_opcode[op]>>, t)
              [] op \in Hex8 -> compile_hex(codegen_get_opcode[op], a, b, 1)
              [] op \in Hex16 -> compile_hex(codegen_get_opcode[op], a, b, 2)
              [] op \in RegOrMem -> compile_operand(op, a, names)
              [] op \in PairOrSp -> compile_operand(op, a, pairs)
              [] op \in PairOrPsw -> compile_operand(op, a, Pairs \cup {"psw"})
              [] op \in PairBOrD -> compile_operand(op, a, {"b", "d"})
              [] op = "mov" -> compile_mov(a, b, c)
              [] op = "mvi" -> compile_second(compile_operand(op, a, names), b, c, d, 1)
              [] op = "lxi" -> compile_second(compile_operand(op, a, pairs), b, c, d, 2)
              [] OTHER -> Fails(<<>>, t)
    BY Zenon DEF Compiled
  <2> HIDE DEF op, names, pairs
  <2> QED BY <2>1
<1> HIDE DEF Holds, op, names, pairs
<1>11. Holds(s)
  BY <1>1, <1>2, <1>3, <1>4, <1>5, <1>6, <1>7, <1>8, <1>9, <1>10, Zenon
<1> QED BY <1>11 DEF Holds

\* The statement from a place in its line on.
LEMMA StatementEffect ==
  ASSUME NEW text \in Seq(AnyCharacter), NEW from \in 1 .. Len(text) + 1,
         NEW s, s = Statement(text, from, 1 + LinesBefore(text, from))
  PROVE  EffectOn(text, from, s)
<1> DEFINE following(token) == scanToken(text, Stop(token), token.line)
           t == scanToken(text, from, 1 + LinesBefore(text, from))
           a == following(t)
           b == following(a)
           c == following(b)
           d == following(c)
<1>1. s = Compiled(t, a, b, c, d)
  BY Zenon DEF Statement
<1>2. Behind(text, from, t)
  BY ScanIs DEF Behind
<1>3. ASSUME NEW u, Behind(text, from, u)
      PROVE  Behind(text, from, following(u))
  <2>1. TokenIn(text, following(u)) /\ Stop(u) <= Stop(following(u))
    BY <1>3, FollowingIs DEF Behind
  <2>2. Stop(u) \in Int /\ Stop(following(u)) \in Int /\ from <= Stop(u)
    BY <1>3, <2>1 DEF Behind, TokenIn
  <2> QED BY <2>1, <2>2 DEF Behind
<1> HIDE DEF following, t
<1>4. Behind(text, from, a)
  BY <1>2, <1>3
<1> HIDE DEF a
<1>5. Behind(text, from, b)
  BY <1>3, <1>4
<1> HIDE DEF b
<1>6. Behind(text, from, c)
  BY <1>3, <1>5
<1> HIDE DEF c
<1>7. Behind(text, from, d)
  BY <1>3, <1>6
<1> HIDE DEF d
<1> QED BY <1>1, <1>2, <1>4, <1>5, <1>6, <1>7, CompiledEffect

-----------------------------------------------------------------------------
(* The scanner.                                                             *)

\* The place of the scanner, and the line it is in.
ScannerInv ==
  /\ source \in Seq(AnyCharacter)
  /\ current \in 1 .. Len(source) + 1
  /\ line = 1 + LinesBefore(source, current)

\* What load and the inline shell give to the scanner.
ScannerStarts ==
  \E text \in Texts : initScanner(text) \/ initScanner(Append(text, Space))

\* Sources and lines consist of characters.
LEMMA TextsTyped ==
  \A text \in Texts : text \in Seq(AnyCharacter) /\ Append(text, Space) \in Seq(AnyCharacter)
<1>1. \A text \in Texts : text \in Seq(STRING)
  BY TextsAssumption
<1>2. \A text \in Texts : text \in Seq(AnyCharacter)
  BY <1>1 DEF AnyCharacter
<1>3. Space \in AnyCharacter
  BY DEF AnyCharacter
<1> QED BY <1>2, <1>3

\* A source begins on its first line.
LEMMA NoLineBefore == \A text : LinesBefore(text, 1) = 0
<1> SUFFICES ASSUME NEW text PROVE LinesBefore(text, 1) = 0
  OBVIOUS
<1>1. LinesBefore(text, 1) \in 0 .. 1 - 1
  BY LinesFinite
<1> QED BY <1>1

\* A statement leaves the scanner behind its last token.
LEMMA ScannerStep ==
  ASSUME ScannerInv, ScannerStarts \/ CompileNext \/ UNCHANGED scannerVars
  PROVE  ScannerInv'
<1>1. CASE ScannerStarts
  <2>1. PICK text \in Seq(AnyCharacter) : initScanner(text)
    BY <1>1, TextsTyped DEF ScannerStarts
  <2>2. source' = text /\ current' = 1 /\ line' = 1
    BY <2>1 DEF initScanner
  <2>3. LinesBefore(source', 1) = 0
    BY NoLineBefore
  <2>4. 1 \in 1 .. Len(text) + 1
    OBVIOUS
  <2>5. line' = 1 + LinesBefore(source', current')
    BY <2>2, <2>3
  <2> QED BY <2>2, <2>4, <2>5 DEF ScannerInv
<1>2. CASE CompileNext
  <2> DEFINE s == NextStatement
  <2>1. current' = s.current /\ line' = s.line /\ source' = source
    BY <1>2 DEF CompileNext, CompileTaken
  <2>2. s = Statement(source, current, 1 + LinesBefore(source, current))
    BY DEF NextStatement, ScannerInv
  <2> HIDE DEF s
  <2>3. source \in Seq(AnyCharacter) /\ current \in 1 .. Len(source) + 1
    BY DEF ScannerInv
  <2>4. EffectOn(source, current, s)
    BY <2>2, <2>3, StatementEffect
  <2>5. s.current \in 1 .. Len(source) + 1 /\ s.line = 1 + LinesBefore(source, s.current)
    BY <2>3, <2>4 DEF EffectOn
  <2> QED BY <2>1, <2>3, <2>5 DEF ScannerInv
<1>3. CASE UNCHANGED scannerVars
  BY <1>3 DEF scannerVars, ScannerInv
<1> QED BY <1>1, <1>2, <1>3

\* At the start there is no source.
LEMMA ScannerInitInv == ASSUME ScannerInit PROVE ScannerInv
<1>1. source = <<>> /\ current = 1 /\ line = 1
  BY DEF ScannerInit
<1>2. LinesBefore(source, 1) = 0
  BY NoLineBefore
<1> QED BY <1>1, <1>2 DEF ScannerInv

\* Each step of the console starts a source, takes a statement of it, or leaves
\* it.
LEMMA ConsoleScans ==
  ASSUME [ConsoleNext]_consoleVars
  PROVE  ScannerStarts \/ CompileNext \/ UNCHANGED scannerVars
<1>1. ASSUME NEW text \in Texts, AsmLine(text) PROVE ScannerStarts
  BY <1>1 DEF AsmLine, CompileLine, ScannerStarts
<1>2. ASSUME NEW text \in Texts, NEW word \in Arguments, LoadCommand(text, word)
      PROVE ScannerStarts
  BY <1>2 DEF LoadCommand, LoadSource, ScannerStarts
<1>3. CASE Turns
  BY <1>3 DEF Turns, CompileTurn, EndOfSource, Patching
<1>4. CASE \/ \E word \in Arguments : AsmCommand(word) \/ AsmSet(word)
           \/ AsmExit
           \/ \E word, last \in Arguments : ShowCommand(word, last) \/ DisCommand(word, last)
           \/ \E word \in Arguments, words \in ByteLists : SetCommand(word, words)
  BY <1>4 DEF AsmCommand, AsmSet, AsmExit, ShowCommand, DisCommand, SetCommand
<1>5. CASE UNCHANGED consoleVars
  BY <1>5 DEF consoleVars
<1> QED BY <1>1, <1>2, <1>3, <1>4, <1>5 DEF ConsoleNext

\* The scanner keeps this in every session.
LEMMA ScannerInvHolds == ConsoleSpec => []ScannerInv
<1>1. ConsoleInit => ScannerInv
  BY ScannerInitInv DEF ConsoleInit
<1>2. ScannerInv /\ [ConsoleNext]_consoleVars => ScannerInv'
  BY ConsoleScans, ScannerStep
<1> QED BY <1>1, <1>2, PTL DEF ConsoleSpec

(***************************************************************************)
(* Whatever sources and lines are typed, each word the scanner makes a     *)
(* token of is found if it is a keyword, and resembles the keyword it is   *)
(* taken for.                                                              *)
(***************************************************************************)
THEOREM ConsoleFindsWords == ConsoleSpec => []WordsAreFound
<1>1. ScannerInv => WordsAreFound
  <2> SUFFICES ASSUME ScannerInv, NEW place \in DOMAIN source,
                      TokenAt(source, place, line).type \in {"TOKEN_IDENTIFIER"} \cup MnemonicSet
               PROVE  LET t == TokenAt(source, place, line)
                      IN FindsKeyword(t.text) /\ ResemblesFound(t.text)
    BY DEF WordsAreFound
  <2>1. place \in 1 .. Len(source)
    BY DEF ScannerInv
  <2> QED BY <2>1, WordsFoundIn DEF ScannerInv
<1> QED BY <1>1, ScannerInvHolds, PTL

(***************************************************************************)
(* For every source, the line of the scanner is one more than the line     *)
(* ends before it, through blanks, comments and statements: an error is    *)
(* reported at the line the statement ends in.                             *)
(***************************************************************************)
THEOREM ConsoleCountsLines == ConsoleSpec => []LinesAreCounted
<1>1. ScannerInv => LinesAreCounted
  BY Zenon DEF ScannerInv, LinesAreCounted, LinesBefore, Ends
<1> QED BY <1>1, ScannerInvHolds, PTL

\* There are no more lines than characters.
LEMMA LineInRange ==
  ASSUME ScannerInv PROVE line \in 1 .. Len(source) + 1
<1>1. LinesBefore(source, current) \in 0 .. current - 1 /\ Len(source) \in Nat
  BY LinesFinite DEF ScannerInv
<1> QED BY <1>1 DEF ScannerInv

-----------------------------------------------------------------------------
(* The assembler of statements.                                             *)

\* The assembler of statements: its labels are words, its statements bytes.
Assembly == INSTANCE AssemblerProofs
              WITH Labels <- Seq(Character), Statements <- Seq(Byte) \ {<<>>},
                   UsingCodes <- Byte, Misspelled <- Seq(Byte), Origins <- Word

\* What it assumes of its constants.
LEMMA AssemblyAssumptions == Assembly!AssemblerAssumption /\ Assembly!AddrModAssumption
BY AssemblerAssumption, AddrModAssumption
   DEF Assembly!AssemblerAssumption, Assembly!AddrModAssumption, Assembly!Byte,
       Assembly!Word, Byte, Word

\* What the two modules define alike: the writing of bytes,
LEMMA SameWriting ==
  /\ \A bytes : Write(bytes) <=> Assembly!Write(bytes)
  /\ Scanning <=> Assembly!Scanning
  /\ tables = Assembly!tables
  /\ UNCHANGED tables <=> UNCHANGED Assembly!tables
BY Zenon DEF Write, Assembly!Write, Scanning, Assembly!Scanning, MemSize, Assembly!MemSize,
             Cells, Assembly!Cells, tables, Assembly!tables

\* the commands that start and end a compilation,
LEMMA SameCallers ==
  /\ \A addr : Load(addr) <=> Assembly!Load(addr)
  /\ \A addr : Asm(addr) <=> Assembly!Asm(addr)
  /\ \A addr : SetPointer(addr) <=> Assembly!SetPointer(addr)
  /\ Line <=> Assembly!Line
  /\ ExitAsm <=> Assembly!ExitAsm
<1>1. \A addr : Load(addr) <=> Assembly!Load(addr)
  BY SameWriting, Zenon DEF Load, Assembly!Load, Reset, Assembly!Reset, Enter, Assembly!Enter
<1>2. \A addr : Asm(addr) <=> Assembly!Asm(addr)
  BY SameWriting, Zenon DEF Asm, Assembly!Asm, Reset, Assembly!Reset
<1>3. \A addr : SetPointer(addr) <=> Assembly!SetPointer(addr)
  BY Zenon DEF SetPointer, Assembly!SetPointer, tables, Assembly!tables
<1>4. Line <=> Assembly!Line
  BY Zenon DEF Line, Assembly!Line, Enter, Assembly!Enter, tables, Assembly!tables
<1>5. ExitAsm <=> Assembly!ExitAsm
  BY Zenon DEF ExitAsm, Assembly!ExitAsm, tables, Assembly!tables
<1> QED BY <1>1, <1>2, <1>3, <1>4, <1>5

\* the effects of statements,
LEMMA SameStatements ==
  /\ \A bytes : CompileStatement(bytes) <=> Assembly!CompileStatement(bytes)
  /\ \A bytes : CompileMisspelled(bytes) <=> Assembly!CompileMisspelled(bytes)
  /\ RefuseLabel <=> Assembly!RefuseLabel
  /\ \A name : DeclareLabel(name) <=> Assembly!DeclareLabel(name)
  /\ \A code, name : UseDeclared(code, name) <=> Assembly!UseDeclared(code, name)
  /\ \A code, name : UseForward(code, name) <=> Assembly!UseForward(code, name)
  /\ \A name : UseOverrun(name) <=> Assembly!UseOverrun(name)
<1> USE DEF Scanning, Assembly!Scanning, Write, Assembly!Write, MemSize, Assembly!MemSize,
            Cells, Assembly!Cells, tables, Assembly!tables
<1>1. \A bytes : CompileStatement(bytes) <=> Assembly!CompileStatement(bytes)
  BY Zenon DEF CompileStatement, Assembly!CompileStatement, HltCode, Assembly!HltCode
<1>2. \A bytes : CompileMisspelled(bytes) <=> Assembly!CompileMisspelled(bytes)
  BY Zenon DEF CompileMisspelled, Assembly!CompileMisspelled
<1>3. RefuseLabel <=> Assembly!RefuseLabel
  BY Zenon DEF RefuseLabel, Assembly!RefuseLabel
<1> USE DEF Entries, Assembly!Entries, IsFirst, Assembly!IsFirst, Entry, Assembly!Entry,
            Pending, Assembly!Pending, OperandOffset, Assembly!OperandOffset,
            Undeclared, Assembly!Undeclared, Overruns, Assembly!Overruns,
            Low, Assembly!Low, High, Assembly!High
<1>4. \A name : DeclareLabel(name) <=> Assembly!DeclareLabel(name)
  BY Zenon DEF DeclareLabel, Assembly!DeclareLabel
<1>5. \A code, name : UseDeclared(code, name) <=> Assembly!UseDeclared(code, name)
  BY Zenon DEF UseDeclared, Assembly!UseDeclared
<1>6. \A code, name : UseForward(code, name) <=> Assembly!UseForward(code, name)
  BY Zenon DEF UseForward, Assembly!UseForward
<1>7. \A name : UseOverrun(name) <=> Assembly!UseOverrun(name)
  BY Zenon DEF UseOverrun, Assembly!UseOverrun
<1> QED BY <1>1, <1>2, <1>3, <1>4, <1>5, <1>6, <1>7

\* and the end of a source.
LEMMA SameEnds ==
  /\ Finish <=> Assembly!Finish
  /\ BeginPatching <=> Assembly!BeginPatching
  /\ PatchNext <=> Assembly!PatchNext
  /\ FinishPatching <=> Assembly!FinishPatching
<1> USE DEF Scanning, Assembly!Scanning, tables, Assembly!tables, Outcome, Assembly!Outcome,
            Return, Assembly!Return, Aborting, Assembly!Aborting
<1>1. Finish <=> Assembly!Finish
  BY Zenon DEF Finish, Assembly!Finish
<1>2. BeginPatching <=> Assembly!BeginPatching
  BY Zenon DEF BeginPatching, Assembly!BeginPatching
<1>3. PatchNext <=> Assembly!PatchNext
  BY Zenon DEF PatchNext, Assembly!PatchNext, Low, Assembly!Low, High, Assembly!High
<1>4. FinishPatching <=> Assembly!FinishPatching
  BY Zenon DEF FinishPatching, Assembly!FinishPatching
<1> QED BY <1>1, <1>2, <1>3, <1>4

\* They begin alike.
LEMMA SameInit == Init <=> Assembly!Init
BY Zenon DEF Init, Assembly!Init, Cells, Assembly!Cells, MemSize, Assembly!MemSize

\* A step of the assembler.
AssemblyStep == [Assembly!Next]_Assembly!compilerVars

\* The commands are its commands.
LEMMA CallerAssembles ==
  /\ \A addr \in Word : Load(addr) \/ Asm(addr) \/ SetPointer(addr) => Assembly!Next
  /\ Line \/ ExitAsm => Assembly!Next
<1>1. Assembly!Word = Word
  BY DEF Assembly!Word, Word
<1> QED BY <1>1, SameCallers, Zenon DEF Assembly!Next

\* What a statement of the source does is what a statement of the assembler
\* does.
LEMMA StatementAssembles ==
  ASSUME ScannerInv, CompileNext
  PROVE  Assembly!Next
<1> DEFINE s == NextStatement
<1>1. EffectOn(source, current, s)
  <2>1. s = Statement(source, current, 1 + LinesBefore(source, current))
    BY DEF NextStatement, ScannerInv
  <2> QED BY <2>1, StatementEffect DEF ScannerInv
<1>2. \/ s.kind = "stores" /\ CompileStatement(s.bytes)
      \/ s.kind = "fails" /\ CompileMisspelled(s.bytes)
      \/ s.kind = "declares" /\ (DeclareLabel(s.label) \/ RefuseLabel)
      \/ s.kind = "uses" /\ \/ UseDeclared(s.bytes[1], s.label)
                            \/ UseForward(s.bytes[1], s.label)
                            \/ UseOverrun(s.label)
  BY DEF CompileNext, CompileTaken
<1> HIDE DEF s
<1>3. Assembly!Byte = Byte
  BY DEF Assembly!Byte, Byte
<1>4. Assembly!Compile => Assembly!Next
  BY DEF Assembly!Next
<1>5. CASE s.kind = "stores" /\ CompileStatement(s.bytes)
  <2>1. s.bytes \in Seq(Byte) \ {<<>>} /\ Assembly!CompileStatement(s.bytes)
    BY <1>1, <1>5, SameStatements DEF EffectOn
  <2> QED BY <1>3, <1>4, <2>1, Zenon DEF Assembly!Compile
<1>6. CASE s.kind = "fails" /\ CompileMisspelled(s.bytes)
  <2>1. s.bytes \in Seq(Byte) /\ Assembly!CompileMisspelled(s.bytes)
    BY <1>1, <1>6, SameStatements DEF EffectOn
  <2> QED BY <1>3, <1>4, <2>1, Zenon DEF Assembly!Compile
<1>7. CASE s.kind = "declares" /\ (DeclareLabel(s.label) \/ RefuseLabel)
  <2>1. s.label \in Seq(Character)
    BY <1>1, <1>7 DEF EffectOn
  <2>2. Assembly!DeclareLabel(s.label) \/ Assembly!RefuseLabel
    BY <1>7, SameStatements
  <2> QED BY <1>4, <2>1, <2>2, Zenon DEF Assembly!Compile
<1>8. CASE s.kind = "uses" /\ \/ UseDeclared(s.bytes[1], s.label)
                              \/ UseForward(s.bytes[1], s.label)
                              \/ UseOverrun(s.label)
  <2>1. s.bytes[1] \in Byte /\ s.label \in Seq(Character)
    BY <1>1, <1>8 DEF EffectOn
  <2>2. \/ Assembly!UseDeclared(s.bytes[1], s.label)
        \/ Assembly!UseForward(s.bytes[1], s.label)
        \/ Assembly!UseOverrun(s.label)
    BY <1>8, SameStatements
  <2> QED BY <1>3, <1>4, <2>1, <2>2, Zenon DEF Assembly!Compile
<1> QED BY <1>2, <1>5, <1>6, <1>7, <1>8

\* So each turn of compile() is a turn of it.
LEMMA TurnAssembles ==
  ASSUME ScannerInv, CompileTurn
  PROVE  Assembly!Next
<1>1. CASE CompileNext
  BY <1>1, StatementAssembles
<1>2. CASE EndOfSource \/ Patching
  <2>1. Finish \/ BeginPatching \/ PatchNext \/ FinishPatching
    BY <1>2 DEF EndOfSource, Patching
  <2> QED BY <2>1, SameEnds, Zenon DEF Assembly!Next
<1> QED BY <1>1, <1>2 DEF CompileTurn

\* And each step of the compiler a step of it.
LEMMA SourceStepAssembles ==
  ASSUME ScannerInv, [SourceNext]_<<compilerVars, scannerVars>>
  PROVE  AssemblyStep /\ ScannerInv'
<1>1. Origins \subseteq Word
  BY AssemblerAssumption
<1>2. ASSUME NEW text \in Texts, CompileLine(text)
      PROVE  Assembly!Next /\ ScannerStarts
  BY <1>2, CallerAssembles DEF CompileLine, ScannerStarts
<1>3. ASSUME NEW text \in Texts, NEW addr \in Origins, LoadSource(text, addr)
      PROVE  Assembly!Next /\ ScannerStarts
  BY <1>1, <1>3, CallerAssembles DEF LoadSource, ScannerStarts
<1>4. CASE /\ ExitAsm \/ \E addr \in Origins : Asm(addr) \/ SetPointer(addr)
           /\ UNCHANGED scannerVars
  BY <1>1, <1>4, CallerAssembles, ScannerStep DEF AssemblyStep
<1>5. CASE CompileTurn
  <2>1. CompileNext \/ UNCHANGED scannerVars
    BY <1>5 DEF CompileTurn, EndOfSource, Patching
  <2> QED BY <1>5, <2>1, TurnAssembles, ScannerStep DEF AssemblyStep
<1>6. CASE UNCHANGED <<compilerVars, scannerVars>>
  <2>1. UNCHANGED Assembly!compilerVars /\ UNCHANGED scannerVars
    BY <1>6 DEF compilerVars, Assembly!compilerVars, tables, Assembly!tables
  <2> QED BY <2>1, ScannerStep DEF AssemblyStep
<1>7. CASE Assembly!Next /\ (ScannerStarts \/ UNCHANGED scannerVars)
  BY <1>7, ScannerStep DEF AssemblyStep
<1> QED BY <1>2, <1>3, <1>4, <1>5, <1>6, <1>7 DEF SourceNext

(***************************************************************************)
(* The compiler with its scanner, over the characters of any sources and   *)
(* any lines of the inline shell, is the assembler of the statements: each *)
(* turn of compile() does what one statement, of bytes that are bytes and  *)
(* with a label that is a word, makes the assembler do.                    *)
(***************************************************************************)
THEOREM SourceAssembles == SourceSpec => Assembly!Spec
<1>1. Init /\ ScannerInit => Assembly!Init /\ ScannerInv
  BY SameInit, ScannerInitInv
<1>2. ScannerInv /\ [SourceNext]_<<compilerVars, scannerVars>>
        => ScannerInv' /\ [Assembly!Next]_Assembly!compilerVars
  BY SourceStepAssembles DEF AssemblyStep
<1> QED BY <1>1, <1>2, PTL DEF SourceSpec, Assembly!Spec

-----------------------------------------------------------------------------
(* The session.                                                             *)

\* The session is one command at a time: nothing is compiled while a listing runs.
OneCommand == listing # "none" => phase = "prompt" /\ caller = "none"

\* What every session keeps.
ConsoleInv == ScannerInv /\ Assembly!AssemblerInv /\ ListingInv /\ OneCommand

\* What is left of a long are eight nibbles.
LEMMA StrtolNibbles ==
  ASSUME NEW w \in Seq(STRING), Reads(w)
  PROVE  strtol(w) \in [Places -> Nibble]
<1> DEFINE u == Unsigned(w)
           digits == Significant(w)
<1>1. u \in Seq(STRING)
  <2>1. CASE Signed(w)
    BY <2>1 DEF Signed, Unsigned
  <2>2. CASE ~Signed(w)
    BY <2>2 DEF Unsigned
  <2> QED BY <2>1, <2>2
<1>2. digits = Unprefixed(u)
  BY DEF Significant
<1> HIDE DEF u
<1>3. Unprefixed(u) \in Seq(STRING)
  <2>1. CASE Prefixed(u)
    <3>1. Len(u) > 2
      BY <2>1 DEF Prefixed
    <3>2. SubSeq(u, 3, Len(u)) \in Seq(STRING)
      BY <1>1, <3>1
    <3> QED BY <2>1, <3>2 DEF Unprefixed
  <2>2. CASE ~Prefixed(u)
    BY <1>1, <2>2 DEF Unprefixed
  <2> QED BY <2>1, <2>2
<1>4. DigitsOnly(digits)
  BY DEF Reads
<1>5. strtol(w) \in {[p \in Places |-> 0], [p \in Places |-> 15],
                     Numeral(digits), Negated(Numeral(digits))}
  BY DEF strtol
<1> HIDE DEF digits
<1>6. digits \in Seq(Digit)
  <2>1. digits \in Seq(STRING) /\ \A i \in 1 .. Len(digits) : digits[i] \in Digit
    BY <1>2, <1>3, <1>4 DEF DigitsOnly
  <2> HIDE DEF Digit
  <2> QED BY <2>1
<1>7. Numeral(digits) \in [Places -> Nibble]
  <2>1. \A p \in Places : DigitValue(DigitAt(digits, p)) \in Nibble
    BY <1>6, DigitAtIs, DigitNibble
  <2> QED BY <2>1 DEF Numeral
<1>8. \A number \in [Places -> Nibble] : Negated(number) \in [Places -> Nibble]
  <2>1. \A n \in Nibble : (16 - n) % 16 \in Nibble /\ 15 - n \in Nibble
    BY DEF Nibble
  <2> QED BY <2>1 DEF Negated
<1>9. [p \in Places |-> 0] \in [Places -> Nibble] /\ [p \in Places |-> 15] \in [Places -> Nibble]
  BY DEF Nibble
<1> QED BY <1>5, <1>7, <1>8, <1>9

\* A word that 'set' takes for a byte is one.
LEMMA ParsedByte ==
  ASSUME NEW w \in Seq(STRING), Parses(w, 2)
  PROVE  parse_hex_16(w) \in Byte
  BY StrtolNibbles, WordOfNibbles DEF Parses, parse_hex_16

\* The words that 'set' stores are bytes, and come before the first that is
\* none.
LEMMA AcceptedWords ==
  ASSUME NEW words \in Seq(Seq(STRING))
  PROVE  /\ Accepted(words) \in 0 .. Len(words)
         /\ \A i \in 1 .. Accepted(words) : Parses(words[i], 2)
<1> DEFINE bad == {i \in DOMAIN words : ~Parses(words[i], 2)}
           n == Accepted(words)
<1>1. DOMAIN words = 1 .. Len(words) /\ Len(words) \in Nat
  OBVIOUS
<1>2. CASE bad = {}
  <2>1. n = Len(words)
    BY <1>2 DEF Accepted
  <2>2. \A i \in 1 .. Len(words) : Parses(words[i], 2)
    <3>1. \A i \in DOMAIN words : i \notin bad
      BY <1>2
    <3> QED BY <1>1, <3>1
  <2> HIDE DEF n
  <2> QED BY <1>1, <2>1, <2>2 DEF n
<1>3. CASE bad # {}
  <2> DEFINE first == CHOOSE i \in bad : \A j \in bad : i <= j
  <2>1. n = first - 1
    BY <1>3 DEF Accepted
  <2>2. bad \subseteq Nat
    BY <1>1
  <2> HIDE DEF n
  <2>3. first \in bad /\ \A j \in bad : first <= j
    <3> HIDE DEF bad
    <3>1. \E m \in bad : \A k \in bad : m <= k
      BY <1>3, <2>2, LeastOf
    <3> QED BY <3>1
  <2>4. first \in 1 .. Len(words)
    BY <1>1, <2>3
  <2> HIDE DEF first
  <2>5. ASSUME NEW i \in 1 .. n PROVE Parses(words[i], 2)
    <3>1. i \in 1 .. Len(words) /\ ~(first <= i)
      BY <1>1, <2>1, <2>4
    <3>2. i \notin bad
      BY <2>3, <3>1
    <3> QED BY <1>1, <3>1, <3>2
  <2>6. n \in 0 .. Len(words)
    BY <1>1, <2>1, <2>4
  <2> HIDE DEF bad
  <2> QED BY <2>5, <2>6 DEF n
<1> QED BY <1>2, <1>3

\* 'set' leaves bytes in the memory,
LEMMA SetStores ==
  ASSUME memory \in [Cells -> Byte], NEW word \in Arguments, NEW words \in ByteLists,
         SetCommand(word, words)
  PROVE  memory' \in [Cells -> Byte]
<1> DEFINE at == parse_hex_16(word)
           n == Accepted(words)
           bytes == [i \in DOMAIN words |-> parse_hex_16(words[i])]
<1>1. at \in Word /\ words \in Seq(Seq(STRING))
  BY ConsoleAssumption DEF SetCommand
<1>2. n \in 0 .. Len(words) /\ \A i \in 1 .. n : Parses(words[i], 2)
  BY <1>1, AcceptedWords
<1>3. ASSUME NEW i \in 1 .. n PROVE bytes[i] \in Byte
  <2>1. i \in DOMAIN words /\ words[i] \in Seq(STRING)
    BY <1>1, <1>2
  <2>2. parse_hex_16(words[i]) \in Byte
    BY <1>2, <2>1, ParsedByte
  <2> QED BY <2>1, <2>2
<1>4. memory' = Stored(at, bytes, n) \/ UNCHANGED memory
  BY Zenon DEF SetCommand
<1> HIDE DEF at, n, bytes
<1>5. ASSUME NEW c \in Cells
      PROVE  (IF c \in at .. at + n - 1 THEN bytes[c - at + 1] ELSE memory[c]) \in Byte
  <2>1. c \in at .. at + n - 1 => c - at + 1 \in 1 .. n
    BY <1>1, <1>2 DEF Word
  <2> QED BY <1>3, <2>1
<1>6. Stored(at, bytes, n) \in [Cells -> Byte]
  BY <1>5 DEF Stored
<1> QED BY <1>4, <1>6

\* and the tables of the assembler as they were.
LEMMA SetKeeps ==
  ASSUME Assembly!AssemblerInv, NEW word \in Arguments, NEW words \in ByteLists,
         SetCommand(word, words)
  PROVE  Assembly!AssemblerInv'
<1>1. Assembly!Cells = Cells /\ Assembly!Byte = Byte
  BY DEF Assembly!Cells, Assembly!MemSize, Cells, MemSize, Assembly!Byte, Byte
<1>2. memory' \in [Cells -> Byte]
  BY <1>1, SetStores DEF Assembly!AssemblerInv, Assembly!TypeOK, Assembly!CodeTypeOK
<1>3. /\ UNCHANGED <<tables, offset, memory_full, has_halt, offbak, lastStatus, patched, caller>>
      /\ phase' \in {phase, "undefined"}
  BY DEF SetCommand
<1>4. Assembly!CodeTypeOK'
  BY <1>1, <1>2, <1>3
     DEF Assembly!AssemblerInv, Assembly!TypeOK, Assembly!CodeTypeOK, Assembly!Word
<1>5. Assembly!ControlTypeOK'
  BY <1>3, SMT DEF Assembly!AssemblerInv, Assembly!TypeOK, Assembly!ControlTypeOK, tables
<1>6. Assembly!TablesTypeOK' /\ Assembly!TablesAgree'
  BY <1>3, Assembly!TablesUnchanged, AssemblyAssumptions
     DEF Assembly!AssemblerInv, Assembly!TypeOK, tables, Assembly!tables
<1> QED BY <1>4, <1>5, <1>6 DEF Assembly!AssemblerInv, Assembly!TypeOK

\* What a step of the console is: of the assembler, of a listing, or 'set'.
Assembles == AssemblyStep /\ UNCHANGED listingVars /\ listing = "none"
Lists == [ListingNext /\ UNCHANGED memory]_<<listingVars, memory>> /\ UNCHANGED compilerVars
Sets == \E word \in Arguments, words \in ByteLists : SetCommand(word, words)

\* At a prompt nothing is compiled.
LEMMA CompileTurnRuns == ASSUME CompileTurn PROVE phase # "prompt"
<1>1. CASE CompileNext
  BY <1>1 DEF CompileNext, CompileTaken, CompileStatement, CompileMisspelled, DeclareLabel,
              RefuseLabel, UseDeclared, UseForward, UseOverrun, Scanning
<1>2. CASE EndOfSource \/ Patching
  BY <1>2 DEF EndOfSource, Patching, Finish, BeginPatching, PatchNext, FinishPatching
<1> QED BY <1>1, <1>2 DEF CompileTurn

\* These are all its steps.
LEMMA ConsoleSteps ==
  ASSUME ScannerInv, OneCommand, [ConsoleNext]_consoleVars
  PROVE  Assembles \/ Lists \/ Sets
<1>1. ASSUME NEW text \in Texts, AsmLine(text) PROVE Assembles
  <2>1. Line /\ UNCHANGED listingVars
    BY <1>1 DEF AsmLine, CompileLine
  <2>2. listing = "none"
    BY <2>1 DEF OneCommand, Line
  <2> QED BY <2>1, <2>2, CallerAssembles DEF Assembles, AssemblyStep
<1>2. ASSUME NEW text \in Texts, NEW word \in Arguments, LoadCommand(text, word)
      PROVE  Assembles
  <2>1. parse_hex_16(word) \in Word
    BY <1>2, ConsoleAssumption DEF LoadCommand
  <2>2. Load(parse_hex_16(word)) /\ UNCHANGED listingVars /\ listing = "none"
    BY <1>2 DEF LoadCommand, LoadSource, AtRepl
  <2> QED BY <2>1, <2>2, CallerAssembles DEF Assembles, AssemblyStep
<1>3. ASSUME NEW word \in Arguments, AsmCommand(word) \/ AsmSet(word)
      PROVE  Assembles
  <2>1. parse_hex_16(word) \in Word
    BY <1>3, ConsoleAssumption DEF AsmCommand, AsmSet
  <2>2. /\ Asm(parse_hex_16(word)) \/ SetPointer(parse_hex_16(word))
        /\ UNCHANGED listingVars
    BY <1>3 DEF AsmCommand, AsmSet
  <2>3. listing = "none"
    BY <1>3 DEF AsmCommand, AsmSet, AtRepl, SetPointer, OneCommand
  <2> QED BY <2>1, <2>2, <2>3, CallerAssembles DEF Assembles, AssemblyStep
<1>4. CASE AsmExit
  <2>1. ExitAsm /\ UNCHANGED listingVars /\ listing = "none"
    BY <1>4 DEF AsmExit, ExitAsm, OneCommand
  <2> QED BY <2>1, CallerAssembles DEF Assembles, AssemblyStep
<1>5. ASSUME NEW word \in Arguments, NEW last \in Arguments,
             ShowCommand(word, last) \/ DisCommand(word, last)
      PROVE  Lists
  <2>1. parse_hex_16(word) \in Word /\ parse_hex_16(last) \in Word
    BY <1>5, ConsoleAssumption DEF ShowCommand, DisCommand
  <2>2. /\ \/ Show(parse_hex_16(word), parse_hex_16(last))
           \/ Dis(parse_hex_16(word), parse_hex_16(last))
        /\ UNCHANGED compilerVars
    BY <1>5 DEF ShowCommand, DisCommand
  <2> QED BY <2>1, <2>2 DEF Lists, ListingNext, compilerVars
<1>6. CASE Turns
  <2>1. CASE CompileTurn /\ UNCHANGED listingVars
    <3>1. listing = "none"
      BY <2>1, CompileTurnRuns DEF OneCommand
    <3> QED BY <2>1, <3>1, TurnAssembles DEF Assembles, AssemblyStep
  <2>2. CASE ListingTurn /\ UNCHANGED <<compilerVars, scannerVars>>
    BY <2>2 DEF Lists, ListingNext, compilerVars
  <2> QED BY <1>6, <2>1, <2>2 DEF Turns
<1>7. CASE UNCHANGED consoleVars
  BY <1>7 DEF consoleVars, Lists, compilerVars
<1> QED BY <1>1, <1>2, <1>3, <1>4, <1>5, <1>6, <1>7 DEF ConsoleNext, Sets

\* No step starts a second command.
LEMMA OneCommandStep ==
  ASSUME OneCommand, [ConsoleNext]_consoleVars
  PROVE  OneCommand'
<1>1. CASE /\ UNCHANGED listingVars /\ listing = "none"
  BY <1>1 DEF OneCommand, listingVars
<1>2. CASE /\ UNCHANGED compilerVars
           /\ phase = "prompt" /\ caller = "none"
  BY <1>2 DEF OneCommand, compilerVars
<1>3. CASE ListingTurn /\ UNCHANGED compilerVars
  BY <1>3 DEF OneCommand, compilerVars, ListingTurn, ShowLine, DisLine, EndListing
<1>4. CASE UNCHANGED <<listingVars, compilerVars>>
  BY <1>4 DEF OneCommand, compilerVars, listingVars
<1>5. ASSUME NEW word \in Arguments, NEW last \in Arguments,
             ShowCommand(word, last) \/ DisCommand(word, last)
      PROVE  UNCHANGED compilerVars /\ phase = "prompt" /\ caller = "none"
  BY <1>5 DEF ShowCommand, DisCommand, AtRepl
<1>6. ASSUME NEW text \in Texts, AsmLine(text) \/ \E word \in Arguments : LoadCommand(text, word)
      PROVE  UNCHANGED listingVars /\ listing = "none"
  BY <1>6 DEF AsmLine, CompileLine, Line, LoadCommand, AtRepl, OneCommand
<1>7. ASSUME \/ \E word \in Arguments : AsmCommand(word) \/ AsmSet(word)
             \/ AsmExit
             \/ \E word \in Arguments, words \in ByteLists : SetCommand(word, words)
      PROVE  UNCHANGED listingVars /\ listing = "none"
  BY <1>7 DEF AsmCommand, AsmSet, SetPointer, AsmExit, ExitAsm, SetCommand, AtRepl, OneCommand
<1>8. CASE CompileTurn /\ UNCHANGED listingVars
  BY <1>1, <1>8, CompileTurnRuns DEF OneCommand
<1> QED BY <1>1, <1>2, <1>3, <1>4, <1>5, <1>6, <1>7, <1>8 DEF ConsoleNext, Turns, consoleVars

\* The memory of the assembler is the memory of the machine.
LEMMA AssemblyTypes ==
  /\ Assembly!AssemblerInv => memory \in [Cells -> Byte] /\ offset \in Word
  /\ Assembly!AssemblerInv' => memory' \in [Cells -> Byte]
BY DEF Assembly!AssemblerInv, Assembly!TypeOK, Assembly!CodeTypeOK, Assembly!Cells,
       Assembly!MemSize, Assembly!Byte, Assembly!Word, Cells, MemSize, Byte, Word

\* It holds at the start,
LEMMA ConsoleInitInv == ASSUME ConsoleInit PROVE ConsoleInv
<1>1. ScannerInv
  BY ScannerInitInv DEF ConsoleInit
<1>2. Assembly!AssemblerInv
  BY SameInit, AssemblyAssumptions, Assembly!InitInv DEF ConsoleInit
<1>3. ListingInv
  BY <1>2, AssemblyTypes, AddrModAssumption
     DEF ConsoleInit, ListingInit, ListingInv, ListingTypeOK, Word
<1>4. OneCommand
  BY DEF ConsoleInit, ListingInit, OneCommand
<1> QED BY <1>1, <1>2, <1>3, <1>4 DEF ConsoleInv

\* and each step keeps it,
LEMMA ConsoleInvInductive ==
  ASSUME ConsoleInv, [ConsoleNext]_consoleVars
  PROVE  ConsoleInv'
<1>1. ScannerInv' /\ OneCommand'
  BY ConsoleScans, ScannerStep, OneCommandStep DEF ConsoleInv
<1>2. Assembles \/ Lists \/ Sets
  BY ConsoleSteps DEF ConsoleInv
<1>3. CASE Assembles
  <2>1. Assembly!AssemblerInv'
    BY <1>3, AssemblyAssumptions, Assembly!AssemblerInvInductive
       DEF Assembles, AssemblyStep, ConsoleInv
  <2>2. memory' \in [Cells -> Byte]
    BY <2>1, AssemblyTypes
  <2>3. ListingTypeOK'
    BY <1>3 DEF Assembles, listingVars, ConsoleInv, ListingInv, ListingTypeOK, Word
  <2>4. ListingInv'
    BY <2>2, <2>3 DEF ListingInv
  <2> QED BY <1>1, <2>1, <2>4 DEF ConsoleInv
<1>4. CASE Lists
  <2>1. ListingInv'
    BY <1>4, ListingInvInductive DEF Lists, ConsoleInv
  <2>2. UNCHANGED Assembly!compilerVars
    BY <1>4 DEF Lists, compilerVars, tables, Assembly!compilerVars, Assembly!tables
  <2>3. Assembly!AssemblerInv'
    BY <2>2, AssemblyAssumptions, Assembly!AssemblerInvInductive DEF ConsoleInv
  <2> QED BY <1>1, <2>1, <2>3 DEF ConsoleInv
<1>5. CASE Sets
  <2>1. PICK word \in Arguments, words \in ByteLists : SetCommand(word, words)
    BY <1>5 DEF Sets
  <2>2. Assembly!AssemblerInv'
    BY <2>1, SetKeeps DEF ConsoleInv
  <2>3. memory' \in [Cells -> Byte]
    BY <2>2, AssemblyTypes
  <2>4. ListingTypeOK'
    BY <2>1 DEF SetCommand, listingVars, ConsoleInv, ListingInv, ListingTypeOK
  <2>5. ListingInv'
    BY <2>3, <2>4 DEF ListingInv
  <2> QED BY <1>1, <2>2, <2>5 DEF ConsoleInv
<1> QED BY <1>2, <1>3, <1>4, <1>5

\* so it holds in every session.
LEMMA ConsoleInvHolds == ConsoleSpec => []ConsoleInv
BY ConsoleInitInv, ConsoleInvInductive, PTL DEF ConsoleSpec

(***************************************************************************)
(* The types of the whole console: whatever is typed, memory holds bytes,  *)
(* and the addresses of the assembler and of the listings stay u16.        *)
(***************************************************************************)
THEOREM ConsoleTypeCorrect == ConsoleSpec => []ConsoleTypeOK
<1>1. ConsoleInv => ConsoleTypeOK
  BY AssemblyTypes, LineInRange DEF ConsoleInv, ListingInv, ScannerInv, ConsoleTypeOK
<1> QED BY <1>1, ConsoleInvHolds, PTL

(***************************************************************************)
(* The tables of the assembler agree for sources of characters as they do  *)
(* for statements: no label is declared twice, and what waits for one      *)
(* refers to an entry there is.                                            *)
(***************************************************************************)
THEOREM ConsoleTablesAgree == ConsoleSpec => []TablesAgree
<1>1. ConsoleInv => TablesAgree
  BY Zenon DEF ConsoleInv, Assembly!AssemblerInv, Assembly!TablesAgree,
     Assembly!LabelsUnique, Assembly!UsesRefer, TablesAgree, LabelsUnique, UsesRefer
<1> QED BY <1>1, ConsoleInvHolds, PTL

(***************************************************************************)
(* Nor can any text or command, 'set' of the console included, bring       *)
(* patch_labels to write past the end of the memory: what is pending and   *)
(* memory_full are only touched by the steps of the assembler.             *)
(***************************************************************************)
THEOREM ConsolePatchesFit == ConsoleSpec => []PatchesFit
<1>1. ConsoleInit => Assembly!FitInv
  BY SameInit, AssemblyAssumptions, Assembly!FitInvInit DEF ConsoleInit
<1>2. ASSUME ConsoleInv, [ConsoleNext]_consoleVars
      PROVE  \/ AssemblyStep
             \/ UNCHANGED <<pending_labels, memory_full>> /\ phase' \in {phase, "undefined"}
  <2>1. CASE Assembles
    BY <2>1 DEF Assembles
  <2>2. CASE Lists
    BY <2>2 DEF Lists, compilerVars, tables
  <2>3. CASE Sets
    BY <2>3 DEF Sets, SetCommand, AtRepl, tables
  <2> QED BY <1>2, <2>1, <2>2, <2>3, ConsoleSteps DEF ConsoleInv
<1>3. ASSUME ConsoleInv, Assembly!FitInv, [ConsoleNext]_consoleVars
      PROVE  Assembly!FitInv'
  <2>1. CASE AssemblyStep
    BY <1>3, <2>1, Assembly!FitInvInductive, AssemblyAssumptions
       DEF AssemblyStep, ConsoleInv
  <2>2. CASE UNCHANGED <<pending_labels, memory_full>> /\ phase' \in {phase, "undefined"}
    BY <1>3, <2>2, Assembly!UsesFitKept, AssemblyAssumptions
       DEF Assembly!FitInv, Assembly!PatchesOnlyWhatFitted
  <2> QED BY <1>2, <1>3, <2>1, <2>2
<1>4. ConsoleSpec => []Assembly!FitInv
  BY <1>1, <1>3, ConsoleInvHolds, PTL DEF ConsoleSpec
<1>5. Assembly!FitInv => PatchesFit
  <2>1. Assembly!Cells = Cells
    BY DEF Assembly!Cells, Assembly!MemSize, Cells, MemSize
  <2> QED BY <2>1, Assembly!FitInvImplies, AssemblyAssumptions
          DEF Assembly!PatchesFit, PatchesFit
<1> QED BY <1>4, <1>5, PTL

\* A step that a listing sees is a step of it, over a memory that stays.
LEMMA ListingAlone ==
  ASSUME ConsoleInv, [ConsoleNext]_consoleVars
  PROVE  \/ [ListingNext /\ UNCHANGED memory]_<<listingVars, memory>>
         \/ UNCHANGED listingVars /\ listing = "none"
<1>1. Assembles \/ Lists \/ Sets
  BY ConsoleSteps DEF ConsoleInv
<1>2. CASE Assembles
  BY <1>2 DEF Assembles
<1>3. CASE Lists
  BY <1>3 DEF Lists
<1>4. CASE Sets
  BY <1>4 DEF Sets, SetCommand, AtRepl
<1> QED BY <1>1, <1>2, <1>3, <1>4

\* Over a memory of bytes a line of a listing is of the length the machine
\* knows.
LEMMA MachineStep ==
  ASSUME ListingInv, StepsLikeMachine,
         [ListingNext /\ UNCHANGED memory]_<<listingVars, memory>>
  PROVE  StepsLikeMachine'
<1>1. CASE \E start, end \in Word : Show(start, end) \/ Dis(start, end)
  BY <1>1 DEF Show, Dis, Begin, StepsLikeMachine
<1>2. CASE ShowLine
  BY <1>2 DEF ShowLine, StepsLikeMachine
<1>3. CASE DisLine /\ UNCHANGED memory
  BY <1>3, DisLineStepsLikeMachine
<1>4. CASE EndListing
  BY <1>4 DEF EndListing, StepsLikeMachine
<1>5. CASE UNCHANGED <<listingVars, memory>>
  BY <1>5 DEF listingVars, StepsLikeMachine
<1> QED BY <1>1, <1>2, <1>3, <1>4, <1>5 DEF ListingNext, ListingTurn

(***************************************************************************)
(* In a session where the assembler and 'set' write what is listed, 'dis'  *)
(* still goes from one instruction to the next as the machine does.        *)
(***************************************************************************)
THEOREM ConsoleStepsLikeMachine == ConsoleSpec => []StepsLikeMachine
<1>1. ConsoleInit => StepsLikeMachine
  BY DEF ConsoleInit, ListingInit, StepsLikeMachine
<1>2. ASSUME ConsoleInv, StepsLikeMachine, [ConsoleNext]_consoleVars
      PROVE  StepsLikeMachine'
  <2>1. CASE UNCHANGED listingVars /\ listing = "none"
    BY <2>1 DEF listingVars, StepsLikeMachine
  <2>2. CASE [ListingNext /\ UNCHANGED memory]_<<listingVars, memory>>
    BY <1>2, <2>2, MachineStep DEF ConsoleInv
  <2> QED BY <1>2, <2>1, <2>2, ListingAlone
<1> QED BY <1>1, <1>2, ConsoleInvHolds, PTL DEF ConsoleSpec

(***************************************************************************)
(* The listings of a session approach their end with each line: nothing    *)
(* the other commands do can move it, for the REPL runs one command at a   *)
(* time.                                                                   *)
(***************************************************************************)
THEOREM ConsoleApproaches == ConsoleSpec => Approaches
<1>1. ASSUME ConsoleInv, [ConsoleNext]_consoleVars, listingVars' # listingVars,
             listing # "none", Safe, listing' = listing
      PROVE  /\ Remaining' \in 0 .. Remaining - 1
             /\ Remaining - Remaining' <= 3
             /\ listing = "show" => Remaining - Remaining' = 1
  <2>1. [ListingNext /\ UNCHANGED memory]_<<listingVars, memory>>
    BY <1>1, ListingAlone
  <2>2. ListingInv
    BY <1>1 DEF ConsoleInv
  <2> QED BY <1>1, <2>1, <2>2, StepApproaches
<1>2. ConsoleInv /\ [ConsoleNext]_consoleVars
        => [listing # "none" /\ Safe /\ listing' = listing
              => /\ Remaining' \in 0 .. Remaining - 1
                 /\ Remaining - Remaining' <= 3
                 /\ listing = "show" => Remaining - Remaining' = 1]_listingVars
  BY <1>1
<1> QED BY <1>2, ConsoleInvHolds, PTL DEF ConsoleSpec, Approaches
====================================================================================
