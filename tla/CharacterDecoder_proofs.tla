------------------------ MODULE CharacterDecoder_proofs ------------------------
(***************************************************************************)
(* Proofs about CharacterDecoder: the ranges of its numbers, that strings  *)
(* end at their closing quote, and that they are read back as written, for *)
(* strings of every length over every set of Unicode characters.           *)
(***************************************************************************)
EXTENDS CharacterDecoder, SequenceTheorems, TLAPS

(***************************************************************************)
(* The flags, and the branch that the loop takes in the states that the    *)
(* pieces of a string lead to.                                             *)
(***************************************************************************)
LEMMA FlagValues ==
  /\ FIRST_SOLIDUS = 2 /\ PAGE = 4 /\ ALPHABET = 8 /\ SECOND_SOLIDUS = 16
  /\ ALPHABET_DEFINITION = 32 /\ APOSTROPHE = 64 /\ ARBITRARY = 128
  /\ EXTENDED2 = 256 /\ EXTENDED4 = 512 /\ THIRD_SOLIDUS = 262144
  /\ ENDEXTENDED_X = 524288 /\ ENDEXTENDED_0 = 1048576
  /\ IGNORED_DIRECTIVE = 4194304 /\ ENCOUNTERED_HEX = 8388608
BY DEF FIRST_SOLIDUS, PAGE, ALPHABET, SECOND_SOLIDUS, ALPHABET_DEFINITION, APOSTROPHE,
       ARBITRARY, EXTENDED2, EXTENDED4, THIRD_SOLIDUS, ENDEXTENDED_X, ENDEXTENDED_0,
       IGNORED_DIRECTIVE, ENCOUNTERED_HEX

LEMMA HexFlagValues ==
  /\ HEX(1) = 1024 /\ HEX(2) = 2048 /\ HEX(3) = 4096 /\ HEX(4) = 8192
  /\ HEX(5) = 16384 /\ HEX(6) = 32768 /\ HEX(7) = 65536 /\ HEX(8) = 131072
BY DEF HEX

LEMMA HexReadValues ==
  /\ HexRead(0) = 0 /\ HexRead(1) = 1024 /\ HexRead(2) = 3072 /\ HexRead(3) = 7168
  /\ HexRead(4) = 15360 /\ HexRead(5) = 31744 /\ HexRead(6) = 64512 /\ HexRead(7) = 130048
BY HexFlagValues DEF HexRead

LEMMA ExtendedValues == Extended(2) = 402 /\ Extended(4) = 914
BY FlagValues DEF Extended

USE DEF Apostrophe, Comma, Zero, Two, Four, LetterA, LetterF, LetterI, LetterN, LetterP,
        LetterS, LetterX, LetterT, Solidus

(* Outside a piece: printable characters, the two that are doubled. *)
LEMMA BranchOutside ==
  /\ \A c \in 32..126 \ {Apostrophe, Solidus} : Branch(c, 0) = "plain"
  /\ Branch(Apostrophe, 0) = "apostrophe" /\ Branch(Solidus, 0) = "solidus"
  /\ Branch(Apostrophe, APOSTROPHE) = "plain" /\ Branch(Comma, APOSTROPHE) = "end"
  /\ Branch(Solidus, FIRST_SOLIDUS) = "plain" /\ Branch(LetterT, FIRST_SOLIDUS) = "invalid"
BY FlagValues, HexFlagValues
   DEF Branch, Added, Has, HasOne, EXPECTS_SOLIDUS, EXPECTS_CHARACTER, EXPECTS_N_OR_F,
       EXPECTS_ARBITRARY2, EXPECTS_ALPHABET_DEFINITION, EXPECTS_HEX, IS_HEXADECIMAL

(* Directives. *)
LEMMA BranchPage ==
  /\ Branch(LetterS, FIRST_SOLIDUS) = "flag" /\ Added(LetterS, FIRST_SOLIDUS) = PAGE
  /\ Branch(Solidus, FIRST_SOLIDUS + PAGE) = "next solidus"
  /\ ~Finished(FIRST_SOLIDUS + PAGE) /\ ~Has(FIRST_SOLIDUS + PAGE, ENCOUNTERED_HEX)
  /\ \A c : Branch(c, FIRST_SOLIDUS + PAGE + SECOND_SOLIDUS) = "page character"
BY FlagValues, HexFlagValues
   DEF Branch, Added, Has, HasOne, EXPECTS_SOLIDUS, EXPECTS_CHARACTER, EXPECTS_N_OR_F,
       EXPECTS_ARBITRARY2, EXPECTS_ALPHABET_DEFINITION, EXPECTS_HEX, IS_HEXADECIMAL, Finished

LEMMA BranchDirective ==
  /\ \A c \in {LetterN, LetterF} :
       Branch(c, FIRST_SOLIDUS) = "flag" /\ Added(c, FIRST_SOLIDUS) = IGNORED_DIRECTIVE
  /\ Branch(Solidus, FIRST_SOLIDUS + IGNORED_DIRECTIVE) = "next solidus"
  /\ Finished(FIRST_SOLIDUS + IGNORED_DIRECTIVE)
BY FlagValues, HexFlagValues
   DEF Branch, Added, Has, HasOne, EXPECTS_SOLIDUS, EXPECTS_CHARACTER, EXPECTS_N_OR_F,
       EXPECTS_ARBITRARY2, EXPECTS_ALPHABET_DEFINITION, EXPECTS_HEX, IS_HEXADECIMAL, Finished

LEMMA BranchAlphabet ==
  /\ Branch(LetterP, FIRST_SOLIDUS) = "flag" /\ Added(LetterP, FIRST_SOLIDUS) = ALPHABET
  /\ \A c \in LetterA..LetterI :
       /\ Branch(c, FIRST_SOLIDUS + ALPHABET) = "flag"
       /\ Added(c, FIRST_SOLIDUS + ALPHABET)
            = IF c = LetterF THEN IGNORED_DIRECTIVE ELSE ALPHABET_DEFINITION
BY FlagValues, HexFlagValues
   DEF Branch, Added, Has, HasOne, EXPECTS_SOLIDUS, EXPECTS_CHARACTER, EXPECTS_N_OR_F,
       EXPECTS_ARBITRARY2, EXPECTS_ALPHABET_DEFINITION, EXPECTS_HEX, IS_HEXADECIMAL, Finished

LEMMA BranchAlphabetEnd ==
  \A f \in {ALPHABET_DEFINITION, IGNORED_DIRECTIVE} :
    /\ Branch(Solidus, FIRST_SOLIDUS + ALPHABET + f) = "next solidus"
    /\ Finished(FIRST_SOLIDUS + ALPHABET + f)
BY FlagValues, HexFlagValues
   DEF Branch, Added, Has, HasOne, EXPECTS_SOLIDUS, EXPECTS_CHARACTER, EXPECTS_N_OR_F,
       EXPECTS_ARBITRARY2, EXPECTS_ALPHABET_DEFINITION, EXPECTS_HEX, IS_HEXADECIMAL, Finished

(* The beginning of what is in hexadecimal. *)
LEMMA BranchOpen ==
  /\ Branch(LetterX, FIRST_SOLIDUS) = "flag" /\ Added(LetterX, FIRST_SOLIDUS) = ARBITRARY
  /\ Branch(Solidus, FIRST_SOLIDUS + ARBITRARY) = "next solidus"
  /\ ~Finished(FIRST_SOLIDUS + ARBITRARY) /\ ~Has(FIRST_SOLIDUS + ARBITRARY, ENCOUNTERED_HEX)
BY FlagValues, HexFlagValues, ExtendedValues
   DEF Branch, Added, Has, HasOne, EXPECTS_SOLIDUS, EXPECTS_CHARACTER, EXPECTS_N_OR_F,
       EXPECTS_ARBITRARY2, EXPECTS_ALPHABET_DEFINITION, EXPECTS_HEX, IS_HEXADECIMAL, Finished

LEMMA BranchOpenWith ==
  ASSUME NEW bytes \in {2, 4}
  PROVE /\ Branch(Zero + bytes, FIRST_SOLIDUS + ARBITRARY) = "flag"
        /\ FIRST_SOLIDUS + ARBITRARY + Added(Zero + bytes, FIRST_SOLIDUS + ARBITRARY)
             = Extended(bytes) - SECOND_SOLIDUS
        /\ Branch(Solidus, Extended(bytes) - SECOND_SOLIDUS) = "next solidus"
        /\ ~Finished(Extended(bytes) - SECOND_SOLIDUS)
        /\ ~Has(Extended(bytes) - SECOND_SOLIDUS, ENCOUNTERED_HEX)
BY FlagValues, HexFlagValues, ExtendedValues
   DEF Branch, Added, Has, HasOne, EXPECTS_SOLIDUS, EXPECTS_CHARACTER, EXPECTS_N_OR_F,
       EXPECTS_ARBITRARY2, EXPECTS_ALPHABET_DEFINITION, EXPECTS_HEX, IS_HEXADECIMAL, Finished

LEMMA BranchArbitrary ==
  \A n \in {0, 1} :
    LET s == FIRST_SOLIDUS + ARBITRARY + SECOND_SOLIDUS + HexRead(n)
    IN /\ \A c \in 48..57 \cup 65..70 : Branch(c, s) = "hexadecimal"
       /\ ~Has(s, EXTENDED2)
BY FlagValues, HexFlagValues, HexReadValues
   DEF Branch, Added, Has, HasOne, EXPECTS_SOLIDUS, EXPECTS_CHARACTER, EXPECTS_N_OR_F,
       EXPECTS_ARBITRARY2, EXPECTS_ALPHABET_DEFINITION, EXPECTS_HEX, IS_HEXADECIMAL

(* The digits of a sequence. *)
LEMMA BranchDigits2 ==
  \A n \in 0..3, e \in {0, ENCOUNTERED_HEX} :
    LET s == Extended(2) + e + HexRead(n)
    IN /\ \A c \in 48..57 \cup 65..70 : Branch(c, s) = "hexadecimal"
       /\ Has(s, EXTENDED2) /\ ~Has(s, EXTENDED4)
BY FlagValues, HexFlagValues, HexReadValues, ExtendedValues
   DEF Branch, Added, Has, HasOne, EXPECTS_SOLIDUS, EXPECTS_CHARACTER, EXPECTS_N_OR_F,
       EXPECTS_ARBITRARY2, EXPECTS_ALPHABET_DEFINITION, EXPECTS_HEX, IS_HEXADECIMAL

LEMMA BranchDigits4 ==
  \A n \in 0..7, e \in {0, ENCOUNTERED_HEX} :
    LET s == Extended(4) + e + HexRead(n)
    IN /\ \A c \in 48..57 \cup 65..70 : Branch(c, s) = "hexadecimal"
       /\ Has(s, EXTENDED2) /\ Has(s, EXTENDED4)
BY FlagValues, HexFlagValues, HexReadValues, ExtendedValues
   DEF Branch, Added, Has, HasOne, EXPECTS_SOLIDUS, EXPECTS_CHARACTER, EXPECTS_N_OR_F,
       EXPECTS_ARBITRARY2, EXPECTS_ALPHABET_DEFINITION, EXPECTS_HEX, IS_HEXADECIMAL

(* The end of a sequence. *)
Closes(bytes) ==
  LET s == Extended(bytes) + ENCOUNTERED_HEX
      t == Extended(bytes) + THIRD_SOLIDUS
  IN /\ Branch(Solidus, s) = "next solidus" /\ ~Finished(s) /\ Has(s, ENCOUNTERED_HEX)
     /\ Branch(LetterX, t) = "flag" /\ Added(LetterX, t) = ENDEXTENDED_X
     /\ Branch(Zero, t + ENDEXTENDED_X) = "flag"
     /\ Added(Zero, t + ENDEXTENDED_X) = ENDEXTENDED_0
     /\ Branch(Solidus, t + ENDEXTENDED_X + ENDEXTENDED_0) = "next solidus"
     /\ Finished(t + ENDEXTENDED_X + ENDEXTENDED_0)

LEMMA BranchClose == \A bytes \in {2, 4} : Closes(bytes)
BY FlagValues, HexFlagValues, ExtendedValues
   DEF Closes, Branch, Added, Has, HasOne, EXPECTS_SOLIDUS, EXPECTS_CHARACTER, EXPECTS_N_OR_F,
       EXPECTS_ARBITRARY2, EXPECTS_ALPHABET_DEFINITION, EXPECTS_HEX, IS_HEXADECIMAL, Finished

(* After the last digit of a character only the flag that one was read is left. *)
LEMMA AfterLastDigit ==
  \A bytes \in {2, 4}, e \in {0, ENCOUNTERED_HEX} :
    AfterCharacter(Extended(bytes) + e + HexRead(2 * bytes - 1) + HEX(2 * bytes), 2 * bytes)
      = Extended(bytes) + ENCOUNTERED_HEX
BY FlagValues, HexFlagValues, HexReadValues, ExtendedValues
   DEF AfterCharacter, CLEAR_HEX, Has
------------------------------------------------------------------------------
(***************************************************************************)
(* What is left to read of a text, and of the digits of a character.       *)
(***************************************************************************)
LEMMA Unread1 ==
  ASSUME NEW a \in Nat, NEW z \in Seq(Nat)
  PROVE /\ <<a>> \o z \in Seq(Nat) /\ <<a>> \o z # <<>>
        /\ Head(<<a>> \o z) = a /\ Tail(<<a>> \o z) = z
OBVIOUS

LEMMA Unread2 ==
  ASSUME NEW a \in Nat, NEW b \in Nat, NEW z \in Seq(Nat)
  PROVE /\ <<a, b>> \o z \in Seq(Nat) /\ <<a, b>> \o z # <<>>
        /\ Head(<<a, b>> \o z) = a /\ Tail(<<a, b>> \o z) = <<b>> \o z
OBVIOUS

LEMMA Unread3 ==
  ASSUME NEW a \in Nat, NEW b \in Nat, NEW c \in Nat, NEW z \in Seq(Nat)
  PROVE /\ <<a, b, c>> \o z \in Seq(Nat) /\ <<a, b, c>> \o z # <<>>
        /\ Head(<<a, b, c>> \o z) = a /\ Tail(<<a, b, c>> \o z) = <<b, c>> \o z
OBVIOUS

LEMMA Unread4 ==
  ASSUME NEW a \in Nat, NEW b \in Nat, NEW c \in Nat, NEW d \in Nat, NEW z \in Seq(Nat)
  PROVE /\ <<a, b, c, d>> \o z \in Seq(Nat) /\ <<a, b, c, d>> \o z # <<>>
        /\ Head(<<a, b, c, d>> \o z) = a /\ Tail(<<a, b, c, d>> \o z) = <<b, c, d>> \o z
OBVIOUS

LEMMA Quotient ==
  ASSUME NEW c \in Nat, NEW n \in 0..8
  PROVE c \div (16 ^ n) \in Nat
<1>0. CASE n = 0
  BY <1>0
<1>1. CASE n = 1
  BY <1>1
<1>2. CASE n = 2
  BY <1>2
<1>3. CASE n = 3
  BY <1>3
<1>4. CASE n = 4
  BY <1>4
<1>5. CASE n = 5
  BY <1>5
<1>6. CASE n = 6
  BY <1>6
<1>7. CASE n = 7
  BY <1>7
<1>8. CASE n = 8
  BY <1>8
<1> QED BY <1>0, <1>1, <1>2, <1>3, <1>4, <1>5, <1>6, <1>7, <1>8

LEMMA DigitRange ==
  ASSUME NEW d \in 0..15
  PROVE /\ HexDigit(d) \in 48..57 \cup 65..70
        /\ HexDigit(d) \in Nat
        /\ HEX_TO_INT(HexDigit(d)) = d
BY DEF HexDigit, HEX_TO_INT

LEMMA HexIsText ==
  ASSUME NEW c \in Nat, NEW n \in 0..8
  PROVE Hex(c, n) \in Seq(Nat) /\ Len(Hex(c, n)) = n
<1>1. \A i \in 1..n : HexDigit((c \div (16 ^ (n - i))) % 16) \in Nat
  BY Quotient, DigitRange
<1> QED BY <1>1 DEF Hex

IsTail(t, h) == Len(h) = Len(t) + 1 /\ \A i \in 1..Len(t) : h[i + 1] = t[i]

LEMMA TailOfFirst ==
  ASSUME NEW h \in Seq(Nat), NEW t \in Seq(Nat), NEW z \in Seq(Nat), IsTail(t, h)
  PROVE /\ h \o z \in Seq(Nat) /\ h \o z # <<>>
        /\ Head(h \o z) = h[1]
        /\ Tail(h \o z) = t \o z
<1>0. Len(h) = Len(t) + 1 /\ \A i \in 1..Len(t) : h[i + 1] = t[i]
  BY DEF IsTail
<1>1. /\ h \o z \in Seq(Nat) /\ Len(h \o z) = Len(h) + Len(z)
      /\ \A i \in 1..Len(h) + Len(z) :
           (h \o z)[i] = IF i <= Len(h) THEN h[i] ELSE z[i - Len(h)]
  BY ConcatProperties
<1>2. /\ t \o z \in Seq(Nat) /\ Len(t \o z) = Len(t) + Len(z)
      /\ \A i \in 1..Len(t) + Len(z) :
           (t \o z)[i] = IF i <= Len(t) THEN t[i] ELSE z[i - Len(t)]
  BY ConcatProperties
<1>3. Len(h) \in Nat /\ Len(t) \in Nat /\ Len(z) \in Nat
  OBVIOUS
<1>4. h \o z # <<>>
  BY <1>0, <1>1, <1>3
<1>5. /\ Tail(h \o z) \in Seq(Nat) /\ Len(Tail(h \o z)) = Len(h \o z) - 1
      /\ \A i \in 1..Len(Tail(h \o z)) : Tail(h \o z)[i] = (h \o z)[i + 1]
  BY <1>1, <1>4, HeadTailProperties
<1>6. Len(Tail(h \o z)) = Len(t \o z)
  BY <1>0, <1>1, <1>2, <1>3, <1>5
<1>7. ASSUME NEW i \in 1..Len(t \o z) PROVE Tail(h \o z)[i] = (t \o z)[i]
  <2>1. i \in 1..Len(t) + Len(z) /\ i + 1 \in 1..Len(h) + Len(z) /\ i \in 1..Len(Tail(h \o z))
    BY <1>0, <1>2, <1>3, <1>6
  <2>2. Tail(h \o z)[i] = (h \o z)[i + 1]
    BY <1>5, <2>1
  <2>3. CASE i <= Len(t)
    <3>1. (h \o z)[i + 1] = h[i + 1] /\ (t \o z)[i] = t[i] /\ h[i + 1] = t[i]
      BY <1>0, <1>1, <1>2, <1>3, <2>1, <2>3
    <3> QED BY <2>2, <3>1
  <2>4. CASE i > Len(t)
    <3> DEFINE j == i + 1
    <3>0. ~(i <= Len(t)) /\ ~(j <= Len(h)) /\ j - Len(h) = i - Len(t)
      BY <1>0, <1>3, <2>4
    <3>4. j \in 1..Len(h) + Len(z)
      BY <2>1
    <3> HIDE DEF j
    <3>5. (h \o z)[j] = z[j - Len(h)]
      BY <1>1, <3>0, <3>4, Zenon
    <3>1. (h \o z)[i + 1] = z[j - Len(h)]
      BY <3>5 DEF j
    <3>2. (t \o z)[i] = z[i - Len(t)]
      BY <1>2, <2>1, <3>0
    <3> QED BY <2>2, <3>0, <3>1, <3>2
  <2>5. i <= Len(t) \/ i > Len(t)
    BY <1>3
  <2> QED BY <2>3, <2>4, <2>5
<1>8. Tail(h \o z) = t \o z
  BY <1>2, <1>5, <1>6, <1>7, SeqEqual
<1>9. Head(h \o z) = h[1]
  BY <1>0, <1>1, <1>3, <1>4
<1> QED BY <1>1, <1>4, <1>8, <1>9

LEMMA NextDigit ==
  ASSUME NEW c \in Nat, NEW n \in 1..8, NEW z \in Seq(Nat)
  PROVE /\ Hex(c, n) \o z \in Seq(Nat) /\ Hex(c, n) \o z # <<>>
        /\ Head(Hex(c, n) \o z) = HexDigit((c \div (16 ^ (n - 1))) % 16)
        /\ Tail(Hex(c, n) \o z) = Hex(c, n - 1) \o z
<1>0. n \in 0..8 /\ n - 1 \in 0..8
  OBVIOUS
<1>1. Hex(c, n) \in Seq(Nat) /\ Len(Hex(c, n)) = n
  BY <1>0, HexIsText
<1>2. Hex(c, n - 1) \in Seq(Nat) /\ Len(Hex(c, n - 1)) = n - 1
  BY <1>0, HexIsText
<1>3. \A i \in 1..Len(Hex(c, n - 1)) : Hex(c, n)[i + 1] = Hex(c, n - 1)[i]
  <2>1. ASSUME NEW i \in 1..(n - 1) PROVE n - (i + 1) = (n - 1) - i
    OBVIOUS
  <2> QED BY <1>2, <2>1 DEF Hex
<1>4. Hex(c, n)[1] = HexDigit((c \div (16 ^ (n - 1))) % 16)
  BY DEF Hex
<1>5. Len(Hex(c, n)) = Len(Hex(c, n - 1)) + 1
  BY <1>1, <1>2
<1> DEFINE h == Hex(c, n)
           t == Hex(c, n - 1)
<1>6. h \in Seq(Nat) /\ t \in Seq(Nat) /\ IsTail(t, h)
  BY <1>1, <1>2, <1>3, <1>5 DEF IsTail
<1> HIDE DEF h, t
<1>7. /\ h \o z \in Seq(Nat) /\ h \o z # <<>>
      /\ Head(h \o z) = h[1] /\ Tail(h \o z) = t \o z
  BY <1>6, TailOfFirst
<1> QED BY <1>4, <1>7 DEF h, t

LEMMA NoDigitLeft ==
  ASSUME NEW c \in Nat, NEW z \in Seq(Nat)
  PROVE Hex(c, 0) \o z = z
BY DEF Hex

(* A digit after the digits before it. *)
LEMMA DigitAppended ==
  ASSUME NEW c \in Nat, NEW n \in 1..8
  PROVE LET d == (c \div (16 ^ (n - 1))) % 16
        IN /\ d \in 0..15
           /\ (c \div (16 ^ n)) * 16 + d = c \div (16 ^ (n - 1))
<1>1. CASE n = 1
  BY <1>1
<1>2. CASE n = 2
  BY <1>2
<1>3. CASE n = 3
  BY <1>3
<1>4. CASE n = 4
  BY <1>4
<1>5. CASE n = 5
  BY <1>5
<1>6. CASE n = 6
  BY <1>6
<1>7. CASE n = 7
  BY <1>7
<1>8. CASE n = 8
  BY <1>8
<1> QED BY <1>1, <1>2, <1>3, <1>4, <1>5, <1>6, <1>7, <1>8

------------------------------------------------------------------------------
(* The ranges, but for the bounds of the state and of the digits read,      *)
(* which follow from where in a piece the decoder is.                       *)
Types ==
  /\ reader \in {"get", "skip"}
  /\ writer \in {"encoder", "other"} /\ num_bytes \in {2, 4} /\ page \in 1..9
  /\ text \in Seq(Nat) /\ expected \in Seq(Nat) /\ builder_ \in Seq(Nat)
  /\ codepage \in 1..9 /\ hex \in Nat
  /\ status \in {"reading", "ended", "thrown"}

Booleans == in_extended \in BOOLEAN /\ closed \in BOOLEAN /\ mistaken \in BOOLEAN

IInv == Types /\ Booleans /\ DecoderInv /\ NoCharacterInv

LEMMA BooleansKept ==
  ASSUME Booleans, [Next]_vars
  PROVE Booleans'
<1>1. CASE UNCHANGED vars
  <2>1. UNCHANGED <<in_extended, closed, mistaken>>
    BY <1>1, SMT DEF vars, written
  <2> QED BY <2>1, Zenon DEF Booleans
<1>2. CASE Writing
  <2>1. ASSUME NEW c \in CodePoints, Encode(c)
        PROVE Booleans'
    <3>1. in_extended' = ~within_spf_range(c) /\ closed' = closed /\ mistaken' = mistaken
      BY <2>1, SMT DEF Encode
    <3> QED BY <3>1, Zenon DEF Booleans
  <2>2. CASE EncodeEnd \/ OtherEnd
    <3>1. closed' = TRUE /\ in_extended' = in_extended /\ mistaken' = mistaken
      BY <2>2, SMT DEF EncodeEnd, OtherEnd
    <3> QED BY <3>1, Zenon DEF Booleans
  <2>3. CASE OtherMistake(LetterT)
    <3>1. mistaken' = TRUE /\ in_extended' = in_extended /\ closed' = closed
      BY <2>3, SMT DEF OtherMistake
    <3> QED BY <3>1, Zenon DEF Booleans
  <2>4. CASE in_extended' = in_extended /\ closed' = closed /\ mistaken' = mistaken
    BY <2>4, Zenon DEF Booleans
  <2>5. ASSUME NEW c \in CodePoints, OtherPlain(c) \/ OtherArbitrary(c)
        PROVE Booleans'
    BY <2>4, <2>5 DEF OtherPlain, OtherArbitrary, Other
  <2>6. ASSUME NEW c \in CodePoints, NEW d \in CodePoints, NEW bytes \in {2, 4},
               OtherExtended(bytes, c, d)
        PROVE Booleans'
    BY <2>4, <2>6 DEF OtherExtended, Other
  <2>7. ASSUME NEW c \in PageChars, OtherPage(c)
        PROVE Booleans'
    BY <2>4, <2>7 DEF OtherPage, Other
  <2>8. ASSUME NEW letter \in {LetterN, LetterF}, OtherDirective(letter)
        PROVE Booleans'
    BY <2>4, <2>8 DEF OtherDirective, Other
  <2>9. ASSUME NEW p \in Pages, OtherAlphabet(p)
        PROVE Booleans'
    BY <2>4, <2>9 DEF OtherAlphabet, Other
  <2> QED BY <1>2, <2>1, <2>2, <2>3, <2>5, <2>6, <2>7, <2>8, <2>9 DEF Writing
<1>3. CASE Reading \/ Throwing
  <2>1. UNCHANGED written
    BY <1>3 DEF Reading, PageCharacter, FirstOfPair, NextSolidus, Flag, Hexadecimal, Plain,
                EndOfString, Throwing, Invalid, UndefinedCharacter, Take
  <2>2. UNCHANGED <<in_extended, closed, mistaken>>
    BY <2>1, SMT DEF written
  <2> QED BY <2>2, Zenon DEF Booleans
<1>4. CASE NextString
  BY <1>4, Zenon DEF NextString, Booleans
<1> QED BY <1>1, <1>2, <1>3, <1>4 DEF Next

LEMMA CharactersAreNatural ==
  /\ \A c \in CodePoints : c \in Nat
  /\ \A c \in PageChars : c \in Nat
  /\ \A p \in Pages : p \in 1..9
BY CodePointsAssumption, PagesAssumption

LEMMA PageCharacterIsNatural ==
  ASSUME NEW p \in 1..9, NEW c \in Nat
  PROVE convert_codepage(p, c + 128) \in Nat
BY SMT DEF convert_codepage

(* While a piece is being read, only the action of the branch is taken.     *)
LEMMA OneBranch ==
  ASSUME Next, status = "reading", text # <<>>
  PROVE LET b == Branch(Head(text), parse_state)
        IN /\ b = "page character" => PageCharacter \/ UndefinedCharacter
           /\ b \in {"apostrophe", "solidus"} => FirstOfPair
           /\ b = "next solidus" => NextSolidus
           /\ b = "flag" => Flag
           /\ b = "hexadecimal" => Hexadecimal
           /\ b = "plain" => Plain
           /\ b = "end" => EndOfString
           /\ b = "invalid" => Invalid
           /\ UNCHANGED written
<1>1. ~Writing
  BY DEF Writing, Write, Encode, EncodeEnd, Other, OtherPlain, OtherPage, OtherArbitrary,
         OtherExtended, OtherDirective, OtherAlphabet, OtherEnd, OtherMistake
<1>2. ~NextString
  BY DEF NextString
<1>3. Reading \/ Throwing
  BY <1>1, <1>2 DEF Next
<1> QED
  BY <1>3 DEF Reading, PageCharacter, FirstOfPair, NextSolidus, Flag, Hexadecimal, Plain,
              EndOfString, Throwing, Invalid, UndefinedCharacter, Take

LEMMA PieceIsText ==
  ASSUME NEW c \in Nat, NEW bytes \in {2, 4}
  PROVE /\ Doubled(c) \in Seq(Nat) /\ CloseExtended \in Seq(Nat)
        /\ OpenExtended(bytes) \in Seq(Nat) /\ Quote \in Seq(Nat)
        /\ Hex(c, 2) \in Seq(Nat) /\ Hex(c, 2 * bytes) \in Seq(Nat)
<1>1. Hex(c, 2) \in Seq(Nat) /\ Hex(c, 4) \in Seq(Nat) /\ Hex(c, 8) \in Seq(Nat)
  BY HexIsText
<1> QED BY <1>1 DEF Doubled, CloseExtended, OpenExtended, Quote

LEMMA HexadecimalIsNatural ==
  ASSUME NEW c, IS_HEXADECIMAL(c)
  PROVE HEX_TO_INT(c) \in Nat
BY DEF HEX_TO_INT, IS_HEXADECIMAL

LEMMA TypesKept ==
  ASSUME Types, [Next]_vars
  PROVE Types'
<1> USE DEF Types
<1>0. /\ \A c \in CodePoints : c \in Nat
      /\ \A c \in PageChars : c \in Nat
      /\ \A p \in Pages : p \in 1..9
  BY CharactersAreNatural
<1>1. CASE UNCHANGED vars
  BY <1>1 DEF vars, written, decoder
<1>2. CASE Writing
  <2>1. ASSUME NEW c \in CodePoints, Encode(c)
        PROVE Types'
    <3>1. /\ Doubled(c) \in Seq(Nat) /\ Hex(c, 2 * num_bytes) \in Seq(Nat)
          /\ CloseExtended \in Seq(Nat) /\ OpenExtended(num_bytes) \in Seq(Nat)
      BY <1>0, PieceIsText
    <3>2. Encoded(c) \in Seq(Nat)
      BY <3>1 DEF Encoded
    <3> QED BY <2>1, <1>0, <3>2 DEF Encode, Write
  <2>2. CASE EncodeEnd
    <3>1. (IF in_extended THEN CloseExtended ELSE <<>>) \o Quote \in Seq(Nat)
      BY <1>0, PieceIsText DEF CloseExtended, Quote
    <3> QED BY <2>2, <3>1 DEF EncodeEnd, Write
  <2>3. ASSUME NEW c \in CodePoints, OtherPlain(c)
        PROVE Types'
    <3>1. Doubled(c) \in Seq(Nat) /\ <<c>> \in Seq(Nat)
      BY <1>0 DEF Doubled
    <3> QED BY <2>3, <3>1 DEF OtherPlain, Other, Write
  <2>4. ASSUME NEW c \in PageChars, OtherPage(c)
        PROVE Types'
    <3>1. convert_codepage(page, c + 128) \in Nat
      BY <1>0, PageCharacterIsNatural
    <3>2. <<Solidus, LetterS, Solidus, c>> \in Seq(Nat)
      BY <1>0
    <3> QED BY <2>4, <3>1, <3>2 DEF OtherPage, Other, Write
  <2>5. ASSUME NEW c \in CodePoints, OtherArbitrary(c)
        PROVE Types'
    <3>1. Hex(c, 2) \in Seq(Nat)
      BY <1>0, PieceIsText
    <3>2. <<Solidus, LetterX, Solidus>> \o Hex(c, 2) \in Seq(Nat)
      BY <3>1
    <3> QED BY <2>5, <1>0, <3>2 DEF OtherArbitrary, Other, Write
  <2>6. ASSUME NEW c \in CodePoints, NEW d \in CodePoints, NEW bytes \in {2, 4},
               OtherExtended(bytes, c, d)
        PROVE Types'
    <3>1. OpenExtended(bytes) \o Hex(c, 2 * bytes) \o Hex(d, 2 * bytes) \o CloseExtended
            \in Seq(Nat)
      <4>1. /\ OpenExtended(bytes) \in Seq(Nat) /\ CloseExtended \in Seq(Nat)
            /\ Hex(c, 2 * bytes) \in Seq(Nat)
        BY <1>0, PieceIsText
      <4>2. Hex(d, 2 * bytes) \in Seq(Nat)
        BY <1>0, PieceIsText
      <4> QED BY <4>1, <4>2
    <3> QED BY <2>6, <1>0, <3>1 DEF OtherExtended, Other, Write
  <2>7. ASSUME NEW letter \in {LetterN, LetterF}, OtherDirective(letter)
        PROVE Types'
    BY <2>7 DEF OtherDirective, Other, Write
  <2>8. ASSUME NEW p \in Pages, OtherAlphabet(p)
        PROVE Types'
    <3>0. p \in 1..9
      BY <1>0
    <3>1. <<Solidus, LetterP, LetterA + p - 1, Solidus>> \in Seq(Nat)
      BY <3>0
    <3> QED BY <2>8, <3>0, <3>1 DEF OtherAlphabet, Other, Write
  <2>9. CASE OtherMistake(LetterT)
    BY <2>9 DEF OtherMistake, Write
  <2>10. CASE OtherEnd
    BY <2>10 DEF OtherEnd, Write, Quote
  <2> QED
    BY <1>2, <2>1, <2>2, <2>3, <2>4, <2>5, <2>6, <2>7, <2>8, <2>9, <2>10 DEF Writing
<1>3. CASE Reading \/ Throwing
  <2>00. text # <<>> /\ UNCHANGED written
    BY <1>3 DEF Reading, PageCharacter, FirstOfPair, NextSolidus, Flag, Hexadecimal, Plain,
                EndOfString, Throwing, Invalid, UndefinedCharacter, Take
  <2>0. /\ text # <<>> /\ reader' = reader
        /\ writer' = writer /\ num_bytes' = num_bytes /\ page' = page /\ expected' = expected
    BY <2>00 DEF written
  <2>1. Head(text) \in Nat /\ Tail(text) \in Seq(Nat)
    BY <2>0
  <2>2. CASE PageCharacter
    <3>1. convert_codepage(codepage, Head(text) + 128) \in Nat
      BY <2>1, PageCharacterIsNatural
    <3>2. /\ text' = Tail(text) /\ UNCHANGED <<status, hex, codepage>>
          /\ builder_' = Append(builder_, convert_codepage(codepage, Head(text) + 128))
      BY <2>2 DEF PageCharacter, Inc, Push
    <3> QED BY <2>0, <2>1, <3>1, <3>2
  <2>3. CASE FirstOfPair
    <3>1. text' = Tail(text) /\ UNCHANGED <<status, hex, codepage, builder_>>
      BY <2>3 DEF FirstOfPair, Inc
    <3> QED BY <2>0, <2>1, <3>1
  <2>4. CASE NextSolidus
    <3>1. /\ text' = Tail(text) /\ UNCHANGED <<status, codepage, builder_>>
          /\ hex' = hex \/ hex' = 0
      BY <2>4 DEF NextSolidus, Inc
    <3> QED BY <2>0, <2>1, <3>1
  <2>5. CASE Flag
    <3>1. Added(Head(text), parse_state) = ALPHABET_DEFINITION => Head(text) - 64 \in 1..9
      BY <2>1, FlagValues, SMT DEF Added
    <3> QED BY <2>0, <2>1, <2>5, <3>1 DEF Flag, Inc
  <2>6. CASE Hexadecimal
    <3>1. IS_HEXADECIMAL(Head(text))
      BY <2>6, SMT DEF Hexadecimal, Take, Branch
    <3>2. HEX_TO_INT(Head(text)) \in Nat
      BY <3>1, HexadecimalIsNatural
    <3>3. hex * 16 + HEX_TO_INT(Head(text)) \in Nat
      BY <3>2
    <3>4. /\ text' = Tail(text) /\ status' = status /\ codepage' = codepage
          /\ \/ builder_' = builder_ /\ hex' = hex * 16 + HEX_TO_INT(Head(text))
             \/ builder_' = Append(builder_, hex * 16 + HEX_TO_INT(Head(text))) /\ hex' = 0
      BY <2>6 DEF Hexadecimal, Inc, Push
    <3>5. PICK v \in Nat : \/ builder_' = builder_ /\ hex' = v
                           \/ builder_' = Append(builder_, v) /\ hex' = 0
      BY <3>3, <3>4
    <3>6. hex' \in Nat
      BY <3>5
    <3>7. Append(builder_, v) \in Seq(Nat)
      OBVIOUS
    <3>8. builder_' \in Seq(Nat)
      BY <3>5, <3>7
    <3> QED BY <2>0, <2>1, <3>4, <3>6, <3>8
  <2>7. CASE Plain
    BY <2>0, <2>1, <2>7 DEF Plain, Inc, Push
  <2>8. CASE EndOfString \/ Throwing
    <3>1. status' \in {"ended", "thrown"} /\ UNCHANGED <<text, hex, codepage, builder_>>
      BY <2>8 DEF EndOfString, Throwing, Invalid, UndefinedCharacter
    <3> QED BY <2>0, <3>1
  <2> QED BY <1>3, <2>2, <2>3, <2>4, <2>5, <2>6, <2>7, <2>8 DEF Reading
<1>4. CASE NextString
  BY <1>4 DEF NextString
<1> QED BY <1>1, <1>2, <1>3, <1>4 DEF Next

------------------------------------------------------------------------------
(* What does not change while a piece is read. *)
SameString ==
  /\ reader' = reader
  /\ writer' = writer /\ num_bytes' = num_bytes /\ in_extended' = in_extended
  /\ page' = page /\ expected' = expected /\ closed' = closed /\ mistaken' = mistaken

(* A character is consumed. *)
Consumed == SameString /\ text' = Tail(text) /\ status' = "reading"

LEMMA Rounds ==
  ASSUME Next, status = "reading", text # <<>>, NEW b, b = Branch(Head(text), parse_state)
  PROVE /\ b = "page character" =>
             LET character == convert_codepage(codepage, Head(text) + 128)
             IN \/ /\ Consumed /\ UNCHANGED <<hex, hex_count, codepage>> /\ parse_state' = 0
                   /\ reader = "skip" \/ character # 0
                   /\ builder_' = Append(builder_, character)
                \/ /\ reader = "get" /\ character = 0
                   /\ SameString /\ status' = "thrown"
                   /\ UNCHANGED <<text, parse_state, hex, hex_count, codepage, builder_>>
        /\ b = "apostrophe" =>
             /\ Consumed /\ UNCHANGED <<hex, hex_count, codepage, builder_>>
             /\ parse_state' = APOSTROPHE
        /\ b = "solidus" =>
             /\ Consumed /\ UNCHANGED <<hex, hex_count, codepage, builder_>>
             /\ parse_state' = FIRST_SOLIDUS
        /\ b = "next solidus" =>
             /\ Consumed /\ UNCHANGED <<codepage, builder_>>
             /\ IF Finished(parse_state)
                  THEN parse_state' = 0 /\ hex' = 0 /\ hex_count' = 0
                  ELSE /\ UNCHANGED <<hex, hex_count>>
                       /\ parse_state' = IF Has(parse_state, ENCOUNTERED_HEX)
                                         THEN parse_state + THIRD_SOLIDUS - ENCOUNTERED_HEX
                                         ELSE parse_state + SECOND_SOLIDUS
        /\ b = "flag" =>
             /\ Consumed /\ UNCHANGED <<hex, hex_count, builder_>>
             /\ parse_state' = parse_state + Added(Head(text), parse_state)
             /\ codepage' = IF Added(Head(text), parse_state) = ALPHABET_DEFINITION
                            THEN Head(text) - 64 ELSE codepage
        /\ b = "hexadecimal" => Consumed /\ Hexadecimal
        /\ b = "plain" =>
             /\ Consumed /\ UNCHANGED codepage
             /\ parse_state' = 0 /\ hex' = 0 /\ hex_count' = 0
             /\ builder_' = Append(builder_, Head(text))
        /\ b \in {"end", "invalid"} =>
             /\ SameString
             /\ UNCHANGED <<text, parse_state, hex, hex_count, codepage, builder_>>
             /\ status' = IF b = "end" THEN "ended" ELSE "thrown"
<1>1. SameString
  BY OneBranch DEF written, SameString
<1>2. b = "page character" => PageCharacter \/ UndefinedCharacter
  BY OneBranch
<1>3. b \in {"apostrophe", "solidus"} => FirstOfPair
  BY OneBranch
<1>4. b = "next solidus" => NextSolidus
  BY OneBranch
<1>5. b = "flag" => Flag
  BY OneBranch
<1>6. b = "hexadecimal" => Hexadecimal
  BY OneBranch
<1>7. b = "plain" => Plain
  BY OneBranch
<1>8. (b = "end" => EndOfString) /\ (b = "invalid" => Invalid)
  BY OneBranch
<1>9. CASE b = "page character"
  BY <1>1, <1>2, <1>9 DEF PageCharacter, UndefinedCharacter, Consumed, Inc, Push
<1>10. CASE b \in {"apostrophe", "solidus"}
  BY <1>1, <1>3, <1>10 DEF FirstOfPair, Take, Consumed, Inc
<1>11. CASE b = "next solidus"
  BY <1>1, <1>4, <1>11 DEF NextSolidus, Consumed, Inc
<1>12. CASE b = "flag"
  BY <1>1, <1>5, <1>12 DEF Flag, Consumed, Inc
<1>13. CASE b = "hexadecimal"
  BY <1>1, <1>6, <1>13 DEF Hexadecimal, Consumed, Inc
<1>14. CASE b = "plain"
  BY <1>1, <1>7, <1>14 DEF Plain, Consumed, Inc, Push
<1>15. CASE b \in {"end", "invalid"}
  BY <1>1, <1>8, <1>15 DEF EndOfString, Invalid
<1> QED BY <1>9, <1>10, <1>11, <1>12, <1>13, <1>14, <1>15

(* The rounds that add flags and take none away, and the last one of a      *)
(* directive or of a sequence.                                             *)
Kept == codepage' = codepage /\ builder_' = builder_

Reads(s) == Consumed /\ Kept /\ hex' = hex /\ hex_count' = hex_count /\ parse_state' = s

Finishes == Consumed /\ Kept /\ hex' = 0 /\ hex_count' = 0 /\ parse_state' = 0

LEMMA ReadsFirst ==
  ASSUME Next, status = "reading", text # <<>>, parse_state = 0
  PROVE /\ Head(text) = Apostrophe => Reads(APOSTROPHE)
        /\ Head(text) = Solidus => Reads(FIRST_SOLIDUS)
<1>1. CASE Head(text) = Apostrophe
  <2>1. Branch(Head(text), parse_state) = "apostrophe"
    BY <1>1, BranchOutside
  <2>2. Reads(APOSTROPHE)
    BY <2>1, Rounds DEF Reads, Kept
  <2> QED BY <1>1, <2>2
<1>2. CASE Head(text) = Solidus
  <2>1. Branch(Head(text), parse_state) = "solidus"
    BY <1>2, BranchOutside
  <2>2. Reads(FIRST_SOLIDUS)
    BY <2>1, Rounds DEF Reads, Kept
  <2> QED BY <1>2, <2>2
<1> QED BY <1>1, <1>2

LEMMA ReadsFlag ==
  ASSUME Next, status = "reading", text # <<>>,
         NEW c, NEW s, NEW f, Head(text) = c, parse_state = s,
         Branch(c, s) = "flag", Added(c, s) = f, f # ALPHABET_DEFINITION
  PROVE Reads(s + f)
<1>1. Branch(Head(text), parse_state) = "flag" /\ Added(Head(text), parse_state) = f
  OBVIOUS
<1> QED BY <1>1, Rounds DEF Reads, Kept

LEMMA ReadsSolidus ==
  ASSUME Next, status = "reading", text # <<>>,
         NEW s, Head(text) = Solidus, parse_state = s,
         Branch(Solidus, s) = "next solidus", ~Finished(s)
  PROVE Reads(IF Has(s, ENCOUNTERED_HEX) THEN s + THIRD_SOLIDUS - ENCOUNTERED_HEX
              ELSE s + SECOND_SOLIDUS)
<1>1. Branch(Head(text), parse_state) = "next solidus" /\ ~Finished(parse_state)
  OBVIOUS
<1> QED BY <1>1, Rounds DEF Reads, Kept

LEMMA ReadsLastSolidus ==
  ASSUME Next, status = "reading", text # <<>>,
         NEW s, Head(text) = Solidus, parse_state = s,
         Branch(Solidus, s) = "next solidus", Finished(s)
  PROVE Finishes
<1>1. Branch(Head(text), parse_state) = "next solidus" /\ Finished(parse_state)
  OBVIOUS
<1> QED BY <1>1, Rounds DEF Finishes, Kept

LEMMA OneDefinition ==
  /\ PAGE # ALPHABET_DEFINITION /\ IGNORED_DIRECTIVE # ALPHABET_DEFINITION
  /\ ALPHABET # ALPHABET_DEFINITION /\ ARBITRARY # ALPHABET_DEFINITION
  /\ ENDEXTENDED_X # ALPHABET_DEFINITION /\ ENDEXTENDED_0 # ALPHABET_DEFINITION
BY FlagValues, SMT

(* Where the decoder is in the next piece or in the same. *)
LEMMA GoesOn ==
  ASSUME DecoderInv, ~mistaken, SameString, status' = "reading",
         \/ ReadingAlphabet'
         \/ /\ AlphabetKnown'
            /\ \/ ReadAll' \/ ReadingPlain' \/ ReadingQuote' \/ ReadingPage' \/ ReadingDirective'
               \/ ReadingArbitrary' \/ ReadingOpen' \/ ReadingDigits' \/ ReadingClose'
  PROVE DecoderInv'
BY DEF DecoderInv, SameString

LEMMA GoesOnKept ==
  ASSUME IInv, ~mistaken, AlphabetKnown, Consumed, codepage' = codepage,
         \/ ReadAll' \/ ReadingPlain' \/ ReadingQuote' \/ ReadingPage' \/ ReadingDirective'
         \/ ReadingArbitrary' \/ ReadingOpen' \/ ReadingDigits' \/ ReadingClose'
  PROVE DecoderInv'
<1>1. AlphabetKnown'
  BY DEF AlphabetKnown, Consumed, SameString
<1> QED BY <1>1, GoesOn DEF IInv, Consumed

LEMMA StepPlain ==
  ASSUME IInv, Next, status = "reading", ~mistaken, AlphabetKnown, ReadingPlain
  PROVE DecoderInv'
<1> USE DEF NoDigits
<1>1. PICK c \in CodePoints :
        /\ within_spf_range(c) /\ expected = <<c>>
        /\ \/ parse_state = 0 /\ text = Doubled(c)
           \/ parse_state = APOSTROPHE /\ c = Apostrophe /\ text = <<c>>
           \/ parse_state = FIRST_SOLIDUS /\ c = Solidus /\ text = <<c>>
  BY DEF ReadingPlain
<1>2. NoDigits /\ ~closed /\ ~in_extended /\ builder_ = <<>>
  BY DEF ReadingPlain
<1>3. CASE /\ text = <<c>>
           /\ \/ parse_state = 0 /\ c \notin {Apostrophe, Solidus}
              \/ parse_state = APOSTROPHE /\ c = Apostrophe
              \/ parse_state = FIRST_SOLIDUS /\ c = Solidus
  <2>0. Head(text) = c /\ text # <<>> /\ Tail(text) = <<>>
    BY <1>3
  <2>1. Branch(Head(text), parse_state) = "plain"
    BY <1>1, <1>3, <2>0, BranchOutside DEF within_spf_range
  <2>2. /\ Consumed /\ codepage' = codepage
        /\ parse_state' = 0 /\ hex' = 0 /\ hex_count' = 0
        /\ builder_' = Append(builder_, c)
    BY <2>0, <2>1, Rounds
  <2>3. text' = <<>> /\ builder_' = <<c>>
    BY <1>2, <2>0, <2>2 DEF Consumed
  <2>4. ReadAll'
    BY <1>1, <1>2, <2>2, <2>3 DEF ReadAll, Consumed, SameString
  <2> QED BY <2>2, <2>4, GoesOnKept
<1>4. CASE parse_state = 0 /\ c \in {Apostrophe, Solidus} /\ text = <<c, c>>
  <2>0. Head(text) = c /\ text # <<>> /\ Tail(text) = <<c>>
    BY <1>4
  <2>1. Reads(IF c = Apostrophe THEN APOSTROPHE ELSE FIRST_SOLIDUS)
    BY <1>4, <2>0, ReadsFirst
  <2>2. text' = <<c>>
    BY <2>0, <2>1 DEF Reads, Consumed
  <2>3. ReadingPlain'
    BY <1>1, <1>2, <1>4, <2>1, <2>2 DEF ReadingPlain, Reads, Kept, Consumed, SameString
  <2> QED BY <2>1, <2>3, GoesOnKept DEF Reads, Kept
<1> QED BY <1>1, <1>3, <1>4 DEF Doubled

LEMMA StepQuote ==
  ASSUME IInv, Next, status = "reading", ~mistaken, AlphabetKnown, ReadingQuote
  PROVE DecoderInv'
<1> USE DEF NoDigits
<1>1. CASE parse_state = 0 /\ text = Quote
  <2>0. Head(text) = Apostrophe /\ text # <<>> /\ Tail(text) = <<Comma>>
    BY <1>1 DEF Quote
  <2>1. Reads(APOSTROPHE)
    BY <1>1, <2>0, ReadsFirst
  <2>2. ReadingQuote'
    BY <2>0, <2>1 DEF ReadingQuote, Reads, Kept, Consumed, SameString
  <2> QED BY <2>1, <2>2, GoesOnKept DEF Reads, Kept
<1>2. CASE parse_state = APOSTROPHE /\ text = <<Comma>>
  <2>0. Head(text) = Comma /\ text # <<>>
    BY <1>2
  <2>1. Branch(Head(text), parse_state) = "end"
    BY <1>2, <2>0, BranchOutside
  <2>2. /\ SameString
        /\ UNCHANGED <<text, parse_state, hex, hex_count, codepage, builder_>>
        /\ status' = "ended"
    BY <2>0, <2>1, Rounds
  <2>3. ReadingQuote'
    BY <2>2 DEF ReadingQuote, SameString
  <2> QED BY <1>2, <2>2, <2>3 DEF IInv, DecoderInv, SameString
<1> QED BY <1>1, <1>2 DEF ReadingQuote

LEMMA StepPage ==
  ASSUME IInv, Next, status = "reading", ~mistaken, AlphabetKnown, ReadingPage
  PROVE /\ DecoderInv'
        /\ NoCharacter /\ codepage = page => ReadingPage' /\ codepage' = codepage
<1> USE DEF NoDigits
<1>1. PICK c \in PageChars :
        /\ expected = <<convert_codepage(page, c + 128)>>
        /\ \/ parse_state = 0 /\ text = <<Solidus, LetterS, Solidus, c>>
           \/ parse_state = FIRST_SOLIDUS /\ text = <<LetterS, Solidus, c>>
           \/ parse_state = FIRST_SOLIDUS + PAGE /\ text = <<Solidus, c>>
           \/ parse_state = FIRST_SOLIDUS + PAGE + SECOND_SOLIDUS /\ text = <<c>>
  BY DEF ReadingPage
<1>2. NoDigits /\ ~closed /\ ~in_extended /\ builder_ = <<>>
  BY DEF ReadingPage
<1>3. CASE parse_state = 0 /\ text = <<Solidus, LetterS, Solidus, c>>
  <2>0. Head(text) = Solidus /\ text # <<>> /\ Tail(text) = <<LetterS, Solidus, c>>
    BY <1>3
  <2>1. Reads(FIRST_SOLIDUS)
    BY <1>3, <2>0, ReadsFirst
  <2>2. ReadingPage'
    BY <1>1, <1>2, <2>0, <2>1 DEF ReadingPage, Reads, Kept, Consumed, SameString
  <2>3. DecoderInv'
    BY <2>1, <2>2, GoesOnKept DEF Reads, Kept
  <2> QED BY <2>1, <2>2, <2>3 DEF Reads, Kept
<1>4. CASE parse_state = FIRST_SOLIDUS /\ text = <<LetterS, Solidus, c>>
  <2>0. Head(text) = LetterS /\ text # <<>> /\ Tail(text) = <<Solidus, c>>
    BY <1>4
  <2>1. Reads(FIRST_SOLIDUS + PAGE)
    <3>1. parse_state = FIRST_SOLIDUS
      BY <1>4
    <3> QED BY <2>0, <3>1, BranchPage, OneDefinition, ReadsFlag
  <2>2. ReadingPage'
    BY <1>1, <1>2, <2>0, <2>1 DEF ReadingPage, Reads, Kept, Consumed, SameString
  <2>3. DecoderInv'
    BY <2>1, <2>2, GoesOnKept DEF Reads, Kept
  <2> QED BY <2>1, <2>2, <2>3 DEF Reads, Kept
<1>5. CASE parse_state = FIRST_SOLIDUS + PAGE /\ text = <<Solidus, c>>
  <2>0. Head(text) = Solidus /\ text # <<>> /\ Tail(text) = <<c>>
    BY <1>5
  <2>1. Reads(FIRST_SOLIDUS + PAGE + SECOND_SOLIDUS)
    <3>1. parse_state = FIRST_SOLIDUS + PAGE
      BY <1>5
    <3>2. Reads(IF Has(parse_state, ENCOUNTERED_HEX)
                THEN parse_state + THIRD_SOLIDUS - ENCOUNTERED_HEX
                ELSE parse_state + SECOND_SOLIDUS)
      BY <2>0, <3>1, BranchPage, ReadsSolidus
    <3> QED BY <3>1, <3>2, BranchPage
  <2>2. ReadingPage'
    BY <1>1, <1>2, <2>0, <2>1 DEF ReadingPage, Reads, Kept, Consumed, SameString
  <2>3. DecoderInv'
    BY <2>1, <2>2, GoesOnKept DEF Reads, Kept
  <2> QED BY <2>1, <2>2, <2>3 DEF Reads, Kept
<1>6. CASE parse_state = FIRST_SOLIDUS + PAGE + SECOND_SOLIDUS /\ text = <<c>>
  <2>0. Head(text) = c /\ text # <<>> /\ Tail(text) = <<>>
    BY <1>6
  <2>1. Branch(Head(text), parse_state) = "page character"
    BY <1>6, BranchPage
  <2> DEFINE character == convert_codepage(codepage, c + 128)
  <2>2. \/ /\ Consumed /\ UNCHANGED <<hex, hex_count, codepage>> /\ parse_state' = 0
           /\ reader = "skip" \/ character # 0
           /\ builder_' = Append(builder_, character)
        \/ /\ reader = "get" /\ character = 0
           /\ SameString /\ status' = "thrown"
           /\ UNCHANGED <<text, parse_state, hex, hex_count, codepage, builder_>>
    BY <2>0, <2>1, Rounds
  <2>3. codepage = page => expected = <<character>>
    BY <1>1
  <2> HIDE DEF character
  <2>4. CASE /\ Consumed /\ UNCHANGED <<hex, hex_count, codepage>> /\ parse_state' = 0
             /\ reader = "skip" \/ character # 0
             /\ builder_' = Append(builder_, character)
    <3>1. text' = <<>> /\ builder_' = <<character>>
      BY <1>2, <2>0, <2>4 DEF Consumed
    <3>2. builder_' = expected' \/ 6 \in Pages
      BY <2>3, <2>4, <3>1 DEF AlphabetKnown, Consumed, SameString
    <3>3. ReadAll'
      BY <1>2, <2>4, <3>1, <3>2 DEF ReadAll, Consumed, SameString
    <3>4. DecoderInv'
      BY <2>4, <3>3, GoesOnKept
    <3>5. ~(NoCharacter /\ codepage = page)
      BY <2>3, <2>4 DEF NoCharacter
    <3> QED BY <3>4, <3>5
  <2>5. CASE /\ reader = "get" /\ character = 0
             /\ SameString /\ status' = "thrown"
             /\ UNCHANGED <<text, parse_state, hex, hex_count, codepage, builder_>>
    <3>1. ReadingPage'
      BY <1>1, <1>2, <2>5 DEF ReadingPage, SameString
    <3>2. expected' = <<0>> \/ 6 \in Pages
      BY <2>3, <2>5 DEF AlphabetKnown, SameString
    <3>3. DecoderInv'
      BY <2>5, <3>1, <3>2 DEF IInv, DecoderInv, SameString
    <3> QED BY <2>5, <3>1, <3>3
  <2> QED BY <2>2, <2>4, <2>5
<1> QED BY <1>1, <1>3, <1>4, <1>5, <1>6

LEMMA StepDirective ==
  ASSUME IInv, Next, status = "reading", ~mistaken, AlphabetKnown, ReadingDirective
  PROVE DecoderInv'
<1> USE DEF NoDigits
<1>2. NoDigits /\ ~closed /\ ~in_extended /\ builder_ = <<>> /\ expected = <<>>
  BY DEF ReadingDirective
<1>3. ASSUME NEW letter \in {LetterN, LetterF},
             parse_state = 0, text = <<Solidus, letter, Solidus>>
      PROVE DecoderInv'
  <2>0. Head(text) = Solidus /\ text # <<>> /\ Tail(text) = <<letter, Solidus>>
    BY <1>3
  <2>1. Reads(FIRST_SOLIDUS)
    BY <1>3, <2>0, ReadsFirst
  <2>2. ReadingDirective'
    BY <1>2, <2>0, <2>1 DEF ReadingDirective, Reads, Kept, Consumed, SameString
  <2> QED BY <2>1, <2>2, GoesOnKept DEF Reads, Kept
<1>4. ASSUME NEW letter \in {LetterN, LetterF},
             parse_state = FIRST_SOLIDUS, text = <<letter, Solidus>>
      PROVE DecoderInv'
  <2>0. Head(text) = letter /\ text # <<>> /\ Tail(text) = <<Solidus>>
    BY <1>4
  <2>1. Reads(FIRST_SOLIDUS + IGNORED_DIRECTIVE)
    <3>1. parse_state = FIRST_SOLIDUS
      BY <1>4
    <3>2. /\ Branch(letter, FIRST_SOLIDUS) = "flag"
          /\ Added(letter, FIRST_SOLIDUS) = IGNORED_DIRECTIVE
      BY BranchDirective, Zenon
    <3> QED BY <2>0, <3>1, <3>2, OneDefinition, ReadsFlag
  <2>2. ReadingDirective'
    BY <1>2, <2>0, <2>1 DEF ReadingDirective, Reads, Kept, Consumed, SameString
  <2> QED BY <2>1, <2>2, GoesOnKept DEF Reads, Kept
<1>5. CASE parse_state = FIRST_SOLIDUS + IGNORED_DIRECTIVE /\ text = <<Solidus>>
  <2>0. Head(text) = Solidus /\ text # <<>> /\ Tail(text) = <<>>
    BY <1>5
  <2>1. Finishes
    <3>1. parse_state = FIRST_SOLIDUS + IGNORED_DIRECTIVE
      BY <1>5
    <3> QED BY <2>0, <3>1, BranchDirective, ReadsLastSolidus
  <2>2. ReadAll'
    BY <1>2, <2>0, <2>1 DEF ReadAll, Finishes, Kept, Consumed, SameString
  <2> QED BY <2>1, <2>2, GoesOnKept DEF Finishes, Kept
<1> QED BY <1>3, <1>4, <1>5 DEF ReadingDirective

LEMMA StepAlphabet ==
  ASSUME IInv, Next, status = "reading", ~mistaken, ReadingAlphabet
  PROVE DecoderInv'
<1> USE DEF NoDigits
<1>2. NoDigits /\ ~closed /\ ~in_extended /\ builder_ = <<>> /\ expected = <<>>
  BY DEF ReadingAlphabet
<1>3. CASE page \in Pages /\ parse_state = 0
           /\ text = <<Solidus, LetterP, LetterA + page - 1, Solidus>>
  <2>0. /\ Head(text) = Solidus /\ text # <<>>
        /\ Tail(text) = <<LetterP, LetterA + page - 1, Solidus>>
    BY <1>3
  <2>1. Reads(FIRST_SOLIDUS)
    BY <1>3, <2>0, ReadsFirst
  <2>2. ReadingAlphabet'
    BY <1>2, <1>3, <2>0, <2>1 DEF ReadingAlphabet, Reads, Kept, Consumed, SameString
  <2> QED BY <2>1, <2>2, GoesOn DEF Reads, Consumed, IInv
<1>4. CASE page \in Pages /\ parse_state = FIRST_SOLIDUS
           /\ text = <<LetterP, LetterA + page - 1, Solidus>>
  <2>0. Head(text) = LetterP /\ text # <<>> /\ Tail(text) = <<LetterA + page - 1, Solidus>>
    BY <1>4
  <2>1. Reads(FIRST_SOLIDUS + ALPHABET)
    <3>1. parse_state = FIRST_SOLIDUS
      BY <1>4
    <3>2. Branch(LetterP, FIRST_SOLIDUS) = "flag" /\ Added(LetterP, FIRST_SOLIDUS) = ALPHABET
      BY BranchAlphabet, Zenon
    <3> QED BY <2>0, <3>1, <3>2, OneDefinition, ReadsFlag
  <2>2. ReadingAlphabet'
    BY <1>2, <1>4, <2>0, <2>1 DEF ReadingAlphabet, Reads, Kept, Consumed, SameString
  <2> QED BY <2>1, <2>2, GoesOn DEF Reads, Consumed, IInv
<1>5. CASE page \in Pages /\ parse_state = FIRST_SOLIDUS + ALPHABET
           /\ text = <<LetterA + page - 1, Solidus>>
  <2> DEFINE c == LetterA + page - 1
             s == FIRST_SOLIDUS + ALPHABET
  <2>0. /\ c \in LetterA..LetterI /\ c - 64 = page /\ (c = LetterF => page = 6)
        /\ Head(text) = c /\ text # <<>> /\ Tail(text) = <<Solidus>>
    BY <1>5 DEF IInv, Types
  <2>1. /\ Branch(c, s) = "flag"
        /\ Added(c, s) = IF c = LetterF THEN IGNORED_DIRECTIVE ELSE ALPHABET_DEFINITION
    BY <2>0, BranchAlphabet
  <2>2. parse_state = s /\ page \in Pages
    BY <1>5
  <2> HIDE DEF c, s
  <2>3. /\ Branch(Head(text), parse_state) = "flag"
        /\ Added(Head(text), parse_state) = Added(c, s)
    BY <2>0, <2>1, <2>2
  <2>4. /\ Consumed /\ hex' = hex /\ hex_count' = hex_count /\ builder_' = builder_
        /\ parse_state' = s + Added(c, s)
        /\ codepage' = IF Added(c, s) = ALPHABET_DEFINITION THEN c - 64 ELSE codepage
    BY <2>0, <2>2, <2>3, Rounds
  <2>5. text' = <<Solidus>>
    BY <2>0, <2>4 DEF Consumed
  <2>6. CASE c = LetterF
    <3>1. parse_state' = s + IGNORED_DIRECTIVE /\ 6 \in Pages
      BY <2>0, <2>1, <2>2, <2>4, <2>6
    <3>2. ReadingAlphabet'
      BY <1>2, <2>4, <2>5, <3>1 DEF ReadingAlphabet, Consumed, SameString, s
    <3> QED BY <2>4, <3>2, GoesOn DEF Consumed, IInv
  <2>7. CASE c # LetterF
    <3>1. parse_state' = s + ALPHABET_DEFINITION /\ codepage' = page
      BY <2>0, <2>1, <2>4, <2>7
    <3>2. ReadingAlphabet'
      BY <1>2, <2>4, <2>5, <3>1 DEF ReadingAlphabet, Consumed, SameString, s
    <3> QED BY <2>4, <3>2, GoesOn DEF Consumed, IInv
  <2> QED BY <2>6, <2>7
<1>6. ASSUME NEW f \in {ALPHABET_DEFINITION, IGNORED_DIRECTIVE},
             parse_state = FIRST_SOLIDUS + ALPHABET + f, text = <<Solidus>>, AlphabetKnown
      PROVE DecoderInv'
  <2>0. Head(text) = Solidus /\ text # <<>> /\ Tail(text) = <<>>
    BY <1>6
  <2>1. Finishes
    <3>1. /\ Branch(Solidus, FIRST_SOLIDUS + ALPHABET + f) = "next solidus"
          /\ Finished(FIRST_SOLIDUS + ALPHABET + f)
      BY BranchAlphabetEnd
    <3>2. parse_state = FIRST_SOLIDUS + ALPHABET + f
      BY <1>6
    <3> QED BY <2>0, <3>1, <3>2, ReadsLastSolidus
  <2>2. ReadAll'
    BY <1>2, <2>0, <2>1 DEF ReadAll, Finishes, Kept, Consumed, SameString
  <2> QED BY <1>6, <2>1, <2>2, GoesOnKept DEF Finishes, Kept
<1> QED BY <1>3, <1>4, <1>5, <1>6 DEF ReadingAlphabet, AlphabetKnown

LEMMA StepMistake ==
  ASSUME IInv, Next, status = "reading", mistaken
  PROVE DecoderInv'
<1> USE DEF NoDigits
<1>0. ReadingMistake /\ (writer = "other" => ~in_extended)
  BY DEF DecoderInv, IInv
<1>1. CASE parse_state = 0 /\ text = <<Solidus, LetterT>>
  <2>0. Head(text) = Solidus /\ text # <<>> /\ Tail(text) = <<LetterT>>
    BY <1>1
  <2>1. Reads(FIRST_SOLIDUS)
    BY <1>1, <2>0, ReadsFirst
  <2>2. ReadingMistake'
    BY <1>0, <2>0, <2>1 DEF ReadingMistake, Reads, Consumed, SameString
  <2> QED BY <1>0, <2>1, <2>2 DEF DecoderInv, Reads, Consumed, SameString
<1>2. CASE parse_state = FIRST_SOLIDUS /\ text = <<LetterT>>
  <2>0. Head(text) = LetterT /\ text # <<>>
    BY <1>2
  <2>1. Branch(Head(text), parse_state) = "invalid"
    BY <1>2, <2>0, BranchOutside
  <2>2. /\ SameString
        /\ UNCHANGED <<text, parse_state, hex, hex_count, codepage, builder_>>
        /\ status' = "thrown"
    BY <2>0, <2>1, Rounds
  <2>3. ReadingMistake' /\ text' = <<LetterT>>
    BY <1>0, <1>2, <2>2 DEF ReadingMistake, SameString
  <2> QED BY <1>0, <2>2, <2>3 DEF DecoderInv, SameString
<1> QED BY <1>0, <1>1, <1>2 DEF ReadingMistake

------------------------------------------------------------------------------
LEMMA RestIsText ==
  ASSUME NEW bytes \in {2, 4}
  PROVE /\ \A z \in AfterDigits(bytes) : z \in Seq(Nat)
        /\ \A z \in AfterClose : z \in Seq(Nat)
<1>1. ASSUME NEW d \in CodePoints PROVE Hex(d, 2 * bytes) \o CloseExtended \in Seq(Nat)
  <2>1. d \in Nat
    BY CharactersAreNatural
  <2>2. Hex(d, 2 * bytes) \in Seq(Nat) /\ CloseExtended \in Seq(Nat)
    BY <2>1, PieceIsText
  <2> QED BY <2>2
<1>2. ASSUME NEW d \in CodePoints PROVE Doubled(d) \in Seq(Nat)
  <2>1. d \in Nat
    BY CharactersAreNatural
  <2> QED BY <2>1, PieceIsText
<1>3. <<>> \in Seq(Nat) /\ CloseExtended \in Seq(Nat) /\ Quote \in Seq(Nat)
  BY DEF CloseExtended, Quote
<1>4. ASSUME NEW z \in AfterDigits(bytes) PROVE z \in Seq(Nat)
  <2>1. CASE z \in {<<>>, CloseExtended}
    BY <2>1, <1>3
  <2>2. ASSUME NEW d \in WrittenWith(bytes), z = Hex(d, 2 * bytes) \o CloseExtended
        PROVE z \in Seq(Nat)
    <3>1. d \in CodePoints
      BY DEF WrittenWith
    <3> QED BY <2>2, <3>1, <1>1
  <2> QED BY <2>1, <2>2 DEF AfterDigits
<1>5. ASSUME NEW z \in AfterClose PROVE z \in Seq(Nat)
  <2>1. CASE z \in {<<>>, Quote}
    BY <2>1, <1>3
  <2>2. CASE \E d \in CodePoints : z = Doubled(d)
    BY <2>2, <1>2
  <2> QED BY <2>1, <2>2, Zenon DEF AfterClose
<1> QED BY <1>4, <1>5

(* The first digit is read when nothing was. *)
LEMMA NothingBefore ==
  /\ \A bytes \in {2, 4} : \A c \in WrittenWith(bytes) : c \div (16 ^ (2 * bytes)) = 0
  /\ \A c \in CodePoints : c < 256 => c \div (16 ^ 2) = 0
<1>1. ASSUME NEW c \in CodePoints, c < 65536 PROVE c \div (16 ^ 4) = 0
  BY <1>1, CodePointsAssumption, SMT
<1>2. ASSUME NEW c \in CodePoints PROVE c \div (16 ^ 8) = 0
  BY <1>2, CodePointsAssumption, SMT
<1>3. ASSUME NEW c \in CodePoints, c < 256 PROVE c \div (16 ^ 2) = 0
  BY <1>3, CodePointsAssumption, SMT
<1> QED BY <1>1, <1>2, <1>3, SMT DEF WrittenWith

LEMMA DigitRead ==
  ASSUME Next, status = "reading",
         NEW c \in Nat, NEW n \in 1..8, NEW z \in Seq(Nat),
         text = Hex(c, n) \o z, hex = c \div (16 ^ n),
         \A d \in 48..57 \cup 65..70 : Branch(d, parse_state) = "hexadecimal"
  PROVE LET digits == hex_count + 1
            value == c \div (16 ^ (n - 1))
            state == parse_state + HEX(digits)
        IN /\ Consumed /\ codepage' = codepage /\ text' = Hex(c, n - 1) \o z
           /\ IF \/ digits = 2 /\ ~Has(parse_state, EXTENDED2)
                 \/ digits = 4 /\ ~Has(parse_state, EXTENDED4)
                 \/ digits = 8
              THEN /\ builder_' = Append(builder_, value)
                   /\ parse_state' = AfterCharacter(state, digits)
                   /\ hex' = 0 /\ hex_count' = 0
              ELSE /\ builder_' = builder_
                   /\ parse_state' = state /\ hex' = value /\ hex_count' = digits
<1> DEFINE d == (c \div (16 ^ (n - 1))) % 16
<1>1. /\ text # <<>> /\ Head(text) = HexDigit(d)
      /\ Tail(text) = Hex(c, n - 1) \o z
  BY NextDigit
<1>2. d \in 0..15 /\ hex * 16 + d = c \div (16 ^ (n - 1))
  BY DigitAppended
<1>3. HexDigit(d) \in 48..57 \cup 65..70 /\ HEX_TO_INT(HexDigit(d)) = d
  BY <1>2, DigitRange
<1>4. Branch(Head(text), parse_state) = "hexadecimal"
  BY <1>1, <1>3
<1>5. Consumed /\ Hexadecimal
  BY <1>1, <1>4, Rounds
<1>6. hex * 16 + HEX_TO_INT(Head(text)) = c \div (16 ^ (n - 1))
  BY <1>1, <1>2, <1>3
<1>7. text' = Hex(c, n - 1) \o z
  BY <1>1, <1>5 DEF Consumed
<1> QED BY <1>5, <1>6, <1>7 DEF Hexadecimal, Push

BeginsWith(y) ==
  /\ <<Solidus, LetterX, Solidus>> \o y # <<>>
  /\ Head(<<Solidus, LetterX, Solidus>> \o y) = Solidus
  /\ Tail(<<Solidus, LetterX, Solidus>> \o y) = <<LetterX, Solidus>> \o y
  /\ <<LetterX, Solidus>> \o y # <<>> /\ Head(<<LetterX, Solidus>> \o y) = LetterX
  /\ Tail(<<LetterX, Solidus>> \o y) = <<Solidus>> \o y
  /\ <<Solidus>> \o y # <<>> /\ Head(<<Solidus>> \o y) = Solidus /\ Tail(<<Solidus>> \o y) = y

LEMMA SolidusRead ==
  ASSUME NEW y \in Seq(Nat)
  PROVE BeginsWith(y)
<1>2. /\ <<Solidus, LetterX, Solidus>> \o y # <<>>
      /\ Head(<<Solidus, LetterX, Solidus>> \o y) = Solidus
      /\ Tail(<<Solidus, LetterX, Solidus>> \o y) = <<LetterX, Solidus>> \o y
  OBVIOUS
<1>3. /\ <<LetterX, Solidus>> \o y # <<>> /\ Head(<<LetterX, Solidus>> \o y) = LetterX
      /\ Tail(<<LetterX, Solidus>> \o y) = <<Solidus>> \o y
  OBVIOUS
<1>4. <<Solidus>> \o y # <<>> /\ Head(<<Solidus>> \o y) = Solidus /\ Tail(<<Solidus>> \o y) = y
  OBVIOUS
<1> QED BY <1>2, <1>3, <1>4 DEF BeginsWith

LEMMA StepArbitrary ==
  ASSUME IInv, Next, status = "reading", ~mistaken, AlphabetKnown, ReadingArbitrary
  PROVE DecoderInv'
<1> USE DEF NoDigits
<1>1. PICK c \in CodePoints : c < 256 /\ expected = <<c>> /\ ArbitraryAt(c)
  BY DEF ReadingArbitrary
<1>2. ~closed /\ ~in_extended /\ builder_ = <<>>
  BY DEF ReadingArbitrary
<1>3. c \in Nat
  BY CharactersAreNatural
<1>4. Hex(c, 2) \in Seq(Nat)
  BY <1>3, HexIsText
<1> DEFINE y == Hex(c, 2)
<1>5. y \in Seq(Nat)
  BY <1>4
<1> HIDE DEF y
<1>6. BeginsWith(y)
  BY <1>5, SolidusRead
<1>9. ASSUME Consumed, Kept, ArbitraryAt(c)' PROVE DecoderInv'
  <2>1. ReadingArbitrary'
    BY <1>1, <1>2, <1>9 DEF ReadingArbitrary, Kept, Consumed, SameString
  <2> QED BY <1>9, <2>1, GoesOnKept DEF Kept
<1>10. CASE NoDigits /\ parse_state = 0 /\ text = <<Solidus, LetterX, Solidus>> \o y
  <2>1. Head(text) = Solidus /\ text # <<>> /\ Tail(text) = <<LetterX, Solidus>> \o y
    BY <1>6, <1>10, Zenon DEF BeginsWith
  <2>2. Reads(FIRST_SOLIDUS)
    BY <1>10, <2>1, ReadsFirst
  <2>3. text' = <<LetterX, Solidus>> \o Hex(c, 2)
    BY <2>1, <2>2 DEF Reads, Consumed, y
  <2>4. ArbitraryAt(c)'
    BY <1>10, <2>2, <2>3 DEF ArbitraryAt, Reads
  <2> QED BY <1>9, <2>2, <2>4 DEF Reads
<1>11. CASE NoDigits /\ parse_state = FIRST_SOLIDUS /\ text = <<LetterX, Solidus>> \o y
  <2>1. Head(text) = LetterX /\ text # <<>> /\ Tail(text) = <<Solidus>> \o y
    BY <1>6, <1>11, Zenon DEF BeginsWith
  <2>2. Reads(FIRST_SOLIDUS + ARBITRARY)
    <3>1. parse_state = FIRST_SOLIDUS
      BY <1>11
    <3>2. Branch(LetterX, FIRST_SOLIDUS) = "flag" /\ Added(LetterX, FIRST_SOLIDUS) = ARBITRARY
      BY BranchOpen
    <3> QED BY <2>1, <3>1, <3>2, OneDefinition, ReadsFlag
  <2>3. text' = <<Solidus>> \o Hex(c, 2)
    BY <2>1, <2>2 DEF Reads, Consumed, y
  <2>4. ArbitraryAt(c)'
    BY <1>11, <2>2, <2>3 DEF ArbitraryAt, Reads
  <2> QED BY <1>9, <2>2, <2>4 DEF Reads
<1>12. CASE NoDigits /\ parse_state = FIRST_SOLIDUS + ARBITRARY /\ text = <<Solidus>> \o y
  <2>1. Head(text) = Solidus /\ text # <<>> /\ Tail(text) = y
    BY <1>6, <1>12, Zenon DEF BeginsWith
  <2>2. Reads(FIRST_SOLIDUS + ARBITRARY + SECOND_SOLIDUS)
    <3>1. parse_state = FIRST_SOLIDUS + ARBITRARY
      BY <1>12
    <3>2. /\ Branch(Solidus, FIRST_SOLIDUS + ARBITRARY) = "next solidus"
          /\ ~Finished(FIRST_SOLIDUS + ARBITRARY)
          /\ ~Has(FIRST_SOLIDUS + ARBITRARY, ENCOUNTERED_HEX)
      BY BranchOpen
    <3>3. Reads(IF Has(parse_state, ENCOUNTERED_HEX)
                THEN parse_state + THIRD_SOLIDUS - ENCOUNTERED_HEX
                ELSE parse_state + SECOND_SOLIDUS)
      BY <2>1, <3>1, <3>2, ReadsSolidus
    <3> QED BY <3>1, <3>2, <3>3
  <2>3. text' = Hex(c, 2)
    BY <2>1, <2>2 DEF Reads, Consumed, y
  <2>4. hex' = c \div (16 ^ 2) /\ hex_count' = 0
    BY <1>1, <1>12, <2>2, NothingBefore DEF Reads
  <2>5. parse_state' = FIRST_SOLIDUS + ARBITRARY + SECOND_SOLIDUS + HexRead(0)
    BY <2>2, FlagValues, HexReadValues, SMT DEF Reads
  <2>6. ArbitraryAt(c)'
    BY <2>3, <2>4, <2>5 DEF ArbitraryAt
  <2> QED BY <1>9, <2>2, <2>6 DEF Reads
<1>13. ASSUME NEW n \in {1, 2}, hex_count = 2 - n, hex = c \div (16 ^ n), text = Hex(c, n),
              parse_state = FIRST_SOLIDUS + ARBITRARY + SECOND_SOLIDUS + HexRead(2 - n)
       PROVE DecoderInv'
  <2>1. n \in 1..8 /\ n \in 0..8 /\ n - 1 \in 0..8 /\ 2 - n \in {0, 1}
    OBVIOUS
  <2>2. Hex(c, n) \o <<>> = Hex(c, n) /\ Hex(c, n - 1) \o <<>> = Hex(c, n - 1)
    <3>1. Hex(c, n) \in Seq(Nat) /\ Hex(c, n - 1) \in Seq(Nat)
      BY <1>3, <2>1, HexIsText
    <3> QED BY <3>1, ConcatEmptySeq
  <2>3. /\ \A d \in 48..57 \cup 65..70 : Branch(d, parse_state) = "hexadecimal"
        /\ ~Has(parse_state, EXTENDED2)
    BY <1>13, <2>1, BranchArbitrary
  <2> DEFINE value == c \div (16 ^ (n - 1))
             state == parse_state + HEX(hex_count + 1)
  <2>4. /\ Consumed /\ codepage' = codepage /\ text' = Hex(c, n - 1) \o <<>>
        /\ IF \/ hex_count + 1 = 2 /\ ~Has(parse_state, EXTENDED2)
              \/ hex_count + 1 = 4 /\ ~Has(parse_state, EXTENDED4)
              \/ hex_count + 1 = 8
           THEN /\ builder_' = Append(builder_, value)
                /\ parse_state' = AfterCharacter(state, hex_count + 1)
                /\ hex' = 0 /\ hex_count' = 0
           ELSE /\ builder_' = builder_
                /\ parse_state' = state /\ hex' = value /\ hex_count' = hex_count + 1
    <3>1. <<>> \in Seq(Nat) /\ text = Hex(c, n) \o <<>>
      BY <1>13, <2>2
    <3> QED BY <1>3, <1>13, <2>1, <2>3, <3>1, DigitRead
  <2>5. text' = Hex(c, n - 1)
    BY <2>2, <2>4
  <2>6. CASE n = 2
    <3>1. /\ builder_' = builder_ /\ parse_state' = parse_state + HEX(1)
          /\ hex' = c \div (16 ^ 1) /\ hex_count' = 1
      BY <1>13, <2>4, <2>6
    <3>2. parse_state' = FIRST_SOLIDUS + ARBITRARY + SECOND_SOLIDUS + HexRead(1)
      BY <1>13, <2>6, <3>1, FlagValues, HexFlagValues, HexReadValues, SMT
    <3>3. text' = Hex(c, 1)
      BY <2>5, <2>6
    <3>4. ArbitraryAt(c)'
      BY <3>1, <3>2, <3>3 DEF ArbitraryAt
    <3> QED BY <1>9, <2>4, <3>1, <3>4 DEF Kept
  <2>7. CASE n = 1
    <3>1. /\ builder_' = Append(builder_, c \div (16 ^ 0))
          /\ parse_state' = AfterCharacter(state, 2) /\ hex' = 0 /\ hex_count' = 0
      BY <1>13, <2>3, <2>4, <2>7
    <3>2. c \div (16 ^ 0) = c
      BY <1>3
    <3>3. builder_' = <<c>> /\ parse_state' = 0
      BY <1>2, <3>1, <3>2 DEF AfterCharacter
    <3>4. text' = <<>>
      BY <2>5, <2>7 DEF Hex
    <3>5. ReadAll'
      BY <1>1, <1>2, <2>4, <3>1, <3>3, <3>4 DEF ReadAll, Consumed, SameString
    <3> QED BY <2>4, <3>5, GoesOnKept
  <2> QED BY <2>6, <2>7
<1>14. CASE /\ hex_count \in {0, 1} /\ hex = c \div 16 ^ (2 - hex_count)
            /\ parse_state = FIRST_SOLIDUS + ARBITRARY + SECOND_SOLIDUS + HexRead(hex_count)
            /\ text = Hex(c, 2 - hex_count)
  <2>1. 2 - hex_count \in {1, 2} /\ 2 - (2 - hex_count) = hex_count
    BY <1>14
  <2> QED BY <1>13, <1>14, <2>1
<1> QED BY <1>1, <1>10, <1>11, <1>12, <1>14 DEF ArbitraryAt, y

LEMMA DigitsBefore ==
  /\ \A bytes \in {2, 4} : \A c \in WrittenWith(bytes) : Before(c, 2 * bytes) = 0
  /\ \A c \in CodePoints, n \in 0..8 : Before(c, n) = c \div (16 ^ n)
<1>1. ASSUME NEW c \in CodePoints PROVE Before(c, 8) = c \div (16 ^ 8)
  <2>1. c \div (16 ^ 8) = 0
    BY CodePointsAssumption, SMT
  <2> QED BY <2>1 DEF Before
<1>2. ASSUME NEW c \in CodePoints, NEW n \in 0..7 PROVE Before(c, n) = c \div (16 ^ n)
  BY DEF Before
<1>3. \A c \in CodePoints, n \in 0..8 : Before(c, n) = c \div (16 ^ n)
  <2>1. \A n \in 0..8 : n = 8 \/ n \in 0..7
    OBVIOUS
  <2> QED BY <1>1, <1>2, <2>1
<1>4. ASSUME NEW bytes \in {2, 4}, NEW c \in WrittenWith(bytes) PROVE Before(c, 2 * bytes) = 0
  <2>1. c \in CodePoints /\ 2 * bytes \in 0..8
    BY DEF WrittenWith
  <2>2. c \div (16 ^ (2 * bytes)) = 0
    BY <1>4, NothingBefore
  <2> QED BY <1>3, <2>1, <2>2
<1> QED BY <1>3, <1>4

LEMMA BeginsInExtended ==
  \A bytes \in {2, 4} :
    Extended(bytes) - SECOND_SOLIDUS + SECOND_SOLIDUS = Extended(bytes) + HexRead(0)
BY FlagValues, ExtendedValues, HexReadValues, SMT

OpensWith(b, y) ==
  /\ <<Solidus, LetterX, b, Solidus>> \o y # <<>>
  /\ Head(<<Solidus, LetterX, b, Solidus>> \o y) = Solidus
  /\ Tail(<<Solidus, LetterX, b, Solidus>> \o y) = <<LetterX, b, Solidus>> \o y
  /\ <<LetterX, b, Solidus>> \o y # <<>>
  /\ Head(<<LetterX, b, Solidus>> \o y) = LetterX
  /\ Tail(<<LetterX, b, Solidus>> \o y) = <<b, Solidus>> \o y
  /\ <<b, Solidus>> \o y # <<>> /\ Head(<<b, Solidus>> \o y) = b
  /\ Tail(<<b, Solidus>> \o y) = <<Solidus>> \o y
  /\ <<Solidus>> \o y # <<>> /\ Head(<<Solidus>> \o y) = Solidus
  /\ Tail(<<Solidus>> \o y) = y

LEMMA ExtendedText ==
  ASSUME NEW b \in Nat, NEW y \in Seq(Nat)
  PROVE OpensWith(b, y)
<1>2. /\ <<Solidus, LetterX, b, Solidus>> \o y # <<>>
      /\ Head(<<Solidus, LetterX, b, Solidus>> \o y) = Solidus
      /\ Tail(<<Solidus, LetterX, b, Solidus>> \o y) = <<LetterX, b, Solidus>> \o y
  OBVIOUS
<1>3. /\ <<LetterX, b, Solidus>> \o y # <<>>
      /\ Head(<<LetterX, b, Solidus>> \o y) = LetterX
      /\ Tail(<<LetterX, b, Solidus>> \o y) = <<b, Solidus>> \o y
  OBVIOUS
<1>4. /\ <<b, Solidus>> \o y # <<>> /\ Head(<<b, Solidus>> \o y) = b
      /\ Tail(<<b, Solidus>> \o y) = <<Solidus>> \o y
  OBVIOUS
<1>5. /\ <<Solidus>> \o y # <<>> /\ Head(<<Solidus>> \o y) = Solidus
      /\ Tail(<<Solidus>> \o y) = y
  OBVIOUS
<1> QED BY <1>2, <1>3, <1>4, <1>5 DEF OpensWith

(* A round at the beginning of a sequence, of which y follows. *)
LEMMA OpenRound ==
  ASSUME Next, status = "reading", NoDigits, NEW bytes \in {2, 4}, NEW y \in Seq(Nat),
         OpenAt(bytes, y)
  PROVE /\ Consumed /\ Kept /\ NoDigits'
        /\ \/ OpenAt(bytes, y)'
           \/ text' = y /\ parse_state' = Extended(bytes) + HexRead(0)
<1> USE DEF NoDigits
<1>0. OpensWith(Zero + bytes, y)
  <2>1. Zero + bytes \in Nat
    OBVIOUS
  <2> QED BY <2>1, ExtendedText
<1>1. CASE parse_state = 0 /\ text = OpenExtended(bytes) \o y
  <2>1. /\ Head(text) = Solidus /\ text # <<>>
        /\ Tail(text) = <<LetterX, Zero + bytes, Solidus>> \o y
    BY <1>0, <1>1, Zenon DEF OpensWith, OpenExtended
  <2>2. Reads(FIRST_SOLIDUS)
    BY <1>1, <2>1, ReadsFirst
  <2>3. text' = <<LetterX, Zero + bytes, Solidus>> \o y /\ parse_state' = FIRST_SOLIDUS
    BY <2>1, <2>2, Zenon DEF Reads, Consumed
  <2>4. OpenAt(bytes, y)'
    BY <2>3, Zenon DEF OpenAt
  <2> QED BY <2>2, <2>4 DEF Reads
<1>2. CASE parse_state = FIRST_SOLIDUS /\ text = <<LetterX, Zero + bytes, Solidus>> \o y
  <2>1. /\ Head(text) = LetterX /\ text # <<>>
        /\ Tail(text) = <<Zero + bytes, Solidus>> \o y
    BY <1>0, <1>2, Zenon DEF OpensWith
  <2>2. Reads(FIRST_SOLIDUS + ARBITRARY)
    <3>1. parse_state = FIRST_SOLIDUS
      BY <1>2
    <3>2. Branch(LetterX, FIRST_SOLIDUS) = "flag" /\ Added(LetterX, FIRST_SOLIDUS) = ARBITRARY
      BY BranchOpen
    <3> QED BY <2>1, <3>1, <3>2, OneDefinition, ReadsFlag
  <2>3. text' = <<Zero + bytes, Solidus>> \o y /\ parse_state' = FIRST_SOLIDUS + ARBITRARY
    BY <2>1, <2>2, Zenon DEF Reads, Consumed
  <2>4. OpenAt(bytes, y)'
    BY <2>3, Zenon DEF OpenAt
  <2> QED BY <2>2, <2>4 DEF Reads
<1>3. CASE parse_state = FIRST_SOLIDUS + ARBITRARY /\ text = <<Zero + bytes, Solidus>> \o y
  <2> DEFINE c == Zero + bytes
             s == FIRST_SOLIDUS + ARBITRARY
             f == Added(c, s)
  <2>1. /\ Head(text) = c /\ text # <<>>
        /\ Tail(text) = <<Solidus>> \o y
    BY <1>0, <1>3, Zenon DEF OpensWith
  <2>2. /\ Branch(c, s) = "flag" /\ s + f = Extended(bytes) - SECOND_SOLIDUS
        /\ parse_state = s /\ Added(c, s) = f
    BY <1>3, BranchOpenWith
  <2>5. f # ALPHABET_DEFINITION
    BY <2>2, FlagValues, ExtendedValues, SMT
  <2> HIDE DEF c, s, f
  <2>3. Reads(s + f)
    BY <2>1, <2>2, <2>5, ReadsFlag
  <2>6. text' = <<Solidus>> \o y /\ parse_state' = Extended(bytes) - SECOND_SOLIDUS
    BY <2>1, <2>2, <2>3, Zenon DEF Reads, Consumed
  <2>4. OpenAt(bytes, y)'
    BY <2>6, Zenon DEF OpenAt
  <2> QED BY <2>3, <2>4 DEF Reads
<1>4. CASE parse_state = Extended(bytes) - SECOND_SOLIDUS /\ text = <<Solidus>> \o y
  <2> DEFINE s == Extended(bytes) - SECOND_SOLIDUS
  <2>1. Head(text) = Solidus /\ text # <<>> /\ Tail(text) = y
    BY <1>0, <1>4, Zenon DEF OpensWith
  <2>2. /\ Branch(Solidus, s) = "next solidus" /\ ~Finished(s) /\ ~Has(s, ENCOUNTERED_HEX)
        /\ parse_state = s
    BY <1>4, BranchOpenWith
  <2>5. s + SECOND_SOLIDUS = Extended(bytes) + HexRead(0)
    BY BeginsInExtended
  <2> HIDE DEF s
  <2>3. Reads(IF Has(s, ENCOUNTERED_HEX) THEN s + THIRD_SOLIDUS - ENCOUNTERED_HEX
              ELSE s + SECOND_SOLIDUS)
    BY <2>1, <2>2, ReadsSolidus
  <2>4. Reads(Extended(bytes) + HexRead(0))
    BY <2>2, <2>3, <2>5
  <2> QED BY <2>1, <2>4 DEF Reads, Consumed
<1> QED BY <1>1, <1>2, <1>3, <1>4 DEF OpenAt

LEMMA StepOpen ==
  ASSUME IInv, Next, status = "reading", ~mistaken, AlphabetKnown, ReadingOpen
  PROVE DecoderInv'
<1>1. PICK bytes, c, z :
       /\ bytes \in {2, 4} /\ c \in WrittenWith(bytes) /\ z \in AfterDigits(bytes)
       /\ FollowsDigits(bytes, c, z) /\ OpenAt(bytes, Hex(c, 2 * bytes) \o z)
  BY Zenon DEF ReadingOpen
<1>2. NoDigits /\ ~closed /\ builder_ = <<>>
  BY DEF ReadingOpen
<1>3. c \in CodePoints /\ c \in Nat /\ z \in Seq(Nat)
  BY <1>1, CharactersAreNatural, RestIsText DEF WrittenWith
<1> DEFINE y == Hex(c, 2 * bytes) \o z
<1>4. y \in Seq(Nat)
  <2>1. Hex(c, 2 * bytes) \in Seq(Nat)
    BY <1>1, <1>3, PieceIsText
  <2> QED BY <1>3, <2>1
<1> HIDE DEF y
<1>5. OpenAt(bytes, y)
  BY <1>1 DEF y
<1>6. /\ Consumed /\ Kept /\ NoDigits'
      /\ \/ OpenAt(bytes, y)'
         \/ text' = y /\ parse_state' = Extended(bytes) + HexRead(0)
  BY <1>1, <1>2, <1>4, <1>5, OpenRound
<1>7. FollowsDigits(bytes, c, z)'
  BY <1>1, <1>6 DEF FollowsDigits, Kept, Consumed, SameString
<1>8. ~closed' /\ builder_' = <<>>
  BY <1>2, <1>6 DEF Kept, Consumed, SameString
<1>9. CASE OpenAt(bytes, y)'
  <2>1. OpenAt(bytes, Hex(c, 2 * bytes) \o z)'
    BY <1>9 DEF y
  <2>2. ReadingOpen'
    BY <1>1, <1>6, <1>7, <1>8, <2>1, Zenon DEF ReadingOpen
  <2> QED BY <1>6, <2>2, GoesOnKept DEF Kept
<1>10. CASE text' = y /\ parse_state' = Extended(bytes) + HexRead(0)
  <2>1. hex_count' = 0 /\ hex' = 0
    BY <1>6 DEF NoDigits
  <2>2. hex_count' \in 0..2 * bytes - 1 /\ 2 * bytes - hex_count' = 2 * bytes
    BY <1>1, <2>1
  <2>3. hex' = Before(c, 2 * bytes - hex_count')
    BY <1>1, <2>1, <2>2, DigitsBefore
  <2>4. text' = Hex(c, 2 * bytes - hex_count') \o z
    BY <1>10, <2>2 DEF y
  <2>5. parse_state' = Extended(bytes) + HexRead(hex_count')
    BY <1>10, <2>1
  <2>6. ReadingDigits'
    BY <1>1, <1>7, <1>8, <2>2, <2>3, <2>4, <2>5, Zenon DEF ReadingDigits
  <2> QED BY <1>6, <2>6, GoesOnKept DEF Kept
<1> QED BY <1>6, <1>9, <1>10

(* A round at the end of a sequence, after which y follows. *)
LEMMA CloseRound ==
  ASSUME Next, status = "reading", NoDigits, NEW bytes \in {2, 4}, NEW y \in Seq(Nat),
         CloseAt(bytes, y)
  PROVE /\ Consumed /\ Kept /\ NoDigits'
        /\ \/ CloseAt(bytes, y)'
           \/ text' = y /\ parse_state' = 0
<1> USE DEF NoDigits
<1>0. OpensWith(Zero, y)
  <2>1. Zero \in Nat
    OBVIOUS
  <2> QED BY <2>1, ExtendedText
<1> DEFINE s == Extended(bytes) + ENCOUNTERED_HEX
           t == Extended(bytes) + THIRD_SOLIDUS
           u == t + ENDEXTENDED_X
           v == u + ENDEXTENDED_0
<1>5. /\ Branch(Solidus, s) = "next solidus" /\ ~Finished(s) /\ Has(s, ENCOUNTERED_HEX)
      /\ Branch(LetterX, t) = "flag" /\ Added(LetterX, t) = ENDEXTENDED_X
      /\ Branch(Zero, u) = "flag" /\ Added(Zero, u) = ENDEXTENDED_0
      /\ Branch(Solidus, v) = "next solidus" /\ Finished(v)
  <2>1. Closes(bytes)
    BY BranchClose
  <2> QED BY <2>1 DEF Closes
<1>6. s + THIRD_SOLIDUS - ENCOUNTERED_HEX = t
  BY FlagValues, ExtendedValues, SMT
<1>7. t + ENDEXTENDED_X = u /\ u + ENDEXTENDED_0 = v
  OBVIOUS
<1>8. CloseAt(bytes, y)' <=>
        \/ parse_state' = s /\ text' = CloseExtended \o y
        \/ parse_state' = t /\ text' = <<LetterX, Zero, Solidus>> \o y
        \/ parse_state' = u /\ text' = <<Zero, Solidus>> \o y
        \/ parse_state' = v /\ text' = <<Solidus>> \o y
  BY Zenon DEF CloseAt
<1>9. \/ parse_state = s /\ text = CloseExtended \o y
      \/ parse_state = t /\ text = <<LetterX, Zero, Solidus>> \o y
      \/ parse_state = u /\ text = <<Zero, Solidus>> \o y
      \/ parse_state = v /\ text = <<Solidus>> \o y
  BY Zenon DEF CloseAt
<1> HIDE DEF s, t, u, v
<1>1. CASE parse_state = s /\ text = CloseExtended \o y
  <2>1. /\ Head(text) = Solidus /\ text # <<>> /\ Tail(text) = <<LetterX, Zero, Solidus>> \o y
    BY <1>0, <1>1, Zenon DEF OpensWith, CloseExtended
  <2>2. Reads(IF Has(s, ENCOUNTERED_HEX) THEN s + THIRD_SOLIDUS - ENCOUNTERED_HEX
              ELSE s + SECOND_SOLIDUS)
    BY <1>1, <1>5, <2>1, ReadsSolidus
  <2>3. Reads(t)
    BY <1>5, <1>6, <2>2
  <2>4. text' = <<LetterX, Zero, Solidus>> \o y /\ parse_state' = t
    BY <2>1, <2>3, Zenon DEF Reads, Consumed
  <2>5. CloseAt(bytes, y)'
    BY <1>8, <2>4, Zenon
  <2> QED BY <2>3, <2>5 DEF Reads
<1>2. CASE parse_state = t /\ text = <<LetterX, Zero, Solidus>> \o y
  <2>1. Head(text) = LetterX /\ text # <<>> /\ Tail(text) = <<Zero, Solidus>> \o y
    BY <1>0, <1>2, Zenon DEF OpensWith
  <2>2. Reads(t + ENDEXTENDED_X)
    BY <1>2, <1>5, <2>1, OneDefinition, ReadsFlag
  <2>3. Reads(u)
    BY <1>7, <2>2
  <2>4. text' = <<Zero, Solidus>> \o y /\ parse_state' = u
    BY <2>1, <2>3, Zenon DEF Reads, Consumed
  <2>5. CloseAt(bytes, y)'
    BY <1>8, <2>4, Zenon
  <2> QED BY <2>3, <2>5 DEF Reads
<1>3. CASE parse_state = u /\ text = <<Zero, Solidus>> \o y
  <2>1. Head(text) = Zero /\ text # <<>> /\ Tail(text) = <<Solidus>> \o y
    BY <1>0, <1>3, Zenon DEF OpensWith
  <2>2. Reads(u + ENDEXTENDED_0)
    BY <1>3, <1>5, <2>1, OneDefinition, ReadsFlag
  <2>3. Reads(v)
    BY <1>7, <2>2
  <2>4. text' = <<Solidus>> \o y /\ parse_state' = v
    BY <2>1, <2>3, Zenon DEF Reads, Consumed
  <2>5. CloseAt(bytes, y)'
    BY <1>8, <2>4, Zenon
  <2> QED BY <2>3, <2>5 DEF Reads
<1>4. CASE parse_state = v /\ text = <<Solidus>> \o y
  <2>1. Head(text) = Solidus /\ text # <<>> /\ Tail(text) = y
    BY <1>0, <1>4, Zenon DEF OpensWith
  <2>2. Finishes
    BY <1>4, <1>5, <2>1, ReadsLastSolidus
  <2>3. text' = y
    BY <2>1, <2>2 DEF Finishes, Consumed
  <2> QED BY <2>2, <2>3 DEF Finishes
<1> QED BY <1>9, <1>1, <1>2, <1>3, <1>4

LEMMA StepClose ==
  ASSUME IInv, Next, status = "reading", ~mistaken, AlphabetKnown, ReadingClose
  PROVE DecoderInv'
<1>1. PICK bytes \in {2, 4}, z \in AfterClose : FollowsClose(z) /\ CloseAt(bytes, z)
  BY Zenon DEF ReadingClose
<1>2. NoDigits /\ (closed \/ ~in_extended)
  BY DEF ReadingClose
<1>3. z \in Seq(Nat)
  BY RestIsText
<1>4. /\ Consumed /\ Kept /\ NoDigits'
      /\ \/ CloseAt(bytes, z)'
         \/ text' = z /\ parse_state' = 0
  BY <1>1, <1>2, <1>3, CloseRound
<1>5. FollowsClose(z)'
  BY <1>1, <1>4 DEF FollowsClose, Kept, Consumed, SameString
<1>6. (closed \/ ~in_extended)'
  BY <1>2, <1>4 DEF Consumed, SameString
<1>7. CASE CloseAt(bytes, z)'
  <2>1. ReadingClose'
    <3>1. z \in AfterClose'
      BY DEF AfterClose
    <3> QED BY <1>1, <1>4, <1>5, <1>6, <1>7, <3>1, Zenon DEF ReadingClose
  <2> QED BY <1>4, <2>1, GoesOnKept DEF Kept
<1>8. CASE text' = z /\ parse_state' = 0
  <2>1. CASE z = <<>> /\ ~closed /\ builder_ = expected
    <3>1. ReadAll'
      BY <1>2, <1>4, <1>8, <2>1 DEF ReadAll, Kept, Consumed, SameString
    <3> QED BY <1>4, <3>1, GoesOnKept DEF Kept
  <2>2. CASE ~closed /\ builder_ = <<>> /\ \E c \in CodePoints :
               within_spf_range(c) /\ z = Doubled(c) /\ expected = <<c>>
    <3>1. ReadingPlain'
      BY <1>2, <1>4, <1>8, <2>2 DEF ReadingPlain, Kept, Consumed, SameString
    <3> QED BY <1>4, <3>1, GoesOnKept DEF Kept
  <2>3. CASE z = Quote /\ closed /\ builder_ = <<>> /\ expected = <<>>
    <3>1. ReadingQuote'
      BY <1>4, <1>8, <2>3 DEF ReadingQuote, Kept, Consumed, SameString
    <3> QED BY <1>4, <3>1, GoesOnKept DEF Kept
  <2> QED BY <1>1, <2>1, <2>2, <2>3 DEF FollowsClose
<1> QED BY <1>4, <1>7, <1>8

(* While digits of a character are left, and after a digit but the last.    *)
LEMMA BranchDigits ==
  ASSUME NEW bytes \in {2, 4}, NEW e \in {0, ENCOUNTERED_HEX}, NEW k \in 0..7, k < 2 * bytes
  PROVE LET s == Extended(bytes) + e + HexRead(k)
        IN /\ \A d \in 48..57 \cup 65..70 : Branch(d, s) = "hexadecimal"
           /\ Has(s, EXTENDED2) /\ (bytes = 4 => Has(s, EXTENDED4))
           /\ bytes = 2 => ~Has(s, EXTENDED4)
<1>1. CASE bytes = 2
  BY <1>1, BranchDigits2
<1>2. CASE bytes = 4
  BY <1>2, BranchDigits4
<1> QED BY <1>1, <1>2

LEMMA DigitAdded ==
  ASSUME NEW bytes \in {2, 4}, NEW e \in {0, ENCOUNTERED_HEX}, NEW k \in 0..6
  PROVE Extended(bytes) + e + HexRead(k) + HEX(k + 1) = Extended(bytes) + e + HexRead(k + 1)
<1>1. Extended(bytes) \in Nat /\ e \in Nat
  BY FlagValues, ExtendedValues, SMT
<1>2. HexRead(k) \in Nat /\ HEX(k + 1) \in Nat /\ HexRead(k) + HEX(k + 1) = HexRead(k + 1)
  BY HexFlagValues, HexReadValues, SMT
<1> QED BY <1>1, <1>2

LEMMA ExtendedIsNatural ==
  \A bytes \in {2, 4}, k \in 0..7 :
    /\ Extended(bytes) \in Nat /\ HexRead(k) \in Nat
    /\ Extended(bytes) + 0 + HexRead(k) = Extended(bytes) + HexRead(k)
BY ExtendedValues, HexReadValues, SMT

LEMMA EncounteredIsNatural ==
  \A bytes \in {2, 4} :
    Extended(bytes) + ENCOUNTERED_HEX = Extended(bytes) + ENCOUNTERED_HEX + HexRead(0)
BY FlagValues, ExtendedValues, HexReadValues, SMT

LEMMA SecondCharacter ==
  ASSUME NEW c \in Nat, NEW d \in Nat
  PROVE Append(<<d>>, c) = <<d, c>>
<1> DEFINE s == Append(<<d>>, c)
           t == <<d, c>>
<1>1. <<d>> \in Seq(Nat) /\ t \in Seq(Nat)
  OBVIOUS
<1>2. s \in Seq(Nat) /\ Len(s) = 2 /\ s[1] = d /\ s[2] = c
  BY <1>1, AppendProperties
<1>3. Len(t) = 2 /\ t[1] = d /\ t[2] = c
  OBVIOUS
<1> HIDE DEF s, t
<1>4. \A i \in 1..2 : s[i] = t[i]
  BY <1>2, <1>3
<1> QED BY <1>1, <1>2, <1>3, <1>4, SeqEqual DEF s, t

LEMMA StepDigits ==
  ASSUME IInv, Next, status = "reading", ~mistaken, AlphabetKnown, ReadingDigits
  PROVE DecoderInv'
<1> USE DEF NoDigits
<1>1. PICK bytes, c, z :
       /\ bytes \in {2, 4} /\ c \in WrittenWith(bytes) /\ z \in AfterDigits(bytes)
       /\ FollowsDigits(bytes, c, z)
       /\ hex_count \in 0..2 * bytes - 1
       /\ hex = Before(c, 2 * bytes - hex_count)
       /\ \/ parse_state = Extended(bytes) + HexRead(hex_count) /\ builder_ = <<>>
          \/ parse_state = Extended(bytes) + ENCOUNTERED_HEX + HexRead(hex_count)
       /\ text = Hex(c, 2 * bytes - hex_count) \o z
  BY DEF ReadingDigits
<1>0. bytes \in {2, 4}
  BY <1>1
<1>2. ~closed
  BY DEF ReadingDigits
<1>3. c \in CodePoints /\ c \in Nat /\ z \in Seq(Nat)
  BY <1>1, CharactersAreNatural, RestIsText DEF WrittenWith
<1> DEFINE n == 2 * bytes - hex_count
<1>4. /\ n \in 1..8 /\ hex_count \in 0..7 /\ hex_count < 2 * bytes
      /\ 2 * bytes - (hex_count + 1) = n - 1
  BY <1>1
<1>5. PICK e \in {0, ENCOUNTERED_HEX} :
        /\ parse_state = Extended(bytes) + e + HexRead(hex_count)
        /\ e = 0 => builder_ = <<>>
  <2>1. CASE parse_state = Extended(bytes) + HexRead(hex_count) /\ builder_ = <<>>
    <3>1. parse_state = Extended(bytes) + 0 + HexRead(hex_count)
      BY <2>1, <1>0, <1>4, ExtendedIsNatural
    <3> QED BY <2>1, <3>1
  <2>2. CASE parse_state = Extended(bytes) + ENCOUNTERED_HEX + HexRead(hex_count)
    <3>1. ENCOUNTERED_HEX # 0
      BY FlagValues, SMT
    <3> QED BY <2>2, <3>1
  <2> QED BY <1>1, <2>1, <2>2
<1>6. /\ \A d \in 48..57 \cup 65..70 : Branch(d, parse_state) = "hexadecimal"
      /\ Has(parse_state, EXTENDED2) /\ (bytes = 4 => Has(parse_state, EXTENDED4))
      /\ bytes = 2 => ~Has(parse_state, EXTENDED4)
  <2>1. LET s == Extended(bytes) + e + HexRead(hex_count)
        IN /\ \A d \in 48..57 \cup 65..70 : Branch(d, s) = "hexadecimal"
           /\ Has(s, EXTENDED2) /\ (bytes = 4 => Has(s, EXTENDED4))
           /\ bytes = 2 => ~Has(s, EXTENDED4)
    BY <1>0, <1>4, BranchDigits
  <2> QED BY <1>5, <2>1
<1> DEFINE value == c \div (16 ^ (n - 1))
           state == parse_state + HEX(hex_count + 1)
<1>7. /\ Consumed /\ codepage' = codepage /\ text' = Hex(c, n - 1) \o z
      /\ IF \/ hex_count + 1 = 2 /\ ~Has(parse_state, EXTENDED2)
            \/ hex_count + 1 = 4 /\ ~Has(parse_state, EXTENDED4)
            \/ hex_count + 1 = 8
         THEN /\ builder_' = Append(builder_, value)
              /\ parse_state' = AfterCharacter(state, hex_count + 1)
              /\ hex' = 0 /\ hex_count' = 0
         ELSE /\ builder_' = builder_
              /\ parse_state' = state /\ hex' = value /\ hex_count' = hex_count + 1
  <2>1. text = Hex(c, n) \o z /\ hex = c \div (16 ^ n)
    <3>1. n \in 0..8
      BY <1>4
    <3> QED BY <1>1, <1>3, <3>1, DigitsBefore
  <2> HIDE DEF n
  <2> QED BY <1>3, <1>4, <1>6, <2>1, DigitRead
<1>8. AlphabetKnown'
  BY <1>7 DEF Consumed, SameString, AlphabetKnown
<1>9. CASE hex_count + 1 < 2 * bytes
  <2>1. /\ builder_' = builder_
        /\ parse_state' = state /\ hex' = value /\ hex_count' = hex_count + 1
    <3>1. /\ hex_count + 1 = 2 => Has(parse_state, EXTENDED2)
          /\ hex_count + 1 = 4 => Has(parse_state, EXTENDED4)
          /\ hex_count + 1 # 8
      BY <1>0, <1>4, <1>6, <1>9
    <3> QED BY <1>7, <3>1
  <2>8. hex_count \in 0..6
    BY <1>0, <1>4, <1>9
  <2>9. state = Extended(bytes) + e + HexRead(hex_count + 1)
    BY <1>0, <1>5, <2>8, DigitAdded
  <2>2. parse_state' = Extended(bytes) + e + HexRead(hex_count')
    BY <2>1, <2>9
  <2>3. \/ parse_state' = Extended(bytes) + HexRead(hex_count') /\ builder_' = <<>>
        \/ parse_state' = Extended(bytes) + ENCOUNTERED_HEX + HexRead(hex_count')
    <3>1. CASE e = 0
      <4>1. hex_count' \in 0..7
        BY <2>1, <2>8
      <4>2. Extended(bytes) + 0 + HexRead(hex_count') = Extended(bytes) + HexRead(hex_count')
        BY <1>0, <4>1, ExtendedIsNatural
      <4> QED BY <1>5, <2>1, <2>2, <3>1, <4>2
    <3>2. CASE e = ENCOUNTERED_HEX
      BY <2>2, <3>2
    <3> QED BY <3>1, <3>2
  <2>4. /\ hex_count' \in 0..2 * bytes - 1 /\ 2 * bytes - hex_count' = n - 1
    BY <1>1, <1>4, <1>9, <2>1
  <2>5. FollowsDigits(bytes, c, z)'
    BY <1>1, <1>7, <2>1 DEF FollowsDigits, Consumed, SameString
  <2>6. hex' = Before(c, 2 * bytes - hex_count') /\ text' = Hex(c, 2 * bytes - hex_count') \o z
    <3>1. n - 1 \in 0..8
      BY <1>4
    <3>2. Before(c, n - 1) = value
      BY <1>3, <3>1, DigitsBefore
    <3> QED BY <1>7, <2>1, <2>4, <3>2
  <2>7. ReadingDigits'
    BY <1>1, <1>2, <1>7, <2>3, <2>4, <2>5, <2>6 DEF ReadingDigits, Consumed, SameString
  <2> QED BY <1>7, <1>8, <2>7, GoesOn DEF Consumed, IInv
<1>10. CASE hex_count + 1 = 2 * bytes
  <2>1. n = 1 /\ n - 1 = 0 /\ hex_count = 2 * bytes - 1
    BY <1>1, <1>10
  <2>2. /\ builder_' = Append(builder_, value)
        /\ parse_state' = AfterCharacter(state, 2 * bytes)
        /\ hex' = 0 /\ hex_count' = 0
    <3>1. /\ bytes = 2 => hex_count + 1 = 4 /\ ~Has(parse_state, EXTENDED4)
          /\ bytes = 4 => hex_count + 1 = 8
      BY <1>0, <1>6, <1>10
    <3>2. \/ hex_count + 1 = 4 /\ ~Has(parse_state, EXTENDED4)
          \/ hex_count + 1 = 8
      BY <1>0, <3>1
    <3> QED BY <1>7, <1>10, <3>2
  <2>3. parse_state' = Extended(bytes) + ENCOUNTERED_HEX
    BY <1>1, <1>5, <1>10, <2>1, <2>2, AfterLastDigit
  <2>4. value = c /\ text' = z
    <3>1. c \div (16 ^ 0) = c
      BY <1>3
    <3>2. Hex(c, 0) \o z = z
      BY <1>3, NoDigitLeft
    <3> QED BY <1>7, <2>1, <3>1, <3>2
  <2>5. CASE in_extended /\ bytes = num_bytes /\ z = <<>> /\ builder_ = <<>> /\ expected = <<c>>
    <3>1. builder_' = <<c>>
      BY <2>2, <2>4, <2>5
    <3>2. ReadAll'
      BY <1>2, <1>7, <2>2, <2>3, <2>4, <2>5, <3>1 DEF ReadAll, Consumed, SameString
    <3> QED BY <1>7, <1>8, <3>2, GoesOn DEF Consumed, IInv
  <2>6. ASSUME ~in_extended, builder_ = <<>>, NEW d \in WrittenWith(bytes),
               expected = <<c, d>>, z = Hex(d, 2 * bytes) \o CloseExtended
        PROVE DecoderInv'
    <3>1. builder_' = <<c>>
      BY <2>2, <2>4, <2>6
    <3>2. FollowsDigits(bytes, d, CloseExtended)'
      BY <1>3, <1>7, <2>6, <3>1 DEF FollowsDigits, Consumed, SameString
    <3>3. /\ hex_count' \in 0..2 * bytes - 1 /\ 2 * bytes - hex_count' = 2 * bytes
          /\ hex_count' = 0
      BY <1>1, <2>2
    <3>4. Before(d, 2 * bytes) = 0
      BY <1>0, <2>6, DigitsBefore
    <3>5. hex' = Before(d, 2 * bytes - hex_count')
      BY <2>2, <3>3, <3>4
    <3>6. text' = Hex(d, 2 * bytes - hex_count') \o CloseExtended
      BY <2>4, <2>6, <3>3
    <3>7. parse_state' = Extended(bytes) + ENCOUNTERED_HEX + HexRead(hex_count')
      BY <1>1, <2>3, <3>3, EncounteredIsNatural
    <3>8. CloseExtended \in AfterDigits(bytes)
      BY DEF AfterDigits
    <3>9. ReadingDigits'
      BY <1>1, <1>2, <1>7, <2>6, <3>2, <3>3, <3>5, <3>6, <3>7, <3>8
      DEF ReadingDigits, Consumed, SameString
    <3> QED BY <1>7, <1>8, <3>9, GoesOn DEF Consumed, IInv
  <2>7. ASSUME ~in_extended, z = CloseExtended, NEW d \in CodePoints,
               builder_ = <<d>>, expected = <<d, c>>
        PROVE DecoderInv'
    <3>1. builder_' = <<d, c>>
      <4>1. builder_' = Append(<<d>>, c)
        BY <2>2, <2>4, <2>7
      <4>2. d \in Nat
        BY CharactersAreNatural
      <4>3. Append(<<d>>, c) = <<d, c>>
        BY <1>3, <4>2, SecondCharacter
      <4> QED BY <4>1, <4>3
    <3>2. text' = CloseExtended \o <<>>
      BY <2>4, <2>7 DEF CloseExtended
    <3>3. FollowsClose(<<>>)' /\ <<>> \in AfterClose'
      BY <1>2, <1>7, <2>7, <3>1 DEF FollowsClose, Consumed, SameString, AfterClose
    <3>4. CloseAt(bytes, <<>>)'
      BY <2>3, <3>2, Zenon DEF CloseAt
    <3>5. (closed \/ ~in_extended)' /\ NoDigits'
      BY <1>7, <2>2, <2>7 DEF Consumed, SameString
    <3>6. ReadingClose'
      BY <1>0, <3>3, <3>4, <3>5, Zenon DEF ReadingClose
    <3> QED BY <1>7, <1>8, <3>6, GoesOn DEF Consumed, IInv
  <2> QED BY <1>1, <2>5, <2>6, <2>7 DEF FollowsDigits
<1> QED BY <1>1, <1>4, <1>9, <1>10

------------------------------------------------------------------------------
(* Nothing is left to read only between two pieces. *)
LEMMA NothingLeft ==
  ASSUME IInv, text = <<>>
  PROVE status = "reading" /\ ~mistaken /\ AlphabetKnown /\ ReadAll
<1>0. ~ReadingMistake /\ ~ReadingPage
  BY DEF ReadingMistake, ReadingPage
<1>1. status = "reading" /\ ~mistaken
  BY <1>0 DEF IInv, Types, DecoderInv
<1>2. ~ReadingPlain /\ ~ReadingQuote
  BY DEF ReadingPlain, ReadingQuote, Doubled, Quote
<1>3. ~ReadingPage /\ ~ReadingDirective /\ ~ReadingAlphabet
  BY DEF ReadingPage, ReadingDirective, ReadingAlphabet
<1>4. ASSUME ReadingArbitrary PROVE FALSE
  <2>1. PICK c \in CodePoints : ArbitraryAt(c)
    BY <1>4, Zenon DEF ReadingArbitrary
  <2>2. c \in Nat
    BY CharactersAreNatural
  <2>3. Hex(c, 2) \in Seq(Nat)
    BY <2>2, HexIsText
  <2>4. CASE hex_count \in {0, 1} /\ text = Hex(c, 2 - hex_count)
    <3> DEFINE n == 2 - hex_count
    <3>1. n \in 0..8 /\ n # 0
      BY <2>4
    <3>2. text = Hex(c, n)
      BY <2>4
    <3> HIDE DEF n
    <3>3. Len(text) = n
      BY <2>2, <3>1, <3>2, HexIsText
    <3> QED BY <3>1, <3>3
  <2> DEFINE y == Hex(c, 2)
  <2>5. y \in Seq(Nat)
    BY <2>3
  <2>6. \/ text = <<Solidus, LetterX, Solidus>> \o y
        \/ text = <<LetterX, Solidus>> \o y
        \/ text = <<Solidus>> \o y
        \/ hex_count \in {0, 1} /\ text = Hex(c, 2 - hex_count)
    BY <2>1, Zenon DEF ArbitraryAt
  <2> HIDE DEF y
  <2>7. BeginsWith(y)
    BY <2>5, SolidusRead
  <2> QED BY <2>4, <2>6, <2>7, Zenon DEF BeginsWith
<1>5. ASSUME ReadingOpen PROVE FALSE
  <2>1. PICK bytes, c, z :
         /\ bytes \in {2, 4} /\ c \in WrittenWith(bytes) /\ z \in AfterDigits(bytes)
         /\ OpenAt(bytes, Hex(c, 2 * bytes) \o z)
    BY <1>5, Zenon DEF ReadingOpen
  <2>2. c \in Nat /\ z \in Seq(Nat)
    BY <2>1, CharactersAreNatural, RestIsText DEF WrittenWith
  <2>3. Hex(c, 2 * bytes) \in Seq(Nat)
    BY <2>1, <2>2, PieceIsText
  <2> DEFINE y == Hex(c, 2 * bytes) \o z
  <2>4. y \in Seq(Nat)
    BY <2>2, <2>3
  <2>5. OpenAt(bytes, y)
    BY <2>1
  <2> HIDE DEF y
  <2>6. Zero + bytes \in Nat
    BY <2>1
  <2>7. OpensWith(Zero + bytes, y)
    BY <2>4, <2>6, ExtendedText
  <2> QED BY <2>5, <2>7, Zenon DEF OpenAt, OpensWith, OpenExtended
<1>6. ASSUME ReadingDigits PROVE FALSE
  <2>1. PICK bytes, c, z :
         /\ bytes \in {2, 4} /\ c \in WrittenWith(bytes) /\ z \in AfterDigits(bytes)
         /\ hex_count \in 0..2 * bytes - 1
         /\ text = Hex(c, 2 * bytes - hex_count) \o z
    BY <1>6, Zenon DEF ReadingDigits
  <2>2. c \in Nat /\ z \in Seq(Nat)
    BY <2>1, CharactersAreNatural, RestIsText DEF WrittenWith
  <2> DEFINE n == 2 * bytes - hex_count
  <2>3. n \in 1..8
    BY <2>1
  <2>4. text = Hex(c, n) \o z
    BY <2>1
  <2> HIDE DEF n
  <2>5. Hex(c, n) \o z # <<>>
    BY <2>2, <2>3, NextDigit
  <2> QED BY <2>4, <2>5
<1>7. ASSUME ReadingClose PROVE FALSE
  <2>1. PICK bytes, z : z \in AfterClose /\ CloseAt(bytes, z)
    BY <1>7, Zenon DEF ReadingClose
  <2>2. z \in Seq(Nat)
    BY <2>1, RestIsText
  <2>3. Zero \in Nat
    OBVIOUS
  <2>4. OpensWith(Zero, z)
    BY <2>2, <2>3, ExtendedText
  <2> QED BY <2>1, <2>4, Zenon DEF CloseAt, OpensWith, CloseExtended
<1> QED BY <1>1, <1>2, <1>3, <1>4, <1>5, <1>6, <1>7 DEF IInv, DecoderInv

LEMMA PieceBegins ==
  ASSUME ~mistaken', writer' = "other" => ~in_extended', status' = "reading",
         \/ ReadingAlphabet'
         \/ /\ AlphabetKnown'
            /\ \/ ReadAll' \/ ReadingPlain' \/ ReadingQuote' \/ ReadingPage' \/ ReadingDirective'
               \/ ReadingArbitrary' \/ ReadingOpen' \/ ReadingDigits' \/ ReadingClose'
  PROVE DecoderInv'
BY DEF DecoderInv

LEMMA StepEncode ==
  ASSUME IInv, NEW c \in CodePoints, Encode(c)
  PROVE DecoderInv'
<1> USE DEF NoDigits
<1>1. /\ text = <<>> /\ ~closed /\ text' = Encoded(c) /\ expected' = <<c>> /\ builder_' = <<>>
      /\ UNCHANGED <<reader, writer, num_bytes, parse_state, hex, hex_count, codepage, status>>
      /\ UNCHANGED <<page, closed, mistaken>>
      /\ writer = "encoder" /\ (num_bytes = 2 => c < 65536)
  BY DEF Encode, Write
<1>10. in_extended' <=> ~within_spf_range(c)
  <2>1. in_extended' = ~within_spf_range(c)
    BY DEF Encode
  <2>2. CASE within_spf_range(c)
    <3>1. in_extended' = FALSE
      BY <2>1, <2>2, Zenon
    <3> QED BY <2>2, <3>1, Zenon
  <2>3. CASE ~within_spf_range(c)
    <3>1. in_extended' = TRUE
      BY <2>1, <2>3, Zenon
    <3> QED BY <2>3, <3>1, Zenon
  <2> QED BY <2>2, <2>3
<1>2. /\ status = "reading" /\ ~mistaken /\ AlphabetKnown
      /\ NoDigits /\ ~closed
      /\ parse_state = IF in_extended THEN Extended(num_bytes) + ENCOUNTERED_HEX ELSE 0
  BY <1>1, NothingLeft DEF ReadAll
<1>3. num_bytes \in {2, 4} /\ c \in WrittenWith(num_bytes) /\ c \in Nat
  BY <1>1, CharactersAreNatural DEF IInv, Types, WrittenWith
<1>9. /\ hex' = 0 /\ hex_count' = 0 /\ ~closed' /\ num_bytes' = num_bytes
      /\ parse_state' = parse_state
  BY <1>1, <1>2
<1>4. AlphabetKnown' /\ status' = "reading" /\ ~mistaken' /\ writer' # "other"
  BY <1>1, <1>2 DEF AlphabetKnown
<1>5. Doubled(c) \in Seq(Nat) /\ Hex(c, 2 * num_bytes) \in Seq(Nat)
  BY <1>3, PieceIsText
<1>6. CASE within_spf_range(c) /\ in_extended
  <2>1. text' = CloseExtended \o Doubled(c) /\ Doubled(c) \in AfterClose
    BY <1>1, <1>6 DEF Encoded, AfterClose
  <2>2. FollowsClose(Doubled(c))'
    BY <1>1, <1>2, <1>6 DEF FollowsClose
  <2>4. ~in_extended' /\ parse_state' = Extended(num_bytes) + ENCOUNTERED_HEX
    BY <1>2, <1>6, <1>9, <1>10, Zenon
  <2>3. ReadingClose'
    <3>1. CloseAt(num_bytes, Doubled(c))'
      BY <1>9, <2>1, <2>4, Zenon DEF CloseAt
    <3>2. Doubled(c) \in AfterClose'
      BY Zenon DEF AfterClose
    <3>3. num_bytes' \in {2, 4}
      BY <1>3, <1>9
    <3> QED BY <1>9, <2>2, <2>4, <3>1, <3>2, <3>3, Zenon DEF ReadingClose
  <2> QED BY <1>4, <2>3, PieceBegins
<1>7. CASE within_spf_range(c) /\ ~in_extended
  <2>1. text' = Doubled(c)
    BY <1>1, <1>5, <1>7, ConcatEmptySeq DEF Encoded
  <2>3. ~in_extended' /\ parse_state' = 0
    BY <1>2, <1>7, <1>9, <1>10, Zenon
  <2>2. ReadingPlain'
    BY <1>1, <1>7, <1>9, <2>1, <2>3 DEF ReadingPlain
  <2> QED BY <1>4, <2>2, PieceBegins
<1>8. CASE ~within_spf_range(c)
  <2>1. Hex(c, 2 * num_bytes) \o <<>> = Hex(c, 2 * num_bytes)
    BY <1>5, ConcatEmptySeq
  <2>5. in_extended'
    BY <1>8, <1>10, Zenon
  <2>2. FollowsDigits(num_bytes, c, <<>>)' /\ (<<>> \in AfterDigits(num_bytes))'
    <3>1. <<>> \in AfterDigits(num_bytes)'
      BY Zenon DEF AfterDigits
    <3> QED BY <1>1, <1>9, <2>5, <3>1 DEF FollowsDigits
  <2>3. CASE in_extended
    <3>1. text' = Hex(c, 2 * num_bytes)
      BY <1>1, <1>5, <1>8, <2>3, ConcatEmptySeq DEF Encoded
    <3>2. /\ hex_count' = 0 /\ hex_count' \in 0..2 * num_bytes - 1
          /\ 2 * num_bytes - hex_count' = 2 * num_bytes
      BY <1>1, <1>2, <1>3
    <3>3. text' = Hex(c, 2 * num_bytes - hex_count') \o <<>>
      BY <2>1, <3>1, <3>2
    <3>4. Before(c, 2 * num_bytes) = 0
      BY <1>3, DigitsBefore
    <3>5. hex' = Before(c, 2 * num_bytes - hex_count')
      BY <1>1, <1>2, <3>2, <3>4
    <3>6. parse_state' = Extended(num_bytes) + ENCOUNTERED_HEX + HexRead(hex_count')
      BY <1>1, <1>2, <1>3, <2>3, <3>2, EncounteredIsNatural
    <3>7. ReadingDigits'
      BY <1>3, <1>9, <2>2, <3>2, <3>3, <3>5, <3>6, Zenon DEF ReadingDigits
    <3> QED BY <1>4, <3>7, PieceBegins
  <2>4. CASE ~in_extended
    <3>1. text' = OpenExtended(num_bytes) \o (Hex(c, 2 * num_bytes) \o <<>>)
      BY <1>1, <1>8, <2>1, <2>4 DEF Encoded
    <3>3. parse_state' = 0
      BY <1>2, <1>9, <2>4, Zenon
    <3>2. ReadingOpen'
      <4>1. builder_' = <<>>
        BY <1>1
      <4>2. OpenAt(num_bytes, Hex(c, 2 * num_bytes) \o <<>>)'
        BY <1>9, <3>1, <3>3, Zenon DEF OpenAt
      <4> QED BY <1>3, <1>9, <2>2, <4>1, <4>2, Zenon DEF ReadingOpen
    <3> QED BY <1>4, <3>2, PieceBegins
  <2> QED BY <2>3, <2>4
<1> QED BY <1>6, <1>7, <1>8

LEMMA StepEncodeEnd ==
  ASSUME IInv, EncodeEnd
  PROVE DecoderInv'
<1> USE DEF NoDigits
<1>1. /\ text = <<>> /\ text' = (IF in_extended THEN CloseExtended ELSE <<>>) \o Quote
      /\ expected' = <<>> /\ builder_' = <<>> /\ closed' = TRUE
      /\ UNCHANGED <<reader, writer, num_bytes, parse_state, hex, hex_count, codepage, status>>
      /\ UNCHANGED <<in_extended, page, mistaken>> /\ writer = "encoder"
  BY DEF EncodeEnd, Write
<1>2. /\ status = "reading" /\ ~mistaken /\ AlphabetKnown
      /\ NoDigits /\ ~closed
      /\ parse_state = IF in_extended THEN Extended(num_bytes) + ENCOUNTERED_HEX ELSE 0
  BY <1>1, NothingLeft DEF ReadAll
<1>3. num_bytes \in {2, 4}
  BY DEF IInv, Types
<1>4. AlphabetKnown' /\ status' = "reading" /\ ~mistaken' /\ writer' # "other"
  BY <1>1, <1>2 DEF AlphabetKnown
<1>5. hex' = 0 /\ hex_count' = 0 /\ closed' /\ parse_state' = parse_state
  BY <1>1, <1>2
<1>6. CASE in_extended
  <2>1. text' = CloseExtended \o Quote /\ Quote \in AfterClose
    BY <1>1, <1>6 DEF AfterClose
  <2>2. FollowsClose(Quote)'
    BY <1>1, <1>5 DEF FollowsClose
  <2>3. parse_state' = Extended(num_bytes) + ENCOUNTERED_HEX
    BY <1>2, <1>5, <1>6, Zenon
  <2>4. ReadingClose'
    <3>1. CloseAt(num_bytes, Quote)'
      BY <1>1, <2>1, <2>3, Zenon DEF CloseAt
    <3>2. Quote \in AfterClose'
      BY Zenon DEF AfterClose
    <3>3. num_bytes' \in {2, 4}
      BY <1>1, <1>3
    <3> QED BY <1>5, <2>2, <3>1, <3>2, <3>3, Zenon DEF ReadingClose
  <2> QED BY <1>4, <2>4, PieceBegins
<1>7. CASE ~in_extended
  <2>1. text' = Quote
    BY <1>1, <1>7, ConcatEmptySeq DEF Quote
  <2>2. parse_state' = 0
    BY <1>2, <1>5, <1>7, Zenon
  <2>3. ReadingQuote'
    BY <1>1, <1>5, <2>1, <2>2 DEF ReadingQuote
  <2> QED BY <1>4, <2>3, PieceBegins
<1> QED BY <1>6, <1>7

(* Every piece of another application begins outside. *)
Outside ==
  /\ status = "reading" /\ ~mistaken /\ ~in_extended /\ NoDigits
  /\ parse_state = 0 /\ builder_ = <<>>

LEMMA OtherBegins ==
  ASSUME IInv, writer = "other", NEW piece, NEW characters, Write(piece, characters),
         UNCHANGED in_extended
  PROVE /\ ~mistaken /\ ~closed /\ text' = piece /\ expected' = characters
        /\ page' = page => AlphabetKnown'
        /\ ~mistaken' => Outside'
        /\ status' = "reading" /\ NoDigits' /\ parse_state' = 0 /\ builder_' = <<>>
        /\ ~in_extended'
<1> USE DEF NoDigits
<1>1. /\ text = <<>> /\ text' = piece /\ expected' = characters /\ builder_' = <<>>
      /\ UNCHANGED <<reader, writer, num_bytes, parse_state, hex, hex_count, codepage, status>>
  BY DEF Write
<1>2. /\ status = "reading" /\ ~mistaken /\ AlphabetKnown /\ NoDigits /\ ~closed
      /\ parse_state = IF in_extended THEN Extended(num_bytes) + ENCOUNTERED_HEX ELSE 0
  BY <1>1, NothingLeft DEF ReadAll
<1>3. ~in_extended
  BY DEF IInv, DecoderInv
<1>4. parse_state = 0
  BY <1>2, <1>3, Zenon
<1>5. page' = page => AlphabetKnown'
  BY <1>1, <1>2 DEF AlphabetKnown
<1>6. ~in_extended'
  BY <1>3
<1> QED BY <1>1, <1>2, <1>4, <1>5, <1>6 DEF Outside

LEMMA PieceOfOther ==
  ASSUME Outside',
         \/ ReadingAlphabet'
         \/ /\ AlphabetKnown'
            /\ \/ ReadAll' \/ ReadingPlain' \/ ReadingQuote' \/ ReadingPage' \/ ReadingDirective'
               \/ ReadingArbitrary' \/ ReadingOpen' \/ ReadingDigits' \/ ReadingClose'
  PROVE DecoderInv'
BY PieceBegins DEF Outside

LEMMA StepOther ==
  ASSUME IInv, NEW piece, NEW characters, Other(piece, characters)
  PROVE /\ Outside' /\ ~closed' /\ text' = piece /\ expected' = characters
        /\ page' = page => AlphabetKnown'
<1>1. writer = "other" /\ Write(piece, characters) /\ UNCHANGED <<in_extended, closed, mistaken>>
  BY DEF Other
<1>2. UNCHANGED in_extended
  BY <1>1
<1>3. /\ ~mistaken /\ ~closed /\ text' = piece /\ expected' = characters
      /\ page' = page => AlphabetKnown'
      /\ ~mistaken' => Outside'
  BY <1>1, <1>2, OtherBegins
<1> QED BY <1>1, <1>3

LEMMA StepOtherPlain ==
  ASSUME IInv, NEW c \in CodePoints, OtherPlain(c)
  PROVE DecoderInv'
<1>1. Other(Doubled(c), <<c>>) /\ page' = page /\ within_spf_range(c)
  BY DEF OtherPlain
<1>2. Outside' /\ ~closed' /\ text' = Doubled(c) /\ expected' = <<c>> /\ AlphabetKnown'
  BY <1>1, StepOther
<1>3. ReadingPlain'
  BY <1>1, <1>2 DEF ReadingPlain, Outside
<1> QED BY <1>2, <1>3, PieceOfOther

LEMMA StepOtherPage ==
  ASSUME IInv, NEW c \in PageChars, OtherPage(c)
  PROVE DecoderInv' /\ ReadingPage' /\ AlphabetKnown' /\ ~mistaken'
<1> DEFINE piece == <<Solidus, LetterS, Solidus, c>>
           characters == <<convert_codepage(page, c + 128)>>
<1>1. Other(piece, characters) /\ page' = page
  BY DEF OtherPage
<1> HIDE DEF piece, characters
<1>2. Outside' /\ ~closed' /\ text' = piece /\ expected' = characters /\ AlphabetKnown'
  BY <1>1, StepOther
<1>3. characters = <<convert_codepage(page', c + 128)>>
  BY <1>1 DEF characters
<1>4. ReadingPage'
  BY <1>2, <1>3 DEF ReadingPage, Outside, piece
<1>5. DecoderInv'
  BY <1>2, <1>4, PieceOfOther
<1> QED BY <1>2, <1>4, <1>5 DEF Outside

LEMMA StepOtherArbitrary ==
  ASSUME IInv, NEW c \in CodePoints, OtherArbitrary(c)
  PROVE DecoderInv'
<1> DEFINE piece == <<Solidus, LetterX, Solidus>> \o Hex(c, 2)
<1>1. Other(piece, <<c>>) /\ page' = page /\ c < 256
  BY DEF OtherArbitrary
<1> HIDE DEF piece
<1>2. Outside' /\ ~closed' /\ text' = piece /\ expected' = <<c>> /\ AlphabetKnown'
  BY <1>1, StepOther
<1>3. ReadingArbitrary'
  <2>1. ~in_extended' /\ NoDigits' /\ parse_state' = 0 /\ builder_' = <<>>
    BY <1>2 DEF Outside
  <2>2. ArbitraryAt(c)'
    BY <1>2, <2>1, Zenon DEF ArbitraryAt, piece
  <2> QED BY <1>1, <1>2, <2>1, <2>2 DEF ReadingArbitrary
<1> QED BY <1>2, <1>3, PieceOfOther

LEMMA Associative ==
  ASSUME NEW a \in Seq(Nat), NEW b \in Seq(Nat), NEW c \in Seq(Nat)
  PROVE (a \o b) \o c = a \o (b \o c)
BY ConcatAssociative, SMTT(60)

LEMMA ExtendedPiece ==
  ASSUME NEW c \in Nat, NEW d \in Nat, NEW bytes \in {2, 4}
  PROVE OpenExtended(bytes) \o Hex(c, 2 * bytes) \o Hex(d, 2 * bytes) \o CloseExtended
          = OpenExtended(bytes) \o (Hex(c, 2 * bytes) \o (Hex(d, 2 * bytes) \o CloseExtended))
<1> DEFINE u == OpenExtended(bytes)
           v == Hex(c, 2 * bytes)
           w == Hex(d, 2 * bytes)
           x == CloseExtended
           uv == u \o v
           wx == w \o x
<1>1. u \in Seq(Nat) /\ v \in Seq(Nat)
  BY PieceIsText
<1>2. w \in Seq(Nat) /\ x \in Seq(Nat)
  BY PieceIsText
<1> HIDE DEF u, v, w, x
<1>3. uv \in Seq(Nat)
  BY <1>1, ConcatProperties
<1>4. wx \in Seq(Nat)
  BY <1>2, ConcatProperties
<1>5. uv \o w \o x = uv \o wx
  <2> HIDE DEF uv
  <2> QED BY <1>2, <1>3, Associative
<1>6. uv \o wx = u \o (v \o wx)
  <2> HIDE DEF wx
  <2> QED BY <1>1, <1>4, Associative
<1> QED BY <1>5, <1>6 DEF u, v, w, x

LEMMA StepOtherExtended ==
  ASSUME IInv, NEW c \in CodePoints, NEW d \in CodePoints, NEW bytes \in {2, 4},
         OtherExtended(bytes, c, d)
  PROVE DecoderInv'
<1> DEFINE z == Hex(d, 2 * bytes) \o CloseExtended
           piece == OpenExtended(bytes) \o Hex(c, 2 * bytes) \o Hex(d, 2 * bytes) \o CloseExtended
<1>1. Other(piece, <<c, d>>) /\ page' = page
      /\ c \in WrittenWith(bytes) /\ d \in WrittenWith(bytes)
  BY DEF OtherExtended, WrittenWith
<1>2. piece = OpenExtended(bytes) \o (Hex(c, 2 * bytes) \o z)
  <2>1. c \in Nat /\ d \in Nat
    BY CharactersAreNatural
  <2> QED BY <2>1, ExtendedPiece
<1> HIDE DEF piece, z
<1>3. Outside' /\ ~closed' /\ text' = piece /\ expected' = <<c, d>> /\ AlphabetKnown'
  BY <1>1, StepOther
<1>4. z \in AfterDigits(bytes)
  BY <1>1 DEF z, AfterDigits
<1>5. FollowsDigits(bytes, c, z)'
  BY <1>1, <1>3 DEF FollowsDigits, Outside, z
<1>6. ReadingOpen'
  <2>1. ~in_extended' /\ hex' = 0 /\ hex_count' = 0 /\ parse_state' = 0 /\ builder_' = <<>>
    BY <1>3 DEF Outside, NoDigits
  <2>2. OpenAt(bytes, Hex(c, 2 * bytes) \o z)'
    BY <1>2, <1>3, <2>1, Zenon DEF OpenAt
  <2>3. z \in AfterDigits(bytes)'
    BY <1>4
  <2> QED BY <1>1, <1>3, <1>5, <2>1, <2>2, <2>3, Zenon DEF ReadingOpen, NoDigits
<1> QED BY <1>3, <1>6, PieceOfOther

LEMMA StepOtherDirective ==
  ASSUME IInv, NEW letter \in {LetterN, LetterF}, OtherDirective(letter)
  PROVE DecoderInv'
<1> DEFINE piece == <<Solidus, letter, Solidus>>
<1>1. Other(piece, <<>>) /\ page' = page
  BY DEF OtherDirective
<1> HIDE DEF piece
<1>2. Outside' /\ ~closed' /\ text' = piece /\ expected' = <<>> /\ AlphabetKnown'
  BY <1>1, StepOther
<1>3. ReadingDirective'
  BY <1>1, <1>2 DEF ReadingDirective, Outside, piece
<1> QED BY <1>2, <1>3, PieceOfOther

LEMMA StepOtherAlphabet ==
  ASSUME IInv, NEW p \in Pages, OtherAlphabet(p)
  PROVE DecoderInv'
<1> DEFINE piece == <<Solidus, LetterP, LetterA + p - 1, Solidus>>
<1>1. Other(piece, <<>>) /\ page' = p
  BY DEF OtherAlphabet
<1> HIDE DEF piece
<1>2. Outside' /\ ~closed' /\ text' = piece /\ expected' = <<>>
  BY <1>1, StepOther
<1>3. piece = <<Solidus, LetterP, LetterA + page' - 1, Solidus>> /\ page' \in Pages
  BY <1>1 DEF piece
<1>4. ReadingAlphabet'
  BY <1>2, <1>3 DEF ReadingAlphabet, Outside
<1> QED BY <1>2, <1>4, PieceOfOther

LEMMA StepOtherEnd ==
  ASSUME IInv, OtherEnd
  PROVE DecoderInv'
<1>1. /\ writer = "other" /\ Write(Quote, <<>>) /\ closed' = TRUE
      /\ UNCHANGED in_extended /\ page' = page /\ mistaken' = mistaken
  BY DEF OtherEnd
<1>2. ~mistaken /\ text' = Quote /\ expected' = <<>> /\ AlphabetKnown' /\ (~mistaken' => Outside')
  BY <1>1, OtherBegins
<1>3. Outside' /\ closed'
  BY <1>1, <1>2
<1>4. ReadingQuote'
  BY <1>2, <1>3 DEF ReadingQuote, Outside
<1> QED BY <1>2, <1>3, <1>4, PieceOfOther

LEMMA StepOtherMistake ==
  ASSUME IInv, OtherMistake(LetterT)
  PROVE DecoderInv'
<1>1. /\ writer = "other" /\ Write(<<Solidus, LetterT>>, <<>>) /\ mistaken' = TRUE
      /\ UNCHANGED in_extended /\ closed' = closed
  BY DEF OtherMistake
<1>2. /\ ~closed /\ text' = <<Solidus, LetterT>>
      /\ status' = "reading" /\ NoDigits' /\ parse_state' = 0 /\ ~in_extended'
  BY <1>1, OtherBegins
<1>3. mistaken' /\ ~closed'
  BY <1>1, <1>2
<1>4. ReadingMistake'
  BY <1>2, <1>3 DEF ReadingMistake
<1> QED BY <1>2, <1>3, <1>4 DEF DecoderInv

(* Where the decoder is before the first piece of a string, and a mistake   *)
(* or the end, after which the next string begins.                         *)
LEMMA StepNextString ==
  ASSUME IInv, NextString
  PROVE DecoderInv'
<1>1. /\ status' = "reading" /\ text' = <<>>
      /\ parse_state' = 0 /\ hex' = 0 /\ hex_count' = 0 /\ codepage' = 1
      /\ builder_' = <<>> /\ expected' = <<>> /\ ~closed' /\ ~mistaken'
      /\ ~in_extended' /\ page' = 1
  BY DEF NextString
<1>2. ReadAll' /\ AlphabetKnown'
  BY <1>1, Zenon DEF ReadAll, AlphabetKnown, NoDigits
<1> QED BY <1>1, <1>2, PieceBegins

LEMMA InitInvariant ==
  ASSUME Init
  PROVE IInv
<1>1. /\ status = "reading" /\ text = <<>>
      /\ parse_state = 0 /\ hex = 0 /\ hex_count = 0 /\ codepage = 1
      /\ builder_ = <<>> /\ expected = <<>> /\ ~closed /\ ~mistaken
      /\ ~in_extended /\ page = 1
  BY DEF Init
<1>2. ReadAll /\ AlphabetKnown
  BY <1>1, Zenon DEF ReadAll, AlphabetKnown, NoDigits
<1>3. DecoderInv
  BY <1>1, <1>2 DEF DecoderInv
<1>4. Types
  BY DEF Init, Types
<1>5. Booleans
  BY Zenon DEF Init, Booleans
<1>6. NoCharacterInv
  BY <1>1 DEF NoCharacterInv, NoCharacter
<1> QED BY <1>3, <1>4, <1>5, <1>6 DEF IInv

LEMMA StepWriting ==
  ASSUME IInv, Writing
  PROVE DecoderInv'
<1>1. CASE \E c \in CodePoints : Encode(c) \/ OtherPlain(c) \/ OtherArbitrary(c)
  BY <1>1, StepEncode, StepOtherPlain, StepOtherArbitrary
<1>2. CASE \E c, d \in CodePoints, bytes \in {2, 4} : OtherExtended(bytes, c, d)
  BY <1>2, StepOtherExtended
<1>3. CASE \E c \in PageChars : OtherPage(c)
  BY <1>3, StepOtherPage
<1>4. CASE \E letter \in {LetterN, LetterF} : OtherDirective(letter)
  BY <1>4, StepOtherDirective
<1>5. CASE \E p \in Pages : OtherAlphabet(p)
  BY <1>5, StepOtherAlphabet
<1>6. CASE OtherMistake(LetterT) \/ EncodeEnd \/ OtherEnd
  BY <1>6, StepOtherMistake, StepEncodeEnd, StepOtherEnd
<1> QED BY <1>1, <1>2, <1>3, <1>4, <1>5, <1>6 DEF Writing

LEMMA StepReading ==
  ASSUME IInv, Next, Reading \/ Throwing
  PROVE DecoderInv'
<1>1. status = "reading" /\ text # <<>>
  BY DEF Reading, Throwing, Invalid, UndefinedCharacter, PageCharacter, FirstOfPair,
         NextSolidus, Flag, Hexadecimal, Plain, EndOfString, Take
<1>2. CASE mistaken
  BY <1>1, <1>2, StepMistake
<1>3. CASE ~mistaken
  <2>1. ~ReadAll
    BY <1>1 DEF ReadAll
  <2>2. \/ ReadingAlphabet
        \/ /\ AlphabetKnown
           /\ \/ ReadingPlain \/ ReadingQuote \/ ReadingPage \/ ReadingDirective
              \/ ReadingArbitrary \/ ReadingOpen \/ ReadingDigits \/ ReadingClose
    BY <1>1, <1>3, <2>1 DEF IInv, DecoderInv
  <2> QED BY <1>1, <1>3, <2>2, StepAlphabet, StepPlain, StepQuote, StepPage, StepDirective,
             StepArbitrary, StepOpen, StepDigits, StepClose
<1> QED BY <1>2, <1>3

(* A character that get() cannot convert is written with \S\ and stays      *)
(* unread.                                                                 *)
LEMMA NoCharacterKept ==
  ASSUME IInv, Next
  PROVE NoCharacterInv'
<1> SUFFICES ASSUME NoCharacter', 6 \notin Pages
             PROVE ~mistaken' /\ codepage' = page' /\ ReadingPage'
  BY DEF NoCharacterInv
<1>0. reader' = "get" /\ expected' = <<0>>
  BY DEF NoCharacter
<1>1. CASE Writing
  <2>1. \A c \in CodePoints : c # 0
    BY CodePointsAssumption
  <2>2. ~\E c \in CodePoints : Encode(c) \/ OtherPlain(c) \/ OtherArbitrary(c)
    BY <1>0, <2>1 DEF Encode, OtherPlain, OtherArbitrary, Other, Write
  <2>3. ~\E c, d \in CodePoints, bytes \in {2, 4} : OtherExtended(bytes, c, d)
    BY <1>0 DEF OtherExtended, Other, Write
  <2>4. ~\E letter \in {LetterN, LetterF} : OtherDirective(letter)
    BY <1>0 DEF OtherDirective, Other, Write
  <2>5. ~\E p \in Pages : OtherAlphabet(p)
    BY <1>0 DEF OtherAlphabet, Other, Write
  <2>6. ~(OtherMistake(LetterT) \/ EncodeEnd \/ OtherEnd)
    BY <1>0 DEF OtherMistake, EncodeEnd, OtherEnd, Write
  <2>7. PICK c \in PageChars : OtherPage(c)
    BY <1>1, <2>2, <2>3, <2>4, <2>5, <2>6 DEF Writing
  <2> QED BY <2>7, StepOtherPage DEF AlphabetKnown
<1>2. CASE Reading \/ Throwing
  <2>1. status = "reading" /\ text # <<>> /\ UNCHANGED written
    BY <1>2 DEF Reading, Throwing, Invalid, UndefinedCharacter, PageCharacter, FirstOfPair,
                NextSolidus, Flag, Hexadecimal, Plain, EndOfString, Take
  <2>2. reader' = reader /\ expected' = expected /\ mistaken' = mistaken /\ page' = page
    BY <2>1 DEF written
  <2>3. NoCharacter /\ ~mistaken /\ codepage = page /\ ReadingPage
    BY <1>0, <2>2 DEF IInv, NoCharacterInv, NoCharacter
  <2>4. ReadingPage' /\ codepage' = codepage
    BY <2>1, <2>3, StepPage DEF AlphabetKnown
  <2> QED BY <2>2, <2>3, <2>4
<1>3. CASE NextString
  BY <1>0, <1>3 DEF NextString
<1> QED BY <1>1, <1>2, <1>3 DEF Next

LEMMA InductiveStep ==
  ASSUME IInv, [Next]_vars
  PROVE IInv'
<1>1. Types' /\ Booleans'
  BY TypesKept, BooleansKept DEF IInv
<1>2. CASE UNCHANGED vars
  <2> USE DEF NoDigits
  <2>1. /\ reader' = reader
        /\ writer' = writer /\ num_bytes' = num_bytes /\ in_extended' = in_extended
        /\ page' = page /\ text' = text /\ expected' = expected /\ closed' = closed
        /\ mistaken' = mistaken /\ parse_state' = parse_state /\ hex' = hex
        /\ hex_count' = hex_count /\ codepage' = codepage /\ builder_' = builder_
        /\ status' = status
    BY <1>2 DEF vars, written, decoder
  <2>2. (ReadAll => ReadAll') /\ (ReadingQuote => ReadingQuote')
    BY <2>1 DEF ReadAll, ReadingQuote
  <2>3. ReadingPlain => ReadingPlain'
    BY <2>1 DEF ReadingPlain
  <2>4. ReadingPage => ReadingPage'
    BY <2>1 DEF ReadingPage
  <2>5. ReadingDirective => ReadingDirective'
    BY <2>1 DEF ReadingDirective
  <2>6. ReadingAlphabet => ReadingAlphabet'
    BY <2>1 DEF ReadingAlphabet
  <2>7. ReadingArbitrary => ReadingArbitrary'
    <3>1. ASSUME NEW c, ArbitraryAt(c) PROVE ArbitraryAt(c)'
      BY <2>1, <3>1 DEF ArbitraryAt
    <3> QED BY <2>1, <3>1 DEF ReadingArbitrary
  <2>14. ASSUME NEW bytes, NEW c, NEW z, FollowsDigits(bytes, c, z)
         PROVE FollowsDigits(bytes, c, z)'
    BY <2>1, <2>14 DEF FollowsDigits
  <2>8. ReadingOpen => ReadingOpen'
    <3>1. ASSUME NEW bytes, NEW y, OpenAt(bytes, y) PROVE OpenAt(bytes, y)'
      BY <2>1, <3>1 DEF OpenAt
    <3> SUFFICES ASSUME ReadingOpen PROVE ReadingOpen'
      OBVIOUS
    <3>2. hex' = 0 /\ hex_count' = 0 /\ ~closed' /\ builder_' = <<>>
      BY <2>1 DEF ReadingOpen
    <3>3. PICK bytes, c, z :
            /\ bytes \in {2, 4} /\ c \in WrittenWith(bytes) /\ z \in AfterDigits(bytes)
            /\ FollowsDigits(bytes, c, z) /\ OpenAt(bytes, Hex(c, 2 * bytes) \o z)
      BY Zenon DEF ReadingOpen
    <3>4. FollowsDigits(bytes, c, z)' /\ OpenAt(bytes, Hex(c, 2 * bytes) \o z)'
      BY <2>14, <3>1, <3>3
    <3> QED BY <3>2, <3>3, <3>4, Zenon DEF ReadingOpen
  <2>9. ReadingDigits => ReadingDigits'
    <3> SUFFICES ASSUME ReadingDigits PROVE ReadingDigits'
      OBVIOUS
    <3>1. ~closed'
      BY <2>1 DEF ReadingDigits
    <3>2. PICK bytes, c, z :
            /\ bytes \in {2, 4} /\ c \in WrittenWith(bytes) /\ z \in AfterDigits(bytes)
            /\ FollowsDigits(bytes, c, z)
            /\ hex_count \in 0..2 * bytes - 1
            /\ hex = Before(c, 2 * bytes - hex_count)
            /\ \/ parse_state = Extended(bytes) + HexRead(hex_count) /\ builder_ = <<>>
               \/ parse_state = Extended(bytes) + ENCOUNTERED_HEX + HexRead(hex_count)
            /\ text = Hex(c, 2 * bytes - hex_count) \o z
      BY Zenon DEF ReadingDigits
    <3>3. FollowsDigits(bytes, c, z)'
      BY <2>14, <3>2
    <3>4. /\ hex_count' \in 0..2 * bytes - 1
          /\ hex' = Before(c, 2 * bytes - hex_count')
          /\ \/ parse_state' = Extended(bytes) + HexRead(hex_count') /\ builder_' = <<>>
             \/ parse_state' = Extended(bytes) + ENCOUNTERED_HEX + HexRead(hex_count')
          /\ text' = Hex(c, 2 * bytes - hex_count') \o z
      BY <2>1, <3>2
    <3> QED BY <3>1, <3>2, <3>3, <3>4, Zenon DEF ReadingDigits
  <2>10. ReadingClose => ReadingClose'
    <3>1. ASSUME NEW bytes, NEW y, CloseAt(bytes, y) PROVE CloseAt(bytes, y)'
      BY <2>1, <3>1 DEF CloseAt
    <3>2. ASSUME NEW z, FollowsClose(z) PROVE FollowsClose(z)'
      BY <2>1, <3>2 DEF FollowsClose
    <3> SUFFICES ASSUME ReadingClose PROVE ReadingClose'
      OBVIOUS
    <3>3. hex' = 0 /\ hex_count' = 0 /\ (closed' \/ ~in_extended')
      BY <2>1 DEF ReadingClose
    <3>4. PICK bytes, z :
            bytes \in {2, 4} /\ z \in AfterClose /\ FollowsClose(z) /\ CloseAt(bytes, z)
      BY Zenon DEF ReadingClose
    <3>5. FollowsClose(z)' /\ CloseAt(bytes, z)'
      BY <3>1, <3>2, <3>4
    <3> QED BY <3>3, <3>4, <3>5, Zenon DEF ReadingClose
  <2>11. ReadingMistake => ReadingMistake'
    BY <2>1 DEF ReadingMistake
  <2>12. AlphabetKnown => AlphabetKnown'
    BY <2>1 DEF AlphabetKnown
  <2>13. DecoderInv'
    BY <2>1, <2>2, <2>3, <2>4, <2>5, <2>6, <2>7, <2>8, <2>9, <2>10, <2>11, <2>12
    DEF IInv, DecoderInv
  <2>15. NoCharacterInv'
    BY <2>1, <2>4 DEF IInv, NoCharacterInv, NoCharacter
  <2> QED BY <1>1, <2>13, <2>15 DEF IInv
<1>6. ASSUME Next PROVE NoCharacterInv'
  BY <1>6, NoCharacterKept
<1>3. CASE Writing
  BY <1>1, <1>3, <1>6, StepWriting DEF IInv, Next
<1>4. CASE Reading \/ Throwing
  <2>1. Next
    BY <1>4 DEF Next
  <2> QED BY <1>1, <1>4, <1>6, <2>1, StepReading DEF IInv
<1>5. CASE NextString
  BY <1>1, <1>5, <1>6, StepNextString DEF IInv, Next
<1> QED BY <1>2, <1>3, <1>4, <1>5 DEF Next

THEOREM Invariance == Spec => []IInv
<1>1. Init => IInv
  BY InitInvariant
<1>2. IInv /\ [Next]_vars => IInv'
  BY InductiveStep
<1> QED BY <1>1, <1>2, PTL DEF Spec
------------------------------------------------------------------------------
(* The numbers that the flags add up to, and the digits of a character. *)
States == 0..(2 ^ 24 - 1)
Values == 0..(16 ^ 7 - 1)

LEMMA SumsOfFlags ==
  /\ \A s \in {0, FIRST_SOLIDUS, APOSTROPHE, FIRST_SOLIDUS + PAGE,
               FIRST_SOLIDUS + PAGE + SECOND_SOLIDUS, FIRST_SOLIDUS + IGNORED_DIRECTIVE,
               FIRST_SOLIDUS + ALPHABET, FIRST_SOLIDUS + ALPHABET + ALPHABET_DEFINITION,
               FIRST_SOLIDUS + ALPHABET + IGNORED_DIRECTIVE, FIRST_SOLIDUS + ARBITRARY} :
       s \in States
  /\ \A n \in {0, 1} :
       FIRST_SOLIDUS + ARBITRARY + SECOND_SOLIDUS + HexRead(n) \in States
BY FlagValues, HexReadValues, SMT DEF States

LEMMA SumsWithin ==
  ASSUME NEW bytes \in {2, 4}
  PROVE /\ Extended(bytes) - SECOND_SOLIDUS \in States
        /\ \A n \in 0..7 : /\ Extended(bytes) + HexRead(n) \in States
                           /\ Extended(bytes) + ENCOUNTERED_HEX + HexRead(n) \in States
        /\ Extended(bytes) + ENCOUNTERED_HEX \in States
        /\ Extended(bytes) + THIRD_SOLIDUS \in States
        /\ Extended(bytes) + THIRD_SOLIDUS + ENDEXTENDED_X \in States
        /\ Extended(bytes) + THIRD_SOLIDUS + ENDEXTENDED_X + ENDEXTENDED_0 \in States
BY FlagValues, ExtendedValues, HexReadValues, SMT DEF States

LEMMA BeforeRange ==
  ASSUME NEW c \in CodePoints, NEW n \in 1..8
  PROVE Before(c, n) \in Values
<1>1. c \in Nat /\ c < 1114112
  BY CodePointsAssumption
<1>2. /\ c \div 16 \in Values /\ c \div 256 \in Values
      /\ c \div 4096 \in Values /\ c \div 65536 \in Values
      /\ c \div 1048576 \in Values /\ c \div 16777216 \in Values
      /\ c \div 268435456 \in Values
  BY <1>1, SMT DEF Values
<1>3. /\ Before(c, 1) = c \div 16 /\ Before(c, 2) = c \div 256
      /\ Before(c, 3) = c \div 4096 /\ Before(c, 4) = c \div 65536
      /\ Before(c, 5) = c \div 1048576 /\ Before(c, 6) = c \div 16777216
      /\ Before(c, 7) = c \div 268435456
  BY SMT DEF Before
<1>4. Before(c, 8) \in Values
  BY SMT DEF Before, Values
<1>5. /\ Before(c, 1) \in Values /\ Before(c, 2) \in Values /\ Before(c, 3) \in Values
      /\ Before(c, 4) \in Values /\ Before(c, 5) \in Values /\ Before(c, 6) \in Values
      /\ Before(c, 7) \in Values
  BY <1>2, <1>3, SMT
<1>6. n \in {1, 2, 3, 4, 5, 6, 7, 8}
  OBVIOUS
<1> QED BY <1>4, <1>5, <1>6, Zenon

Ranges ==
  parse_state \in States /\ hex \in Values /\ hex_count \in 0..7

LEMMA RangesHold ==
  ASSUME IInv
  PROVE Ranges
<1> DEFINE OK == parse_state \in States
<1>1. ASSUME NoDigits, OK PROVE Ranges
  BY <1>1, SMT DEF NoDigits, Ranges, Values
<1>2. num_bytes \in {2, 4}
  BY DEF IInv, Types
<1>3. CASE ReadAll
  <2>1. parse_state = 0 \/ parse_state = Extended(num_bytes) + ENCOUNTERED_HEX
    BY <1>3, Zenon DEF ReadAll
  <2>2. OK
    BY <1>2, <2>1, SumsOfFlags, SumsWithin, Zenon
  <2> QED BY <1>1, <1>3, <2>2 DEF ReadAll
<1>4. CASE ReadingPlain \/ ReadingQuote \/ ReadingPage \/ ReadingDirective \/ ReadingAlphabet
           \/ ReadingMistake
  <2>1. /\ NoDigits
        /\ parse_state \in {0, FIRST_SOLIDUS, APOSTROPHE, FIRST_SOLIDUS + PAGE,
               FIRST_SOLIDUS + PAGE + SECOND_SOLIDUS, FIRST_SOLIDUS + IGNORED_DIRECTIVE,
               FIRST_SOLIDUS + ALPHABET, FIRST_SOLIDUS + ALPHABET + ALPHABET_DEFINITION,
               FIRST_SOLIDUS + ALPHABET + IGNORED_DIRECTIVE, FIRST_SOLIDUS + ARBITRARY}
    BY <1>4, Zenon DEF ReadingPlain, ReadingQuote, ReadingPage, ReadingDirective,
         ReadingAlphabet, ReadingMistake
  <2> QED BY <1>1, <2>1, SumsOfFlags, Zenon
<1>5. CASE ReadingArbitrary
  <2>1. PICK c \in CodePoints :
          /\ c < 256
          /\ \/ /\ NoDigits
                /\ parse_state \in {0, FIRST_SOLIDUS, FIRST_SOLIDUS + ARBITRARY}
             \/ /\ hex_count \in {0, 1} /\ hex = c \div 16 ^ (2 - hex_count)
                /\ parse_state = FIRST_SOLIDUS + ARBITRARY + SECOND_SOLIDUS + HexRead(hex_count)
    BY <1>5, Zenon DEF ReadingArbitrary, ArbitraryAt
  <2>2. CASE NoDigits /\ parse_state \in {0, FIRST_SOLIDUS, FIRST_SOLIDUS + ARBITRARY}
    BY <1>1, <2>2, SumsOfFlags, Zenon
  <2>3. CASE /\ hex_count \in {0, 1} /\ hex = c \div 16 ^ (2 - hex_count)
             /\ parse_state = FIRST_SOLIDUS + ARBITRARY + SECOND_SOLIDUS + HexRead(hex_count)
    <3>1. OK
      BY <2>3, SumsOfFlags, Zenon
    <3>2. c \in Nat /\ c < 256
      BY <2>1, CodePointsAssumption
    <3>3. 16 ^ 2 = 256 /\ 16 ^ 1 = 16
      BY SMT
    <3>4. hex \in Values /\ hex_count \in 0..7
      <4>1. c \div 16 \in Values /\ c \div 256 \in Values
        BY <3>2, SMT DEF Values
      <4>2. hex_count \in {0, 1} /\ hex = c \div 16 ^ (2 - hex_count)
        BY <2>3
      <4>3. CASE hex_count = 0
        BY <3>3, <4>1, <4>2, <4>3, SMT
      <4>4. CASE hex_count = 1
        BY <3>3, <4>1, <4>2, <4>4, SMT
      <4> QED BY <4>2, <4>3, <4>4
    <3> QED BY <3>1, <3>4 DEF Ranges
  <2> QED BY <2>1, <2>2, <2>3
<1>6. CASE ReadingOpen
  <2>1. PICK bytes \in {2, 4} :
          parse_state \in {0, FIRST_SOLIDUS, FIRST_SOLIDUS + ARBITRARY,
                           Extended(bytes) - SECOND_SOLIDUS}
    BY <1>6, Zenon DEF ReadingOpen, OpenAt
  <2>2. OK
    BY <2>1, SumsOfFlags, SumsWithin, Zenon
  <2> QED BY <1>1, <1>6, <2>2 DEF ReadingOpen
<1>7. CASE ReadingDigits
  <2>1. PICK bytes, c :
          /\ bytes \in {2, 4} /\ c \in WrittenWith(bytes)
          /\ hex_count \in 0..2 * bytes - 1
          /\ hex = Before(c, 2 * bytes - hex_count)
          /\ \/ parse_state = Extended(bytes) + HexRead(hex_count)
             \/ parse_state = Extended(bytes) + ENCOUNTERED_HEX + HexRead(hex_count)
    BY <1>7 DEF ReadingDigits
  <2>2. bytes \in {2, 4} /\ c \in CodePoints
    BY <2>1 DEF WrittenWith
  <2>3. hex_count \in 0..7 /\ 2 * bytes - hex_count \in 1..8
    BY <2>1, <2>2
  <2>4. hex \in Values
    BY <2>1, <2>2, <2>3, BeforeRange
  <2>5. OK
    BY <2>1, <2>2, <2>3, SumsWithin
  <2> QED BY <2>3, <2>4, <2>5 DEF Ranges
<1>8. CASE ReadingClose
  <2>1. PICK bytes \in {2, 4} :
          parse_state \in {Extended(bytes) + ENCOUNTERED_HEX, Extended(bytes) + THIRD_SOLIDUS,
                           Extended(bytes) + THIRD_SOLIDUS + ENDEXTENDED_X,
                           Extended(bytes) + THIRD_SOLIDUS + ENDEXTENDED_X + ENDEXTENDED_0}
    BY <1>8, Zenon DEF ReadingClose, CloseAt
  <2>2. OK
    BY <2>1, SumsWithin, Zenon
  <2> QED BY <1>1, <1>8, <2>2 DEF ReadingClose
<1> QED BY <1>3, <1>4, <1>5, <1>6, <1>7, <1>8 DEF IInv, Types, DecoderInv

(* Every number stays in its range for strings of every length and every    *)
(* Unicode character: a flag is never added twice (the sum would carry),    *)
(* and hex holds the digits of one character at most                        *)
(* (IfcCharacterDecoder.cpp:57-107, 202-305).                               *)
THEOREM TypeCorrect == Spec => []TypeOK
<1>1. IInv => TypeOK
  <2> SUFFICES ASSUME IInv PROVE TypeOK
    OBVIOUS
  <2>1. Ranges
    BY RangesHold
  <2>3. /\ reader \in {"get", "skip"}
        /\ writer \in {"encoder", "other"} /\ num_bytes \in {2, 4} /\ page \in 1..9
        /\ text \in Seq(Nat) /\ expected \in Seq(Nat) /\ builder_ \in Seq(Nat)
        /\ codepage \in 1..9 /\ status \in {"reading", "ended", "thrown"}
    BY DEF IInv, Types
  <2>4. in_extended \in BOOLEAN /\ closed \in BOOLEAN /\ mistaken \in BOOLEAN
    BY DEF IInv, Booleans
  <2>5. /\ parse_state \in 0..(2 ^ 24 - 1) /\ hex \in 0..(16 ^ 7 - 1) /\ hex_count \in 0..7
    BY <2>1, Zenon DEF Ranges, States, Values
  <2> QED BY <2>3, <2>4, <2>5, Zenon DEF TypeOK
<1> QED BY <1>1, Invariance, PTL

(* Without alphabet 6 a string is rejected only when it does not follow    *)
(* the format or, by get(), at a character that its alphabet does not have, *)
(* which get() never passes; every other string ends at its closing quote,  *)
(* and is then complete: what follows in the file is where the next token   *)
(* is looked for.                                                          *)
THEOREM EndsAtQuote ==
  ASSUME 6 \notin Pages
  PROVE Spec => []EndsAtTheQuote
<1>1. IInv => EndsAtTheQuote
  <2> SUFFICES ASSUME IInv PROVE EndsAtTheQuote
    OBVIOUS
  <2>1. status = "thrown" => mistaken \/ NoCharacter
    BY DEF IInv, DecoderInv, NoCharacter
  <2>2. status = "ended" => closed /\ ~mistaken /\ text = <<Comma>> /\ builder_ = expected
    BY DEF IInv, DecoderInv, ReadingQuote
  <2>3. ASSUME closed PROVE text # <<>>
    <3>1. CASE text = <<>>
      BY <2>3, <3>1, NothingLeft DEF ReadAll
    <3> QED BY <3>1
  <2>4. NoCharacter => text # <<>>
    BY DEF IInv, NoCharacterInv, ReadingPage
  <2> QED BY <2>1, <2>2, <2>3, <2>4 DEF EndsAtTheQuote
<1> QED BY <1>1, Invariance, PTL

(* Whatever the encoder writes, and whatever other applications write       *)
(* without alphabet 6, get() makes the characters of it that were meant     *)
(* (IfcCharacterDecoder.cpp:20-24).                                         *)
THEOREM Decoding ==
  ASSUME 6 \notin Pages
  PROVE Spec => []Decodes
<1>1. IInv => Decodes
  BY NothingLeft DEF Decodes, ReadAll
<1> QED BY <1>1, Invariance, PTL
==============================================================================
