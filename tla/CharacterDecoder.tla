--------------------------- MODULE CharacterDecoder ---------------------------
(***************************************************************************)
(* Strings in a STEP file (src/IFC/src/ifcparse/IfcCharacterDecoder.cpp):  *)
(* IfcCharacterEncoder, or some other application, writes them; the        *)
(* decoder reads them a character at a time. get() and skip() go through   *)
(* the same states; get() also builds the string, and rejects a character  *)
(* that the alphabet in force does not have.                               *)
(* A string is written in pieces and the decoder has read one before the   *)
(* next is written, so that strings of every length are covered.           *)
(* Characters are their code points.                                       *)
(***************************************************************************)
EXTENDS Integers, Sequences

CONSTANTS
  CodePoints,    \* the characters that strings are made of
  Pages,         \* the alphabets of ISO 8859 that other applications use
  PageChars      \* the characters (below 128) they follow \S\ with

ASSUME CodePointsAssumption == \A c \in CodePoints : c \in Nat \ {0} /\ c < 1114112
ASSUME PagesAssumption == Pages \subseteq 1..9 /\ PageChars \subseteq 32..126

VARIABLES
  reader,        \* "get" or "skip"
  writer,        \* "encoder" or "other"
  num_bytes,     \* of the encoder
  in_extended,
  page,          \* the alphabet in force in what was written
  text,          \* written and not read yet
  expected,      \* the characters that the last piece stands for, 0 for one
                 \* that its alphabet does not have
  closed,        \* the string is written
  mistaken,      \* it has a solidus that is not doubled, as in "C:\temp"
  parse_state, hex, hex_count, codepage,    \* get() and skip()
  builder_,      \* what get() made of the last piece; skip() builds nothing,
                 \* for it this is a record of the characters it passed over
  status

written == <<reader, writer, num_bytes, in_extended, page, expected, closed, mistaken>>
decoder == <<parse_state, hex, hex_count, codepage, builder_, status>>
vars == <<written, text, decoder>>

(* The characters that the format gives a meaning. *)
Apostrophe == 39
Comma == 44
Zero == 48
Two == 50
Four == 52
LetterA == 65
LetterF == 70
LetterI == 73
LetterN == 78
LetterP == 80
LetterS == 83
LetterX == 88
LetterT == 116
Solidus == 92

(* The printable characters that a file holds as they are. *)
within_spf_range(c) == c \in 32..126

HexDigit(n) == IF n < 10 THEN Zero + n ELSE LetterA + n - 10

(* The hexadecimal digits of c, so many of them. *)
Hex(c, digits) == [i \in 1..digits |-> HexDigit((c \div (16 ^ (digits - i))) % 16)]

(* The codes above 127 that alphabet p of ISO 8859 leaves undefined. *)
UndefinedCodes(p) ==
  CASE p = 3 -> {165, 174, 190, 195, 208, 227, 240}
    [] p = 6 -> 161..163 \cup 165..171 \cup 174..186 \cup 188..190 \cup {192}
                \cup 219..223 \cup 243..255
    [] p = 7 -> {174, 210, 255}
    [] p = 8 -> {161, 251, 252, 255} \cup 191..222
    [] OTHER -> {}

(* The character above 127 of alphabet p, 0 when there is none; they are    *)
(* numbers of our own.                                                     *)
convert_codepage(p, c) ==
  IF c \in UndefinedCodes(p) THEN 0 ELSE 2000000 + 256 * p + c
------------------------------------------------------------------------------
FIRST_SOLIDUS == 2 ^ 1
PAGE == 2 ^ 2
ALPHABET == 2 ^ 3
SECOND_SOLIDUS == 2 ^ 4
ALPHABET_DEFINITION == 2 ^ 5
APOSTROPHE == 2 ^ 6
ARBITRARY == 2 ^ 7
EXTENDED2 == 2 ^ 8
EXTENDED4 == 2 ^ 9
HEX(n) == 2 ^ (9 + n)
THIRD_SOLIDUS == 2 ^ 18
ENDEXTENDED_X == 2 ^ 19
ENDEXTENDED_0 == 2 ^ 20
IGNORED_DIRECTIVE == 2 ^ 22
ENCOUNTERED_HEX == 2 ^ 23

(* The flags are added up in a number; Has tests a bit of it. *)
Has(s, flag) == (s \div flag) % 2 = 1
HasOne(s, flags) == \E f \in flags : Has(s, f)
HexFlags == {HEX(n) : n \in 1..8}

EXPECTS_SOLIDUS(s) ==
  HasOne(s, {ALPHABET_DEFINITION, PAGE, ARBITRARY, EXTENDED2, EXTENDED4,
             ENDEXTENDED_0, IGNORED_DIRECTIVE})
EXPECTS_CHARACTER(s) == Has(s, PAGE) /\ Has(s, SECOND_SOLIDUS)
EXPECTS_N_OR_F(s) == Has(s, FIRST_SOLIDUS) /\ ~Has(s, ARBITRARY)
EXPECTS_ARBITRARY2(s) == Has(s, ARBITRARY) /\ ~Has(s, SECOND_SOLIDUS)
EXPECTS_ALPHABET_DEFINITION(s) == Has(s, FIRST_SOLIDUS) /\ Has(s, ALPHABET)
EXPECTS_HEX(s) ==
  \/ HasOne(s, {HEX(1), HEX(3), HEX(5), HEX(6), HEX(7)})
  \/ Has(s, ARBITRARY) /\ Has(s, SECOND_SOLIDUS)
  \/ Has(s, EXTENDED2) /\ Has(s, HEX(2))
  \/ Has(s, EXTENDED4) /\ Has(s, HEX(4))

IS_HEXADECIMAL(c) == c \in 48..57 \cup 65..70 \cup 97..102
HEX_TO_INT(c) == IF c < 65 THEN c - 48 ELSE IF c < 97 THEN c - 55 ELSE c - 87
CLEAR_HEX(s) == s - ((s \div HEX(1)) % 256) * HEX(1)
------------------------------------------------------------------------------
Init ==
  /\ reader \in {"get", "skip"} /\ writer \in {"encoder", "other"} /\ num_bytes \in {2, 4}
  /\ in_extended = FALSE /\ page = 1
  /\ text = <<>> /\ expected = <<>> /\ closed = FALSE /\ mistaken = FALSE
  /\ parse_state = 0 /\ hex = 0 /\ hex_count = 0 /\ codepage = 1
  /\ builder_ = <<>> /\ status = "reading"

(* The next piece of the string: how it is written, what it stands for. *)
Write(piece, characters) ==
  /\ text = <<>> /\ ~closed
  /\ text' = piece
  /\ expected' = characters /\ builder_' = <<>>
  /\ UNCHANGED <<reader, writer, num_bytes, parse_state, hex, hex_count, codepage, status>>

OpenExtended(bytes) == <<Solidus, LetterX, Zero + bytes, Solidus>>
CloseExtended == <<Solidus, LetterX, Zero, Solidus>>
Doubled(c) == IF c \in {Apostrophe, Solidus} THEN <<c, c>> ELSE <<c>>

(* The quote that ends the string, and what follows it in the file. *)
Quote == <<Apostrophe, Comma>>

(* Mutant: an extended sequence is not ended before a printable character.  *)
EncodedOpen(c) ==
  IF within_spf_range(c) THEN Doubled(c)
  ELSE (IF in_extended THEN <<>> ELSE OpenExtended(num_bytes)) \o Hex(c, 2 * num_bytes)

(* The encoder takes two bytes when no character of the string needs more.  *)
Encoded(c) ==
  IF within_spf_range(c)
    THEN (IF in_extended THEN CloseExtended ELSE <<>>) \o Doubled(c)
    ELSE (IF in_extended THEN <<>> ELSE OpenExtended(num_bytes)) \o Hex(c, 2 * num_bytes)

Encode(c) ==
  /\ writer = "encoder" /\ (num_bytes = 2 => c < 65536)
  /\ Write(Encoded(c), <<c>>)
  /\ in_extended' = ~within_spf_range(c)
  /\ UNCHANGED <<page, closed, mistaken>>

EncodeEnd ==
  /\ writer = "encoder"
  /\ Write((IF in_extended THEN CloseExtended ELSE <<>>) \o Quote, <<>>)
  /\ closed' = TRUE
  /\ UNCHANGED <<in_extended, page, mistaken>>

(* What other applications may write, ISO 10303-21 table 2: a character as  *)
(* it is, one of the alphabet in force, one in hexadecimal, a sequence in   *)
(* hexadecimal, a directive without effect, another alphabet.               *)
Other(piece, characters) ==
  /\ writer = "other"
  /\ Write(piece, characters)
  /\ UNCHANGED <<in_extended, closed, mistaken>>

OtherPlain(c) ==
  /\ within_spf_range(c)
  /\ Other(Doubled(c), <<c>>) /\ UNCHANGED page

OtherPage(c) ==
  Other(<<Solidus, LetterS, Solidus, c>>, <<convert_codepage(page, c + 128)>>) /\ UNCHANGED page

OtherArbitrary(c) ==
  /\ c < 256
  /\ Other(<<Solidus, LetterX, Solidus>> \o Hex(c, 2), <<c>>) /\ UNCHANGED page

OtherExtended(bytes, c, d) ==
  /\ bytes = 2 => c < 65536 /\ d < 65536
  /\ Other(OpenExtended(bytes) \o Hex(c, 2 * bytes) \o Hex(d, 2 * bytes) \o CloseExtended,
           <<c, d>>)
  /\ UNCHANGED page

OtherDirective(letter) == Other(<<Solidus, letter, Solidus>>, <<>>) /\ UNCHANGED page

OtherAlphabet(p) ==
  /\ Other(<<Solidus, LetterP, LetterA + p - 1, Solidus>>, <<>>)
  /\ page' = p

OtherEnd ==
  /\ writer = "other"
  /\ Write(Quote, <<>>)
  /\ closed' = TRUE
  /\ UNCHANGED <<in_extended, page, mistaken>>

OtherMistake(letter) ==
  /\ writer = "other"
  /\ Write(<<Solidus, letter>>, <<>>)
  /\ mistaken' = TRUE
  /\ UNCHANGED <<in_extended, page, closed>>
------------------------------------------------------------------------------
(* The flags that character c adds to state s; 0 for none. *)
Added(c, s) ==
  IF c = LetterX /\ Has(s, THIRD_SOLIDUS) THEN ENDEXTENDED_X
  ELSE IF c = Zero /\ Has(s, ENDEXTENDED_X) THEN ENDEXTENDED_0
  ELSE IF c = LetterX /\ Has(s, FIRST_SOLIDUS) THEN ARBITRARY
  ELSE IF c = Two /\ EXPECTS_ARBITRARY2(s) THEN EXTENDED2
  ELSE IF c = Four /\ EXPECTS_ARBITRARY2(s) THEN EXTENDED2 + EXTENDED4
  ELSE IF c = LetterP /\ Has(s, FIRST_SOLIDUS) THEN ALPHABET
  ELSE IF c \in {LetterN, LetterF} /\ EXPECTS_N_OR_F(s) THEN IGNORED_DIRECTIVE
  ELSE IF c \in LetterA..LetterI /\ EXPECTS_ALPHABET_DEFINITION(s) THEN ALPHABET_DEFINITION
  ELSE IF c = LetterS /\ Has(s, FIRST_SOLIDUS) THEN PAGE
  ELSE 0

(* The branch that the loop takes for character c. *)
Branch(c, s) ==
  IF EXPECTS_CHARACTER(s) THEN "page character"
  ELSE IF c = Apostrophe /\ s = 0 THEN "apostrophe"
  ELSE IF c = Solidus /\ s = 0 THEN "solidus"
  ELSE IF c = Solidus /\ EXPECTS_SOLIDUS(s) THEN "next solidus"
  ELSE IF Added(c, s) # 0 THEN "flag"
  ELSE IF IS_HEXADECIMAL(c) /\ EXPECTS_HEX(s) THEN "hexadecimal"
  ELSE IF s = 0 \/ (c = Solidus /\ s = FIRST_SOLIDUS) \/ (c = Apostrophe /\ s = APOSTROPHE)
    THEN "plain"
  ELSE IF s = APOSTROPHE THEN "end"
  ELSE "invalid"

(* A round of the loop: a character is looked at, in the branch b. *)
Take(b) ==
  /\ status = "reading" /\ text # <<>>
  /\ Branch(Head(text), parse_state) = b
  /\ UNCHANGED written

Inc == text' = Tail(text) /\ UNCHANGED status

Push(character) == builder_' = Append(builder_, character)

(* Only get() converts the character. *)
PageCharacter ==
  /\ Take("page character") /\ Inc
  /\ reader = "skip" \/ convert_codepage(codepage, Head(text) + 128) # 0
  /\ Push(convert_codepage(codepage, Head(text) + 128))
  /\ parse_state' = 0
  /\ UNCHANGED <<hex, hex_count, codepage>>

FirstOfPair ==
  /\ \/ Take("apostrophe") /\ parse_state' = APOSTROPHE
     \/ Take("solidus") /\ parse_state' = FIRST_SOLIDUS
  /\ Inc
  /\ UNCHANGED <<hex, hex_count, codepage, builder_>>

Finished(s) == HasOne(s, {ALPHABET_DEFINITION, IGNORED_DIRECTIVE, ENDEXTENDED_0})

NextSolidus ==
  /\ Take("next solidus") /\ Inc
  /\ IF Finished(parse_state)
       THEN parse_state' = 0 /\ hex' = 0 /\ hex_count' = 0
       ELSE /\ parse_state' = IF Has(parse_state, ENCOUNTERED_HEX)
                              THEN parse_state + THIRD_SOLIDUS - ENCOUNTERED_HEX
                              ELSE parse_state + SECOND_SOLIDUS
            /\ UNCHANGED <<hex, hex_count>>
  /\ UNCHANGED <<codepage, builder_>>

Flag ==
  /\ Take("flag") /\ Inc
  /\ LET flag == Added(Head(text), parse_state)
     IN /\ parse_state' = parse_state + flag
        /\ codepage' = IF flag = ALPHABET_DEFINITION THEN Head(text) - 64 ELSE codepage
  /\ UNCHANGED <<hex, hex_count, builder_>>

(* Mutant: the state forgets that a character was read. *)
AfterCharacterForgetful(s, digits) == IF digits = 2 THEN 0 ELSE CLEAR_HEX(s)

(* Mutant: the flag is added although the sequence has a character already. *)
AfterCharacterAdds(s, digits) ==
  IF digits = 2 THEN 0 ELSE CLEAR_HEX(s) + ENCOUNTERED_HEX

(* The state after the last digit of a character. *)
AfterCharacter(s, digits) ==
  IF digits = 2 THEN 0
  ELSE IF Has(s, ENCOUNTERED_HEX) THEN CLEAR_HEX(s)
  ELSE CLEAR_HEX(s) + ENCOUNTERED_HEX

Hexadecimal ==
  LET digits == hex_count + 1
      value == hex * 16 + HEX_TO_INT(Head(text))
      complete == \/ digits = 2 /\ ~Has(parse_state, EXTENDED2)
                  \/ digits = 4 /\ ~Has(parse_state, EXTENDED4)
                  \/ digits = 8
      state == parse_state + HEX(digits)
  IN /\ Take("hexadecimal") /\ Inc
     /\ IF complete
          THEN /\ Push(value)
               /\ parse_state' = AfterCharacter(state, digits)
               /\ hex' = 0 /\ hex_count' = 0
          ELSE /\ parse_state' = state /\ hex' = value /\ hex_count' = digits
               /\ UNCHANGED builder_
     /\ UNCHANGED codepage

Plain ==
  /\ Take("plain") /\ Inc
  /\ Push(Head(text))
  /\ parse_state' = 0 /\ hex' = 0 /\ hex_count' = 0
  /\ UNCHANGED codepage

(* The character after the closing quote is not consumed. *)
EndOfString ==
  /\ Take("end")
  /\ status' = "ended"
  /\ UNCHANGED <<text, parse_state, hex, hex_count, codepage, builder_>>

Invalid ==
  /\ Take("invalid")
  /\ status' = "thrown"
  /\ UNCHANGED <<text, parse_state, hex, hex_count, codepage, builder_>>

(* get() throws at a character that the alphabet does not have. *)
UndefinedCharacter ==
  /\ Take("page character")
  /\ reader = "get" /\ convert_codepage(codepage, Head(text) + 128) = 0
  /\ status' = "thrown"
  /\ UNCHANGED <<text, parse_state, hex, hex_count, codepage, builder_>>

(* get() and skip() start every string afresh; after an exception the file *)
(* is read on from a later statement.                                       *)
NextString ==
  /\ status \in {"ended", "thrown"}
  /\ status' = "reading" /\ text' = <<>>
  /\ parse_state' = 0 /\ hex' = 0 /\ hex_count' = 0 /\ codepage' = 1
  /\ builder_' = <<>> /\ expected' = <<>> /\ closed' = FALSE /\ mistaken' = FALSE
  /\ reader' \in {"get", "skip"} /\ writer' \in {"encoder", "other"} /\ num_bytes' \in {2, 4}
  /\ in_extended' = FALSE /\ page' = 1

Writing ==
  \/ \E c \in CodePoints : Encode(c) \/ OtherPlain(c) \/ OtherArbitrary(c)
  \/ \E c, d \in CodePoints, bytes \in {2, 4} : OtherExtended(bytes, c, d)
  \/ \E c \in PageChars : OtherPage(c)
  \/ \E letter \in {LetterN, LetterF} : OtherDirective(letter)
  \/ \E p \in Pages : OtherAlphabet(p)
  \/ OtherMistake(LetterT)
  \/ EncodeEnd \/ OtherEnd

Reading ==
  \/ PageCharacter \/ FirstOfPair \/ NextSolidus \/ Flag \/ Hexadecimal \/ Plain \/ EndOfString

Throwing == Invalid \/ UndefinedCharacter

Next == Writing \/ Reading \/ Throwing \/ NextString

Spec == Init /\ [][Next]_vars
------------------------------------------------------------------------------
(* The state is a sum of distinct flags, and every number is in its range:  *)
(* an added flag that was set already would carry into the next one.        *)
TypeOK ==
  /\ reader \in {"get", "skip"}
  /\ writer \in {"encoder", "other"} /\ num_bytes \in {2, 4}
  /\ in_extended \in BOOLEAN /\ page \in 1..9
  /\ closed \in BOOLEAN /\ mistaken \in BOOLEAN
  /\ text \in Seq(Nat) /\ expected \in Seq(Nat)
  /\ parse_state \in 0..(2 ^ 24 - 1)
  /\ hex \in 0..(16 ^ 7 - 1) /\ hex_count \in 0..7 /\ codepage \in 1..9
  /\ builder_ \in Seq(Nat)
  /\ status \in {"reading", "ended", "thrown"}

(* Once a piece is read, the string has the characters that the piece       *)
(* stands for (IfcCharacterDecoder.cpp:20-24: "character decoding as        *)
(* described in ISO 10303-21 table 2 and table 4"): what the encoder wrote  *)
(* comes back, and what other applications write is understood.             *)
Decodes == text = <<>> /\ ~mistaken => builder_ = expected

(* The last piece is a character that its alphabet does not have: nothing   *)
(* that get() could put in the string.                                     *)
NoCharacter == reader = "get" /\ expected = <<0>>

(* A string is rejected if and only if it does not follow the format or,    *)
(* by get() only, has a character that the alphabet in force does not       *)
(* have: get() never reads past such a character, skip() always does. Any   *)
(* other string ends at its closing quote, neither before nor after: skip() *)
(* finds the next token and get() the same string                           *)
(* (IfcCharacterDecoder.cpp:138-140, 196-202, 263-265, 312-318, 410-413).   *)
EndsAtTheQuote ==
  /\ status = "thrown" => mistaken \/ NoCharacter
  /\ NoCharacter => text # <<>>
  /\ status = "ended" => closed /\ ~mistaken /\ text = <<Comma>> /\ builder_ = expected
  /\ closed => text # <<>>

(***************************************************************************)
(* Why strings are decoded. Between two pieces the decoder is where the    *)
(* writer is: outside, or within a sequence in hexadecimal. Within a piece *)
(* the flags say how far it was read, and what is left of it stands for    *)
(* the characters that get() still has to add.                             *)
(***************************************************************************)
NoDigits == hex = 0 /\ hex_count = 0

(* The flags within a sequence in hexadecimal, and of the n digits of the   *)
(* current character.                                                      *)
Extended(bytes) ==
  FIRST_SOLIDUS + ARBITRARY + SECOND_SOLIDUS + EXTENDED2 + IF bytes = 4 THEN EXTENDED4 ELSE 0
HexRead(n) == (2 ^ n - 1) * HEX(1)

(* Alphabet 6 is the exception: its letter is taken for a directive. *)
AlphabetKnown == codepage = page \/ 6 \in Pages

ReadAll ==
  /\ text = <<>> /\ NoDigits /\ ~closed
  /\ parse_state = IF in_extended THEN Extended(num_bytes) + ENCOUNTERED_HEX ELSE 0
  /\ builder_ = expected \/ 6 \in Pages

ReadingPlain ==
  /\ NoDigits /\ ~closed /\ ~in_extended /\ builder_ = <<>>
  /\ \E c \in CodePoints :
       /\ within_spf_range(c) /\ expected = <<c>>
       /\ \/ parse_state = 0 /\ text = Doubled(c)
          \/ parse_state = APOSTROPHE /\ c = Apostrophe /\ text = <<c>>
          \/ parse_state = FIRST_SOLIDUS /\ c = Solidus /\ text = <<c>>

ReadingQuote ==
  /\ NoDigits /\ closed /\ builder_ = <<>> /\ expected = <<>>
  /\ \/ parse_state = 0 /\ text = Quote
     \/ parse_state = APOSTROPHE /\ text = <<Comma>>

ReadingPage ==
  /\ NoDigits /\ ~closed /\ ~in_extended /\ builder_ = <<>>
  /\ \E c \in PageChars :
       /\ expected = <<convert_codepage(page, c + 128)>>
       /\ \/ parse_state = 0 /\ text = <<Solidus, LetterS, Solidus, c>>
          \/ parse_state = FIRST_SOLIDUS /\ text = <<LetterS, Solidus, c>>
          \/ parse_state = FIRST_SOLIDUS + PAGE /\ text = <<Solidus, c>>
          \/ parse_state = FIRST_SOLIDUS + PAGE + SECOND_SOLIDUS /\ text = <<c>>

ReadingDirective ==
  /\ NoDigits /\ ~closed /\ ~in_extended /\ builder_ = <<>> /\ expected = <<>>
  /\ \/ \E letter \in {LetterN, LetterF} :
          \/ parse_state = 0 /\ text = <<Solidus, letter, Solidus>>
          \/ parse_state = FIRST_SOLIDUS /\ text = <<letter, Solidus>>
     \/ parse_state = FIRST_SOLIDUS + IGNORED_DIRECTIVE /\ text = <<Solidus>>

ReadingAlphabet ==
  /\ NoDigits /\ ~closed /\ ~in_extended /\ builder_ = <<>> /\ expected = <<>>
  /\ \/ /\ page \in Pages
        /\ \/ parse_state = 0 /\ text = <<Solidus, LetterP, LetterA + page - 1, Solidus>>
           \/ parse_state = FIRST_SOLIDUS /\ text = <<LetterP, LetterA + page - 1, Solidus>>
           \/ parse_state = FIRST_SOLIDUS + ALPHABET /\ text = <<LetterA + page - 1, Solidus>>
     \/ /\ parse_state = FIRST_SOLIDUS + ALPHABET + ALPHABET_DEFINITION
        /\ codepage = page /\ text = <<Solidus>>
     \/ /\ parse_state = FIRST_SOLIDUS + ALPHABET + IGNORED_DIRECTIVE
        /\ 6 \in Pages /\ text = <<Solidus>>

(* What is left of the digits of c are the last ones, and hex is the others. *)
ArbitraryAt(c) ==
  \/ NoDigits /\ parse_state = 0 /\ text = <<Solidus, LetterX, Solidus>> \o Hex(c, 2)
  \/ NoDigits /\ parse_state = FIRST_SOLIDUS /\ text = <<LetterX, Solidus>> \o Hex(c, 2)
  \/ NoDigits /\ parse_state = FIRST_SOLIDUS + ARBITRARY /\ text = <<Solidus>> \o Hex(c, 2)
  \/ /\ hex_count \in {0, 1} /\ hex = c \div 16 ^ (2 - hex_count)
     /\ parse_state = FIRST_SOLIDUS + ARBITRARY + SECOND_SOLIDUS + HexRead(hex_count)
     /\ text = Hex(c, 2 - hex_count)

ReadingArbitrary ==
  /\ ~closed /\ ~in_extended /\ builder_ = <<>>
  /\ \E c \in CodePoints : c < 256 /\ expected = <<c>> /\ ArbitraryAt(c)

(* What the digits of c give, but for its last n (a character has up to 8). *)
Before(c, n) == IF n < 8 THEN c \div (16 ^ n) ELSE 0

WrittenWith(bytes) == {c \in CodePoints : bytes = 2 => c < 65536}
AfterDigits(bytes) ==
  {<<>>, CloseExtended} \cup {Hex(d, 2 * bytes) \o CloseExtended : d \in WrittenWith(bytes)}
AfterClose == {<<>>, Quote} \cup {Doubled(c) : c \in CodePoints}

(* After the digits of c the encoder stays in the sequence; others have a   *)
(* second character and end it.                                            *)
FollowsDigits(bytes, c, z) ==
  \/ in_extended /\ bytes = num_bytes /\ z = <<>> /\ builder_ = <<>> /\ expected = <<c>>
  \/ /\ ~in_extended /\ builder_ = <<>>
     /\ \E d \in WrittenWith(bytes) :
          expected = <<c, d>> /\ z = Hex(d, 2 * bytes) \o CloseExtended
  \/ /\ ~in_extended /\ z = CloseExtended
     /\ \E d \in CodePoints : builder_ = <<d>> /\ expected = <<d, c>>

(* How far the beginning and the end of a sequence are read, y follows. *)
OpenAt(bytes, y) ==
  \/ parse_state = 0 /\ text = OpenExtended(bytes) \o y
  \/ parse_state = FIRST_SOLIDUS /\ text = <<LetterX, Zero + bytes, Solidus>> \o y
  \/ parse_state = FIRST_SOLIDUS + ARBITRARY /\ text = <<Zero + bytes, Solidus>> \o y
  \/ parse_state = Extended(bytes) - SECOND_SOLIDUS /\ text = <<Solidus>> \o y

CloseAt(bytes, y) ==
  \/ parse_state = Extended(bytes) + ENCOUNTERED_HEX /\ text = CloseExtended \o y
  \/ parse_state = Extended(bytes) + THIRD_SOLIDUS /\ text = <<LetterX, Zero, Solidus>> \o y
  \/ /\ parse_state = Extended(bytes) + THIRD_SOLIDUS + ENDEXTENDED_X
     /\ text = <<Zero, Solidus>> \o y
  \/ /\ parse_state = Extended(bytes) + THIRD_SOLIDUS + ENDEXTENDED_X + ENDEXTENDED_0
     /\ text = <<Solidus>> \o y

ReadingOpen ==
  /\ NoDigits /\ ~closed /\ builder_ = <<>>
  /\ \E bytes \in {2, 4} : \E c \in WrittenWith(bytes) : \E z \in AfterDigits(bytes) :
       FollowsDigits(bytes, c, z) /\ OpenAt(bytes, Hex(c, 2 * bytes) \o z)

ReadingDigits ==
  /\ ~closed
  /\ \E bytes \in {2, 4} : \E c \in WrittenWith(bytes) : \E z \in AfterDigits(bytes) :
       /\ FollowsDigits(bytes, c, z)
       /\ hex_count \in 0..2 * bytes - 1
       /\ hex = Before(c, 2 * bytes - hex_count)
       /\ \/ parse_state = Extended(bytes) + HexRead(hex_count) /\ builder_ = <<>>
          \/ parse_state = Extended(bytes) + ENCOUNTERED_HEX + HexRead(hex_count)
       /\ text = Hex(c, 2 * bytes - hex_count) \o z

(* What follows the end of a sequence: nothing, the printable character or  *)
(* the quote before which the encoder ended it.                            *)
FollowsClose(z) ==
  \/ z = <<>> /\ ~closed /\ builder_ = expected
  \/ ~closed /\ builder_ = <<>> /\ \E c \in CodePoints :
       within_spf_range(c) /\ z = Doubled(c) /\ expected = <<c>>
  \/ z = Quote /\ closed /\ builder_ = <<>> /\ expected = <<>>

ReadingClose ==
  /\ NoDigits /\ (closed \/ ~in_extended)
  /\ \E bytes \in {2, 4}, z \in AfterClose : FollowsClose(z) /\ CloseAt(bytes, z)

ReadingMistake ==
  /\ NoDigits /\ ~closed
  /\ \/ parse_state = 0 /\ text = <<Solidus, LetterT>>
     \/ parse_state = FIRST_SOLIDUS /\ text = <<LetterT>>

DecoderInv ==
  /\ writer = "other" => ~in_extended
  /\ status = "reading" /\ ~mistaken =>
       \/ ReadingAlphabet
       \/ /\ AlphabetKnown
          /\ \/ ReadAll \/ ReadingPlain \/ ReadingQuote \/ ReadingPage \/ ReadingDirective
             \/ ReadingArbitrary \/ ReadingOpen \/ ReadingDigits \/ ReadingClose
  /\ status = "reading" /\ mistaken => ReadingMistake
  /\ status = "thrown" =>
       \/ mistaken /\ ReadingMistake /\ text = <<LetterT>>
       \/ reader = "get" /\ ReadingPage /\ (expected = <<0>> \/ 6 \in Pages)
  /\ status = "ended" => ~mistaken /\ ReadingQuote /\ text = <<Comma>>

(* get() stays at a character that it cannot convert. *)
NoCharacterInv ==
  NoCharacter /\ 6 \notin Pages => ~mistaken /\ codepage = page /\ ReadingPage
==============================================================================
