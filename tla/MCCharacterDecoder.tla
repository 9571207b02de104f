-------------------------- MODULE MCCharacterDecoder --------------------------
(* Small instances of CharacterDecoder for TLC. *)
EXTENDS CharacterDecoder

(* Line feed, apostrophe, the letters and digits that mean something after  *)
(* a solidus, the solidus, delete, one of Latin-1, one of the basic plane,  *)
(* the last one of that plane and one above it.                             *)
MCCodePoints == {10, Apostrophe, Zero, Two, LetterF, LetterP, LetterS, LetterX, Solidus,
                 127, 233, 8364, 65535, 128512}

MCPageChars == {Apostrophe, LetterA, Solidus}
==============================================================================
