------------------------------ MODULE MCSignedWire ------------------------------
(***************************************************************************)
(* SignedWire with payloads of up to two symbols that an escape or the     *)
(* search for the payload's end could get wrong, and single characters of  *)
(* every width of UTF-8.  The signature has one byte more than a multiple  *)
(* of three, as Ed25519's 64 do, and needs both replaced characters.  The  *)
(* edits reach every other spelling the reader takes: \/ and \u escapes,    *)
(* upper-case hex, blanks before a signature, leading zeros.               *)
(***************************************************************************)
EXTENDS SignedWire

LineFeed == 10
StartOfHeading == 1
UnitSeparator == 31
UpperF == 70
Delete == 127
EAcute == 233
Euro == 8364
Emoji == 128512

MCFaultyContents == {<<Backslash, Slash>>, <<Quote, RBrace, UnitSeparator>>}

MCContents ==
    BoundedSeq({Quote, Backslash, RBrace, 110}, 2)
        \cup MCFaultyContents
        \cup {<<c>> : c \in {LBrace, Comma, LineFeed, StartOfHeading, Delete, EAcute, Euro, Emoji}}
MCIds == {<<LowerA>>, <<Quote, Comma>>}
MCTimes == {-8, -1, 7, 8}
MCSignatures == {<<255, 239, 190, 251>>}
MCEditPieces ==
    {<<s>> : s \in {Quote, Backslash, LBrace, RBrace, Comma, Minus, Zero, LowerA, UpperF, Plus, Pad, Blank}}
        \cup {<<>>, <<Blank, Blank, Blank, Blank>>}
================================================================================
