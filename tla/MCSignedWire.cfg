SPECIFICATION Spec
INVARIANT AcceptedIsSigned
INVARIANT ContentPreserved
INVARIANT UntouchedAccepted
INVARIANT StructureStrict
CHECK_DEADLOCK FALSE
CONSTANTS
    IntMax = 7
    Contents <- MCContents
    Ids <- MCIds
    Times <- MCTimes
    Signatures <- MCSignatures
    EditPieces <- MCEditPieces
    FaultyContents <- MCFaultyContents
