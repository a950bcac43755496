SPECIFICATION Spec
CONSTANTS
    Texts <- MCTexts
    Trimmed <- MCTrimmed
    ImageNames = {"image"}
    Lowered <- MCLowered
    Stored <- MCStored
    Typed <- MCTyped
    Patches <- MCPatches
    Answers <- MCAnswers
    MaxFields = 2
    MaxEdits = 3
INVARIANTS SavableIsShown LookingIsClean ImagesAreImages
