\* Every text over ten vocabularies, read token by token.
SPECIFICATION Spec
CONSTANTS
    Inputs <- SmallInputs
    MaxItems = 6
    MaxDefinitions = 4
    MaxLines = 2
    AfterError = 3
INVARIANT OnlySentences
INVARIANT NothingLost
PROPERTY ErrorsAreReal
PROPERTY Ends
