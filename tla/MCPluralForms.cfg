\* Every header of up to three lines, every text of up to four tokens, and five
\* operands with every operator.
CONSTANTS
    Undefined = Undefined
    Texts <- MCTexts
    Digits <- MCDigits
    Numbers <- MCNumbers
SPECIFICATION FormsSpec
INVARIANTS
    RejectedHasNoForms
    NamesFromOwnLines
    FieldsFromOwnLines
    AcceptsUnchainedC
    MeansWhatCMeans
