\* Every text of five tokens of n, 2, %, < and ==.
CONSTANTS
    Undefined = Undefined
    Texts <- MCFiveTokens
    Digits <- MCDigits
    Numbers <- MCNumbers
SPECIFICATION FormsSpec
INVARIANT
    AcceptsC
