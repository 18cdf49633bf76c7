\* Every header of up to two lines, fields of other programs among them.
CONSTANTS
    Undefined = Undefined
    Texts <- MCHeaders
    Digits <- MCDigits
    Numbers <- MCNumbers
SPECIFICATION FormsSpec
INVARIANT
    NamesAreDeclared
