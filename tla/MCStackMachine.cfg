\* Every expression of two levels over representative parts, called with every n.
CONSTANTS
    Undefined = Undefined
    Sources <- MCSources
    Numbers <- MCNumbers
    Value <- Eval
    ZeroOne <- IsBoolean
    Program <- Emit
    Height <- MCHeight
SPECIFICATION Spec
INVARIANTS
    TypeOK
    HeightByPosition
    OperandsPresent
    EndsBalanced
PROPERTIES
    ImplementsFunction
\* A division by zero ends the program.
CHECK_DEADLOCK FALSE
