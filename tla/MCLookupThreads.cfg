\* Three threads and a message that lacks the string of the third form.
CONSTANTS
    Undefined = Undefined
    Thread = {t1, t2, t3}
    Numbers = {1, 2, 3, 5}
    Program <- MCProgram
    Form <- MCForm
    Strings = 2
    NoThread = NoThread
    LoneStack <- MCLoneStack
SPECIFICATION Spec
INVARIANTS
    AnswersTheirOwnN
    NobodyTakesOperands
