SPECIFICATION Spec
CONSTANTS
    fine = fine
    held_back = held_back
    long = long
    deep = deep
    p1 = p1
    p2 = p2
    None = None
    MaxRounds = 3
    Content <- MCContent
    Policy <- MCPolicy
    Verdict <- MCVerdict
INVARIANTS IndexAgrees AnswerMatchesScan
