SPECIFICATION Spec
CONSTANTS
    Chats = {"c1"}
    Msgs = {m1}
    NoMsg = NoMsg
    ChatOf <- OneChat
    Calls = {1, 2}
    Runs = {r1, r2}
    NoRun = NoRun
    Reqs = {q1, q2}
    MaxId = 4
    MaxAsks = 2
    MaxStops = 1
    MaxUntyped = 1
    MaxCrashes = 1
CHECK_DEADLOCK FALSE
SYMMETRY TurnSymmetry
INVARIANTS OneTurnPerMessage AnsweredBeforeResume LastAnswerResumes
PROPERTY OutcomeIsFinal
