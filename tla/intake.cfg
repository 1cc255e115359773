CONSTANTS
    Events = {1, 2}
    Bodies <- MCBodies
    Hooks = {h1}
    Pushes = {s1}
    MaxAttempts = 2
    MaxSends = 2
    MaxErrors = 2
    MaxDeploys = 1
SPECIFICATION Spec
CHECK_DEADLOCK FALSE
INVARIANTS
    HandledOnce
    AnsweredIsNotForgotten
PROPERTIES
    AnsweredIsSettled
