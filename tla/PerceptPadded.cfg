SPECIFICATION Spec
CONSTANTS
    LastStage = 3
    Needs <- MCNeeds
    Noting = {1, 3}
    Outputs = {x, y}
    NoOutput = NoOutput
    Assignments = {a1}
    NoAssignment = NoAssignment
    Supervisors = {s1, s2}
    Chats = {s1}
    Workers = {w1, w2}
    NoWorker = NoWorker
    MaxTries = 1
    MaxAttempts = 3
    plain = plain
    padded = padded
    Prompts = {padded}
    NoPrompt = NoPrompt
    Stripped <- MCStripped
    MaxFaults = 1
PROPERTIES
    ClearedInteractionResumes
