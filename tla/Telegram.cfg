SPECIFICATION MCSpec
CONSTANTS
    Roles = {"card", "plan", "ordered", "attention", "dashboard", "reply", "notice"}
    Senders = {s1, s2}
    MaxVersion = 2
    MaxAttempts = 2
    MaxFaults = 2
    MaxDefers = 2
INVARIANTS
    ChatShowsTheRow
    MessageActsOnce
PROPERTIES
    EndedIsFinal
    
CHECK_DEADLOCK FALSE
