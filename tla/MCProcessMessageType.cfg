SPECIFICATION Spec
CONSTANTS
    m1 = m1
    Messages = {m1}
    MaxAttempts = 2
INVARIANT
    JobMessageIsJobPosting
