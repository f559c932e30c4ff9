\* Two QA passes of one batch's last two records, at a time.
SPECIFICATION CcSpec
CONSTANTS
    r1 = r1
    r2 = r2
    q1 = q1
    q2 = q2
    Rows = {r1, r2}
    Requests = {q1, q2}
    NoRequest = NoRequest
    MaxQaTasks = 2
    Flagged = {r1}
INVARIANTS
    LastPassAdvances
