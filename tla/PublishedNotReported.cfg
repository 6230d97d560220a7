SPECIFICATION Spec
CONSTANTS
    None = None
    s1 = s1
    s2 = s2
    c1 = c1
    w1 = w1
    w2 = w2
    h1 = h1
    h2 = h2
    h3 = h3
    ContractIds = {c1}
    SubmissionIds = {s1}
    Runs = {r1}
    Requests = {q1, q2}
    Workers = {w1}
    Handlers = {h1}
    WorkerOf <- OneHandler
    Misconfigured = {}
    Faults = {}
    MaxFaults = 0
INVARIANTS
    PublishedIsReported
CHECK_DEADLOCK FALSE
