SPECIFICATION FairSpec
CONSTANTS
    a1 = a1
    b1 = b1
    b2 = b2
    w1 = w1
    w2 = w2
    r1 = r1
    d1 = d1
    None = None
    Former = {b1}
    Agents = {a1}
    Bases = {b1, b2}
    Writers = {w1, w2}
    Runners = {r1}
    Droppers = {d1}
    Faults = {"error", "lost"}
CHECK_DEADLOCK FALSE
INVARIANTS TypeOK RunConfigured AnswersTrue
PROPERTIES ImplementsRegistry EveryoneAnswered
