SPECIFICATION Spec
CONSTANTS
    Sender = {s1, s2}
    Session = {h1, h2}
    Request = {q1, q2}
    Doc = {d}
    MaxCalls = 3
    Nothing = Nothing
SYMMETRY MCSymmetry
INVARIANTS TypeOK WaitingIsShown EquivalentOnce AnswersHold
