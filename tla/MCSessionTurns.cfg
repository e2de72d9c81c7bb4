\* A prompt that a scan reads before the answer to it is written.
SPECIFICATION ParseSpec
CONSTANTS
    Session = {s1}
    Message = {m1, m2}
    User = User
    MaxLines = 2
INVARIANTS
    TurnsAsFullParse
