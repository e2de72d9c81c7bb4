\* Three processes that crash anywhere but under the guard; and a scan of three session
\* files into which agents write three lines, of two messages and of prompts.
SPECIFICATION CacheSpec
CONSTANTS
    s1 = s1
    s2 = s2
    s3 = s3
    m1 = m1
    m2 = m2
    Contender = {p1, p2, p3}
    Stalls = FALSE
    GuardLeaks = FALSE
    MaxCrashes = 3
    Missing = Missing
    Session = {s1, s2, s3}
    Message = {m1, m2}
    User = User
    MaxLines = 3
SYMMETRY CacheSymmetry
INVARIANTS
    MutualExclusion
    CallsAsFullParse
    EveryCallKept
PROPERTIES
    LeaseSpec
