SPECIFICATION Spec
CONSTANTS
    s1 = s1
    s2 = s2
    m1 = m1
    m2 = m2
    m3 = m3
    wIn = wIn
    wOut = wOut
    wRes = wRes
    wOther = wOther
    k1 = k1
    Sessions = {s1, s2}
    Ids = {m1, m2, m3}
    Indexes = {0}
    Texts = {"a"}
    Writers = {wIn, wOut, wRes, wOther}
    Keys = {k1}
    MaxVersion = 1
    Grant <- MCGrant
    Offers <- MCOffers
INVARIANTS
    ResultsAnswerOneCall
    NoUnseenPrefix
    RecordsBacked
PROPERTIES
    AppendOnly
