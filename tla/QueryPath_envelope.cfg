\* Violation: an error is displayed as an empty table.
CONSTANTS
    e1 = e1
    e2 = e2
    e3 = e3
    c1 = c1
    c2 = c2
    g1 = g1
    g2 = g2
    Events = {e1, e2}
    TimeOf <- TwoTimes
    CritOf <- TwoCrits
    Readers = {"r1"}
    Queries = {c1, c2}
    Gets = {}
    Ask <- AskTwo
    MaxStops = 0
SPECIFICATION SafeSpec
PROPERTIES
    EmptyIsAResult
