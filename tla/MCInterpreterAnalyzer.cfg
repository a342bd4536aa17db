\* Two states, two thread ids and two page tables.
SPECIFICATION AnalyzerSpec
CONSTANTS
    States = {s1, s2}
    Tids = {1, 2}
    PageTables = {p1, p2}
    Guests = {"plain", "shares", "forksEarly"}
SYMMETRY Symmetry
INVARIANTS ThreadsSchedulable CallbacksFindThread  DetectorFindsThread
CHECK_DEADLOCK FALSE
