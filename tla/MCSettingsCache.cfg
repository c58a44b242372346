SPECIFICATION Spec
CONSTANTS
    Values = {draw_start, r1_progressive}
    Default = draw_start
    Readers = {h1, h2}
    Writers = {a1, a2}
    Draws = {d1, d2}
    None = None
SYMMETRY Symmetric
INVARIANTS
    TypeOK
    OnlyCommittedIsUsed
    CoherentUnlessRaced
