SPECIFICATION Spec
CONSTANTS
    Runs = {r1}
    Tier1 = {http, ssl}
    Tier2 = {nuclei}
    Promotes = {p1}
    Dismisses = {d1}
    MaxFound = 2
    ChunkSize = 2
INVARIANTS TypeOK FindingsAddUp DecisionsExclude
PROPERTY RunsEnd
CHECK_DEADLOCK FALSE
