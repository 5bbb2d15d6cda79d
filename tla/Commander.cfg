CONSTANTS
    Chips = {"arm", "rv"}
    Chunk = 2
    Counts = {1, 2, 3}
    MaxLate = 2
    MaxFaults = 2
SPECIFICATION Spec
INVARIANTS TypeOK AsTold BlockComplete
PROPERTIES StaysHalted CommandsEnd
