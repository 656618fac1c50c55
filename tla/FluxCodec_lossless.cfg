SPECIFICATION Spec
CONSTANTS
    Intervals = {1, 249, 250, 504, 505, 1524, 1525, 1779, 16633, 268435704}
    MaxIntervals = 2
INVARIANTS ZeroEnds PublishedTrue
PROPERTIES Decodable
