\* Three movements of one or two units at two costs that blend unevenly.
CONSTANTS
    w1 = w1  w2 = w2  d1 = d1  h1 = h1  h2 = h2  NoCost = NoCost
    Warehouses = {w1, w2}
    Quantities = {1, 2}
    Costs = {1, 4}
    Documents = {d1}
    Calls = {h1, h2}
    MaxMoves = 3
    MaxFails = 1
SYMMETRY Symmetric
SPECIFICATION MCSpec
INVARIANTS LevelsAddUp ValuationHolds 
