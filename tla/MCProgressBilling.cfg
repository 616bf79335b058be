\* One request at a time: draws, releases, voids and late fees in any order.
CONSTANTS
    h1 = h1  h2 = h2
    Handlers = {h1}
    Contract = 10
    Percents = {25, 50, 100}
    RetainagePercents = {50}
    Partial = {1}
    Fees = {1}
    MaxDraws = 3
    MaxReleases = 2
    MaxFees = 1
SPECIFICATION MCSpec
  
PROPERTIES ReleaseCapped
