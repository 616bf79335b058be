\* Up to three seats for three people.
CONSTANTS
    owner = owner  p1 = p1  p2 = p2  i1 = i1  h1 = h1  h2 = h2
    People = {owner, p1, p2}
    Owner = owner
    Registered = {owner, p1}
    Invites = {i1}
    Handlers = {h1, h2}
    MaxSeats = 3
    MaxEvents = 3
    MaxRequests = 4
    MaxFails = 1
SPECIFICATION MCSpec
INVARIANTS   BilledSeats StatusFollowsStripe
PROPERTY PaidIsLinked
