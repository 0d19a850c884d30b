SPECIFICATION Spec
CONSTANTS
    mqtt = mqtt  http = http  north = north  south = south  p1 = p1  p2 = p2
    Channel = {north, south}
    Type = {mqtt, http}
    TypeOf <- TypeOfEach
    KindOf <- KindOfEach
    MaxFlight = 3
    Choice = {p1, p2}
    MaxAsked = 2
    Plans <- SmallPlans
INVARIANTS SavesItsOwn DialogIsTrue
PROPERTY CatchesUp
CHECK_DEADLOCK FALSE
