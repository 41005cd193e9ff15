SPECIFICATION FairSpec
CONSTANTS
    d1 = d1
    d2 = d2
    hosted = hosted
    foreign = foreign
    blue = blue
    green = green
    None = None
    Drivers = {d1, d2}
    Systems = {hosted, foreign}
    Tags = {blue, green}
    HostOf <- OneHost
    TagOf <- TwoTags
    APICalls <- ForeignCalls
    MaxStarts = 3
    MaxCalls = 2
INVARIANTS
    HostInv
    SystemAnswersAreTrue
PROPERTIES
    ImplementsSystemRegistry
    SystemCallsReturn
    CloseReturns
CHECK_DEADLOCK FALSE
