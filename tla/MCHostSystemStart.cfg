SPECIFICATION Spec
CONSTANTS
    d1 = d1
    d2 = d2
    hosted = hosted
    foreign = foreign
    blue = blue
    green = green
    None = None
    Drivers = {d1, d2}
    Systems = {hosted, foreign}
    Tags = {blue, green}
    HostOf <- OneHost
    TagOf <- TwoTags
    APICalls <- ForeignCalls
    MaxStarts = 2
    MaxCalls = 0
INVARIANTS
    StartsAreNotRefused
CHECK_DEADLOCK FALSE
