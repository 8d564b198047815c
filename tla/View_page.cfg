SPECIFICATION Spec
CONSTANTS
    Calls = {c1}
    Requests = {}
    Searches = {c1}
    MaxRounds = 1
    Overflows = {}
    Abandons = {}
    MaxActivities = 3
    MaxVisits = 2
    MaxFaults = 0
    None = None
INVARIANTS TypeOK  ResponseIsCurrent PanelInOrder
PROPERTIES ResponseLatch ReloadKeepsTheStory
CHECK_DEADLOCK FALSE
