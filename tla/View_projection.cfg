SPECIFICATION Spec
CONSTANTS
    Calls = {c1, c2}
    Requests = {"granted", "refused"}
    Searches = {}
    MaxRounds = 2
    Overflows = {2}
    Abandons = {"failed", "cancelled"}
    MaxActivities = 1
    MaxVisits = 0
    MaxFaults = 1
    None = None
INVARIANTS  AtWorkShown
CHECK_DEADLOCK FALSE
