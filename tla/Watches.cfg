CONSTANTS
    Watch = {1, 2}
    Threads = {loop, api}
    Loop = loop
    Raw <- Submissions
    Markets <- Bars
    Pushed = {1}
    MaxEvents = 2
SPECIFICATION FairSpec
INVARIANTS ArmedMeansAnnounced
PROPERTIES SteadyConditionAlertsOnce TrueConditionIsAnnounced
CHECK_DEADLOCK FALSE
