SPECIFICATION Spec
CONSTANTS
    Apps = {app}
    Files <- OneDamaged
    Nodes = 2
    NodeLimit = 1
    MaxRequests = 6
    MaxChanges = 0
    Faults = {}
    MaxFaults = 0
    MaxGeneration = 4
PROPERTIES
    BrokerAnswers
CHECK_DEADLOCK FALSE
