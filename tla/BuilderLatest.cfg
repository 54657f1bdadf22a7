SPECIFICATION MCSpec
CONSTANTS
    None = None
    Nodes = {"n1"}
    Pods = {"p1"}
    MaxEvents = 2
    MaxPolls = 1
PROPERTIES
    LatestIsAsBuilt
