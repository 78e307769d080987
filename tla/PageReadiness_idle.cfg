SPECIFICATION Spec
CONSTANTS
    Requests = {r1, r2}
    MaxHops = 0
    Threshold = 2
PROPERTIES StableMeansQuiet
CHECK_DEADLOCK FALSE
