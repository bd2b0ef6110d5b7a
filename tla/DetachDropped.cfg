SPECIFICATION AgainSpec
CONSTANTS
    slow = slow  fast = fast
    f1 = f1  f2 = f2  p1 = p1  p2 = p2
    EndpointOf <- Endpoints
CHECK_DEADLOCK FALSE
INVARIANT DroppedDetachKeepsTcp
