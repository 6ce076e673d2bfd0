SPECIFICATION Spec
CHECK_DEADLOCK FALSE
CONSTANTS
    a = a
    b = b
    c = c
    None = None
    Sessions = {a, b, c}
    Grouped = {a, b}
    Priority <- MCPriority
    Keys = {1, 2}
    Queries = {1, 2}
    Bounds = {0, 1}
    MaxGates = 2
    CacheEntries = 1
    Workloads <- MCWorkloads

    
    
    
PROPERTIES
    NoOvertaking
    
