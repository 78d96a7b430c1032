SPECIFICATION Spec
CONSTANTS
    Contents = {c1, c2}
    None = None
    MaxGeneration = 3
PROPERTIES
    CurrentConnectionOnly
CHECK_DEADLOCK FALSE
