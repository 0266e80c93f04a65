\* The clean before the second interface takes the program off the first.
CONSTANTS
    Interfaces <- MCInterfaces
    Attempts = 1
    HasUnload = FALSE
    MaxDaemons = 1
SPECIFICATION Spec
PROPERTY AllProtected
CHECK_DEADLOCK FALSE
