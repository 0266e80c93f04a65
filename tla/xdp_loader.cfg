\* Starts, stops, crashes and unloads of up to four daemons.
CONSTANTS
    Interfaces <- MCInterfaces
    Attempts = 2
    HasUnload = TRUE
    MaxDaemons = 4
SPECIFICATION Spec
INVARIANTS TypeOK CleanStart NothingLeft
PROPERTY UnloadClears
