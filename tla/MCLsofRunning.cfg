SPECIFICATION Spec
CONSTANTS
    Pid = {1, 2, 3}
    Fd = {"3", "4"}
    File <- MCFile
    Node <- MCNode
    Unlinked = {"old"}
    Denied = {3}
    Link <- MCLink
    Maps <- MCMaps
    Open <- MCOpen
    Limit = 1
    Type <- MCType
    Command <- MCCommand
    CommandLines <- NoOptions
    Found <- MCFound
    Malformed = {"("}
PROPERTIES
    RunningListed
