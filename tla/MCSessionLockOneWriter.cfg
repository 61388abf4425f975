SPECIFICATION Spec
CONSTANTS
    s1 = s1
    s2 = s2
    s3 = s3
    s4 = s4
    here = here
    there = there
    pid1 = pid1
    pid2 = pid2
    Absent = Absent
    Nobody = Nobody
    Session <- MCSession
    Host <- MCHost
    Pid <- MCPid
    HostOf <- MCHostOf
    PidOf <- MCPidOf
INVARIANT OneWriter
CHECK_DEADLOCK FALSE
