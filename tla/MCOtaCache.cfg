SPECIFICATION LiveSpec
CONSTANTS
    Boots = {b1, b2}
    Tarball = frontend_tar_gz
    Agent = agent_linux_x86_64
    Releases = 3
    Published <- WithEmptyRelease
    Leftovers <- FreshOrFull
    MaxExits = 2
CHECK_DEADLOCK FALSE
INVARIANT TypeOK
INVARIANT PassInstalls
INVARIANT RestartRestored
PROPERTY CacheHeals
