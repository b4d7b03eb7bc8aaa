\* Two processes write a file, of which a good one may be unreadable; one writes
\* and one reads; two threads share a memory cache.
CONSTANTS
    x1 = x1  x2 = x2  k1 = k1  k2 = k2  h1 = h1  h2 = h2  h3 = h3
    NoFile = NoFile
    Keys = {k1, k2}
    Vals = {live, old}
    Purgeable = {old}
    Inodes = {h1, h2, h3}
    Processes = {x1, x2}
    Calls <- TwoWriters
    Faults = {"crash", "read"}
    Writer = w
    Readers = {r}
    Threads = {x1, x2}
    ReadOnly = FALSE
    MaxTime = 2
SYMMETRY Symmetry
SPECIFICATION MCSpec
INVARIANTS
    CachesTypeOK
    StampMissesOnlyByOverlap
PROPERTIES
    LostOnlyByOverlap
    PurgeSparesLive
    CachesLinearizable
