\* Two contexts and four places for caches; bodies of up to four bytes and a first
\* buffer of two, which is made larger twice; a dialog is told to close twice.
CONSTANTS
    x1 = x1  x2 = x2  h1 = h1  h2 = h2  h3 = h3  h4 = h4  window = window  None = None
    Contexts = {x1, x2}
    Caches = {h1, h2, h3, h4}
    CacheNames <- Names
    Windows = {window}
    Options <- Asked
    MaxBody = 4
    Bufsiz = 2
    MaxRedirects = 1
    Dates = {10, 12}
    Day = 3
    invalid = invalid
    MaxCloses = 2
SYMMETRY Symmetry
SPECIFICATION MCSpec
INVARIANTS
    LibraryTypeOK
    CachesOwned
    OptionsHaveCaches
    ReplyCollected
    SessionSafe
CHECK_DEADLOCK FALSE
