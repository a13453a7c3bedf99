SPECIFICATION Spec
CONSTANTS
    publisher = publisher
    user = user
    Absent = absent
    Empty = empty
    Part = part
    Hosts <- Both
    MaxImage = 2
    Paths <- AsUsed
INVARIANT FetchedIsAttachedCbom
