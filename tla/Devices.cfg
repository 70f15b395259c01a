SPECIFICATION Spec
CONSTANTS
    Wdevs = {w1, w2}
    Users = {u1}
    d1 = d1
    d2 = d2
    d3 = d3
    d4 = d4
    Disks = {d1, d2, d3, d4}
    Requests <- Several
    NKeys = 2
    NoDev = NoDev
    Prealloced = Prealloced
    AnyMinor = AnyMinor
    NoName = NoName
INVARIANTS
    ListExact
    UsersHaveDevice
    NothingLeaked
PROPERTIES
    LifeEnds
