SPECIFICATION Spec
CONSTANTS
    api = api
    tab = tab
    upsert = upsert
    s = s
    u = u
    x = x
    y = y
    z = z
    none = none
    k1 = k1
    k2 = k2
    k3 = k3
    k4 = k4
    k5 = k5
    kU = kU
    Claimed = 5
    Request = {api, tab, upsert}
    Upsert = {upsert}
    BatchOf <- MCBatchOf
    Key = {k1, k2, k3, k4, k5, kU}
    Source = {s}
    Slot = {1, 2}
    Content = {u, x, y, z}
    None = none
    MaxFaults = 1
INVARIANTS VersionsNumbered StoredOnce AnsweredStored NothingToReconcile
PROPERTY RefinesArchive
