SPECIFICATION EndpointSpec
CONSTANTS
    a = a
    b = b
    c = c
    x = x
    y = y
    z = z
    Readers = {r1, r2, walker}
    Walker = walker
    Firmware = {old, new}
    None = None
    Members = {a, b, c}
    Subjects = {x, y, z}
    Nobody = Nobody
    Listings <- MCListings
    Budget = 3
SYMMETRY Symmetry
INVARIANTS
    FreshUnlessOvertaken
    InventoryIsTold
