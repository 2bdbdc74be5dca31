SPECIFICATION MTRSpec
CONSTANTS
    z1 = z1
    z2 = z2
    kitchen = kitchen
    hall = hall
    Zone = {z1, z2}
    Total = total
    AreaOf <- MCAreaOf
    Overlapping = overlapping
    Outside = outside
    Absent = Absent
    Resolution = 2
    MaxCount = 2
    MaxAt = 1
    MaxSequence = 4
INVARIANTS
    PopulationIsTheTotal
