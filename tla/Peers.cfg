SPECIFICATION MCSpec
CONSTANTS
    Workers = {w1, w2, w3, w4}
    Configs <- TightOrLoose
    Window = 2
    p1 = p1  p2 = p2  server = server  buddy = buddy  f1 = f1  f2 = f2
    t1 = t1  t2 = t2  s1 = s1  s2 = s2
    c1 = c1  c2 = c2  u1 = u1  i1 = i1  i2 = i2  k1 = k1  k2 = k2
    Absent = Absent
SYMMETRY Alike
INVARIANTS SlotAccounting TicketsOwned GrantsTracked
PROPERTIES AdmissionWithinLimits FilesAccounted TurnsKept
