SPECIFICATION Spec
CONSTANTS
    s1 = s1  s2 = s2  s3 = s3  r1 = r1  r2 = r2  f1 = f1
    c1 = c1  c2 = c2  i1 = i1  x1 = x1  x2 = x2  t1 = t1
    h1 = h1  h2 = h2  k1 = k1  k2 = k2
    Absent = Absent  Probe = Probe
CHECK_DEADLOCK FALSE
PROPERTIES CallsConclude CommandsTakeEffect SlotsComeBack SearchesEnd
