SPECIFICATION Spec
CONSTANTS
  a1 = a1
  a2 = a2
  b1 = b1
  b2 = b2
  A = A
  B = B
  Threads = {A, B}
  Handles = {a1, a2, b1, b2}
  Owner <- OwnerVal
  MaxBlobs = 3
  Arity = 1
  MaxElems = 1
SYMMETRY Symmetry
INVARIANT RefCountExact
