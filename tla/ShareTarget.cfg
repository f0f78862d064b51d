\* Bytes of 2 bits, integers of 4 bytes, every mantissa, factors up to 3 bytes.
SPECIFICATION Spec
CONSTANTS
  Base = 4
  Limbs = 4
  Exponents = {0, 1, 2, 3, 4, 5, 6}
  Factors = {1, 6, 16, 63}
INVARIANTS
  PartialProduct
  ExactOrError
  SameTarget
  HitsMeetBoundUnlessNegative
