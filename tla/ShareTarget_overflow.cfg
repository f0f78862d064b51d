\* A product whose overflow is a multiple of a byte.
SPECIFICATION Spec
CONSTANTS
  Base = 4
  Limbs = 4
  Exponents = {4}
  Factors = {16}
INVARIANT OverflowIsError
