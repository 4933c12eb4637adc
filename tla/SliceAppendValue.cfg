\* As Slice.cfg, with append(val) also called for a slice cut from inside its array.
SPECIFICATION Spec
CONSTANTS
  x1 = x1
  x2 = x2
  v1 = v1
  a1 = a1
  a2 = a2
  a3 = a3
  None = None
  Unset = Unset
  T = {v1}
  Names = {x1, x2}
  Arrays = {a1, a2, a3}
  MaxCap = 3
  MaxLen = 2
  Uses = {"value"}
PROPERTY AppendsAtTheEnd
SYMMETRY Symmetry
