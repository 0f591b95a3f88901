SPECIFICATION Spec
CONSTANTS
  Buffers = {s, t}
  Texts = {0, 1, 9}
  Numerals = {9, 10}
  MaxLength = 21
  Width = 256
SYMMETRY Symmetry
INVARIANTS SumsStayInBlock
