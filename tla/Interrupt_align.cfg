SPECIFICATION Spec
CONSTANTS
  Vectors = {7, 8, 9, 10, 14, 15, 17, 18, 32, 255}
  Handled = {14, 32}
  Exceptions = {8, 14, 18}
INVARIANT
  CallIsAligned
