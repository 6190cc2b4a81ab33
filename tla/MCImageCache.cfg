CONSTANTS
  a = a
  b = b
  pin = pin
  small = small
  large = large
  c1 = c1
  c2 = c2
  Keys = {a, b, pin}
  Pinned = {pin}
  Images = {small, large}
  Size <- SmallLarge
  MaxEntries = 2
  MaxBytes = 3
  Callers = {c1, c2}
  NoKey = NoKey
  NoImage = NoImage
  NoAnswer = NoAnswer
SPECIFICATION Spec
VIEW UpToOrder
SYMMETRY Interchangeable
INVARIANTS
  BooksAreRight
PROPERTIES
  FreshOutlive
  ImplementsImageStore
