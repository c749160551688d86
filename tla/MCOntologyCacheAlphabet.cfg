SPECIFICATION Spec
CONSTANTS
  Threads = {t1}
  NoThread = NoThread
  MaxWrites = 2
INVARIANT OfItsAlphabet
