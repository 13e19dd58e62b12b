\* Three files, three messages: the record of one may be left half set by the
\* event of another, and the next message finds it so.
SPECIFICATION Spec
CONSTANTS
  f1 = f1
  f2 = f2
  f3 = f3
  Files = {f1, f2, f3}
  MaxMessages = 3
  NoFile = NoFile
SYMMETRY FileSymmetry
INVARIANTS ListenerNeverBlocks EachFileOnce FirstFileIsOffered TrueIsOfThisMessage
\* messages and files run out
CHECK_DEADLOCK FALSE
