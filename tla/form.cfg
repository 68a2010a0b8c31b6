\* Every form of up to four fields over two texts.
CONSTANTS
  Texts = {t1, t2}
  Script = Script
  Block = Block
  Malformed = Malformed
  Uuid = Uuid
  Panic = Panic
  None = None
  MaxFields = 4
SPECIFICATION Spec
SYMMETRY Symmetry
INVARIANTS TypeOK AcceptsWhatIsComplete StartsWhatWasAsked 
CHECK_DEADLOCK FALSE
