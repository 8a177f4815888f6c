SPECIFICATION Spec
CONSTANTS
  t1 = t1  t2 = t2  t3 = t3
  Names = {t1, t2, t3}
  NoName = NoName
  Queue <- Queue3
  MaxInterrupts = 0
  OthersRaise = TRUE
INVARIANT RebuiltAfterRc
