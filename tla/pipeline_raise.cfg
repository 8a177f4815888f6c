SPECIFICATION FairSpec
CONSTANTS
  t1 = t1  t2 = t2  t3 = t3
  Names = {t1, t2, t3}
  NoName = NoName
  Queue <- Queue2
  MaxInterrupts = 2
  OthersRaise = TRUE
INVARIANTS
  InterruptReachesGuests
  
  EveryNameRecorded
PROPERTY Termination
