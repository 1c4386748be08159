SPECIFICATION Spec
CONSTANTS interval_ = 5  number_of_processors_ = 2  Tick = 2  MaxDelay = 1  MaxWait = 7  UIntMax = 65535
INVARIANTS TypeOK UsageIsPercent
