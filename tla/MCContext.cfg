SPECIFICATION Spec
CONSTANTS
  Ext = {t1, t2}
  Driver = Driver
  MAX_CLIENTS = 2
INVARIANT NoLostRequest
INVARIANT WakeLockBalanced
PROPERTY RequestServed
