CONSTANTS
  File = {"env", "router"}
  MaxCopy = 2
  MaxFault = 3
  Id = {i1}
  Value = {u, v}
  MaxCrash = 1
  Server = {1}
  Caller = {u1, u2}
  MaxRt = 2
  MaxCalls = 3
  MaxFail = 1
SPECIFICATION MCSpec
INVARIANTS InstancesTypeOK CopyIsAtomic 
PROPERTIES  InstancesSettle
