SPECIFICATION Spec
CONSTANTS
  MaxLength = 5
  MaxAbandoned = 1
  Missing = Missing
  Lines <- MCLines
  DisableFre <- MCDisableFre
  TestIntents <- MCTestIntents
  AdditionalFlags <- MCAdditionalFlags
  DeviceFlags <- MCDeviceFlags
INVARIANTS FlagsRestored RightFlags
