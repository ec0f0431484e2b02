SPECIFICATION FairSpec
CONSTANTS
  Addons = {"mqtt"}
  Devices = {"zigbee"}
  Interfaces = {"eth0"}
  Scopes = {"host"}
  Keys = {"version"}
  Serial = {"zigbee"}
  Primary = {"eth0"}
  Settings = {"a", "b"}
  Versions = {"v1", "v2"}
  MaxChanges = 2
  MaxFaults = 2
INVARIANTS EventsTellAll NoPhantomChange RestartsHappened
PROPERTIES OsChangeIsRecorded EventsCatchUp
CHECK_DEADLOCK FALSE
