CONSTANTS
  Addrs = {1, 2}
  DeviceMax = 2
  MaxPlugs = 3
  Kinds = {"x360", "xone", "ps4"}
  Format <- GamepadFormats
  MaxConsole = 2
  MaxController = 2
  MaxResets = 1
SPECIFICATION Spec
INVARIANTS KnownDevices HandshakeInOrder RelayInOrder
PROPERTY HandshakeEnds
