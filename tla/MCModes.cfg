\* Every mode flag in one channel; one descriptor is used by two connections.
CONSTANTS
  Fds = {4, 5}
  Nicks = {alice, bob}
  NoNick = NoNick
  NoName = NoName
  MaxConns = 3
  Names = {linux}
  Keys = {secret}
  NoKey = NoKey
  LimitArgs = {0, 1, 2}
  Topics = {}
  NoTopic = NoTopic
  Flags = {"i", "t", "o", "k", "l"}
SPECIFICATION Spec
SYMMETRY Symmetry
VIEW View
INVARIANTS
  TypeOK
  SettingsInitialised
PROPERTIES
  AdmissionControl
  RegistrySpec
  AccessSpec
