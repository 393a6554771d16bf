\* Three descriptors, one of them at least reused: five connections.
CONSTANTS
  Fds = {4, 5, 6}
  Nicks = {alice, bob}
  NoNick = NoNick
  NoName = NoName
  MaxConns = 5
SPECIFICATION AloneSpec
SYMMETRY Symmetry
VIEW View
INVARIANTS
  RegistryTypeOK
  NicknamesUnique
  RegistrationComplete
PROPERTIES
  WelcomedOnce
