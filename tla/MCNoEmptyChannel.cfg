CONSTANTS
  Fds = {4, 5}
  Nicks = {alice, bob}
  NoNick = NoNick
  NoName = NoName
  MaxConns = 3
  Names = {linux}
  Keys = {}
  NoKey = NoKey
  LimitArgs = {}
  Topics = {}
  NoTopic = NoTopic
  Flags = {"i"}
SPECIFICATION Spec
SYMMETRY Symmetry
VIEW View
INVARIANTS
  NoEmptyChannel
