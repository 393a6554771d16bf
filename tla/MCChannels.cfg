\* Two channels, each with its members and operators among the same clients.
CONSTANTS
  Fds = {4, 5}
  Nicks = {alice, bob}
  NoNick = NoNick
  NoName = NoName
  MaxConns = 3
  Names = {linux, irc}
  Keys = {}
  NoKey = NoKey
  LimitArgs = {}
  Topics = {news}
  NoTopic = NoTopic
  Flags = {"i"}
SPECIFICATION Spec
SYMMETRY Symmetry
VIEW View
INVARIANTS
  MembersLive
PROPERTIES
  DisconnectSweeps
  AccessSpec
