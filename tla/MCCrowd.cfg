\* Three clients in one channel, operators made and unmade, a descriptor reused.
CONSTANTS
  Fds = {4, 5, 6}
  Nicks = {alice, bob, carol}
  NoNick = NoNick
  NoName = NoName
  MaxConns = 4
  Names = {linux}
  Keys = {}
  NoKey = NoKey
  LimitArgs = {}
  Topics = {}
  NoTopic = NoTopic
  Flags = {"o"}
SPECIFICATION Spec
SYMMETRY Symmetry
VIEW View
INVARIANTS
  MembersLive
  OperatorsAreMembers
PROPERTIES
  MembershipAnnounced
