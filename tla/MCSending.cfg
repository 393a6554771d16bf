\* Three clients, two channels, messages in one write or two.
SPECIFICATION Spec
CONSTANTS
  Fds = {4, 5, 6}
  MaxName = 2
  MaxDepth = 2
  Writes = 2
INVARIANTS
  SendingTypeOK
  NoStaleMembers
  DeparturesAnnounced
  LoneFailureContained
  OverflowNeedsTwo
PROPERTIES
  HandlersReturn
