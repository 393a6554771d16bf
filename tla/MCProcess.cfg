\* Two descriptors for clients, behind stdin and the listening socket.
SPECIFICATION Spec
CONSTANTS
  server_fd = 1
  MaxFd = 3
  MaxBacklog = 2
  MaxData = 2
INVARIANTS
  ProcessTypeOK
  ServesOnlyBound
  EntriesMatch
  EventsCurrent
  AllClosed
PROPERTIES
  EventLoopSpec
  StopsWhenWoken
