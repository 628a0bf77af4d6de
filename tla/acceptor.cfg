\* An Acceptor and two channels share three descriptors with other threads.
SPECIFICATION AcceptorSpec
CONSTANTS
  Channel = {listen, c1, c2}
  Listen = listen
  Fd = {f1, f2, f3}
  None = None
  MaxBacklog = 2
INVARIANTS
  TypeOK
  AssertsHold
  KernelMirrors
  NoStalePointer
  AcceptorTypeOK
  OwnsWhatItNames
  ReserveLostOnlyInRace
PROPERTIES
  KeepsToPoller
  ClientsAreTaken
