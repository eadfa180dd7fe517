SPECIFICATION Spec
CONSTANTS
  PeerPayloads = {2, 3, 4, 6, 7}
  OtherPayloads = {2}
  DatagramBound = 3
  FrameBound = 4
  Identifications = 2
  Mtu = 4
  Header = 1
  PendingPayload = 3
  MinimumPacket = 4
  Unit = 2
  MaximumPayload = 6
  Capacity = 1
  MaximumHoles = 4
INVARIANT WholeUnlessReused
INVARIANT RefusedNeverDelivered
INVARIANT AcceptedIsTransmitted
