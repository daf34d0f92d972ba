SPECIFICATION Spec
CONSTANTS
  RingSize = 2
  Byte <- MCByte
  OutSize = 3
  InSize = 3
  GuestByte <- MCGuestByte
  MaxOut = 2
  MaxOwn = 1
  Streams <- MCStreams
INVARIANTS
  TypeOK
  OutboundTransparent
  InboundTransparent
  Negotiated
PROPERTY CarrierFalls
