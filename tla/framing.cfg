CONSTANTS
    Handshake = Handshake
    Pong = Pong
    WeatherStatus = WeatherStatus
    Unknown = Unknown
    PacketType = {Handshake, Pong, WeatherStatus}
    Size <- Sizes
    MaxInputSize = 4
    MaxPackets = 4
SPECIFICATION FairSpec
INVARIANTS TypeOK Framed RoomToRead
PROPERTY AllHandled
\* The peer may stop sending.
CHECK_DEADLOCK FALSE
