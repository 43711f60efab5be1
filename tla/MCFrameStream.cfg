SPECIFICATION FairFrameSpec
CONSTANTS
    Sendable <- MCMessage
    PayloadOf <- MCPayloadOf
    Base = 2
    HeaderSize = 2
    MaxFrameSize = 2
    NoMessage = NoMessage
    Foreign <- MCForeign
    BytesOf <- MCBytesOf
    Receivers = {"host", "desktop"}
    MaxSent = 4
    MaxErrors = 2
CHECK_DEADLOCK FALSE
INVARIANT FrameTypeOK
PROPERTY ChannelSpec
