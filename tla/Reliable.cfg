\* Three messages through a resend buffer of two slots, in four datagrams.
SPECIFICATION LayerSpec
CONSTANTS
    RESEND_BUFFER_ARRAY_LENGTH = 2
    DATAGRAM_MESSAGE_ID_ARRAY_LENGTH = 1
    PerDatagram = 2
    Starts <- NewOrOld
    MaxMessages = 3
    MaxDatagrams = 4
    MaxAcks = 2
    MaxRanges = 2
INVARIANT LayerTypeOK
INVARIANT NoMessageIsLost
INVARIANT ListIsBuffer
INVARIANT HistoryIsOfDatagrams
INVARIANT HolesStayInWindow
INVARIANT HeapIsAhead
PROPERTY ImplementsChannel
CHECK_DEADLOCK FALSE
