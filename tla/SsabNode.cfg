\* The numbers pass both the window and the bit field; timers are fair.
CONSTANTS
    Window = 2
    Width = 2
    Me = me
    Others = {other}
    MaxNumber = 4
    ForMe <- MCMiddleForMe
    Delays = {0, 1}
    MaxBuffer = 2
SPECIFICATION FairSpec
INVARIANTS
    OneAnswerPerPacket
    MacNeverSurprised
    ActivePacketAlive
PROPERTIES
    SendsOnce
    WaitingIsSettled
