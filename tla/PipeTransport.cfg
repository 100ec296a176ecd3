\* Three frames, the last one garbled, in reads of up to two bytes, and one command.
SPECIFICATION FairSpec
CONSTANTS
    MaxFrames = 3
    MaxLength = 2
    Garbled = {3}
    Chunk = 2
    Poll = 2
    Grace = 3
    Deadlines = {0, 3}
    Capacity = 2
    MaxSends = 1
    Payload = 3
INVARIANTS
    SearchIsSound
    ExitNoticedInTime
    ExitOutranksFailure
PROPERTIES
    FramesInOrder
    CallsReturn
