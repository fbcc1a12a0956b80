\* Queue: eleven bytes, headers of two, messages of three and four bytes, so that
\* every position of the ring is a start, and headers and bodies cross its end.
\* Worker: room for two jobs and for one result, so that both queues run full, and
\* a later request meets a result on its way.
\* Editor: a melodic part with two programs and the drum part with one.
CONSTANTS
    short = short  long = long  huge = huge
    Capacity = 11
    HeaderSize = 2
    Messages = {short, long, huge}
    SizeOf <- Sizes
    NoMessage = NoMessage
    Word = 64
    p1 = p1  p2 = p2  i1 = i1  i2 = i2
    Programs = {p1, p2}
    Instruments = {i1, i2}
    NoProgram = NoProgram
    NoInstrument = NoInstrument
    MaxToWorker = 2
    MaxFromWorker = 1
    EditorParts = {1, 2}
    KitPart = 2
    BoxPrograms = {1, 2, 3}
    KitPrograms = {3}
    FirstPrograms <- OneAndKit
    KnobValues = {0, 1}
    QueueRoom = 2
    MaxActs = 2
SPECIFICATION ThreadsSpec
INVARIANTS
    MessageInOnePiece
    ReservedIsFree
    AnnouncedIsThere
    LastRequestIsKept
    EditorIsOnItsPart
PROPERTIES
    QueueSpec
    StopReturns
    AllIsAnswered
CHECK_DEADLOCK FALSE
