\* A melodic part with two programs and the drum part with one.
CONSTANTS
    EditorParts = {1, 2}
    KitPart = 2
    BoxPrograms = {1, 2, 3}
    KitPrograms = {3}
    FirstPrograms <- OneAndKit
    KnobValues = {0, 1}
    QueueRoom = 2
    MaxActs = 3
SPECIFICATION ControlsSpec
INVARIANT GestureEndsWhereItBegan
CHECK_DEADLOCK FALSE
