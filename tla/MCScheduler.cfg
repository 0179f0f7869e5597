CONSTANTS
    N_PROCESSES = 2
    N_THREADS_PER_PROCESS = 2
    UART_INPUT_BUFFER_SIZE = 1
    Frames = {f1, f2}
    NoFrame = NoFrame
    Durations = {0, 1, 2}
    SIZE_T = 5
SPECIFICATION Spec
SYMMETRY FrameSymmetry
CONSTRAINT Undamaged
INVARIANTS
    NoThreadTwice NoIndexLost WaitingStateExact
    OnlySleepOrderHalts
PROPERTIES SleepersAgeTogether ImplementsLifecycle
