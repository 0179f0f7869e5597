CONSTANTS
    N_PROCESSES = 1
    N_THREADS_PER_PROCESS = 2
    UART_INPUT_BUFFER_SIZE = 1
    Frames = {f1}
    NoFrame = NoFrame
    Durations = {0, 1, 2}
    SIZE_T = 4
SPECIFICATION Spec
INVARIANT SleepOrderAssertion
