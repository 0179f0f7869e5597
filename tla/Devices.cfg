CONSTANTS
    Threads = {t1, t2}
    Chars = {a, b}
    None = None
    UART_INPUT_BUFFER_SIZE = 2
    Slice = 2
    Duration = 2
SPECIFICATION Spec
INVARIANTS TypeOK SleepersSleepLongEnough
PROPERTIES ImplementsCharStream ReadyThreadsRun SleepersWake CharactersAreTaken
