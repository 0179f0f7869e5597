CONSTANTS
    UART_INPUT_BUFFER_SIZE = 1
SPECIFICATION Spec
INVARIANTS TypeOK RightsAsIntended OnlyStrikesLoseIt MainFindsItsMemory
PROPERTY MainRuns
