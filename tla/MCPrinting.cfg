CONSTANTS
    WordBits = 16
    MAX_NUM_LEN = 6
    Alphabet <- Letters
    MaxLength = 4
    PairSpecs = {"d", "p", "s"}
    Widths <- LongWidths
    Arguments <- Samples
SPECIFICATION Spec
CHECK_DEADLOCK FALSE
INVARIANTS TypeOK AcceptsTheGrammar PrintsWhatItMeans
