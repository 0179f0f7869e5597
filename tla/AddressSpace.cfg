CONSTANTS
    N_PROCESSES = 2
    N_THREADS_PER_PROCESS = 2
    BASE_MB = 1
    DEVICES_MB = 4
    N_MB = 5
    N_ADDRESSES = 480
    UDATA_BEGIN = 48
    PAGE_SIZE = 48
    THREAD_STACK_SIZE = 12
    MaxPid = 6
SPECIFICATION Spec
INVARIANTS
    TypeOK MappingMatchesRunning CopiesHitMappedPages GuardPagesFault
    ProcessesAreDisjoint UsersStayInTheirMemory
PROPERTIES DataSurvives StacksSurvive
