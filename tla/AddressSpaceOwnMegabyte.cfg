CONSTANTS
    N_PROCESSES = 2
    N_THREADS_PER_PROCESS = 2
    BASE_MB = 1
    DEVICES_MB = 6
    N_MB = 6
    N_ADDRESSES = 480
    UDATA_BEGIN = 48
    PAGE_SIZE = 48
    THREAD_STACK_SIZE = 12
    MaxPid = 4
SPECIFICATION Spec
INVARIANT OwnMegabyte
