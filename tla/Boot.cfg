SPECIFICATION BootSpec
CONSTANTS
    KHEAP_START = 1
    KHEAP_SIZE = 25
    UINT32 = 64
    Name = {"bin", "home", "etc", "var", "log", "root", "student", "motd", "readme", "sentinel", "demo"}
    RawName = {"demo"}
    SnapName = {"s"}
    Path = {}
    TextLen = {1}
    NODE_SIZE = 1
    SNAP_SIZE = 1
    RootName = "/"
    NoSnap = "none"
    CwdMax = 3
    LOG_MAX_LINES = 3
    Msg = {"boot", "task", "name", "shell", "cmd", "fs"}
    NoMsg = "none"
    SHELL_INPUT_MAX = 3
    HEAP_TEST = 1
    TASK_SIZE = 1
    STACK_SIZE = 2
    Command = {"m", "d", "e", "x"}
    MaxKeys = 4
INVARIANTS
    LogHeals
    HandlersReady
    
    FirstFiles
    PromptIsCwd
PROPERTIES
    BootEnds
