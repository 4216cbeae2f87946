SPECIFICATION Spec
CONSTANTS
    Envs = {e1, e2}
    CPU <- TwoCpus
    NoEnv = NoEnv
    NPT = 16
    UserPds = 2
    KernPds = 2
    UserVas <- Addresses
    Perms <- ReadWrite
    Remote = FALSE
    Machines <- TheMachines
    NCPU = 2
    MPENTRY = 1
    IOPHYSMEM = 3
    EXTPHYSMEM = 4
    Ext16 = 19
    KernelEnd = 7
    PagesSize = 1
    EnvsSize = 1
    KSTKSIZE = 1
    KSTKGAP = 1
    LAPIC = 99
    Programs = 1
    Segments <- TextOnly
INVARIANTS
    TypeOK
    RefsMatch
    PagePartition
    
    TlbFresh
    BootsIfRoom
CHECK_DEADLOCK FALSE
VIEW UpToNames
