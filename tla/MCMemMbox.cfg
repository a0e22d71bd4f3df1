CONSTANTS
    MEM_SIZE = 72
    MEM_ALIGNMENT = 4
    SIZEOF_STRUCT_MEM = 8
    MIN_SIZE = 12
    Requests <- MCRequests
    MaxDrift = 20
    Posters = {p1, p2}
    Takers = {t1, t2}
    Messages = {a, b}
    None = None
    SYS_MBOX_SIZE = 2
    MaxPosts = 2
SPECIFICATION MemMboxSpec
INVARIANTS HeapIsSound RingIsSound
PROPERTIES ImplementsFifo EverythingDelivered
