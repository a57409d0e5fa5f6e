SPECIFICATION SecureSpec
CONSTANTS
    t1 = t1
    t2 = t2
    t3 = t3
    Task = {t1, t2, t3}
    None = None
    Uses <- MCUsesOpen
    MaxCalls = 3
    MaxPeer = 4
    MaxChannel = 3
    incoming_packets_buffer = 1
    Bounds <- MCBounds
    Volleys <- MCVolleys
    RECORD_HEADER = 1
    MESSAGE_HEADER = 1
    best_guess_mtu = 6
    worst_case_mtu = 4
    CallerMtu = {4, 5, 8}
    initial_retransmit_timeout = 1
    MaxTimeout = 3
    MaxFailed = 3
CHECK_DEADLOCK FALSE
INVARIANT LostRecordsBreakTheStream
