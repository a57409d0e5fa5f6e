SPECIFICATION SyncSpec
CONSTANTS
    t1 = t1
    t2 = t2
    t3 = t3
    b1 = b1
    b2 = b2
    b3 = b3
    None = None
    lock_lot = lock_lot
    cond_lot = cond_lot
    semaphore_lot = semaphore_lot
    limiter_lot = limiter_lot
    Lot = {lock_lot, cond_lot, semaphore_lot, limiter_lot}
    Task = {t1, t2, t3}
    MainTask = t1
    MaxKI = 1
    initial_value = 1
    max_value = 2
    MaxExtra = 2
    Borrower = {b1, b2, b3}
    OnBehalfOf <- SharedBorrower
    MaxTokens = 3
INVARIANT OneTokenPerBorrower
