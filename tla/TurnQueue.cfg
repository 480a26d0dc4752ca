SPECIFICATION Spec
CONSTANTS
    t1 = t1
    t2 = t2
    t3 = t3
    j1 = j1
    j2 = j2
    Turns = {t1, t2}
    Jobs = {j1}
    NoTurn = NoTurn
    PoolSize = 1
    MaxRestarts = 1
    MaxThreadWrites = 1
INVARIANTS TypeOK RepliesAreKept TurnsRunInOrder RepeatsNeedRestart ImagesReachTheirMessage
PROPERTIES SettledRepliesStay TurnsLeaveTheQueue
CHECK_DEADLOCK FALSE
