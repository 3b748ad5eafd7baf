\* Two readers, as in the code, and eight iterations of the loops that count.  The
\* readers never end, so CondVars waits for ever once all numbers are printed;
\* Mutexes ends.
SPECIFICATION MCSpec
CONSTANTS
    Readers = {r1, r2}
    Writer = Writer
    Main = Main
    N = 3
    BUFSIZE = 2
    None = None
    MyThread1 = MyThread1
    MyThread2 = MyThread2
    Nobody = Nobody
    MAXCNT = 8
    INT_MAX = 16
INVARIANTS
    BufferExclusive
    NoLostWakeup
    NoLostUpdate
PROPERTIES
    ImplementsEvents
    WorkDone
CHECK_DEADLOCK FALSE
