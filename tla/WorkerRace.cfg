\* Two worker threads create their instances at the same time.
SPECIFICATION GateSpec
CONSTANT
    Threads = {t1, t2}
INVARIANT
    AtMostOneLive
