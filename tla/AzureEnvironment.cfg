\* Three threads that call again and again.
SPECIFICATION Spec
CONSTANTS
    t1 = t1
    t2 = t2
    t3 = t3
    None = None
    Threads = {t1, t2, t3}
INVARIANTS
    AnswersAgree
    AskedOnce
