SPECIFICATION Spec
CONSTANTS
    Absent = Absent
    slow = slow
    fast = fast
    s1 = s1
    operator = operator
    driver = driver
    w1 = w1
    w2 = w2
CHECK_DEADLOCK FALSE
PROPERTIES FilesConclude CompletedSettles BudgetReopens
