SPECIFICATION FairSpec
CONSTANTS
    s1 = s1  match = match  reject = reject  other = other
    Classes <- MCClasses
    Subs = {s1}
    Wanted <- MCWanted
    Passing <- MCPassing
    MaxChanges = 4
    MaxGroup = 2
    Retention = 1
    ChanCap = 1
    MaxConnects = 2
    MaxResets = 0
CHECK_DEADLOCK FALSE
INVARIANTS NoSilentGap
