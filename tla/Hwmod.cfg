CONSTANTS
    child = child
    parent = parent
    Blocks = {child, parent}
    Driven = {child}
    ParentOf <- Family
    Orders <- BothOrders
    Choices <- FlagChoices
    Lines = {l1, l2}
    MaxFailures = 1
    MaxLeaks = 1
SPECIFICATION Spec
INVARIANTS CountsFollowState SyscFollowsState NoBlindAccess InUseIsOn
