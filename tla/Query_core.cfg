SPECIFICATION Spec
CONSTANTS
    Ids = {1, 2, 3}
    Fields <- MCFields
    Documents <- MCDocuments
    Filters <- MCFilters
    Sorts <- MCSorts
    Limits <- MCLimits
    MaxLimit = 2
    MaxWrites = 2
CHECK_DEADLOCK FALSE
CONSTRAINT Claimed
INVARIANTS TypeOK PagesAreExact PagesAreSorted 
