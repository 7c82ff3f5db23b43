SPECIFICATION RatingSpec
CONSTANTS
    Catalogs <- MCCatalogs
    Requests <- MCRequests
    Absent = Absent
    Groups <- MCGroups
    Predictions = {0, 3, 9}
    UsedReports <- MCUsedReports
CHECK_DEADLOCK FALSE
INVARIANTS
    FirstMatchRates
    DebitFair
    OneDimensionUnitFree
