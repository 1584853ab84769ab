SPECIFICATION DecisionSpec
CONSTANTS
    None = None
    Keyless = Keyless
    k1 = k1
    k2 = k2
    k3 = k3
    Libraries <- MCLibraries
    Personal = 1
    UserLibrary = 1
    ObjectKey = {k1, k2}
    ObjectId = {1, 2, 3}
    Holdings <- MCHoldings
    Selectable = {1, 2, 7}
    Units = 2
    Address = {"u1", "u2", "u3"}
    PdfCases <- MCPdfCases
    Rankings <- MCRankings
    Uploads <- MCUploads
    Scans <- MCScans
    Merges <- MCMerges
    Searches <- MCSearches
INVARIANTS TargetIsTheOneMeant FirstPdfWins SkippedMeansStored DuplicatesAsShown SearchesAreWhole
CHECK_DEADLOCK FALSE
