CONSTANTS
  Folders <- MCFolders
  Names = {"x", "y", "z"}
  Jobs <- MCSelf
  All = All
  Nothing = Nothing
  Partial = Partial
  FirstFiles <- MCFirst
  MaxJobs = 2
SPECIFICATION TransferSpec
INVARIANT TransferLosesNothing
CHECK_DEADLOCK FALSE
