SPECIFICATION CommandsSpec
CONSTANTS
  Terms = {"t1", "t2"}
  Daemons = {"d1", "d2"}
  Users = {"root", "ann"}
  Admins = {"root"}
  Scripts <- MCScripts
  Homes <- MCHomes
  OldApps <- MCOldApps
  ListLimit = 1
  MaxLost = 1
INVARIANTS
  SuccessUnlessMisread
  
  OwnAccountUnlessShared
  NotForgottenUnlessRefused
PROPERTY
  ToolsEnd
