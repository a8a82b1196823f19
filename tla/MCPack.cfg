SPECIFICATION Spec
CONSTANTS
  Disks <- SomeDisks
  Programs <- Prog
  Root <- NoRoot
  LibPath <- Libs
  Cap = 3
  Cwd <- AtHome
  Alongs <- TakeAlong
  Except <- Nothing
INVARIANTS TypeOK LibrariesTravel LinksLead PackedOnce
PROPERTIES PackingEnds
CHECK_DEADLOCK FALSE
