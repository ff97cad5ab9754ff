SPECIFICATION RepairSpec
CONSTANTS
  main = main
  util = util
  syntax = syntax
  tests = tests
  Sources = {main, util}
  Scope = {main}
  LocalKinds = {syntax}
  GlobalKinds = {tests}
  MaxCount <- LocalAndGlobal
  MaxPerTicket = 1
  MaxFailures = 2
  MaxCommands = 2
  Nothing = Nothing
INVARIANT RepairTypeOK
INVARIANT OnlyFixesAreCommitted
CHECK_DEADLOCK FALSE
