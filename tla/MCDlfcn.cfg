CONSTANTS
  app = app
  lib = lib
  plug = plug
  Modules = {app, lib, plug}
  Program = program
  Common = common
  NULL = null
  Deps <- MCDeps
  EnumWorks = {TRUE, FALSE}
  MaxHandles = 2
SPECIFICATION Spec
INVARIANTS
  GlobalStaysVisible
  NothingLeftBehind
