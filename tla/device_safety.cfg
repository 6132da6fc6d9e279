CONSTANTS
  p1 = p1
  p2 = p2
  inbox = inbox
  archive = archive
  None = None
  Peers = {p1, p2}
  Roots = {inbox, archive}
  Addresses = {x1}
  Devices <- TwoStarts
  Admins = {a1}
  Patches <- SomePatches
  MaxTracked = 1
  MaxFaults = 1
  MaxRestarts = 1
  Cwd <- Slash
  Trees <- AllTrees
  Asks <- AllAsks
  Movable <- CanMove
  Targets <- CanBe
  Links <- CanLink
  Made <- CanMake
  MaxLinks = 3
  MaxMissing = 2
  Closing = TRUE
  MaxEdits = 2
  Sources <- SmallTrees
  Archives <- AllArchives
  Edited <- Changes
  Backslashed = {"back"}
  Volumed = {"vol"}
  MaxSourceEdits = 2
  MaxBytes = 3
  MaxEntries = 4
  MaxArchive = 4
  Width = 2
SPECIFICATION DeviceSpec
INVARIANTS AcksAreDurable RevocationsStick ScopeWasGranted LeavesNothing ResolutionsAgree PushedIsWhole NothingUnchecked
PROPERTIES AccessConfined
SYMMETRY DeviceSymmetry
CHECK_DEADLOCK FALSE
