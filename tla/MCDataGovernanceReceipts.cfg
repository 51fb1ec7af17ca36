\* One caller takes a second inventory of a blocked deletion.
CONSTANTS
  Projects = {p}
  None = None
  Handlers = {h1}
  Requester = a
  Actors = {b}
  Count = 2
  ProjectOf <- Located
  Evidence = {}
  Rules <- NoRules
  AdminBound = 1
  InventoryBound = 2
SPECIFICATION Spec
CHECK_DEADLOCK FALSE
PROPERTY ReceiptsKept
