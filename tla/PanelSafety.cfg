SPECIFICATION PanelLiveSpec
CONSTANTS
  MaxRows = 3
  PageLimit = 2
  MaxItems = 2
  MaxRequests = 2
  StreamSize = 1
  HazardKinds <- HazardKind
  MaxKinds = 1
INVARIANTS
  NoHolesUndisturbed
PROPERTIES
  NewRowsAppear
