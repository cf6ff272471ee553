\* Two harts and the four contexts that the device tree gives them.
SPECIFICATION Spec
CONSTANTS
  NProcs = 2
  Contexts = {0, 1, 2, 3}
  NDev = 1
  MaxPriority = 1
  Exclusive = TRUE
  OthersDrive = FALSE
INVARIANT RoutedByDeviceTree
