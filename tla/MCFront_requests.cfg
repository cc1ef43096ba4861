SPECIFICATION Spec
CONSTANTS
  i1 = i1
  i2 = i2
  k1 = k1
  k2 = k2
  t1 = t1
  t2 = t2
  o1 = o1
  None = None
  Threads = {t1, t2}
  Ids = {i1, i2}
  Keys = {k1, k2}
  Owners = {o1}
  Hooks = 2
  Menus <- AllMenus
  Scenes <- AllScenes
  Endpoints <- AllEndpoints
  Disabled = {"change-email"}
  Overrides <- Strict
  Max = 2
  Window = 2
SYMMETRY Symmetry
INVARIANTS Indexed NothingLost NoRevival OneTaker OnlyLookupsBlock Admitted 
CHECK_DEADLOCK FALSE
