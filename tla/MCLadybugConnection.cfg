\* Two backends, as owners or tenants, and a host that sets a cap on either
\* side of the default.
SPECIFICATION Spec
CONSTANTS
  b1 = b1
  b2 = b2
  dx = dx
  bad = bad
  Host = Host
  Backends = {b1, b2}
  Namespaces = {dx, bad}
  Valid = {dx}
  Caps = {1, 3}
  Depths = {0, 2, 4}
  DefaultCap = 2
  Tables <- TwoTables
SYMMETRY BackendSymmetry
INVARIANTS
  TypeOK
  NothingLeft
  TenantKeepsConnection
  CapIsGiven
  WalkFits
  SchemaWhole
PROPERTIES
  ConnectionFirst
CHECK_DEADLOCK FALSE
