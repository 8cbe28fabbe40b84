SPECIFICATION Spec
CONSTANTS
  b1 = b1
  b2 = b2
  u1 = u1
  p1 = p1
  p2 = p2
  junk = junk
  v1 = v1
  v2 = v2
  file = file
  None = None
  Backends <- MCBackends
  UserOf <- MCUserOf
  Packages <- MCPackages
  Size <- MCSize
  Components <- MCComponents
  Fitting = {p1}
  Releases <- MCReleases
  Local <- MCLocal
  Offers <- MCOffers
  Servers <- MCServers
INVARIANTS
  TypeOK
  LoadedWasNamed
  InvalidOnlyWhenDisturbed
SYMMETRY Symmetry
