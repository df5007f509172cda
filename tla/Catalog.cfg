SPECIFICATION Spec
CONSTANTS
  e = e
  ns = ns
  p = p
  g = g
  c = c
  k1 = k1
  k2 = k2
  Org = Org
  ElementNames = {e}
  Namespaces = {ns}
  PurposeNames = {p}
  Groups = {g}
  Consents = {c}
  Clients = {k1, k2}
  RefLists <- SomeRefs
  PurposeLists <- SomePurposes
  GroupOf <- GroupOfConsents
  MaxRequests = 6
SYMMETRY ClientSymmetry
INVARIANTS
  CatalogTypeOK
  LinksIntact
  VersionsShareName
  NamesStayUnambiguous
  LatestIsNewest
PROPERTIES
  DeletesOneVersion
  TermsStand
