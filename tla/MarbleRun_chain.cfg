SPECIFICATION Spec
CONSTANTS
  Unparsable = Unparsable
  Missing = Missing
  Calls = {c1, c2}
  Coordinators <- MCCoordinators
  Others <- MCOthers
  Certificates <- MCCertificates
  Lists <- MCLists
  CoordinatorEVS <- MCCoordinatorEVS
  ManifestEVS <- MCManifestEVS
  Instances <- MCInstances
SYMMETRY Symmetry
INVARIANTS TypeOK ManifestIsTrusted InstanceOfTrustedCoordinator
CHECK_DEADLOCK FALSE
