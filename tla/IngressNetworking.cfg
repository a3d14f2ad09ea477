SPECIFICATION Spec
CONSTANTS
  Ingresses <- TwoIngresses
  SpecsOf <- TwoSpecs
  ConfigMaps <- ManyConfigMaps
  Origins <- TwoOrigins
  Contents <- TwoContents
  Labelled <- TwoOrigins
  Services <- SomeServices
  Installed <- DefaultGateways
  ServicePorts <- PortsOfServices
  Scenarios <- MixedScenarios
INVARIANTS
  EncryptedHostsServed
  
  
  ProbesReachTheIngress
  MeshOnlyIsAskedFor
  MeshOnlyIsClean
PROPERTIES
  OnlyBlockedFail
CHECK_DEADLOCK FALSE
