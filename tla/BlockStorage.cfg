SPECIFICATION Spec
CONSTANTS
  product = product
  environment = environment
  bundle = bundle
  spare = spare
  copy = copy
  default = default
  other = other
  Id = {default, other}
  RootImage = {bundle, spare, copy}
  NoRoot = NoRoot
  Name <- MCName
  FileImages = {copy}
  StateFile <- MCStateFile
  Session = {product, environment}
  Wants <- MCWants
  Registers <- MCRegisters
  MaxRootImages = 2
  Units = 4
  SectorUnits = 2
  BaseUnits <- MCBaseUnits
  TemplateUnits <- MCTemplateUnits
  MinimumUnits = 2
  MaxBuffers = 2
  Value = {"data"}
INVARIANTS
  TypeOK
  OneBoot
  RunsOnItsImages
  WholeUnlessInterrupted
PROPERTIES
  AnswersAreTrue
  BaseImagesUntouched
  ImplementsDurableDisk
