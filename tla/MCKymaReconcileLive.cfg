CONSTANTS
  ModuleNames = {"A"}
  OtherName = OtherName
  Channels = {"regular", "fast"}
  DefaultChannel = "regular"
  TemplateIds = {"t1", "t2", "t3"}
  Versions = {1, 2}
  BadVersion = BadVersion
  DecodeError = DecodeError
  NoTemplate = NoTemplate
  NoStatus = NoStatus
  InitCatalog <- MCInitCatalog
  InitKyma <- MCInitKyma
  MaxGeneration = 2
  AuthoredTemplates = {"t1", "t2"}

SPECIFICATION Spec
PROPERTY GenerationSkewResolved
