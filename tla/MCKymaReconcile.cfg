CONSTANTS
  ModuleNames = {"A", "B"}
  OtherName = OtherName
  Channels = {"regular", "fast"}
  DefaultChannel = "regular"
  TemplateIds = {"t1", "t2", "t3", "t4", "t5", "t6"}
  Versions = {1, 2}
  BadVersion = BadVersion
  DecodeError = DecodeError
  NoTemplate = NoTemplate
  NoStatus = NoStatus
  InitCatalog <- MCInitCatalog
  InitKyma <- MCInitKyma
  MaxGeneration = 2
  AuthoredTemplates = {"t1", "t2"}

SPECIFICATION Spec
INVARIANT TypeOK
PROPERTY NoDowngradeOnChannelChange
PROPERTY ImplementsModuleInstall
