SPECIFICATION FairSpec
CONSTANTS
  NORMAL = NORMAL
  Inject = Inject
  Modes <- InjectingModes
  Libraries <- FiveLibraries
INVARIANTS ReachesItsOwner ModesAgree SilentWhenCleared KnowsDynamicSensors
PROPERTIES CallsReturn
