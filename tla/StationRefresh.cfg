CONSTANTS
    FirstId = 10
    LastId = 10
    Helpers <- MCNoHelpers
    HelperPriority <- MCNoPriority
SPECIFICATION Spec
PROPERTIES RefreshGoesOn
