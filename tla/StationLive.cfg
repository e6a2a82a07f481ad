CONSTANTS
    FirstId = 10
    LastId = 11
    Helpers <- MCHelpers
    HelperPriority <- MCHelperPriority
SPECIFICATION Spec
INVARIANTS TypeOK HeapLockSound
PROPERTIES KeyHandled VoiceEndsIfKeyUsed RefreshEndsIfOthersBlock RepaintsUnlessInversion
