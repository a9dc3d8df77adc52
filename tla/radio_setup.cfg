CONSTANTS
    Configs = {1, 2}
    Encrypted = {2}
    MaxBoots = 2
SPECIFICATION Spec
INVARIANTS CallbacksSafe RadioAsConfigured
CHECK_DEADLOCK FALSE
