SPECIFICATION WireSpec
CONSTANTS
    Base = 6
    MaxPacket = 35
    Headers <- MCHeaders
    MaxDamage = 1
INVARIANTS
    HeaderSurvives
    DecodersAgree
