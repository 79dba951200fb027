SPECIFICATION Spec
CONSTANTS
    MaxPayload = 2
    Crc <- MCCrc
    Messages <- MCMessages
    NoiseBytes = {1, 170}
    MaxFrames = 3
    MaxDamage = 1
INVARIANTS
    TypeOK
    ChunkingInvisible
    CleanLineDelivers
    DamageContained
    DamageDetected
    NothingForged
CHECK_DEADLOCK FALSE
