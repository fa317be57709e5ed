SPECIFICATION ConversionsSpec
CONSTANTS
    ByteBits = 2
    IntBits = 4
    MaxSamples = 2
    SaltLength = 2
    KeyLength = 1
    HashLength = 1
    MagicLength = 1
    ExtraLength = 4
    Passphrases = {p1, p2}
    Salts = {s1}
    MaxData = 2
    MaxHeld = 3
    LongBits = 24
    MaxDataLog = 2
    Elapsed = {0, 1, 999, 1000, 1999, 2000, 2047, 2048, 3095, 3096, 4095, 4096, 8388607}
    NullArray = NullArray
INVARIANTS
    SentFits
    RoundTrip
    PixelsInside
    CacheFits
    ErrorsReported
    BuffersFit
    Recovered
    EnumsKept
    LogReadsInside
    LogValueKept
