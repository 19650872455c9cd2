SPECIFICATION Spec
CONSTANTS
    Half = 2
    HalfBits = 1
    ByteBits = 1
    Base = 3
    Decimals = 2
    TmpSize = 5
    OutSizes = {6, 12}
    Values <- MCValues_
    Prices <- MCPrices
    Volumes <- MCVolumes
    RAW_ADDRESS_SIZE = 2
    Glyphs = 4
    Letter = 2
    Keccak <- MCKeccak
    ByteValues = 4
    FieldSize = 2
    ChainCodes = {c1, c2}
INVARIANT FeeIsProduct
