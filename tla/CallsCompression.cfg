SPECIFICATION Spec
CHECK_DEADLOCK FALSE
CONSTANTS
    ByteBits = 2
    LimbBytes = 2
    Numbers <- MCNumbers
    Dividends <- MCDividends
    Divisors <- MCDivisors
    Moduli <- MCModuli
    Limbs <- MCLimbs
    Powers <- MCPowers
    Strings <- MCStrings
    Curves <- MCCurves
    Nonces <- MCNonces
    Keys <- MCKeys
    Preferences <- MCPreferences
    Offers <- MCOffers
INVARIANTS
    CompressionSettled
