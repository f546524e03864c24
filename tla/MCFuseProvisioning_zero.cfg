SPECIFICATION Spec
CONSTANTS
    Bits <- MCBits
    Boot0Value <- MCBits
    SecureBootEn <- MCSecureBootEn
    KeyTables <- MCKeyTables
    None = None
    Mixed = Mixed
    Verifying <- NonSecure
INVARIANT SecureBootNeedsTable
