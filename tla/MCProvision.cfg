CONSTANTS
  N = 2
  SSID_SIZE = 3
  Names <- MCNames
  Passwords <- MCPasswords
  Behind <- MCBehind
  Home <- MCHome
SPECIFICATION FairSpec
INVARIANT SetupInv
PROPERTIES StoredAsTyped NewNameApplied LightStaysLit
