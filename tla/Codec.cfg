CONSTANTS
  Values <- MCValues
  Contents <- MCContents
  Noise <- MCNoise
SPECIFICATION Spec
INVARIANTS TypeOK ReadsAsWritten DamageIsSeen
