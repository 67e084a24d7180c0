SPECIFICATION Spec
CONSTANTS
  IntMax <- MCIntMax
  Deltas <- MCDeltas
  Turns <- MCTurns
  Noise <- MCNoise
INVARIANTS TypeOK Envelope
PROPERTIES NeverRaisedAgain OkIsExact DecreaseOnlyByOverflow RestsOrRunsDry
