CONSTANTS
  Fft = 32
  RateIn = 3
  RateOut = 2
  FilterRadius = 2
  DefaultSymbols = 6
  DefaultSamples = 400
  GuardArgs = {0, 8, 32}
  SymbolArgs = {3, 5}
  SampleArgs = {40, 400}
  Overruns = {0, 200}
  MaxMissed = 200
  Want = 4
  Block = 14
  Reads = {3, 14}
  MinCap = 3
  SymbolLen = 2
  TailSymbols = 1
  MinSymbols = 2
  MaxSamples = 40
  MaxFailures = 1
  OfdmLen = 6
  Sizes = {24, 25}
  Gaps = {0, 4}
  Jitter = {0, 1}
  TrackRadius = 1
  MaxError = 1
  ScanLimit = 2
  ScanRadius = 1
  MaxBinStep = 1
  ConfirmChunks = 2
  HoldChunks = 1
  Drifts = {0, 1, 2}
  MaxSpent = 1
SPECIFICATION FrontendSpec
PROPERTY OverrunsAreMarked
