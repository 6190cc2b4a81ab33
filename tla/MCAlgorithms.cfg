SPECIFICATION Spec
CONSTANTS
  None = None
  Names = {"SCI", "ERR"}
  Sci = "SCI"
  Sides = {1, 2, 3}
  NaN <- MCNaN
  Bins = 2
  Grain = 48
  Longest = 4
  Large = 2
  MadToSigma <- MCRatio
  NSamples = 4
  MinNPixels = 3
  KRej <- MCRatio
  MaxIterations = 5
  White = 4
  Curve <- MCCurve
  IntMax = 3
  NumberWidth = 3
  TextWidth = 3
  TextLeast = 2
  MaxZipDepth = 1
  Batch = 2
  Sample = 2
  Top = 8
INVARIANTS
  RenditionFaithful
  FilesComeBack
  RegionsExact
  MeasuredRight
  PicturesFaithful
  FramesRecovered
  InputsAgree
CHECK_DEADLOCK FALSE
