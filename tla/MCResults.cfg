SPECIFICATION ResultsSpec
CONSTANTS
  Tasks = {t1, t2}
  Sources <- TwoImages
  Kinds = {"stretch", "denoise", "deconvolve", "resample", "stf", "open", "debayer", "crop", "background", "background_kept", "export"}
  MaxCommands = 2
  None = None
SYMMETRY Symmetry
CONSTRAINT OneDebayer
 
PROPERTIES ResultsAgree
CHECK_DEADLOCK FALSE
