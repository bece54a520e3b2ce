SPECIFICATION EditSpec
CONSTANTS
  Editors = {e1, e2}
  Tries = 3
  Nobody = Nobody
SYMMETRY MCSymmetry
INVARIANT EditTakesEffectUnlessRetried
