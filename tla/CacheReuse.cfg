SPECIFICATION Spec
CONSTANTS
  Keys = {k1}
  Processes = {p1, p2}
  Cutoffs = {1, 2, 3}
  Times = {1, 2, 3, 4}
INVARIANT HitsAreTrue
PROPERTY NoReruns
SYMMETRY MCSymmetry
