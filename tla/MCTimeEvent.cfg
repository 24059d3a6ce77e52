CONSTANTS
  e1 = e1
  e2 = e2
  e3 = e3
  e4 = e4
  e5 = e5
  c1 = c1
  OneShot <- MCOneShot
  Cyclic = {c1}
  cyctim <- MCcyctim
  cycphs <- MCcycphs
  TA_STA <- MCStarted
  TMAX_RELTIM = 1
  EVTTIM_MOD = 7
  TIC_NUME = 3
  TIC_DENO = 2
SYMMETRY MCSymmetry
SPECIFICATION Spec
INVARIANTS TypeOK HeapOK LefttimOK
PROPERTIES KeepsTime
