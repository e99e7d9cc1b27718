SPECIFICATION Spec
CONSTANTS
    Angle = {nick}
    Schub = schub
    Width = {1, 2}
    Period = 2
    MaxRun = 2
    MaxLate = 1
INVARIANTS
    TypeOK
    CutOffInTime
    
