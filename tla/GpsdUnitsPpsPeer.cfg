CONSTANTS
    Pri = Pri
    Sec = Sec
SPECIFICATION Spec
INVARIANT PpsPeerDerefLive
