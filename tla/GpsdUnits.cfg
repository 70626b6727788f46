CONSTANTS
    Pri = Pri
    Sec = Sec
SPECIFICATION Spec
INVARIANT TypeOK
INVARIANT RefcountMatchesUsers
