SPECIFICATION Spec
CONSTANTS
    Codes = {c1}
    None = None
INVARIANT TypeOK
INVARIANT SharesOnlyAsAllowed
 
PROPERTY OffEndsSession
