SPECIFICATION Spec
CONSTANTS
    Codes = {c1}
    None = None
PROPERTY StandingReachable
