SPECIFICATION Spec
CONSTANTS
    Providers = {"p","q"}
    Implied = "p"
    Variables = {"p"}
    Legacy = FALSE
    MaxIssued = 2
    Faults = {}
INVARIANTS
    CredentialIsOwn
