\* What is downloaded when a release cannot be resolved.
CONSTANTS
    Components <- MCComponents
    Kexts = {"Lilu"}
    HfsPlus = "HfsPlus"
SPECIFICATION Spec
INVARIANTS
    SkipsUnresolved
