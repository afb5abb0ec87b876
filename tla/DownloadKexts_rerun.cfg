\* Two releases and HfsPlus.efi, with every failure, interruption, kill and rerun.
CONSTANTS
    Components <- MCComponents
    Kexts = {"Lilu"}
    HfsPlus = "HfsPlus"
SPECIFICATION Spec
INVARIANTS
    SuccessMeansInstalled
    FailureIsReal
