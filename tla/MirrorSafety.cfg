SPECIFICATION Spec
CONSTANTS
    Names = {"f", "w"}
    Word <- ShellWord
INVARIANTS
    Coherent

    
