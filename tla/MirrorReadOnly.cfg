SPECIFICATION Spec
CONSTANTS
    Names = {"f", "w"}
    Word <- ShellWord
PROPERTIES
    ReadOnlyKept
