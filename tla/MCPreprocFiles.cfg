CONSTANTS
  N_IFSTACK = 4
  N_FILES = 6
  FNAME_STACK_N = 4
  Macros = {M}
  Main <- MCMain
  Tree <- MCTree
  Includes <- MCIncludes
  IncludeDirs <- MCIncludeDirs
  SystemDirs <- MCSystemDirs
  MissingHeaderError = TRUE
  LineDirectives <- LineNumberOnly
  StripComments = "STRIP_ALL"
  Layouts <- PlainLayouts
  Kinds <- FileKinds
  SpliceKinds = {"text", "define"}
  MaxLines = 6
SPECIFICATION Spec
INVARIANTS TypeOK OutputInSync BacktraceMatches QuotedFromOwnDirectory
