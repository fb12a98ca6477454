CONSTANTS
  N_IFSTACK = 3
  N_FILES = 2
  FNAME_STACK_N = 2
  Macros = {M}
  Main <- MCMain
  Tree <- MCTree
  Includes <- OneInclude
  IncludeDirs <- MCIncludeDirs
  SystemDirs <- MCSystemDirs
  MissingHeaderError = FALSE
  LineDirectives <- LineNumberOnly
  StripComments = "STRIP_ALL"
  Layouts <- CommentLayouts
  Kinds <- AllKinds
  SpliceKinds = {"text", "if", "eof"}
  MaxLines = 5
SPECIFICATION Spec
INVARIANTS CommentsNeverAct SkipsAsStandard ElseRemembered

