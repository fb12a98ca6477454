------------------------------ MODULE MCPreproc ------------------------------
(* Small instances of the preprocessor: a main file, a header of the same name  *)
(* beside it and in a -I directory, and one only in a -isystem directory.        *)
EXTENDS Preproc

MCMain == <<"here", "main.c">>
MCTree == {MCMain, <<"here", "a.h">>, <<"inc", "a.h">>, <<"inc", "b.h">>, <<"sys", "c.h">>}
MCIncludes == {<<"", "a.h">>, <<"", "b.h">>, <<"", "c.h">>, <<"", "gone.h">>, <<"inc", "b.h">>}
MCIncludeDirs == <<"inc">>
MCSystemDirs == <<"sys">>
OneInclude == {<<"", "a.h">>}

LineNumberOnly == {[n |-> 5, fname |-> NoName]}

PlainLayouts == {<<"#">>, <<"x">>}
CommentLayouts ==
  {<<"#">>, <<"x">>, <<"#", "/*">>, <<"x", "/*">>, <<"/*", "#">>, <<"#", "*/">>, <<"*/", "#">>,
   <<"*/", "/*">>, <<"/*", "*/", "#">>, <<"'", "/*", "'", "/*">>, <<"'", "/*">>, <<"//", "/*">>}

FileKinds == {"ifdef", "else", "endif", "define", "undef", "include", "pragma", "warning", "error"}
AllKinds == {"ifdef", "ifdef_malformed", "if", "elif", "else", "endif", "define", "undef",
             "warning", "error", "pragma", "malformed", "unknown", "nonword", "null", "include",
             "line", "bad_line"}
=============================================================================
