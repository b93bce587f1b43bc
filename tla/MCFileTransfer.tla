--------------------------- MODULE MCFileTransfer ---------------------------
EXTENDS FileTransfer
MCFolders == {"home", "away"}
MCFirst == {<<"home", "x">>, <<"home", "y">>, <<"away", "x">>}
J(o, f, t, n) == [op |-> o, from |-> f, to |-> t, only |-> n]
MCJobs == {J("copy", "home", "away", All), J("move", "home", "away", All),
           J("move", "away", "home", All), J("move", "home", "home", "x"),
           J("copy", "home", "home", "y"), J("delete", "away", "away", "x"), J("move", "home", "away", "x")}
MCSelf == {J("move", "home", "home", All)}
=============================================================================
