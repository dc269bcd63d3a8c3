---------------------------- MODULE MCAppUpdate ----------------------------
EXTENDS AppUpdate

\* A client at the top.  Of each directory a file of the release and one that only the
\* installation has: in bin/ one that a user put there, in resources/ a library.
ReleaseFiles == {"client", "engine", "guide"}
AllFiles == {"client", "engine", "addon", "guide", "library", "oldclient"}
BinFiles == {"engine", "addon"}
ResourceFiles == {"guide", "library"}
LibraryFiles == {"library"}
TopFolders == {BinFiles, ResourceFiles}
OldFiles == {"oldclient"}
=============================================================================
