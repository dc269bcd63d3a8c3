---------------------------- MODULE MCModelTasks ----------------------------
EXTENDS ModelTasks

CONSTANTS client, installer, hyMt2, hyMt2Big

BothProcesses == {client, installer}
BothPackages == {hyMt2, hyMt2Big}

\* "hy-mt2" and "hy-mt2-big"
NamePrefixes == {<<hyMt2, hyMt2Big>>}
=============================================================================
