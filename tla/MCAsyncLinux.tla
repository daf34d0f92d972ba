---------------------------- MODULE MCAsyncLinux ----------------------------
\* Two connections of three bytes, the second of which ends a line.
EXTENDS AsyncLinux

SecondEndsLine == {2}
=============================================================================
