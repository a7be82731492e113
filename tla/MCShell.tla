-------------------------------- MODULE MCShell --------------------------------
EXTENDS AppShell, TLC

\* One workspace with two sessions.
OnePast == << <<1, 2>> >>
=============================================================================
