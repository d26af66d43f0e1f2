--------------------------- MODULE MCSessionActions ---------------------------
\* The desktops of the runs of SessionActions.
EXTENDS SessionActions

Desktop(lockdown, unity, program) ==
  [lockdown |-> lockdown, unity |-> unity, program |-> program]

\* GNOME, which has a lockdown; Lomiri, which would rather not restart
TwoDesktops == {Desktop(TRUE, FALSE, FALSE), Desktop(FALSE, TRUE, FALSE)}
OnlyGnome == {Desktop(TRUE, FALSE, FALSE)}
=============================================================================
