--------------------------- MODULE MCDashboardHub ---------------------------
EXTENDS DashboardHub

CONSTANTS c1, c2, b1, b2
=============================================================================
