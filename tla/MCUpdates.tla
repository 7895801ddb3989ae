------------------------------ MODULE MCUpdates ------------------------------
\* One release, and two calls of the window beside the daily check.
EXTENDS Updates
=============================================================================
