------------------------ MODULE MCMaintenanceToolFile ------------------------
\* What may fail: anything, or only the writing of the temporary file for the data.
EXTENDS MaintenanceToolFile

MCNoTemporary == {"data"}
=============================================================================
