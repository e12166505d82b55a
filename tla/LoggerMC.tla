------------------------------ MODULE LoggerMC ------------------------------
EXTENDS Logger
=============================================================================
