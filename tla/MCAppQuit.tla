------------------------------ MODULE MCAppQuit ------------------------------
EXTENDS AppQuit
=============================================================================
