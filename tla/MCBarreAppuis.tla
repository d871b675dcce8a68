------------------------------ MODULE MCBarreAppuis ------------------------------
EXTENDS BarreAppuis, MCGestionBarre
==================================================================================
