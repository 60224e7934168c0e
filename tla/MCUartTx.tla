------------------------------ MODULE MCUartTx ------------------------------
EXTENDS UartTx
CONSTANTS x, y
MCBytes == {x, y}
=============================================================================
