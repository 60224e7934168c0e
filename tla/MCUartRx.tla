------------------------------ MODULE MCUartRx ------------------------------
EXTENDS UartRx

\* AT; a command without and with data; one without its end; a name that is too long;
\* data that fills the buffer; AT+ and AT alone; a stray byte.
MCFrames == {
  <<"A", "T", "CR", "LF">>,
  <<"A", "T", "+", "v", "CR", "LF">>,
  <<"A", "T", "+", "v", "CR">>,
  <<"A", "T", "+", "v", "v", "CR", "LF">>,
  <<"A", "T", "+", "v", "=", "CR", "LF">>,
  <<"A", "T", "+", "v", "=", "=", "CR", "LF">>,
  <<"A", "T", "+">>,
  <<"A", "T">>,
  <<"=">> }
=============================================================================
