--------------------------- MODULE MCCredentials ---------------------------
(* A small instance of Credentials for TLC, whose integers have 32 bits.    *)
EXTENDS Credentials

\* '.', ':', 'a' and 'z'; and the first byte of a letter beyond ASCII in UTF-8.
MCChars == {46, 58, 97, 122, -61}
=============================================================================
