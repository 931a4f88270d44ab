------------------------------- MODULE MCBlob -------------------------------
EXTENDS Blob

CONSTANTS h1, h2

MCHolders == {h1, h2}
=============================================================================
