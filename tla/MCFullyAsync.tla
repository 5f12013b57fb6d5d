--------------------------- MODULE MCFullyAsync ---------------------------
EXTENDS FullyAsync
=============================================================================
