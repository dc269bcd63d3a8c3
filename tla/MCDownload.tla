----------------------------- MODULE MCDownload -----------------------------
EXTENDS Download

AnyDigest == BOOLEAN
=============================================================================
