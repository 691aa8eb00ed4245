----------------------------- MODULE MCDownload -----------------------------
\* Model-checking instance of Download.
EXTENDS Download, MCUpload
=============================================================================
