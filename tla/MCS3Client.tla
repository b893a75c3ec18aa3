----------------------------- MODULE MCS3Client -----------------------------
\* No symmetry: the run checks liveness.
EXTENDS S3Client
=============================================================================
