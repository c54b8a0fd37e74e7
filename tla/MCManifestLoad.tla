---------------------------- MODULE MCManifestLoad ----------------------------
EXTENDS ManifestLoadProps
=============================================================================
