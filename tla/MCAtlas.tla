------------------------------ MODULE MCAtlas ------------------------------
EXTENDS Atlas
MCEvents == {"build", "embed", "graph", "batch", "fetch", "abort",
             "reindex", "rescan", "restart"}
=============================================================================
