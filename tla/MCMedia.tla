------------------------------ MODULE MCMedia ------------------------------
EXTENDS Media
MCIndexes == 1..(Cardinality(Viewers) + 3)
MCEvents == {"disk", "stream", "no stream", "evict cached", "evict sparse", "clear", "restart"}
=============================================================================
