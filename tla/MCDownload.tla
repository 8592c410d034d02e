------------------------------ MODULE MCDownload ------------------------------
(* Two sources, an archive of two chunks, two attempts at a source.        *)
EXTENDS Download

CONSTANTS s1, s2

MCCatalog == <<s1, s2>>
=============================================================================
