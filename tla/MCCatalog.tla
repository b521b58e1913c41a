----------------------------- MODULE MCCatalog -----------------------------
(* Catalog for TLC: one attribute, two lists, pages of all sizes up to three. *)
EXTENDS Catalog

MCRequested == 0 .. 3
================================================================================
