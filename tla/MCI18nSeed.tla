----------------------------- MODULE MCI18nSeed -----------------------------
(***************************************************************************)
(* Instances of I18nSeed for TLC: two replicas; the image bundles two      *)
(* catalogs and the configuration; people may drop a third catalog.        *)
(***************************************************************************)
EXTENDS I18nSeed

CONSTANTS p1, p2, en, de, fr, settings
=============================================================================
