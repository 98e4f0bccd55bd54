--------------------------- MODULE MCLegacySender ---------------------------
(* Three readings with the default of three attempts each.                 *)
EXTENDS LegacySender
=============================================================================
