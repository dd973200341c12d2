--------------------------- MODULE MCConflateAudit ---------------------------
(* Small instances of the audited conflate bus. *)
EXTENDS MCConflate, ConflateAudit
=============================================================================
