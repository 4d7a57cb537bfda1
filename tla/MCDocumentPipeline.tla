------------------------- MODULE MCDocumentPipeline -------------------------
(***************************************************************************)
(* A small instance of DocumentPipeline. The type of a document plays no   *)
(* part in it, so one is enough.                                           *)
(***************************************************************************)
EXTENDS DocumentPipeline

CONSTANTS j1, j2, nodoc, nojob
=============================================================================
