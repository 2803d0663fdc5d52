--------------------------- MODULE MCUploadedObjects ---------------------------
(* Instances of UploadedObjects for TLC. *)
EXTENDS UploadedObjects

\* Contents of one length, and a longer one.
MCSizeOf == [c \in Contents |-> IF c = "long" THEN 2 ELSE 1]
=============================================================================
