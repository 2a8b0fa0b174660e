----------------------------- MODULE MCDocuments -----------------------------
(* A small instance of Documents for TLC. *)
EXTENDS Documents

\* One upload, under the name a generated résumé has.
MCOffered == <<[name |-> "resume.pdf", size |-> 1]>>
=============================================================================
