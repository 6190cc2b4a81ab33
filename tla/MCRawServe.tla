----------------------------- MODULE MCRawServe -----------------------------
(* Two inodes of up to three bytes; a rendition has two thirds of them and
   one for its header. *)
EXTENDS RawServe

MCPacked == [n \in 0 .. MaxLength |-> (2 * n) \div 3 + 1]
=============================================================================
