-------------------------- MODULE MCTemplateMirror --------------------------
(* Small instances of TemplateMirror for TLC. *)
EXTENDS TemplateMirror

CONSTANTS t1, t2, t3

\* A full page and a short one, of pages of two.
MCCatalogue == <<t1, t2, t3>>

=============================================================================
