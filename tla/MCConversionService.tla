------------------------ MODULE MCConversionService ------------------------
(* One conversion and a program that may write to the same output path. *)
EXTENDS ConversionService

=============================================================================
