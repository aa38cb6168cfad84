------------------------------ MODULE MCEasyFs -------------------------------
(* Two files and two open files over blocks of two slots, so that a handful *)
(* of writes crosses every boundary of the index structure.                 *)
EXTENDS EasyFs

MCOpens == {<<1, 1, {"WRONLY", "CREATE"}>>, <<2, 1, {"TRUNC"}>>,
            <<2, 2, {"RDWR", "CREATE"}>>, <<2, 2, {}>>}
MCWrites == {<<1, 3>>, <<2, 5>>}
MCReads == {<<2, 9>>}
=============================================================================
