------------------------------- MODULE MCTools -------------------------------
(***************************************************************************)
(* The build and the two halves of the programmer's window that work on    *)
(* its files: the ROM image, and the catalogue of the OTA server.  The     *)
(* halves share only the files the build writes, so a behaviour is about   *)
(* one of them.                                                            *)
(***************************************************************************)
EXTENDS OtaCatalogue

VARIABLE half

toolsVars == <<half, imageVars, catalogueVars>>

\* Loaders that end before the metadata, in their area, and behind it.
Fit  == [text |-> 10, snippets |-> <<[addr |-> 0, dat |-> <<2, 0, 3, 34>>]>>]
Long == [text |-> 12, snippets |-> <<[addr |-> 0, dat |-> <<2, 0, 4>>],
                                     [addr |-> 4, dat |-> <<0, 0, 34>>]>>]
Over == [text |-> 12, snippets |-> <<[addr |-> 0, dat |-> <<2, 0, 9>>],
                                     [addr |-> 9, dat |-> <<0, 0, 34>>]>>]
MCLdrHexes == {Fit, Long, Over}

Jump(to) == [addr |-> 0, dat |-> <<2, 0, to>>]
Code(at) == [addr |-> at, dat |-> <<4, 34>>]
Hex(text, snippets) == [text |-> text, snippets |-> snippets]

\* Applications in one piece and with a gap; one that reaches into the loader;
\* snippets out of order; half an instruction at the end; too large; in too
\* long a file.
MCAppHexes ==
  {Hex(15, <<Jump(14), Code(14)>>),
   Hex(17, <<Jump(15), Code(15), [addr |-> 18, dat |-> <<34>>]>>),
   Hex(17, <<Jump(14), [addr |-> 3, dat |-> <<50>>], Code(14)>>),
   Hex(17, <<Jump(16), Code(16), [addr |-> 14, dat |-> <<0>>]>>),
   Hex(15, <<Jump(14), [addr |-> 14, dat |-> <<0, 34>>]>>),
   Hex(15, <<Jump(14), [addr |-> 14, dat |-> <<0, 2>>]>>),
   Hex(18, <<Jump(14), Code(14), Code(19)>>),
   Hex(21, <<Jump(14), Code(15)>>)}

\* Two of one size.
OtaHexes == {Hex(15, <<Jump(14), Code(14)>>),
             Hex(15, <<Jump(14), [addr |-> 14, dat |-> <<0, 34>>]>>)}

-----------------------------------------------------------------------------
\* Other loaders, applications and fillers are for the ROM half, which has one
\* build.  The catalogue sees the applications through the builds only: it needs
\* none linked after the last one.
ToolsInit ==
  /\ half \in {"rom", "ota"} /\ ImageInit /\ CatalogueInit
  /\ half = "ota" => app_hex \in OtaHexes /\ ldr_hex = Fit

ToolsNext ==
  /\ UNCHANGED half
  /\ \/ Link /\ UNCHANGED catalogueVars
     \/ Build
     \/ half = "rom" /\ RomNext /\ UNCHANGED catalogueVars
     \/ half = "ota" /\ CatalogueNext
  /\ IF half = "rom" THEN builds' <= 1 /\ \A b \in built' : b[1] = 1
     ELSE /\ app_hex' \in OtaHexes /\ made'.fill = 0
          /\ builds = MaxBuilds => app_hex' = app_hex

ToolsSpec == ToolsInit /\ [][ToolsNext]_toolsVars
=============================================================================
