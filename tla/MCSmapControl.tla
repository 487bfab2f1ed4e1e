---------------------------- MODULE MCSmapControl ----------------------------
(***************************************************************************)
(* SmapControl for TLC.                                                    *)
(***************************************************************************)
EXTENDS SmapControl

Opt(name) == [option |-> name, text |-> <<>>]
Number(characters) == [option |-> "conf", text |-> characters]

\* 0x40 and 192 (100 half and 10 full), and 0x5e0.
Hex40 == Number(<<48, 120, 52, 48>>)
Dec192 == Number(<<49, 57, 50>>)
Hex5e0 == Number(<<48, 120, 53, 101, 48>>)

\* The default load, a fixed mode, the straps, and two that are refused.
Lists == {<<>>, <<Opt("-no_auto"), Hex40>>, <<Opt("-strap")>>,
          <<Hex5e0>>, <<Dec192, Opt("-help")>>}
Default == {<<>>}

\* The PHY can do all; the other end half duplex at 10 Mbit/s.
All == {Modes}
Ends == {{"10HDX", Pause}}
Mixed == {{"100HDX", "10FDX", "10HDX"}}
=============================================================================
