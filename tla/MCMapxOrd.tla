------------------------------ MODULE MCMapxOrd ------------------------------
(***************************************************************************)
(* Instances of MapxOrd for TLC: bytes of one bit, and a map of byte       *)
(* strings between one of unsigned and one of signed numbers.              *)
(***************************************************************************)
EXTENDS MapxOrd

MCMaps    == {<<0, 0>>, <<0, 1>>, <<1, 0>>}
MCKeyType == [m \in MCMaps |-> CASE m = <<0, 0>> -> "unsigned"
                                 [] m = <<0, 1>> -> "bytes"
                                 [] m = <<1, 0>> -> "signed"]
MCByteKey == {<<>>, <<1>>, <<1, 0>>, <<1, 1>>}
=============================================================================
