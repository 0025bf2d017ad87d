---------------------------- MODULE MCAssetVault ----------------------------
(* Two imports of one source and one execution.  A torn read of two of the *)
(* versions is of the right size and is neither of them; two of the        *)
(* versions share a digest directory.                                      *)
EXTENDS AssetVault, TLC

CONSTANTS short, long

MCShelves == {short, long}
MCShelfOf == [d \in Digests |-> IF Len(d) = 1 THEN short ELSE long]

MCContents == {<<"a", "a">>, <<"b", "b">>, <<"b">>}

Interchangeable == Permutations(Importers)
=============================================================================
