--------------------------- MODULE MC_DockerListing ---------------------------
(* A small instance of DockerListing: IDs of three characters out of two.    *)
EXTENDS DockerListing

TwoChars == <<"a", "b">>

FourIds == {<<"a", "a", "a">>, <<"a", "a", "b">>, <<"a", "b", "a">>,
            <<"b", "a", "a">>}
=============================================================================
