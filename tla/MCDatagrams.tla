---------------------------- MODULE MCDatagrams ----------------------------
(* Addresses that name the host 1.0.3.0, one of them with its last number   *)
(* missing, one with a dot in front and one of three numbers, and one that  *)
(* does not; ports that are equal up to 2^16, one of them also to an int of *)
(* 19 bits; messages up to one longer than a datagram.                      *)
EXTENDS Datagrams

MCHost == <<1, 0, 3, 0>>
MCTexts == {<<1, Dot, 0, Dot, 3, Dot, 0>>, <<1, Dot, 0, Dot, 3, Dot>>,
            <<Dot, 1, Dot, 0, Dot, 3>>, <<1, Dot, 0, Dot, 7, 6, 8>>,
            <<1, Dot, 0, Dot, 3, Dot, 2, 5, 6>>}
MCPorts == {<<1, 0, 2, 4>>, <<6, 6, 5, 6, 0>>, <<5, 2, 5, 3, 1, 2>>}
MCMessages == {<<>>, <<"p", "n", "p", "p">>}
=============================================================================
