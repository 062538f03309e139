--------------------------- MODULE MCQMIExchange ---------------------------
(* An instance of QMIExchange for model checking.                          *)
EXTENDS QMIExchange

TLV(type, value) == [type |-> type, value |-> value]

\* Client 1 of three services.
OfEachService == {257, 258, 282}

\* A result that is good and two that are not, with codes of two bytes, the
\* second with a first byte of 0; a client ID or a link status of two bytes, one
\* byte and none; both link protocols (as a counter: RX packets), a serial
\* number, a counter of eight bytes, and a TLV nobody asks for whose value looks
\* like a good result.
Pool == {TLV(2, <<0, 0, 0, 0>>), TLV(2, <<1, 0, 5, 1>>),
         TLV(2, <<1, 0, 0, 1>>),
         TLV(1, <<2, 1>>), TLV(1, <<1>>), TLV(1, <<>>),
         TLV(17, <<2, 0, 0, 0>>), TLV(17, <<1, 0, 0, 0>>),
         TLV(18, [i \in 1..14 |-> 48 + i]), TLV(25, [i \in 1..8 |-> i]),
         TLV(64, <<2, 4, 0, 0, 0, 0, 0>>)}
=============================================================================
