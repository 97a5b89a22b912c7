------------------------------- MODULE MCCodec -------------------------------
(* Instances of Codec for TLC.                                             *)
EXTENDS Codec

\* Lengths on both sides of each width boundary for ByteBase 4: the 1-digit
\* form up to 3, the 2-digit form from 4 to 15, the 4-digit form from 16.
MCLengths == {0, 3, 4, 15, 16, 255}

=============================================================================
