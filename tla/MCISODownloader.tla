-------------------------- MODULE MCISODownloader --------------------------
(* ISODownloader for TLC: source a is an image of one chunk served with    *)
(* its length, b one of two chunks that is streamed.                       *)
EXTENDS ISODownloader, TLC

CONSTANTS a, b

Bodies == {a, b}

BodyLength == (a :> 1) @@ (b :> 2)

WithLength == {a}

=============================================================================
