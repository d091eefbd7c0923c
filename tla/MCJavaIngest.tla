------------------------------ MODULE MCJavaIngest ------------------------------
(* Small instances of JavaIngest for TLC: clients whose batches overlap. *)
EXTENDS JavaIngest, TLC

CONSTANTS h1, h2, h3

Shared == h1 :> <<1, 2, 4>> @@ h2 :> <<1, 2, 3>>
Apart == h1 :> <<1, 2, 3>> @@ h2 :> <<3, 4, 5>>
ThreeWays == h1 :> <<1, 2, 3>> @@ h2 :> <<2, 3>> @@ h3 :> <<1, 3, 4>>
=============================================================================
