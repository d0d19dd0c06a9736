------------------------------ MODULE MCAtSerial ------------------------------
(* Two notifications in one memory and none in the other; the length of the *)
(* first has two digits, so that a read can end between them.               *)
EXTENDS AtSerial, TLC

CONSTANTS near, next

MCPlace == near :> <<"SM", 1>> @@ next :> <<"SM", 2>>
MCLength == near :> 10 @@ next :> 1
===============================================================================
