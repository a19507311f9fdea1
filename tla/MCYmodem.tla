------------------------------ MODULE MCYmodem ------------------------------
(* A small instance of Ymodem: a file of two packets, one byte of which is   *)
(* damaged.                                                                  *)
EXTENDS Ymodem

DamagedTransfers ==
    {[blocks |-> <<"large", "small">>, faults |-> {"damage"}, most |-> 1]}
=============================================================================
