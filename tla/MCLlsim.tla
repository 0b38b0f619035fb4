------------------------------ MODULE MCLlsim ------------------------------
(***************************************************************************)
(* Llsim for TLC: the two memories of the pipelined SP, sramd served       *)
(* first because sp_init allocates it last.  srami is only read, as in     *)
(* sp.c.  Half is 8, so 8 is the first address out of range and 32 is a    *)
(* negative one.                                                           *)
(***************************************************************************)
EXTENDS Llsim, MCWords

MCDecode(w) == DecodeBy(<<>>, w)

MCMems == <<"sramd", "srami">>
MCReadAddrs == [n \in Names |-> IF n = "sramd" THEN {1, 8, 32} ELSE {1, 8}]
MCWriteAddrs == [n \in Names |-> IF n = "sramd" THEN {1, 8, 32} ELSE {}]
MCDatains == [n \in Names |-> IF n = "sramd" THEN {3} ELSE {}]
MCContents == {[n \in Names |-> [a \in Addr |-> 5]]}
=============================================================================
