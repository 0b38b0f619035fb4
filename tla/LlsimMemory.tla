---------------------------- MODULE LlsimMemory ----------------------------
(***************************************************************************)
(* A single-ported memory of the llsim framework.  During a clock a unit   *)
(* drives the port (read, write, their addresses, datain); at the end of   *)
(* the clock llsim_run_clock serves the port: it updates the contents and  *)
(* the dataout latch, or stops the process on an assertion.                *)
(*                                                                         *)
(* A port that is not used loses its latch: dataout becomes 0xBAADBAAD,    *)
(* here Poison.  A clock that only writes leaves dataout alone.            *)
(***************************************************************************)
EXTENDS SpIsa

CONSTANT Poison    \* 0xBAADBAAD

ASSUME PoisonAssumption == Poison \in Word

Port == [read: BOOLEAN, raddr: Word, write: BOOLEAN, waddr: Word, datain: Word]

IdlePort == [read |-> FALSE, raddr |-> 0, write |-> FALSE, waddr |-> 0, datain |-> 0]
ReadPort(a) == [read |-> TRUE, raddr |-> a, write |-> FALSE, waddr |-> 0, datain |-> 0]
WritePort(a, d) == [read |-> FALSE, raddr |-> 0, write |-> TRUE, waddr |-> a, datain |-> d]

(***************************************************************************)
(* The bound check compares C ints with the height, from above only: a     *)
(* negative address passes it and indexes in front of the array, which is  *)
(* undefined behaviour.                                                    *)
(***************************************************************************)
AddrAsserts(a) == ~Negative(a) /\ a >= Half
AddrUndefined(a) == Negative(a)
InRange(a) == ~AddrAsserts(a) /\ ~AddrUndefined(a)
AddrVerdict(a) == IF AddrAsserts(a) THEN "aborted" ELSE "undefined"

PortAsserts(p) ==
  \/ p.read /\ AddrAsserts(p.raddr)
  \/ p.write /\ AddrAsserts(p.waddr)
  \/ p.read /\ p.write

PortUndefined(p) ==
  \/ p.read /\ AddrUndefined(p.raddr)
  \/ p.write /\ AddrUndefined(p.waddr)

PortFaults(p) == PortAsserts(p) \/ PortUndefined(p)

\* Contents and latch after a clock in which no check failed.
MemAfter(mem, p) == IF p.write THEN [mem EXCEPT ![p.waddr] = p.datain] ELSE mem

DataoutAfter(mem, dataout, p) ==
  CASE p.read               -> mem[p.raddr]
    [] p.write /\ ~p.read   -> dataout
    [] ~p.write /\ ~p.read  -> Poison

\* A dead process has no memories.
Gone == <<>>

\* The port of a memory that has been served; datain is never cleared.
Released(p) ==
  [read |-> FALSE, raddr |-> 0, write |-> FALSE, waddr |-> 0, datain |-> p.datain]

\* How serving a port ends, its checks taken in their order.
PortVerdict(p) ==
  IF p.read /\ ~InRange(p.raddr) THEN AddrVerdict(p.raddr)
  ELSE IF p.write /\ ~InRange(p.waddr) THEN AddrVerdict(p.waddr)
  ELSE IF p.read /\ p.write THEN "aborted" ELSE "running"
=============================================================================
