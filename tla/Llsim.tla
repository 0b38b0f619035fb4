------------------------------- MODULE Llsim -------------------------------
(***************************************************************************)
(* The llsim simulator loop of src/lab3_A/llsim.c (lab2's differs only in  *)
(* layout), one step per thing it does:                                    *)
(*                                                                         *)
(*   main: loop test -> unit->run, which may call llsim_mem_read,          *)
(*   llsim_mem_write, llsim_mem_set_datain and llsim_stop -> for each      *)
(*   memory: serve a read, serve a write, check -> copy the registers      *)
(*                                                                         *)
(* The unit is any unit: it makes the calls in any order and number, with  *)
(* the addresses and data the constants list, and reads the old registers  *)
(* and the output latches only.  With reset raised it resets its registers *)
(* and makes no call, as sp_run does.                                      *)
(***************************************************************************)
EXTENDS LlsimMemory, Sequences

CONSTANTS
  Mems, Value, ResetValue, ResetClocks,   \* see LlsimClock
  ReadAddrs, WriteAddrs, Datains,         \* what the unit drives each memory with
  Contents                                \* contents the memories may begin with

VARIABLES
  resets,               \* reset clocks already run
  status,               \* of the process
  stop,                 \* stop_sim
  old, new,             \* the unit's registers
  port,                 \* of each memory
  data,                 \* contents of each memory
  dataout,              \* output latch of each memory
  at,                   \* the statement main() and llsim_run_clock are at
  k,                    \* the memory being served is Mems[k]
  readDone, writeDone   \* the locals of llsim_run_clock

vars == <<resets, status, stop, old, new, port, data, dataout, at, k,
          readDone, writeDone>>

Names == {Mems[j] : j \in DOMAIN Mems}
Positions == {"main", "unit", "read", "write", "check", "copy"}

ASSUME MemsAssumption ==
  /\ Mems \in Seq(Names) /\ Mems # <<>>
  /\ \A i, j \in DOMAIN Mems : Mems[i] = Mems[j] => i = j

ASSUME ClocksAssumption == ResetValue \in Value /\ ResetClocks \in Nat \ {0}

ASSUME UnitAssumption ==
  /\ ReadAddrs \in [Names -> SUBSET Word]
  /\ WriteAddrs \in [Names -> SUBSET Word]
  /\ Datains \in [Names -> SUBSET Word]
  /\ Contents \subseteq [Names -> [Addr -> Word]]

ResettingOnceMore == resets <= ResetClocks

Resetting == resets < ResetClocks
At(p) == status = "running" /\ at = p
Driving == At("unit") /\ ~Resetting
m == Mems[k]

\* The process ends here; what it leaves in memory is of no account.
Exit(s) ==
  /\ status' = s
  /\ UNCHANGED <<resets, stop, old, new, port, data, dataout, at, k,
                 readDone, writeDone>>

Init ==
  /\ resets = 0 /\ status = "running" /\ stop = FALSE
  /\ old = ResetValue /\ new = ResetValue
  /\ port = [n \in Names |-> IdlePort]
  /\ data \in Contents
  /\ dataout = [n \in Names |-> 0]
  /\ at = "main" /\ k = 1 /\ readDone = FALSE /\ writeDone = FALSE

-----------------------------------------------------------------------------
(***************************************************************************)
(* main() and the unit.                                                    *)
(***************************************************************************)

EnterIgnoringStop ==
  /\ At("main")
  /\ at' = "unit"
  /\ UNCHANGED <<resets, status, stop, old, new, port, data, dataout, k,
                 readDone, writeDone>>

\* The next clock; the five reset clocks do not look at stop_sim.
Enter ==
  /\ At("main") /\ (Resetting \/ ~stop)
  /\ at' = "unit"
  /\ UNCHANGED <<resets, status, stop, old, new, port, data, dataout, k,
                 readDone, writeDone>>

Leave ==
  /\ At("main") /\ ~Resetting /\ stop
  /\ Exit("stopped")

MemRead(n, a) ==
  /\ Driving /\ ~port[n].read
  /\ port' = [port EXCEPT ![n].read = TRUE, ![n].raddr = a]
  /\ UNCHANGED <<resets, status, stop, old, new, data, dataout, at, k,
                 readDone, writeDone>>

MemWrite(n, a) ==
  /\ Driving /\ ~port[n].write
  /\ port' = [port EXCEPT ![n].write = TRUE, ![n].waddr = a]
  /\ UNCHANGED <<resets, status, stop, old, new, data, dataout, at, k,
                 readDone, writeDone>>

\* llsim_mem_read and llsim_mem_write assert that they are called once.
MemTwice(n) ==
  /\ Driving
  /\ \/ port[n].read /\ ReadAddrs[n] # {}
     \/ port[n].write /\ WriteAddrs[n] # {}
  /\ Exit("aborted")

SetDatain(n, d) ==
  /\ Driving
  /\ port' = [port EXCEPT ![n].datain = d]
  /\ UNCHANGED <<resets, status, stop, old, new, data, dataout, at, k,
                 readDone, writeDone>>

SetRegisters(v) ==
  /\ Driving
  /\ new' = v
  /\ UNCHANGED <<resets, status, stop, old, port, data, dataout, at, k,
                 readDone, writeDone>>

Stop ==
  /\ Driving
  /\ stop' = TRUE
  /\ UNCHANGED <<resets, status, old, new, port, data, dataout, at, k,
                 readDone, writeDone>>

\* run returns.  With reset raised it has only reset the new registers.
UnitReturns ==
  /\ At("unit")
  /\ new' = IF Resetting THEN ResetValue ELSE new
  /\ at' = "read" /\ k' = 1
  /\ readDone' = port[Mems[1]].read /\ writeDone' = port[Mems[1]].write
  /\ UNCHANGED <<resets, status, stop, old, port, data, dataout>>

-----------------------------------------------------------------------------
(***************************************************************************)
(* llsim_run_clock on the memory m.  The port's flags are cleared as they  *)
(* are served, after readDone and writeDone have latched them.             *)
(***************************************************************************)

ReadFault ==
  /\ At("read") /\ port[m].read /\ ~InRange(port[m].raddr)
  /\ Exit(AddrVerdict(port[m].raddr))

ServeReadKeepingRequest ==
  /\ At("read")
  /\ port[m].read => InRange(port[m].raddr)
  /\ dataout' = IF port[m].read THEN [dataout EXCEPT ![m] = data[m][port[m].raddr]]
                ELSE dataout
  /\ at' = "write"
  /\ UNCHANGED <<resets, status, stop, old, new, port, data, k, readDone, writeDone>>

ServeRead ==
  /\ At("read")
  /\ port[m].read => InRange(port[m].raddr)
  /\ dataout' = IF port[m].read THEN [dataout EXCEPT ![m] = data[m][port[m].raddr]]
                ELSE dataout
  /\ port' = [port EXCEPT ![m].read = FALSE]
  /\ at' = "write"
  /\ UNCHANGED <<resets, status, stop, old, new, data, k, readDone, writeDone>>

WriteFault ==
  /\ At("write") /\ port[m].write /\ ~InRange(port[m].waddr)
  /\ Exit(AddrVerdict(port[m].waddr))

ServeWrite ==
  /\ At("write")
  /\ port[m].write => InRange(port[m].waddr)
  /\ data' = IF port[m].write
             THEN [data EXCEPT ![m] = [@ EXCEPT ![port[m].waddr] = port[m].datain]]
             ELSE data
  /\ port' = [port EXCEPT ![m].write = FALSE]
  /\ at' = "check"
  /\ UNCHANGED <<resets, status, stop, old, new, dataout, k, readDone, writeDone>>

\* Simultaneous access is noticed when both have been served.
BothFault ==
  /\ At("check") /\ readDone /\ writeDone
  /\ Exit("aborted")

\* An idle memory loses its latch.  The addresses of a served request are
\* never read again: they are forgotten.
Check ==
  /\ At("check") /\ ~(readDone /\ writeDone)
  /\ dataout' = IF readDone \/ writeDone THEN dataout ELSE [dataout EXCEPT ![m] = Poison]
  /\ port' = [port EXCEPT ![m].raddr = 0, ![m].waddr = 0]
  /\ IF k < Len(Mems)
     THEN /\ at' = "read" /\ k' = k + 1
          /\ readDone' = port[Mems[k + 1]].read
          /\ writeDone' = port[Mems[k + 1]].write
     ELSE /\ at' = "copy" /\ k' = 1
          /\ readDone' = FALSE /\ writeDone' = FALSE
  /\ UNCHANGED <<resets, status, stop, old, new, data>>

\* memcpy of every unit's registers, and back in main() the end of the clock.
CopyRegisters ==
  /\ At("copy")
  /\ old' = new
  /\ resets' = IF Resetting THEN resets + 1 ELSE resets
  /\ at' = "main"
  /\ UNCHANGED <<status, stop, new, port, data, dataout, k, readDone, writeDone>>

\* The statements of main() and llsim_run_clock, and the return of run.
Advance ==
  \/ Enter \/ Leave \/ UnitReturns
  \/ ReadFault \/ ServeRead \/ WriteFault \/ ServeWrite \/ BothFault \/ Check
  \/ CopyRegisters

\* The calls run makes.
Call ==
  \/ \E n \in Names :
        \/ \E a \in ReadAddrs[n] : MemRead(n, a)
        \/ \E a \in WriteAddrs[n] : MemWrite(n, a)
        \/ \E d \in Datains[n] : SetDatain(n, d)
        \/ MemTwice(n)
  \/ \E v \in Value : SetRegisters(v)
  \/ Stop

Next == Advance \/ Call

Spec == Init /\ [][Next]_vars

\* run is straight-line code: it returns, whatever calls it makes.
FairSpec == Spec /\ WF_vars(Advance)

-----------------------------------------------------------------------------
(***************************************************************************)
(* The atomic clock.  It happens when run returns: from then on what the   *)
(* rest of the clock will do is settled, and the mapping shows it done.    *)
(***************************************************************************)

Serving == status = "running" /\ at \in {"read", "write", "check"}
InClock == status = "running" /\ at \in {"read", "write", "check", "copy"}

\* What was requested of memory n in this clock, served or not.
Request(n) ==
  IF Serving /\ n = m
  THEN [port[n] EXCEPT !.read = readDone, !.write = writeDone]
  ELSE port[n]

\* The memories this clock has still to finish.
Ahead == IF Serving THEN k .. Len(Mems) ELSE {}
Pending(n) == \E j \in Ahead : Mems[j] = n

\* A fault ahead has already ended the abstract process.
FaultAhead(j) ==
  /\ PortVerdict(Request(Mems[j])) # "running"
  /\ \A i \in Ahead : i < j => PortVerdict(Request(Mems[i])) = "running"

Doomed == \E j \in Ahead : FaultAhead(j)

AbsStatus ==
  IF Doomed
  THEN PortVerdict(Request(Mems[CHOOSE j \in Ahead : FaultAhead(j)]))
  ELSE status

Dead == AbsStatus \in {"aborted", "undefined"}
Committed == InClock /\ ~Dead

AbsResets == IF Committed /\ Resetting THEN resets + 1 ELSE resets
AbsOld == IF Committed THEN new ELSE old

AbsPort ==
  IF Dead THEN Gone
  ELSE [n \in Names |-> IF InClock THEN Released(port[n]) ELSE port[n]]

AbsData ==
  IF Dead THEN Gone
  ELSE [n \in Names |-> IF Pending(n) THEN MemAfter(data[n], Request(n)) ELSE data[n]]

AbsDataout ==
  IF Dead THEN Gone
  ELSE [n \in Names |->
          IF Pending(n) THEN DataoutAfter(data[n], dataout[n], Request(n)) ELSE dataout[n]]

Atomic == INSTANCE LlsimClock
            WITH resets <- AbsResets, status <- AbsStatus, old <- AbsOld,
                 port <- AbsPort, data <- AbsData, dataout <- AbsDataout

-----------------------------------------------------------------------------
(***************************************************************************)
(* Properties.                                                             *)
(***************************************************************************)

\* Every variable has its type.
LlsimTypeOK ==
  /\ resets \in 0 .. ResetClocks
  /\ status \in {"running", "stopped", "aborted", "undefined"}
  /\ stop \in BOOLEAN
  /\ old \in Value /\ new \in Value
  /\ port \in [Names -> Port]
  /\ data \in [Names -> [Addr -> Word]]
  /\ dataout \in [Names -> Word]
  /\ at \in Positions
  /\ k \in DOMAIN Mems
  /\ readDone \in BOOLEAN /\ writeDone \in BOOLEAN

\* A clock of llsim_run_clock is one atomic step for the unit: each memory
\* serves its request once, from the contents before the clock, a request
\* never survives into the next clock, the registers change all at once, and
\* a fault is the first one in the order of the memories.
ClockIsAtomic == Atomic!Spec

\* llsim_stop ends the process at the end of the clock it is called in,
\* unless a fault of that clock ends it first.
StopEnds == stop ~> status # "running"
=============================================================================
