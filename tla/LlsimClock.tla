----------------------------- MODULE LlsimClock -----------------------------
(***************************************************************************)
(* What llsim promises a unit: a clock is one atomic step.  While its run  *)
(* function is active the unit only leaves requests on the memory ports    *)
(* and values in its new registers; at the end of the clock every memory   *)
(* serves its port at once and the new registers become the old ones, or   *)
(* the first memory with a faulty port ends the process.  SpPipeline and   *)
(* SpMultiCycle are written against this promise; Llsim keeps it.          *)
(*                                                                         *)
(* One unit is registered, as in both labs.  Its registers are one value.  *)
(***************************************************************************)
EXTENDS LlsimMemory, Sequences

CONSTANTS
  Mems,          \* the unit's memories, in the order they are served
  Value,         \* values of the unit's registers
  ResetValue,    \* the value sp_reset gives them
  ResetClocks    \* clocks main() runs with reset raised: 5

Names == {Mems[k] : k \in DOMAIN Mems}

VARIABLES
  resets,    \* reset clocks already run
  status,    \* of the process
  stop,      \* stop_sim
  old, new,  \* the unit's registers
  port,      \* of each memory
  data,      \* contents of each memory
  dataout    \* output latch of each memory

vars == <<resets, status, stop, old, new, port, data, dataout>>

\* The first of the ports, in the order of the memories, that is faulty.
FirstFault(ports, k) ==
  /\ PortVerdict(ports[Mems[k]]) # "running"
  /\ \A j \in 1 .. k - 1 : PortVerdict(ports[Mems[j]]) = "running"

Running == status = "running"
Resetting == resets < ResetClocks

\* run is called with reset lowered until llsim_stop, and finishes its clock.
Driving == Running /\ ~Resetting

Die(s) ==
  /\ status' = s
  /\ port' = Gone /\ data' = Gone /\ dataout' = Gone
  /\ UNCHANGED <<resets, stop, old, new>>

-----------------------------------------------------------------------------
Init ==
  /\ resets = 0 /\ status = "running" /\ stop = FALSE
  /\ old = ResetValue /\ new = ResetValue
  /\ port = [m \in Names |-> IdlePort]
  /\ data \in [Names -> [Addr -> Word]]
  /\ dataout = [m \in Names |-> 0]

\* The unit's calls.  A second read or write of a memory in one clock exits.
MemRead(m, a) ==
  /\ Driving /\ ~port[m].read
  /\ port' = [port EXCEPT ![m].read = TRUE, ![m].raddr = a]
  /\ UNCHANGED <<resets, status, stop, old, new, data, dataout>>

MemWrite(m, a) ==
  /\ Driving /\ ~port[m].write
  /\ port' = [port EXCEPT ![m].write = TRUE, ![m].waddr = a]
  /\ UNCHANGED <<resets, status, stop, old, new, data, dataout>>

MemTwice(m) ==
  /\ Driving /\ (port[m].read \/ port[m].write)
  /\ Die("aborted")

SetDatain(m, d) ==
  /\ Driving
  /\ port' = [port EXCEPT ![m].datain = d]
  /\ UNCHANGED <<resets, status, stop, old, new, data, dataout>>

SetRegisters(v) ==
  /\ Driving
  /\ new' = v
  /\ UNCHANGED <<resets, status, stop, old, port, data, dataout>>

Stop ==
  /\ Driving
  /\ stop' = TRUE
  /\ UNCHANGED <<resets, status, old, new, port, data, dataout>>

\* The clock: each memory does nothing, one read or one write.  With reset
\* raised nothing is requested and the registers take their reset value.
Clock ==
  /\ Running
  /\ \A m \in Names : PortVerdict(port[m]) = "running"
  /\ new' = IF Resetting THEN ResetValue ELSE new
  /\ old' = new'
  /\ port' = [m \in Names |-> Released(port[m])]
  /\ data' = [m \in Names |-> MemAfter(data[m], port[m])]
  /\ dataout' = [m \in Names |-> DataoutAfter(data[m], dataout[m], port[m])]
  /\ resets' = IF Resetting THEN resets + 1 ELSE resets
  /\ UNCHANGED <<status, stop>>

FaultyClock ==
  /\ Running
  /\ \E k \in DOMAIN Mems :
        FirstFault(port, k) /\ Die(PortVerdict(port[Mems[k]]))

\* main() leaves its loop.
End ==
  /\ Driving /\ stop
  /\ status' = "stopped"
  /\ UNCHANGED <<resets, stop, old, new, port, data, dataout>>

Next ==
  \/ \E m \in Names :
        \/ \E a \in Word : MemRead(m, a) \/ MemWrite(m, a) \/ SetDatain(m, a)
        \/ MemTwice(m)
  \/ \E v \in Value : SetRegisters(v)
  \/ Stop \/ Clock \/ FaultyClock \/ End

Spec == Init /\ [][Next]_vars
=============================================================================
