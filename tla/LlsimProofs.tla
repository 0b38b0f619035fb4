----------------------------- MODULE LlsimProofs -----------------------------
(***************************************************************************)
(* The proof that a clock of llsim is atomic (ClockIsAtomic): for every    *)
(* number of memories, every unit and every width, the statement-by-       *)
(* statement loop of Llsim implements LlsimClock.                          *)
(*                                                                         *)
(* The inductive invariant says, for each statement, which requests have   *)
(* been released and what the requests of the memory being served have     *)
(* already done.                                                           *)
(***************************************************************************)
EXTENDS Llsim, TLAPS, WellFoundedInduction

Idle(n) == ~port[n].read /\ ~port[n].write /\ port[n].raddr = 0 /\ port[n].waddr = 0

\* Between clocks, after the last memory and in reset no request is left.
NoRequests ==
  status = "running" =>
    /\ at \in {"main", "copy"} => \A n \in Names : Idle(n)
    /\ at # "main" /\ Resetting => \A n \in Names : Idle(n)

\* The memories in front of the one being served are released.
ServedReleased ==
  Serving => \A j \in DOMAIN Mems : j < k => Idle(Mems[j])

AtRead ==
  At("read") => readDone = port[m].read /\ writeDone = port[m].write

AtWrite ==
  At("write") =>
    /\ ~port[m].read /\ writeDone = port[m].write
    /\ readDone => InRange(port[m].raddr) /\ dataout[m] = data[m][port[m].raddr]

AtCheck ==
  At("check") =>
    /\ ~port[m].read /\ ~port[m].write
    /\ readDone => InRange(port[m].raddr)
    /\ writeDone => InRange(port[m].waddr) /\ data[m][port[m].waddr] = port[m].datain
    /\ readDone /\ ~writeDone => dataout[m] = data[m][port[m].raddr]

Inv == LlsimTypeOK /\ NoRequests /\ ServedReleased /\ AtRead /\ AtWrite /\ AtCheck

-----------------------------------------------------------------------------
LEMMA WordFacts ==
  /\ Half \in Nat /\ Half >= 8 /\ WordMod \in Nat /\ WordMod > 0
  /\ 0 \in Word /\ 0 \in Addr /\ Addr \subseteq Word
  /\ \A a \in Word : InRange(a) <=> a \in Addr
<1>1. Half \in Nat /\ Half >= 8
  BY HalfAssumption
<1>2. WordMod \in Nat /\ WordMod >= 8 * Half
  BY <1>1 DEF WordMod
<1>3. ASSUME NEW a \in Word PROVE InRange(a) <=> a \in Addr
  BY <1>1, <1>2 DEF Word, Addr, InRange, AddrAsserts, AddrUndefined, Negative
<1> QED
  BY <1>1, <1>2, <1>3 DEF Word, Addr

LEMMA AddrVerdicts == \A a : AddrVerdict(a) \in {"aborted", "undefined"}
  BY DEF AddrVerdict

LEMMA MemsFacts ==
  /\ Len(Mems) \in Nat /\ Len(Mems) >= 1 /\ DOMAIN Mems = 1 .. Len(Mems)
  /\ \A j \in DOMAIN Mems : Mems[j] \in Names
  /\ \A n \in Names : \E j \in DOMAIN Mems : Mems[j] = n
  /\ \A i, j \in DOMAIN Mems : Mems[i] = Mems[j] => i = j
  BY MemsAssumption DEF Names

LEMMA TypeInit == Init => LlsimTypeOK
<1> SUFFICES ASSUME Init PROVE LlsimTypeOK
  OBVIOUS
<1>1. IdlePort \in Port
  BY WordFacts DEF IdlePort, Port
<1>2. port \in [Names -> Port] /\ dataout \in [Names -> Word]
  BY <1>1, WordFacts DEF Init
<1>3. data \in [Names -> [Addr -> Word]]
  BY UnitAssumption DEF Init
<1>4. k \in DOMAIN Mems
  BY MemsFacts DEF Init
<1>5. resets \in 0 .. ResetClocks /\ old \in Value /\ new \in Value
  BY ClocksAssumption DEF Init
<1>6. /\ status \in {"running", "stopped", "aborted", "undefined"}
      /\ at \in Positions
  BY DEF Init, Positions
<1>7. stop \in BOOLEAN /\ readDone \in BOOLEAN /\ writeDone \in BOOLEAN
  BY DEF Init
<1> QED
  BY <1>2, <1>3, <1>4, <1>5, <1>6, <1>7 DEF LlsimTypeOK

\* Every step keeps the types.
LEMMA TypeNext == LlsimTypeOK /\ AtWrite /\ [Next]_vars => LlsimTypeOK'
<1> SUFFICES ASSUME LlsimTypeOK, AtWrite, [Next]_vars PROVE LlsimTypeOK'
  OBVIOUS
<1> USE DEF LlsimTypeOK
<1>1. m \in Names /\ k \in Nat
  BY MemsFacts DEF m
<1>2. CASE Enter \/ UnitReturns \/ CopyRegisters
  BY <1>2, MemsFacts, ClocksAssumption
     DEF Enter, UnitReturns, CopyRegisters, At, Positions, Resetting, Port
<1>3. CASE Leave \/ ReadFault \/ WriteFault \/ BothFault
  BY <1>3, AddrVerdicts DEF Leave, ReadFault, WriteFault, BothFault, Exit
<1>4. CASE ServeRead
  <2>1. port[m] \in Port
    BY <1>1
  <2>2. port[m].read => data[m][port[m].raddr] \in Word
    BY <1>1, <1>4, <2>1, WordFacts DEF ServeRead, Port, InRange
  <2>3. dataout' \in [Names -> Word]
    BY <1>1, <1>4, <2>2 DEF ServeRead
  <2>4. port' \in [Names -> Port]
    BY <1>1, <1>4, <2>1 DEF ServeRead, Port
  <2> QED
    BY <1>4, <2>3, <2>4 DEF ServeRead, Positions
<1>5. CASE ServeWrite
  <2>1. port[m] \in Port /\ data[m] \in [Addr -> Word]
    BY <1>1
  <2>2. data' \in [Names -> [Addr -> Word]]
    BY <1>1, <1>5, <2>1 DEF ServeWrite, Port
  <2>3. port' \in [Names -> Port]
    BY <1>1, <1>5, <2>1 DEF ServeWrite, Port
  <2> QED
    BY <1>5, <2>2, <2>3 DEF ServeWrite, Positions
<1>6. CASE Check
  <2>1. dataout' \in [Names -> Word]
    BY <1>1, <1>6, PoisonAssumption DEF Check
  <2>2. port' \in [Names -> Port]
    BY <1>1, <1>6, WordFacts DEF Check, Port
  <2>3. k < Len(Mems) => k + 1 \in DOMAIN Mems /\ port[Mems[k + 1]] \in Port
    BY <1>1, MemsFacts
  <2>4. k' \in DOMAIN Mems /\ at' \in Positions
    BY <1>6, <2>3, MemsFacts DEF Check, Positions
  <2>5. readDone' \in BOOLEAN /\ writeDone' \in BOOLEAN
    BY <1>6, <2>3 DEF Check, Port
  <2> QED
    BY <1>6, <2>1, <2>2, <2>4, <2>5 DEF Check
<1>7. CASE Call
  <2>1. \A n \in Names : ReadAddrs[n] \subseteq Word /\ WriteAddrs[n] \subseteq Word
                         /\ Datains[n] \subseteq Word
    BY UnitAssumption
  <2>2. ASSUME NEW n \in Names, NEW a \in Word, MemRead(n, a) \/ MemWrite(n, a) \/ SetDatain(n, a)
        PROVE  port' \in [Names -> Port]
    <3>1. port[n] \in Port
      OBVIOUS
    <3>2. /\ [port[n] EXCEPT !.read = TRUE, !.raddr = a] \in Port
          /\ [port[n] EXCEPT !.write = TRUE, !.waddr = a] \in Port
          /\ [port[n] EXCEPT !.datain = a] \in Port
      BY <3>1 DEF Port
    <3>3. \/ port' = [port EXCEPT ![n] = [port[n] EXCEPT !.read = TRUE, !.raddr = a]]
          \/ port' = [port EXCEPT ![n] = [port[n] EXCEPT !.write = TRUE, !.waddr = a]]
          \/ port' = [port EXCEPT ![n] = [port[n] EXCEPT !.datain = a]]
      BY <2>2, <3>1 DEF MemRead, MemWrite, SetDatain
    <3> QED
      BY <3>2, <3>3
  <2>3. ASSUME NEW n \in Names, NEW a \in Word, MemRead(n, a) \/ MemWrite(n, a) \/ SetDatain(n, a)
        PROVE  LlsimTypeOK'
    BY <2>2, <2>3 DEF MemRead, MemWrite, SetDatain
  <2>4. ASSUME NEW n \in Names, MemTwice(n) PROVE LlsimTypeOK'
    BY <2>4 DEF MemTwice, Exit
  <2>5. ASSUME NEW v \in Value, SetRegisters(v) PROVE LlsimTypeOK'
    BY <2>5 DEF SetRegisters
  <2>6. ASSUME Stop PROVE LlsimTypeOK'
    BY <2>6 DEF Stop
  <2> QED
    BY <1>7, <2>1, <2>3, <2>4, <2>5, <2>6 DEF Call
<1>8. CASE UNCHANGED vars
  BY <1>8 DEF vars
<1> QED
  BY <1>2, <1>3, <1>4, <1>5, <1>6, <1>7, <1>8 DEF Next, Advance

-----------------------------------------------------------------------------
LEMMA InvInit == Init => Inv
<1> SUFFICES ASSUME Init PROVE Inv
  OBVIOUS
<1>1. \A n \in Names : Idle(n)
  BY DEF Init, Idle, IdlePort
<1> QED
  BY <1>1, TypeInit DEF Init, Inv, NoRequests, ServedReleased, Serving, AtRead, AtWrite,
                        AtCheck, At

\* The process has ended, or the unit is running: nothing is claimed of the ports.
LEMMA InvElsewhere ==
  ASSUME LlsimTypeOK', status' # "running" \/ (at' = "unit" /\ ~Resetting')
  PROVE  Inv'
  BY DEF Inv, NoRequests, ServedReleased, Serving, AtRead, AtWrite, AtCheck, At

LEMMA InvNext == Inv /\ [Next]_vars => Inv'
<1> SUFFICES ASSUME Inv, [Next]_vars PROVE Inv'
  OBVIOUS
<1>1. LlsimTypeOK /\ LlsimTypeOK'
  BY TypeNext DEF Inv
<1>2. m \in Names /\ k \in Nat /\ port[m] \in Port /\ data[m] \in [Addr -> Word]
  BY <1>1, MemsFacts DEF m, LlsimTypeOK
<1>3. \A j \in DOMAIN Mems : j < k => Mems[j] \in Names /\ Mems[j] # m
  BY <1>1, MemsFacts DEF m, LlsimTypeOK
<1>4. CASE Enter
  BY <1>1, <1>4 DEF Enter, At, Inv, NoRequests, ServedReleased, Serving, AtRead, AtWrite,
                    AtCheck, Idle, Resetting
<1>5. CASE Leave \/ ReadFault \/ WriteFault \/ BothFault
  <2>1. status' # "running"
    BY <1>5, AddrVerdicts DEF Leave, ReadFault, WriteFault, BothFault, Exit
  <2> QED
    BY <1>1, <2>1, InvElsewhere
<1>6. CASE UnitReturns
  <2>1. ServedReleased' /\ AtRead' /\ AtWrite' /\ AtCheck'
    BY <1>6, MemsFacts DEF UnitReturns, At, ServedReleased, Serving, AtRead, AtWrite,
                           AtCheck, m
  <2>2. NoRequests'
    BY <1>6 DEF UnitReturns, At, Inv, NoRequests, Resetting, Idle
  <2> QED
    BY <1>1, <2>1, <2>2 DEF Inv
<1>7. CASE ServeRead
  <2>1. /\ At("read") /\ at' = "write" /\ status' = status /\ k' = k /\ resets' = resets
        /\ data' = data /\ readDone' = readDone /\ writeDone' = writeDone
        /\ port' = [port EXCEPT ![m].read = FALSE]
    BY <1>7 DEF ServeRead
  <2>2. \A n \in Names : Idle(n) => Idle(n)'
    BY <1>1, <2>1 DEF Idle, LlsimTypeOK, Port
  <2>3. ServedReleased'
    BY <1>3, <2>1, <2>2 DEF Inv, ServedReleased, Serving, At
  <2>4. NoRequests'
    BY <2>1, <2>2 DEF Inv, NoRequests, At, Resetting
  <2>5. AtWrite'
    <3>1. port[m].read => InRange(port[m].raddr) /\ dataout'[m] = data[m][port[m].raddr]
      BY <1>1, <1>2, <1>7 DEF ServeRead, InRange, LlsimTypeOK
    <3>2. /\ ~port'[m].read /\ port'[m].write = port[m].write
          /\ port'[m].raddr = port[m].raddr /\ m' = m
      BY <1>1, <1>2, <2>1 DEF LlsimTypeOK, Port, m
    <3>3. readDone = port[m].read /\ writeDone = port[m].write
      BY <2>1 DEF Inv, AtRead
    <3> QED
      BY <2>1, <3>1, <3>2, <3>3 DEF AtWrite
  <2> QED
    BY <1>1, <2>1, <2>3, <2>4, <2>5 DEF Inv, AtRead, AtCheck, At
<1>8. CASE ServeWrite
  <2>1. /\ At("write") /\ at' = "check" /\ status' = status /\ k' = k /\ resets' = resets
        /\ dataout' = dataout /\ readDone' = readDone /\ writeDone' = writeDone
        /\ port' = [port EXCEPT ![m].write = FALSE]
    BY <1>8 DEF ServeWrite
  <2>2. \A n \in Names : Idle(n) => Idle(n)'
    BY <1>1, <2>1 DEF Idle, LlsimTypeOK, Port
  <2>3. ServedReleased'
    BY <1>3, <2>1, <2>2 DEF Inv, ServedReleased, Serving, At
  <2>4. NoRequests'
    BY <2>1, <2>2 DEF Inv, NoRequests, At, Resetting
  <2>5. AtCheck'
    <3>1. /\ ~port[m].read /\ writeDone = port[m].write
          /\ readDone => InRange(port[m].raddr) /\ dataout[m] = data[m][port[m].raddr]
      BY <2>1 DEF Inv, AtWrite
    <3>2. /\ ~port'[m].read /\ ~port'[m].write /\ port'[m].raddr = port[m].raddr
          /\ port'[m].waddr = port[m].waddr /\ port'[m].datain = port[m].datain /\ m' = m
      BY <1>1, <1>2, <2>1, <3>1 DEF LlsimTypeOK, Port, m
    <3>3. port[m].write => InRange(port[m].waddr) /\ port[m].waddr \in Addr
      BY <1>2, <1>8, WordFacts DEF ServeWrite, InRange, Port
    <3>4. port[m].write => data'[m][port[m].waddr] = port[m].datain
      BY <1>1, <1>2, <1>8, <3>3 DEF ServeWrite, LlsimTypeOK
    <3>5. ~port[m].write => data'[m] = data[m]
      BY <1>8 DEF ServeWrite
    <3> QED
      BY <2>1, <3>1, <3>2, <3>3, <3>4, <3>5 DEF AtCheck
  <2> QED
    BY <1>1, <2>1, <2>3, <2>4, <2>5 DEF Inv, AtRead, AtWrite, At
<1>9. CASE Check
  <2>1. /\ At("check") /\ status' = status /\ resets' = resets
        /\ port' = [port EXCEPT ![m].raddr = 0, ![m].waddr = 0]
    BY <1>9 DEF Check
  <2>2. ~port[m].read /\ ~port[m].write
    BY <2>1 DEF Inv, AtCheck
  <2>3. \A n \in Names : n = m \/ Idle(n) => Idle(n)'
    <3>1. \A n \in Names : n # m => port'[n] = port[n]
      BY <1>1, <2>1 DEF LlsimTypeOK
    <3>2. /\ port'[m].raddr = 0 /\ port'[m].waddr = 0
          /\ port'[m].read = port[m].read /\ port'[m].write = port[m].write
      BY <1>1, <1>2, <2>1 DEF LlsimTypeOK, Port
    <3>3. ~port'[m].read /\ ~port'[m].write
      BY <2>2, <3>2
    <3> QED
      BY <3>1, <3>2, <3>3 DEF Idle
  <2>4. \A j \in DOMAIN Mems : j < k + 1 => Idle(Mems[j])'
    <3> TAKE j \in DOMAIN Mems
    <3> HAVE j < k + 1
    <3>1. j = k \/ j < k
      BY <1>2, MemsFacts
    <3>2. CASE j < k
      BY <2>1, <2>3, <3>2, MemsFacts DEF Inv, ServedReleased, Serving, At
    <3>3. CASE j = k
      BY <1>2, <2>3, <3>3 DEF m
    <3> QED
      BY <3>1, <3>2, <3>3
  <2>5. NoRequests'
    <3>1. at' = "copy" => \A n \in Names : Idle(n)'
      <4>1. at' = "copy" => k >= Len(Mems)
        BY <1>2, <1>9, MemsFacts DEF Check
      <4> QED
        BY <1>2, <2>4, <4>1, MemsFacts
    <3>2. Resetting' => \A n \in Names : Idle(n)'
      BY <2>1, <2>3 DEF Inv, NoRequests, Resetting, At
    <3>3. at' # "main"
      BY <1>9 DEF Check
    <3> QED
      BY <3>1, <3>2, <3>3 DEF NoRequests
  <2>6. CASE k < Len(Mems)
    <3>1. /\ at' = "read" /\ k' = k + 1
          /\ readDone' = port[Mems[k + 1]].read /\ writeDone' = port[Mems[k + 1]].write
      BY <1>9, <2>6 DEF Check
    <3>2. Mems[k + 1] \in Names /\ Mems[k + 1] # m
      BY <1>1, <1>2, <2>6, MemsFacts DEF m, LlsimTypeOK
    <3>3. port'[Mems[k + 1]] = port[Mems[k + 1]]
      BY <1>1, <2>1, <3>2 DEF LlsimTypeOK
    <3>4. AtRead' /\ AtWrite' /\ AtCheck' /\ ServedReleased'
      BY <2>4, <3>1, <3>3 DEF AtRead, AtWrite, AtCheck, At, m, ServedReleased
    <3> QED
      BY <1>1, <2>5, <3>4 DEF Inv
  <2>7. CASE ~(k < Len(Mems))
    BY <1>1, <1>9, <2>5, <2>7
       DEF Check, Inv, AtRead, AtWrite, AtCheck, At, ServedReleased, Serving
  <2> QED
    BY <2>6, <2>7
<1>10. CASE CopyRegisters
  <2>1. /\ At("copy") /\ at' = "main" /\ status' = status /\ port' = port
    BY <1>10 DEF CopyRegisters
  <2>2. \A n \in Names : Idle(n)'
    BY <2>1 DEF Inv, NoRequests, At, Idle
  <2> QED
    BY <1>1, <2>1, <2>2 DEF Inv, NoRequests, ServedReleased, Serving, AtRead, AtWrite,
                            AtCheck, At
<1>11. CASE Call
  <2>1. at' = at /\ resets' = resets /\ Driving /\ (status' = status \/ status' = "aborted")
    BY <1>11 DEF Call, MemRead, MemWrite, MemTwice, SetDatain, SetRegisters, Stop, Exit
  <2> QED
    BY <1>1, <2>1, InvElsewhere DEF Driving, At, Resetting
<1>12. CASE UNCHANGED vars
  BY <1>1, <1>12 DEF vars, Inv, NoRequests, ServedReleased, Serving, AtRead, AtWrite,
                     AtCheck, At, Idle, Resetting, m
<1> QED
  BY <1>4, <1>5, <1>6, <1>7, <1>8, <1>9, <1>10, <1>11, <1>12 DEF Next, Advance

LEMMA InvAlways == Spec => []Inv
  BY InvInit, InvNext, PTL DEF Spec

\* The type invariant of the simulator loop.
THEOREM LlsimTypes == Spec => []LlsimTypeOK
<1>1. Inv => LlsimTypeOK
  BY DEF Inv
<1> QED
  BY <1>1, InvAlways, PTL

-----------------------------------------------------------------------------
(***************************************************************************)
(* The refinement.                                                         *)
(***************************************************************************)

LEMMA SameMemory ==
  /\ Atomic!Names = Names /\ Atomic!Word = Word /\ Atomic!Addr = Addr
  /\ Atomic!IdlePort = IdlePort /\ Atomic!Gone = Gone
  /\ \A p : Atomic!Released(p) = Released(p) /\ Atomic!PortVerdict(p) = PortVerdict(p)
  /\ \A d, p : Atomic!MemAfter(d, p) = MemAfter(d, p)
  /\ \A d, o, p : Atomic!DataoutAfter(d, o, p) = DataoutAfter(d, o, p)
<1> USE DEF Atomic!Word, Word, Atomic!WordMod, WordMod, Atomic!Addr, Addr
<1>1. Atomic!Names = Names /\ Atomic!Word = Word /\ Atomic!Addr = Addr
  BY DEF Atomic!Names, Names
<1>2. Atomic!IdlePort = IdlePort /\ Atomic!Gone = Gone
  BY DEF Atomic!IdlePort, IdlePort, Atomic!Gone, Gone
<1>3. \A p : Atomic!Released(p) = Released(p)
  BY <1>2 DEF Atomic!Released, Released
<1>4. \A a : (Atomic!InRange(a) <=> InRange(a)) /\ Atomic!AddrVerdict(a) = AddrVerdict(a)
  BY DEF Atomic!InRange, InRange, Atomic!AddrVerdict, AddrVerdict, Atomic!AddrAsserts,
         AddrAsserts, Atomic!AddrUndefined, AddrUndefined, Atomic!Negative, Negative
<1>5. \A p : Atomic!PortVerdict(p) = PortVerdict(p)
  BY <1>4 DEF Atomic!PortVerdict, PortVerdict
<1>6. \A d, p : Atomic!MemAfter(d, p) = MemAfter(d, p)
  BY DEF Atomic!MemAfter, MemAfter
<1>7. \A d, o, p : Atomic!DataoutAfter(d, o, p) = DataoutAfter(d, o, p)
  BY DEF Atomic!DataoutAfter, DataoutAfter
<1> QED
  BY <1>1, <1>2, <1>3, <1>5, <1>6, <1>7

LEMMA Verdicts ==
  ASSUME NEW p \in Port
  PROVE  /\ PortVerdict(p) \in {"running", "aborted", "undefined"}
         /\ PortVerdict(p) = "running" <=>
               /\ p.read => InRange(p.raddr)
               /\ p.write => InRange(p.waddr)
               /\ ~(p.read /\ p.write)
         /\ p.read /\ ~InRange(p.raddr) =>
               PortVerdict(p) = AddrVerdict(p.raddr)
         /\ (p.read => InRange(p.raddr)) /\ p.write /\ ~InRange(p.waddr) =>
               PortVerdict(p) = AddrVerdict(p.waddr)
  BY DEF PortVerdict, AddrVerdict

\* Every non-empty set of naturals has a least element.
LEMMA Least ==
  ASSUME NEW S, S \subseteq Nat, S # {}
  PROVE  \E x \in S : \A y \in S : ~(y < x)
<1>1. \E x \in S : \A y \in S : ~(<<y, x>> \in OpToRel(<, Nat))
  BY NatLessThanWellFounded, WFMin
<1> QED
  BY <1>1 DEF OpToRel

LEMMA RequestType == LlsimTypeOK => \A n \in Names : Request(n) \in Port
  BY DEF LlsimTypeOK, Request, Port

\* A fault ahead is what the abstract process has ended with.
FaultIsStatus ==
  \A j \in Ahead : FaultAhead(j) => AbsStatus = PortVerdict(Request(Mems[j])) /\ Dead

LEMMA StatusDoomed == LlsimTypeOK => FaultIsStatus
<1> SUFFICES ASSUME LlsimTypeOK, NEW j \in Ahead, FaultAhead(j)
             PROVE  AbsStatus = PortVerdict(Request(Mems[j])) /\ Dead
  BY DEF FaultIsStatus
<1>1. Ahead \subseteq DOMAIN Mems /\ DOMAIN Mems \subseteq Nat
  BY MemsFacts DEF Ahead, LlsimTypeOK
<1>2. ASSUME NEW i \in Ahead, FaultAhead(i) PROVE i = j
  <2>1. ~(i < j) /\ ~(j < i)
    BY <1>2 DEF FaultAhead
  <2> QED
    BY <1>1, <2>1
<1>3. (CHOOSE i \in Ahead : FaultAhead(i)) = j
  BY <1>2
<1>4. AbsStatus = PortVerdict(Request(Mems[j]))
  BY <1>3 DEF AbsStatus, Doomed
<1>5. Request(Mems[j]) \in Port
  BY <1>1, RequestType, MemsFacts
<1> QED
  BY <1>4, <1>5, Verdicts DEF FaultAhead, Dead

\* With no fault ahead, every memory will be served.
LEMMA NotDoomed ==
  LlsimTypeOK /\ ~Doomed =>
     /\ AbsStatus = status
     /\ \A j \in Ahead : PortVerdict(Request(Mems[j])) = "running"
<1> SUFFICES ASSUME LlsimTypeOK, ~Doomed
             PROVE  \A j \in Ahead : PortVerdict(Request(Mems[j])) = "running"
  BY DEF AbsStatus
<1> DEFINE Bad == {j \in Ahead : PortVerdict(Request(Mems[j])) # "running"}
<1>1. Bad \subseteq Nat
  BY MemsFacts DEF Ahead, LlsimTypeOK
<1>2. CASE Bad # {}
  <2>1. PICK x \in Bad : \A y \in Bad : ~(y < x)
    BY <1>1, <1>2, Least
  <2>2. FaultAhead(x)
    BY <2>1 DEF FaultAhead
  <2> QED
    BY <2>2 DEF Doomed
<1> QED
  BY <1>2

\* Outside a clock's memory phase the mapping shows the state as it is ...
QuietPoint ==
  status = "stopped" \/ (status = "running" /\ at \in {"main", "unit"})

ShownAsIs ==
  /\ AbsStatus = status /\ AbsResets = resets /\ AbsOld = old
  /\ AbsPort = port /\ AbsData = data /\ AbsDataout = dataout

LEMMA QuietMapping == LlsimTypeOK /\ QuietPoint => ShownAsIs
<1> SUFFICES ASSUME LlsimTypeOK, QuietPoint PROVE ShownAsIs
  OBVIOUS
<1>1. ~InClock /\ ~Serving /\ Ahead = {}
  BY DEF QuietPoint, InClock, Serving, Ahead
<1>2. AbsStatus = status /\ ~Dead
  BY <1>1 DEF AbsStatus, Doomed, Dead, QuietPoint
<1>3. \A n \in Names : ~Pending(n)
  BY <1>1 DEF Pending
<1> QED
  BY <1>1, <1>2, <1>3
     DEF ShownAsIs, AbsResets, AbsOld, AbsPort, AbsData, AbsDataout, Committed, LlsimTypeOK

\* ... and a dead process has nothing but its registers as they were.
LEMMA DeadMapping ==
  Dead => /\ AbsResets = resets /\ AbsOld = old
          /\ AbsPort = Gone /\ AbsData = Gone /\ AbsDataout = Gone
  BY DEF AbsResets, AbsOld, AbsPort, AbsData, AbsDataout, Committed

LEMMA ExitedIsDead ==
  status \in {"aborted", "undefined"} => AbsStatus = status /\ Dead
  BY DEF AbsStatus, Doomed, Ahead, Serving, Dead

\* A step from a quiet point to a quiet point is the step it looks like.
LEMMA CallsMap ==
  ASSUME LlsimTypeOK, LlsimTypeOK', Call
  PROVE  Atomic!Next
<1>1. QuietPoint /\ Driving
  BY DEF Call, MemRead, MemWrite, MemTwice, SetDatain, SetRegisters, Stop, QuietPoint,
         Driving, At
<1>2. ShownAsIs
  BY <1>1, QuietMapping
<1>3. Atomic!Driving
  BY <1>1, <1>2 DEF Driving, At, Resetting, Atomic!Driving, Atomic!Running,
                    Atomic!Resetting, ShownAsIs
<1>4. ASSUME status' = status, at' = at PROVE ShownAsIs'
  <2>1. QuietPoint'
    BY <1>1, <1>4 DEF QuietPoint, Driving, At
  <2> QED
    BY <2>1, QuietMapping, PTL
<1> USE SameMemory
<1>5. ASSUME NEW n \in Names, NEW a \in Word, MemRead(n, a) PROVE Atomic!MemRead(n, a)
  BY <1>2, <1>3, <1>4, <1>5 DEF MemRead, Atomic!MemRead, ShownAsIs
<1>6. ASSUME NEW n \in Names, NEW a \in Word, MemWrite(n, a) PROVE Atomic!MemWrite(n, a)
  BY <1>2, <1>3, <1>4, <1>6 DEF MemWrite, Atomic!MemWrite, ShownAsIs
<1>7. ASSUME NEW n \in Names, NEW d \in Word, SetDatain(n, d) PROVE Atomic!SetDatain(n, d)
  BY <1>2, <1>3, <1>4, <1>7 DEF SetDatain, Atomic!SetDatain, ShownAsIs
<1>8. ASSUME NEW v \in Value, SetRegisters(v) PROVE Atomic!SetRegisters(v)
  BY <1>2, <1>3, <1>4, <1>8 DEF SetRegisters, Atomic!SetRegisters, ShownAsIs
<1>9. ASSUME Stop PROVE Atomic!Stop
  BY <1>2, <1>3, <1>4, <1>9 DEF Stop, Atomic!Stop, ShownAsIs
<1>10. ASSUME NEW n \in Names, MemTwice(n) PROVE Atomic!MemTwice(n)
  <2>1. (AbsStatus = "aborted" /\ Dead)'
    <3>1. status' = "aborted"
      BY <1>10 DEF MemTwice, Exit
    <3>2. (status \in {"aborted", "undefined"})'
      BY <3>1
    <3>3. (AbsStatus = status /\ Dead)'
      BY <3>2, ExitedIsDead, PTL
    <3> QED
      BY <3>1, <3>3
  <2>2. (/\ AbsResets = resets /\ AbsOld = old
         /\ AbsPort = Gone /\ AbsData = Gone /\ AbsDataout = Gone)'
    BY <2>1, DeadMapping, PTL
  <2>3. Atomic!Die("aborted")
    BY <1>2, <1>10, <2>1, <2>2 DEF Atomic!Die, MemTwice, Exit, ShownAsIs
  <2> QED
    BY <1>2, <1>3, <1>10, <2>3 DEF Atomic!MemTwice, MemTwice, ShownAsIs
<1>11. \A n \in Names : ReadAddrs[n] \subseteq Word /\ WriteAddrs[n] \subseteq Word
                         /\ Datains[n] \subseteq Word
  BY UnitAssumption
<1> QED
  BY <1>5, <1>6, <1>7, <1>8, <1>9, <1>10, <1>11 DEF Call, Atomic!Next

\* Leaving main()'s loop.
LEMMA LeaveMaps ==
  ASSUME LlsimTypeOK, LlsimTypeOK', Leave
  PROVE  Atomic!Next
<1>1. QuietPoint /\ At("main") /\ ~Resetting /\ stop
  BY DEF Leave, QuietPoint, At
<1>2. ShownAsIs
  BY <1>1, QuietMapping
<1>3. QuietPoint'
  BY DEF Leave, Exit, QuietPoint
<1>4. ShownAsIs'
  BY <1>3, QuietMapping, PTL
<1>5. Atomic!End
  BY <1>1, <1>2, <1>4 DEF Atomic!End, Atomic!Driving, Atomic!Running, Atomic!Resetting,
                          ShownAsIs, Leave, Exit, At, Resetting
<1> QED
  BY <1>5 DEF Atomic!Next

\* The clock happens when run returns.
LEMMA ReturnMaps ==
  ASSUME Inv, Inv', UnitReturns
  PROVE  Atomic!Next
<1>1. QuietPoint /\ LlsimTypeOK /\ LlsimTypeOK' /\ At("unit") /\ status' = "running"
  BY DEF UnitReturns, QuietPoint, At, Inv
<1>2. ShownAsIs
  BY <1>1, QuietMapping
<1>3. Atomic!Running
  BY <1>1, <1>2 DEF At, Atomic!Running, ShownAsIs
<1>4. /\ Serving' /\ InClock' /\ Ahead' = 1 .. Len(Mems) /\ DOMAIN Mems = 1 .. Len(Mems)
      /\ resets' = resets /\ port' = port /\ data' = data /\ dataout' = dataout
      /\ old' = old /\ stop' = stop /\ status' = status
  BY <1>1, MemsFacts DEF UnitReturns, Serving, InClock, Ahead, At
<1>5. \A n \in Names : Request(n)' = port[n]
  <2>1. \A n \in Names : port[n] = [port[n] EXCEPT !.read = port[n].read, !.write = port[n].write]
    BY <1>1 DEF LlsimTypeOK, Port
  <2> QED
    BY <1>4, <2>1 DEF Request, UnitReturns, m
<1>6. CASE Doomed'
  <2>1. PICK j \in Ahead' : FaultAhead(j)'
    BY <1>6 DEF Doomed
  <2>2. j \in DOMAIN Mems /\ Mems[j] \in Names
    BY <1>4, <2>1, MemsFacts
  <2>3. PortVerdict(port[Mems[j]]) # "running"
    BY <1>5, <2>1, <2>2 DEF FaultAhead
  <2>4. \A i \in 1 .. j - 1 : PortVerdict(port[Mems[i]]) = "running"
    BY <1>4, <1>5, <2>1, <2>2, MemsFacts DEF FaultAhead
  <2>5. AbsStatus' = PortVerdict(port[Mems[j]]) /\ Dead'
    <3>1. FaultIsStatus'
      BY <1>1, StatusDoomed, PTL
    <3> QED
      BY <1>5, <2>1, <2>2, <3>1 DEF FaultIsStatus
  <2>6. (/\ AbsResets = resets /\ AbsOld = old
         /\ AbsPort = Gone /\ AbsData = Gone /\ AbsDataout = Gone)'
    <3>1. Dead'
      BY <2>5
    <3> QED
      BY <3>1, DeadMapping, PTL
  <2>7. ~Resetting
    <3>1. port[Mems[j]] \in Port
      BY <1>1, <2>2 DEF LlsimTypeOK
    <3>2. port[Mems[j]].read \/ port[Mems[j]].write
      BY <2>3, <3>1, Verdicts DEF Port
    <3> QED
      BY <1>1, <2>2, <3>2 DEF Inv, NoRequests, Idle, At
  <2>8. Atomic!Die(PortVerdict(port[Mems[j]]))
    BY <1>2, <1>4, <2>5, <2>6, <2>7, SameMemory DEF Atomic!Die, ShownAsIs, UnitReturns
  <2>9. Atomic!FirstFault(port, j)
    BY <2>3, <2>4, SameMemory DEF Atomic!FirstFault
  <2>10. Atomic!FaultyClock
    BY <1>2, <1>3, <2>2, <2>8, <2>9, SameMemory DEF Atomic!FaultyClock, ShownAsIs
  <2> QED
    BY <2>10 DEF Atomic!Next
<1>7. CASE ~Doomed'
  <2>1. (AbsStatus = status)' /\ \A j \in DOMAIN Mems : PortVerdict(port[Mems[j]]) = "running"
    <3>1. (LlsimTypeOK /\ ~Doomed)'
      BY <1>1, <1>7
    <3>2. (/\ AbsStatus = status
           /\ \A j \in Ahead : PortVerdict(Request(Mems[j])) = "running")'
      BY <3>1, NotDoomed, PTL
    <3> QED
      BY <1>4, <1>5, <3>2, MemsFacts
  <2>2. ~Dead' /\ Committed'
    BY <1>1, <1>4, <2>1 DEF Dead, Committed
  <2>3. \A n \in Names : PortVerdict(port[n]) = "running" /\ Pending(n)'
    BY <1>4, <2>1, MemsFacts DEF Pending
  <2>4. AbsPort' = [n \in Names |-> Released(port[n])]
    BY <1>4, <2>2 DEF AbsPort
  <2>5. AbsData' = [n \in Names |-> MemAfter(data[n], port[n])]
    BY <1>4, <1>5, <2>2, <2>3 DEF AbsData
  <2>6. AbsDataout' = [n \in Names |-> DataoutAfter(data[n], dataout[n], port[n])]
    BY <1>4, <1>5, <2>2, <2>3 DEF AbsDataout
  <2>7. AbsOld' = new' /\ AbsResets' = IF Resetting THEN resets + 1 ELSE resets
    BY <1>4, <2>2 DEF AbsOld, AbsResets, Resetting
  <2>8. Atomic!Clock
    BY <1>2, <1>3, <1>4, <2>1, <2>3, <2>4, <2>5, <2>6, <2>7, SameMemory
       DEF Atomic!Clock, ShownAsIs, UnitReturns, Resetting, Atomic!Resetting
  <2> QED
    BY <2>8 DEF Atomic!Next
<1> QED
  BY <1>6, <1>7

-----------------------------------------------------------------------------
(***************************************************************************)
(* The rest of the clock changes nothing that is seen.                     *)
(***************************************************************************)

\* What the mapping shows of a process that has died does not move.
LEMMA StaysDead ==
  ASSUME Dead, Dead', AbsStatus' = AbsStatus, resets' = resets, stop' = stop,
         old' = old, new' = new
  PROVE  UNCHANGED Atomic!vars
<1>1. /\ AbsResets = resets /\ AbsOld = old
      /\ AbsPort = Gone /\ AbsData = Gone /\ AbsDataout = Gone
  BY DeadMapping
<1>2. (/\ AbsResets = resets /\ AbsOld = old
       /\ AbsPort = Gone /\ AbsData = Gone /\ AbsDataout = Gone)'
  BY DeadMapping, PTL
<1> QED
  BY <1>1, <1>2 DEF Atomic!vars

\* A fault that happens is the one the abstract process ended with.
LEMMA FaultMaps ==
  ASSUME Inv, ReadFault \/ WriteFault \/ BothFault
  PROVE  UNCHANGED Atomic!vars
<1>1. LlsimTypeOK /\ Serving /\ k \in Ahead /\ m \in Names /\ Request(m) \in Port
  BY MemsFacts, RequestType DEF Inv, LlsimTypeOK, ReadFault, WriteFault, BothFault, At,
                                Serving, Ahead, m
<1>2. /\ Request(m).read = readDone /\ Request(m).write = writeDone
      /\ Request(m).raddr = port[m].raddr /\ Request(m).waddr = port[m].waddr
  BY <1>1 DEF Request, LlsimTypeOK, Port
<1>3. /\ status' = PortVerdict(Request(m))
      /\ status' \in {"aborted", "undefined"}
      /\ resets' = resets /\ stop' = stop /\ old' = old /\ new' = new
  <2>1. CASE ReadFault
    BY <1>1, <1>2, <2>1, Verdicts, AddrVerdicts DEF ReadFault, Exit, Inv, AtRead
  <2>2. CASE WriteFault
    BY <1>1, <1>2, <2>2, Verdicts, AddrVerdicts DEF WriteFault, Exit, Inv, AtWrite
  <2>3. CASE BothFault
    BY <1>1, <1>2, <2>3, Verdicts DEF BothFault, Exit, Inv, AtCheck, PortVerdict
  <2> QED
    BY <2>1, <2>2, <2>3
<1>4. FaultAhead(k)
  <2>1. \A i \in Ahead : ~(i < k)
    BY <1>1, MemsFacts DEF Ahead, LlsimTypeOK
  <2>2. PortVerdict(Request(m)) # "running"
    BY <1>3
  <2> QED
    BY <2>1, <2>2 DEF FaultAhead, m
<1>5. AbsStatus = status' /\ Dead
  BY <1>1, <1>3, <1>4, StatusDoomed DEF FaultIsStatus, m
<1>6. (AbsStatus = status /\ Dead)'
  <2>1. (status \in {"aborted", "undefined"})'
    BY <1>3
  <2> QED
    BY <2>1, ExitedIsDead, PTL
<1> QED
  BY <1>3, <1>5, <1>6, StaysDead

\* The same faults ahead: the same abstract status.
LEMMA SameStatus ==
  ASSUME LlsimTypeOK, LlsimTypeOK', status' = status, Ahead' \subseteq Ahead,
         \A j \in Ahead : FaultAhead(j) => j \in Ahead' /\ FaultAhead(j)',
         \A j \in Ahead' : FaultAhead(j)' => FaultAhead(j),
         \A j \in Ahead' : Request(Mems[j])' = Request(Mems[j])
  PROVE  AbsStatus' = AbsStatus /\ (Dead' <=> Dead)
<1>1. CASE Doomed
  <2>1. PICK j \in Ahead : FaultAhead(j)
    BY <1>1 DEF Doomed
  <2>2. AbsStatus = PortVerdict(Request(Mems[j])) /\ Dead
    BY <2>1, StatusDoomed DEF FaultIsStatus
  <2>3. FaultIsStatus'
    BY StatusDoomed, PTL
  <2>4. AbsStatus' = PortVerdict(Request(Mems[j])') /\ Dead'
    BY <2>1, <2>3 DEF FaultIsStatus
  <2> QED
    BY <2>1, <2>2, <2>4
<1>2. CASE ~Doomed
  <2>1. ~Doomed'
    BY <1>2 DEF Doomed
  <2>2. AbsStatus = status /\ AbsStatus' = status'
    BY <1>2, <2>1 DEF AbsStatus
  <2> QED
    BY <2>2 DEF Dead
<1> QED
  BY <1>1, <1>2

\* The mapping moves by its parts.
LEMMA SameParts ==
  ASSUME AbsStatus' = AbsStatus, ~Dead, ~Dead', InClock, InClock',
         resets' = resets, stop' = stop, old' = old, new' = new,
         \A n \in Names :
            /\ Released(port[n])' = Released(port[n])
            /\ (IF Pending(n) THEN MemAfter(data[n], Request(n)) ELSE data[n])'
                 = IF Pending(n) THEN MemAfter(data[n], Request(n)) ELSE data[n]
            /\ (IF Pending(n) THEN DataoutAfter(data[n], dataout[n], Request(n))
                 ELSE dataout[n])'
                 = IF Pending(n) THEN DataoutAfter(data[n], dataout[n], Request(n))
                   ELSE dataout[n]
  PROVE  UNCHANGED Atomic!vars
<1>1. AbsResets' = AbsResets /\ AbsOld' = AbsOld
  BY DEF AbsResets, AbsOld, Committed, Resetting
<1>2. AbsPort' = AbsPort /\ AbsData' = AbsData /\ AbsDataout' = AbsDataout
  BY DEF AbsPort, AbsData, AbsDataout
<1> QED
  BY <1>1, <1>2 DEF Atomic!vars

\* Serving half a port.
LEMMA ServeMaps ==
  ASSUME Inv, Inv', ServeRead \/ ServeWrite
  PROVE  UNCHANGED Atomic!vars
<1>1. /\ LlsimTypeOK /\ LlsimTypeOK' /\ Serving /\ InClock /\ k \in Ahead
      /\ m \in Names /\ port[m] \in Port /\ Request(m) \in Port /\ Mems[k] = m
  BY MemsFacts, RequestType DEF Inv, LlsimTypeOK, ServeRead, ServeWrite, At, Serving,
                                InClock, Ahead, m
<1>2. /\ status' = status /\ k' = k /\ readDone' = readDone /\ writeDone' = writeDone
      /\ resets' = resets /\ stop' = stop /\ old' = old /\ new' = new
      /\ Serving' /\ InClock' /\ Ahead' = Ahead
  BY <1>1 DEF ServeRead, ServeWrite, At, Serving, InClock, Ahead
<1>3. \A n \in Names : Request(n)' = Request(n) /\ Released(port[n])' = Released(port[n])
  <2>1. \A n \in Names : n # m => port'[n] = port[n]
    BY <1>1 DEF ServeRead, ServeWrite, LlsimTypeOK
  <2>2. port'[m] = [port[m] EXCEPT !.read = FALSE] \/ port'[m] = [port[m] EXCEPT !.write = FALSE]
    BY <1>1 DEF ServeRead, ServeWrite, LlsimTypeOK
  <2>3. /\ [port'[m] EXCEPT !.read = readDone, !.write = writeDone]
             = [port[m] EXCEPT !.read = readDone, !.write = writeDone]
        /\ Released(port'[m]) = Released(port[m])
    BY <1>1, <2>2 DEF Port, Released
  <2> QED
    BY <1>1, <1>2, <2>1, <2>3 DEF Request, m
<1>4. \A j \in Ahead : Mems[j] \in Names
  BY <1>1, MemsFacts DEF Ahead, LlsimTypeOK
<1>5. \A j \in Ahead : FaultAhead(j)' <=> FaultAhead(j)
  BY <1>2, <1>3, <1>4 DEF FaultAhead
<1>6. AbsStatus' = AbsStatus /\ (Dead' <=> Dead)
  BY <1>1, <1>2, <1>3, <1>4, <1>5, SameStatus
<1>7. CASE Dead
  BY <1>2, <1>6, <1>7, StaysDead
<1>8. CASE ~Dead
  <2>1. PortVerdict(Request(m)) = "running"
    BY <1>1, <1>8, StatusDoomed, NotDoomed DEF Doomed, FaultIsStatus
  <2>2. /\ Request(m).read = readDone /\ Request(m).write = writeDone
        /\ Request(m).raddr = port[m].raddr /\ Request(m).waddr = port[m].waddr
        /\ Request(m).datain = port[m].datain
    BY <1>1 DEF Request, LlsimTypeOK, Port
  <2>3. \A n \in Names : Pending(n)' = Pending(n)
    BY <1>2 DEF Pending
  <2>4. Pending(m)
    BY <1>1 DEF Pending
  <2>5. \A n \in Names : n # m => data'[n] = data[n] /\ dataout'[n] = dataout[n]
    BY <1>1 DEF ServeRead, ServeWrite, LlsimTypeOK
  <2>6. MemAfter(data'[m], Request(m)) = MemAfter(data[m], Request(m))
    <3>1. CASE ServeRead
      BY <3>1 DEF ServeRead
    <3>2. CASE ServeWrite /\ port[m].write
      <4>1. data'[m] = [data[m] EXCEPT ![port[m].waddr] = port[m].datain]
        BY <1>1, <3>2 DEF ServeWrite, LlsimTypeOK
      <4>2. data[m] \in [Addr -> Word]
        BY <1>1 DEF LlsimTypeOK
      <4>3. Request(m).write
        BY <2>2, <3>2 DEF Inv, AtWrite, ServeWrite
      <4> QED
        BY <2>2, <4>1, <4>2, <4>3 DEF MemAfter
    <3>3. CASE ServeWrite /\ ~port[m].write
      BY <3>3 DEF ServeWrite
    <3> QED
      BY <3>1, <3>2, <3>3
  <2>7. DataoutAfter(data'[m], dataout'[m], Request(m))
          = DataoutAfter(data[m], dataout[m], Request(m))
    <3>1. CASE ServeRead /\ port[m].read
      <4>1. dataout'[m] = data[m][port[m].raddr] /\ data' = data /\ readDone
        BY <1>1, <3>1 DEF ServeRead, LlsimTypeOK, Inv, AtRead
      <4> QED
        BY <2>2, <4>1 DEF DataoutAfter
    <3>2. CASE ServeRead /\ ~port[m].read
      BY <3>2 DEF ServeRead
    <3>3. CASE ServeWrite /\ readDone
      <4>1. ~writeDone
        BY <1>1, <2>1, <2>2, <3>3, Verdicts
      <4>2. data' = data /\ dataout' = dataout
        BY <3>3, <4>1 DEF ServeWrite, Inv, AtWrite
      <4> QED
        BY <4>2
    <3>4. CASE ServeWrite /\ ~readDone
      BY <1>1, <2>2, <3>4 DEF ServeWrite, DataoutAfter, Port
    <3> QED
      BY <3>1, <3>2, <3>3, <3>4
  <2>8. ASSUME NEW n \in Names
        PROVE  /\ (IF Pending(n) THEN MemAfter(data[n], Request(n)) ELSE data[n])'
                    = IF Pending(n) THEN MemAfter(data[n], Request(n)) ELSE data[n]
               /\ (IF Pending(n) THEN DataoutAfter(data[n], dataout[n], Request(n))
                    ELSE dataout[n])'
                    = IF Pending(n) THEN DataoutAfter(data[n], dataout[n], Request(n))
                      ELSE dataout[n]
    <3>1. CASE n # m
      BY <1>3, <2>3, <2>5, <3>1 DEF MemAfter, DataoutAfter
    <3>2. CASE n = m
      BY <1>3, <2>3, <2>4, <2>6, <2>7, <3>2 DEF MemAfter, DataoutAfter
    <3> QED
      BY <3>1, <3>2
  <2> QED
    BY <1>1, <1>2, <1>3, <1>6, <1>8, <2>8, SameParts
<1> QED
  BY <1>7, <1>8

\* Going on to the next memory, or to the registers.
LEMMA CheckMaps ==
  ASSUME Inv, Inv', Check
  PROVE  UNCHANGED Atomic!vars
<1>1. /\ LlsimTypeOK /\ LlsimTypeOK' /\ Serving /\ InClock /\ k \in Ahead /\ k \in Nat
      /\ m \in Names /\ port[m] \in Port /\ Request(m) \in Port /\ Mems[k] = m
  BY MemsFacts, RequestType DEF Inv, LlsimTypeOK, Check, At, Serving, InClock, Ahead, m
<1>2. /\ status' = status /\ resets' = resets /\ stop' = stop /\ old' = old /\ new' = new
      /\ data' = data /\ InClock' /\ ~(readDone /\ writeDone)
  BY <1>1 DEF Check, At, InClock
<1>3. Ahead' = {j \in Ahead : j # k}
  <2>1. CASE k < Len(Mems)
    <3>1. Ahead = k .. Len(Mems) /\ Ahead' = k + 1 .. Len(Mems)
      BY <1>1, <1>2, <2>1 DEF Check, At, Ahead, Serving
    <3> QED
      BY <1>1, <3>1, MemsFacts
  <2>2. CASE ~(k < Len(Mems))
    <3>1. Ahead = k .. Len(Mems) /\ Ahead' = {} /\ k = Len(Mems)
      BY <1>1, <2>2, MemsFacts DEF Check, At, Ahead, Serving, LlsimTypeOK
    <3> QED
      BY <1>1, <3>1, MemsFacts
  <2> QED
    BY <2>1, <2>2
<1>4. \A j \in Ahead : /\ j \in DOMAIN Mems /\ Mems[j] \in Names
                       /\ (j # k => Mems[j] # m /\ k < j)
  BY <1>1, MemsFacts DEF Ahead, LlsimTypeOK
<1>5. \A n \in Names : n # m => port'[n] = port[n] /\ dataout'[n] = dataout[n]
  BY <1>1 DEF Check, LlsimTypeOK
<1>6. \A n \in Names : n # m => Request(n)' = Request(n)
  <2> SUFFICES ASSUME NEW n \in Names, n # m PROVE Request(n)' = Request(n)
    OBVIOUS
  <2>1. Request(n) = port[n] /\ port'[n] = port[n] /\ port[n] \in Port
    BY <1>1, <1>5 DEF Request, LlsimTypeOK
  <2>2. CASE k < Len(Mems)
    <3>1. /\ k' = k + 1 /\ readDone' = port[Mems[k + 1]].read
          /\ writeDone' = port[Mems[k + 1]].write
      BY <2>2 DEF Check
    <3>2. n = Mems[k + 1] => [port[n] EXCEPT !.read = readDone', !.write = writeDone'] = port[n]
      BY <2>1, <3>1 DEF Port
    <3> QED
      BY <2>1, <3>1, <3>2 DEF Request, m
  <2>3. CASE ~(k < Len(Mems))
    BY <2>1, <2>3 DEF Check, Request, Serving
  <2> QED
    BY <2>2, <2>3
<1>7. PortVerdict(Request(m)) = "running"
  BY <1>1, <1>2, Verdicts DEF Request, Port, Check, Inv, AtCheck
<1>8. ~FaultAhead(k)
  BY <1>1, <1>7 DEF FaultAhead
<1>9. \A j \in Ahead' : FaultAhead(j)' <=> FaultAhead(j)
  <2> SUFFICES ASSUME NEW j \in Ahead' PROVE FaultAhead(j)' <=> FaultAhead(j)
    OBVIOUS
  <2>1. \A i \in Ahead' : Request(Mems[i])' = Request(Mems[i])
    BY <1>3, <1>4, <1>6
  <2>2. (\A i \in Ahead' : i < j => PortVerdict(Request(Mems[i])) = "running")
          <=> \A i \in Ahead : i < j => PortVerdict(Request(Mems[i])) = "running"
    BY <1>1, <1>3, <1>7
  <2> QED
    BY <2>1, <2>2 DEF FaultAhead
<1>10. AbsStatus' = AbsStatus /\ (Dead' <=> Dead)
  BY <1>1, <1>2, <1>3, <1>4, <1>6, <1>8, <1>9, SameStatus
<1>11. CASE Dead
  BY <1>2, <1>10, <1>11, StaysDead
<1>12. CASE ~Dead
  <2>1. \A n \in Names : n # m => Pending(n)' = Pending(n)
    BY <1>1, <1>3, <1>4 DEF Pending
  <2>2. \A n \in Names : n = m => Pending(n) /\ ~Pending(n)'
    BY <1>1, <1>3, <1>4 DEF Pending
  <2>3. /\ Request(m).read = readDone /\ Request(m).write = writeDone
        /\ Request(m).raddr = port[m].raddr /\ Request(m).waddr = port[m].waddr
        /\ Request(m).datain = port[m].datain
    BY <1>1 DEF Request, LlsimTypeOK, Port
  <2>4. MemAfter(data[m], Request(m)) = data[m]
    <3>1. data[m] \in [Addr -> Word]
      BY <1>1 DEF LlsimTypeOK
    <3>2. writeDone => data[m][port[m].waddr] = port[m].datain
      BY DEF Check, Inv, AtCheck
    <3> QED
      BY <2>3, <3>1, <3>2 DEF MemAfter
  <2>5. DataoutAfter(data[m], dataout[m], Request(m)) = dataout'[m]
    <3>1. CASE readDone
      BY <1>2, <2>3, <3>1 DEF Check, Inv, AtCheck, DataoutAfter
    <3>2. CASE ~readDone /\ writeDone
      BY <2>3, <3>2 DEF Check, DataoutAfter
    <3>3. CASE ~readDone /\ ~writeDone
      BY <1>1, <2>3, <3>3 DEF Check, DataoutAfter, LlsimTypeOK
    <3> QED
      BY <3>1, <3>2, <3>3 DEF Inv, LlsimTypeOK
  <2>6. \A n \in Names : Released(port[n])' = Released(port[n])
    <3>1. port'[m] = [port[m] EXCEPT !.raddr = 0, !.waddr = 0]
      BY <1>1 DEF Check, LlsimTypeOK
    <3>2. Released(port'[m]) = Released(port[m])
      BY <1>1, <3>1 DEF Released, Port
    <3> QED
      BY <1>5, <3>2 DEF Released
  <2>7. ASSUME NEW n \in Names
        PROVE  /\ (IF Pending(n) THEN MemAfter(data[n], Request(n)) ELSE data[n])'
                    = IF Pending(n) THEN MemAfter(data[n], Request(n)) ELSE data[n]
               /\ (IF Pending(n) THEN DataoutAfter(data[n], dataout[n], Request(n))
                    ELSE dataout[n])'
                    = IF Pending(n) THEN DataoutAfter(data[n], dataout[n], Request(n))
                      ELSE dataout[n]
    <3>1. CASE n # m
      BY <1>2, <1>5, <1>6, <2>1, <3>1 DEF MemAfter, DataoutAfter
    <3>2. CASE n = m
      <4>1. Pending(n) /\ ~Pending(n)'
        BY <2>2, <3>2
      <4> QED
        BY <1>2, <2>4, <2>5, <3>2, <4>1
    <3> QED
      BY <3>1, <3>2
  <2> QED
    BY <1>1, <1>2, <1>10, <1>12, <2>6, <2>7, SameParts
<1> QED
  BY <1>11, <1>12

\* The registers are copied, and the next clock begins.
LEMMA CopyMaps ==
  ASSUME Inv, Inv', CopyRegisters
  PROVE  UNCHANGED Atomic!vars
<1>1. /\ LlsimTypeOK /\ LlsimTypeOK' /\ InClock /\ ~Serving /\ Ahead = {}
      /\ status = "running"
  BY DEF Inv, CopyRegisters, At, InClock, Serving, Ahead
<1>2. AbsStatus = status /\ ~Dead /\ Committed
  BY <1>1 DEF AbsStatus, Doomed, Dead, Committed
<1>3. \A n \in Names : Released(port[n]) = port[n] /\ ~Pending(n)
  <2> SUFFICES ASSUME NEW n \in Names PROVE Released(port[n]) = port[n]
    BY <1>1 DEF Pending
  <2>1. Idle(n) /\ port[n] \in Port
    BY <1>1 DEF Inv, NoRequests, CopyRegisters, At, LlsimTypeOK
  <2>2. port[n] = [read |-> port[n].read, raddr |-> port[n].raddr, write |-> port[n].write,
                   waddr |-> port[n].waddr, datain |-> port[n].datain]
    BY <2>1 DEF Port
  <2>3. port[n].read = FALSE /\ port[n].raddr = 0 /\ port[n].write = FALSE /\ port[n].waddr = 0
    BY <2>1 DEF Idle, Port
  <2>4. port[n] = [read |-> FALSE, raddr |-> 0, write |-> FALSE, waddr |-> 0,
                   datain |-> port[n].datain]
    BY ONLY <2>2, <2>3, Zenon
  <2> QED
    BY <2>4 DEF Released
<1>4. AbsPort = port /\ AbsData = data /\ AbsDataout = dataout
  BY <1>1, <1>2, <1>3 DEF AbsPort, AbsData, AbsDataout, LlsimTypeOK
<1>5. AbsOld = new /\ AbsResets = IF Resetting THEN resets + 1 ELSE resets
  BY <1>2 DEF AbsOld, AbsResets
<1>6. QuietPoint'
  BY <1>1 DEF CopyRegisters, QuietPoint
<1>7. ShownAsIs'
  BY <1>1, <1>6, QuietMapping, PTL
<1> QED
  BY <1>2, <1>4, <1>5, <1>7 DEF ShownAsIs, CopyRegisters, Atomic!vars

LEMMA EnterMaps ==
  ASSUME Inv, Inv', Enter
  PROVE  UNCHANGED Atomic!vars
<1>1. LlsimTypeOK /\ LlsimTypeOK' /\ QuietPoint /\ QuietPoint'
  BY DEF Inv, Enter, At, QuietPoint
<1>2. ShownAsIs
  BY <1>1, QuietMapping
<1>3. ShownAsIs'
  BY <1>1, QuietMapping, PTL
<1> QED
  BY <1>2, <1>3 DEF ShownAsIs, Enter, Atomic!vars

LEMMA StutterMaps == UNCHANGED vars => UNCHANGED Atomic!vars
<1> SUFFICES ASSUME UNCHANGED vars PROVE UNCHANGED Atomic!vars
  OBVIOUS
<1>1. /\ Serving' = Serving /\ InClock' = InClock /\ Ahead' = Ahead
  BY DEF vars, Serving, InClock, Ahead
<1>2. \A n : Request(n)' = Request(n) /\ Pending(n)' = Pending(n)
  BY <1>1 DEF vars, Request, Pending, m
<1>3. \A j : FaultAhead(j)' = FaultAhead(j)
  BY <1>1, <1>2 DEF FaultAhead
<1>4. Doomed' = Doomed /\ AbsStatus' = AbsStatus
  BY <1>1, <1>2, <1>3 DEF Doomed, AbsStatus, vars
<1>5. Dead' = Dead /\ Committed' = Committed
  BY <1>1, <1>4 DEF Dead, Committed
<1> QED
  BY <1>1, <1>2, <1>4, <1>5
     DEF vars, Atomic!vars, AbsResets, AbsOld, AbsPort, AbsData, AbsDataout, Resetting

LEMMA InitMaps == Init => Atomic!Init
<1> SUFFICES ASSUME Init PROVE Atomic!Init
  OBVIOUS
<1>1. LlsimTypeOK /\ QuietPoint
  BY TypeInit DEF Init, QuietPoint
<1>2. ShownAsIs
  BY <1>1, QuietMapping
<1> QED
  BY <1>1, <1>2, SameMemory DEF Init, Atomic!Init, ShownAsIs, LlsimTypeOK

\* Statement by statement, the loop does what the atomic clock does: a clock
\* is one step of the unit's world, whatever the number of memories.
THEOREM LlsimClockIsAtomic == Spec => ClockIsAtomic
<1>1. Inv /\ Inv' /\ [Next]_vars => [Atomic!Next]_(Atomic!vars)
  <2> SUFFICES ASSUME Inv, Inv', [Next]_vars PROVE [Atomic!Next]_(Atomic!vars)
    OBVIOUS
  <2>1. LlsimTypeOK /\ LlsimTypeOK'
    BY DEF Inv
  <2>2. CASE Advance
    BY <2>1, <2>2, EnterMaps, LeaveMaps, ReturnMaps, FaultMaps, ServeMaps, CheckMaps, CopyMaps
       DEF Advance
  <2>3. CASE Call
    BY <2>1, <2>3, CallsMap
  <2> QED
    BY <2>2, <2>3, StutterMaps DEF Next
<1> QED
  BY <1>1, InitMaps, InvAlways, PTL DEF Spec, ClockIsAtomic, Atomic!Spec
=============================================================================
