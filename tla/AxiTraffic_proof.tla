-------------------------- MODULE AxiTraffic_proof --------------------------
(***************************************************************************)
(* The register file for any number of registers, any width and any bytes: *)
(* the safety properties of AxiTraffic, proved from the inductive          *)
(* invariant IInv.  What concerns reads needs a master that waits for its  *)
(* data before it asks again.                                              *)
(***************************************************************************)
EXTENDS AxiTraffic, TLAPS

Wires == [aresetn : BOOLEAN, awvalid : BOOLEAN, awaddr : Regs,
          wvalid : BOOLEAN, wdata : Word, wstrb : SUBSET Lanes, bready : BOOLEAN,
          arvalid : BOOLEAN, araddr : Regs, rready : BOOLEAN]

Types ==
    /\ m \in Wires
    /\ axi_awready \in BOOLEAN /\ aw_en \in BOOLEAN /\ axi_wready \in BOOLEAN
    /\ axi_bvalid \in BOOLEAN /\ axi_arready \in BOOLEAN /\ axi_rvalid \in BOOLEAN
    /\ slv_reg_wren_reg \in BOOLEAN
    /\ axi_awaddr \in Regs /\ axi_araddr \in Regs
    /\ axi_rdata \in Word \cup {ROM}
    /\ slv_reg \in [Regs -> Word] /\ slv_wr_pulse \in [Regs -> Word \cup {ROM}]

\* The slave takes one write at a time, and at the edge that takes it the master
\* still offers what the slave latched.
WritesOK ==
    /\ axi_wready = axi_awready
    /\ axi_awready => ~aw_en /\ ~axi_bvalid /\ ~slv_reg_wren_reg
    /\ axi_awready => slv_wr_pulse = [r \in Regs |-> Zero]
    /\ axi_awready /\ m.aresetn => m.awvalid /\ m.wvalid /\ axi_awaddr = m.awaddr
    /\ axi_bvalid => ~aw_en
    /\ slv_reg = memory
    /\ acks = IF axi_bvalid THEN 1 ELSE 0

\* No read is offered while the data of another waits.
ReadsOK ==
    /\ axi_arready /\ m.aresetn => m.arvalid /\ axi_araddr = m.araddr
    /\ owed = IF axi_rvalid THEN << axi_rdata >> ELSE << >>
    /\ axi_rvalid => ~axi_arready /\ ~m.arvalid

IInv == Types /\ WritesOK

LEMMA ZeroWord == Zero \in Word /\ ROM \in Word \cup {ROM}
BY RegfileAssumption DEF Zero, Word

LEMMA MergedWord ==
    ASSUME NEW old \in Word, NEW data \in Word, NEW strobe
    PROVE  Merged(old, data, strobe) \in Word
BY DEF Merged, Word

LEMMA QuietWires == ASSUME NEW resetn \in BOOLEAN PROVE Quiet(resetn) \in Wires
BY RegfileAssumption, ZeroWord DEF Quiet, Wires

LEMMA PairParts == ASSUME NEW S, NEW T, NEW x \in S \X T PROVE x[1] \in S /\ x[2] \in T
OBVIOUS

LEMMA TripleParts ==
    ASSUME NEW S, NEW T, NEW U, NEW x \in S \X T \X U
    PROVE  x[1] \in S /\ x[2] \in T /\ x[3] \in U
OBVIOUS

\* What the master does with its wires: it holds what is not taken.
LEMMA DriveKeeps ==
    ASSUME Types, Drive
    PROVE  /\ m' \in Wires /\ m'.aresetn
           /\ m.awvalid /\ ~axi_awready => m'.awvalid /\ m'.awaddr = m.awaddr
           /\ m.wvalid /\ ~axi_wready => m'.wvalid
           /\ m.arvalid /\ ~axi_arready => m'.arvalid /\ m'.araddr = m.araddr
           /\ ~(m.arvalid /\ ~axi_arready) /\ ReadPending /\ ~PipelinedReads => ~m'.arvalid
<1>1. PICK aw \in IF m.awvalid /\ ~axi_awready THEN {<< TRUE, m.awaddr >>} ELSE Addresses,
           w \in IF m.wvalid /\ ~axi_wready THEN {<< TRUE, m.wdata, m.wstrb >>} ELSE Data,
           ar \in IF m.arvalid /\ ~axi_arready
                    THEN {<< TRUE, m.araddr >>}
                    ELSE IF ReadPending /\ ~PipelinedReads THEN {<< FALSE, 0 >>} ELSE Addresses,
           b \in IF axi_bvalid' THEN BOOLEAN ELSE {FALSE},
           r \in IF axi_rvalid' THEN BOOLEAN ELSE {FALSE} :
        m' = [aresetn |-> TRUE, awvalid |-> aw[1], awaddr |-> aw[2],
              wvalid |-> w[1], wdata |-> w[2], wstrb |-> w[3], bready |-> b,
              arvalid |-> ar[1], araddr |-> ar[2], rready |-> r]
  BY DEF Drive
<1>2. m.awaddr \in Regs /\ m.araddr \in Regs /\ m.wdata \in Word /\ m.wstrb \in SUBSET Lanes
  BY DEF Types, Wires
<1>3. \A a \in Addresses : a[1] \in BOOLEAN /\ a[2] \in Regs
  <2>. SUFFICES ASSUME NEW a \in Addresses PROVE a[1] \in BOOLEAN /\ a[2] \in Regs
    OBVIOUS
  <2>1. CASE a = << FALSE, 0 >>
    BY <2>1, RegfileAssumption
  <2>2. CASE a \in {TRUE} \X Regs
    <3>1. a[1] \in {TRUE} /\ a[2] \in Regs
      BY <2>2, PairParts
    <3>. QED
      BY <3>1
  <2>. QED
    BY <2>1, <2>2 DEF Addresses
<1>4. \A d \in Data : d[1] \in BOOLEAN /\ d[2] \in Word /\ d[3] \in SUBSET Lanes
  <2>. SUFFICES ASSUME NEW d \in Data PROVE d[1] \in BOOLEAN /\ d[2] \in Word /\ d[3] \in SUBSET Lanes
    OBVIOUS
  <2>. DEFINE Uniform == {[l \in Lanes |-> v] : v \in Bytes}
  <2>1. CASE d = << FALSE, Zero, {} >>
    BY <2>1, ZeroWord
  <2>2. CASE d \in {TRUE} \X Uniform \X (SUBSET Lanes \ {{}})
    <3>1. Uniform \subseteq Word
      BY DEF Word
    <3>. HIDE DEF Uniform
    <3>2. d[1] \in {TRUE} /\ d[2] \in Uniform /\ d[3] \in SUBSET Lanes \ {{}}
      BY <2>2, TripleParts
    <3>. QED
      BY <3>1, <3>2
  <2>. QED
    BY <2>1, <2>2 DEF Data
<1>5. aw[1] \in BOOLEAN /\ aw[2] \in Regs
  <2>1. aw = << TRUE, m.awaddr >> \/ aw \in Addresses
    OBVIOUS
  <2>2. CASE aw = << TRUE, m.awaddr >>
    BY <1>2, <2>2
  <2>. QED
    BY <1>3, <2>1, <2>2
<1>6. w[1] \in BOOLEAN /\ w[2] \in Word /\ w[3] \in SUBSET Lanes
  <2>1. w = << TRUE, m.wdata, m.wstrb >> \/ w \in Data
    OBVIOUS
  <2>2. CASE w = << TRUE, m.wdata, m.wstrb >>
    BY <1>2, <2>2
  <2>. QED
    BY <1>4, <2>1, <2>2
<1>7. ar[1] \in BOOLEAN /\ ar[2] \in Regs
  <2>1. ar = << TRUE, m.araddr >> \/ ar = << FALSE, 0 >> \/ ar \in Addresses
    OBVIOUS
  <2>2. CASE ar = << TRUE, m.araddr >>
    BY <1>2, <2>2
  <2>3. CASE ar = << FALSE, 0 >>
    BY <2>3, RegfileAssumption
  <2>. QED
    BY <1>3, <2>1, <2>2, <2>3
<1>8. b \in BOOLEAN /\ r \in BOOLEAN
  OBVIOUS
<1>9. m' \in Wires /\ m'.aresetn
  BY <1>1, <1>5, <1>6, <1>7, <1>8 DEF Wires
<1>10. m.awvalid /\ ~axi_awready => m'.awvalid /\ m'.awaddr = m.awaddr
  <2>. HAVE m.awvalid /\ ~axi_awready
  <2>1. aw = << TRUE, m.awaddr >>
    OBVIOUS
  <2>. QED
    BY <1>1, <2>1
<1>11. m.wvalid /\ ~axi_wready => m'.wvalid
  <2>. HAVE m.wvalid /\ ~axi_wready
  <2>1. w = << TRUE, m.wdata, m.wstrb >>
    OBVIOUS
  <2>. QED
    BY <1>1, <2>1
<1>12. m.arvalid /\ ~axi_arready => m'.arvalid /\ m'.araddr = m.araddr
  <2>. HAVE m.arvalid /\ ~axi_arready
  <2>1. ar = << TRUE, m.araddr >>
    OBVIOUS
  <2>. QED
    BY <1>1, <2>1
<1>13. ~(m.arvalid /\ ~axi_arready) /\ ReadPending /\ ~PipelinedReads => ~m'.arvalid
  <2>. HAVE ~(m.arvalid /\ ~axi_arready) /\ ReadPending /\ ~PipelinedReads
  <2>1. ar = << FALSE, 0 >>
    OBVIOUS
  <2>. QED
    BY <1>1, <2>1
<1>. QED
  BY <1>9, <1>10, <1>11, <1>12, <1>13

LEMMA InitOK == Init => IInv /\ ReadsOK
<1>. SUFFICES ASSUME Init PROVE IInv /\ ReadsOK
  OBVIOUS
<1>1. Types
  BY ZeroWord, QuietWires, RegfileAssumption DEF Init, SlaveInit, Types
<1>2. WritesOK /\ ReadsOK
  BY DEF Init, SlaveInit, Quiet, WritesOK, ReadsOK
<1>. QED
  BY <1>1, <1>2 DEF IInv

\* What the slave's registers become in an edge out of reset
LEMMA WorkTypes ==
    ASSUME Types, Work
    PROVE  /\ axi_awready' \in BOOLEAN /\ aw_en' \in BOOLEAN /\ axi_wready' \in BOOLEAN
           /\ axi_bvalid' \in BOOLEAN /\ axi_arready' \in BOOLEAN /\ axi_rvalid' \in BOOLEAN
           /\ slv_reg_wren_reg' \in BOOLEAN
           /\ axi_awaddr' \in Regs /\ axi_araddr' \in Regs
           /\ axi_rdata' \in Word \cup {ROM}
           /\ slv_reg' \in [Regs -> Word] /\ slv_wr_pulse' \in [Regs -> Word \cup {ROM}]
<1>1. m \in Wires /\ m.awaddr \in Regs /\ m.araddr \in Regs /\ m.wdata \in Word
  BY DEF Types, Wires
<1>2. slv_read(axi_araddr) \in Word \cup {ROM}
  BY DEF slv_read, Types
<1>3. /\ axi_awready' \in BOOLEAN /\ aw_en' \in BOOLEAN /\ axi_wready' \in BOOLEAN
      /\ axi_bvalid' \in BOOLEAN /\ axi_arready' \in BOOLEAN /\ axi_rvalid' \in BOOLEAN
      /\ slv_reg_wren_reg' \in BOOLEAN
  BY DEF Work, WriteAddressReady, WriteDataReady, WriteResponse, ReadAddress, ReadValid,
         RegisterWrite, TakesAddress, slv_reg_wren, slv_reg_rden
<1>4. axi_awaddr' \in Regs /\ axi_araddr' \in Regs /\ axi_rdata' \in Word \cup {ROM}
  BY <1>1, <1>2 DEF Types, Work, WriteAddress, ReadAddress, ReadData
<1>5. slv_reg' \in [Regs -> Word]
  <2>1. CASE slv_reg_wren
    <3>1. [l \in Lanes |-> IF l \in m.wstrb THEN m.wdata[l] ELSE slv_reg[axi_awaddr][l]] \in Word
      BY <1>1 DEF Types, Word
    <3>. QED
      BY <2>1, <3>1 DEF Types, Work, RegisterWrite
  <2>2. CASE ~slv_reg_wren
    BY <2>2 DEF Types, Work, RegisterWrite
  <2>. QED
    BY <2>1, <2>2
<1>6. slv_wr_pulse' \in [Regs -> Word \cup {ROM}]
  <2>1. CASE slv_reg_wren
    <3>1. [l \in Lanes |-> IF l \in m.wstrb /\ ~slv_reg_wren_reg THEN m.wdata[l] ELSE 0] \in Word
      BY <1>1, RegfileAssumption DEF Word
    <3>. QED
      BY <2>1, <3>1 DEF Types, Work, RegisterWrite
  <2>2. CASE ~slv_reg_wren
    BY <2>2, ZeroWord DEF Work, RegisterWrite
  <2>. QED
    BY <2>1, <2>2
<1>. QED
  BY <1>3, <1>4, <1>5, <1>6

\* The slave takes a write exactly when the bus shows that it does.
LEMMA WriteSeen == WritesOK => (slv_reg_wren <=> WriteTaken)
BY DEF WritesOK, slv_reg_wren, WriteTaken

LEMMA WorkWrites ==
    ASSUME IInv, m.aresetn, Work, Observe
    PROVE  /\ axi_wready' = axi_awready'
           /\ axi_awready' => ~aw_en' /\ ~axi_bvalid' /\ ~slv_reg_wren_reg'
           /\ axi_awready' => slv_wr_pulse' = [r \in Regs |-> Zero]
           /\ axi_bvalid' => ~aw_en'
           /\ slv_reg' = memory'
           /\ acks' = IF axi_bvalid' THEN 1 ELSE 0
<1>. USE DEF IInv
<1>1. /\ axi_awready \in BOOLEAN /\ axi_wready \in BOOLEAN /\ axi_bvalid \in BOOLEAN
      /\ aw_en \in BOOLEAN /\ m.bready \in BOOLEAN /\ m.awvalid \in BOOLEAN /\ m.wvalid \in BOOLEAN
  BY DEF Types, Wires
<1>2. axi_wready' = axi_awready'
  BY <1>1 DEF WritesOK, Work, WriteAddressReady, WriteDataReady, TakesAddress
<1>3. axi_awready' => ~aw_en' /\ ~axi_bvalid' /\ ~slv_reg_wren_reg'
  BY <1>1 DEF WritesOK, Work, WriteAddressReady, WriteResponse, RegisterWrite, TakesAddress, slv_reg_wren
<1>4. axi_bvalid' => ~aw_en'
  BY <1>1 DEF WritesOK, Work, WriteAddressReady, WriteResponse, TakesAddress, slv_reg_wren
<1>5. slv_reg' = memory'
  <2>1. CASE slv_reg_wren
    <3>1. slv_reg' = [slv_reg EXCEPT ![axi_awaddr] = Merged(slv_reg[axi_awaddr], m.wdata, m.wstrb)]
      BY <2>1 DEF Work, RegisterWrite, Merged
    <3>2. memory' = [memory EXCEPT ![m.awaddr] = Merged(memory[m.awaddr], m.wdata, m.wstrb)]
      BY <2>1, WriteSeen DEF Observe
    <3>3. axi_awaddr = m.awaddr /\ slv_reg = memory
      BY <2>1 DEF WritesOK, slv_reg_wren
    <3>. QED
      BY <3>1, <3>2, <3>3
  <2>2. CASE ~slv_reg_wren
    BY <2>2, WriteSeen DEF WritesOK, Work, RegisterWrite, Observe
  <2>. QED
    BY <2>1, <2>2
<1>6. acks' = IF axi_bvalid' THEN 1 ELSE 0
  <2>1. slv_reg_wren => ~axi_bvalid
    BY DEF WritesOK, slv_reg_wren
  <2>2. axi_bvalid' <=> slv_reg_wren \/ (axi_bvalid /\ ~m.bready)
    BY <2>1 DEF Work, WriteResponse
  <2>3. acks' = (acks + (IF slv_reg_wren THEN 1 ELSE 0)) - (IF axi_bvalid /\ m.bready THEN 1 ELSE 0)
    BY WriteSeen DEF Observe, ResponseTaken
  <2>. QED
    BY <2>1, <2>2, <2>3 DEF WritesOK
<1>7. axi_awready' => slv_wr_pulse' = [r \in Regs |-> Zero]
  BY <1>1 DEF Work, WriteAddressReady, RegisterWrite, TakesAddress, slv_reg_wren
<1>. QED
  BY <1>2, <1>3, <1>4, <1>5, <1>6, <1>7

LEMMA WorkReads ==
    ASSUME IInv, ReadsOK, m.aresetn, Work, Observe
    PROVE  /\ owed' = IF axi_rvalid' THEN << axi_rdata' >> ELSE << >>
           /\ axi_rvalid' => ~axi_arready'
           /\ axi_rvalid' => ReadPending /\ ~(m.arvalid /\ ~axi_arready)
<1>. USE DEF IInv
<1>1. /\ axi_arready \in BOOLEAN /\ axi_rvalid \in BOOLEAN /\ m.rready \in BOOLEAN
      /\ m.arvalid \in BOOLEAN
  BY DEF Types, Wires
<1>2. slv_reg_rden <=> ReadTaken
  BY <1>1 DEF ReadsOK, slv_reg_rden, ReadTaken
<1>3. CASE ReadTaken
  <2>1. ~axi_rvalid /\ owed = << >> /\ axi_araddr = m.araddr /\ axi_rvalid' /\ ~axi_arready'
    BY <1>1, <1>2, <1>3 DEF ReadsOK, ReadTaken, Work, ReadValid, ReadAddress
  <2>2. axi_rdata' = IF m.araddr \in ReadOnly THEN ROM ELSE memory[m.araddr]
    BY <1>2, <1>3, <2>1 DEF WritesOK, Work, ReadData, slv_read
  <2>3. owed' = << >> \o << axi_rdata' >>
    BY <1>3, <2>1, <2>2 DEF Observe, DataTaken
  <2>4. owed' = << axi_rdata' >>
    BY <2>3
  <2>. QED
    BY <1>3, <2>1, <2>4 DEF ReadPending, ReadTaken
<1>4. CASE ~ReadTaken /\ axi_rvalid /\ ~m.rready
  <2>1. axi_rvalid' /\ axi_rdata' = axi_rdata /\ ~axi_arready'
    BY <1>1, <1>2, <1>4 DEF ReadsOK, Work, ReadValid, ReadData, ReadAddress
  <2>2. owed = << axi_rdata >> /\ owed' = owed \o << >>
    BY <1>4 DEF ReadsOK, Observe, DataTaken
  <2>3. owed' = << axi_rdata >> /\ owed # << >>
    BY <2>2
  <2>. QED
    BY <1>4, <2>1, <2>3, <2>2 DEF ReadPending, DataTaken, ReadsOK
<1>5. CASE ~ReadTaken /\ ~(axi_rvalid /\ ~m.rready)
  <2>1. ~axi_rvalid'
    BY <1>1, <1>2, <1>5 DEF Work, ReadValid
  <2>2. owed' = << >> \o << >>
    <3>1. CASE axi_rvalid
      <4>1. owed = << axi_rdata >> /\ DataTaken
        BY <1>1, <1>5, <3>1 DEF ReadsOK, DataTaken
      <4>2. Tail(owed) = << >>
        BY <4>1
      <4>. QED
        BY <1>5, <4>1, <4>2 DEF Observe
    <3>2. CASE ~axi_rvalid
      BY <1>5, <3>2 DEF ReadsOK, Observe, DataTaken
    <3>. QED
      BY <3>1, <3>2
  <2>. QED
    BY <2>1, <2>2
<1>. QED
  BY <1>3, <1>4, <1>5

LEMMA EdgeOK ==
    ASSUME IInv, Edge
    PROVE  IInv' /\ (ReadsOK /\ ~PipelinedReads => ReadsOK')
<1>1. m.aresetn /\ Work /\ Drive /\ Observe /\ Types /\ WritesOK
  BY DEF Edge, SlaveEdge, IInv
<1>2. Types'
  BY <1>1, WorkTypes, DriveKeeps DEF Types
<1>3. axi_awready' => m'.awvalid /\ m'.wvalid /\ axi_awaddr' = m'.awaddr
  BY <1>1, DriveKeeps DEF WritesOK, Work, WriteAddressReady, WriteAddress, TakesAddress
<1>4. WritesOK'
  BY <1>1, <1>3, WorkWrites DEF WritesOK, IInv
<1>5. ASSUME ReadsOK, ~PipelinedReads PROVE ReadsOK'
  <2>1. axi_arready' => m'.arvalid /\ axi_araddr' = m'.araddr
    BY <1>1, DriveKeeps DEF Work, ReadAddress
  <2>2. axi_rvalid' => ~m'.arvalid
    BY <1>1, <1>5, WorkReads, DriveKeeps
  <2>. QED
    BY <1>1, <1>5, <2>1, <2>2, WorkReads DEF ReadsOK
<1>. QED
  BY <1>2, <1>4, <1>5 DEF IInv

LEMMA ResetFallsOK ==
    ASSUME IInv, ResetFalls
    PROVE  IInv' /\ (ReadsOK => ReadsOK')
<1>1. m.aresetn /\ Work /\ m' = Quiet(FALSE) /\ Observe /\ Types /\ WritesOK
  BY DEF ResetFalls, SlaveEdge, IInv
<1>2. m' \in Wires /\ ~m'.aresetn /\ ~m'.arvalid
  BY <1>1, QuietWires DEF Quiet
<1>3. Types'
  BY <1>1, <1>2, WorkTypes DEF Types
<1>4. WritesOK'
  BY <1>1, <1>2, WorkWrites DEF WritesOK, IInv
<1>5. ReadsOK => ReadsOK'
  BY <1>1, <1>2, WorkReads DEF ReadsOK
<1>. QED
  BY <1>3, <1>4, <1>5 DEF IInv

LEMMA ResetEdgeOK ==
    ASSUME IInv, ResetEdge
    PROVE  IInv' /\ ReadsOK'
<1>1. Cleared /\ m' \in Wires /\ Types
  BY QuietWires DEF ResetEdge, SlaveEdge, IInv
<1>2. Types'
  BY <1>1, ZeroWord, RegfileAssumption DEF Cleared, Types
<1>3. WritesOK' /\ ReadsOK'
  BY <1>1 DEF Cleared, ResetEdge, WritesOK, ReadsOK
<1>. QED
  BY <1>2, <1>3 DEF IInv

LEMMA StepOK ==
    ASSUME IInv, [Next]_vars
    PROVE  IInv' /\ (ReadsOK /\ ~PipelinedReads => ReadsOK')
<1>1. CASE UNCHANGED vars
  BY <1>1 DEF vars, slave, writeSide, readSide, registers, monitor, IInv, Types, WritesOK, ReadsOK
<1>. QED
  BY <1>1, EdgeOK, ResetFallsOK, ResetEdgeOK DEF Next

-----------------------------------------------------------------------------
(* Whatever the master does, one write at a time is taken and the slave    *)
(* latches what the master still offers when it is.                        *)
THEOREM Invariance == Spec => []IInv
<1>1. Init => IInv
  BY InitOK
<1>2. IInv /\ [Next]_vars => IInv'
  BY StepOK
<1>. QED
  BY <1>1, <1>2, PTL DEF Spec

(* Every register keeps its type and at most one response waits.           *)
THEOREM TypeCorrect == Spec => []TypeOK
<1>1. IInv => TypeOK
  BY DEF IInv, Types, WritesOK, TypeOK
<1>. QED
  BY <1>1, Invariance, PTL

(* The registers are those of a memory that the bus writes, also when the  *)
(* master has its reads overlap.                                           *)
THEOREM WritesReachRegisters == Spec => []RegistersAgree
<1>1. IInv => RegistersAgree
  BY DEF IInv, WritesOK, RegistersAgree
<1>. QED
  BY <1>1, Invariance, PTL

(* With one read at a time each request is answered once, with the data of *)
(* its own address.                                                        *)
THEOREM NoResponseLost == ~PipelinedReads /\ Spec => []ResponsesMatch
<1>. SUFFICES ASSUME ~PipelinedReads PROVE Spec => []ResponsesMatch
  OBVIOUS
<1>1. Init => IInv /\ ReadsOK
  BY InitOK
<1>2. (IInv /\ ReadsOK) /\ [Next]_vars => (IInv /\ ReadsOK)'
  BY StepOK
<1>3. IInv /\ ReadsOK => ResponsesMatch
  <2>. SUFFICES ASSUME IInv, ReadsOK PROVE ResponsesMatch
    OBVIOUS
  <2>1. axi_bvalid = (acks > 0)
    BY DEF IInv, Types, WritesOK
  <2>2. CASE axi_rvalid
    BY <2>1, <2>2 DEF ReadsOK, ResponsesMatch
  <2>3. CASE ~axi_rvalid
    BY <2>1, <2>3 DEF ReadsOK, ResponsesMatch
  <2>. QED
    BY <2>2, <2>3
<1>. QED
  BY <1>1, <1>2, <1>3, PTL DEF Spec

(* slv_wr_pulse shows what the last edge wrote and nothing else.           *)
THEOREM PulsesLastOneCycle == Spec => PulseIsWrite
<1>1. IInv /\ [Next]_vars =>
        [m.aresetn => slv_wr_pulse' =
            [r \in Regs |-> IF WriteTaken /\ r = m.awaddr
                              THEN Merged(Zero, m.wdata, m.wstrb)
                              ELSE Zero]]_vars
  <2>. SUFFICES ASSUME IInv, Next, m.aresetn
                PROVE  slv_wr_pulse' = [r \in Regs |-> IF WriteTaken /\ r = m.awaddr
                                                         THEN Merged(Zero, m.wdata, m.wstrb)
                                                         ELSE Zero]
    BY DEF vars
  <2>1. Work /\ Types /\ WritesOK
    BY DEF Next, Edge, ResetFalls, ResetEdge, SlaveEdge, IInv
  <2>2. slv_reg_wren <=> WriteTaken
    BY <2>1, WriteSeen
  <2>3. CASE WriteTaken
    <3>1. axi_awaddr = m.awaddr /\ ~slv_reg_wren_reg
      BY <2>1, <2>2, <2>3 DEF WritesOK, slv_reg_wren
    <3>2. slv_wr_pulse = [r \in Regs |-> Zero]
      BY <2>1, <2>2, <2>3 DEF WritesOK, slv_reg_wren
    <3>3. slv_wr_pulse' = [slv_wr_pulse EXCEPT ![axi_awaddr] =
                              [l \in Lanes |-> IF l \in m.wstrb THEN m.wdata[l] ELSE 0]]
      BY <2>1, <2>2, <2>3, <3>1 DEF Work, RegisterWrite
    <3>4. Merged(Zero, m.wdata, m.wstrb) = [l \in Lanes |-> IF l \in m.wstrb THEN m.wdata[l] ELSE 0]
      BY DEF Merged, Zero
    <3>. QED
      BY <2>3, <3>1, <3>2, <3>3, <3>4
  <2>4. CASE ~WriteTaken
    BY <2>1, <2>2, <2>4 DEF Work, RegisterWrite
  <2>. QED
    BY <2>3, <2>4
<1>. QED
  BY <1>1, Invariance, PTL DEF Spec, PulseIsWrite
=============================================================================
