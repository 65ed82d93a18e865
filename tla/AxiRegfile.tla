----------------------------- MODULE AxiRegfile -----------------------------
(***************************************************************************)
(* The register file of axi_regfile_v1_0_S00_AXI.sv, an AXI4-Lite slave.   *)
(* Its registers change at the rising edge of the clock, all at once, from *)
(* the values they and the wires of the bus had before: each "always"      *)
(* block is an operator that gives the next values of the registers it     *)
(* drives.                                                                 *)
(*                                                                         *)
(* The wires the master drives are the record m, which the modules that    *)
(* use this one say how to drive.                                          *)
(***************************************************************************)
EXTENDS Naturals

CONSTANTS
    Regs,       \* register numbers
    Lanes,      \* bytes of a register (4 in the program)
    Bytes,      \* the values a byte takes, 0 among them
    ReadOnly    \* registers that read as constants: slv_read is not slv_reg there

ASSUME RegfileAssumption == 0 \in Regs /\ 0 \in Bytes /\ ReadOnly \subseteq Regs

VARIABLES
    m,                                      \* what the master drives
    axi_awready, aw_en, axi_awaddr,         \* write address
    axi_wready,                             \* write data
    slv_reg, slv_reg_wren_reg, slv_wr_pulse,
    axi_bvalid,                             \* write response
    axi_arready, axi_araddr,                \* read address
    axi_rvalid, axi_rdata                   \* read data

writeSide == << axi_awready, aw_en, axi_awaddr, axi_wready, axi_bvalid >>
readSide == << axi_arready, axi_araddr, axi_rvalid, axi_rdata >>
registers == << slv_reg, slv_reg_wren_reg, slv_wr_pulse >>
slave == << writeSide, readSide, registers >>

Zero == [l \in Lanes |-> 0]
ROM == [l \in Lanes |-> 7]      \* the constants top.sv reads back there

slv_read(r) == IF r \in ReadOnly THEN ROM ELSE slv_reg[r]

TakesAddress == ~axi_awready /\ m.awvalid /\ m.wvalid /\ aw_en
slv_reg_wren == axi_wready /\ m.wvalid /\ axi_awready /\ m.awvalid
slv_reg_rden == axi_arready /\ m.arvalid /\ ~axi_rvalid

\* Fault: aw_en is not set again.
WriteAddressReadyOnce ==
    axi_awready' = TakesAddress /\ aw_en' = (aw_en /\ ~TakesAddress)

(* One write at a time: aw_en is low from the acceptance of an address to  *)
(* the acceptance of its response.                                         *)
WriteAddressReady ==
    /\ axi_awready' = TakesAddress
    /\ aw_en' = (~TakesAddress /\ (aw_en \/ (m.bready /\ axi_bvalid)))

WriteAddress == axi_awaddr' = IF TakesAddress THEN m.awaddr ELSE axi_awaddr

WriteDataReady == axi_wready' = (~axi_wready /\ m.awvalid /\ m.wvalid /\ aw_en)

\* Fault: the strobes are not looked at.
RegisterWriteWhole ==
    /\ slv_reg_wren_reg' = slv_reg_wren
    /\ slv_reg' = IF slv_reg_wren THEN [slv_reg EXCEPT ![axi_awaddr] = m.wdata] ELSE slv_reg
    /\ slv_wr_pulse' = [r \in Regs |-> IF slv_reg_wren /\ r = axi_awaddr THEN m.wdata ELSE Zero]

\* Fault: the pulse is not ended.
RegisterWriteHeld ==
    /\ slv_reg_wren_reg' = slv_reg_wren
    /\ slv_reg' = IF slv_reg_wren
                    THEN [slv_reg EXCEPT ![axi_awaddr] =
                            [l \in Lanes |-> IF l \in m.wstrb THEN m.wdata[l] ELSE @[l]]]
                    ELSE slv_reg
    /\ slv_wr_pulse' = IF slv_reg_wren
                         THEN [slv_wr_pulse EXCEPT ![axi_awaddr] =
                                 [l \in Lanes |-> IF l \in m.wstrb THEN m.wdata[l] ELSE 0]]
                         ELSE slv_wr_pulse

(* Only the bytes whose strobe is set are written; slv_wr_pulse shows them *)
(* for one cycle, unless the cycle before was a write already.             *)
RegisterWrite ==
    /\ slv_reg_wren_reg' = slv_reg_wren
    /\ IF slv_reg_wren
         THEN /\ slv_reg' = [slv_reg EXCEPT ![axi_awaddr] =
                    [l \in Lanes |-> IF l \in m.wstrb THEN m.wdata[l] ELSE @[l]]]
              /\ slv_wr_pulse' = [slv_wr_pulse EXCEPT ![axi_awaddr] =
                    [l \in Lanes |-> IF l \in m.wstrb /\ ~slv_reg_wren_reg
                                       THEN m.wdata[l] ELSE 0]]
         ELSE slv_reg' = slv_reg /\ slv_wr_pulse' = [r \in Regs |-> Zero]

WriteResponse ==
    axi_bvalid' = \/ slv_reg_wren /\ ~axi_bvalid
                  \/ axi_bvalid /\ ~m.bready

ReadAddress ==
    /\ axi_arready' = (~axi_arready /\ m.arvalid)
    /\ axi_araddr' = IF ~axi_arready /\ m.arvalid THEN m.araddr ELSE axi_araddr

\* Fault: axi_rvalid lasts one cycle, whether or not the master is ready.
ReadValidOneCycle == axi_rvalid' = slv_reg_rden

ReadValid ==
    axi_rvalid' = \/ slv_reg_rden
                  \/ axi_rvalid /\ ~m.rready

ReadData == axi_rdata' = IF slv_reg_rden THEN slv_read(axi_araddr) ELSE axi_rdata

Work ==
    /\ WriteAddressReady /\ WriteAddress /\ WriteDataReady
    /\ RegisterWrite /\ WriteResponse
    /\ ReadAddress /\ ReadValid /\ ReadData

(* An edge with S_AXI_ARESETN low leaves one register alone: slv_wr_pulse. *)
Cleared ==
    /\ axi_awready' = FALSE /\ aw_en' = TRUE /\ axi_wready' = FALSE
    /\ axi_bvalid' = FALSE /\ axi_arready' = FALSE /\ axi_rvalid' = FALSE
    /\ axi_awaddr' = 0 /\ axi_araddr' = 0 /\ axi_rdata' = Zero
    /\ slv_reg' = [r \in Regs |-> Zero] /\ slv_reg_wren_reg' = FALSE
    /\ UNCHANGED slv_wr_pulse

SlaveEdge == IF m.aresetn THEN Work ELSE Cleared

SlaveInit ==
    /\ axi_awready = FALSE /\ aw_en = TRUE /\ axi_wready = FALSE
    /\ axi_bvalid = FALSE /\ axi_arready = FALSE /\ axi_rvalid = FALSE
    /\ axi_awaddr = 0 /\ axi_araddr = 0 /\ axi_rdata = Zero
    /\ slv_reg = [r \in Regs |-> Zero] /\ slv_reg_wren_reg = FALSE
    /\ slv_wr_pulse \in [Regs -> {Zero, ROM}]       \* never reset: it may start as anything
=============================================================================
