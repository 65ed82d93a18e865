----------------------------- MODULE AxiTraffic -----------------------------
(***************************************************************************)
(* The register file under every traffic the AXI4-Lite protocol allows: a  *)
(* master that raises and keeps its valid signals, that offers an address  *)
(* before, with or after its data and the next write before the response   *)
(* to the last, and that accepts responses when it likes.  The master is   *)
(* external (the interconnect of the design).                              *)
(*                                                                         *)
(* The variables memory, acks and owed observe the wires of the bus only:  *)
(* what a memory that obeys the protocol would hold and owe.               *)
(***************************************************************************)
EXTENDS AxiRegfile, Sequences

CONSTANT
    PipelinedReads      \* does the master ask again before it has its data?

ASSUME TrafficAssumption == PipelinedReads \in BOOLEAN

VARIABLES
    memory,     \* the registers as the accepted writes made them
    acks,       \* writes accepted whose response was not
    owed        \* the data of reads accepted that were not answered, in order

monitor == << memory, acks, owed >>
vars == << m, slave, monitor >>

Word == [Lanes -> Bytes]

(* What a channel carries while it is not valid, and a ready without its   *)
(* valid, play no part: zero.  The bytes of a word are all the same, and   *)
(* the strobes choose among them.                                          *)
Addresses == {<< FALSE, 0 >>} \cup ({TRUE} \X Regs)
Data == {<< FALSE, Zero, {} >>}
        \cup ({TRUE} \X {[l \in Lanes |-> b] : b \in Bytes} \X (SUBSET Lanes \ {{}}))

WriteTaken == m.awvalid /\ axi_awready /\ m.wvalid /\ axi_wready
ReadTaken == m.arvalid /\ axi_arready
ResponseTaken == axi_bvalid /\ m.bready
DataTaken == axi_rvalid /\ m.rready
ReadPending == ReadTaken \/ (owed /= << >> /\ ~DataTaken)

Quiet(resetn) ==
    [aresetn |-> resetn, awvalid |-> FALSE, awaddr |-> 0,
     wvalid |-> FALSE, wdata |-> Zero, wstrb |-> {}, bready |-> FALSE,
     arvalid |-> FALSE, araddr |-> 0, rready |-> FALSE]

(* Valid stays until ready, with what it is valid for.                     *)
Drive ==
    \E aw \in IF m.awvalid /\ ~axi_awready
                THEN {<< TRUE, m.awaddr >>} ELSE Addresses,
       w \in IF m.wvalid /\ ~axi_wready
               THEN {<< TRUE, m.wdata, m.wstrb >>} ELSE Data,
       ar \in IF m.arvalid /\ ~axi_arready
                THEN {<< TRUE, m.araddr >>}
                ELSE IF ReadPending /\ ~PipelinedReads
                       THEN {<< FALSE, 0 >>} ELSE Addresses,
       b \in IF axi_bvalid' THEN BOOLEAN ELSE {FALSE},
       r \in IF axi_rvalid' THEN BOOLEAN ELSE {FALSE} :
        m' = [aresetn |-> TRUE, awvalid |-> aw[1], awaddr |-> aw[2],
              wvalid |-> w[1], wdata |-> w[2], wstrb |-> w[3], bready |-> b,
              arvalid |-> ar[1], araddr |-> ar[2], rready |-> r]

Merged(old, data, strobe) == [l \in Lanes |-> IF l \in strobe THEN data[l] ELSE old[l]]

Observe ==
    /\ memory' = IF WriteTaken
                   THEN [memory EXCEPT ![m.awaddr] = Merged(@, m.wdata, m.wstrb)]
                   ELSE memory
    /\ acks' = (acks + (IF WriteTaken THEN 1 ELSE 0)) - (IF ResponseTaken THEN 1 ELSE 0)
    /\ owed' = (IF DataTaken THEN Tail(owed) ELSE owed)
               \o (IF ReadTaken
                     THEN << IF m.araddr \in ReadOnly THEN ROM ELSE memory[m.araddr] >>
                     ELSE << >>)

Edge == m.aresetn /\ SlaveEdge /\ Drive /\ Observe

(* The reset may come at any time: the wires go quiet, and the next edge   *)
(* finds S_AXI_ARESETN low.                                                *)
ResetFalls == m.aresetn /\ SlaveEdge /\ m' = Quiet(FALSE) /\ Observe

ResetEdge ==
    /\ ~m.aresetn /\ SlaveEdge /\ m' \in {Quiet(FALSE), Quiet(TRUE)}
    /\ memory' = [r \in Regs |-> Zero] /\ acks' = 0 /\ owed' = << >>

Init ==
    /\ SlaveInit /\ m = Quiet(TRUE)
    /\ memory = [r \in Regs |-> Zero] /\ acks = 0 /\ owed = << >>

Next == Edge \/ ResetFalls \/ ResetEdge

(* The clock runs, and a master does not put off for ever the data of an   *)
(* address, the address of its data, or the acceptance of a response.      *)
Spec ==
    /\ Init /\ [][Next]_vars
    /\ WF_vars(Next)
    /\ []<>(m.awvalid <=> m.wvalid)
    /\ []<>(axi_bvalid => m.bready)
    /\ []<>(axi_rvalid => m.rready)
-----------------------------------------------------------------------------
(* Every register has its type, and at most one response waits.            *)
TypeOK ==
    /\ {axi_awready, aw_en, axi_wready, axi_bvalid, axi_arready, axi_rvalid,
        slv_reg_wren_reg} \subseteq BOOLEAN
    /\ {axi_awaddr, axi_araddr} \subseteq Regs
    /\ {axi_rdata} \subseteq Word \cup {ROM}
    /\ slv_reg \in [Regs -> Word] /\ slv_wr_pulse \in [Regs -> Word \cup {ROM}]
    /\ acks \in 0 .. 1

(* The registers hold what the accepted writes say, each byte at its own   *)
(* address although the address is latched a cycle before the data.        *)
RegistersAgree == slv_reg = memory

(* A response on the bus answers an accepted request, and each accepted    *)
(* request has one waiting: none is lost, none is made up, and the data is *)
(* what the register held when the address was accepted.                   *)
ResponsesMatch ==
    /\ axi_bvalid = (acks > 0)
    /\ Len(owed) = IF axi_rvalid THEN 1 ELSE 0
    /\ axi_rvalid => axi_rdata = Head(owed)

(* "The bit pulses when a '1' is written to the corresponding bit": after  *)
(* an edge, slv_wr_pulse shows exactly what that edge wrote, so that no    *)
(* pulse lasts for two cycles.                                             *)
PulseIsWrite ==
    [][m.aresetn => slv_wr_pulse' =
        [r \in Regs |-> IF WriteTaken /\ r = m.awaddr
                          THEN Merged(Zero, m.wdata, m.wstrb)
                          ELSE Zero]]_vars

(* A write or a read that the master offers is accepted, and answered.     *)
Answered ==
    /\ m.awvalid ~> (acks > 0 \/ ~m.awvalid)
    /\ (acks > 0) ~> (acks = 0)
    /\ m.arvalid ~> (owed /= << >> \/ ~m.arvalid)
    /\ (owed /= << >>) ~> (owed = << >>)
=============================================================================
