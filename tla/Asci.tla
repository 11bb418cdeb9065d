-------------------------------- MODULE Asci --------------------------------
(***************************************************************************)
(* The serial ports of src/dev_asci.c: processes put and get bytes in ring *)
(* buffers with interrupts disabled, the interrupt handlers move bytes     *)
(* between the buffers and the ASCI registers, and a sender at the other   *)
(* end of the line obeys RTS a little late.                                *)
(***************************************************************************)
EXTENDS CircularBuffer, FiniteSets

CONSTANTS
    Ports,           \* the ports in use, among 0 and 1
    Byte,            \* the bytes that programs write
    RxSize, TxSize,  \* sizes of the arrays
    SPACE_LEFT,      \* ASCI0_FULL_SPACE_LEFT = ASCI0_EMPTY_SPACE_LEFT
    Slack,           \* bytes the sender may still send after RTS says stop
    MaxTx, MaxRx     \* bounds on the bytes written to and arriving at a port

ASSUME AsciAssumption ==
    /\ Ports \subseteq {0, 1}
    /\ Byte \subseteq Nat
    /\ RxSize \in Nat \ {0} /\ TxSize \in Nat \ {0}
    /\ SPACE_LEFT \in 1 .. RxSize - 1
    /\ Slack \in 0 .. SPACE_LEFT - 1
    /\ MaxTx \in Nat /\ MaxRx \in Nat

VARIABLES
    rx, tx,      \* struct circular_buffer of each port
    RDR,         \* receive register, NoByte when RDRF is clear
    TDR,         \* transmit register, NoByte when TDRE is set
    TIE,         \* transmit interrupt enable of each port
    RTS0,        \* the bit of CNTLA0 that tells the sender of port 0 to stop
    late,        \* bytes the sender has sent since RTS0 was set
    accepted,    \* bytes asci_putc took, in order
    wire,        \* bytes that left on the line, in order
    arrived,     \* number of bytes that came in: the n-th has value n
    read         \* number of bytes programs have got

txVars == <<tx, TDR, TIE, accepted, wire>>
rxVars == <<rx, RDR, RTS0, late, arrived, read>>
vars   == <<txVars, rxVars>>

TypeOK ==
    /\ rx \in [Ports -> Ring(RxSize, 0 .. MaxRx)]
    /\ tx \in [Ports -> Ring(TxSize, Byte \cup {0})]
    /\ RDR \in [Ports -> 1 .. MaxRx \cup {NoByte}]
    /\ TDR \in [Ports -> Byte \cup {NoByte}]
    /\ TIE \in [Ports -> BOOLEAN]
    /\ RTS0 \in BOOLEAN
    /\ late \in 0 .. Slack
    /\ accepted \in [Ports -> Seq(Byte)]
    /\ wire \in [Ports -> Seq(Byte)]
    /\ arrived \in [Ports -> 0 .. MaxRx]
    /\ read \in [Ports -> 0 .. MaxRx]

\* asci_0_init and asci_1_init
Init ==
    /\ rx = [p \in Ports |-> empty_buffer(RxSize, 0)]
    /\ tx = [p \in Ports |-> empty_buffer(TxSize, 0)]
    /\ RDR = [p \in Ports |-> NoByte]
    /\ TDR = [p \in Ports |-> NoByte]
    /\ TIE = [p \in Ports |-> FALSE]
    /\ RTS0 = FALSE
    /\ late = 0
    /\ accepted = [p \in Ports |-> <<>>]
    /\ wire = [p \in Ports |-> <<>>]
    /\ arrived = [p \in Ports |-> 0]
    /\ read = [p \in Ports |-> 0]

-----------------------------------------------------------------------------
(* Programs: one turn of the loops of asci_write and asci_read.             *)

\* Mutant: putc leaves the transmit interrupt as it is.
EnabledAlready(p) == TIE[p]

\* putc always asks for the transmit interrupt.
EnabledByPut(p) == TRUE

\* asci_0_putc, asci_1_putc, when the buffer has room
asci_putc(p, c) ==
    /\ Len(accepted[p]) < MaxTx
    /\ LET r == circular_buffer_put(tx[p], c) IN
       /\ r.result # NoByte
       /\ tx' = [tx EXCEPT ![p] = r.buffer]
    /\ TIE' = [TIE EXCEPT ![p] = EnabledByPut(p)]
    /\ accepted' = [accepted EXCEPT ![p] = Append(@, c)]
    /\ UNCHANGED <<rxVars, TDR, wire>>

\* getc of port 0 clears RTS when there is space again.
StopAfterGet(p, b) ==
    RTS0 /\ ~(p = 0 /\ circular_buffer_space_left(b) >= SPACE_LEFT)

\* asci_0_getc, asci_1_getc, when the buffer holds a byte
asci_getc(p) ==
    LET r == circular_buffer_get(rx[p]) IN
    /\ r.result # NoByte
    /\ rx' = [rx EXCEPT ![p] = r.buffer]
    /\ RTS0' = StopAfterGet(p, r.buffer)
    /\ late' = IF RTS0' THEN late ELSE 0
    /\ read' = [read EXCEPT ![p] = @ + 1]
    /\ UNCHANGED <<txVars, RDR, arrived>>

-----------------------------------------------------------------------------
(* int_asci0 and int_asci1: the handler serves what STAT shows.             *)

\* Mutant: the handler tells the sender to stop when it is too late.
StopWhenFull(p, b) == RTS0 \/ (p = 0 /\ circular_buffer_is_full(b))

\* Port 0 tells the sender to stop while there is still some space.
StopAfterPut(p, b) ==
    RTS0 \/ (p = 0 /\ circular_buffer_space_left(b) < SPACE_LEFT)

Receive(p) ==
    /\ rx' = [rx EXCEPT ![p] = circular_buffer_put(@, RDR[p]).buffer]
    /\ RTS0' = StopAfterPut(p, rx'[p])
    /\ RDR' = [RDR EXCEPT ![p] = NoByte]
    /\ UNCHANGED <<late, arrived, read>>

\* Mutant: a zero byte ends the transmission on port 0, as it does on port 1.
NothingToSendOrZero(p, byte) == byte < 1

\* The two handlers do not test the same.
NothingToSend(p, byte) == IF p = 0 THEN byte < 0 ELSE byte < 1

Transmit(p) ==
    LET r == circular_buffer_get(tx[p]) IN
    /\ tx' = [tx EXCEPT ![p] = r.buffer]
    /\ IF NothingToSend(p, r.result)
       THEN TIE' = [TIE EXCEPT ![p] = FALSE] /\ UNCHANGED TDR
       ELSE TDR' = [TDR EXCEPT ![p] = r.result] /\ UNCHANGED TIE
    /\ UNCHANGED <<accepted, wire>>

RxReady(p) == RDR[p] # NoByte
TxReady(p) == TDR[p] = NoByte /\ TIE[p]

int_asci(p) ==
    /\ RxReady(p) \/ TxReady(p)
    /\ IF RxReady(p) THEN Receive(p) ELSE UNCHANGED rxVars
    /\ IF TxReady(p) THEN Transmit(p) ELSE UNCHANGED txVars

-----------------------------------------------------------------------------
(* The hardware.  The transmitter shifts a byte out.  A byte comes in after *)
(* the handler has fetched the one before (its errors are a TODO of the     *)
(* code); port 1 is initialised without the receiver.                       *)

ShiftOut(p) ==
    /\ TDR[p] # NoByte
    /\ wire' = [wire EXCEPT ![p] = Append(@, TDR[p])]
    /\ TDR' = [TDR EXCEPT ![p] = NoByte]
    /\ UNCHANGED <<rxVars, tx, TIE, accepted>>

ShiftIn(p) ==
    /\ p = 0
    /\ RDR[p] = NoByte
    /\ arrived[p] < MaxRx
    /\ RTS0 => late < Slack
    /\ arrived' = [arrived EXCEPT ![p] = @ + 1]
    /\ RDR' = [RDR EXCEPT ![p] = arrived[p] + 1]
    /\ late' = IF RTS0 THEN late + 1 ELSE 0
    /\ UNCHANGED <<txVars, rx, RTS0, read>>

Next ==
    \E p \in Ports :
        \/ \E c \in Byte : asci_putc(p, c)
        \/ asci_getc(p)
        \/ int_asci(p)
        \/ ShiftOut(p)
        \/ ShiftIn(p)

Spec == Init /\ [][Next]_vars

\* The interrupt request stays until it is served, and the transmitter works.
FairSpec ==
    Spec /\ \A p \in Ports : WF_vars(int_asci(p)) /\ WF_vars(ShiftOut(p))

-----------------------------------------------------------------------------
InRegister(p) == IF TDR[p] = NoByte THEN <<>> ELSE <<TDR[p]>>

\* Every byte that putc accepted is on the wire, in the register or in the
\* buffer, in the order of the calls: none is lost, doubled or overtaken.
TxNothingLost ==
    \A p \in Ports : accepted[p] = wire[p] \o InRegister(p) \o contents(tx[p])

\* RTS stops the sender exactly while space is short, so that a program that
\* reads everything lets the sender go on.
RtsTracksSpace ==
    0 \in Ports => (RTS0 <=> circular_buffer_space_left(rx[0]) < SPACE_LEFT)

\* No byte that comes in is dropped although the handler does not look at what
\* put returns: RTS stops the sender while its late bytes still fit, and only
\* then.  (And every variable has its type.)
RxNothingLost ==
    /\ TypeOK /\ RtsTracksSpace
    /\ \A p \in Ports :
        /\ contents(rx[p]) = [k \in 1 .. used(rx[p]) |-> read[p] + k]
        /\ arrived[p] = read[p] + used(rx[p]) + (IF RxReady(p) THEN 1 ELSE 0)

\* Every byte that putc accepts leaves on the line: the handler does not disable
\* the transmit interrupt for good while a byte is put into the buffer.
AllSent ==
    \A p \in Ports : \A n \in 1 .. MaxTx :
        Len(accepted[p]) >= n ~> Len(wire[p]) >= n
=============================================================================
