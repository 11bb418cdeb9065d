---------------------------- MODULE SdCardProofs ----------------------------
(***************************************************************************)
(* Proofs about SdCard, for every number of processes, every size of the   *)
(* card and every set of requests: the initialisation claims only a card   *)
(* that is ready, small accesses exclude each other, and where no whole    *)
(* block raced the card holds what was written and readers get it.         *)
(***************************************************************************)
EXTENDS SdCard, SequenceTheorems, FiniteSetTheorems, TLAPS

Cell == 0 .. SD_BLOCK_LEN - 1

\* TypeOK, and what it leaves out.
Types ==
    /\ TypeOK
    /\ req \in [Proc -> Requests] /\ done \in [Proc -> Nat]
    /\ got \in [Proc -> Seq(Byte \cup {Garbage})]

\* How far the initialisation has come, and what is known of the card by then.
AttemptInv ==
    /\ boot \in {"go_idle", "if_cond"} => init_attempts = 0
    /\ boot \in {"app", "op_cond"} => init_attempts < INIT_ATTEMPTS
    /\ send_op_cond_result = 0 \/ boot = "ocr" \/ init_result = 0 => ready
    /\ boot # "done" => init_result = -1

\* No process uses the card while the kernel boots.
BootInv ==
    boot # "up" =>
        /\ \A p \in Proc : at[p] = "out" /\ got[p] = <<>>
        /\ disk = [a \in Address |-> <<0, a>>]
        /\ written = [a \in Address |-> 0]

\* Which pieces pass which places of the loop.
PieceInv ==
    \A p \in Proc :
        /\ at[p] \in Piece => count(p) > 0
        /\ at[p] \in {"read", "reading"} /\ ~Small(p) => ~req[p].write
        /\ at[p] \in {"write", "writing"} => req[p].write
        /\ at[p] = "free" => Small(p)

\* The single buffer has one holder.
OneHolder ==
    \A p, q \in Proc :
        p # q /\ at[p] \in Piece /\ at[q] \in Piece => ~(Small(p) /\ Small(q))

\* Accesses overlap only on blocks that are raced on.
MixedInv == \A p \in mixed : at[p] \in InAccess /\ Block(p) \in raced

RaceInv ==
    \A p, q \in Proc :
        /\ p # q /\ Block(p) = Block(q)
        /\ at[p] \in Piece \ {"read"} /\ Small(p)
        /\ at[q] \in InAccess /\ ~Small(q)
        => Block(p) \in raced

\* The buffer holds what was last written to its block, with the bytes of the
\* piece in their place.
BufferInv ==
    CardUsable => \A p \in Proc :
        /\ at[p] \in {"write", "writing", "free"} /\ Small(p)
        /\ Block(p) \notin raced
        => \A k \in Cell :
             LET a == Block(p) * SD_BLOCK_LEN + k
             IN  block[p][k] = IF req[p].write /\ InPiece(p, k) THEN <<p, a>>
                               ELSE <<written[a], a>>

GotInv ==
    CardUsable => \A p \in Proc : \A k \in DOMAIN got[p] :
        LET a == req[p].pos + k - 1
        IN  a \div SD_BLOCK_LEN \notin raced => got[p][k][2] = a

SdInv ==
    /\ Types /\ AttemptInv /\ BootInv /\ PieceInv
    /\ OneHolder /\ MixedInv /\ RaceInv
    /\ BufferInv /\ DiskIsRight /\ GotInv

-----------------------------------------------------------------------------
(* Arithmetic: an address is a block and a place in it, in one way only.    *)

LEMMA Sizes == SD_BLOCK_LEN \in Nat \ {0} /\ Blocks \in Nat \ {0}
BY SdAssumption

LEMMA DivMod ==
    ASSUME NEW a \in Nat
    PROVE  /\ a \div SD_BLOCK_LEN \in Nat /\ a % SD_BLOCK_LEN \in Cell
           /\ a = (a \div SD_BLOCK_LEN) * SD_BLOCK_LEN + (a % SD_BLOCK_LEN)
BY Sizes DEF Cell

\* Whole blocks do not overlap.
LEMMA Apart ==
    ASSUME NEW b \in Int, NEW c \in Int, b < c
    PROVE  /\ b * SD_BLOCK_LEN \in Int /\ c * SD_BLOCK_LEN \in Int
           /\ b * SD_BLOCK_LEN + SD_BLOCK_LEN <= c * SD_BLOCK_LEN
<1>1. c - b >= 1
  OBVIOUS
<1>2. (c - b - 1) * SD_BLOCK_LEN >= 0
  BY <1>1, Sizes
<1>3. (c - b - 1) * SD_BLOCK_LEN = c * SD_BLOCK_LEN - b * SD_BLOCK_LEN - SD_BLOCK_LEN
  BY Sizes
<1>4. b * SD_BLOCK_LEN \in Int /\ c * SD_BLOCK_LEN \in Int
  BY Sizes
<1> QED BY <1>2, <1>3, <1>4, Sizes

LEMMA PlaceUnique ==
    ASSUME NEW b \in Nat, NEW k \in Cell
    PROVE  /\ b * SD_BLOCK_LEN + k \in Nat
           /\ (b * SD_BLOCK_LEN + k) \div SD_BLOCK_LEN = b
           /\ (b * SD_BLOCK_LEN + k) % SD_BLOCK_LEN = k
<1>1. b * SD_BLOCK_LEN \in Nat /\ b * SD_BLOCK_LEN + k \in Nat
  BY Sizes DEF Cell
<1> DEFINE a == b * SD_BLOCK_LEN + k
           c == a \div SD_BLOCK_LEN
<1>2. c \in Nat /\ a % SD_BLOCK_LEN \in Cell /\ a = c * SD_BLOCK_LEN + (a % SD_BLOCK_LEN)
  BY <1>1, DivMod
<1>3. c * SD_BLOCK_LEN \in Nat
  BY <1>2, Sizes
<1>4. ~(c < b)
  <2>1. c < b => c * SD_BLOCK_LEN + SD_BLOCK_LEN <= b * SD_BLOCK_LEN
    BY <1>2, Apart
  <2> HIDE DEF c
  <2> QED BY <1>1, <1>2, <1>3, <2>1, Sizes DEF Cell
<1>5. ~(b < c)
  <2>1. b < c => b * SD_BLOCK_LEN + SD_BLOCK_LEN <= c * SD_BLOCK_LEN
    BY <1>2, Apart
  <2> HIDE DEF c
  <2> QED BY <1>1, <1>2, <1>3, <2>1, Sizes DEF Cell
<1>6. c = b
  BY <1>2, <1>4, <1>5
<1> HIDE DEF c
<1>7. a % SD_BLOCK_LEN = k
  BY <1>1, <1>2, <1>6 DEF Cell
<1> QED BY <1>1, <1>6, <1>7 DEF c

LEMMA Places ==
    /\ \A a \in Address : /\ a \div SD_BLOCK_LEN \in 0 .. Blocks - 1
                          /\ a % SD_BLOCK_LEN \in Cell
                          /\ a = (a \div SD_BLOCK_LEN) * SD_BLOCK_LEN + (a % SD_BLOCK_LEN)
    /\ \A b \in 0 .. Blocks - 1 : \A k \in Cell :
          LET a == b * SD_BLOCK_LEN + k
          IN  a \in Address /\ a \div SD_BLOCK_LEN = b /\ a % SD_BLOCK_LEN = k
<1>0. Blocks * SD_BLOCK_LEN \in Nat
  BY Sizes
<1>1. ASSUME NEW a \in Address
      PROVE  /\ a \div SD_BLOCK_LEN \in 0 .. Blocks - 1 /\ a % SD_BLOCK_LEN \in Cell
             /\ a = (a \div SD_BLOCK_LEN) * SD_BLOCK_LEN + (a % SD_BLOCK_LEN)
  <2> DEFINE b == a \div SD_BLOCK_LEN
  <2>1. a \in Nat /\ a < Blocks * SD_BLOCK_LEN
    BY <1>0 DEF Address
  <2>2. b \in Nat /\ a % SD_BLOCK_LEN \in Cell /\ a = b * SD_BLOCK_LEN + (a % SD_BLOCK_LEN)
    BY <2>1, DivMod
  <2>3. b * SD_BLOCK_LEN \in Nat
    BY <2>2, Sizes
  <2>4. Blocks < b => Blocks * SD_BLOCK_LEN + SD_BLOCK_LEN <= b * SD_BLOCK_LEN
    BY <2>2, Apart, Sizes
  <2> HIDE DEF b
  <2>5. ~(Blocks < b) /\ b # Blocks
    BY <1>0, <2>1, <2>2, <2>3, <2>4, Sizes DEF Cell
  <2>6. b \in 0 .. Blocks - 1
    BY <2>2, <2>5, Sizes
  <2> QED BY <2>2, <2>6 DEF b
<1>2. ASSUME NEW b \in 0 .. Blocks - 1, NEW k \in Cell
      PROVE  /\ b * SD_BLOCK_LEN + k \in Address
             /\ (b * SD_BLOCK_LEN + k) \div SD_BLOCK_LEN = b
             /\ (b * SD_BLOCK_LEN + k) % SD_BLOCK_LEN = k
  <2>1. b \in Nat /\ b < Blocks
    BY Sizes
  <2>2. b * SD_BLOCK_LEN \in Int /\ b * SD_BLOCK_LEN + SD_BLOCK_LEN <= Blocks * SD_BLOCK_LEN
    BY <2>1, Apart, Sizes
  <2>3. b * SD_BLOCK_LEN + k \in Address
    BY <1>0, <2>1, <2>2, PlaceUnique, Sizes DEF Cell, Address
  <2> QED BY <2>1, <2>3, PlaceUnique
<1> QED BY <1>1, <1>2

\* Where the piece of a request that is not done lies.
LEMMA Geometry ==
    ASSUME Types, NEW p \in Proc, count(p) > 0
    PROVE  /\ req[p].pos \in Nat /\ req[p].count \in Nat /\ req[p].write \in BOOLEAN
           /\ done[p] \in Nat /\ pos(p) \in Nat /\ count(p) \in Nat
           /\ Block(p) \in 0 .. Blocks - 1 /\ pos_in_block(p) \in Cell
           /\ pos(p) = Block(p) * SD_BLOCK_LEN + pos_in_block(p)
           /\ bytes_to_do(p) \in 1 .. count(p)
           /\ pos_in_block(p) + bytes_to_do(p) <= SD_BLOCK_LEN
           /\ ~Small(p) => bytes_to_do(p) = SD_BLOCK_LEN /\ pos_in_block(p) = 0
<1>1. /\ req[p] \in Requests /\ done[p] \in Nat
      /\ req[p].pos \in Nat /\ req[p].count \in Nat /\ req[p].write \in BOOLEAN
      /\ req[p].pos + req[p].count <= Blocks * SD_BLOCK_LEN
  BY SdAssumption DEF Types
<1>2. pos(p) \in Nat /\ count(p) \in Nat /\ pos(p) + count(p) <= Blocks * SD_BLOCK_LEN
  BY <1>1 DEF pos, count
<1>3. pos(p) \in Address
  <2>1. Blocks * SD_BLOCK_LEN \in Nat
    BY Sizes
  <2> QED BY <1>2, <2>1 DEF Address
<1>4. /\ Block(p) \in 0 .. Blocks - 1 /\ pos_in_block(p) \in Cell
      /\ pos(p) = Block(p) * SD_BLOCK_LEN + pos_in_block(p)
  BY <1>3, Places DEF Block, pos_in_block
<1>5. /\ bytes_to_do(p) \in 1 .. count(p)
      /\ pos_in_block(p) + bytes_to_do(p) <= SD_BLOCK_LEN
      /\ ~Small(p) => bytes_to_do(p) = SD_BLOCK_LEN /\ pos_in_block(p) = 0
  <2>1. pos_in_block(p) \in Nat /\ pos_in_block(p) <= SD_BLOCK_LEN - 1
    BY <1>4, Sizes DEF Cell
  <2> QED BY <1>2, <2>1, Sizes DEF bytes_to_do, Small
<1> QED BY <1>1, <1>2, <1>4, <1>5

\* A process whose request and progress stay the same works on the same piece.
LEMMA Kept ==
    ASSUME NEW p, req'[p] = req[p], done'[p] = done[p]
    PROVE  /\ pos(p)' = pos(p) /\ count(p)' = count(p)
           /\ Block(p)' = Block(p) /\ pos_in_block(p)' = pos_in_block(p)
           /\ bytes_to_do(p)' = bytes_to_do(p) /\ Small(p)' = Small(p)
           /\ \A k : InPiece(p, k)' = InPiece(p, k)
BY DEF pos, count, Block, pos_in_block, bytes_to_do, Small, InPiece

-----------------------------------------------------------------------------
(* What one process does.                                                   *)

Step(p) ==
    \/ \E r \in Requests : Call(p, r)
    \/ Return(p) \/ SmallPiece(p) \/ WholePiece(p)
    \/ BeginRead(p) \/ EndRead(p) \/ BeginWrite(p) \/ EndWrite(p)
    \/ Free(p)

\* What the variables of p's call may become, while nothing else changes.
LEMMA Frame ==
    ASSUME Types, NEW p \in Proc, Step(p)
    PROVE  /\ UNCHANGED initVars
           /\ \E l \in {"out", "loop"} \cup Piece : at' = [at EXCEPT ![p] = l]
           /\ \A q \in Proc \ {p} : /\ at'[q] = at[q] /\ req'[q] = req[q]
                                    /\ done'[q] = done[q] /\ got'[q] = got[q]
                                    /\ block'[q] = block[q]
           /\ raced \subseteq raced' /\ mixed \ {p} \subseteq mixed'
<1>1. /\ at \in [Proc -> {"out", "loop"} \cup Piece] /\ req \in [Proc -> Requests]
      /\ done \in [Proc -> Nat] /\ got \in [Proc -> Seq(Byte \cup {Garbage})]
      /\ block \in [Proc -> [Cell -> Byte \cup {Garbage}]]
  BY DEF Types, TypeOK, Cell
<1>2. CASE \E r \in Requests : Call(p, r)
  BY <1>1, <1>2 DEF Call, Goto, initVars
<1>3. CASE Return(p) \/ SmallPiece(p) \/ WholePiece(p)
  BY <1>1, <1>3 DEF Return, SmallPiece, WholePiece, Goto, Piece, initVars, ghostVars
<1>4. CASE BeginRead(p) \/ BeginWrite(p)
  BY <1>1, <1>4 DEF BeginRead, BeginWrite, Assert, Goto, Piece, InAccess, initVars
<1>5. CASE EndRead(p)
  BY <1>1, <1>5
     DEF EndRead, EndReadSmall, EndReadWhole, Advanced, Goto, Piece, initVars
<1>6. CASE EndWrite(p)
  BY <1>1, <1>6 DEF EndWrite, Advanced, Goto, Piece, initVars
<1>7. CASE Free(p)
  BY <1>1, <1>7 DEF Free, Advanced, Goto, initVars
<1> QED BY <1>2, <1>3, <1>4, <1>5, <1>6, <1>7 DEF Step

\* Where p is after the step, and that a piece is not changed on its way.
LEMMA Moves ==
    ASSUME Types, NEW p \in Proc, Step(p)
    PROVE  /\ at'[p] \in Piece => req'[p] = req[p] /\ done'[p] = done[p]
           /\ at'[p] \in Piece => at[p] \in Piece \/ SmallPiece(p) \/ WholePiece(p)
           /\ at'[p] \in InAccess => BeginRead(p) \/ BeginWrite(p)
           /\ at'[p] = "write" => EndRead(p) \/ WholePiece(p)
           /\ at'[p] = "free" => EndRead(p) \/ EndWrite(p)
           /\ at'[p] = "read" => SmallPiece(p) \/ WholePiece(p)
           /\ at[p] = "out" => at'[p] = "loop" /\ boot = "up"
<1>1. at \in [Proc -> {"out", "loop"} \cup Piece]
  BY DEF Types, TypeOK
<1>2. CASE \E r \in Requests : Call(p, r)
  BY <1>1, <1>2 DEF Call, Goto, Piece, InAccess
<1>3. CASE Return(p) \/ SmallPiece(p) \/ WholePiece(p)
  BY <1>1, <1>3 DEF Return, SmallPiece, WholePiece, Goto, Piece, InAccess
<1>4. CASE BeginRead(p) \/ BeginWrite(p)
  BY <1>1, <1>4 DEF BeginRead, BeginWrite, Assert, Goto, Piece, InAccess
<1>5. CASE EndRead(p)
  BY <1>1, <1>5
     DEF EndRead, EndReadSmall, EndReadWhole, Goto, Piece, InAccess
<1>6. CASE EndWrite(p)
  BY <1>1, <1>6 DEF EndWrite, Goto, Piece, InAccess
<1>7. CASE Free(p)
  BY <1>1, <1>7 DEF Free, Goto, Piece, InAccess
<1> QED BY <1>2, <1>3, <1>4, <1>5, <1>6, <1>7 DEF Step

\* The bytes that go to and fro.
LEMMA DataTypes ==
    ASSUME Types, NEW p \in Proc, count(p) > 0
    PROVE  /\ NoData \in [Cell -> Byte \cup {Garbage}]
           /\ Mine(p) \in [Cell -> Byte \cup {Garbage}]
           /\ Addressed(p) \in Nat
           /\ Serves(p) => OnCard(p) \in [Cell -> Byte \cup {Garbage}]
           /\ \A data \in [Cell -> Byte \cup {Garbage}] :
                 /\ Merged(p, data) \in [Cell -> Byte \cup {Garbage}]
                 /\ Given(p, data) \in Seq(Byte \cup {Garbage})
                 /\ Len(Given(p, data)) = bytes_to_do(p)
<1>1. /\ Block(p) \in 0 .. Blocks - 1 /\ bytes_to_do(p) \in Nat /\ pos_in_block(p) \in Nat
      /\ pos_in_block(p) + bytes_to_do(p) <= SD_BLOCK_LEN
  BY Geometry, Sizes DEF Cell
<1>2. NoData \in [Cell -> Byte \cup {Garbage}]
  BY DEF NoData, Cell
<1>3. Mine(p) \in [Cell -> Byte \cup {Garbage}]
  <2>1. \A k \in Cell : Block(p) * SD_BLOCK_LEN + k \in Address
    BY <1>1, Places
  <2> QED BY <2>1 DEF Mine, Byte, Cell
<1>4. Addressed(p) \in Nat
  BY <1>1, Sizes DEF Addressed
<1>5. ASSUME Serves(p) PROVE OnCard(p) \in [Cell -> Byte \cup {Garbage}]
  <2>1. Addressed(p) \in 0 .. Blocks - 1
    BY <1>4, <1>5, Sizes DEF Serves
  <2>2. \A k \in Cell : Addressed(p) * SD_BLOCK_LEN + k \in Address
    BY <2>1, Places
  <2> QED BY <2>2 DEF OnCard, Cell, Types, TypeOK
<1>6. ASSUME NEW data \in [Cell -> Byte \cup {Garbage}]
      PROVE  /\ Merged(p, data) \in [Cell -> Byte \cup {Garbage}]
             /\ Given(p, data) \in Seq(Byte \cup {Garbage})
             /\ Len(Given(p, data)) = bytes_to_do(p)
  <2>1. Merged(p, data) \in [Cell -> Byte \cup {Garbage}]
    BY <1>3 DEF Merged, Cell
  <2>2. \A k \in 1 .. bytes_to_do(p) : pos_in_block(p) + k - 1 \in Cell
    BY <1>1, Sizes DEF Cell
  <2>3. Given(p, data) \in [1 .. bytes_to_do(p) -> Byte \cup {Garbage}]
    BY <2>2 DEF Given
  <2>4. Given(p, data) \in Seq(Byte \cup {Garbage})
    BY <1>1, <2>3, SeqDef
  <2>5. Len(Given(p, data)) = bytes_to_do(p)
    BY <1>1, <2>3, <2>4, LenProperties
  <2> QED BY <2>1, <2>4, <2>5
<1> QED BY <1>2, <1>3, <1>4, <1>5, <1>6

\* A card that can be used serves every block, unless accesses to it mix.
LEMMA ServesAll ==
    ASSUME Types, NEW p \in Proc, count(p) > 0, CardUsable
    PROVE  Serves(p) /\ Addressed(p) = Block(p)
<1>1. Block(p) \in 0 .. Blocks - 1
  BY Geometry
<1>2. ready /\ Addressed(p) = Block(p)
  BY DEF CardUsable, Addressed
<1> QED BY <1>1, <1>2, Sizes DEF Serves

LEMMA ReadData ==
    ASSUME Types, PieceInv, NEW p \in Proc, EndRead(p)
    PROVE  /\ count(p) > 0
           /\ \E data \in [Cell -> Byte \cup {Garbage}] :
                /\ EndReadSmall(p, data) \/ EndReadWhole(p, data)
                /\ CardUsable /\ p \notin mixed => data = OnCard(p)
<1>1. at[p] = "reading" /\ count(p) > 0
  BY DEF EndRead, PieceInv, Piece, InAccess
<1>2. PICK data \in (IF Serves(p) THEN {OnCard(p)} ELSE {})
                     \cup (IF ~Serves(p) \/ p \in mixed THEN {NoData} ELSE {}) :
         EndReadSmall(p, data) \/ EndReadWhole(p, data)
  BY DEF EndRead
<1>3. \/ data = OnCard(p) /\ Serves(p)
      \/ data = NoData /\ (~Serves(p) \/ p \in mixed)
  BY <1>2
<1>4. data \in [Cell -> Byte \cup {Garbage}]
  BY <1>1, <1>3, DataTypes
<1>5. CardUsable /\ p \notin mixed => data = OnCard(p)
  BY <1>1, <1>3, ServesAll
<1> QED BY <1>1, <1>2, <1>4, <1>5

-----------------------------------------------------------------------------
(* Types.                                                                   *)

LEMMA InitTypes == Init => Types
<1> SUFFICES ASSUME Init PROVE Types
  OBVIOUS
<1>1. PICK r \in Requests : req \in [Proc -> {r}]
  BY SdAssumption DEF Init
<1>2. /\ req \in [Proc -> Requests] /\ \A p \in Proc : req[p] \in Requests
      /\ \A p \in Proc : req[p].count \in Nat
  BY <1>1, SdAssumption
<1>3. /\ done \in [Proc -> Nat] /\ \A p \in Proc : done[p] = 0
      /\ got \in [Proc -> Seq(Byte \cup {Garbage})] /\ \A p \in Proc : got[p] = <<>>
  BY DEF Init
<1>4. /\ NoData \in [Cell -> Byte \cup {Garbage}]
      /\ block \in [Proc -> [Cell -> Byte \cup {Garbage}]]
  BY DEF Init, NoData, Cell
<1>5. disk \in [Address -> Byte \cup {Garbage}] /\ written \in [Address -> {0} \cup Proc]
  BY DEF Init, Byte
<1>6. \A p \in Proc : /\ req[p] \in Requests /\ done[p] \in 0 .. req[p].count
                      /\ Len(got[p]) = IF req[p].write THEN 0 ELSE done[p]
  <2>1. Len(<<>>) = 0
    OBVIOUS
  <2> QED BY <1>2, <1>3, <2>1
<1>7. /\ boot = "go_idle" /\ card \in Cards /\ ready = FALSE
      /\ init_attempts = 0 /\ send_op_cond_result = 255 /\ init_result = -1
      /\ calls = 0 /\ at = [p \in Proc |-> "out"] /\ mixed = {} /\ raced = {}
  BY DEF Init, NoAnswer
<1>8. /\ boot \in {"go_idle", "if_cond", "app", "op_cond", "check", "ocr", "done", "up"}
      /\ card \in Cards /\ ready \in BOOLEAN
      /\ init_attempts \in 0 .. INIT_ATTEMPTS
      /\ send_op_cond_result \in Nat /\ init_result \in {-1, 0}
      /\ calls \in 0 .. MaxCalls
      /\ at \in [Proc -> {"out", "loop"} \cup Piece]
      /\ mixed \subseteq Proc /\ raced \subseteq 0 .. Blocks - 1
  <2>1. MaxCalls \in Nat /\ INIT_ATTEMPTS \in Nat
    BY SdAssumption
  <2>2. init_attempts \in 0 .. INIT_ATTEMPTS /\ calls \in 0 .. MaxCalls
    BY <1>7, <2>1
  <2>3. send_op_cond_result \in Nat /\ init_result \in {-1, 0}
    BY <1>7
  <2> QED BY <1>7, <2>2, <2>3
<1> QED BY <1>2, <1>3, <1>4, <1>5, <1>6, <1>8 DEF Types, TypeOK, Cell

\* What the initialisation does to its own variables, and that it leaves the
\* others alone.
LEMMA BootTypes ==
    ASSUME Types, AttemptInv, dev_sd_init
    PROVE  Types' /\ AttemptInv' /\ UNCHANGED <<card, accessVars>> /\ boot # "up"
<1>0. /\ init_attempts \in Nat /\ init_attempts <= INIT_ATTEMPTS
      /\ INIT_ATTEMPTS \in Nat \ {0} /\ send_op_cond_result \in Nat /\ ready \in BOOLEAN
      /\ init_result \in {-1, 0}
  BY SdAssumption DEF Types, TypeOK
<1>1. /\ boot' \in {"go_idle", "if_cond", "app", "op_cond", "check", "ocr", "done", "up"}
      /\ ready' \in BOOLEAN /\ init_attempts' \in 0 .. INIT_ATTEMPTS
      /\ send_op_cond_result' \in Nat /\ init_result' \in {-1, 0}
      /\ AttemptInv' /\ UNCHANGED <<card, accessVars>> /\ boot # "up"
  <2>1. CASE GoIdle \/ IfCond
    BY <1>0, <2>1 DEF GoIdle, IfCond, Answered, GoesOn, Done, AttemptInv
  <2>2. CASE App
    <3>1. CASE NextAttempt
      BY <1>0, <2>2, <3>1 DEF App, Answered, NextAttempt, AttemptMade, AttemptInv
    <3>2. CASE boot' = "op_cond" /\ UNCHANGED init_attempts
      BY <1>0, <2>2, <3>2 DEF App, Answered, AttemptInv
    <3> QED BY <2>2, <3>1, <3>2 DEF App
  <2>3. CASE OpCond
    <3>1. CASE NextAttempt
      BY <1>0, <2>3, <3>1 DEF OpCond, Answered, NextAttempt, AttemptMade, AttemptInv
    <3>2. CASE boot' = "check" /\ UNCHANGED init_attempts /\ ready' /\ send_op_cond_result' = 0
      BY <1>0, <2>3, <3>2 DEF OpCond, Answered, AttemptInv
    <3> QED BY <2>3, <3>1, <3>2 DEF OpCond
  <2>4. CASE Check \/ Ocr
    BY <1>0, <2>4 DEF Check, Ocr, Answered, Done, NotReady, AttemptInv
  <2>5. CASE Register
    BY <1>0, <2>5 DEF Register, NoAnswer, AttemptInv
  <2> QED BY <2>1, <2>2, <2>3, <2>4, <2>5 DEF dev_sd_init
<1> QED BY <1>1 DEF Types, TypeOK, accessVars

-----------------------------------------------------------------------------
(* How a call goes on.                                                      *)

\* What is read holds, where no block is raced on, what was last written there.
LEMMA ReadsWritten ==
    ASSUME SdInv, NEW p \in Proc, EndRead(p)
    PROVE  /\ count(p) > 0
           /\ \E data \in [Cell -> Byte \cup {Garbage}] :
                /\ EndReadSmall(p, data) \/ EndReadWhole(p, data)
                /\ CardUsable /\ Block(p) \notin raced =>
                     \A k \in Cell : LET a == Block(p) * SD_BLOCK_LEN + k
                                     IN  data[k] = <<written[a], a>>
<1>1. count(p) > 0
  BY ReadData DEF SdInv
<1>2. PICK data \in [Cell -> Byte \cup {Garbage}] :
        /\ EndReadSmall(p, data) \/ EndReadWhole(p, data)
        /\ CardUsable /\ p \notin mixed => data = OnCard(p)
  BY ReadData DEF SdInv
<1>3. ASSUME CardUsable, Block(p) \notin raced, NEW k \in Cell
      PROVE  LET a == Block(p) * SD_BLOCK_LEN + k IN data[k] = <<written[a], a>>
  <2> DEFINE a == Block(p) * SD_BLOCK_LEN + k
  <2>1. p \notin mixed
    BY <1>3 DEF SdInv, MixedInv
  <2>2. data = OnCard(p) /\ Addressed(p) = Block(p)
    BY <1>1, <1>2, <1>3, <2>1, ServesAll DEF SdInv
  <2>3. data[k] = disk[a]
    BY <2>2 DEF OnCard, Cell
  <2>4. Block(p) \in 0 .. Blocks - 1
    BY <1>1, Geometry DEF SdInv
  <2>5. a \in Address /\ a \div SD_BLOCK_LEN = Block(p)
    BY <2>4, Places
  <2>6. disk[a] = <<written[a], a>>
    BY <1>3, <2>5 DEF SdInv, DiskIsRight
  <2> QED BY <2>3, <2>6
<1> QED BY <1>1, <1>2, <1>3

\* The bytes at p's piece carry the addresses they were asked for.
Fits(p, data) ==
    CardUsable /\ Block(p) \notin raced =>
        \A k \in Cell : data[k][2] = Block(p) * SD_BLOCK_LEN + k

Gives(p) ==
    \E data \in [Cell -> Byte \cup {Garbage}] :
        Fits(p, data) /\ got' = [got EXCEPT ![p] = @ \o Given(p, data)]

LEMMA Progress ==
    ASSUME SdInv, NEW p \in Proc, Step(p)
    PROVE  \/ UNCHANGED <<req, done, got>>
           \/ /\ \E r \in Requests : req' = [req EXCEPT ![p] = r]
              /\ done' = [done EXCEPT ![p] = 0] /\ got' = [got EXCEPT ![p] = <<>>]
              /\ at'[p] = "loop"
           \/ /\ count(p) > 0 /\ at'[p] = "loop" /\ UNCHANGED req /\ done' = Advanced(p)
              /\ IF req[p].write THEN UNCHANGED got ELSE Gives(p)
<1>0. /\ at \in [Proc -> {"out", "loop"} \cup Piece]
      /\ block \in [Proc -> [Cell -> Byte \cup {Garbage}]]
  BY DEF SdInv, Types, TypeOK, Cell
<1>1. CASE \E r \in Requests : Call(p, r)
  BY <1>0, <1>1 DEF Call, Goto
<1>2. CASE Return(p) \/ SmallPiece(p) \/ WholePiece(p) \/ BeginRead(p) \/ BeginWrite(p)
  BY <1>2
     DEF Return, SmallPiece, WholePiece, BeginRead, BeginWrite, Assert, ghostVars
<1>3. CASE EndRead(p)
  <2>1. count(p) > 0
    BY <1>3, ReadsWritten
  <2>2. PICK data \in [Cell -> Byte \cup {Garbage}] :
          /\ EndReadSmall(p, data) \/ EndReadWhole(p, data)
          /\ CardUsable /\ Block(p) \notin raced =>
               \A k \in Cell : LET a == Block(p) * SD_BLOCK_LEN + k
                               IN  data[k] = <<written[a], a>>
    BY <1>3, ReadsWritten
  <2>3. CASE EndReadSmall(p, data)
    BY <1>3, <2>3 DEF EndRead, EndReadSmall
  <2>4. CASE EndReadWhole(p, data)
    <3>1. ~req[p].write
      BY <1>3, <2>4 DEF EndRead, EndReadWhole, SdInv, PieceInv
    <3>2. Fits(p, data)
      BY <2>2 DEF Fits
    <3> QED BY <1>0, <1>3, <2>1, <2>4, <3>1, <3>2 DEF EndRead, EndReadWhole, Goto, Gives
  <2> QED BY <2>2, <2>3, <2>4
<1>4. CASE EndWrite(p)
  <2>1. count(p) > 0 /\ req[p].write
    BY <1>4 DEF EndWrite, SdInv, PieceInv, Piece, InAccess
  <2> QED BY <1>0, <1>4, <2>1 DEF EndWrite, Goto
<1>5. CASE Free(p)
  <2>1. count(p) > 0 /\ Small(p) /\ block[p] \in [Cell -> Byte \cup {Garbage}]
    BY <1>0, <1>5 DEF Free, SdInv, PieceInv, Piece, InAccess
  <2>2. ASSUME ~req[p].write PROVE Gives(p)
    <3>1. ASSUME CardUsable, Block(p) \notin raced, NEW k \in Cell
          PROVE  block[p][k][2] = Block(p) * SD_BLOCK_LEN + k
      <4> DEFINE a == Block(p) * SD_BLOCK_LEN + k
      <4>1. block[p][k] = <<written[a], a>>
        BY <1>5, <2>1, <2>2, <3>1 DEF Free, SdInv, BufferInv
      <4> QED BY <4>1
    <3> QED BY <1>5, <2>1, <2>2, <3>1 DEF Free, Gives, Fits
  <2> QED BY <1>0, <1>5, <2>1, <2>2 DEF Free, Goto
<1> QED BY <1>1, <1>2, <1>3, <1>4, <1>5 DEF Step

LEMMA CallTypes ==
    ASSUME SdInv, NEW p \in Proc, Step(p)
    PROVE  /\ req' \in [Proc -> Requests] /\ done' \in [Proc -> Nat]
           /\ got' \in [Proc -> Seq(Byte \cup {Garbage})]
           /\ \A q \in Proc : /\ req'[q] \in Requests /\ done'[q] \in 0 .. req'[q].count
                              /\ Len(got'[q]) = IF req'[q].write THEN 0 ELSE done'[q]
<1>0. /\ req \in [Proc -> Requests] /\ done \in [Proc -> Nat]
      /\ got \in [Proc -> Seq(Byte \cup {Garbage})]
      /\ \A q \in Proc : /\ req[q] \in Requests /\ done[q] \in 0 .. req[q].count
                         /\ Len(got[q]) = IF req[q].write THEN 0 ELSE done[q]
      /\ \A r \in Requests : r.count \in Nat
  BY SdAssumption DEF SdInv, Types, TypeOK
<1>1. CASE UNCHANGED <<req, done, got>>
  BY <1>0, <1>1
<1>2. CASE /\ \E r \in Requests : req' = [req EXCEPT ![p] = r]
           /\ done' = [done EXCEPT ![p] = 0] /\ got' = [got EXCEPT ![p] = <<>>]
  <2>1. <<>> \in Seq(Byte \cup {Garbage}) /\ Len(<<>>) = 0
    BY EmptySeq
  <2> QED BY <1>0, <1>2, <2>1
<1>3. CASE /\ count(p) > 0 /\ UNCHANGED req /\ done' = Advanced(p)
           /\ IF req[p].write THEN UNCHANGED got ELSE Gives(p)
  <2>1. /\ bytes_to_do(p) \in 1 .. count(p) /\ count(p) = req[p].count - done[p]
        /\ done[p] \in Nat /\ req[p].count \in Nat
    BY <1>0, <1>3, Geometry DEF count, SdInv
  <2>2. /\ done' \in [Proc -> Nat] /\ done'[p] = done[p] + bytes_to_do(p)
        /\ done'[p] \in 0 .. req[p].count
        /\ \A q \in Proc \ {p} : done'[q] = done[q]
    BY <1>0, <1>3, <2>1 DEF Advanced
  <2>3. CASE req[p].write
    BY <1>0, <1>3, <2>2, <2>3
  <2>4. CASE ~req[p].write
    <3>1. PICK data \in [Cell -> Byte \cup {Garbage}] :
            got' = [got EXCEPT ![p] = @ \o Given(p, data)]
      BY <1>3, <2>4 DEF Gives
    <3>2. /\ Given(p, data) \in Seq(Byte \cup {Garbage})
          /\ Len(Given(p, data)) = bytes_to_do(p)
      BY <1>3, DataTypes DEF SdInv
    <3>3. /\ got[p] \o Given(p, data) \in Seq(Byte \cup {Garbage})
          /\ Len(got[p] \o Given(p, data)) = Len(got[p]) + Len(Given(p, data))
      <4>1. got[p] \in Seq(Byte \cup {Garbage})
        BY <1>0
      <4> QED BY <3>2, <4>1, ConcatProperties
    <3>4. /\ got' \in [Proc -> Seq(Byte \cup {Garbage})]
          /\ got'[p] = got[p] \o Given(p, data)
          /\ \A q \in Proc \ {p} : got'[q] = got[q]
      BY <1>0, <3>1, <3>3
    <3>5. Len(got'[p]) = done'[p]
      BY <1>0, <2>2, <2>4, <3>2, <3>3, <3>4
    <3> QED BY <1>0, <1>3, <2>2, <2>4, <3>4, <3>5
  <2> QED BY <2>3, <2>4
<1> QED BY <1>1, <1>2, <1>3, Progress

LEMMA StepTypes ==
    ASSUME SdInv, NEW p \in Proc, Step(p)
    PROVE  Types'
<1>0. /\ disk \in [Address -> Byte \cup {Garbage}] /\ written \in [Address -> {0} \cup Proc]
      /\ block \in [Proc -> [Cell -> Byte \cup {Garbage}]]
      /\ mixed \subseteq Proc /\ raced \subseteq 0 .. Blocks - 1
      /\ calls \in 0 .. MaxCalls /\ MaxCalls \in Nat
      /\ at \in [Proc -> {"out", "loop"} \cup Piece]
  BY SdAssumption DEF SdInv, Types, TypeOK, Cell
<1>1. at' \in [Proc -> {"out", "loop"} \cup Piece] /\ UNCHANGED initVars
  BY <1>0, Frame DEF SdInv
<1>2. /\ disk' \in [Address -> Byte \cup {Garbage}] /\ written' \in [Address -> {0} \cup Proc]
      /\ block' \in [Proc -> [Cell -> Byte \cup {Garbage}]]
      /\ mixed' \subseteq Proc /\ raced' \subseteq 0 .. Blocks - 1
      /\ calls' \in 0 .. MaxCalls
  <2>1. CASE \E r \in Requests : Call(p, r)
    BY <1>0, <2>1 DEF Call
  <2>2. CASE Return(p) \/ SmallPiece(p) \/ WholePiece(p)
    BY <1>0, <2>2 DEF Return, SmallPiece, WholePiece, ghostVars
  <2>3. CASE BeginRead(p) \/ BeginWrite(p)
    <3>1. \A q \in Races(p) \cup {p} : Block(q) \in 0 .. Blocks - 1
      <4>1. \A q \in Races(p) \cup {p} : q \in Proc /\ count(q) > 0
        BY <2>3 DEF Races, BeginRead, BeginWrite, SdInv, PieceInv, Piece, InAccess
      <4> QED BY <4>1, Geometry DEF SdInv
    <3>2. Assert(p)
      BY <2>3 DEF BeginRead, BeginWrite
    <3>3. UNION {{Block(p), Block(q)} : q \in Races(p)} \subseteq 0 .. Blocks - 1
      BY <3>1
    <3>4. raced' \subseteq 0 .. Blocks - 1
      BY <1>0, <3>2, <3>3 DEF Assert
    <3>5. mixed' \subseteq Proc
      BY <1>0, <3>2 DEF Assert, Others
    <3> QED BY <1>0, <3>2, <3>4, <3>5 DEF Assert
  <2>4. CASE EndRead(p)
    <3>1. count(p) > 0
      BY <2>4, ReadsWritten
    <3>2. PICK data \in [Cell -> Byte \cup {Garbage}] :
            EndReadSmall(p, data) \/ EndReadWhole(p, data)
      BY <2>4, ReadsWritten
    <3>3. Merged(p, data) \in [Cell -> Byte \cup {Garbage}]
      BY <3>1, DataTypes DEF SdInv
    <3>4. block' \in [Proc -> [Cell -> Byte \cup {Garbage}]]
      BY <1>0, <3>2, <3>3 DEF EndReadSmall, EndReadWhole
    <3> QED BY <1>0, <2>4, <3>4 DEF EndRead
  <2>5. CASE EndWrite(p)
    <3>1. count(p) > 0
      BY <2>5 DEF EndWrite, SdInv, PieceInv, Piece, InAccess
    <3>2. Sent(p) \in [Cell -> Byte \cup {Garbage}]
      BY <1>0, <3>1, DataTypes DEF Sent, SdInv
    <3>3. \A a \in Address : OnDisk(p, a) \in Byte \cup {Garbage}
      BY <1>0, <3>2, Places DEF OnDisk
    <3>4. disk' \in [Address -> Byte \cup {Garbage}]
      BY <1>0, <2>5, <3>3 DEF EndWrite
    <3>5. written' \in [Address -> {0} \cup Proc]
      BY <1>0, <2>5 DEF EndWrite
    <3> QED BY <1>0, <2>5, <3>4, <3>5 DEF EndWrite
  <2>6. CASE Free(p)
    <3>1. NoData \in [Cell -> Byte \cup {Garbage}]
      BY DEF NoData, Cell
    <3>2. block' \in [Proc -> [Cell -> Byte \cup {Garbage}]]
      BY <1>0, <2>6, <3>1 DEF Free
    <3> QED BY <1>0, <2>6, <3>2 DEF Free
  <2> QED BY <2>1, <2>2, <2>3, <2>4, <2>5, <2>6 DEF Step
<1>3. /\ req' \in [Proc -> Requests] /\ done' \in [Proc -> Nat]
      /\ got' \in [Proc -> Seq(Byte \cup {Garbage})]
      /\ \A q \in Proc : /\ req'[q] \in Requests /\ done'[q] \in 0 .. req'[q].count
                         /\ Len(got'[q]) = IF req'[q].write THEN 0 ELSE done'[q]
  BY CallTypes
<1>4. /\ boot' \in {"go_idle", "if_cond", "app", "op_cond", "check", "ocr", "done", "up"}
      /\ card' \in Cards /\ ready' \in BOOLEAN
      /\ init_attempts' \in 0 .. INIT_ATTEMPTS
      /\ send_op_cond_result' \in Nat /\ init_result' \in {-1, 0}
  BY <1>1 DEF SdInv, Types, TypeOK, initVars
<1> QED BY <1>1, <1>2, <1>3, <1>4 DEF Types, TypeOK, Cell

-----------------------------------------------------------------------------
(* Who is where.                                                            *)

LEMMA StepPiece ==
    ASSUME SdInv, NEW p \in Proc, Step(p)
    PROVE  PieceInv'
<1>0. at \in [Proc -> {"out", "loop"} \cup Piece]
  BY DEF SdInv, Types, TypeOK
<1>1. SUFFICES ASSUME NEW q \in Proc
               PROVE  (/\ at[q] \in Piece => count(q) > 0
                       /\ at[q] \in {"read", "reading"} /\ ~Small(q) => ~req[q].write
                       /\ at[q] \in {"write", "writing"} => req[q].write
                       /\ at[q] = "free" => Small(q))'
  BY DEF PieceInv
<1>i. /\ at[q] \in Piece => count(q) > 0
      /\ at[q] \in {"read", "reading"} /\ ~Small(q) => ~req[q].write
      /\ at[q] \in {"write", "writing"} => req[q].write
      /\ at[q] = "free" => Small(q)
  BY DEF SdInv, PieceInv
<1>2. CASE at'[q] \notin Piece
  BY <1>2 DEF Piece, InAccess
<1>3. CASE q # p
  <2>1. at'[q] = at[q] /\ req'[q] = req[q] /\ done'[q] = done[q]
    BY <1>3, Frame DEF SdInv
  <2> QED BY <1>i, <2>1, Kept
<1>4. CASE q = p /\ at'[p] \in Piece
  <2>1. req'[p] = req[p] /\ done'[p] = done[p]
    BY <1>4, Moves DEF SdInv
  <2>2. count(p)' = count(p) /\ Small(p)' = Small(p)
    BY <2>1, Kept
  <2>3. /\ count(p) > 0
        /\ at'[p] \in {"read", "reading"} /\ ~Small(p) => ~req[p].write
        /\ at'[p] \in {"write", "writing"} => req[p].write
        /\ at'[p] = "free" => Small(p)
    <3>1. CASE SmallPiece(p) \/ WholePiece(p)
      BY <1>0, <3>1 DEF SmallPiece, WholePiece, Goto
    <3>2. CASE BeginRead(p) \/ BeginWrite(p)
      BY <1>0, <1>4, <1>i, <3>2
         DEF BeginRead, BeginWrite, Assert, Goto, Piece, InAccess
    <3>3. CASE EndRead(p)
      BY <1>0, <1>4, <1>i, <3>3
         DEF EndRead, EndReadSmall, EndReadWhole, Goto, Piece, InAccess
    <3>4. CASE EndWrite(p)
      BY <1>0, <1>4, <1>i, <3>4 DEF EndWrite, Goto, Piece, InAccess
    <3>5. ~(\E r \in Requests : Call(p, r)) /\ ~Return(p) /\ ~Free(p)
      BY <1>0, <1>4 DEF Call, Return, Free, Goto, Piece, InAccess
    <3> QED BY <3>1, <3>2, <3>3, <3>4, <3>5 DEF Step
  <2> QED BY <1>4, <2>1, <2>2, <2>3
<1> QED BY <1>2, <1>3, <1>4

\* A buffer is given out only when no other process has it.
LEMMA BufferAlone ==
    ASSUME SdInv, NEW p \in Proc, SmallPiece(p), NEW q \in Proc, at[q] \in Piece
    PROVE  ~Small(q)
<1>1. Cardinality(Holders) < 1
  BY OneBuffer DEF SmallPiece, BufferLeft
<1>2. IsFiniteSet(Holders)
  <2>1. IsFiniteSet(Proc) /\ Holders \in SUBSET Proc
    BY SdAssumption DEF Holders
  <2> QED BY <2>1, FS_Subset
<1>3. Holders = {}
  <2>1. Cardinality(Holders) \in Nat
    BY <1>2, FS_CardinalityType
  <2>2. Cardinality(Holders) = 0
    BY <1>1, <2>1
  <2> QED BY <1>2, <2>2, FS_EmptySet
<1> QED BY <1>3 DEF Holders

LEMMA StepHolder ==
    ASSUME SdInv, NEW p \in Proc, Step(p)
    PROVE  OneHolder'
<1>1. SUFFICES ASSUME NEW q \in Proc, NEW r \in Proc, q # r,
                      at'[q] \in Piece, at'[r] \in Piece, Small(q)', Small(r)'
               PROVE  FALSE
  BY DEF OneHolder
<1>2. \A s \in {q, r} : Small(s)
  <2>1. \A s \in {q, r} : req'[s] = req[s] /\ done'[s] = done[s]
    BY <1>1, Frame, Moves DEF SdInv
  <2>2. Small(q)' = Small(q) /\ Small(r)' = Small(r)
    BY <2>1, Kept
  <2> QED BY <1>1, <2>2
<1>3. \A s \in {q, r} : at[s] \in Piece \/ (s = p /\ SmallPiece(p))
  <2>1. ~WholePiece(p) \/ p \notin {q, r}
    BY <1>2 DEF WholePiece
  <2> QED BY <1>1, <2>1, Frame, Moves DEF SdInv
<1>4. CASE \A s \in {q, r} : at[s] \in Piece
  BY <1>1, <1>2, <1>4 DEF SdInv, OneHolder
<1>5. CASE p \in {q, r} /\ SmallPiece(p)
  BY <1>1, <1>2, <1>3, <1>5, BufferAlone
<1> QED BY <1>3, <1>4, <1>5

-----------------------------------------------------------------------------
(* Accesses that overlap.                                                   *)

\* The blocks of p and of whoever it overlaps are raced on from then on.
LEMMA Overlaps ==
    ASSUME SdInv, NEW p \in Proc, BeginRead(p) \/ BeginWrite(p),
           NEW q \in Proc, q # p
    PROVE  /\ at[q] \in InAccess => Block(p) \in raced' /\ Block(q) \in raced'
           /\ at[q] \in Piece /\ Small(q) /\ ~Small(p) /\ Block(q) = Block(p) =>
                Block(p) \in raced' /\ Block(q) \in raced'
<1>1. Assert(p) /\ at[p] \in Piece
  BY DEF BeginRead, BeginWrite, Piece
<1>2. q \in Races(p) => Block(p) \in raced' /\ Block(q) \in raced'
  BY <1>1 DEF Assert
<1>3. at[q] \in InAccess => ~(Small(p) /\ Small(q))
  BY <1>1 DEF SdInv, OneHolder, Piece
<1>4. at[q] \in InAccess => q \in Races(p)
  BY <1>3 DEF Races
<1>5. at[q] \in Piece /\ Small(q) /\ ~Small(p) /\ Block(q) = Block(p) => q \in Races(p)
  BY DEF Races
<1> QED BY <1>2, <1>4, <1>5

LEMMA StepMixed ==
    ASSUME SdInv, NEW p \in Proc, Step(p)
    PROVE  MixedInv'
<1>0. /\ at \in [Proc -> {"out", "loop"} \cup Piece] /\ mixed \subseteq Proc
      /\ \A q \in mixed : at[q] \in InAccess /\ Block(q) \in raced
  BY DEF SdInv, Types, TypeOK, MixedInv
<1>1. ASSUME NEW q \in Proc, q # p, q \in mixed
      PROVE  (at[q] \in InAccess /\ Block(q) \in raced)'
  BY <1>0, <1>1, Frame, Kept DEF SdInv
<1>2. CASE BeginRead(p) \/ BeginWrite(p)
  <2>1. Assert(p) /\ at'[p] \in InAccess
    BY <1>0, <1>2 DEF BeginRead, BeginWrite, Goto, InAccess
  <2>2. ASSUME NEW q \in Others(p)
        PROVE  /\ (at[q] \in InAccess /\ Block(q) \in raced)'
               /\ Block(p) \in raced'
    <3>1. q \in Proc /\ q # p /\ at[q] \in InAccess
      BY DEF Others
    <3>2. Block(p) \in raced' /\ Block(q) \in raced'
      BY <1>2, <3>1, Overlaps
    <3>3. at'[q] = at[q] /\ req'[q] = req[q] /\ done'[q] = done[q]
      BY <3>1, Frame DEF SdInv
    <3>4. Block(q)' = Block(q)
      BY <3>3, Kept
    <3> QED BY <3>1, <3>2, <3>3, <3>4
  <2>3. Block(p)' = Block(p)
    <3>1. req'[p] = req[p] /\ done'[p] = done[p]
      BY <2>1 DEF Assert
    <3> QED BY <3>1, Kept
  <2>4. ASSUME NEW q \in mixed'
        PROVE  (at[q] \in InAccess /\ Block(q) \in raced)'
    <3>1. CASE q = p
      <4>1. Others(p) # {}
        BY <2>1, <2>4, <3>1 DEF Assert
      <4>2. Block(p) \in raced'
        BY <2>2, <4>1
      <4> QED BY <2>1, <2>3, <3>1, <4>2
    <3>2. CASE q # p
      <4>1. q \in mixed \/ q \in Others(p)
        BY <2>1, <2>4, <3>2 DEF Assert
      <4> QED BY <1>0, <1>1, <2>2, <3>2, <4>1
    <3> QED BY <3>1, <3>2
  <2> QED BY <2>4 DEF MixedInv
<1>3. CASE ~(BeginRead(p) \/ BeginWrite(p))
  <2>1. p \notin mixed' /\ mixed' \subseteq mixed
    <3>1. CASE EndRead(p) \/ EndWrite(p)
      BY <3>1 DEF EndRead, EndWrite
    <3>2. CASE (\E r \in Requests : Call(p, r)) \/ Return(p) \/ SmallPiece(p)
               \/ WholePiece(p) \/ Free(p)
      BY <1>0, <3>2
         DEF Call, Return, SmallPiece, WholePiece, Free, InAccess, ghostVars
    <3> QED BY <1>3, <3>1, <3>2 DEF Step
  <2> QED BY <1>0, <1>1, <2>1 DEF MixedInv
<1> QED BY <1>2, <1>3

LEMMA StepRace ==
    ASSUME SdInv, NEW p \in Proc, Step(p)
    PROVE  RaceInv'
<1>1. SUFFICES ASSUME NEW q \in Proc, NEW r \in Proc, q # r, Block(q)' = Block(r)',
                      at'[q] \in Piece \ {"read"}, Small(q)',
                      at'[r] \in InAccess, ~Small(r)'
               PROVE  Block(q)' \in raced'
  BY DEF RaceInv
<1>2. \A s \in {q, r} : req'[s] = req[s] /\ done'[s] = done[s]
  BY <1>1, Frame, Moves DEF SdInv, Piece
<1>3. Block(q)' = Block(q) /\ Small(q)' = Small(q) /\ Block(r)' = Block(r) /\ Small(r)' = Small(r)
  BY <1>2, Kept
<1>4. \A s \in {q, r} : s # p => at'[s] = at[s]
  BY Frame DEF SdInv
<1>5. CASE at[q] \in Piece \ {"read"} /\ at[r] \in InAccess
  <2>1. Block(q) \in raced
    BY <1>1, <1>3, <1>5 DEF SdInv, RaceInv
  <2> QED BY <1>3, <2>1, Frame DEF SdInv
<1>6. CASE at[r] \notin InAccess
  <2>1. r = p /\ (BeginRead(p) \/ BeginWrite(p))
    BY <1>1, <1>4, <1>6, Moves DEF SdInv
  <2>2. at[q] \in Piece
    BY <1>1, <1>4, <2>1
  <2> QED BY <1>1, <1>3, <2>1, <2>2, Overlaps
<1>7. CASE at[r] \in InAccess /\ at[q] \notin Piece \ {"read"}
  <2>1. q = p
    BY <1>1, <1>4, <1>7
  <2>2. BeginRead(p) \/ BeginWrite(p)
    <3>0. at \in [Proc -> {"out", "loop"} \cup Piece]
      BY DEF SdInv, Types, TypeOK
    <3>1. ~WholePiece(p)
      BY <1>1, <1>3, <2>1 DEF WholePiece
    <3>2. ~SmallPiece(p)
      BY <1>1, <2>1, <3>0 DEF SmallPiece, Goto, Piece
    <3>3. at[p] = "read"
      BY <1>1, <1>7, <2>1, <3>1, <3>2, Moves DEF SdInv
    <3> QED BY <3>3
          DEF Step, Call, Return, SmallPiece, WholePiece, BeginRead, EndRead, EndWrite, Free
  <2> QED BY <1>1, <1>3, <1>7, <2>1, <2>2, Overlaps
<1> QED BY <1>5, <1>6, <1>7

-----------------------------------------------------------------------------
(* The bytes on the card, in the buffer and with the readers.               *)

\* Byte k of p's block is in the piece if its address is among those dealt with.
LEMMA PieceAddresses ==
    ASSUME Types, NEW p \in Proc, count(p) > 0, NEW a \in Address
    PROVE  a - pos(p) \in 0 .. bytes_to_do(p) - 1 <=>
             a \div SD_BLOCK_LEN = Block(p) /\ InPiece(p, a % SD_BLOCK_LEN)
<1> DEFINE b == a \div SD_BLOCK_LEN
           k == a % SD_BLOCK_LEN
<1>1. b \in 0 .. Blocks - 1 /\ k \in Cell /\ a = b * SD_BLOCK_LEN + k
  BY Places
<1>2. /\ Block(p) \in 0 .. Blocks - 1 /\ pos_in_block(p) \in Cell
      /\ pos(p) = Block(p) * SD_BLOCK_LEN + pos_in_block(p)
      /\ bytes_to_do(p) \in Nat /\ pos_in_block(p) + bytes_to_do(p) <= SD_BLOCK_LEN
  BY Geometry
<1>3. b * SD_BLOCK_LEN \in Int /\ Block(p) * SD_BLOCK_LEN \in Int
  BY <1>1, <1>2, Sizes
<1>4. b < Block(p) => b * SD_BLOCK_LEN + SD_BLOCK_LEN <= Block(p) * SD_BLOCK_LEN
  BY <1>1, <1>2, Apart
<1>5. Block(p) < b => Block(p) * SD_BLOCK_LEN + SD_BLOCK_LEN <= b * SD_BLOCK_LEN
  BY <1>1, <1>2, Apart
<1> HIDE DEF b, k
<1>6. a - pos(p) \in 0 .. bytes_to_do(p) - 1 <=> b = Block(p) /\ InPiece(p, k)
  <2>1. CASE b = Block(p)
    BY <1>1, <1>2, <1>3, <2>1, Sizes DEF InPiece, Cell
  <2>2. CASE b < Block(p)
    BY <1>1, <1>2, <1>3, <1>4, <2>2, Sizes DEF Cell
  <2>3. CASE Block(p) < b
    BY <1>1, <1>2, <1>3, <1>5, <2>3, Sizes DEF Cell
  <2>4. b \in Int /\ Block(p) \in Int
    BY <1>1, <1>2
  <2> QED BY <2>1, <2>2, <2>3, <2>4
<1> QED BY <1>6 DEF b, k

\* Who wrote a byte changes only under a write of its block.
LEMMA WrittenStays ==
    ASSUME SdInv, NEW p \in Proc, Step(p), NEW a \in Address
    PROVE  /\ ~EndWrite(p) => UNCHANGED <<disk, written>>
           /\ EndWrite(p) =>
                /\ count(p) > 0
                /\ written'[a] = IF a \div SD_BLOCK_LEN = Block(p)
                                    /\ InPiece(p, a % SD_BLOCK_LEN)
                                 THEN p ELSE written[a]
<1>1. ~EndWrite(p) => UNCHANGED <<disk, written>>
  BY DEF Step, Call, Return, SmallPiece, WholePiece, BeginRead, BeginWrite, Assert,
         EndRead, Free, ghostVars
<1>2. EndWrite(p) => count(p) > 0
  BY DEF EndWrite, SdInv, PieceInv, Piece, InAccess
<1>3. EndWrite(p) => written'[a] = IF a - pos(p) \in 0 .. bytes_to_do(p) - 1 THEN p
                                   ELSE written[a]
  BY DEF EndWrite
<1> QED BY <1>1, <1>2, <1>3, PieceAddresses DEF SdInv

LEMMA StepDisk ==
    ASSUME SdInv, NEW p \in Proc, Step(p)
    PROVE  DiskIsRight'
<1>1. CardUsable' = CardUsable /\ raced \subseteq raced'
  BY Frame DEF CardUsable, initVars, SdInv
<1>2. SUFFICES ASSUME CardUsable, NEW a \in Address, a \div SD_BLOCK_LEN \notin raced'
               PROVE  disk'[a] = <<written'[a], a>>
  BY <1>1 DEF DiskIsRight
<1>3. disk[a] = <<written[a], a>>
  BY <1>1, <1>2 DEF SdInv, DiskIsRight
<1>4. CASE ~EndWrite(p)
  BY <1>3, <1>4, WrittenStays
<1>5. CASE EndWrite(p)
  <2> DEFINE k == a % SD_BLOCK_LEN
  <2>1. /\ at[p] = "writing" /\ count(p) > 0 /\ Serves(p) /\ Addressed(p) = Block(p)
        /\ written'[a] = IF a \div SD_BLOCK_LEN = Block(p) /\ InPiece(p, k)
                         THEN p ELSE written[a]
    BY <1>2, <1>5, WrittenStays, ServesAll DEF EndWrite, SdInv
  <2>2. disk'[a] = OnDisk(p, a) \/ (p \in mixed /\ disk'[a] = disk[a])
    BY <1>5, <2>1 DEF EndWrite
  <2>3. CASE a \div SD_BLOCK_LEN # Block(p)
    BY <1>3, <2>1, <2>2, <2>3 DEF OnDisk
  <2>4. CASE a \div SD_BLOCK_LEN = Block(p)
    <3>1. Block(p) \notin raced /\ p \notin mixed
      BY <1>1, <1>2, <2>4 DEF SdInv, MixedInv
    <3>2. k \in Cell /\ a = Block(p) * SD_BLOCK_LEN + k
      BY <2>4, Places
    <3>3. disk'[a] = Sent(p)[k]
      BY <2>1, <2>2, <2>4, <3>1 DEF OnDisk
    <3>4. req[p].write
      BY <2>1 DEF SdInv, PieceInv
    <3>5. CASE Small(p)
      <4>1. block[p][k] = IF req[p].write /\ InPiece(p, k) THEN <<p, a>> ELSE <<written[a], a>>
        BY <1>2, <2>1, <3>1, <3>2, <3>5 DEF SdInv, BufferInv
      <4> QED BY <2>1, <2>4, <3>3, <3>4, <3>5, <4>1 DEF Sent
    <3>6. CASE ~Small(p)
      <4>1. bytes_to_do(p) = SD_BLOCK_LEN /\ pos_in_block(p) = 0
        BY <2>1, <3>6, Geometry DEF SdInv
      <4>2. InPiece(p, k)
        BY <3>2, <4>1, Sizes DEF InPiece, Cell
      <4>3. Sent(p)[k] = <<p, a>>
        BY <3>2, <3>6 DEF Sent, Mine, Cell
      <4> QED BY <2>1, <2>4, <3>3, <4>2, <4>3
    <3> QED BY <3>5, <3>6
  <2> QED BY <2>3, <2>4
<1> QED BY <1>4, <1>5

LEMMA StepBuffer ==
    ASSUME SdInv, NEW p \in Proc, Step(p)
    PROVE  BufferInv'
<1>0. /\ at \in [Proc -> {"out", "loop"} \cup Piece]
      /\ block \in [Proc -> [Cell -> Byte \cup {Garbage}]]
  BY DEF SdInv, Types, TypeOK, Cell
<1>1. CardUsable' = CardUsable /\ raced \subseteq raced'
  BY Frame DEF CardUsable, initVars, SdInv
<1>2. SUFFICES ASSUME CardUsable, NEW q \in Proc,
                      at'[q] \in {"write", "writing", "free"}, Small(q)',
                      Block(q)' \notin raced', NEW k \in Cell
               PROVE  block'[q][k] =
                        IF req'[q].write /\ InPiece(q, k)' THEN <<q, Block(q)' * SD_BLOCK_LEN + k>>
                        ELSE <<written'[Block(q)' * SD_BLOCK_LEN + k],
                               Block(q)' * SD_BLOCK_LEN + k>>
  BY <1>1 DEF BufferInv
<1>3. at'[q] \in Piece /\ req'[q] = req[q] /\ done'[q] = done[q]
  BY <1>2, Frame, Moves DEF SdInv, Piece, InAccess
<1>4. /\ Small(q) /\ Block(q)' = Block(q) /\ Block(q) \notin raced
      /\ InPiece(q, k)' = InPiece(q, k) /\ count(q)' = count(q)
  BY <1>1, <1>2, <1>3, Kept
<1>5. count(q) > 0
  BY <1>3, <1>4, StepPiece DEF PieceInv
<1>6. Block(q) \in 0 .. Blocks - 1
  BY <1>5, Geometry DEF SdInv
<1> DEFINE a == Block(q) * SD_BLOCK_LEN + k
<1>7. a \in Address /\ a \div SD_BLOCK_LEN = Block(q) /\ a % SD_BLOCK_LEN = k
  BY <1>6, Places
<1> HIDE DEF a
<1>8. SUFFICES block'[q][k] = IF req[q].write /\ InPiece(q, k) THEN <<q, a>>
                              ELSE <<written'[a], a>>
  BY <1>3, <1>4 DEF a
<1>9. at[q] \in {"write", "writing", "free"} =>
        block[q][k] = IF req[q].write /\ InPiece(q, k) THEN <<q, a>> ELSE <<written[a], a>>
  BY <1>2, <1>4 DEF SdInv, BufferInv, a
<1>10. CASE q # p
  <2>1. at'[q] = at[q] /\ block'[q] = block[q]
    BY <1>10, Frame DEF SdInv
  <2>2. written'[a] = written[a]
    <3>1. ASSUME EndWrite(p), Block(p) = Block(q) PROVE FALSE
      <4>1. at[p] = "writing" /\ at[q] \in Piece \ {"read"}
        BY <1>2, <2>1, <3>1 DEF EndWrite, Piece, InAccess
      <4>2. ~Small(p)
        BY <1>4, <1>10, <4>1 DEF SdInv, OneHolder, Piece, InAccess
      <4> QED BY <1>4, <1>10, <3>1, <4>1, <4>2 DEF SdInv, RaceInv, InAccess
    <3> QED BY <1>7, <3>1, WrittenStays
  <2> QED BY <1>2, <1>9, <2>1, <2>2
<1>11. CASE q = p
  <2>1. ~(\E r \in Requests : Call(p, r)) /\ ~Return(p) /\ ~SmallPiece(p) /\ ~BeginRead(p)
        /\ ~Free(p)
    BY <1>0, <1>2, <1>11 DEF Call, Return, SmallPiece, BeginRead, Free, Goto
  <2>2. ~WholePiece(p)
    BY <1>4, <1>11 DEF WholePiece
  <2>3. CASE BeginWrite(p)
    <3>1. at[p] = "write" /\ UNCHANGED <<block, written>>
      BY <2>3 DEF BeginWrite, Assert
    <3> QED BY <1>9, <1>11, <3>1
  <2>4. CASE EndWrite(p)
    <3>1. at[p] = "writing" /\ UNCHANGED block
      BY <2>4 DEF EndWrite
    <3>2. req[p].write
      BY <3>1 DEF SdInv, PieceInv
    <3>3. ~InPiece(p, k) => written'[a] = written[a]
      BY <1>7, <2>4, WrittenStays
    <3> QED BY <1>9, <1>11, <3>1, <3>2, <3>3
  <2>5. CASE EndRead(p)
    <3>1. PICK data \in [Cell -> Byte \cup {Garbage}] :
            /\ EndReadSmall(p, data) \/ EndReadWhole(p, data)
            /\ CardUsable /\ Block(p) \notin raced =>
                 \A j \in Cell : LET c == Block(p) * SD_BLOCK_LEN + j
                                 IN  data[j] = <<written[c], c>>
      BY <2>5, ReadsWritten
    <3>2. EndReadSmall(p, data)
      BY <1>4, <1>11, <3>1 DEF EndReadWhole
    <3>3. data[k] = <<written[a], a>> /\ written' = written
      BY <1>2, <1>4, <1>11, <2>5, <3>1 DEF EndRead, a
    <3>4. Mine(p)[k] = <<p, a>>
      BY <1>11 DEF Mine, Cell, a
    <3>5. Merged(p, data)[k] = IF InPiece(p, k) THEN <<p, a>> ELSE data[k]
      BY <3>4 DEF Merged, Cell
    <3>6. block'[p] = IF req[p].write THEN Merged(p, data) ELSE data
      BY <1>0, <3>2 DEF EndReadSmall
    <3> QED BY <1>11, <3>3, <3>5, <3>6
  <2> QED BY <2>1, <2>2, <2>3, <2>4, <2>5 DEF Step
<1> QED BY <1>10, <1>11

LEMMA StepGot ==
    ASSUME SdInv, NEW p \in Proc, Step(p)
    PROVE  GotInv'
<1>0. /\ req \in [Proc -> Requests] /\ done \in [Proc -> Nat]
      /\ got \in [Proc -> Seq(Byte \cup {Garbage})]
  BY DEF SdInv, Types
<1>1. CardUsable' = CardUsable /\ raced \subseteq raced'
  BY Frame DEF CardUsable, initVars, SdInv
<1>2. SUFFICES ASSUME CardUsable, NEW q \in Proc, NEW k \in DOMAIN got'[q],
                      (req'[q].pos + k - 1) \div SD_BLOCK_LEN \notin raced'
               PROVE  got'[q][k][2] = req'[q].pos + k - 1
  BY <1>1 DEF GotInv
<1>3. ASSUME got'[q] = got[q], req'[q] = req[q]
      PROVE  got'[q][k][2] = req'[q].pos + k - 1
  <2>1. (req[q].pos + k - 1) \div SD_BLOCK_LEN \notin raced
    BY <1>1, <1>2, <1>3
  <2> QED BY <1>2, <1>3, <2>1 DEF SdInv, GotInv
<1>4. CASE q # p
  BY <1>3, <1>4, Frame DEF SdInv
<1>5. CASE q = p
  <2>1. CASE UNCHANGED <<req, got>>
    BY <1>3, <2>1
  <2>2. CASE got' = [got EXCEPT ![p] = <<>>]
    <3>1. got'[p] = <<>>
      BY <1>0, <2>2
    <3> QED BY <1>2, <1>5, <3>1
  <2>3. CASE UNCHANGED req /\ count(p) > 0 /\ ~req[p].write /\ Gives(p)
    <3>1. PICK data \in [Cell -> Byte \cup {Garbage}] :
            Fits(p, data) /\ got' = [got EXCEPT ![p] = @ \o Given(p, data)]
      BY <2>3 DEF Gives
    <3>2. /\ got[p] \in Seq(Byte \cup {Garbage}) /\ Given(p, data) \in Seq(Byte \cup {Garbage})
          /\ Len(Given(p, data)) = bytes_to_do(p) /\ Len(got[p]) = done[p]
      BY <1>0, <2>3, DataTypes DEF SdInv, Types, TypeOK
    <3>3. /\ Block(p) \in 0 .. Blocks - 1 /\ pos_in_block(p) \in Cell
          /\ pos(p) = Block(p) * SD_BLOCK_LEN + pos_in_block(p)
          /\ bytes_to_do(p) \in Nat /\ pos_in_block(p) + bytes_to_do(p) <= SD_BLOCK_LEN
          /\ req[p].pos \in Nat /\ done[p] \in Nat
      BY <2>3, Geometry DEF SdInv
    <3>4. got'[p] = got[p] \o Given(p, data)
      BY <1>0, <3>1
    <3>5. /\ got'[p] \in Seq(Byte \cup {Garbage})
          /\ Len(got'[p]) = done[p] + bytes_to_do(p)
          /\ \A i \in 1 .. done[p] + bytes_to_do(p) :
               got'[p][i] = IF i <= done[p] THEN got[p][i] ELSE Given(p, data)[i - done[p]]
      <4>1. /\ got[p] \o Given(p, data) \in Seq(Byte \cup {Garbage})
            /\ Len(got[p] \o Given(p, data)) = Len(got[p]) + Len(Given(p, data))
            /\ \A i \in 1 .. Len(got[p]) + Len(Given(p, data)) :
                 (got[p] \o Given(p, data))[i] =
                   IF i <= Len(got[p]) THEN got[p][i] ELSE Given(p, data)[i - Len(got[p])]
        BY <3>2, ConcatProperties
      <4> QED BY <3>2, <3>4, <4>1
    <3>6. DOMAIN got'[p] = 1 .. done[p] + bytes_to_do(p) /\ DOMAIN got[p] = 1 .. done[p]
      BY <3>2, <3>5, LenProperties
    <3>7. CASE k <= done[p]
      <4>1. k \in DOMAIN got[p] /\ got'[p][k] = got[p][k]
        BY <1>2, <1>5, <3>3, <3>5, <3>6, <3>7
      <4>2. (req[p].pos + k - 1) \div SD_BLOCK_LEN \notin raced
        BY <1>1, <1>2, <1>5, <2>3
      <4> QED BY <1>2, <1>5, <2>3, <4>1, <4>2 DEF SdInv, GotInv
    <3>8. CASE ~(k <= done[p])
      <4> DEFINE j == k - done[p]
                 place == pos_in_block(p) + j - 1
      <4>1. k \in 1 .. done[p] + bytes_to_do(p)
        BY <1>2, <1>5, <3>6
      <4>2. j \in 1 .. bytes_to_do(p) /\ place \in Cell
        <5>1. j \in Int /\ j >= 1 /\ j <= bytes_to_do(p)
          BY <3>3, <3>8, <4>1
        <5>2. pos_in_block(p) \in Nat /\ SD_BLOCK_LEN \in Nat
          BY <3>3, Sizes DEF Cell
        <5> HIDE DEF j
        <5> QED BY <3>3, <5>1, <5>2 DEF Cell
      <4>3. got'[p][k] = data[place]
        <5>1. got'[p][k] = Given(p, data)[j]
          BY <3>5, <3>8, <4>1
        <5> QED BY <4>2, <5>1 DEF Given
      <4>4. Block(p) * SD_BLOCK_LEN \in Nat
        BY <3>3, Sizes
      <4>5. req[p].pos + k - 1 = Block(p) * SD_BLOCK_LEN + place
        <5>1. pos(p) = req[p].pos + done[p]
          BY DEF pos
        <5>2. pos_in_block(p) \in Int
          BY <3>3 DEF Cell
        <5> QED BY <3>3, <4>1, <4>4, <5>1, <5>2
      <4>6. (req[p].pos + k - 1) \div SD_BLOCK_LEN = Block(p)
        BY <3>3, <4>2, <4>5, Places
      <4>7. Block(p) \notin raced
        BY <1>1, <1>2, <1>5, <2>3, <4>6
      <4> HIDE DEF place
      <4>8. data[place][2] = Block(p) * SD_BLOCK_LEN + place
        BY <1>2, <3>1, <4>2, <4>7 DEF Fits
      <4> QED BY <1>5, <2>3, <4>3, <4>5, <4>8
    <3> QED BY <3>7, <3>8
  <2> QED BY <2>1, <2>2, <2>3, Progress
<1> QED BY <1>4, <1>5

-----------------------------------------------------------------------------
(* The invariant.                                                           *)

LEMMA InitInv == Init => SdInv
<1> SUFFICES ASSUME Init PROVE SdInv
  OBVIOUS
<1>1. Types
  BY InitTypes
<1>2. /\ \A p \in Proc : at[p] = "out" /\ got[p] = <<>>
      /\ disk = [a \in Address |-> <<0, a>>] /\ written = [a \in Address |-> 0]
      /\ mixed = {} /\ ready = FALSE
  BY DEF Init
<1>3. AttemptInv
  BY SdAssumption DEF Init, AttemptInv, NoAnswer
<1>4. BootInv /\ PieceInv /\ OneHolder /\ MixedInv /\ RaceInv
  BY <1>2 DEF BootInv, PieceInv, OneHolder, MixedInv, RaceInv, Piece, InAccess
<1>5. BufferInv /\ DiskIsRight /\ GotInv
  BY <1>2 DEF BufferInv, DiskIsRight, GotInv, CardUsable
<1> QED BY <1>1, <1>3, <1>4, <1>5 DEF SdInv

\* A card that becomes usable while the kernel boots holds what it held.
LEMMA BootStep ==
    ASSUME SdInv, dev_sd_init
    PROVE  SdInv'
<1>1. Types' /\ AttemptInv' /\ UNCHANGED <<card, accessVars>> /\ boot # "up"
  BY BootTypes DEF SdInv
<1>2. /\ \A p \in Proc : at[p] = "out" /\ got[p] = <<>>
      /\ disk = [a \in Address |-> <<0, a>>] /\ written = [a \in Address |-> 0]
  BY <1>1 DEF SdInv, BootInv
<1>3. /\ \A p \in Proc : at'[p] = "out" /\ got'[p] = <<>>
      /\ disk' = [a \in Address |-> <<0, a>>] /\ written' = [a \in Address |-> 0]
      /\ mixed' = {}
  <2>1. mixed = {}
    BY <1>2 DEF SdInv, MixedInv, InAccess, Types, TypeOK
  <2> QED BY <1>1, <1>2, <2>1 DEF accessVars
<1>4. BootInv' /\ PieceInv' /\ OneHolder' /\ MixedInv' /\ RaceInv'
  BY <1>3 DEF BootInv, PieceInv, OneHolder, MixedInv, RaceInv, Piece, InAccess
<1>5. BufferInv' /\ DiskIsRight' /\ GotInv'
  BY <1>3 DEF BufferInv, DiskIsRight, GotInv
<1> QED BY <1>1, <1>4, <1>5 DEF SdInv

LEMMA ProcStep ==
    ASSUME SdInv, NEW p \in Proc, Step(p)
    PROVE  SdInv'
<1>1. UNCHANGED initVars
  BY Frame DEF SdInv
<1>2. AttemptInv'
  BY <1>1 DEF AttemptInv, SdInv, initVars
<1>3. boot = "up"
  BY Moves DEF SdInv, BootInv, Step, Return, SmallPiece, WholePiece, BeginRead, BeginWrite,
               EndRead, EndWrite, Free, Call
<1>4. BootInv'
  BY <1>1, <1>3 DEF BootInv, initVars
<1> QED BY <1>2, <1>4, StepTypes, StepPiece, StepHolder, StepMixed, StepRace, StepBuffer,
           StepDisk, StepGot DEF SdInv

LEMMA StutterStep ==
    ASSUME SdInv, UNCHANGED vars
    PROVE  SdInv'
<1> USE DEF vars, initVars
<1>1. \A p : Block(p)' = Block(p) /\ Small(p)' = Small(p) /\ count(p)' = count(p)
  BY DEF Block, Small, bytes_to_do, pos_in_block, pos, count
<1>2. \A p, k : InPiece(p, k)' = InPiece(p, k)
  BY DEF InPiece, bytes_to_do, pos_in_block, pos, count
<1>3. Types' /\ AttemptInv' /\ BootInv'
  BY DEF SdInv, Types, TypeOK, AttemptInv, BootInv
<1>4. PieceInv' /\ OneHolder' /\ MixedInv' /\ RaceInv'
  BY <1>1 DEF SdInv, PieceInv, OneHolder, MixedInv, RaceInv
<1>5. BufferInv'
  BY <1>1, <1>2 DEF SdInv, BufferInv, CardUsable
<1>6. DiskIsRight' /\ GotInv'
  BY DEF SdInv, DiskIsRight, GotInv, CardUsable
<1> QED BY <1>3, <1>4, <1>5, <1>6 DEF SdInv

THEOREM Invariance == Spec => []SdInv
<1>1. SdInv /\ [Next]_vars => SdInv'
  <2> SUFFICES ASSUME SdInv, [Next]_vars PROVE SdInv'
    OBVIOUS
  <2>1. dev_sd_init \/ (\E p \in Proc : Step(p)) \/ UNCHANGED vars
    BY DEF Next, Step
  <2> QED BY <2>1, BootStep, ProcStep, StutterStep
<1> QED BY <1>1, InitInv, PTL DEF Spec

-----------------------------------------------------------------------------
(* What it shows.                                                           *)

\* dev_sd_init returns 0 only for a card that has left its idle state: an answer
\* that never came does not count as one.
THEOREM InitIsHonest == Spec => []SuccessMeansReady
<1>1. SdInv => SuccessMeansReady
  BY DEF SdInv, AttemptInv, SuccessMeansReady
<1> QED BY <1>1, Invariance, PTL

\* Two processes that are in sd_read_single_block or sd_write_single_block at
\* once do not both go through the buffer of block_buf.c.
THEOREM OneSmallAccess == Spec => []SmallAccessesExclude
<1>1. SdInv => SmallAccessesExclude
  BY DEF SdInv, OneHolder, SmallAccessesExclude, Piece
<1> QED BY <1>1, Invariance, PTL

\* Small writes to one block do not undo each other: where no whole block raced,
\* the card holds what was last written there.
THEOREM WritesLast == Spec => []DiskIsRight
<1>1. SdInv => DiskIsRight
  BY DEF SdInv
<1> QED BY <1>1, Invariance, PTL

\* sd_read gives its caller the bytes of the addresses asked for, in order, in
\* pieces that stay within their blocks and buffers.
THEOREM ReadersGetTheirs == Spec => []ReadIsRight
<1>1. SdInv => ReadIsRight
  <2> SUFFICES ASSUME SdInv PROVE ReadIsRight
    OBVIOUS
  <2>1. PieceFits
    BY Geometry DEF SdInv, PieceInv, PieceFits
  <2> QED BY <2>1 DEF SdInv, Types, GotInv, ReadIsRight
<1> QED BY <1>1, Invariance, PTL
=============================================================================
