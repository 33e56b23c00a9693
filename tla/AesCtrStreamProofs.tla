------------------------- MODULE AesCtrStreamProofs -------------------------
(***************************************************************************)
(* Proofs about AesCtrStream for every depth of the pipeline, every set of *)
(* keys and payloads and every width of the counter.                       *)
(***************************************************************************)
EXTENDS AesCtrStream, TLAPS

USE AesAssumption DEF AesAssumption

Ctr == 0 .. CtrMod - 1

-----------------------------------------------------------------------------
\* The remainder is the unique r of c = CtrMod * q + r.
LEMMA RemainderUnique ==
    ASSUME NEW q \in Nat, NEW r \in Ctr
    PROVE  (CtrMod * q + r) % CtrMod = r
  BY SMT DEF Ctr

LEMMA RemainderExists ==
    ASSUME NEW c \in Nat
    PROVE  \E q \in Nat : \E r \in Ctr : c = CtrMod * q + r
  <1>1. CtrMod * (c \div CtrMod) <= c /\ c - CtrMod * (c \div CtrMod) < CtrMod
    BY Z3
  <1>2. c \div CtrMod \in Nat
    BY SMT
  <1> QED BY <1>1, <1>2, SMT DEF Ctr

\* The increment of ctr_reg wraps like the sum it stands for.
LEMMA CounterWraps ==
    ASSUME NEW c \in Nat
    PROVE  /\ c % CtrMod \in Ctr
           /\ ((c % CtrMod) + 1) % CtrMod = (c + 1) % CtrMod
  <1>1. PICK q \in Nat : \E r \in Ctr : c = CtrMod * q + r
    BY RemainderExists
  <1>2. PICK r \in Ctr : c = CtrMod * q + r
    BY <1>1
  <1>3. c % CtrMod = r
    BY <1>2, RemainderUnique
  <1>4. CASE r + 1 \in Ctr
    <2>1. c + 1 = CtrMod * q + (r + 1)
      BY <1>2, SMT DEF Ctr
    <2>2. (c + 1) % CtrMod = r + 1
      BY <2>1, <1>4, RemainderUnique
    <2>3. (r + 1) % CtrMod = r + 1
      BY <1>4, SMT DEF Ctr
    <2> QED BY <1>3, <2>2, <2>3
  <1>5. CASE r + 1 \notin Ctr
    <2>1. r + 1 = CtrMod
      BY <1>5, SMT DEF Ctr
    <2>2. q + 1 \in Nat /\ 0 \in Ctr
      BY SMT DEF Ctr
    <2>3. c + 1 = CtrMod * (q + 1) + 0 /\ r + 1 = CtrMod * 1 + 0
      <3>1. CtrMod * (q + 1) = CtrMod * q + CtrMod
        BY SMT
      <3>2. CtrMod * q \in Nat
        BY SMT
      <3> QED BY <1>2, <2>1, <3>1, <3>2, SMT DEF Ctr
    <2>4. (CtrMod * (q + 1) + 0) % CtrMod = 0 /\ (CtrMod * 1 + 0) % CtrMod = 0
      BY <2>2, RemainderUnique
    <2>5. (c + 1) % CtrMod = 0 /\ (r + 1) % CtrMod = 0
      BY <2>3, <2>4
    <2> QED BY <1>3, <2>2, <2>5
  <1> QED BY <1>4, <1>5

LEMMA CounterFits ==
    ASSUME NEW c \in Ctr
    PROVE  c % CtrMod = c
  BY SMT DEF Ctr

-----------------------------------------------------------------------------
(***************************************************************************)
(* Idle and Accept are both StreamClk, with the inputs the ports can carry *)
(* and the environment's rule for key_load.                                *)
(***************************************************************************)
Edge(key_load, k, ctr_load, c, valid_in, p) ==
    /\ k \in Key /\ c \in Ctr
    /\ p \in Payload \cup {NoPayload}
    /\ valid_in => ~key_load /\ p \in Payload
    /\ key_load => KeyLoadAllowed
    /\ StreamClk(key_load, k, ctr_load, c, valid_in, p)

SomeEdge ==
    \E key_load, ctr_load, valid_in \in BOOLEAN, k \in Key, c \in Ctr,
       p \in Payload \cup {NoPayload} :
        Edge(key_load, k, ctr_load, c, valid_in, p)

LEMMA NextIsEdge ==
    ASSUME Next
    PROVE  Reset \/ SomeEdge
  <1>1. CASE Idle
    <2>1. PICK key_load \in BOOLEAN, ctr_load \in BOOLEAN, k \in Key, c \in Ctr :
             /\ key_load => KeyLoadAllowed
             /\ StreamClk(key_load, k, ctr_load, c, FALSE, NoPayload)
      BY <1>1, Zenon DEF Idle, Ctr
    <2>2. Edge(key_load, k, ctr_load, c, FALSE, NoPayload)
      BY <2>1, Zenon DEF Edge
    <2> QED BY <2>2, Zenon DEF SomeEdge
  <1>2. CASE Accept
    <2>1. PICK ctr_load \in BOOLEAN, k \in Key, c \in Ctr, p \in Payload :
             StreamClk(FALSE, k, ctr_load, c, TRUE, p)
      BY <1>2, Zenon DEF Accept, Ctr
    <2>2. Edge(FALSE, k, ctr_load, c, TRUE, p)
      BY <2>1, Zenon DEF Edge
    <2> QED BY <2>2, Zenon DEF SomeEdge
  <1> QED BY <1>1, <1>2 DEF Next

-----------------------------------------------------------------------------
(***************************************************************************)
(* The inductive invariant.  The stage registers stay in their type only   *)
(* because a valid stage s has met s + 1 round keys, so the type and       *)
(* OneKeyPerBlock are proved together.                                     *)
(***************************************************************************)
PipeInv == TypeOK /\ OneKeyPerBlock

LEMMA InitPipe == Init => PipeInv
  BY SMT DEF Init, PipeInv, TypeOK, OneKeyPerBlock, NoState, Stage

LEMMA ResetPipe == ASSUME Reset PROVE PipeInv'
  BY SMT DEF Reset, PipeInv, TypeOK, OneKeyPerBlock, NoState, Stage

LEMMA EdgePipe ==
    ASSUME PipeInv,
           NEW key_load \in BOOLEAN, NEW ctr_load \in BOOLEAN,
           NEW valid_in \in BOOLEAN, NEW k, NEW c, NEW p,
           Edge(key_load, k, ctr_load, c, valid_in, p)
    PROVE  PipeInv'
  <1> USE DEF Edge, StreamClk
  <1>1. ctr_reg' \in Ctr /\ base' \in Ctr /\ count' \in Nat
    <2>1. /\ ctr_reg \in Nat /\ c \in Nat /\ count \in Nat
          /\ ctr_reg \in Ctr /\ c \in Ctr /\ base \in Ctr
      BY SMT DEF PipeInv, TypeOK, Ctr
    <2>2. (ctr_reg + 1) % CtrMod \in Ctr /\ (c + 1) % CtrMod \in Ctr
      <3>1. ctr_reg + 1 \in Nat /\ c + 1 \in Nat
        BY <2>1, SMT
      <3> QED BY <3>1, CounterWraps
    <2> QED BY <2>1, <2>2, SMT DEF CounterClk, GhostClk
  <1>2. all_keys_reg' \in Key \cup {NoKey}
    BY SMT DEF PipeInv, TypeOK
  <1>3. valid_pipe' \in [Stage -> BOOLEAN]
    BY SMT DEF PipeInv, TypeOK, CipherClk, Stage
  <1>4. payload_pipe' \in [Stage -> Payload \cup {NoPayload}]
    BY SMT DEF PipeInv, TypeOK, PayloadClk, Stage
  <1>5. ASSUME NEW s \in Stage
        PROVE  /\ stage_reg'[s] \in [ctr : Ctr, key : Key \cup {NoKey, Mixed},
                                     rounds : 0 .. Depth]
               /\ valid_pipe'[s] =>
                     /\ stage_reg'[s].rounds = s + 1
                     /\ stage_reg'[s].key # Mixed
                     /\ s < Depth - 1 => stage_reg'[s].key = all_keys_reg'
    <2> DEFINE ctr == ctr_for_aes(ctr_load, c)
    <2>1. ctr \in Ctr
      BY SMT DEF PipeInv, TypeOK, ctr_for_aes, Ctr
    <2> HIDE DEF ctr
    <2>2. CipherClk(valid_in, ctr)
      BY DEF ctr
    <2>3. CASE s = 0
      BY <2>1, <2>2, <2>3, SMT
      DEF CipherClk, FirstRound, PipeInv, TypeOK, OneKeyPerBlock, Stage, Ctr
    <2>4. CASE s # 0
      <3>1. s - 1 \in Stage /\ s - 1 < Depth - 1 /\ s \in Nat
        BY <2>4, SMT DEF Stage
      <3>2. valid_pipe'[s] <=> valid_pipe[s - 1]
        BY <2>2, <2>4, SMT DEF CipherClk
      <3>3. CASE ~valid_pipe[s - 1]
        <4>1. stage_reg'[s] = stage_reg[s]
          BY <2>2, <2>4, <3>3, SMT DEF CipherClk
        <4> QED BY <3>2, <3>3, <4>1 DEF PipeInv, TypeOK, Ctr
      <3>4. CASE valid_pipe[s - 1]
        <4>1. stage_reg'[s] = Round(stage_reg[s - 1], all_keys_reg)
          BY <2>2, <2>4, <3>4, SMT DEF CipherClk
        <4>2. /\ stage_reg[s - 1].rounds = s
              /\ stage_reg[s - 1].key = all_keys_reg
              /\ stage_reg[s - 1].ctr \in Ctr
              /\ all_keys_reg \in Key \cup {NoKey}
          BY <3>1, <3>4, SMT DEF PipeInv, TypeOK, OneKeyPerBlock, Ctr
        <4>3. stage_reg'[s] = [ctr |-> stage_reg[s - 1].ctr,
                               key |-> all_keys_reg, rounds |-> s + 1]
          BY <4>1, <4>2 DEF Round
        <4>4. s + 1 \in 0 .. Depth
          BY <3>1, SMT
        <4>5. s < Depth - 1 => all_keys_reg' = all_keys_reg
          BY <3>1, <3>4, SMT DEF KeyLoadAllowed
        <4> QED BY <4>2, <4>3, <4>4, <4>5, SMT
      <3> QED BY <3>3, <3>4
    <2> QED BY <2>3, <2>4
  <1>6. stage_reg' = [s \in Stage |-> stage_reg'[s]]
    BY SMT DEF CipherClk
  <1>7. stage_reg' \in [Stage -> [ctr : Ctr, key : Key \cup {NoKey, Mixed},
                                  rounds : 0 .. Depth]]
    BY <1>5, <1>6, Zenon
  <1> QED BY <1>1, <1>2, <1>3, <1>4, <1>5, <1>7, Zenon
          DEF PipeInv, TypeOK, OneKeyPerBlock, Ctr

(***************************************************************************)
(* Every block that comes out went through all the rounds of one single    *)
(* key, whatever the depth of aes256_pipeline_top.v and however counter    *)
(* loads, key loads, blocks and idle cycles are interleaved.               *)
(***************************************************************************)
THEOREM OneKeyCorrect == Spec => [](TypeOK /\ OneKeyPerBlock)
  <1>1. PipeInv /\ [Next]_vars => PipeInv'
    <2> SUFFICES ASSUME PipeInv, [Next]_vars PROVE PipeInv'
      OBVIOUS
    <2>1. CASE Reset
      BY <2>1, ResetPipe
    <2>2. CASE SomeEdge
      BY <2>2, EdgePipe DEF SomeEdge
    <2>3. CASE UNCHANGED vars
      BY <2>3 DEF vars, PipeInv, TypeOK, OneKeyPerBlock
    <2> QED BY <2>1, <2>2, <2>3, NextIsEdge
  <1> QED BY <1>1, InitPipe, PTL DEF Spec, PipeInv

-----------------------------------------------------------------------------
LEMMA EdgeCounter ==
    ASSUME TypeOK, CounterInStep,
           NEW key_load \in BOOLEAN, NEW ctr_load \in BOOLEAN,
           NEW valid_in \in BOOLEAN, NEW k, NEW c, NEW p,
           Edge(key_load, k, ctr_load, c, valid_in, p)
    PROVE  /\ CounterInStep'
           /\ ctr_load => base' = c /\ count' = IF valid_in THEN 1 ELSE 0
           /\ ~ctr_load => /\ base' = base
                           /\ count' = IF valid_in THEN count + 1 ELSE count
           /\ valid_in => ctr_for_aes(ctr_load, c)
                           = (base' + count' - 1) % CtrMod
  <1> USE DEF Edge, StreamClk
  <1>1. /\ c \in Nat /\ base \in Nat /\ count \in Nat /\ base + count \in Nat
        /\ c \in Ctr
    BY SMT DEF TypeOK, Ctr
  <1>2. /\ ctr_load => base' = c /\ count' = IF valid_in THEN 1 ELSE 0
        /\ ~ctr_load => /\ base' = base
                        /\ count' = IF valid_in THEN count + 1 ELSE count
    BY <1>1, SMT DEF GhostClk
  <1>3. CASE ctr_load
    <2>1. ctr_reg' = IF valid_in THEN (c + 1) % CtrMod ELSE c
      BY <1>3, SMT DEF CounterClk
    <2>2. /\ valid_in => base' + count' = c + 1
          /\ ~valid_in => base' + count' = c
      BY <1>1, <1>2, <1>3, SMT
    <2>3. valid_in => base' + count' - 1 = c
      <3> SUFFICES ASSUME valid_in PROVE base' + count' - 1 = c
        OBVIOUS
      <3>1. base' = c /\ count' = 1
        BY <1>2, <1>3
      <3> QED BY <1>1, <3>1, SMT
    <2>4. c % CtrMod = c
      BY <1>1, CounterFits
    <2>5. ctr_for_aes(ctr_load, c) = c
      BY <1>3 DEF ctr_for_aes
    <2> QED BY <1>2, <1>3, <2>1, <2>2, <2>3, <2>4, <2>5 DEF CounterInStep
  <1>4. CASE ~ctr_load
    <2>1. ctr_reg' = IF valid_in THEN (ctr_reg + 1) % CtrMod ELSE ctr_reg
      BY <1>4, SMT DEF CounterClk
    <2>2. /\ valid_in => base' + count' = (base + count) + 1
          /\ ~valid_in => base' + count' = base + count
      BY <1>1, <1>2, <1>4, SMT
    <2>3. valid_in => base' + count' - 1 = base + count
      <3> SUFFICES ASSUME valid_in PROVE base' + count' - 1 = base + count
        OBVIOUS
      <3>1. base' = base /\ count' = count + 1
        BY <1>2, <1>4
      <3> QED BY <1>1, <3>1, SMT
    <2>4. ctr_reg = (base + count) % CtrMod
      BY DEF CounterInStep
    <2>5. (ctr_reg + 1) % CtrMod = ((base + count) + 1) % CtrMod
      BY <1>1, <2>4, CounterWraps
    <2>6. ctr_for_aes(ctr_load, c) = ctr_reg
      BY <1>4 DEF ctr_for_aes
    <2> QED BY <1>2, <1>4, <2>1, <2>2, <2>3, <2>4, <2>5, <2>6 DEF CounterInStep
  <1> QED BY <1>3, <1>4

LEMMA CounterStep ==
    ASSUME TypeOK, CounterInStep, [Next]_vars PROVE CounterInStep'
  <1>1. CASE Reset
    <2>1. base' + count' = 0 /\ ctr_reg' = 0 /\ 0 \in Ctr
      BY <1>1, SMT DEF Reset, Ctr
    <2> QED BY <2>1, CounterFits DEF CounterInStep
  <1>2. CASE SomeEdge
    BY <1>2, EdgeCounter DEF SomeEdge
  <1>3. CASE UNCHANGED vars
    BY <1>3 DEF vars, CounterInStep
  <1> QED BY <1>1, <1>2, <1>3, NextIsEdge

(***************************************************************************)
(* ctr_reg is the counter loaded last plus the blocks accepted since,      *)
(* modulo the width of the counter, a block that meets its counter load    *)
(* in the same cycle included.                                             *)
(***************************************************************************)
THEOREM CounterCorrect == Spec => []CounterInStep
  <1>1. Init => CounterInStep
    <2> SUFFICES ASSUME Init PROVE CounterInStep
      OBVIOUS
    <2>1. base + count = 0 /\ ctr_reg = 0 /\ 0 \in Ctr
      BY SMT DEF Init, Ctr
    <2> QED BY <2>1, CounterFits DEF CounterInStep
  <1>2. TypeOK /\ CounterInStep /\ [Next]_vars => CounterInStep'
    BY CounterStep
  <1> QED BY <1>1, <1>2, OneKeyCorrect, PTL DEF Spec

-----------------------------------------------------------------------------
\* The line of CtrDelayLine as the registers hold it.
Block(s) == IF valid_pipe[s]
            THEN [payload |-> payload_pipe[s], ctr |-> stage_reg[s].ctr,
                  key |-> stage_reg[s].key]
            ELSE None

LEMMA EdgeShifts ==
    ASSUME PipeInv,
           NEW key_load \in BOOLEAN, NEW ctr_load \in BOOLEAN,
           NEW valid_in \in BOOLEAN, NEW k, NEW c, NEW p,
           Edge(key_load, k, ctr_load, c, valid_in, p),
           NEW s \in Stage
    PROVE  Block(s)' =
             IF s = 0
             THEN IF valid_in
                  THEN [payload |-> p, ctr |-> ctr_for_aes(ctr_load, c),
                        key |-> all_keys_reg]
                  ELSE None
             ELSE Block(s - 1)
  <1> DEFINE ctr == ctr_for_aes(ctr_load, c)
  <1>1. CipherClk(valid_in, ctr) /\ PayloadClk(p)
    BY DEF Edge, StreamClk
  <1> HIDE DEF ctr
  <1>2. CASE s = 0
    <2>1. valid_pipe'[s] <=> valid_in
      BY <1>1, <1>2, SMT DEF CipherClk
    <2>2. payload_pipe'[s] = p
      BY <1>1, <1>2, SMT DEF PayloadClk
    <2>3. valid_in => stage_reg'[s] = FirstRound(ctr, all_keys_reg)
      BY <1>1, <1>2, SMT DEF CipherClk
    <2> QED BY <1>2, <2>1, <2>2, <2>3 DEF Block, FirstRound, ctr
  <1>3. CASE s # 0
    <2>1. s - 1 \in Stage /\ s - 1 < Depth - 1
      BY <1>3, SMT DEF Stage
    <2>2. valid_pipe'[s] <=> valid_pipe[s - 1]
      BY <1>1, <1>3, SMT DEF CipherClk
    <2>3. payload_pipe'[s] = payload_pipe[s - 1]
      BY <1>1, <1>3, SMT DEF PayloadClk
    <2>4. CASE valid_pipe[s - 1]
      <3>1. stage_reg'[s] = Round(stage_reg[s - 1], all_keys_reg)
        BY <1>1, <1>3, <2>4, SMT DEF CipherClk
      <3>2. stage_reg[s - 1].key = all_keys_reg
        BY <2>1, <2>4 DEF PipeInv, OneKeyPerBlock
      <3>3. /\ stage_reg'[s].ctr = stage_reg[s - 1].ctr
            /\ stage_reg'[s].key = stage_reg[s - 1].key
        BY <3>1, <3>2 DEF Round
      <3> QED BY <1>3, <2>2, <2>3, <2>4, <3>3 DEF Block
    <2>5. CASE ~valid_pipe[s - 1]
      BY <1>3, <2>2, <2>5 DEF Block
    <2> QED BY <2>4, <2>5
  <1> QED BY <1>2, <1>3

LEMMA EdgeRefines ==
    ASSUME PipeInv, CounterInStep, SomeEdge
    PROVE  Line!Next
  <1>1. PICK key_load \in BOOLEAN, ctr_load \in BOOLEAN, valid_in \in BOOLEAN,
             k \in Key, c \in Ctr, p \in Payload \cup {NoPayload} :
          Edge(key_load, k, ctr_load, c, valid_in, p)
    BY Zenon DEF SomeEdge
  <1>2. PipeInv'
    BY <1>1, EdgePipe
  <1>3. /\ ctr_load => base' = c /\ count' = IF valid_in THEN 1 ELSE 0
        /\ ~ctr_load => /\ base' = base
                        /\ count' = IF valid_in THEN count + 1 ELSE count
        /\ valid_in => ctr_for_aes(ctr_load, c) = (base' + count' - 1) % CtrMod
    BY <1>1, EdgeCounter DEF PipeInv
  <1>4. base' \in 0 .. CtrMod - 1 /\ all_keys_reg' \in Key \cup {NoKey}
    BY <1>2 DEF PipeInv, TypeOK
  <1>5. \A s \in 0 .. Depth - 1 :
           Block(s)' = IF s = 0
                       THEN IF valid_in
                            THEN [payload |-> p, ctr |-> ctr_for_aes(ctr_load, c),
                                  key |-> all_keys_reg]
                            ELSE None
                       ELSE Block(s - 1)
    BY <1>1, EdgeShifts DEF Stage
  <1>6. \A s \in 0 .. Depth - 1 : s # 0 => s - 1 \in 0 .. Depth - 1
    BY SMT
  <1>7. CASE ~valid_in
    <2>1. Line!Shift(None)
      BY <1>5, <1>6, <1>7 DEF Line!Shift, Block, Stage
    <2>2. count' = 0 \/ (base' = base /\ count' = count)
      BY <1>3, <1>7
    <2> QED BY <1>4, <2>1, <2>2 DEF Line!Idle, Line!Next
  <1>8. CASE valid_in
    <2>1. p \in Payload /\ all_keys_reg' = all_keys_reg
      BY <1>1, <1>8 DEF Edge, StreamClk
    <2>2. Line!Shift([payload |-> p, ctr |-> (base' + count' - 1) % CtrMod,
                      key |-> all_keys_reg])
      BY <1>3, <1>5, <1>6, <1>8 DEF Line!Shift, Block, Stage
    <2>3. count' = 1 \/ (base' = base /\ count' = count + 1)
      BY <1>3, <1>8
    <2> QED BY <1>4, <2>1, <2>2, <2>3 DEF Line!Accept, Line!Next
  <1> QED BY <1>7, <1>8

(***************************************************************************)
(* aes256_ctr_stream.v over aes256_pipeline_top.v implements CtrDelayLine: *)
(* Depth edges after it entered, every block leaves with its own counter   *)
(* and the key it entered under, in order, whatever the depth.             *)
(***************************************************************************)
THEOREM RefinesDelayLine == Spec => ImplementsDelayLine
  <1>1. Init => Line!Init
    BY SMT DEF Init, Line!Init, Stage
  <1>2. PipeInv /\ CounterInStep /\ [Next]_vars => [Line!Next]_(Line!vars)
    <2> SUFFICES ASSUME PipeInv, CounterInStep, [Next]_vars
                 PROVE  [Line!Next]_(Line!vars)
      OBVIOUS
    <2>1. CASE Reset
      <3>1. Line!Reset
        BY <2>1, SMT DEF Reset, Line!Reset, Stage
      <3> QED BY <3>1 DEF Line!Next
    <2>2. CASE SomeEdge
      BY <2>2, EdgeRefines
    <2>3. CASE UNCHANGED vars
      BY <2>3 DEF vars, Line!vars
    <2> QED BY <2>1, <2>2, <2>3, NextIsEdge
  <1> QED BY <1>1, <1>2, OneKeyCorrect, CounterCorrect, PTL
          DEF Spec, PipeInv, ImplementsDelayLine, Line!Spec

=============================================================================
