---------------------------- MODULE AesCtrStream ----------------------------
(***************************************************************************)
(* aes256_ctr_stream.v with aes256_pipeline_top.v: the CTR-mode stream     *)
(* cipher that decrypts the firmware.  One step is one clock edge.         *)
(*                                                                         *)
(* The AES rounds are free: a stage register is the counter it started     *)
(* from, the key whose round keys were applied (Mixed once two keys were)  *)
(* and the number of round keys applied.  A payload stands for data_in,    *)
(* last_in and keep_in, which travel in three identical delay lines.       *)
(***************************************************************************)
EXTENDS Naturals

CONSTANTS
    Depth,      \* LATENCY: stages of both pipelines, 15 in the build
    Key, NoKey, \* cipher keys; NoKey: the all-zero round keys after reset
    Mixed,      \* round keys of two keys were applied
    Payload, NoPayload,
    CtrMod,     \* counters: 2^128 in the build
    None,       \* an empty place of the abstract delay line
    MaxBlocks   \* bound: blocks accepted since a counter load

ASSUME AesAssumption ==
    /\ Depth \in Nat \ {0} /\ CtrMod \in Nat \ {0} /\ MaxBlocks \in Nat
    /\ NoKey \notin Key /\ Mixed \notin Key \cup {NoKey}

VARIABLES
    ctr_reg,
    all_keys_reg,   \* the key its 15 round keys were expanded from
    stage_reg,      \* stage0_reg .. stage14_reg
    valid_pipe,
    payload_pipe,   \* data_pipe, last_pipe and keep_pipe
    base, count     \* ghosts: counter last loaded, blocks accepted since

vars == <<ctr_reg, all_keys_reg, stage_reg, valid_pipe, payload_pipe, base,
          count>>

Stage == 0 .. Depth - 1

NoState == [ctr |-> 0, key |-> NoKey, rounds |-> 0]

-----------------------------------------------------------------------------
\* AddRoundKey on the counter block, and one more round with the next key.
FirstRound(ctr, key) == [ctr |-> ctr, key |-> key, rounds |-> 1]

Round(st, key) ==
    [ctr |-> st.ctr, key |-> IF st.key = key THEN key ELSE Mixed,
     rounds |-> st.rounds + 1]

Init ==
    /\ ctr_reg = 0 /\ all_keys_reg = NoKey
    /\ stage_reg = [s \in Stage |-> NoState]
    /\ valid_pipe = [s \in Stage |-> FALSE]
    /\ payload_pipe = [s \in Stage |-> NoPayload]
    /\ base = 0 /\ count = 0

Reset ==
    /\ ctr_reg' = 0 /\ all_keys_reg' = NoKey
    /\ stage_reg' = [s \in Stage |-> NoState]
    /\ valid_pipe' = [s \in Stage |-> FALSE]
    /\ payload_pipe' = [s \in Stage |-> NoPayload]
    /\ base' = 0 /\ count' = 0

ctr_for_aes(ctr_load, ctr_init) == IF ctr_load THEN ctr_init ELSE ctr_reg

LoadForgetsBlock(ctr_load, ctr_init, valid_in) ==   \* mutant
    ctr_reg' = IF ctr_load THEN ctr_init
               ELSE IF valid_in THEN (ctr_reg + 1) % CtrMod ELSE ctr_reg

CounterClk(ctr_load, ctr_init, valid_in) ==
    ctr_reg' = IF ctr_load /\ valid_in THEN (ctr_init + 1) % CtrMod
               ELSE IF ctr_load THEN ctr_init
               ELSE IF valid_in THEN (ctr_reg + 1) % CtrMod
               ELSE ctr_reg

\* Mutant: a stage register loads on its own valid bit, not its input's.
StageLoadsLate(valid_in, ctr) ==
    /\ valid_pipe' =
           [s \in Stage |-> IF s = 0 THEN valid_in ELSE valid_pipe[s - 1]]
    /\ stage_reg' =
           [s \in Stage |->
               IF s = 0
               THEN IF valid_in THEN FirstRound(ctr, all_keys_reg)
                    ELSE stage_reg[0]
               ELSE IF valid_pipe[s]
                    THEN Round(stage_reg[s - 1], all_keys_reg)
                    ELSE stage_reg[s]]

\* valid_pipe shifts always, a stage register loads when its input is valid.
CipherClk(valid_in, ctr) ==
    /\ valid_pipe' =
           [s \in Stage |-> IF s = 0 THEN valid_in ELSE valid_pipe[s - 1]]
    /\ stage_reg' =
           [s \in Stage |->
               IF s = 0
               THEN IF valid_in THEN FirstRound(ctr, all_keys_reg)
                    ELSE stage_reg[0]
               ELSE IF valid_pipe[s - 1]
                    THEN Round(stage_reg[s - 1], all_keys_reg)
                    ELSE stage_reg[s]]

ShiftWhenValid(p) ==     \* mutant: the payload stops while nothing comes in
    payload_pipe' =
        [s \in Stage |-> IF p = NoPayload THEN payload_pipe[s]
                         ELSE IF s = 0 THEN p ELSE payload_pipe[s - 1]]

\* data_pipe, last_pipe and keep_pipe shift on every edge.
PayloadClk(p) ==
    payload_pipe' =
        [s \in Stage |-> IF s = 0 THEN p ELSE payload_pipe[s - 1]]

\* The bookkeeping of the ghosts.
GhostClk(ctr_load, ctr_init, valid_in) ==
    /\ base' = IF ctr_load THEN ctr_init ELSE base
    /\ count' = (IF ctr_load THEN 0 ELSE count) + (IF valid_in THEN 1 ELSE 0)

StreamClk(key_load, k, ctr_load, ctr_init, valid_in, p) ==
    /\ CounterClk(ctr_load, ctr_init, valid_in)
    /\ all_keys_reg' = IF key_load THEN k ELSE all_keys_reg
    /\ CipherClk(valid_in, ctr_for_aes(ctr_load, ctr_init))
    /\ PayloadClk(p)
    /\ GhostClk(ctr_load, ctr_init, valid_in)

-----------------------------------------------------------------------------
(***************************************************************************)
(* The environment keeps the rule the source states for key_load, a clock  *)
(* or more before the first block, in the form the pipeline needs: no      *)
(* block enters with it and none is in a stage with two rounds to go, for  *)
(* it would meet the new key in the last of them.                          *)
(***************************************************************************)
KeyLoadAllowed == \A s \in Stage : s + 2 < Depth => ~valid_pipe[s]

Idle ==
    \E key_load, ctr_load \in BOOLEAN, k \in Key, c \in 0 .. CtrMod - 1 :
        /\ key_load => KeyLoadAllowed
        /\ StreamClk(key_load, k, ctr_load, c, FALSE, NoPayload)

Accept ==
    \E ctr_load \in BOOLEAN, k \in Key, c \in 0 .. CtrMod - 1, p \in Payload :
        /\ ctr_load \/ count < MaxBlocks
        /\ StreamClk(FALSE, k, ctr_load, c, TRUE, p)

Next == Idle \/ Accept \/ Reset

Spec == Init /\ [][Next]_vars

-----------------------------------------------------------------------------
TypeOK ==
    /\ ctr_reg \in 0 .. CtrMod - 1 /\ base \in 0 .. CtrMod - 1 /\ count \in Nat
    /\ all_keys_reg \in Key \cup {NoKey}
    /\ stage_reg \in [Stage -> [ctr : 0 .. CtrMod - 1,
                                key : Key \cup {NoKey, Mixed},
                                rounds : 0 .. Depth]]
    /\ valid_pipe \in [Stage -> BOOLEAN]
    /\ payload_pipe \in [Stage -> Payload \cup {NoPayload}]

(***************************************************************************)
(* Every valid stage holds a block under a single key, the one in force    *)
(* now, with as many rounds as it has passed; in particular the keystream  *)
(* delivered with valid_out went through all the rounds of one key.        *)
(***************************************************************************)
OneKeyPerBlock ==
    \A s \in Stage : valid_pipe[s] =>
        /\ stage_reg[s].rounds = s + 1
        /\ stage_reg[s].key # Mixed
        /\ s < Depth - 1 => stage_reg[s].key = all_keys_reg

(***************************************************************************)
(* The counter register is the counter loaded last plus the blocks taken   *)
(* since, also when a load and a block meet in one cycle.                  *)
(***************************************************************************)
CounterInStep == ctr_reg = (base + count) % CtrMod

(***************************************************************************)
(* The detailed pipeline implements the delay line: what leaves at the far *)
(* end is the payload paired with its own counter and key, exactly Depth   *)
(* edges after it entered.                                                 *)
(***************************************************************************)
Line == INSTANCE CtrDelayLine WITH
            key  <- all_keys_reg,
            line <- [s \in Stage |->
                        IF valid_pipe[s]
                        THEN [payload |-> payload_pipe[s],
                              ctr |-> stage_reg[s].ctr,
                              key |-> stage_reg[s].key]
                        ELSE None]

ImplementsDelayLine == Line!Spec
=============================================================================
