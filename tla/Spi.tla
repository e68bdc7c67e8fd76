-------------------------------- MODULE Spi --------------------------------
(***************************************************************************)
(* The SPI peripherals of one bus (firmware/src/peripherals/spi.c).  Their *)
(* functions exclude each other: instances on one bus share its lock.      *)
(*                                                                         *)
(* "SPI API uses pointer comparison to know when to update the config"     *)
(* (spi.c:24): the bus driver reprograms the hardware only when it is      *)
(* given another spi_config than last time, so every instance owns two     *)
(* and switches between them after a change.                               *)
(***************************************************************************)
EXTENDS Integers

CONSTANTS
    Inst,           \* the instances on the bus
    Freqs,          \* frequencies hosts ask for
    Supported,      \* those the driver can configure
    Modes,          \* modes hosts ask for; 0..3 are valid
    DefaultFreq     \* what GEN_SPI_DEV_DATA sets

CONSTANTS NoErr, InvalidArgsErr, PeripheralErr, NoPointer

ASSUME SpiAssumption ==
    /\ DefaultFreq \in Freqs \cap Supported
    /\ Modes \subseteq Nat
    /\ NoPointer \notin Inst \X {0, 1}

Config == [freq : Freqs, mode : 0..3, msb : BOOLEAN]

\* GEN_SPI_DEV_DATA: mode 0, most significant bit first.
DefaultConfig == [freq |-> DefaultFreq, mode |-> 0, msb |-> TRUE]

VARIABLES
    configs,        \* configs[x][0], configs[x][1]
    curr_cfg,       \* curr_cfg[x]: the one in use
    stale,          \* stale[x]: a setter has run since the last transfer
    ctx,            \* driver: pointer to the spi_config it was given last
    hw,             \* driver: what the hardware is programmed with
    retcode,        \* result of the last function
    requested,      \* requested[x]: the settings x's hosts were told are set
    mode_lost,      \* mode_lost[x]: a set_mode was refused, and none has succeeded since
    change_lost     \* change_lost[x]: the driver refused a changed spi_config of x, and
                    \* has not taken one of x since

vars == <<configs, curr_cfg, stale, ctx, hw, retcode, requested, mode_lost, change_lost>>
-----------------------------------------------------------------------------
Init == /\ configs = [x \in Inst |-> [c \in {0, 1} |-> DefaultConfig]]
        /\ curr_cfg = [x \in Inst |-> 0]
        /\ stale = [x \in Inst |-> FALSE]
        /\ ctx = NoPointer
        /\ hw = DefaultConfig
        /\ retcode = NoErr
        /\ requested = [x \in Inst |-> DefaultConfig]
        /\ mode_lost = [x \in Inst |-> FALSE]
        /\ change_lost = [x \in Inst |-> FALSE]

SetFreq(x) == \E f \in Freqs :
    /\ configs' = [configs EXCEPT ![x] = [c \in {0, 1} |-> [@[c] EXCEPT !.freq = f]]]
    /\ stale' = [stale EXCEPT ![x] = TRUE]
    /\ requested' = [requested EXCEPT ![x].freq = f]
    /\ retcode' = NoErr
    /\ UNCHANGED <<curr_cfg, ctx, hw, mode_lost, change_lost>>

\* operation is one word: configs[1] takes mode and bit order of configs[0].
CopyOperation(x, m, b) ==
    [configs EXCEPT ![x] = [c \in {0, 1} |-> [@[c] EXCEPT !.mode = m, !.msb = b]]]

\* Mutant of SetMode: the default case is missing.
SetModeUnchecked(x) == \E m \in Modes :
    /\ configs' = CopyOperation(x, m, configs[x][0].msb)
    /\ stale' = [stale EXCEPT ![x] = TRUE]
    /\ requested' = [requested EXCEPT ![x].mode = m]
    /\ mode_lost' = [mode_lost EXCEPT ![x] = FALSE]
    /\ retcode' = NoErr
    /\ UNCHANGED <<curr_cfg, ctx, hw, change_lost>>

SetMode(x) == \E m \in Modes \cap 0..3 :
    /\ configs' = CopyOperation(x, m, configs[x][0].msb)
    /\ stale' = [stale EXCEPT ![x] = TRUE]
    /\ requested' = [requested EXCEPT ![x].mode = m]
    /\ mode_lost' = [mode_lost EXCEPT ![x] = FALSE]
    /\ retcode' = NoErr
    /\ UNCHANGED <<curr_cfg, ctx, hw, change_lost>>

\* The default case: the mode bits of configs[0] are gone already (line 66).
SetModeInvalid(x) ==
    /\ Modes \ 0..3 # {}
    /\ configs' = [configs EXCEPT ![x] =
                    [c \in {0, 1} |-> IF c = 0 THEN [@[c] EXCEPT !.mode = 0] ELSE @[c]]]
    /\ mode_lost' = [mode_lost EXCEPT ![x] = TRUE]
    /\ retcode' = InvalidArgsErr
    /\ UNCHANGED <<curr_cfg, stale, ctx, hw, requested, change_lost>>

SetBitorder(x) == \E b \in BOOLEAN :
    /\ configs' = CopyOperation(x, configs[x][0].mode, b)
    /\ stale' = [stale EXCEPT ![x] = TRUE]
    /\ requested' = [requested EXCEPT ![x].msb = b]
    /\ retcode' = NoErr
    /\ UNCHANGED <<curr_cfg, ctx, hw, mode_lost, change_lost>>

\* Mutant of NextConfig: no change of pointer.
SameConfig(x) == curr_cfg[x]

\* spi_update_config.
NextConfig(x) == IF stale[x] THEN 1 - curr_cfg[x] ELSE curr_cfg[x]

\* spi_write_j, spi_read_j and spi_transceive_j: the driver compares pointers,
\* programs the hardware if they differ, and transfers.  Either may fail; a
\* configuration that the driver refuses leaves its pointer where it was.
UpdateConfig(x) ==
    /\ curr_cfg' = [curr_cfg EXCEPT ![x] = NextConfig(x)]
    /\ stale' = [stale EXCEPT ![x] = FALSE]
    /\ UNCHANGED <<configs, requested, mode_lost>>

TransferConfigured(x) ==
    /\ UpdateConfig(x)
    /\ ctx = <<x, NextConfig(x)>>
    /\ retcode' \in {NoErr, PeripheralErr}
    /\ UNCHANGED <<ctx, hw, change_lost>>

TransferReconfigured(x) ==
    /\ UpdateConfig(x)
    /\ ctx # <<x, NextConfig(x)>>
    /\ configs[x][NextConfig(x)].freq \in Supported
    /\ ctx' = <<x, NextConfig(x)>>
    /\ hw' = configs[x][NextConfig(x)]
    /\ change_lost' = [change_lost EXCEPT ![x] = FALSE]
    /\ retcode' \in {NoErr, PeripheralErr}

TransferRefused(x) ==
    /\ UpdateConfig(x)
    /\ ctx # <<x, NextConfig(x)>>
    /\ configs[x][NextConfig(x)].freq \notin Supported
    /\ change_lost' = [change_lost EXCEPT ![x] = TRUE]
    /\ retcode' = PeripheralErr
    /\ UNCHANGED <<ctx, hw>>

Transfer(x) == TransferConfigured(x) \/ TransferReconfigured(x)

\* A read or transceive longer than a response returns before the update.
TransferTooLong(x) ==
    /\ retcode' = InvalidArgsErr
    /\ UNCHANGED <<configs, curr_cfg, stale, ctx, hw, requested, mode_lost, change_lost>>

Next == \E x \in Inst :
          \/ SetFreq(x) \/ SetMode(x) \/ SetModeInvalid(x) \/ SetBitorder(x)
          \/ Transfer(x) \/ TransferRefused(x) \/ TransferTooLong(x)

Spec == Init /\ [][Next]_vars
-----------------------------------------------------------------------------
TypeOK == /\ configs \in [Inst -> [{0, 1} -> Config]]
          /\ curr_cfg \in [Inst -> {0, 1}]
          /\ stale \in [Inst -> BOOLEAN]
          /\ ctx \in (Inst \X {0, 1}) \cup {NoPointer}
          /\ hw \in Config
          /\ retcode \in {NoErr, InvalidArgsErr, PeripheralErr}
          /\ requested \in [Inst -> Config]
          /\ mode_lost \in [Inst -> BOOLEAN]
          /\ change_lost \in [Inst -> BOOLEAN]

\* x's settings and the driver's idea of them have survived the refused calls.
Sound(x) == ~mode_lost[x] /\ ~change_lost[x]

(***************************************************************************)
(* A transfer of x that succeeds is clocked with the settings the hosts of *)
(* x were told are set, though the driver looks only at the pointer and    *)
(* another instance may have used the bus in between.  It is promised only *)
(* while Sound(x): a refused mode costs it until a mode is set again, and  *)
(* a configuration refused by the driver until the driver takes a new one. *)
(***************************************************************************)
TransfersAsRequested ==
    [][\A x \in Inst : Sound(x) /\ Transfer(x) => hw' = requested[x]]_vars
=============================================================================
