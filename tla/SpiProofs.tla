------------------------------ MODULE SpiProofs ------------------------------
(***************************************************************************)
(* The two-pointer protocol of the SPI peripherals, for any number of      *)
(* instances on a bus and any frequencies and modes hosts may ask for.     *)
(***************************************************************************)
EXTENDS Spi, TLAPS

\* Frequency and bit order survive everything; the mode until it is lost.
SettingsInv ==
    \A x \in Inst : \A c \in {0, 1} :
        /\ configs[x][c].freq = requested[x].freq
        /\ configs[x][c].msb = requested[x].msb
        /\ ~mode_lost[x] => configs[x][c].mode = requested[x].mode

\* The driver's pointer, if it is to x, is to the spi_config in use, and the
\* hardware has it unless a setter has run since.
PointerInv ==
    \A x \in Inst : ~change_lost[x] =>
        /\ ctx # <<x, 1 - curr_cfg[x]>>
        /\ ~mode_lost[x] /\ ~stale[x] /\ ctx = <<x, curr_cfg[x]>> => hw = requested[x]

\* What the two say together: if the driver would take its last pointer for x's
\* next transfer as already configured, it is.
PointerMeansConfigured ==
    \A x \in Inst : Sound(x) =>
        /\ \A c \in {0, 1} : configs[x][c] = requested[x]
        /\ ctx = <<x, NextConfig(x)>> => hw = requested[x]

IInv == TypeOK /\ SettingsInv /\ PointerInv

LEMMA InitIInv == Init => IInv
<1> SUFFICES ASSUME Init PROVE IInv
  OBVIOUS
<1>1. DefaultConfig \in Config
  BY SpiAssumption DEF DefaultConfig, Config
<1>2. TypeOK
  BY <1>1 DEF Init, TypeOK
<1>3. SettingsInv
  BY DEF Init, SettingsInv
<1>4. PointerInv
  BY SpiAssumption DEF Init, PointerInv
<1>. QED
  BY <1>2, <1>3, <1>4 DEF IInv

\* Two configurations with the same settings are the same.
LEMMA ConfigEquality ==
    ASSUME NEW a \in Config, NEW b \in Config,
           a.freq = b.freq, a.mode = b.mode, a.msb = b.msb
    PROVE  a = b
BY DEF Config

\* What the setters make of a configuration.
LEMMA WithFreq ==
    ASSUME NEW a \in Config, NEW f \in Freqs
    PROVE  LET b == [a EXCEPT !.freq = f]
           IN  b \in Config /\ b.freq = f /\ b.mode = a.mode /\ b.msb = a.msb
BY DEF Config

LEMMA WithMode ==
    ASSUME NEW a \in Config, NEW m \in 0..3
    PROVE  LET b == [a EXCEPT !.mode = m]
           IN  b \in Config /\ b.freq = a.freq /\ b.mode = m /\ b.msb = a.msb
BY DEF Config

LEMMA WithMsb ==
    ASSUME NEW a \in Config, NEW o \in BOOLEAN
    PROVE  LET b == [a EXCEPT !.msb = o]
           IN  b \in Config /\ b.freq = a.freq /\ b.mode = a.mode /\ b.msb = o
BY DEF Config

LEMMA WithOperation ==
    ASSUME NEW a \in Config, NEW m \in 0..3, NEW o \in BOOLEAN
    PROVE  LET b == [a EXCEPT !.mode = m, !.msb = o]
           IN  b \in Config /\ b.freq = a.freq /\ b.mode = m /\ b.msb = o
BY DEF Config

LEMMA SetStep ==
    ASSUME IInv, NEW x \in Inst,
           SetFreq(x) \/ SetMode(x) \/ SetModeInvalid(x) \/ SetBitorder(x)
    PROVE  IInv'
<1> USE DEF IInv
<1>0. \A y \in Inst : /\ requested[y] \in Config
                      /\ \A c \in {0, 1} : configs[y][c] \in Config
  BY DEF TypeOK
<1>1. CASE SetFreq(x)
  <2>1. PICK f \in Freqs :
          /\ configs' = [configs EXCEPT ![x] = [c \in {0, 1} |-> [configs[x][c] EXCEPT !.freq = f]]]
          /\ requested' = [requested EXCEPT ![x] = [requested[x] EXCEPT !.freq = f]]
    BY <1>1 DEF SetFreq
  <2>2. TypeOK'
    BY <1>0, <1>1, <2>1, WithFreq DEF SetFreq, TypeOK
  <2>3. SettingsInv'
    BY <1>0, <1>1, <2>1, WithFreq DEF SetFreq, SettingsInv, TypeOK
  <2>4. PointerInv'
    BY <1>1, <2>1 DEF SetFreq, PointerInv, TypeOK
  <2>. QED
    BY <2>2, <2>3, <2>4
<1>2. CASE SetMode(x)
  <2> DEFINE o == configs[x][0].msb
  <2>1. PICK m \in 0..3 :
          /\ configs' = [configs EXCEPT ![x] =
                           [c \in {0, 1} |-> [configs[x][c] EXCEPT !.mode = m, !.msb = o]]]
          /\ requested' = [requested EXCEPT ![x] = [requested[x] EXCEPT !.mode = m]]
    BY <1>2 DEF SetMode, CopyOperation
  <2>2. o \in BOOLEAN /\ o = requested[x].msb
    BY <1>0 DEF Config, SettingsInv
  <2> HIDE DEF o
  <2>3. TypeOK'
    BY <1>0, <1>2, <2>1, <2>2, WithOperation, WithMode DEF SetMode, TypeOK
  <2>4. SettingsInv'
    <3>1. \A c \in {0, 1} : /\ configs'[x][c].freq = configs[x][c].freq
                            /\ configs'[x][c].mode = m
                            /\ configs'[x][c].msb = o
      <4>1. \A c \in {0, 1} :
              configs'[x][c] = [configs[x][c] EXCEPT !.mode = m, !.msb = o]
        BY <2>1 DEF TypeOK
      <4>. QED
        BY <1>0, <2>2, <4>1 DEF Config
    <3>2. /\ requested'[x].freq = requested[x].freq
          /\ requested'[x].mode = m
          /\ requested'[x].msb = requested[x].msb
      <4>1. requested'[x] = [requested[x] EXCEPT !.mode = m]
        BY <2>1 DEF TypeOK
      <4>. QED
        BY <1>0, <2>1, <4>1 DEF Config
    <3>3. \A y \in Inst \ {x} : /\ configs'[y] = configs[y]
                                /\ requested'[y] = requested[y]
                                /\ mode_lost'[y] = mode_lost[y]
      BY <1>2, <2>1 DEF SetMode, TypeOK
    <3>4. mode_lost'[x] = FALSE
      BY <1>2 DEF SetMode, TypeOK
    <3>. QED
      BY <2>2, <3>1, <3>2, <3>3, <3>4 DEF SettingsInv
  <2>5. PointerInv'
    BY <1>2, <2>1 DEF SetMode, PointerInv, TypeOK
  <2>. QED
    BY <2>3, <2>4, <2>5
<1>3. CASE SetModeInvalid(x)
  <2>1. configs' = [configs EXCEPT ![x] =
                     [c \in {0, 1} |-> IF c = 0 THEN [configs[x][c] EXCEPT !.mode = 0]
                                                ELSE configs[x][c]]]
    BY <1>3 DEF SetModeInvalid
  <2>0. 0 \in 0..3
    OBVIOUS
  <2>2. \A c \in {0, 1} : /\ configs'[x][c] \in Config
                         /\ configs'[x][c].freq = configs[x][c].freq
                         /\ configs'[x][c].msb = configs[x][c].msb
    <3>1. \A c \in {0, 1} : \/ configs'[x][c] = [configs[x][c] EXCEPT !.mode = 0]
                           \/ configs'[x][c] = configs[x][c]
      BY <2>1 DEF TypeOK
    <3>. QED
      BY <1>0, <2>0, <3>1 DEF Config
  <2>3. \A y \in Inst \ {x} : configs'[y] = configs[y]
    BY <2>1 DEF TypeOK
  <2>5. TypeOK'
    <3>1. configs' \in [Inst -> [{0, 1} -> Config]]
      BY <1>0, <2>1, <2>2 DEF TypeOK
    <3>. QED
      BY <1>3, <3>1 DEF SetModeInvalid, TypeOK
  <2>6. SettingsInv'
    <3>1. UNCHANGED requested /\ mode_lost' = [mode_lost EXCEPT ![x] = TRUE]
      BY <1>3 DEF SetModeInvalid
    <3>. QED
      BY <2>2, <2>3, <3>1 DEF SettingsInv, TypeOK
  <2>4. PointerInv'
    BY <1>3 DEF SetModeInvalid, PointerInv, TypeOK
  <2>. QED
    BY <2>5, <2>6, <2>4
<1>4. CASE SetBitorder(x)
  <2> DEFINE m == configs[x][0].mode
  <2>1. PICK o \in BOOLEAN :
          /\ configs' = [configs EXCEPT ![x] =
                           [c \in {0, 1} |-> [configs[x][c] EXCEPT !.mode = m, !.msb = o]]]
          /\ requested' = [requested EXCEPT ![x] = [requested[x] EXCEPT !.msb = o]]
    BY <1>4 DEF SetBitorder, CopyOperation
  <2>2. m \in 0..3 /\ (~mode_lost[x] => m = requested[x].mode)
    BY <1>0 DEF Config, SettingsInv
  <2> HIDE DEF m
  <2>3. TypeOK'
    BY <1>0, <1>4, <2>1, <2>2, WithOperation, WithMsb DEF SetBitorder, TypeOK
  <2>4. SettingsInv'
    <3>1. \A c \in {0, 1} : /\ configs'[x][c].freq = configs[x][c].freq
                            /\ configs'[x][c].mode = m
                            /\ configs'[x][c].msb = o
      <4>1. \A c \in {0, 1} :
              configs'[x][c] = [configs[x][c] EXCEPT !.mode = m, !.msb = o]
        BY <2>1 DEF TypeOK
      <4>. QED
        BY <1>0, <2>2, <4>1 DEF Config
    <3>2. /\ requested'[x].freq = requested[x].freq
          /\ requested'[x].mode = requested[x].mode
          /\ requested'[x].msb = o
      <4>1. requested'[x] = [requested[x] EXCEPT !.msb = o]
        BY <2>1 DEF TypeOK
      <4>. QED
        BY <1>0, <2>1, <4>1 DEF Config
    <3>3. \A y \in Inst \ {x} : /\ configs'[y] = configs[y]
                                /\ requested'[y] = requested[y]
                                /\ mode_lost'[y] = mode_lost[y]
      BY <1>4, <2>1 DEF SetBitorder, TypeOK
    <3>4. mode_lost'[x] = mode_lost[x]
      BY <1>4 DEF SetBitorder, TypeOK
    <3>. QED
      BY <2>2, <3>1, <3>2, <3>3, <3>4 DEF SettingsInv
  <2>5. PointerInv'
    BY <1>4, <2>1 DEF SetBitorder, PointerInv, TypeOK
  <2>. QED
    BY <2>3, <2>4, <2>5
<1>. QED
  BY <1>1, <1>2, <1>3, <1>4

LEMMA TransferStep ==
    ASSUME IInv, NEW x \in Inst, Transfer(x) \/ TransferRefused(x) \/ TransferTooLong(x)
    PROVE  IInv'
<1> USE DEF IInv, UpdateConfig
<1>1. NextConfig(x) \in {0, 1} /\ curr_cfg[x] \in {0, 1} /\ stale[x] \in BOOLEAN
  BY DEF NextConfig, TypeOK
<1>2. CASE TransferConfigured(x)
  <2>1. TypeOK'
    BY <1>1, <1>2 DEF TransferConfigured, TypeOK
  <2>2. SettingsInv'
    BY <1>2 DEF TransferConfigured, SettingsInv
  <2>3. PointerInv'
    BY <1>1, <1>2 DEF TransferConfigured, PointerInv, NextConfig, TypeOK
  <2>. QED
    BY <2>1, <2>2, <2>3
<1>3. CASE TransferReconfigured(x)
  <2>1. configs[x][NextConfig(x)] \in Config /\ requested[x] \in Config
    BY <1>1 DEF TypeOK
  <2>2. TypeOK'
    BY <1>1, <1>3, <2>1 DEF TransferReconfigured, TypeOK
  <2>3. SettingsInv'
    BY <1>3 DEF TransferReconfigured, SettingsInv
  <2>4. ~mode_lost[x] => hw' = requested[x]
    BY <1>1, <1>3, <2>1, ConfigEquality DEF TransferReconfigured, SettingsInv
  <2>5. PointerInv'
    BY <1>1, <1>3, <2>4 DEF TransferReconfigured, PointerInv, TypeOK
  <2>. QED
    BY <2>2, <2>3, <2>5
<1>4. CASE TransferRefused(x)
  <2>1. TypeOK'
    BY <1>1, <1>4 DEF TransferRefused, TypeOK
  <2>2. SettingsInv'
    BY <1>4 DEF TransferRefused, SettingsInv
  <2>3. PointerInv'
    BY <1>1, <1>4 DEF TransferRefused, PointerInv, TypeOK
  <2>. QED
    BY <2>1, <2>2, <2>3
<1>5. CASE TransferTooLong(x)
  BY <1>5 DEF TransferTooLong, TypeOK, SettingsInv, PointerInv
<1>. QED
  BY <1>2, <1>3, <1>4, <1>5 DEF Transfer

THEOREM Invariance == Spec => []IInv
<1>1. IInv /\ [Next]_vars => IInv'
  <2>1. ASSUME IInv, UNCHANGED vars PROVE IInv'
    BY <2>1 DEF IInv, vars, TypeOK, SettingsInv, PointerInv
  <2>. QED
    BY <2>1, SetStep, TransferStep DEF Next
<1>. QED
  BY InitIInv, <1>1, PTL DEF Spec

(***************************************************************************)
(* Type correctness of the SPI peripherals: each is always at one of its two *)
(* configurations, and the driver's pointer is to one of them or nowhere.  *)
(***************************************************************************)
THEOREM TypeCorrect == Spec => []TypeOK
BY Invariance, PTL DEF IInv

(***************************************************************************)
(* While no call has been refused, a pointer the driver takes as already   *)
(* configured stands for hardware that is.                                 *)
(***************************************************************************)
THEOREM PointerProtocol == Spec => []PointerMeansConfigured
<1>1. IInv => PointerMeansConfigured
  <2> SUFFICES ASSUME IInv, NEW x \in Inst, Sound(x)
               PROVE  /\ \A c \in {0, 1} : configs[x][c] = requested[x]
                      /\ ctx = <<x, NextConfig(x)>> => hw = requested[x]
    BY DEF PointerMeansConfigured
  <2> USE DEF IInv, Sound
  <2>1. requested[x] \in Config /\ \A c \in {0, 1} : configs[x][c] \in Config
    BY DEF TypeOK
  <2>2. \A c \in {0, 1} : configs[x][c] = requested[x]
    BY <2>1, ConfigEquality DEF SettingsInv
  <2>3. curr_cfg[x] \in {0, 1} /\ stale[x] \in BOOLEAN
    BY DEF TypeOK
  <2>4. ctx = <<x, NextConfig(x)>> => hw = requested[x]
    BY <2>3 DEF PointerInv, NextConfig
  <2>. QED
    BY <2>2, <2>4
<1>. QED
  BY <1>1, Invariance, PTL

(***************************************************************************)
(* While no call has been refused, every transfer uses the settings its    *)
(* hosts were told are set.                                                *)
(***************************************************************************)
THEOREM Transfers == Spec => TransfersAsRequested
<1>1. PointerMeansConfigured /\ TypeOK /\ [Next]_vars =>
        [\A x \in Inst : Sound(x) /\ Transfer(x) => hw' = requested[x]]_vars
  <2> SUFFICES ASSUME PointerMeansConfigured, TypeOK, NEW x \in Inst, Sound(x), Transfer(x)
               PROVE  hw' = requested[x]
    OBVIOUS
  <2>1. NextConfig(x) \in {0, 1}
    BY DEF NextConfig, TypeOK
  <2>2. CASE TransferConfigured(x)
    BY <2>2 DEF TransferConfigured, PointerMeansConfigured
  <2>3. CASE TransferReconfigured(x)
    BY <2>1, <2>3 DEF TransferReconfigured, PointerMeansConfigured
  <2>. QED
    BY <2>2, <2>3 DEF Transfer
<1>. QED
  BY <1>1, PointerProtocol, Invariance, PTL DEF Spec, IInv, TransfersAsRequested
=============================================================================
