------------------------------- MODULE Config -------------------------------
(***************************************************************************)
(* How the settings of the server come about: the presets of NewConfig,    *)
(* the YAML file over them, perhaps the env-default tags where that leaves *)
(* a zero, the validation, and the options with their own fallbacks        *)
(* through which CreateTCPNetwork hands them to NewTCPServer.              *)
(*                                                                         *)
(* A YAML file is a function from the settings it gives.  Numbers are in   *)
(* the units of the code: bytes, counts, milliseconds for the flusher's    *)
(* timeout and seconds for the idle timeout.                               *)
(***************************************************************************)
EXTENDS Integers

CONSTANT
  EnvDefaultsApply  \* cleanenv follows the pointers of Config to the env-default
                    \* tags of NetworkConfig and WalConfig

ASSUME ConfigAssumption == EnvDefaultsApply \in BOOLEAN

NetworkPreset ==
  [MaxConnections |-> 100, MaxMessageSize |-> 4096, IdleTimeout |-> 300,
   BufferSize |-> 4096]

WalPreset ==
  [FlushingBatchTimeout |-> 10, FlushingBatchCount |-> 2,
   FlushingBatchVolume |-> 10485760, MaxSegmentSize |-> 1073741824]

NetworkFields == DOMAIN NetworkPreset
WalFields == DOMAIN WalPreset

\* The numbers that NewConfig fills in before it reads anything.
Preset ==
  [f \in NetworkFields \cup WalFields |->
     IF f \in NetworkFields THEN NetworkPreset[f] ELSE WalPreset[f]]

\* The env-default tags.  They differ from the presets in one number.
EnvDefault == [Preset EXCEPT !.FlushingBatchCount = 100]

\* cleanenv.ReadConfig: the file over the presets; where EnvDefaultsApply, a
\* field that is zero then takes its env-default, even when the file says zero.
ReadConfig(given) ==
  [f \in DOMAIN Preset |->
     LET read == IF f \in DOMAIN given THEN given[f] ELSE Preset[f]
     IN  IF read = 0 /\ EnvDefaultsApply THEN EnvDefault[f] ELSE read]

\* The same for mask_name, whose zero is the empty string.
ReadMaskName(given) ==
  LET read == IF "MaskName" \in DOMAIN given THEN given.MaskName ELSE "segment_"
  IN  IF read = "" /\ EnvDefaultsApply THEN "wal_" ELSE read

\* Mutant: the tag is required, which only zero fails, in the place of gt=0.
ValidateNone(given) == \A f \in DOMAIN Preset : ReadConfig(given)[f] # 0

\* validator.Struct: every number has the tag gt=0, mask_name is required.
Validate(given) ==
  /\ \A f \in DOMAIN Preset : ReadConfig(given)[f] > 0
  /\ ReadMaskName(given) # ""

-----------------------------------------------------------------------------
\* The options of NewTCPServer replace negative values.
WithServerTCPIdleTimeout(timeout) == IF timeout < 0 THEN 300 ELSE timeout
WithServerTCPMaxConnectionNumber(n) == IF n < 0 THEN 100 ELSE n
WithServerTCPBufferSize(n) == IF n < 0 THEN 4098 ELSE n

\* CreateTCPNetwork replaces zeros, then passes the options.
CreateTCPNetwork(cfg) ==
  [IdleTimeout |->
     WithServerTCPIdleTimeout(IF cfg.IdleTimeout # 0 THEN cfg.IdleTimeout ELSE 600),
   MaxConnections |->
     WithServerTCPMaxConnectionNumber(
       IF cfg.MaxConnections # 0 THEN cfg.MaxConnections ELSE 10),
   BufferSize |->
     WithServerTCPBufferSize(IF cfg.BufferSize # 0 THEN cfg.BufferSize ELSE 4096)]

\* NewTCPServer returns an error for these.
NewTCPServerRefuses(server) == server.MaxConnections = 0 \/ server.BufferSize = 0

=============================================================================
