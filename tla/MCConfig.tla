------------------------------ MODULE MCConfig ------------------------------
(***************************************************************************)
(* One option of each kind, up to two flags and up to two variables.        *)
(***************************************************************************)
EXTENDS Config

MCKind == [serial |-> "text", metrics_addr |-> "address", listen |-> "listen",
           hub_policy |-> "enum",
           baud |-> "device", handshake_timeout |-> "positive",
           max_clients |-> "natural", log_metrics_interval |-> "interval",
           mdns_enable |-> "bool", version |-> "version"]
MCOptions == DOMAIN MCKind
MCDefault == [serial |-> "first", metrics_addr |-> "", listen |-> "first",
              hub_policy |-> "first",
              baud |-> "one", handshake_timeout |-> "one",
              max_clients |-> "zero", log_metrics_interval |-> "zero",
              mdns_enable |-> "false", version |-> "false"]

\* What a flag of kind k can be given; package flag refuses the rest itself.
FlagValues(k) ==
    CASE k \in {"text", "address", "listen"} -> {"", "second"}
      [] k = "enum" -> {"", "second", "unknown"}
      [] k \in Numeric -> {"neg", "zero", "two"}
      [] k \in {"bool", "version"} -> {"true", "false", "apart"}

EnvValues(k) ==
    CASE k \in {"text", "address", "listen"} -> {"", "second"}
      [] k = "enum" -> {"", "second", "unknown"}
      [] k \in Numeric -> {"", "neg", "zero", "one", "two", "garbage"}
      [] k = "bool" -> {"", "true", "false", "garbage"}
      [] k = "version" -> {}

Flags == UNION {[name : {o}, value : FlagValues(MCKind[o])] : o \in MCOptions}
MCCommandLines == {<<>>} \cup {<<f>> : f \in Flags}
                         \cup {<<f, g>> : f \in Flags, g \in Flags}

Settings == UNION {{o} \X EnvValues(MCKind[o]) : o \in MCOptions}
MCEnvironments ==
    {[o \in MCOptions |-> IF o = p[1] THEN p[2] ELSE IF o = q[1] THEN q[2]
                          ELSE "absent"] : p, q \in Settings}
    \cup {[o \in MCOptions |-> "absent"]}
=============================================================================
