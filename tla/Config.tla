------------------------------- MODULE Config -------------------------------
(***************************************************************************)
(* The configuration of cmd/can-server: parseFlags, applyEnvOverrides,      *)
(* validate, what main does with the result, and the defaults that the      *)
(* layers below main keep for values they do not accept.                    *)
(*                                                                         *)
(* An option is known by its kind.  A value is what the code can tell       *)
(* apart: the sign of a number or of a duration, a word, the empty string,  *)
(* text that is no number ("garbage").                                      *)
(***************************************************************************)
EXTENDS Integers, Sequences

CONSTANTS Options,      \* names of the flags
          Kind,         \* Kind[o]: how option o is parsed and validated
          Default,      \* Default[o]: its built-in default
          CommandLines, \* sequences of [name, value]
          Environments, \* functions from Options to values or Absent
          Absent        \* the environment variable is not there

Kinds == {"text", "address", "listen", "enum", "device", "positive", "natural", "interval",
          "bool", "version"}
Positive == {"one", "two"}
Numeric == {"device", "positive", "natural", "interval"}

\* The values that make sense for a kind.
InRange(k, v) ==
    CASE k \in {"device", "positive"} -> v \in Positive
      [] k = "natural" -> v \in Positive \cup {"zero"}
      [] k = "enum" -> v \in {"first", "second"}
      [] OTHER -> TRUE

ASSUME KindAssumption == Kind \in [Options -> Kinds]
ASSUME AbsentAssumption == Absent # "garbage"
ASSUME DefaultAssumption == \A o \in Options : InRange(Kind[o], Default[o])

VARIABLES args,  \* os.Args
          env,   \* the environment
          step,  \* where parseFlags and main are
          set,   \* setFlags: the flags given on the command line
          cfg    \* the fields of appConfig

vars == <<args, env, step, set, cfg>>

Init ==
    /\ args \in CommandLines /\ env \in Environments
    /\ step = "parse"
    /\ set = {} /\ cfg = Default

-----------------------------------------------------------------------------
\* Package flag.  A Boolean flag written without "=" ("-mdns-enable true", here
\* "apart") is set to true, and the word after it ends the flags.
Parsed(a) == {i \in DOMAIN a : \A j \in 1..(i - 1) : a[j].value # "apart"}

FlagGiven(a, o) == \E i \in Parsed(a) : a[i].name = o

\* The last of the flags with that name counts.
FlagValue(a, o) ==
    LET i == CHOOSE n \in Parsed(a) : /\ a[n].name = o
                                      /\ \A m \in Parsed(a) : a[m].name = o => m <= n
    IN  IF a[i].value = "apart" THEN "true" ELSE a[i].value

ParseFlags ==
    /\ step = "parse"
    /\ step' = "env"
    /\ set' = {o \in Options : FlagGiven(args, o)}
    /\ cfg' = [o \in Options |->
                 IF o \in set' THEN FlagValue(args, o) ELSE Default[o]]
    /\ UNCHANGED <<args, env>>

\* The value v of the environment replaces the field of an option of kind k.
\* Numbers out of range and words that are no Boolean are passed over in
\* silence.
Taken(k, v) ==
    CASE k \in {"text", "listen", "enum"} -> v # ""
      [] k = "address" -> TRUE
      [] k \in {"device", "positive"} -> v \in Positive
      [] k \in {"natural", "interval"} -> v \in Positive \cup {"zero"}
      [] k = "bool" -> v \in {"true", "false"}
      [] k = "version" -> FALSE

\* strconv.Atoi or time.ParseDuration fails on the value of the environment.
ParseError(o) == Kind[o] \in Numeric /\ env[o] = "garbage"

\* Faulty variant: the environment wins over the flags.
OverrideAlways(o) == env[o] # Absent

\* The environment is consulted for o: it has a value, and no flag does.
Override(o) == env[o] # Absent /\ o \notin set

\* firstErr: some number or duration that was consulted cannot be parsed.
FirstErr == \E o \in Options : Override(o) /\ ParseError(o)

\* All the overrides are applied, then the error is looked at: parseFlags
\* returns a nil configuration.
ApplyEnvOverrides ==
    /\ step = "env"
    /\ cfg' = [o \in Options |->
                 IF Override(o) /\ Taken(Kind[o], env[o]) THEN env[o] ELSE cfg[o]]
    /\ step' = IF FirstErr THEN "nil" ELSE "validate"
    /\ UNCHANGED <<args, env, set>>

Validate ==
    /\ step = "validate"
    /\ step' = IF \A o \in Options : InRange(Kind[o], cfg[o]) THEN "valid" ELSE "nil"
    /\ UNCHANGED <<args, env, set, cfg>>

\* main prints the version when showVersion is true, or goes on to
\* cfg.logFormat, which ends the process with a nil dereference when there is no
\* configuration.
Main ==
    /\ step \in {"nil", "valid"}
    /\ step' = IF \E o \in Options : Kind[o] = "version" /\ cfg[o] = "true"
               THEN "version"
               ELSE IF step = "nil" THEN "panic" ELSE "run"
    /\ UNCHANGED <<args, env, set, cfg>>

\* NewServer and Serve listen on ":0" when they are given no address: any free
\* port, which is also what net.Listen makes of the empty string.
Listening(k, v) == IF k = "listen" /\ v = "" THEN ":0" ELSE v

\* What the program works with: initHub, newClient, WithHandshakeTimeout,
\* WithReadDeadline and WithMaxClients put a default in the place of a value
\* they do not accept.  The options of the serial port go to it as they are.
Used(o) ==
    IF Kind[o] = "device" \/ InRange(Kind[o], cfg[o])
    THEN Listening(Kind[o], cfg[o]) ELSE Default[o]

Done == step \in {"version", "panic", "run"} /\ UNCHANGED vars

Next == ParseFlags \/ ApplyEnvOverrides \/ Validate \/ Main \/ Done

Spec == Init /\ [][Next]_vars

-----------------------------------------------------------------------------
(***************************************************************************)
(* Properties                                                               *)
(***************************************************************************)

\* Some Boolean flag has its value apart from it.
Detached(a) == \E i \in DOMAIN a : a[i].value = "apart"

\* A process that runs works with what it was given, "command-line flag >
\* environment variable > built-in default" (README.md:70), through all the
\* layers: a flag is never replaced, neither by the environment nor by a default
\* of a layer below; a usable environment value is taken when there is no flag;
\* and a number or duration that cannot be parsed is passed over only when a flag
\* makes it irrelevant.  Values that are passed over in silence (numbers out of
\* range, words that are no Boolean) leave the default.  It does not speak of
\* command lines with "-mdns-enable false": README.md:61 and package flag
\* disagree on what they mean.
RunsAsConfigured ==
    step = "run" /\ ~Detached(args) =>
        \A o \in Options :
            /\ Used(o) = Listening(Kind[o],
                   IF FlagGiven(args, o) THEN FlagValue(args, o)
                   ELSE IF env[o] # Absent /\ Taken(Kind[o], env[o]) THEN env[o]
                   ELSE Default[o])
            /\ ParseError(o) => FlagGiven(args, o)
=============================================================================
